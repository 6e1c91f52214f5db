---------------------------- MODULE TradeRecord -----------------------------
(***************************************************************************)
(* What the close path owes its reader: positions of a leg open and close  *)
(* one after the other, and history gets at most one final record of each  *)
(* cycle, never one of a position that is still open.                      *)
(***************************************************************************)
EXTENDS Naturals

CONSTANTS Cycles, MaxPositions

VARIABLES position, opened, history

vars == <<position, opened, history>>

Init == position = 0 /\ opened = 0 /\ history = [c \in Cycles |-> 0]

Open ==
    /\ position = 0 /\ opened < MaxPositions
    /\ position' = opened + 1 /\ opened' = opened + 1
    /\ UNCHANGED history

Close == position # 0 /\ position' = 0 /\ UNCHANGED <<opened, history>>

(* A cycle with no known beginning (pos 0) may stand for any position.     *)
Record(c) ==
    /\ history[c] = 0
    /\ c.pos # 0 => position # c.pos
    /\ history' = [history EXCEPT ![c] = 1]
    /\ UNCHANGED <<position, opened>>

Next == Open \/ Close \/ \E c \in Cycles : Record(c)

Spec == Init /\ [][Next]_vars
=============================================================================

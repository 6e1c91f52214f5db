----------------------------- MODULE EntryOnce ------------------------------
(***************************************************************************)
(* What the execution-key protocol promises, without the protocol: an      *)
(* order is placed only for a key that is durably claimed, and at most one *)
(* order is ever placed for a key.  Claims may come and go, several at a   *)
(* time (the key file is rewritten as a whole), as long as the key of a    *)
(* placed order stays claimed.                                             *)
(***************************************************************************)
CONSTANTS Key, Order

VARIABLES
    claimed,   \* the durably claimed keys
    placed     \* the orders placed for each key

vars == <<claimed, placed>>

PlacedKeys == {k \in Key : placed[k] # {}}

Init ==
    /\ claimed = {}
    /\ placed = [k \in Key |-> {}]

Rewrite ==
    /\ claimed' \subseteq Key
    /\ PlacedKeys \subseteq claimed'
    /\ UNCHANGED placed

Place(k, o) ==
    /\ k \in claimed
    /\ placed[k] = {}
    /\ placed' = [placed EXCEPT ![k] = {o}]
    /\ UNCHANGED claimed

Next == Rewrite \/ \E k \in Key, o \in Order : Place(k, o)

Spec == Init /\ [][Next]_vars
=============================================================================

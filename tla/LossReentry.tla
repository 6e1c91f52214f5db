----------------------------- MODULE LossReentry -----------------------------
(***************************************************************************)
(* Entering a symbol again after a position of it was closed: the loss     *)
(* re-entry gates and the terminal re-entry barrier, on top of             *)
(* PositionClose.                                                          *)
(*                                                                         *)
(* The gates do not look at the exchange.  They read the newest trade of   *)
(* the closed history through a cache, which is refreshed between the      *)
(* reconciliation and the decisions of a tick when something was appended  *)
(* to the file.  The close pass comes after the decisions and the entries  *)
(* come last, so what an entry rests on may be older than the close of the *)
(* position before it.                                                     *)
(*                                                                         *)
(* PositionClose's OpenPosition is the entry on its leg; an entry on the   *)
(* other side of the symbol is a step that leaves this leg alone.          *)
(***************************************************************************)
EXTENDS PositionClose

CONSTANT NoTrade    \* no record yet

(* The newest record: the number of the position it is about, and isLoss   *)
(* of deriveLastLossReentryState, which depends on prices and on the exit. *)
Trades == [pos : 0..MaxPositions, loss : BOOLEAN]

ASSUME NoTradeAssumption == NoTrade \notin Trades

(* What a decision asks for: nothing, a position on this leg, one after a  *)
(* meaningful displacement of the price, one on the other side.            *)
Entries == {"same", "displaced", "opposite"}

VARIABLES
    decision,  \* the symbol's decision of this tick, "due" until it is made
    cached,    \* cachedHistory: its newest record
    dirty,     \* historyDirty
    newest,    \* positions/history.json: its newest record
    cool       \* closedAt of positions up to this one is five candles ago

gate == <<decision, cached, dirty>>
trade == <<newest, cool>>
allVars == <<vars, gate, trade>>

ReentryInit ==
    /\ Init
    /\ decision = "none" /\ cached = NoTrade /\ dirty = TRUE
    /\ newest = NoTrade /\ cool = 0

-----------------------------------------------------------------------------
(* What the code reads off its state.                                      *)

(* rowHasTerminalTransition, and the barrier for a symbol with one row.  A *)
(* row relabelled by close_only_mode keeps the order it waits for.         *)
InTransition(r) == r # NoRow /\ (r.finalize \/ r.order # NoOrder)

(* deriveLastLossReentryState on a history whose newest record is t.       *)
LastLoss(t) == t # NoTrade /\ t.loss

(* Five minutes and five completed candles since the trade was closed.     *)
Cooled(t) == t.pos <= cool

(* evaluateSameSideLossReentryGate: displacement needs no time, a fresh    *)
(* setup and a confirmed trend do.                                         *)
SameSideAllowed(t) == LastLoss(t) => Cooled(t)

(* evaluateOppositeSideLossReentryGate; the structural confirmation that   *)
(* it also asks for is a free choice.                                      *)
OppositeAllowedAtOnce(t) == TRUE
OppositeAllowed(t) == LastLoss(t) => Cooled(t)

Allowed(e, t) ==
    CASE e = "same" -> SameSideAllowed(t)
      [] e = "displaced" -> TRUE
      [] e = "opposite" -> OppositeAllowed(t)

(* appendClosedWithStandardRouting: a record appended now is the newest,   *)
(* and the cache is due for a refresh.  An adopted row that names no       *)
(* position is about the last one.                                         *)
Subject(c) == IF c.pos = 0 THEN opened ELSE c.pos
NewestNow ==
    IF history' = history THEN {newest}
    ELSE {[pos |-> Subject(c), loss |-> l] :
             c \in {d \in Cycles : history'[d] # history[d]}, l \in BOOLEAN}
AppendUnnoticed == newest' \in NewestNow /\ UNCHANGED dirty
Append == newest' \in NewestNow /\ dirty' = (dirty \/ history' # history)

-----------------------------------------------------------------------------
(* The tick.                                                               *)

StartTick ==
    /\ decision = "none" /\ BeginTick
    /\ decision' = "due"
    /\ UNCHANGED <<cached, dirty, trade>>

Reconcile ==
    /\ NotDue \/ NotReady \/ FetchFails \/ Fetch \/ Visit \/ Save
    /\ Append
    /\ UNCHANGED <<decision, cached, cool>>

(* The cache is refreshed when it is dirty, and in any tick that finds it  *)
(* five minutes old; then the symbol is decided.  Neither gate nor barrier *)
(* lets a row in transition pass.                                          *)
Decide ==
    /\ pc = "close" /\ decision = "due"
    /\ cached' \in {newest} \cup (IF dirty THEN {} ELSE {cached})
    /\ dirty' = FALSE
    /\ decision' \in {"none"} \cup {e \in Entries : ~InTransition(ledger) /\ Allowed(e, cached')}
    /\ UNCHANGED <<vars, trade>>

Close ==
    /\ decision # "due" /\ ClosePass
    /\ Append
    /\ UNCHANGED <<decision, cached, cool>>

(* processPaperSymbolEntries: signed readiness, close only, and on the     *)
(* ledger as it is now the barrier and the position mutex, which no row    *)
(* passes.                                                                 *)
MayEnter == pc = "idle" /\ decision \in Entries /\ ready /\ ~Effective /\ ledger = NoRow

EnterSame ==
    /\ MayEnter /\ decision # "opposite" /\ OpenPosition
    /\ decision' = "none"
    /\ UNCHANGED <<cached, dirty, trade>>

EnterOpposite ==
    /\ MayEnter /\ decision = "opposite"
    /\ decision' = "none"
    /\ UNCHANGED <<vars, cached, dirty, trade>>

NoEntry ==
    /\ pc = "idle" /\ decision \in Entries
    /\ decision' = "none"
    /\ UNCHANGED <<vars, cached, dirty, trade>>

-----------------------------------------------------------------------------
(* The exchange, time and the process.                                     *)

Events ==
    /\ \/ \E o \in Orders : FillClose(o) \/ FillPart(o) \/ EndClose(o)
       \/ ClosedElsewhere \/ Age \/ OpenStray
    /\ UNCHANGED <<gate, trade>>

(* closedAt is the time at which the exit fired, which may be long before  *)
(* the trade is recorded and even before its position is gone.             *)
CoolDown ==
    /\ cool < opened /\ cool' = opened
    /\ UNCHANGED <<vars, gate, newest>>

ReentryCrash ==
    /\ Crash
    /\ decision' = "none" /\ cached' = NoTrade /\ dirty' = TRUE
    /\ UNCHANGED trade

ReentryRestart == Restart /\ UNCHANGED <<gate, trade>>

ReentryNext ==
    \/ StartTick \/ Reconcile \/ Decide \/ Close \/ EnterSame \/ EnterOpposite \/ NoEntry
    \/ Events \/ CoolDown \/ ReentryCrash \/ ReentryRestart

ReentrySpec == ReentryInit /\ [][ReentryNext]_allVars

-----------------------------------------------------------------------------
(* Properties.                                                             *)

Enters(e) == decision = e /\ (EnterSame \/ EnterOpposite)

(* Whatever the engine enters was decided with the newest record of the    *)
(* closed history in view, although positions are closed and recorded      *)
(* after the decisions of a tick and the file is not read in every tick.   *)
EntriesSeeNewest == [][\A e \in Entries : Enters(e) => cached = newest]_allVars

(* While the newest record is a loss, the engine enters on either side     *)
(* only when five candles have passed since, or after a displacement of    *)
(* the price: the record may be minutes newer than its closedAt and may    *)
(* come from any of the paths that record a trade.                         *)
NoChurn ==
    [][\A e \in {"same", "opposite"} :
         Enters(e) /\ LastLoss(newest) => Cooled(newest)]_allVars
=============================================================================

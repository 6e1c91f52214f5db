-------------------------- MODULE LossReentryProofs --------------------------
(* Theorems about LossReentry, for every number of positions, orders and   *)
(* crashes, and under every fault.                                         *)
EXTENDS LossReentry, PositionCloseProofs

Reconciling == {"positions", "visit", "save"}
Closing == {"submit", "poll", "finalize"}

(* Two things carry the argument.  The cache is either dirty or current;   *)
(* and after the decisions nothing is recorded in a tick that may enter:   *)
(* signed readiness means that there is a snapshot, an exit is evaluated   *)
(* only for a position that the snapshot shows, and a position that it     *)
(* shows is not recorded.                                                  *)
GateTypes ==
    /\ decision \in Entries \cup {"due", "none"}
    /\ cached \in Trades \cup {NoTrade} /\ newest \in Trades \cup {NoTrade}
    /\ dirty \in BOOLEAN /\ cool \in Nat

Fresh == dirty \/ cached = newest
DueBefore == pc \in Reconciling => decision = "due"
ReadyHasList == ready => payload # NoSnapshot
ClosesShown == ready /\ pc \in Closing => StillShown
DecisionSees == decision \in Entries /\ ready => cached = newest
DecisionCool == decision \in {"same", "opposite"} /\ LastLoss(cached) => Cooled(cached)

GateInv ==
    GateTypes /\ Fresh /\ DueBefore /\ ReadyHasList /\ ClosesShown /\ DecisionSees /\ DecisionCool

-----------------------------------------------------------------------------
(* The close path underneath.                                              *)

LEMMA ReentryRefines == ReentrySpec => Spec
  <1>1. ReentryInit => Init
    BY DEF ReentryInit
  <1>2. [ReentryNext]_allVars => [Next]_vars
    BY DEF ReentryNext, allVars, StartTick, Reconcile, Decide, Close, EnterSame, EnterOpposite,
           NoEntry, Events, CoolDown, ReentryCrash, ReentryRestart, Next, Engine, Environment
  <1> QED BY <1>1, <1>2, PTL DEF ReentrySpec, Spec

LEMMA ReconcileFrame ==
    ASSUME NotDue \/ NotReady \/ FetchFails \/ Fetch \/ Visit \/ Save
    PROVE  /\ pc \in Reconciling /\ pc' \in {"visit", "save", "close"}
           /\ UNCHANGED <<payload, ready, opened>>
  <1>1. CASE Visit
    BY <1>1 DEF Visit, VisitConfirm, VisitFailed, VisitWaiting, VisitVanished, VisitMatched,
                HoldZero, FinalizeFlat, PruneFlat, PendingRecorded, PendingRefused, PendingEnded,
                PendingKept, PendingForgotten, Adopt, NoneToVisit, Visited, snap, env, Reconciling
  <1>2. CASE NotDue \/ NotReady \/ FetchFails \/ Fetch \/ Save
    BY <1>2 DEF NotDue, NotReady, FetchFails, Fetch, Save, snap, env, Reconciling
  <1> QED BY <1>1, <1>2

(* What the close pass does to the tick, and when it records.              *)
LEMMA CloseFrame ==
    ASSUME ClosePass
    PROVE  /\ pc \in {"close", "write"} \cup Closing /\ pc' \in {"idle", "write"} \cup Closing
           /\ UNCHANGED <<payload, ready, opened>>
           /\ pc' \in Closing => pc \in Closing \/ ~Suppressed
           /\ history' # history => pc = "finalize" /\ ~StillShown
  <1>1. CASE NothingOpen \/ DropConsumed \/ KeepRow
    BY <1>1 DEF NothingOpen, DropConsumed, KeepRow, EndsWith, snap, disk, env, Closing
  <1>2. CASE \E k \in Kinds \ {"none"} : DecideExit(k)
    BY <1>2 DEF DecideExit, snap, disk, env, Closing
  <1>3. CASE \E o \in Orders : SubmitClose(o) \/ SubmitLost(o)
    BY <1>3 DEF SubmitClose, SubmitLost, EndsWith, snap, disk, Closing
  <1>4. CASE SubmitRefused \/ PollPending \/ PollFilled
    BY <1>4 DEF SubmitRefused, PollPending, PollFilled, EndsWith, snap, disk, env, Closing
  <1>5. CASE RecordClose
    BY <1>5 DEF RecordClose, Appendable, EndsWith, snap, env, Closing
  <1>6. CASE RecordRefused \/ WriteBack
    BY <1>6 DEF RecordRefused, WriteBack, EndsWith, snap, env, Closing
  <1> QED BY <1>1, <1>2, <1>3, <1>4, <1>5, <1>6 DEF ClosePass

LEMMA EventFrame == ASSUME Events PROVE UNCHANGED <<pc, payload, ready, gate, trade>>
  <1>1. CASE \E o \in Orders : FillClose(o) \/ FillPart(o) \/ EndClose(o)
    BY <1>1 DEF Events, FillClose, FillPart, EndClose, snap
  <1>2. CASE ClosedElsewhere \/ Age \/ OpenStray
    BY <1>2 DEF Events, ClosedElsewhere, Age, OpenStray, NewPosition, snap
  <1> QED BY <1>1, <1>2 DEF Events

(* Appending keeps types and leaves the cache dirty or current.            *)
LEMMA AppendKeeps ==
    ASSUME TypeOK, GateTypes, Fresh, Append, cached' = cached
    PROVE  newest' \in Trades \cup {NoTrade} /\ dirty' \in BOOLEAN /\ Fresh'
  <1>1. CASE history' = history
    BY <1>1 DEF GateTypes, Fresh, Append, NewestNow
  <1>2. CASE history' # history
    <2>1. opened \in 0..MaxPositions /\ \A c \in Cycles : c.pos \in 0..MaxPositions
      BY DEF TypeOK, Cycles
    <2>2. PICK c \in Cycles, l \in BOOLEAN : newest' = [pos |-> Subject(c), loss |-> l]
      BY <1>2 DEF Append, NewestNow
    <2>3. newest' \in Trades
      BY <2>1, <2>2 DEF Trades, Subject
    <2>4. dirty' = TRUE
      BY <1>2 DEF Append
    <2> QED BY <2>3, <2>4 DEF Fresh
  <1> QED BY <1>1, <1>2

-----------------------------------------------------------------------------
(* The invariant.                                                          *)

LEMMA GateInit == ReentryInit => GateInv
    BY DEF ReentryInit, Init, GateInv, GateTypes, Fresh, DueBefore, ReadyHasList, ClosesShown,
           DecisionSees, DecisionCool, LastLoss, Reconciling, Closing, Entries

LEMMA GateOfStartTick == ASSUME TypeOK, GateInv, StartTick PROVE GateInv'
  <1>1. /\ decision' = "due" /\ pc' = "positions"
        /\ UNCHANGED <<cached, dirty, newest, cool>>
    BY DEF StartTick, BeginTick, trade
  <1>2. ReadyHasList'
    <2> SUFFICES ASSUME ready' PROVE payload' # NoSnapshot
      BY DEF ReadyHasList
    <2>1. PICK p, b :
            /\ payload' \in IF p THEN {position} \cup (IF "spuriousEmpty" \in Faults THEN {0} ELSE {})
                                 ELSE {NoSnapshot}
            /\ ready' = (p /\ b)
      BY Zenon DEF StartTick, BeginTick
    <2>2. payload' \in {position, 0}
      BY <2>1
    <2>3. position \in Nat
      BY BoundsAssumption DEF TypeOK
    <2> QED BY <2>2, <2>3, NullsAssumption
  <1>3. "due" \notin Entries /\ "positions" \notin Closing
    BY DEF Entries, Closing
  <1> QED BY <1>1, <1>2, <1>3 DEF GateInv, GateTypes, Fresh, DueBefore, ClosesShown, DecisionSees,
                                  DecisionCool, Entries

LEMMA GateOfReconcile == ASSUME TypeOK, GateInv, Reconcile PROVE GateInv'
  <1>1. /\ pc \in Reconciling /\ pc' \in {"visit", "save", "close"}
        /\ UNCHANGED <<payload, ready>>
    BY ReconcileFrame DEF Reconcile
  <1>2. decision = "due" /\ UNCHANGED <<decision, cached, cool>>
    BY <1>1 DEF Reconcile, GateInv, DueBefore
  <1>3. newest' \in Trades \cup {NoTrade} /\ dirty' \in BOOLEAN /\ Fresh'
    BY <1>2, AppendKeeps DEF GateInv, Reconcile
  <1>4. "due" \notin Entries /\ pc' \notin Closing
    BY <1>1 DEF Entries, Closing
  <1> QED BY <1>1, <1>2, <1>3, <1>4 DEF GateInv, GateTypes, DueBefore, ReadyHasList, ClosesShown,
                                        DecisionSees, DecisionCool

LEMMA GateOfDecide == ASSUME GateInv, Decide PROVE GateInv'
  <1>1. pc = "close" /\ UNCHANGED <<pc, payload, ready, newest, cool>> /\ dirty' = FALSE
    BY DEF Decide, vars, snap, trade
  <1>2. cached' = newest
    BY DEF Decide, GateInv, Fresh, GateTypes
  <1>3. /\ decision' \in Entries \cup {"due", "none"}
        /\ decision' \in Entries => Allowed(decision', cached')
    BY DEF Decide, Entries
  <1>4. DecisionCool'
    BY <1>1, <1>3 DEF Allowed, SameSideAllowed, OppositeAllowed, DecisionCool, LastLoss, Cooled,
                      Entries
  <1>5. "close" \notin Reconciling \cup Closing
    BY DEF Reconciling, Closing
  <1> QED BY <1>1, <1>2, <1>3, <1>4, <1>5 DEF GateInv, GateTypes, Fresh, DueBefore, ReadyHasList,
                                             ClosesShown, DecisionSees

LEMMA GateOfClose == ASSUME TypeOK, GateInv, Close PROVE GateInv'
  <1>1. /\ pc \in {"close", "write"} \cup Closing /\ pc' \in {"idle", "write"} \cup Closing
        /\ UNCHANGED <<payload, ready>>
        /\ pc' \in Closing => pc \in Closing \/ ~Suppressed
        /\ history' # history => pc = "finalize" /\ ~StillShown
    BY CloseFrame DEF Close
  <1>2. UNCHANGED <<decision, cached, cool>> /\ Append
    BY DEF Close
  <1>3. newest' \in Trades \cup {NoTrade} /\ dirty' \in BOOLEAN /\ Fresh'
    BY <1>2, AppendKeeps DEF GateInv
  <1>4. ClosesShown'
    BY <1>1 DEF GateInv, ReadyHasList, ClosesShown, Suppressed, StillShown
  <1>5. ready => newest' = newest
    BY <1>1, <1>2 DEF GateInv, ClosesShown, Closing, Append, NewestNow
  <1>6. pc' \notin Reconciling
    BY <1>1 DEF Reconciling, Closing
  <1> QED BY <1>1, <1>2, <1>3, <1>4, <1>5, <1>6 DEF GateInv, GateTypes, DueBefore, ReadyHasList,
                                        DecisionSees, DecisionCool, LastLoss, Cooled

LEMMA GateOfEntries ==
    ASSUME GateInv, EnterSame \/ EnterOpposite \/ NoEntry PROVE GateInv'
  <1>1. /\ pc = "idle" /\ decision' = "none"
        /\ UNCHANGED <<pc, payload, ready, cached, dirty, newest, cool>>
    BY DEF EnterSame, EnterOpposite, NoEntry, MayEnter, OpenPosition, NewPosition, vars, snap, trade
  <1> QED BY <1>1 DEF GateInv, GateTypes, Fresh, DueBefore, ReadyHasList, ClosesShown, DecisionSees,
                      DecisionCool, Reconciling, Closing, Entries

LEMMA GateOfWorld ==
    ASSUME TypeOK, GateInv, Events \/ CoolDown \/ ReentryCrash \/ ReentryRestart PROVE GateInv'
  <1>1. CASE Events
    BY <1>1, EventFrame DEF GateInv, GateTypes, Fresh, DueBefore, ReadyHasList, ClosesShown,
                      DecisionSees, DecisionCool, LastLoss, Cooled, StillShown, gate, trade
  <1>2. CASE CoolDown
    <2>1. UNCHANGED <<pc, payload, ready, decision, cached, dirty, newest>>
      BY <1>2 DEF CoolDown, vars, snap, gate
    <2>2. cool' \in Nat /\ cool <= cool'
      BY <1>2 DEF CoolDown, TypeOK, GateInv, GateTypes
    <2>3. LastLoss(cached) => cached.pos \in Nat
      BY DEF GateInv, GateTypes, LastLoss, Trades
    <2>4. LastLoss(cached) /\ Cooled(cached) => Cooled(cached)'
      BY <2>1, <2>2, <2>3 DEF Cooled, GateInv, GateTypes
    <2> QED BY <2>1, <2>2, <2>4 DEF GateInv, GateTypes, Fresh, DueBefore, ReadyHasList, ClosesShown,
                      DecisionSees, DecisionCool, LastLoss, StillShown
  <1>3. CASE ReentryCrash
    BY <1>3 DEF ReentryCrash, Crash, trade, GateInv, GateTypes, Fresh, DueBefore, ReadyHasList,
                ClosesShown, DecisionSees, DecisionCool, Reconciling, Closing, Entries
  <1>4. CASE ReentryRestart
    BY <1>4 DEF ReentryRestart, Restart, snap, gate, trade, GateInv, GateTypes, Fresh, DueBefore,
                ReadyHasList, ClosesShown, DecisionSees, DecisionCool, LastLoss, Cooled,
                Reconciling, Closing
  <1> QED BY <1>1, <1>2, <1>3, <1>4

LEMMA GateNext == TypeOK /\ GateInv /\ [ReentryNext]_allVars => GateInv'
  <1> SUFFICES ASSUME TypeOK, GateInv, [ReentryNext]_allVars PROVE GateInv'
    OBVIOUS
  <1>1. CASE UNCHANGED allVars
    BY <1>1 DEF allVars, vars, snap, gate, trade, GateInv, GateTypes, Fresh, DueBefore,
                ReadyHasList, ClosesShown, DecisionSees, DecisionCool, LastLoss, Cooled, StillShown
  <1>2. CASE ReentryNext
    BY <1>2, GateOfStartTick, GateOfReconcile, GateOfDecide, GateOfClose, GateOfEntries,
       GateOfWorld DEF ReentryNext
  <1> QED BY <1>1, <1>2

LEMMA Gated == ReentrySpec => []GateInv
  <1>1. ReentrySpec => []TypeOK
    BY ReentryRefines, Typed, PTL
  <1> QED BY <1>1, GateInit, GateNext, PTL DEF ReentrySpec

(* Every entry was decided with the newest record of the closed history in *)
(* view, whatever fails and wherever the process crashes.                  *)
THEOREM EntriesAreInformed == ReentrySpec => EntriesSeeNewest
  <1>1. GateInv /\ [ReentryNext]_allVars
          => [\A e \in Entries : Enters(e) => cached = newest]_allVars
    BY DEF GateInv, DecisionSees, Enters, EnterSame, EnterOpposite, MayEnter
  <1> QED BY <1>1, Gated, PTL DEF ReentrySpec, EntriesSeeNewest

(* While the newest record is a loss the engine enters only when five      *)
(* candles have passed or after a displacement of the price, whatever      *)
(* fails and wherever the process crashes.                                 *)
THEOREM NoChurning == ReentrySpec => NoChurn
  <1>1. GateInv /\ [ReentryNext]_allVars
          => [\A e \in {"same", "opposite"} :
                Enters(e) /\ LastLoss(newest) => Cooled(newest)]_allVars
    BY DEF GateInv, DecisionSees, DecisionCool, Enters, EnterSame, EnterOpposite, MayEnter, Entries
  <1> QED BY <1>1, Gated, PTL DEF ReentrySpec, NoChurn
=============================================================================

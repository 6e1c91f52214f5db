------------------------- MODULE PositionCloseProofs -------------------------
(* Theorems about PositionClose, for every number of positions, orders and *)
(* crashes, and for the faults each theorem names.                         *)
EXTENDS PositionClose, TLAPS

-----------------------------------------------------------------------------
(* Types.                                                                  *)

(* From the decision to exit on, the close pass holds a row, and an order  *)
(* once it polls.                                                          *)
RowInHand ==
    /\ pc \in {"submit", "poll", "finalize"} => row # NoRow
    /\ pc = "poll" => cur \in Orders

Shape == TypeOK /\ RowInHand

(* A row may be handed to any manager but the one that waits for an order. *)
LEMMA Relabelled ==
    ASSUME NEW r \in Rows, NEW l \in Lives, l # "closePending"
    PROVE  /\ [r EXCEPT !.life = l] \in Rows
           /\ [r EXCEPT !.life = l, !.order = NoOrder] \in Rows
    BY DEF Rows

(* Marking rows close-only, and refusing to record one, keep them rows.    *)
LEMMA RowsStayRows ==
    ASSUME NEW r \in Rows, r.cycle \in Cycles => history[r.cycle] \in Nat
    PROVE  r.cycle \in Cycles /\ Refused(r) \in Rows
  <1>1. \A b \in BOOLEAN : [r EXCEPT !.finalize = b] \in Rows
    BY DEF Rows
  <1> QED BY <1>1 DEF Rows, Refused, Duplicate

LEMMA MarkedIsRow == ASSUME ledger \in Rows PROVE Marked \in Rows
    BY Relabelled DEF Marked, Lives

LEMMA AppendedType ==
    ASSUME NEW r \in Rows, history \in [Cycles -> Nat]
    PROVE  Appended(r) \in [Cycles -> Nat]
    BY DEF Appended, Rows

LEMMA ShapeInit == Init => Shape
  <1> SUFFICES ASSUME Init PROVE Shape
    OBVIOUS
  <1>1. opened \in 0..MaxPositions /\ crashes \in 0..MaxCrashes /\ position \in 0..opened
    BY BoundsAssumption DEF Init
  <1>2. history \in [Cycles -> Nat] /\ order \in [Orders -> {NoOrder}]
    BY DEF Init
  <1>3. {ready, closeOnly, safeMode, seen, remote, modified, young, lied} \subseteq BOOLEAN
    BY DEF Init
  <1>4. zeros \in 0..ConfirmRequired /\ payload \in 0..opened \cup {NoSnapshot}
    BY DEF Init, ConfirmRequired
  <1>5. pc \in PCs /\ kind \in Kinds /\ consumed \subseteq Cycles /\ RowInHand
    BY DEF Init, PCs, Kinds, RowInHand
  <1> QED BY <1>1, <1>2, <1>3, <1>4, <1>5 DEF Init, Shape, TypeOK

LEMMA ShapeOfSnapshot ==
    ASSUME Shape, BeginTick \/ NotDue \/ NotReady \/ FetchFails \/ Fetch
    PROVE  Shape'
  <1>1. CASE BeginTick
    <2>1. ready' \in BOOLEAN /\ closeOnly' \in BOOLEAN
      <3>1. \A p, b \in BOOLEAN : (p /\ b) \in BOOLEAN
        OBVIOUS
      <3>2. /\ {TRUE} \cup {"snapshotFail" \notin Faults} \subseteq BOOLEAN
            /\ {TRUE} \cup {"balanceFail" \notin Faults} \subseteq BOOLEAN
            /\ {FALSE} \cup {"closeOnly" \in Faults} \subseteq BOOLEAN
        OBVIOUS
      <3>3. closeOnly' \in BOOLEAN
        BY <1>1, <3>2 DEF BeginTick
      <3>4. ready' \in BOOLEAN
        BY <1>1, <3>1, <3>2, Zenon DEF BeginTick
      <3> QED BY <3>3, <3>4
    <2>2. payload' \in 0..opened \cup {NoSnapshot}
      BY <1>1 DEF Shape, TypeOK, BeginTick
    <2>3. pc' = "positions" /\ UNCHANGED <<mem, work, disk, env>>
      BY <1>1 DEF BeginTick
    <2> QED BY <2>1, <2>2, <2>3 DEF Shape, TypeOK, RowInHand, PCs, mem, work, disk, env
  <1>2. CASE NotDue \/ NotReady \/ FetchFails
    BY <1>2 DEF Shape, TypeOK, RowInHand, PCs, NotDue, NotReady, FetchFails, snap, mem, work, disk, env
  <1>3. CASE Fetch
    BY <1>3 DEF Shape, TypeOK, RowInHand, PCs, Fetch, snap, mem, disk
  <1> QED BY <1>1, <1>2, <1>3

(* What every visit has in common.                                         *)
LEMMA ShapeOfVisited ==
    ASSUME Shape, NEW r \in Rows \cup {NoRow}, NEW m \in BOOLEAN, NEW z \in 0..ConfirmRequired,
           Visited(r, m, z), history' \in [Cycles -> Nat], consumed' \subseteq consumed
    PROVE  Shape'
    BY DEF Shape, TypeOK, RowInHand, PCs, Visited, snap, env

LEMMA ShapeOfVisit == ASSUME Shape, Visit PROVE Shape'
  <1>1. /\ zeros \in 0..ConfirmRequired /\ ZerosNow \in 0..ConfirmRequired
        /\ Counted \in 0..ConfirmRequired /\ 0 \in 0..ConfirmRequired
    BY DEF Shape, TypeOK, ZerosNow, Counted, ConfirmRequired
  <1>2. history \in [Cycles -> Nat] /\ row \in Rows \cup {NoRow}
    BY DEF Shape, TypeOK
  <1>3. ASSUME row \in Rows
        PROVE  /\ row.cycle \in Cycles /\ Refused(row) \in Rows
               /\ Appended(row) \in [Cycles -> Nat]
    BY <1>2, <1>3, RowsStayRows, AppendedType
  <1>4. CASE VisitConfirm \/ VisitMatched
    <2>1. PICK l \in Lives \ {"closePending"}, m \in BOOLEAN, z \in {0} :
            row # NoRow /\ Kept /\ Visited([row EXCEPT !.life = l], m, z)
      BY <1>4 DEF VisitConfirm, VisitMatched, Lives
    <2> QED BY <1>1, <1>2, <2>1, ShapeOfVisited, Relabelled DEF Kept
  <1>5. CASE VisitFailed \/ VisitWaiting \/ VisitVanished \/ HoldZero \/ NoneToVisit
    <2>1. \E r \in {row, NoRow}, m \in BOOLEAN, z \in {zeros, ZerosNow} : Kept /\ Visited(r, m, z)
      BY <1>5 DEF VisitFailed, VisitWaiting, VisitVanished, HoldZero, NoneToVisit
    <2> QED BY <1>1, <1>2, <2>1, ShapeOfVisited DEF Kept
  <1>6. CASE FinalizeFlat \/ PendingRecorded
    <2>1. \E z \in {ZerosNow, Counted} :
            row \in Rows /\ Visited(NoRow, TRUE, z) /\ history' = Appended(row) /\ consumed' = consumed
      BY <1>2, <1>6 DEF FinalizeFlat, PendingRecorded, Queried
    <2> QED BY <1>1, <1>3, <2>1, ShapeOfVisited
  <1>7. CASE PruneFlat
    BY <1>1, <1>2, <1>7, ShapeOfVisited DEF PruneFlat
  <1>8. CASE PendingRefused
    <2>1. row \in Rows
      BY <1>2, <1>8 DEF PendingRefused, Queried
    <2> QED BY <1>1, <1>2, <1>3, <1>8, <2>1, ShapeOfVisited DEF PendingRefused, Kept
  <1>9. CASE PendingEnded \/ PendingForgotten
    <2>1. PICK l \in Lives \ {"closePending"} :
            row # NoRow /\ Kept /\ Visited([row EXCEPT !.life = l, !.order = NoOrder], TRUE, Counted)
      BY <1>9 DEF PendingEnded, PendingForgotten, Queried, Lives
    <2> QED BY <1>1, <1>2, <2>1, ShapeOfVisited, Relabelled DEF Kept
  <1>10. CASE PendingKept
    <2>1. row \in Rows /\ row.life = "closePending"
      BY <1>2, <1>10 DEF PendingKept, Queried
    <2>2. order[row.order].fill \in BOOLEAN \/ ~order[row.order].fill \in BOOLEAN
      OBVIOUS
    <2>3. Shape /\ Visited(row, order[row.order].fill, Counted) /\ Kept
      BY <1>10 DEF PendingKept
    <2> QED BY <1>1, <1>2, <2>1, <2>3 DEF Shape, TypeOK, RowInHand, PCs, Visited, snap, env, Kept
  <1>11. CASE Adopt
    <2> DEFINE c == [pos |-> IF StillShown THEN payload ELSE 0, origin |-> "adopted"]
    <2>1. c \in Cycles
      BY BoundsAssumption DEF Shape, TypeOK, StillShown, Cycles
    <2>2. \A l \in {"adopted", "closeOnly"} :
            [cycle |-> c, life |-> l, finalize |-> FALSE, order |-> NoOrder] \in Rows
      BY <2>1 DEF Rows, Lives
    <2> QED BY <1>1, <1>2, <1>11, <2>2, ShapeOfVisited DEF Adopt, Kept
  <1> QED BY <1>4, <1>5, <1>6, <1>7, <1>8, <1>9, <1>10, <1>11 DEF Visit

LEMMA ShapeOfSave == ASSUME Shape, Save PROVE Shape'
  <1>1. Untracked \in BOOLEAN
    BY DEF Untracked
  <1> QED BY <1>1 DEF Shape, TypeOK, RowInHand, PCs, Save, snap, env

(* What the ends of the close pass have in common.                         *)
LEMMA ShapeOfEnd ==
    ASSUME Shape, NEW r \in Rows \cup {NoRow}, EndsWith(r), consumed' \subseteq Cycles,
           history' \in [Cycles -> Nat],
           order' \in [Orders -> OrderRecords \cup {NoOrder}],
           UNCHANGED <<position, opened, young, lied, crashes>>
    PROVE  Shape'
    BY DEF Shape, TypeOK, RowInHand, PCs, EndsWith, snap

LEMMA ShapeOfClosePass == ASSUME Shape, ClosePass PROVE Shape'
  <1>1. /\ row \in Rows \cup {NoRow} /\ ledger \in Rows \cup {NoRow}
        /\ history \in [Cycles -> Nat] /\ consumed \subseteq Cycles
        /\ order \in [Orders -> OrderRecords \cup {NoOrder}]
    BY DEF Shape, TypeOK
  <1>2. CASE NothingOpen \/ PollFilled
    BY <1>2 DEF Shape, TypeOK, RowInHand, PCs, NothingOpen, PollFilled, snap, mem, work, disk, env
  <1>3. CASE DropConsumed \/ KeepRow
    BY <1>1, <1>3, ShapeOfEnd, MarkedIsRow DEF DropConsumed, KeepRow, env
  <1>4. ASSUME NEW k \in Kinds \ {"none"}, DecideExit(k) PROVE Shape'
    <2>1. Marked \in Rows
      BY <1>1, <1>4, MarkedIsRow DEF DecideExit
    <2> QED BY <1>4, <2>1, NoRowAssumption
        DEF Shape, TypeOK, RowInHand, PCs, DecideExit, snap, mem, disk, env
  <1>5. ASSUME NEW o \in Orders, SubmitClose(o) \/ SubmitLost(o) PROVE Shape'
    <2>1. row \in Rows /\ row.cycle \in Cycles
      BY <1>1, <1>5 DEF Shape, RowInHand, SubmitClose, SubmitLost, Rows
    <2>2. [cycle |-> row.cycle, st |-> "live", fill |-> FALSE] \in OrderRecords
      BY <2>1 DEF OrderRecords
    <2>3. order' \in [Orders -> OrderRecords \cup {NoOrder}]
      BY <1>1, <1>5, <2>2 DEF SubmitClose, SubmitLost
    <2>4. CASE SubmitClose(o)
      BY <2>1, <2>3, <2>4, NoRowAssumption
      DEF Shape, TypeOK, RowInHand, PCs, SubmitClose, snap, mem, disk
    <2>5. CASE SubmitLost(o)
      BY <1>1, <2>1, <2>3, <2>5, ShapeOfEnd DEF SubmitLost
    <2> QED BY <1>5, <2>4, <2>5
  <1>6. CASE SubmitRefused
    BY <1>1, <1>6, ShapeOfEnd DEF SubmitRefused, env
  <1>7. CASE PollPending
    <2>1. row \in Rows /\ cur \in Orders
      BY <1>1, <1>7 DEF Shape, RowInHand, PollPending
    <2>2. [row EXCEPT !.life = "closePending", !.order = cur] \in Rows
      BY <2>1, NullsAssumption DEF Rows, Lives
    <2> QED BY <1>1, <1>7, <2>2, ShapeOfEnd DEF PollPending, env
  <1>8. CASE RecordClose \/ RecordRefused
    <2>1. row \in Rows
      BY <1>1, <1>8 DEF Shape, RowInHand, RecordClose, RecordRefused
    <2>2. row.cycle \in Cycles /\ Refused(row) \in Rows /\ Appended(row) \in [Cycles -> Nat]
      BY <1>1, <2>1, RowsStayRows, AppendedType
    <2> QED BY <1>1, <1>8, <2>2, ShapeOfEnd DEF RecordClose, RecordRefused, env
  <1>9. CASE WriteBack
    BY <1>9 DEF Shape, TypeOK, RowInHand, PCs, Kinds, WriteBack, snap, mem, env
  <1> QED BY <1>2, <1>3, <1>4, <1>5, <1>6, <1>7, <1>8, <1>9 DEF ClosePass

LEMMA ShapeOfOrders ==
    ASSUME Shape, NEW o \in Orders, FillClose(o) \/ FillPart(o) \/ EndClose(o)
    PROVE  Shape'
  <1>1. order \in [Orders -> OrderRecords \cup {NoOrder}] /\ order[o] \in OrderRecords
    BY DEF Shape, TypeOK, FillClose, FillPart, EndClose
  <1>2. /\ [order[o] EXCEPT !.st = "filled", !.fill = TRUE] \in OrderRecords
        /\ [order[o] EXCEPT !.fill = TRUE] \in OrderRecords
        /\ [order[o] EXCEPT !.st = "ended"] \in OrderRecords
    BY <1>1 DEF OrderRecords
  <1>3. \E r \in OrderRecords : order' = [order EXCEPT ![o] = r]
    <2>1. CASE FillClose(o)
      BY <1>1, <1>2, <2>1 DEF FillClose
    <2>2. CASE FillPart(o)
      BY <1>2, <2>2 DEF FillPart
    <2>3. CASE EndClose(o)
      BY <1>2, <2>3 DEF EndClose
    <2> QED BY <2>1, <2>2, <2>3
  <1>4. order' \in [Orders -> OrderRecords \cup {NoOrder}]
    BY <1>1, <1>3
  <1>5. position' \in 0..opened
    <2>1. position \in 0..opened /\ opened \in Nat
      BY BoundsAssumption DEF Shape, TypeOK
    <2>2. position' \in {position, 0}
      BY DEF FillClose, FillPart, EndClose
    <2> QED BY <2>1, <2>2
  <1>6. UNCHANGED <<pc, snap, mem, work, disk, opened, young, lied, crashes>>
    BY DEF FillClose, FillPart, EndClose
  <1> QED BY <1>4, <1>5, <1>6 DEF Shape, TypeOK, RowInHand, snap, mem, work, disk

LEMMA ShapeOfWorld ==
    ASSUME Shape, ClosedElsewhere \/ Age \/ OpenPosition \/ OpenStray \/ Crash \/ Restart
    PROVE  Shape'
  <1>1. CASE ClosedElsewhere \/ Age
    <2>1. position' \in 0..opened /\ young' \in BOOLEAN
      <3>1. position \in 0..opened /\ opened \in Nat /\ young \in BOOLEAN
        BY BoundsAssumption DEF Shape, TypeOK
      <3>2. CASE ClosedElsewhere
        BY <3>1, <3>2 DEF ClosedElsewhere
      <3>3. CASE Age
        BY <3>1, <3>3 DEF Age
      <3> QED BY <1>1, <3>2, <3>3
    <2>2. UNCHANGED <<pc, snap, mem, work, disk, order, opened, lied, crashes>>
      BY <1>1 DEF ClosedElsewhere, Age
    <2> QED BY <2>1, <2>2 DEF Shape, TypeOK, RowInHand, snap, mem, work, disk
  <1>2. CASE OpenPosition \/ OpenStray
    <2>1. /\ opened' \in 0..MaxPositions /\ position' \in 0..opened'
          /\ opened + 1 \in 0..MaxPositions /\ payload \in 0..opened' \cup {NoSnapshot}
      BY <1>2, BoundsAssumption DEF Shape, TypeOK, OpenPosition, OpenStray, NewPosition
    <2>2. ledger' \in Rows \cup {NoRow}
      <3>1. CASE OpenPosition
        <4>1. [pos |-> opened + 1, origin |-> "own"] \in Cycles
          BY <2>1 DEF Cycles
        <4>2. \A l \in {"unconfirmed", "managed"} :
                [cycle |-> [pos |-> opened + 1, origin |-> "own"], life |-> l,
                 finalize |-> FALSE, order |-> NoOrder] \in Rows
          BY <4>1 DEF Rows, Lives
        <4> QED BY <3>1, <4>2 DEF OpenPosition
      <3>2. CASE OpenStray
        BY <3>2 DEF Shape, TypeOK, OpenStray
      <3> QED BY <1>2, <3>1, <3>2
    <2>3. /\ UNCHANGED <<pc, payload, ready, closeOnly, safeMode, zeros, consumed, remote,
                         modified, row, kind, cur, history, order, lied, crashes>>
          /\ seen' = FALSE /\ young' = TRUE
      BY <1>2 DEF OpenPosition, OpenStray, NewPosition, snap, work
    <2> QED BY <2>1, <2>2, <2>3 DEF Shape, TypeOK, RowInHand
  <1>3. CASE Crash
    <2>1. crashes' \in 0..MaxCrashes
      BY <1>3, BoundsAssumption DEF Shape, TypeOK, Crash
    <2>2. {ready', closeOnly', safeMode', seen', remote', modified'} \subseteq BOOLEAN
      BY <1>3 DEF Crash
    <2>3. zeros' \in 0..ConfirmRequired /\ payload' = NoSnapshot /\ consumed' = {}
      BY <1>3 DEF Crash, ConfirmRequired
    <2>4. pc' = "down" /\ kind' = "none" /\ row' = NoRow /\ cur' = NoOrder
      BY <1>3 DEF Crash
    <2>5. UNCHANGED <<ledger, history, order, position, opened, young, lied>>
      BY <1>3 DEF Crash, disk
    <2> QED BY <2>1, <2>2, <2>3, <2>4, <2>5 DEF Shape, TypeOK, RowInHand, PCs, Kinds
  <1>4. CASE Restart
    BY <1>4 DEF Shape, TypeOK, RowInHand, PCs, Restart, snap, mem, work, disk, env
  <1> QED BY <1>1, <1>2, <1>3, <1>4

LEMMA ShapeNext == Shape /\ [Next]_vars => Shape'
  <1> SUFFICES ASSUME Shape, [Next]_vars PROVE Shape'
    OBVIOUS
  <1>1. CASE Engine
    BY <1>1, ShapeOfSnapshot, ShapeOfVisit, ShapeOfSave, ShapeOfClosePass DEF Engine
  <1>2. CASE Environment \/ Crash \/ Restart
    BY <1>2, ShapeOfOrders, ShapeOfWorld DEF Environment
  <1>3. CASE UNCHANGED vars
    BY <1>3 DEF Shape, TypeOK, RowInHand, vars, snap, mem, work, disk, env
  <1> QED BY <1>1, <1>2, <1>3 DEF Next

LEMMA Shaped == Spec => []Shape
    BY ShapeInit, ShapeNext, PTL DEF Spec

(* Every variable keeps its type, whatever fails.                          *)
THEOREM Typed == Spec => []TypeOK
  <1>1. Shape => TypeOK
    BY DEF Shape
  <1> QED BY <1>1, Shaped, PTL

-----------------------------------------------------------------------------
(* Records.                                                                *)

(* A record is appended for the row in hand, the first of its cycle, while *)
(* the snapshot does not show the position.                                *)
Recording ==
    /\ row \in Rows /\ history[row.cycle] = 0 /\ ~StillShown
    /\ history' = [history EXCEPT ![row.cycle] = 1]
    /\ pc \notin {"idle", "down"}
    /\ UNCHANGED <<position, opened>>

LEMMA RecordingStep ==
    ASSUME Shape, FinalizeFlat \/ PendingRecorded \/ RecordClose
    PROVE  Recording
  <1>1. row \in Rows /\ Appendable(row) /\ history' = Appended(row)
    BY DEF FinalizeFlat, PendingRecorded, Queried, RecordClose, Shape, TypeOK, RowInHand
  <1>2. history[row.cycle] = 0 /\ ~StillShown
    BY <1>1 DEF Appendable, Duplicate, Shape, TypeOK, Rows
  <1>3. history' = [history EXCEPT ![row.cycle] = 1]
    BY <1>1, <1>2 DEF Appended, Shape, TypeOK, Rows
  <1>4. pc \notin {"idle", "down"} /\ UNCHANGED <<position, opened>>
    BY DEF FinalizeFlat, PendingRecorded, RecordClose, Visited, env
  <1> QED BY <1>1, <1>2, <1>3, <1>4 DEF Recording

LEMMA VisitRecords == ASSUME Shape, Visit PROVE Recording \/ UNCHANGED history
  <1>1. CASE FinalizeFlat \/ PendingRecorded
    BY <1>1, RecordingStep
  <1>2. CASE ~(FinalizeFlat \/ PendingRecorded)
    BY <1>2 DEF Visit, VisitConfirm, VisitFailed, VisitWaiting, VisitVanished, VisitMatched,
                HoldZero, PruneFlat, PendingRefused, PendingEnded, PendingKept,
                PendingForgotten, Adopt, NoneToVisit, Kept
  <1> QED BY <1>1, <1>2

LEMMA EngineRecords == ASSUME Shape, Engine PROVE Recording \/ UNCHANGED history
  <1>1. CASE RecordClose
    BY <1>1, RecordingStep
  <1>2. CASE Visit
    BY <1>2, VisitRecords
  <1>3. CASE BeginTick \/ NotDue \/ NotReady \/ FetchFails \/ Fetch \/ Save
    BY <1>3 DEF BeginTick, NotDue, NotReady, FetchFails, Fetch, Save, disk
  <1>4. CASE ClosePass /\ ~RecordClose
    BY <1>4 DEF ClosePass, NothingOpen, DropConsumed, KeepRow, DecideExit, SubmitClose,
                SubmitRefused, SubmitLost, PollPending, PollFilled, RecordRefused, WriteBack, disk
  <1> QED BY <1>1, <1>2, <1>3, <1>4 DEF Engine

LEMMA OthersRecordNothing ==
    ASSUME Environment \/ Crash \/ Restart PROVE UNCHANGED history
    BY DEF Environment, FillClose, FillPart, EndClose, ClosedElsewhere, Age, OpenPosition,
           OpenStray, NewPosition, Crash, Restart, disk

(* No cycle is recorded twice, whatever fails and wherever the process     *)
(* crashes: the duplicate check precedes every append.                     *)
THEOREM RecordsOnce == Spec => []RecordedOnce
  <1>1. Init => RecordedOnce
    BY DEF Init, RecordedOnce
  <1>2. Shape /\ RecordedOnce /\ [Next]_vars => RecordedOnce'
    <2> SUFFICES ASSUME Shape, RecordedOnce, [Next]_vars PROVE RecordedOnce'
      OBVIOUS
    <2>1. Recording \/ UNCHANGED history
      BY EngineRecords, OthersRecordNothing DEF Next, vars, disk
    <2> QED BY <2>1 DEF Recording, RecordedOnce, Shape, TypeOK, Rows
  <1> QED BY <1>1, <1>2, Shaped, PTL DEF Spec

-----------------------------------------------------------------------------
(* What the snapshot tells.                                                *)

Rowed == {r \in {row, ledger} : r # NoRow}

(* During a tick there is a snapshot; when it shows nothing, no row stands *)
(* for the position that may have opened since.                            *)
Sighted ==
    pc \notin {"idle", "down"} =>
        /\ payload # NoSnapshot
        /\ payload = 0 /\ position # 0 => \A r \in Rowed : r.cycle.pos # position

(* Rows and records are of positions already opened.                       *)
Past ==
    /\ \A r \in Rowed : r.cycle.pos <= opened
    /\ \A c \in Cycles : history[c] > 0 => c.pos <= opened

Truth == Sighted /\ Past /\ RecordedAreClosed

(* Where the cycle of a row may come from in a step of the engine.         *)
Carried(r) ==
    r # NoRow =>
        \/ \E q \in Rowed : r.cycle.pos = q.cycle.pos
        \/ r.cycle.pos = 0
        \/ StillShown /\ r.cycle.pos = payload

LEMMA VisitKeepsLedger == ASSUME Visit PROVE UNCHANGED <<ledger, payload, position, opened>>
    BY DEF Visit, VisitConfirm, VisitFailed, VisitWaiting, VisitVanished, VisitMatched,
           HoldZero, FinalizeFlat, PruneFlat, PendingRecorded, PendingRefused, PendingEnded,
           PendingKept, PendingForgotten, Adopt, NoneToVisit, Visited, snap, env

(* A visit keeps the cycle of the row, drops the row or adopts one.        *)
LEMMA VisitKeepsCycle ==
    ASSUME Shape, Visit, ~Adopt
    PROVE  row' = NoRow \/ (row # NoRow /\ row'.cycle = row.cycle)
  <1>1. row \in Rows \cup {NoRow}
    BY DEF Shape, TypeOK
  <1>2. CASE VisitConfirm \/ VisitMatched
    <2>1. \A l : row \in Rows => [row EXCEPT !.life = l].cycle = row.cycle
      BY DEF Rows
    <2> QED BY <1>1, <1>2, <2>1 DEF VisitConfirm, VisitMatched, Visited
  <1>3. CASE PendingRefused \/ PendingEnded \/ PendingForgotten
    <2>1. /\ row \in Rows => Refused(row).cycle = row.cycle
          /\ \A l : row \in Rows => [row EXCEPT !.life = l, !.order = NoOrder].cycle = row.cycle
      BY DEF Rows, Refused
    <2> QED BY <1>1, <1>3, <2>1 DEF PendingRefused, PendingEnded, PendingForgotten, Queried, Visited
  <1>4. CASE VisitFailed \/ VisitWaiting \/ VisitVanished \/ HoldZero \/ FinalizeFlat
             \/ PruneFlat \/ PendingRecorded \/ PendingKept \/ NoneToVisit
    BY <1>4 DEF VisitFailed, VisitWaiting, VisitVanished, HoldZero, FinalizeFlat, PruneFlat,
                PendingRecorded, PendingKept, NoneToVisit, Queried, Visited
  <1> QED BY <1>2, <1>3, <1>4, Zenon DEF Visit

LEMMA AdoptedCycle ==
    ASSUME Adopt PROVE row' # NoRow => row'.cycle.pos = IF StillShown THEN payload ELSE 0
    BY DEF Adopt, Visited

LEMMA VisitCarries == ASSUME Shape, Visit PROVE Carried(row')
  <1>1. CASE Adopt
    BY <1>1, AdoptedCycle DEF Carried
  <1>2. CASE ~Adopt
    BY <1>2, VisitKeepsCycle DEF Carried, Rowed
  <1> QED BY <1>1, <1>2

LEMMA MarkedCycle == ASSUME ledger \in Rows PROVE Marked.cycle = ledger.cycle
    BY DEF Marked, Rows

(* The close pass ends with the row in hand, the ledger's row, or none.    *)
LEMMA ClosePassKeepsCycle ==
    ASSUME Shape, ClosePass
    PROVE  /\ row' # NoRow => \E q \in Rowed : row'.cycle = q.cycle
           /\ ledger' \in {ledger, row}
  <1>1. row \in Rows \cup {NoRow} /\ ledger \in Rows \cup {NoRow}
    BY DEF Shape, TypeOK
  <1>2. CASE DropConsumed \/ KeepRow \/ \E k \in Kinds \ {"none"} : DecideExit(k)
    <2>1. ledger \in Rows /\ ledger' = ledger /\ row' \in {NoRow, Marked}
      BY <1>1, <1>2 DEF DropConsumed, KeepRow, DecideExit, EndsWith, disk
    <2> QED BY <2>1, MarkedCycle, NoRowAssumption DEF Rowed
  <1>3. CASE RecordRefused \/ PollPending
    <2>1. row \in Rows /\ ledger' = ledger
      BY <1>1, <1>3 DEF RecordRefused, PollPending, EndsWith, Shape, RowInHand
    <2>2. /\ Refused(row).cycle = row.cycle
          /\ [row EXCEPT !.life = "closePending", !.order = cur].cycle = row.cycle
      BY <2>1 DEF Rows, Refused
    <2>3. row' # NoRow => row'.cycle = row.cycle
      BY <1>3, <2>2 DEF RecordRefused, PollPending, EndsWith
    <2> QED BY <2>1, <2>3, NoRowAssumption DEF Rowed
  <1>4. CASE NothingOpen \/ PollFilled \/ SubmitRefused \/ RecordClose
             \/ \E o \in Orders : SubmitClose(o) \/ SubmitLost(o)
    <2>1. row' \in {row, NoRow} /\ ledger' = ledger
      BY <1>4 DEF NothingOpen, PollFilled, SubmitRefused, SubmitClose, SubmitLost, RecordClose,
                  EndsWith, work, disk
    <2> QED BY <2>1 DEF Rowed
  <1>5. CASE WriteBack
    BY <1>5 DEF WriteBack
  <1> QED BY <1>2, <1>3, <1>4, <1>5 DEF ClosePass

(* A step of a tick under way keeps the snapshot, the position and, up to  *)
(* adoption, the cycles of the rows.                                       *)
LEMMA TickCarries ==
    ASSUME Shape, Engine, ~BeginTick
    PROVE  /\ pc \notin {"idle", "down"}
           /\ UNCHANGED <<payload, position, opened>>
           /\ Carried(row') /\ Carried(ledger')
  <1>1. CASE NotDue \/ NotReady \/ FetchFails \/ Fetch \/ Save
    <2>1. row' \in {row, ledger, NoRow} /\ ledger' \in {row, ledger}
      BY <1>1 DEF NotDue, NotReady, FetchFails, Fetch, Save, work, disk
    <2>2. Carried(row') /\ Carried(ledger')
      BY <2>1 DEF Carried, Rowed
    <2> QED BY <1>1, <2>2 DEF NotDue, NotReady, FetchFails, Fetch, Save, snap, env
  <1>2. CASE Visit
    <2>1. pc = "visit"
      BY <1>2 DEF Visit, VisitConfirm, VisitFailed, VisitWaiting, VisitVanished, VisitMatched,
           HoldZero, FinalizeFlat, PruneFlat, PendingRecorded, PendingRefused, PendingEnded,
           PendingKept, PendingForgotten, Adopt, NoneToVisit, Visited
    <2>2. Carried(ledger)
      BY DEF Carried, Rowed
    <2> QED BY <1>2, <2>1, <2>2, VisitKeepsLedger, VisitCarries
  <1>3. CASE ClosePass
    <2>1. pc \notin {"idle", "down"} /\ UNCHANGED <<payload, position, opened>>
      BY <1>3 DEF ClosePass, NothingOpen, DropConsumed, KeepRow, DecideExit, SubmitClose,
           SubmitRefused, SubmitLost, PollPending, PollFilled, RecordClose, RecordRefused,
           WriteBack, EndsWith, snap, env
    <2>2. Carried(row') /\ Carried(ledger')
      BY <1>3, ClosePassKeepsCycle DEF Carried, Rowed
    <2> QED BY <2>1, <2>2
  <1> QED BY <1>1, <1>2, <1>3 DEF Engine

(* Carried rows are of opened positions and, while the snapshot shows      *)
(* none, of no position that opened since.                                 *)
LEMMA CarriedIsPast ==
    ASSUME Shape, Truth, NEW r, r # NoRow, Carried(r)
    PROVE  /\ r.cycle.pos <= opened
           /\ pc \notin {"idle", "down"} /\ payload = 0 /\ position # 0 => r.cycle.pos # position
  <1>1. payload \in 0..opened \cup {NoSnapshot} /\ opened \in Nat
    BY BoundsAssumption DEF Shape, TypeOK
  <1>2. CASE \E q \in Rowed : r.cycle.pos = q.cycle.pos
    BY <1>2 DEF Truth, Past, Sighted
  <1>3. CASE r.cycle.pos = 0
    BY <1>1, <1>3
  <1>4. CASE StillShown /\ r.cycle.pos = payload
    BY <1>1, <1>4 DEF StillShown
  <1> QED BY <1>2, <1>3, <1>4 DEF Carried

(* Snapshots that always have a list of positions, and a true one.         *)
TrueSnapshots == {"snapshotFail", "spuriousEmpty"} \cap Faults = {}

LEMMA TruthInit == Init => Truth
    BY DEF Init, Truth, Sighted, Past, Rowed, RecordedAreClosed

LEMMA TruthOfBeginTick ==
    ASSUME Shape, Truth, TrueSnapshots, BeginTick PROVE Truth'
  <1>1. payload' = position
    BY DEF TrueSnapshots, BeginTick
  <1>2. UNCHANGED <<row, ledger, history, position, opened>>
    BY DEF BeginTick, work, disk, env
  <1>3. position # NoSnapshot
    BY NullsAssumption, BoundsAssumption DEF Shape, TypeOK
  <1> QED BY <1>1, <1>2, <1>3 DEF Truth, Sighted, Past, Rowed, RecordedAreClosed

LEMMA TruthOfTick ==
    ASSUME Shape, Truth, Engine, ~BeginTick PROVE Truth'
  <1>1. /\ pc \notin {"idle", "down"} /\ UNCHANGED <<payload, position, opened>>
        /\ Carried(row') /\ Carried(ledger')
    BY TickCarries
  <1>2. \A r \in Rowed' :
           /\ r.cycle.pos <= opened
           /\ payload = 0 /\ position # 0 => r.cycle.pos # position
    BY <1>1, CarriedIsPast DEF Rowed
  <1>3. payload # NoSnapshot
    BY <1>1 DEF Truth, Sighted
  <1>4. Sighted'
    BY <1>1, <1>2, <1>3 DEF Sighted
  <1>5. /\ \A c \in Cycles : history'[c] > 0 => c.pos <= opened
        /\ \A c \in Cycles : c.pos # 0 /\ history'[c] > 0 => position # c.pos
    <2>1. CASE UNCHANGED history
      BY <2>1 DEF Truth, Past, RecordedAreClosed
    <2>2. CASE Recording
      <3>1. row.cycle \in Cycles /\ row # NoRow
        BY <2>2, NoRowAssumption DEF Recording, Rows
      <3>2. row.cycle.pos <= opened /\ (row.cycle.pos # 0 => position # row.cycle.pos)
        BY <1>1, <1>3, <2>2, <3>1 DEF Recording, StillShown, Truth, Sighted, Past, Rowed
      <3>3. \A c \in Cycles : c # row.cycle => history'[c] = history[c]
        BY <2>2 DEF Recording, Shape, TypeOK
      <3> QED BY <3>2, <3>3 DEF Truth, Past, RecordedAreClosed
    <2> QED BY <2>1, <2>2, EngineRecords
  <1> QED BY <1>1, <1>2, <1>4, <1>5 DEF Truth, Past, RecordedAreClosed

LEMMA TruthOfWorld ==
    ASSUME Shape, Truth, Environment \/ Crash \/ Restart PROVE Truth'
  <1>1. UNCHANGED history
    BY OthersRecordNothing
  <1>2. CASE OpenPosition \/ OpenStray
    <2>1. /\ position' = opened + 1 /\ opened' = opened + 1 /\ opened \in Nat
          /\ UNCHANGED <<pc, payload, row>>
      BY <1>2, BoundsAssumption DEF Shape, TypeOK, OpenPosition, OpenStray, NewPosition, snap, work
    <2>2. \A c \in Cycles : c.pos \in Nat
      BY BoundsAssumption DEF Cycles
    <2>3. \A r \in Rowed : r.cycle.pos \in Nat
      BY <2>2 DEF Shape, TypeOK, Rowed, Rows
    <2>4. RecordedAreClosed' /\ \A c \in Cycles : history'[c] > 0 => c.pos <= opened'
      BY <1>1, <2>1, <2>2 DEF Truth, Past, RecordedAreClosed
    <2>5. CASE OpenPosition
      <3>1. pc = "idle" /\ ledger'.cycle.pos = opened + 1
        BY <2>5 DEF OpenPosition
      <3> QED BY <2>1, <2>3, <2>4, <3>1 DEF Truth, Sighted, Past, Rowed
    <2>6. CASE OpenStray
      <3>1. UNCHANGED ledger
        BY <2>6 DEF OpenStray
      <3> QED BY <2>1, <2>3, <2>4, <3>1 DEF Truth, Sighted, Past, Rowed
    <2> QED BY <1>2, <2>5, <2>6
  <1>3. CASE Age \/ ClosedElsewhere \/ \E o \in Orders : FillClose(o) \/ FillPart(o) \/ EndClose(o)
    <2>1. position' \in {position, 0} /\ UNCHANGED <<pc, payload, row, ledger, opened>>
      BY <1>3 DEF Age, ClosedElsewhere, FillClose, FillPart, EndClose, snap, work, disk
    <2> QED BY <1>1, <2>1 DEF Truth, Sighted, Past, Rowed, RecordedAreClosed
  <1>4. CASE Crash \/ Restart
    <2>1. /\ pc' \in {"idle", "down"} /\ UNCHANGED <<ledger, position, opened>>
          /\ row' \in {row, NoRow}
      BY <1>4 DEF Crash, Restart, work, disk, env
    <2> QED BY <1>1, <2>1 DEF Truth, Sighted, Past, Rowed, RecordedAreClosed
  <1> QED BY <1>2, <1>3, <1>4 DEF Environment

LEMMA Truthful == TrueSnapshots => (Spec => [](Shape /\ Truth))
  <1> SUFFICES ASSUME TrueSnapshots PROVE Spec => [](Shape /\ Truth)
    OBVIOUS
  <1>1. Init => Shape /\ Truth
    BY ShapeInit, TruthInit
  <1>2. Shape /\ Truth /\ [Next]_vars => (Shape /\ Truth)'
    <2> SUFFICES ASSUME Shape, Truth, [Next]_vars PROVE Truth'
      BY ShapeNext
    <2>1. CASE Engine
      BY <2>1, TruthOfBeginTick, TruthOfTick
    <2>2. CASE Environment \/ Crash \/ Restart
      BY <2>2, TruthOfWorld
    <2>3. CASE UNCHANGED vars
      BY <2>3 DEF vars, snap, work, disk, env, Truth, Sighted, Past, Rowed, RecordedAreClosed
    <2> QED BY <2>1, <2>2, <2>3 DEF Next
  <1> QED BY <1>1, <1>2, PTL DEF Spec

(* With true snapshots, what history calls closed is closed.               *)
THEOREM RecordedClosed == TrueSnapshots => (Spec => []RecordedAreClosed)
  <1> SUFFICES ASSUME TrueSnapshots PROVE Spec => []RecordedAreClosed
    OBVIOUS
  <1>1. Shape /\ Truth => RecordedAreClosed
    BY DEF Truth
  <1> QED BY <1>1, Truthful, PTL

(* With true snapshots the close path implements TradeRecord: each cycle   *)
(* is recorded at most once, at a moment when its position is closed.      *)
THEOREM Implements == TrueSnapshots => (Spec => ImplementsTradeRecord)
  <1> SUFFICES ASSUME TrueSnapshots PROVE Spec => ImplementsTradeRecord
    OBVIOUS
  <1>1. Init => Trade!Init
    BY DEF Init, Trade!Init
  <1>2. Shape /\ Truth /\ [Next]_vars => [Trade!Next]_(Trade!vars)
    <2> SUFFICES ASSUME Shape, Truth, [Next]_vars PROVE [Trade!Next]_(Trade!vars)
      OBVIOUS
    <2>1. CASE Recording
      <3>1. row.cycle \in Cycles /\ row # NoRow
        BY <2>1, NoRowAssumption DEF Recording, Rows
      <3>2. row.cycle.pos # 0 => position # row.cycle.pos
        BY <2>1, <3>1 DEF Recording, StillShown, Truth, Sighted, Rowed
      <3>3. Trade!Record(row.cycle)
        BY <2>1, <3>2 DEF Recording, Trade!Record
      <3> QED BY <3>1, <3>3 DEF Trade!Next
    <2>2. CASE Engine /\ UNCHANGED history
      BY <2>2, TickCarries DEF BeginTick, env, Trade!vars
    <2>3. CASE OpenPosition \/ OpenStray
      <3>1. UNCHANGED history
        BY <2>3, OthersRecordNothing DEF Environment
      <3> QED BY <2>3, <3>1 DEF OpenPosition, OpenStray, NewPosition, Trade!Open, Trade!Next
    <2>4. CASE ClosedElsewhere \/ \E o \in Orders : FillClose(o)
      <3>1. UNCHANGED history
        BY <2>4, OthersRecordNothing DEF Environment
      <3> QED BY <2>4, <3>1 DEF ClosedElsewhere, FillClose, Trade!Close, Trade!Next
    <2>5. CASE Age \/ Crash \/ Restart \/ \E o \in Orders : FillPart(o) \/ EndClose(o)
      BY <2>5 DEF Age, Crash, Restart, FillPart, EndClose, disk, env, Trade!vars
    <2>6. CASE UNCHANGED vars
      BY <2>6 DEF vars, disk, env, Trade!vars
    <2> QED BY <2>1, <2>2, <2>3, <2>4, <2>5, <2>6, EngineRecords DEF Next, Environment
  <1> QED BY <1>1, <1>2, Truthful, PTL DEF Spec, ImplementsTradeRecord, Trade!Spec

-----------------------------------------------------------------------------
(* Rows leave when their position is closed.                               *)

(* What the engine knows of the leg in a tick: a snapshot that shows       *)
(* nothing, a list of positions that lacks the leg and a row dropped by    *)
(* the reconciliation all mean that the leg is flat; a terminal exit of    *)
(* this process is in history.                                             *)
Settled ==
    /\ pc \notin {"idle", "down"} /\ payload = 0 => position = 0
    /\ pc = "visit" => (IF remote THEN payload # 0 ELSE position = 0) /\ row = ledger
    /\ pc = "save" /\ row = NoRow => position = 0
    /\ pc \in {"down", "idle", "positions", "close"} => row = NoRow
    /\ \A r \in Rowed : r.cycle.pos # 0
    /\ row # NoRow /\ ledger # NoRow => row.cycle = ledger.cycle
    /\ \A c \in consumed : history[c] > 0

(* Besides true snapshots, every position is one the engine opened.        *)
OwnPositions == "strayPosition" \notin Faults

LEMMA SettledInit == Init => Settled
    BY DEF Init, Settled, Rowed

LEMMA SettledOfSnapshot ==
    ASSUME Shape, Truth, Settled, TrueSnapshots,
           BeginTick \/ NotDue \/ NotReady \/ FetchFails \/ Fetch
    PROVE  Settled'
  <1>1. CASE BeginTick
    <2>1. payload' = position
      BY <1>1 DEF TrueSnapshots, BeginTick
    <2> QED BY <1>1, <2>1 DEF Settled, Rowed, BeginTick, mem, work, disk, env
  <1>2. CASE NotDue \/ NotReady \/ FetchFails
    BY <1>2 DEF Settled, Rowed, NotDue, NotReady, FetchFails, snap, mem, work, disk, env
  <1>3. CASE Fetch
    <2>1. remote' = (position # 0)
      BY <1>3 DEF TrueSnapshots, Fetch
    <2> QED BY <1>3, <2>1 DEF Settled, Rowed, Fetch, snap, mem, disk
  <1> QED BY <1>1, <1>2, <1>3

(* The visits that do not drop the row leave one behind.                   *)
LEMMA VisitKeepsRow ==
    ASSUME Shape,
           \/ VisitConfirm \/ VisitWaiting \/ VisitMatched \/ HoldZero \/ PendingRefused
           \/ PendingEnded \/ PendingKept \/ PendingForgotten \/ Adopt
    PROVE  row' \in Rows
  <1>1. row \in Rows \cup {NoRow}
    BY DEF Shape, TypeOK
  <1>2. CASE VisitConfirm \/ VisitMatched
    <2>1. PICK l \in Lives \ {"closePending"} : row # NoRow /\ row' = [row EXCEPT !.life = l]
      BY <1>2 DEF VisitConfirm, VisitMatched, Visited, Lives
    <2> QED BY <1>1, <2>1, Relabelled
  <1>3. CASE VisitWaiting \/ HoldZero \/ PendingKept
    BY <1>1, <1>3 DEF VisitWaiting, HoldZero, PendingKept, Queried, Visited
  <1>4. CASE PendingRefused
    BY <1>1, <1>4, RowsStayRows DEF PendingRefused, Queried, Visited, Shape, TypeOK
  <1>5. CASE PendingEnded \/ PendingForgotten
    <2>1. PICK l \in Lives \ {"closePending"} :
            row # NoRow /\ row' = [row EXCEPT !.life = l, !.order = NoOrder]
      BY <1>5 DEF PendingEnded, PendingForgotten, Queried, Visited, Lives
    <2> QED BY <1>1, <2>1, Relabelled
  <1>6. CASE Adopt
    <2> DEFINE c == [pos |-> IF StillShown THEN payload ELSE 0, origin |-> "adopted"]
    <2>1. c \in Cycles
      BY BoundsAssumption DEF Shape, TypeOK, StillShown, Cycles
    <2>2. \A l \in {"adopted", "closeOnly"} :
            [cycle |-> c, life |-> l, finalize |-> FALSE, order |-> NoOrder] \in Rows
      BY <2>1 DEF Rows, Lives
    <2> QED BY <1>6, <2>2 DEF Adopt, Visited
  <1> QED BY <1>2, <1>3, <1>4, <1>5, <1>6

LEMMA SettledOfVisit ==
    ASSUME Shape, Truth, Settled, Visit PROVE Settled'
  <1>1. pc = "visit" /\ pc' = "save"
    BY DEF Visit, VisitConfirm, VisitFailed, VisitWaiting, VisitVanished, VisitMatched,
           HoldZero, FinalizeFlat, PruneFlat, PendingRecorded, PendingRefused, PendingEnded,
           PendingKept, PendingForgotten, Adopt, NoneToVisit, Visited
  <1>2. UNCHANGED <<ledger, payload, position, opened>>
    BY VisitKeepsLedger
  <1>3. /\ row = ledger /\ (remote => payload # 0) /\ (~remote => position = 0)
        /\ (payload = 0 => position = 0) /\ payload # NoSnapshot
    BY <1>1 DEF Settled, Truth, Sighted
  <1>4. row' = NoRow => position = 0
    <2>1. CASE VisitFailed \/ VisitVanished \/ FinalizeFlat \/ PruneFlat \/ NoneToVisit
      BY <1>3, <2>1 DEF VisitFailed, VisitVanished, FinalizeFlat, PruneFlat, NoneToVisit, FlatCandidate
    <2>2. CASE PendingRecorded
      BY <1>3, <2>2 DEF PendingRecorded, Appendable, StillShown
    <2>3. CASE VisitConfirm \/ VisitWaiting \/ VisitMatched \/ HoldZero \/ PendingRefused
               \/ PendingEnded \/ PendingKept \/ PendingForgotten \/ Adopt
      BY <2>3, VisitKeepsRow, NoRowAssumption
    <2> QED BY <2>1, <2>2, <2>3, Zenon DEF Visit
  <1>5. row' # NoRow => row'.cycle.pos # 0 /\ (ledger # NoRow => row'.cycle = ledger.cycle)
    <2>1. CASE Adopt
      BY <1>3, <2>1, AdoptedCycle DEF Adopt, StillShown
    <2>2. CASE ~Adopt
      BY <1>3, <2>2, VisitKeepsCycle DEF Settled, Rowed
    <2> QED BY <2>1, <2>2
  <1>6. \A c \in consumed' : history'[c] > 0
    <2>1. consumed' \subseteq consumed
      BY DEF Visit, VisitConfirm, VisitFailed, VisitWaiting, VisitVanished, VisitMatched,
           HoldZero, FinalizeFlat, PruneFlat, PendingRecorded, PendingRefused, PendingEnded,
           PendingKept, PendingForgotten, Adopt, NoneToVisit, Kept
    <2>2. \A c \in Cycles : history[c] > 0 => history'[c] > 0
      BY VisitRecords DEF Recording, Shape, TypeOK
    <2> QED BY <2>1, <2>2 DEF Settled, Shape, TypeOK
  <1> QED BY <1>1, <1>2, <1>3, <1>4, <1>5, <1>6 DEF Settled, Rowed

LEMMA SettledOfSave == ASSUME Settled, Save PROVE Settled'
    BY DEF Settled, Rowed, Save, snap, env

LEMMA SettledOfClosePass ==
    ASSUME Shape, Settled, ClosePass PROVE Settled'
  <1>1. /\ pc \notin {"idle", "down", "visit", "save", "positions"}
        /\ pc' \notin {"visit", "save", "positions", "down", "close"}
        /\ UNCHANGED <<payload, position>>
        /\ pc' = "idle" => row' = NoRow
    BY DEF ClosePass, NothingOpen, DropConsumed, KeepRow, DecideExit, SubmitClose,
           SubmitRefused, SubmitLost, PollPending, PollFilled, RecordClose, RecordRefused,
           WriteBack, EndsWith, snap, work, env, Settled
  <1>2. /\ \A r \in Rowed' : r.cycle.pos # 0
        /\ row' # NoRow /\ ledger' # NoRow => row'.cycle = ledger'.cycle
    BY ClosePassKeepsCycle DEF Settled, Rowed
  <1>3. \A c \in consumed' : history'[c] > 0
    <2>1. CASE RecordClose
      <3>1. Recording /\ consumed' \subseteq consumed \cup {row.cycle}
        BY <2>1, RecordingStep DEF RecordClose
      <3> QED BY <3>1 DEF Recording, Settled, Shape, TypeOK, Rows
    <2>2. CASE ~RecordClose
      <3>1. UNCHANGED <<consumed, history>>
        BY <2>2 DEF ClosePass, NothingOpen, DropConsumed, KeepRow, DecideExit, SubmitClose,
           SubmitRefused, SubmitLost, PollPending, PollFilled, RecordRefused, WriteBack,
           mem, disk
      <3> QED BY <3>1 DEF Settled
    <2> QED BY <2>1, <2>2
  <1> QED BY <1>1, <1>2, <1>3 DEF Settled

LEMMA SettledOfWorld ==
    ASSUME Shape, Settled, OwnPositions, Environment \/ Crash \/ Restart PROVE Settled'
  <1>1. CASE OpenPosition
    <2>1. /\ pc = "idle" /\ UNCHANGED <<pc, row, consumed, history>> /\ opened \in Nat
          /\ ledger'.cycle.pos = opened + 1
      BY <1>1, BoundsAssumption DEF OpenPosition, NewPosition, work, Shape, TypeOK
    <2> QED BY <2>1 DEF Settled, Rowed
  <1>2. CASE OpenStray
    BY <1>2 DEF OpenStray, OwnPositions
  <1>3. CASE Age \/ ClosedElsewhere \/ \E o \in Orders : FillClose(o) \/ FillPart(o) \/ EndClose(o)
    <2>1. /\ position' \in {position, 0}
          /\ UNCHANGED <<pc, payload, remote, row, ledger, consumed, history>>
      BY <1>3 DEF Age, ClosedElsewhere, FillClose, FillPart, EndClose, snap, mem, work, disk
    <2> QED BY <2>1 DEF Settled, Rowed
  <1>4. CASE Crash
    BY <1>4 DEF Crash, disk, Settled, Rowed
  <1>5. CASE Restart
    BY <1>5 DEF Restart, snap, mem, work, disk, env, Settled, Rowed
  <1> QED BY <1>1, <1>2, <1>3, <1>4, <1>5 DEF Environment

LEMMA SettledNext ==
    ASSUME Shape, Truth, Settled, TrueSnapshots, OwnPositions, [Next]_vars PROVE Settled'
  <1>1. CASE Engine
    BY <1>1, SettledOfSnapshot, SettledOfVisit, SettledOfSave, SettledOfClosePass DEF Engine
  <1>2. CASE Environment \/ Crash \/ Restart
    BY <1>2, SettledOfWorld
  <1>3. CASE UNCHANGED vars
    BY <1>3 DEF vars, snap, mem, work, disk, env, Settled, Rowed
  <1> QED BY <1>1, <1>2, <1>3 DEF Next

(* The steps that write the ledger.                                        *)
LEMMA LedgerWrites ==
    ASSUME [Next]_vars PROVE Save \/ WriteBack \/ OpenPosition \/ UNCHANGED ledger
  <1>1. CASE Engine
    <2>1. CASE ClosePass /\ ~WriteBack
      BY <2>1 DEF ClosePass, NothingOpen, DropConsumed, KeepRow, DecideExit, SubmitClose,
         SubmitRefused, SubmitLost, PollPending, PollFilled, RecordClose, RecordRefused,
         EndsWith, disk
    <2>2. CASE BeginTick \/ NotDue \/ NotReady \/ FetchFails \/ Fetch
      BY <2>2 DEF BeginTick, NotDue, NotReady, FetchFails, Fetch, disk
    <2> QED BY <1>1, <2>1, <2>2, VisitKeepsLedger DEF Engine
  <1>2. CASE Environment \/ Crash \/ Restart
    BY <1>2 DEF Environment, FillClose, FillPart, EndClose, ClosedElsewhere, Age,
       OpenStray, Crash, Restart, disk
  <1>3. CASE UNCHANGED vars
    BY <1>3 DEF vars, disk
  <1> QED BY <1>1, <1>2, <1>3 DEF Next

LEMMA LeavesFlat ==
    ASSUME Shape, Truth, Settled, [Next]_vars, Leaves, position # 0
    PROVE  ledger.cycle.pos # position
  <1>1. CASE Save
    BY <1>1 DEF Save, Leaves, Settled
  <1>2. CASE WriteBack
    <2>1. row = NoRow /\ ledger.cycle \in consumed
      BY <1>2 DEF WriteBack, MayLeave, Leaves, Settled
    <2>2. ledger.cycle \in Cycles /\ history[ledger.cycle] > 0 /\ ledger.cycle.pos # 0
      BY <2>1 DEF Settled, Shape, TypeOK, Leaves, Rowed
    <2> QED BY <2>2 DEF Truth, RecordedAreClosed
  <1>3. CASE OpenPosition \/ UNCHANGED ledger
    BY <1>3 DEF OpenPosition, Leaves
  <1> QED BY <1>1, <1>2, <1>3, LedgerWrites

LEMMA SettledHolds ==
    TrueSnapshots /\ OwnPositions => (Spec => [](Shape /\ Truth /\ Settled))
  <1> SUFFICES ASSUME TrueSnapshots, OwnPositions PROVE Spec => [](Shape /\ Truth /\ Settled)
    OBVIOUS
  <1> QED BY SettledInit, SettledNext, Truthful, PTL DEF Spec

(* With true snapshots and own positions, a row leaves the ledger only     *)
(* when its position is closed: no failing list of positions, lost answer, *)
(* forgotten order or crash makes the engine drop a row it still needs.    *)
THEOREM LeftFlat == TrueSnapshots /\ OwnPositions => (Spec => LeftAreFlat)
  <1> SUFFICES ASSUME TrueSnapshots, OwnPositions PROVE Spec => LeftAreFlat
    OBVIOUS
  <1>1. Shape /\ Truth /\ Settled /\ [Next]_vars
          => (Leaves /\ position # 0 => ledger.cycle.pos # position)
    BY LeavesFlat
  <1> QED BY <1>1, SettledHolds, PTL DEF Spec, LeftAreFlat
=============================================================================

-------------------------- MODULE CloseRecordsProofs --------------------------
(* More theorems about PositionClose: what the closed history says of a    *)
(* position under both its cycle ids, what makes a row wait for a record   *)
(* and how long it waits, and how many close orders are live.  They hold   *)
(* for every number of positions and orders; each names its faults.        *)
EXTENDS PositionCloseProofs

-----------------------------------------------------------------------------
(* What the steps leave alone.                                             *)

LEMMA VisitFrame ==
    ASSUME Visit
    PROVE  /\ pc = "visit" /\ pc' = "save"
           /\ UNCHANGED <<snap, safeMode, seen, remote, kind, cur, ledger, env>>
    BY DEF Visit, VisitConfirm, VisitFailed, VisitWaiting, VisitVanished, VisitMatched,
           HoldZero, FinalizeFlat, PruneFlat, PendingRecorded, PendingRefused, PendingEnded,
           PendingKept, PendingForgotten, Adopt, NoneToVisit, Visited

LEMMA ClosePassFrame ==
    ASSUME ClosePass
    PROVE  /\ pc \in {"close", "submit", "poll", "finalize", "write"}
           /\ pc' \in {"idle", "submit", "poll", "finalize", "write"}
           /\ UNCHANGED <<snap, safeMode, zeros, seen, remote, modified, position, opened, young,
                          lied, crashes>>
           /\ ~WriteBack => UNCHANGED ledger
    BY DEF ClosePass, NothingOpen, DropConsumed, KeepRow, DecideExit, SubmitClose, SubmitRefused,
           SubmitLost, PollPending, PollFilled, RecordClose, RecordRefused, WriteBack, EndsWith,
           snap, mem, work, disk, env

LEMMA OrdersFrame ==
    ASSUME NEW o \in Orders, FillClose(o) \/ FillPart(o) \/ EndClose(o)
    PROVE  /\ position' \in {position, 0}
           /\ UNCHANGED <<pc, snap, mem, work, disk, opened, young, lied, crashes>>
    BY DEF FillClose, FillPart, EndClose

-----------------------------------------------------------------------------
(* The row in hand and the row in the ledger.                              *)

(* They are rows of one trade, and a reconciliation starts from the        *)
(* ledger; between the parts of a tick no row is in hand.                  *)
Agree ==
    /\ row # NoRow /\ ledger # NoRow => row.cycle = ledger.cycle
    /\ pc = "visit" => row = ledger
    /\ pc \in {"down", "idle", "positions", "close"} => row = NoRow

LEMMA AgreeNext == ASSUME Shape, Agree, [Next]_vars PROVE Agree'
  <1>1. CASE BeginTick \/ NotDue \/ NotReady \/ FetchFails \/ Fetch \/ Save
    BY <1>1 DEF BeginTick, NotDue, NotReady, FetchFails, Fetch, Save, Agree, mem, work, disk
  <1>2. CASE Visit
    BY <1>2, VisitFrame, VisitKeepsCycle DEF Agree, Adopt
  <1>3. CASE ClosePass
    <2>1. row' # NoRow => \E q \in Rowed : row'.cycle = q.cycle
      BY <1>3, ClosePassKeepsCycle
    <2>2. row' # NoRow /\ ledger' # NoRow => row'.cycle = ledger'.cycle
      <3>1. CASE WriteBack
        BY <3>1 DEF WriteBack
      <3>2. CASE ~WriteBack
        BY <1>3, <2>1, <3>2, ClosePassFrame DEF Agree, Rowed
      <3> QED BY <3>1, <3>2
    <2>3. pc' = "idle" => row' = NoRow
      BY <1>3 DEF ClosePass, NothingOpen, DropConsumed, KeepRow, DecideExit, SubmitClose,
         SubmitRefused, SubmitLost, PollPending, PollFilled, RecordClose, RecordRefused, WriteBack,
         EndsWith, work, Agree
    <2> QED BY <1>3, <2>2, <2>3, ClosePassFrame DEF Agree
  <1>4. CASE \E o \in Orders : FillClose(o) \/ FillPart(o) \/ EndClose(o)
    BY <1>4, OrdersFrame DEF Agree, work, disk
  <1>5. CASE ClosedElsewhere \/ Age \/ OpenPosition \/ OpenStray \/ Crash \/ Restart
    BY <1>5 DEF ClosedElsewhere, Age, OpenPosition, OpenStray, NewPosition, Crash, Restart, Agree,
                work, disk
  <1>6. CASE UNCHANGED vars
    BY <1>6 DEF Agree, vars, work, disk
  <1> QED BY <1>1, <1>2, <1>3, <1>4, <1>5, <1>6 DEF Next, Engine, Environment

(* But for adoption, the engine works on rows of the trades it had.        *)
LEMMA CyclesKept ==
    ASSUME Shape, Engine, ~Adopt, NEW r \in Rowed'
    PROVE  \E q \in Rowed : r.cycle = q.cycle
  <1>1. CASE BeginTick \/ NotDue \/ NotReady \/ FetchFails \/ Fetch \/ Save
    BY <1>1 DEF BeginTick, NotDue, NotReady, FetchFails, Fetch, Save, Rowed, work, disk
  <1>2. CASE Visit
    BY <1>2, VisitFrame, VisitKeepsCycle DEF Rowed
  <1>3. CASE ClosePass
    BY <1>3, ClosePassKeepsCycle DEF Rowed
  <1> QED BY <1>1, <1>2, <1>3 DEF Engine

-----------------------------------------------------------------------------
(* One record for each position.                                           *)

(* The id the other kind of row gives to the position.                     *)
Other(c) == [pos |-> c.pos, origin |-> IF c.origin = "own" THEN "adopted" ELSE "own"]

(* A position the snapshot shows is not in history; the position of a row  *)
(* is not there under the other id.                                        *)
Unshared ==
    /\ StillShown => \A c \in Cycles : c.pos = payload => history[c] = 0
    /\ \A r \in Rowed : r.cycle.pos # 0 => history[Other(r.cycle)] = 0
    /\ \A c \in Cycles : c.pos # 0 /\ history[c] > 0 => history[Other(c)] = 0

LEMMA OtherCycle ==
    ASSUME NEW c \in Cycles
    PROVE  Other(c) \in Cycles /\ Other(c).pos = c.pos /\ Other(c) # c /\ Other(Other(c)) = c
    BY DEF Other, Cycles

LEMMA UnsharedOfTick ==
    ASSUME Shape, Truth, Agree, Unshared, Engine, ~BeginTick PROVE Unshared'
  <1>1. UNCHANGED payload /\ history \in [Cycles -> Nat]
    BY TickCarries DEF Shape, TypeOK
  <1>2. \A r \in Rowed : r \in Rows /\ r.cycle \in Cycles
    BY DEF Rowed, Shape, TypeOK, Rows
  <1>3. CASE Recording
    <2>1. ~Adopt /\ row \in Rowed
      BY <1>1, <1>3, NoRowAssumption DEF Recording, Adopt, Rowed
    <2>2. \A r \in Rowed' : r.cycle = row.cycle
      BY <2>1, CyclesKept DEF Agree, Rowed
    <2>3. row.cycle.pos # 0 => history[Other(row.cycle)] = 0
      BY <2>1 DEF Unshared
    <2>4. \A c \in Cycles : history'[c] = IF c = row.cycle THEN 1 ELSE history[c]
      BY <1>1, <1>3 DEF Recording
    <2>5. \A r \in Rowed' : r.cycle.pos # 0 => history'[Other(r.cycle)] = 0
      BY <1>2, <2>1, <2>2, <2>3, <2>4, OtherCycle
    <2>6. \A c \in Cycles : c.pos # 0 /\ history'[c] > 0 => history'[Other(c)] = 0
      BY <1>2, <2>1, <2>3, <2>4, OtherCycle DEF Unshared
    <2>7. ~StillShown'
      BY <1>1, <1>3 DEF Recording, StillShown
    <2> QED BY <2>5, <2>6, <2>7 DEF Unshared
  <1>4. CASE UNCHANGED history
    <2>1. \A r \in Rowed' : r.cycle.pos # 0 => history[Other(r.cycle)] = 0
      <3>1. CASE Adopt
        <4> SUFFICES ASSUME NEW r \in Rowed', r.cycle.pos # 0 PROVE history[Other(r.cycle)] = 0
          OBVIOUS
        <4>1. ledger' = NoRow
          BY <3>1, VisitFrame DEF Visit, Agree, Adopt
        <4>2. /\ r = row' /\ r.cycle.pos = payload /\ StillShown
          BY <3>1, <4>1, AdoptedCycle DEF Rowed
        <4>3. r.cycle \in Cycles
          BY <4>2, ShapeOfVisit, <3>1, NoRowAssumption DEF Shape, TypeOK, Rowed, Rows, Visit
        <4> QED BY <4>2, <4>3, OtherCycle DEF Unshared
      <3>2. CASE ~Adopt
        BY <3>2, CyclesKept DEF Unshared
      <3> QED BY <3>1, <3>2
    <2> QED BY <1>1, <1>4, <2>1 DEF Unshared, StillShown
  <1> QED BY <1>3, <1>4, EngineRecords

LEMMA UnsharedOfOthers ==
    ASSUME Shape, Truth, Unshared, TrueSnapshots, BeginTick \/ Environment \/ Crash \/ Restart
    PROVE  Unshared'
  <1>1. UNCHANGED history
    BY OthersRecordNothing DEF BeginTick, disk
  <1>2. opened \in Nat /\ \A c \in Cycles : history[c] \in Nat
    BY BoundsAssumption DEF Shape, TypeOK
  <1>3. CASE BeginTick
    <2>1. payload' = position
      BY <1>3 DEF TrueSnapshots, BeginTick
    <2>2. UNCHANGED <<row, ledger>>
      BY <1>3 DEF BeginTick, work, disk
    <2> QED BY <1>1, <1>2, <2>1, <2>2
            DEF Unshared, Rowed, StillShown, Truth, RecordedAreClosed
  <1>4. CASE OpenPosition
    <2>1. UNCHANGED <<payload, row>>
      BY <1>4 DEF OpenPosition, NewPosition, snap, work
    <2>2. ledger'.cycle = [pos |-> opened + 1, origin |-> "own"] /\ opened + 1 \in 0..MaxPositions
      BY <1>4, BoundsAssumption DEF OpenPosition, NewPosition, Shape, TypeOK
    <2>3. ledger'.cycle \in Cycles
      BY <2>2 DEF Cycles
    <2>4. history[Other(ledger'.cycle)] = 0
      BY <1>2, <2>2, <2>3, OtherCycle DEF Truth, Past
    <2> QED BY <1>1, <2>1, <2>4 DEF Unshared, Rowed, StillShown
  <1>5. CASE Crash \/ Restart
    <2>1. row' \in {row, NoRow} /\ payload' \in {payload, NoSnapshot} /\ UNCHANGED ledger
      BY <1>5 DEF Crash, Restart, snap, work, disk
    <2> QED BY <1>1, <2>1 DEF Unshared, Rowed, StillShown
  <1>6. CASE \/ Age \/ ClosedElsewhere \/ OpenStray
             \/ \E o \in Orders : FillClose(o) \/ FillPart(o) \/ EndClose(o)
    <2>1. UNCHANGED <<payload, row, ledger>>
      BY <1>6, OrdersFrame DEF Age, ClosedElsewhere, OpenStray, NewPosition, snap, work, disk
    <2> QED BY <1>1, <2>1 DEF Unshared, Rowed, StillShown
  <1> QED BY <1>3, <1>4, <1>5, <1>6 DEF Environment

(* With true snapshots no position is recorded under both its cycle ids,   *)
(* whatever lists, submits and queries fail, whoever opens positions and   *)
(* wherever the process crashes: a recorded position is closed, and what   *)
(* is closed is not adopted.                                               *)
THEOREM RecordedUnderOneId == TrueSnapshots => (Spec => []OneRecordPerPosition)
  <1> SUFFICES ASSUME TrueSnapshots PROVE Spec => []OneRecordPerPosition
    OBVIOUS
  <1>1. Init => Agree /\ Unshared
    BY OtherCycle DEF Init, Agree, Unshared, Rowed, StillShown
  <1>2. Shape /\ Truth /\ Agree /\ Unshared /\ [Next]_vars => (Agree /\ Unshared)'
    <2> SUFFICES ASSUME Shape, Truth, Agree, Unshared, [Next]_vars PROVE Unshared'
      BY AgreeNext
    <2>1. CASE UNCHANGED vars
      BY <2>1 DEF vars, snap, work, disk, Unshared, Rowed, StillShown
    <2> QED BY <2>1, UnsharedOfTick, UnsharedOfOthers DEF Next
  <1>3. Shape /\ RecordedOnce /\ Unshared => OneRecordPerPosition
    <2> SUFFICES ASSUME Shape, RecordedOnce, Unshared, NEW p \in 1..MaxPositions
                 PROVE  history[[pos |-> p, origin |-> "own"]]
                          + history[[pos |-> p, origin |-> "adopted"]] <= 1
      BY DEF OneRecordPerPosition
    <2> DEFINE c == [pos |-> p, origin |-> "own"]
               d == [pos |-> p, origin |-> "adopted"]
    <2>1. c \in Cycles /\ d \in Cycles /\ Other(c) = d /\ c.pos # 0
      BY BoundsAssumption DEF Cycles, Other
    <2>2. history[c] \in 0..1 /\ history[d] \in 0..1
      BY <2>1 DEF Shape, TypeOK, RecordedOnce
    <2>3. history[c] > 0 => history[d] = 0
      BY <2>1 DEF Unshared
    <2> QED BY <2>2, <2>3
  <1> QED BY <1>1, <1>2, <1>3, Truthful, RecordsOnce, PTL DEF Spec

-----------------------------------------------------------------------------
(* What waits for a record has a fill.                                     *)

Known(c, o) == order[o] # NoOrder /\ order[o].cycle = c

(* A row's order, and the order that is polled, is one of its own trade,   *)
(* and the exchange calls filled what has a fill.                          *)
Traced ==
    /\ \A r \in Rowed : r.order # NoOrder => Known(r.cycle, r.order)
    /\ pc = "poll" => Known(row.cycle, cur)
    /\ \A o \in Orders : order[o] # NoOrder /\ order[o].st = "filled" => order[o].fill

(* Orders keep their trade and their fill.                                 *)
OrdersGrow ==
    \A o \in Orders : order[o] # NoOrder =>
        /\ order'[o] # NoOrder /\ order'[o].cycle = order[o].cycle
        /\ order[o].fill => order'[o].fill

LEMMA StillFilled == ASSUME OrdersGrow, NEW c, Filled(c) PROVE Filled(c)'
    BY DEF OrdersGrow, Filled

LEMMA StillKnown ==
    ASSUME OrdersGrow, NEW c, NEW o \in Orders, Known(c, o) PROVE Known(c, o)'
    BY DEF OrdersGrow, Known

(* A close order is sent for the row in hand.                              *)
Sending(o) ==
    /\ o \in Orders /\ order[o] = NoOrder /\ pc = "submit" /\ row # NoRow
    /\ order' = [order EXCEPT ![o] = [cycle |-> row.cycle, st |-> "live", fill |-> FALSE]]

LEMMA SubmitSends ==
    ASSUME Shape, NEW o \in Orders, SubmitClose(o) \/ SubmitLost(o) PROVE Sending(o)
    BY DEF SubmitClose, SubmitLost, Sending, Shape, RowInHand

LEMMA NewRecord ==
    ASSUME NEW c \in Cycles
    PROVE  /\ [cycle |-> c, st |-> "live", fill |-> FALSE] \in OrderRecords
           /\ [cycle |-> c, st |-> "live", fill |-> FALSE] # NoOrder
  <1>1. [cycle |-> c, st |-> "live", fill |-> FALSE] \in OrderRecords
    BY DEF OrderRecords
  <1> QED BY <1>1, NullsAssumption

LEMMA SendingGrows ==
    ASSUME Shape, NEW o, Sending(o)
    PROVE  /\ OrdersGrow
           /\ order'[o] # NoOrder /\ order'[o].cycle = row.cycle
           /\ order'[o].st = "live" /\ ~order'[o].fill
           /\ \A p \in Orders : p # o => order'[p] = order[p]
  <1>1. row.cycle \in Cycles
    BY DEF Sending, Shape, TypeOK, Rows
  <1>2. order'[o] = [cycle |-> row.cycle, st |-> "live", fill |-> FALSE]
    BY DEF Sending, Shape, TypeOK
  <1>3. \A p \in Orders : p # o => order'[p] = order[p]
    BY DEF Sending, Shape, TypeOK
  <1>4. OrdersGrow
    BY <1>3 DEF Sending, OrdersGrow
  <1> QED BY <1>1, <1>2, <1>3, <1>4, NewRecord

(* What the exchange does to an order leaves its trade and its fill.       *)
LEMMA ExchangeGrows ==
    ASSUME Shape, NEW o \in Orders, FillClose(o) \/ FillPart(o) \/ EndClose(o)
    PROVE  /\ OrdersGrow
           /\ \A p \in Orders : p # o => order'[p] = order[p]
           /\ order[o] # NoOrder /\ order'[o] # NoOrder /\ order[o].st = "live"
           /\ order'[o].st = "filled" => order'[o].fill
           /\ order'[o].st = "live" => FillPart(o)
  <1>1. order \in [Orders -> OrderRecords \cup {NoOrder}] /\ order[o] \in OrderRecords
    BY DEF Shape, TypeOK, FillClose, FillPart, EndClose
  <1>2. order[o].st = "live" /\ order[o] # NoOrder
    BY DEF FillClose, FillPart, EndClose
  <1>3. /\ order'[o] \in OrderRecords /\ order'[o].cycle = order[o].cycle
        /\ order[o].fill => order'[o].fill
        /\ order'[o].st = "filled" => order'[o].fill
        /\ order'[o].st = "live" => FillPart(o)
    <2>1. CASE FillClose(o)
      BY <1>1, <2>1 DEF FillClose, OrderRecords
    <2>2. CASE FillPart(o)
      BY <1>1, <1>2, <2>2 DEF FillPart, OrderRecords
    <2>3. CASE EndClose(o)
      BY <1>1, <2>3 DEF EndClose, OrderRecords
    <2> QED BY <2>1, <2>2, <2>3
  <1>4. \A p \in Orders : p # o => order'[p] = order[p]
    BY <1>1 DEF FillClose, FillPart, EndClose
  <1> QED BY <1>2, <1>3, <1>4, NullsAssumption DEF OrdersGrow

(* Nothing else touches the orders.                                        *)
LEMMA OrdersStay ==
    ASSUME [Next]_vars,
           ~ \E o \in Orders : SubmitClose(o) \/ SubmitLost(o) \/ FillClose(o) \/ FillPart(o)
                               \/ EndClose(o)
    PROVE  UNCHANGED order
  <1>1. CASE Engine
    <2>1. CASE ClosePass
      BY <2>1 DEF ClosePass, NothingOpen, DropConsumed, KeepRow, DecideExit, SubmitRefused,
         PollPending, PollFilled, RecordClose, RecordRefused, WriteBack, env
    <2>2. CASE BeginTick \/ NotDue \/ NotReady \/ FetchFails \/ Fetch \/ Save
      BY <2>2 DEF BeginTick, NotDue, NotReady, FetchFails, Fetch, Save, env
    <2> QED BY <1>1, <2>1, <2>2, VisitFrame DEF Engine, env
  <1>2. CASE ClosedElsewhere \/ Age \/ OpenPosition \/ OpenStray \/ Crash \/ Restart
    BY <1>2 DEF ClosedElsewhere, Age, OpenPosition, OpenStray, NewPosition, Crash, Restart, env
  <1>3. CASE UNCHANGED vars
    BY <1>3 DEF vars, env
  <1> QED BY <1>1, <1>2, <1>3 DEF Next, Environment

LEMMA OrdersOnlyGrow == ASSUME Shape, [Next]_vars PROVE OrdersGrow
    BY SubmitSends, SendingGrows, ExchangeGrows, OrdersStay DEF OrdersGrow

(* A row waits for a record because its trade has a fill, and an exit that *)
(* no order was sent for finds a snapshot that shows nothing.              *)
Backed ==
    /\ ~ready => payload = NoSnapshot
    /\ \A r \in Rowed : r.finalize => Filled(r.cycle)
    /\ pc = "finalize" /\ ready => Filled(row.cycle)

Sound(r) ==
    /\ r.order # NoOrder => Known(r.cycle, r.order)
    /\ r.finalize => Filled(r.cycle)

LEMMA RefusedRow ==
    ASSUME Shape, NEW r \in Rows
    PROVE  /\ Refused(r).cycle = r.cycle /\ Refused(r).order = r.order /\ Refused(r).life = r.life
           /\ Refused(r).finalize => r.finalize \/ ~Duplicate(r)
    BY DEF Rows, Refused

LEMMA RelabelledRow ==
    ASSUME NEW r \in Rows, NEW l, NEW o
    PROVE  /\ [r EXCEPT !.life = l].cycle = r.cycle
           /\ [r EXCEPT !.life = l].life = l
           /\ [r EXCEPT !.life = l].order = r.order
           /\ [r EXCEPT !.life = l].finalize = r.finalize
           /\ [r EXCEPT !.life = l, !.order = o].cycle = r.cycle
           /\ [r EXCEPT !.life = l, !.order = o].life = l
           /\ [r EXCEPT !.life = l, !.order = o].order = o
           /\ [r EXCEPT !.life = l, !.order = o].finalize = r.finalize
    BY DEF Rows

(* An order that is queried is one the row has.                            *)
LEMMA QueriedOrder ==
    ASSUME Shape, Queried
    PROVE  row \in Rows /\ row \in Rowed /\ row.order \in Orders
    BY DEF Shape, TypeOK, Queried, Rows, Rowed

LEMMA VisitIsSound ==
    ASSUME Shape, Traced, Backed, Visit, row' # NoRow
    PROVE  Sound(row')
  <1>1. row \in Rows \cup {NoRow}
    BY DEF Shape, TypeOK
  <1>2. row # NoRow => Sound(row)
    BY DEF Traced, Backed, Sound, Rowed
  <1>3. CASE VisitConfirm \/ VisitMatched
    <2>1. PICK l : row # NoRow /\ row' = [row EXCEPT !.life = l]
      BY <1>3 DEF VisitConfirm, VisitMatched, Visited
    <2> QED BY <1>1, <1>2, <2>1, RelabelledRow DEF Sound
  <1>4. CASE PendingEnded \/ PendingForgotten
    <2>1. PICK l : row # NoRow /\ row' = [row EXCEPT !.life = l, !.order = NoOrder]
      BY <1>4 DEF PendingEnded, PendingForgotten, Queried, Visited
    <2> QED BY <1>1, <1>2, <2>1, RelabelledRow DEF Sound
  <1>5. CASE PendingRefused
    <2>1. /\ row \in Rows /\ row \in Rowed /\ row.order \in Orders /\ row' = Refused(row)
          /\ order[row.order].st = "filled"
      BY <1>5, QueriedOrder DEF PendingRefused, Visited
    <2>2. Filled(row.cycle)
      BY <2>1, NullsAssumption DEF Traced, Known, Filled
    <2> QED BY <1>2, <2>1, <2>2, RefusedRow DEF Sound, Rowed
  <1>6. CASE Adopt
    BY <1>6 DEF Adopt, Visited, Sound
  <1>7. CASE VisitFailed \/ VisitWaiting \/ VisitVanished \/ HoldZero \/ FinalizeFlat
             \/ PruneFlat \/ PendingRecorded \/ PendingKept \/ NoneToVisit
    BY <1>2, <1>7 DEF VisitFailed, VisitWaiting, VisitVanished, HoldZero, FinalizeFlat, PruneFlat,
                PendingRecorded, PendingKept, NoneToVisit, Visited
  <1> QED BY <1>3, <1>4, <1>5, <1>6, <1>7, Zenon DEF Visit

LEMMA MarkedRow ==
    ASSUME ledger \in Rows
    PROVE  /\ Marked.cycle = ledger.cycle /\ Marked.order = ledger.order
           /\ Marked.finalize = ledger.finalize
    BY DEF Marked, Rows

LEMMA ClosePassIsSound ==
    ASSUME Shape, Traced, Backed, ClosePass, NEW r \in Rowed'
    PROVE  Sound(r)
  <1>1. row \in Rows \cup {NoRow} /\ ledger \in Rows \cup {NoRow}
    BY DEF Shape, TypeOK
  <1>2. (row # NoRow => Sound(row)) /\ (ledger # NoRow => Sound(ledger))
    BY DEF Traced, Backed, Sound, Rowed
  <1>3. ledger \in Rows => Sound(Marked)
    BY <1>2, MarkedRow, NoRowAssumption DEF Sound
  <1>4. ledger' \in {ledger, row}
    BY ClosePassKeepsCycle
  <1>5. row' # NoRow => Sound(row')
    <2>1. CASE DropConsumed \/ KeepRow \/ \E k \in Kinds \ {"none"} : DecideExit(k)
      BY <1>1, <1>3, <2>1 DEF DropConsumed, KeepRow, DecideExit, EndsWith
    <2>2. CASE PollPending
      <3>1. row \in Rows /\ row' = [row EXCEPT !.life = "closePending", !.order = cur]
        BY <1>1, <2>2 DEF PollPending, EndsWith, Shape, RowInHand
      <3>2. Known(row.cycle, cur)
        BY <2>2 DEF PollPending, Traced
      <3> QED BY <1>2, <3>1, <3>2, RelabelledRow, NoRowAssumption DEF Sound
    <2>3. CASE RecordRefused
      <3>1. row \in Rows /\ row' = Refused(row)
        BY <1>1, <2>3 DEF RecordRefused, EndsWith, Shape, RowInHand
      <3>2. CASE Duplicate(row)
        BY <1>2, <3>1, <3>2, RefusedRow, NoRowAssumption DEF Sound
      <3>3. CASE ~Duplicate(row)
        <4>1. ready
          BY <2>3, <3>3 DEF RecordRefused, Appendable, StillShown, Backed
        <4> QED BY <1>2, <2>3, <3>1, <4>1, RefusedRow, NoRowAssumption
                DEF Sound, Backed, RecordRefused
      <3> QED BY <3>2, <3>3
    <2>4. CASE \/ NothingOpen \/ SubmitRefused \/ PollFilled \/ RecordClose \/ WriteBack
               \/ \E o \in Orders : SubmitClose(o) \/ SubmitLost(o)
      BY <1>2, <2>4 DEF NothingOpen, SubmitRefused, PollFilled, RecordClose, WriteBack,
         SubmitClose, SubmitLost, EndsWith, work
    <2> QED BY <2>1, <2>2, <2>3, <2>4 DEF ClosePass
  <1> QED BY <1>2, <1>4, <1>5 DEF Rowed

LEMMA RowsAreSound ==
    ASSUME Shape, Traced, Backed, [Next]_vars, NEW r \in Rowed'
    PROVE  Sound(r)
  <1>1. \A q \in Rowed : Sound(q)
    BY DEF Traced, Backed, Sound
  <1>2. CASE Visit
    BY <1>1, <1>2, VisitIsSound, VisitFrame DEF Rowed
  <1>3. CASE ClosePass
    BY <1>3, ClosePassIsSound
  <1>4. CASE OpenPosition
    BY <1>1, <1>4 DEF OpenPosition, NewPosition, Rowed, Sound, work
  <1>5. CASE BeginTick \/ NotDue \/ NotReady \/ FetchFails \/ Fetch \/ Save
    BY <1>1, <1>5 DEF BeginTick, NotDue, NotReady, FetchFails, Fetch, Save, Rowed, work, disk
  <1>6. CASE \/ ClosedElsewhere \/ Age \/ OpenStray \/ Crash \/ Restart
             \/ \E o \in Orders : FillClose(o) \/ FillPart(o) \/ EndClose(o)
    BY <1>1, <1>6, OrdersFrame
    DEF ClosedElsewhere, Age, OpenStray, NewPosition, Crash, Restart, Rowed, work, disk
  <1>7. CASE UNCHANGED vars
    BY <1>1, <1>7 DEF vars, Rowed, work, disk
  <1> QED BY <1>2, <1>3, <1>4, <1>5, <1>6, <1>7 DEF Next, Engine, Environment

(* The balance half of the snapshot does not fail alone.                   *)
BalancesArrive == "balanceFail" \notin Faults

LEMMA BlindIfUnready ==
    ASSUME Shape, BalancesArrive, ~ready => payload = NoSnapshot, [Next]_vars
    PROVE  ~ready' => payload' = NoSnapshot
  <1>1. CASE BeginTick
    BY <1>1 DEF BeginTick, BalancesArrive
  <1>2. CASE Crash
    BY <1>2 DEF Crash
  <1>3. CASE ~BeginTick /\ ~Crash
    <2>1. UNCHANGED <<payload, ready>>
      BY <1>3, VisitFrame, ClosePassFrame, OrdersFrame
      DEF Next, Engine, Environment, NotDue, NotReady, FetchFails, Fetch, Save, ClosedElsewhere, Age,
          OpenPosition, OpenStray, NewPosition, Restart, snap, vars
    <2> QED BY <2>1
  <1> QED BY <1>1, <1>2, <1>3

(* Steps that lead to polling and to finalizing, and steps that stay there. *)
LEMMA IntoPoll ==
    ASSUME [Next]_vars, pc' = "poll"
    PROVE  \/ \E o \in Orders : SubmitClose(o)
           \/ pc = "poll" /\ UNCHANGED <<row, cur>>
  <1>1. CASE Engine
    <2>1. CASE BeginTick \/ NotDue \/ NotReady \/ FetchFails \/ Fetch \/ Save
      BY <2>1 DEF BeginTick, NotDue, NotReady, FetchFails, Fetch, Save
    <2>2. CASE ClosePass
      BY <2>2 DEF ClosePass, NothingOpen, DropConsumed, KeepRow, DecideExit, SubmitRefused, SubmitLost,
         PollPending, PollFilled, RecordClose, RecordRefused, WriteBack, EndsWith
    <2> QED BY <1>1, <2>1, <2>2, VisitFrame DEF Engine
  <1>2. CASE Environment \/ Crash \/ Restart
    BY <1>2, OrdersFrame DEF Environment, ClosedElsewhere, Age, OpenPosition, OpenStray,
       NewPosition, Crash, Restart, work
  <1>3. CASE UNCHANGED vars
    BY <1>3 DEF vars, work
  <1> QED BY <1>1, <1>2, <1>3 DEF Next

LEMMA IntoFinalize ==
    ASSUME [Next]_vars, pc' = "finalize"
    PROVE  \/ ~ready' /\ \E k \in Kinds : DecideExit(k)
           \/ PollFilled
           \/ pc = "finalize" /\ UNCHANGED <<row, ready>>
  <1>1. CASE Engine
    <2>1. CASE BeginTick \/ NotDue \/ NotReady \/ FetchFails \/ Fetch \/ Save
      BY <2>1 DEF BeginTick, NotDue, NotReady, FetchFails, Fetch, Save
    <2>2. CASE \E k \in Kinds \ {"none"} : DecideExit(k)
      BY <2>2 DEF DecideExit, snap
    <2>3. CASE ClosePass /\ ~ \E k \in Kinds \ {"none"} : DecideExit(k)
      BY <2>3 DEF ClosePass, NothingOpen, DropConsumed, KeepRow, SubmitClose, SubmitRefused,
         SubmitLost, PollPending, RecordClose, RecordRefused, WriteBack, EndsWith
    <2> QED BY <1>1, <2>1, <2>2, <2>3, VisitFrame DEF Engine
  <1>2. CASE Environment \/ Crash \/ Restart
    BY <1>2, OrdersFrame DEF Environment, ClosedElsewhere, Age, OpenPosition, OpenStray,
       NewPosition, Crash, Restart, work, snap
  <1>3. CASE UNCHANGED vars
    BY <1>3 DEF vars, work, snap
  <1> QED BY <1>1, <1>2, <1>3 DEF Next

LEMMA TracedNext ==
    ASSUME Shape, Traced, Backed, [Next]_vars PROVE Traced'
  <1>1. OrdersGrow
    BY OrdersOnlyGrow
  <1>2. ASSUME NEW r \in Rowed', r.order # NoOrder PROVE Known(r.cycle, r.order)'
    <2>1. Known(r.cycle, r.order)
      BY <1>2, RowsAreSound DEF Sound
    <2>2. r.order \in Orders
      BY <1>2, ShapeNext DEF Shape, TypeOK, Rowed, Rows
    <2> QED BY <1>1, <2>1, <2>2 DEF OrdersGrow, Known
  <1>3. pc' = "poll" => Known(row.cycle, cur)'
    <2> SUFFICES ASSUME pc' = "poll" PROVE Known(row.cycle, cur)'
      OBVIOUS
    <2>1. ASSUME NEW o \in Orders, SubmitClose(o) PROVE Known(row.cycle, cur)'
      <3>1. order'[o] # NoOrder /\ order'[o].cycle = row.cycle
        BY <2>1, SubmitSends, SendingGrows
      <3> QED BY <2>1, <3>1 DEF SubmitClose, Known
    <2>2. CASE pc = "poll" /\ UNCHANGED <<row, cur>>
      BY <1>1, <2>2 DEF Traced, Known, OrdersGrow, Shape, RowInHand
    <2> QED BY <2>1, <2>2, IntoPoll
  <1>4. ASSUME NEW o \in Orders, order'[o] # NoOrder, order'[o].st = "filled"
        PROVE  order'[o].fill
    <2>1. CASE \E p \in Orders : SubmitClose(p) \/ SubmitLost(p)
      BY <1>4, <2>1, SubmitSends, SendingGrows DEF Traced
    <2>2. CASE \E p \in Orders : FillClose(p) \/ FillPart(p) \/ EndClose(p)
      BY <1>4, <2>2, ExchangeGrows DEF Traced
    <2> QED BY <1>4, <2>1, <2>2, OrdersStay DEF Traced
  <1> QED BY <1>2, <1>3, <1>4 DEF Traced

LEMMA BackedNext ==
    ASSUME Shape, Traced, Backed, BalancesArrive, [Next]_vars PROVE Backed'
  <1>1. \A c : Filled(c) => Filled(c)'
    BY OrdersOnlyGrow, StillFilled
  <1>2. \A r \in Rowed' : r.finalize => Filled(r.cycle)'
    BY <1>1, RowsAreSound DEF Sound
  <1>3. pc' = "finalize" /\ ready' => Filled(row.cycle)'
    <2> SUFFICES ASSUME pc' = "finalize", ready' PROVE Filled(row.cycle)'
      OBVIOUS
    <2>1. CASE PollFilled
      <3>1. cur \in Orders /\ Known(row.cycle, cur) /\ order[cur].fill
        BY <2>1 DEF PollFilled, Traced, Shape, RowInHand
      <3>2. Filled(row.cycle) /\ row' = row
        BY <2>1, <3>1 DEF Known, Filled, PollFilled, work
      <3> QED BY <1>1, <3>2 DEF Filled
    <2>2. CASE pc = "finalize" /\ UNCHANGED <<row, ready>>
      BY <1>1, <2>2 DEF Backed, Filled
    <2> QED BY <2>1, <2>2, IntoFinalize
  <1> QED BY <1>2, <1>3, BlindIfUnready DEF Backed

(* When the balance does not fail alone, only orders of a trade that       *)
(* filled make its row wait for a record: whatever lists, submits and      *)
(* queries fail or lie, whoever opens positions and wherever the process   *)
(* crashes.                                                                *)
THEOREM PendingFilled == BalancesArrive => (Spec => []PendingHasFill)
  <1> SUFFICES ASSUME BalancesArrive PROVE Spec => []PendingHasFill
    OBVIOUS
  <1>1. Init => Traced /\ Backed
    BY DEF Init, Traced, Backed, Rowed
  <1>2. Shape /\ Traced /\ Backed /\ [Next]_vars => (Traced /\ Backed)'
    BY TracedNext, BackedNext
  <1>3. Backed => PendingHasFill
    BY DEF Backed, PendingHasFill, Rowed
  <1> QED BY <1>1, <1>2, <1>3, Shaped, PTL DEF Spec

-----------------------------------------------------------------------------
(* A steady engine.                                                        *)

(* No crash, no operator's switch, and every list of positions arrives and *)
(* is true: what is left to fail are balances, submits and queries, and    *)
(* what orders do.                                                         *)
Steady ==
    /\ MaxCrashes = 0 /\ TrueSnapshots /\ OwnPositions
    /\ {"fetchFail", "closeOnly"} \cap Faults = {}

(* Then an open position has its row, no row is adopted and nothing is     *)
(* relabelled close-only.                                                  *)
Tracked ==
    /\ position # 0 => ledger # NoRow /\ ledger.cycle.pos = position
    /\ ~safeMode /\ ~closeOnly
    /\ row # NoRow => ledger # NoRow
    /\ pc = "visit" /\ remote => ledger # NoRow
    /\ \A r \in Rowed : r.cycle.origin = "own"

(* An exit was decided for a row that is managed.                          *)
Exiting == pc \in {"submit", "poll", "finalize"} => row.life \in {"managed", "closeOnly"}

Base == Shape /\ Truth /\ Settled /\ Tracked /\ Exiting

LEMMA NoCrash == ASSUME Shape, Steady PROVE ~Crash
    BY DEF Steady, Shape, TypeOK, Crash

LEMMA NoneAdopted == ASSUME Base PROVE ~Adopt
    BY VisitFrame DEF Base, Tracked, Settled, Visit, Adopt

LEMMA NoneMarked == ASSUME Tracked PROVE Marked = ledger
    BY DEF Tracked, Marked, Effective

(* A visit ends with the row it began with, or with none.                  *)
LEMMA VisitedRow ==
    ASSUME Base, Visit, row' # NoRow
    PROVE  ledger # NoRow /\ row # NoRow /\ row = ledger /\ row'.cycle = row.cycle
    BY NoneAdopted, VisitKeepsCycle, VisitFrame DEF Base, Settled

LEMMA TrackedPosition ==
    ASSUME Base, Steady, [Next]_vars, position' # 0
    PROVE  ledger' # NoRow /\ ledger'.cycle.pos = position'
  <1>1. CASE OpenPosition
    <2>1. /\ opened + 1 \in 0..MaxPositions /\ ledger'.cycle.pos = opened + 1
          /\ position' = opened + 1
      BY <1>1, BoundsAssumption DEF OpenPosition, NewPosition, Base, Shape, TypeOK
    <2>2. \A l \in {"unconfirmed", "managed"} :
             [cycle |-> [pos |-> opened + 1, origin |-> "own"], life |-> l,
              finalize |-> FALSE, order |-> NoOrder] \in Rows
      BY <2>1 DEF Rows, Lives, Cycles
    <2>3. ledger' \in Rows
      BY <1>1, <2>2 DEF OpenPosition
    <2> QED BY <2>1, <2>3, NoRowAssumption
  <1>2. CASE ~OpenPosition
    <2>1. position' = position
      BY <1>2, VisitFrame, ClosePassFrame, OrdersFrame
      DEF Next, Engine, Environment, BeginTick, NotDue, NotReady, FetchFails, Fetch, Save,
          ClosedElsewhere, Age, OpenStray, Steady, OwnPositions, Crash, Restart, env, vars
    <2> QED BY <2>1, LeavesFlat DEF Base, Tracked, Leaves
  <1> QED BY <1>1, <1>2

LEMMA TrackedRows ==
    ASSUME Base, [Next]_vars PROVE \A r \in Rowed' : r.cycle.origin = "own"
  <1>1. CASE Engine
    BY <1>1, NoneAdopted, CyclesKept DEF Base, Tracked
  <1>2. CASE OpenPosition
    BY <1>2 DEF OpenPosition, NewPosition, Base, Tracked, Rowed, work
  <1>3. CASE \/ ClosedElsewhere \/ Age \/ OpenStray \/ Crash \/ Restart
             \/ \E o \in Orders : FillClose(o) \/ FillPart(o) \/ EndClose(o)
    <2>1. row' \in {row, NoRow} /\ UNCHANGED ledger
      BY <1>3, OrdersFrame DEF ClosedElsewhere, Age, OpenStray, NewPosition, Crash, Restart, work, disk
    <2> QED BY <2>1 DEF Base, Tracked, Rowed
  <1>4. CASE UNCHANGED vars
    BY <1>4 DEF vars, work, disk, Base, Tracked, Rowed
  <1> QED BY <1>1, <1>2, <1>3, <1>4 DEF Next, Environment

LEMMA TrackedRest ==
    ASSUME Base, Steady, [Next]_vars
    PROVE  /\ ~safeMode' /\ ~closeOnly'
           /\ row' # NoRow => ledger' # NoRow
           /\ pc' = "visit" /\ remote' => ledger' # NoRow
  <1>1. CASE BeginTick \/ NotDue \/ NotReady \/ FetchFails \/ Fetch
    <2>1. CASE Fetch
      BY <2>1 DEF Base, Steady, TrueSnapshots, Tracked, Fetch, snap, mem, disk
    <2>2. CASE BeginTick
      <3>1. "closeOnly" \notin Faults
        BY DEF Steady
      <3>2. closeOnly' \in {FALSE} \cup {"closeOnly" \in Faults}
        BY <2>2 DEF BeginTick
      <3>3. ~closeOnly'
        BY <3>1, <3>2, Zenon
      <3> QED BY <2>2, <3>3 DEF Base, Tracked, BeginTick, mem, work, disk
    <2>3. CASE NotDue \/ NotReady \/ FetchFails
      BY <2>3 DEF Base, Steady, Tracked, NotDue, NotReady, FetchFails, snap, mem, work, disk
    <2> QED BY <1>1, <2>1, <2>2, <2>3
  <1>2. CASE Visit
    BY <1>2, VisitFrame, VisitedRow DEF Base, Tracked, snap
  <1>3. CASE Save
    BY <1>3 DEF Base, Tracked, Rowed, Save, Untracked, snap
  <1>4. CASE ClosePass
    <2>1. row' # NoRow => ledger' # NoRow
      <3>1. CASE WriteBack
        BY <3>1 DEF WriteBack
      <3>2. CASE ~WriteBack
        BY <1>4, <3>2, ClosePassFrame, ClosePassKeepsCycle DEF Base, Tracked, Rowed
      <3> QED BY <3>1, <3>2
    <2> QED BY <1>4, <2>1, ClosePassFrame DEF Base, Tracked, snap
  <1>5. CASE OpenPosition
    BY <1>5 DEF OpenPosition, NewPosition, Base, Settled, Tracked, snap, work
  <1>6. CASE \/ ClosedElsewhere \/ Age \/ OpenStray \/ Restart
             \/ \E o \in Orders : FillClose(o) \/ FillPart(o) \/ EndClose(o)
    BY <1>6, OrdersFrame DEF ClosedElsewhere, Age, OpenStray, Steady, OwnPositions, Restart,
       Base, Tracked, snap, mem, work, disk
  <1>7. CASE UNCHANGED vars
    BY <1>7 DEF vars, snap, mem, work, disk, Base, Tracked
  <1> QED BY <1>1, <1>2, <1>3, <1>4, <1>5, <1>6, <1>7, NoCrash DEF Next, Engine, Environment, Base

LEMMA ExitingNext == ASSUME Base, Steady, [Next]_vars PROVE Exiting'
  <1>1. CASE Engine
    <2>1. CASE ClosePass
      BY <2>1, NoneMarked DEF ClosePass, NothingOpen, DropConsumed, KeepRow, DecideExit,
         SubmitClose, SubmitRefused, SubmitLost, PollPending, PollFilled, RecordClose,
         RecordRefused, WriteBack, EndsWith, work, Base, Exiting
    <2>2. CASE BeginTick \/ NotDue \/ NotReady \/ FetchFails \/ Fetch \/ Save
      BY <2>2 DEF BeginTick, NotDue, NotReady, FetchFails, Fetch, Save, Exiting
    <2> QED BY <1>1, <2>1, <2>2, VisitFrame DEF Engine, Exiting
  <1>2. CASE Environment \/ Restart
    BY <1>2, OrdersFrame DEF Environment, ClosedElsewhere, Age, OpenPosition, OpenStray, NewPosition,
       Restart, work, Base, Exiting
  <1>3. CASE UNCHANGED vars
    BY <1>3 DEF vars, work, Base, Exiting
  <1> QED BY <1>1, <1>2, <1>3, NoCrash DEF Next, Base

LEMMA BaseNext == ASSUME Base, Steady, [Next]_vars PROVE Tracked' /\ Exiting'
    BY TrackedPosition, TrackedRows, TrackedRest, ExitingNext DEF Tracked

LEMMA Based == Steady => (Spec => []Base)
  <1> SUFFICES ASSUME Steady PROVE Spec => []Base
    OBVIOUS
  <1>1. Init => Tracked /\ Exiting
    BY DEF Init, Tracked, Rowed, Exiting
  <1>2. Spec => [](Shape /\ Truth /\ Settled)
    BY SettledHolds DEF Steady
  <1>3. Shape /\ Truth /\ Settled /\ Tracked /\ Exiting /\ [Next]_vars => (Tracked /\ Exiting)'
    BY BaseNext DEF Base
  <1> QED BY <1>1, <1>2, <1>3, PTL DEF Spec, Base

-----------------------------------------------------------------------------
(* One close order in flight.                                              *)

(* Nor do submits lose their answer or orders fill in part.                *)
WholeFills == {"lostAnswer", "partialFill"} \cap Faults = {}

Waits(r, o) == r.life = "closePending" /\ r.order = o

(* A live order of a trade is the one its row waits for; the ledger's copy *)
(* of the row says so but for the moment between submit and the write.     *)
Held ==
    \A o \in Orders : Live(o) =>
        /\ row # NoRow /\ order[o].cycle = row.cycle
             => IF pc = "poll" THEN o = cur ELSE Waits(row, o)
        /\ ledger # NoRow /\ order[o].cycle = ledger.cycle /\ pc # "poll"
           /\ ~(pc = "write" /\ row # NoRow)
             => Waits(ledger, o)

(* An order belongs to a trade of the past or present, and a live order    *)
(* has no fill.                                                            *)
Unsent ==
    /\ \A o \in Orders : order[o] # NoOrder => order[o].cycle.pos <= opened
    /\ \A o \in Orders : Live(o) => ~order[o].fill

InFlight == Held /\ Unsent /\ OneCloseInFlight

(* Steps that send nothing make no order live.                             *)
LEMMA LiveBefore ==
    ASSUME Shape, WholeFills, [Next]_vars, NEW o \in Orders, Live(o)',
           ~ \E q \in Orders : SubmitClose(q)
    PROVE  Live(o) /\ order'[o] = order[o]
  <1>1. ~ \E q \in Orders : SubmitLost(q) \/ FillPart(q)
    BY DEF WholeFills, SubmitLost, FillPart
  <1>2. CASE \E q \in Orders : FillClose(q) \/ EndClose(q)
    BY <1>1, <1>2, ExchangeGrows DEF Live
  <1>3. CASE UNCHANGED order
    BY <1>3 DEF Live
  <1> QED BY <1>1, <1>2, <1>3, OrdersStay

LEMMA UnsentNext ==
    ASSUME Base, Steady, WholeFills, InFlight, [Next]_vars PROVE Unsent'
  <1>1. opened' \in Nat /\ opened' >= opened /\ opened \in Nat
    <2>1. opened' \in {opened, opened + 1}
      BY VisitFrame, ClosePassFrame, OrdersFrame
      DEF Next, Engine, Environment, BeginTick, NotDue, NotReady, FetchFails, Fetch, Save,
          ClosedElsewhere, Age, OpenPosition, OpenStray, NewPosition, Crash, Restart, env, vars
    <2> QED BY <2>1, BoundsAssumption DEF Base, Shape, TypeOK
  <1>2. ASSUME NEW o \in Orders, order'[o] # NoOrder
        PROVE  order'[o].cycle.pos <= opened' /\ (Live(o)' => ~order'[o].fill)
    <2>1. \A c \in Cycles : c.pos \in Nat
      BY BoundsAssumption DEF Cycles
    <2>2. ASSUME NEW q \in Orders, SubmitClose(q) PROVE  order'[o].cycle.pos <= opened' /\ (Live(o)' => ~order'[o].fill)
      <3>1. row \in Rows /\ row.cycle \in Cycles /\ row.cycle.pos <= opened
        BY <2>2 DEF SubmitClose, Base, Shape, TypeOK, RowInHand, Rows, Truth, Past, Rowed
      <3>2. /\ order'[q].cycle = row.cycle /\ ~order'[q].fill /\ opened' = opened
            /\ \A p \in Orders : p # q => order'[p] = order[p]
        BY <2>2, SubmitSends, SendingGrows DEF SubmitClose, Base
      <3> QED BY <1>2, <3>1, <3>2 DEF InFlight, Unsent, Live
    <2>3. CASE ~ \E q \in Orders : SubmitClose(q)
      <3>1. Live(o)' => ~order'[o].fill
        BY <2>3, LiveBefore DEF Base, InFlight, Unsent
      <3>2. order[o] # NoOrder /\ order'[o].cycle = order[o].cycle
        <4>1. ~ \E q \in Orders : SubmitLost(q)
          BY DEF WholeFills, SubmitLost
        <4>2. order[o] # NoOrder
          BY <1>2, <2>3, <4>1, OrdersStay, ExchangeGrows DEF Base
        <4> QED BY <4>2, OrdersOnlyGrow DEF OrdersGrow, Base
      <3>3. order[o].cycle.pos \in Nat
        BY <2>1, <3>2 DEF Base, Shape, TypeOK, OrderRecords
      <3> QED BY <1>1, <3>1, <3>2, <3>3 DEF InFlight, Unsent
    <2> QED BY <2>2, <2>3
  <1> QED BY <1>2 DEF Unsent, Live

(* The clauses of Held for one order.                                      *)
HeldByRow(o) ==
    row # NoRow /\ order[o].cycle = row.cycle => IF pc = "poll" THEN o = cur ELSE Waits(row, o)
HeldByLedger(o) ==
    /\ ledger # NoRow /\ order[o].cycle = ledger.cycle
    /\ pc # "poll" /\ ~(pc = "write" /\ row # NoRow)
    => Waits(ledger, o)

LEMMA HeldParts == Held <=> \A o \in Orders : Live(o) => HeldByRow(o) /\ HeldByLedger(o)
    BY DEF Held, HeldByRow, HeldByLedger

(* A visit leaves a row that waits for a live order waiting for it.        *)
LEMMA HeldOfVisit ==
    ASSUME Base, InFlight, Visit, NEW o \in Orders, Live(o), order'[o] = order[o]
    PROVE  (HeldByRow(o) /\ HeldByLedger(o))'
  <1>1. pc = "visit" /\ pc' = "save" /\ ledger' = ledger
    BY VisitFrame
  <1>2. HeldByLedger(o)'
    BY <1>1, HeldParts DEF InFlight, HeldByLedger, Waits
  <1>3. HeldByRow(o)'
    <2> SUFFICES ASSUME row' # NoRow, order'[o].cycle = row'.cycle PROVE Waits(row', o)
      BY <1>1 DEF HeldByRow, Waits
    <2>1. row # NoRow /\ row \in Rows /\ row'.cycle = row.cycle
      BY VisitedRow DEF Base, Shape, TypeOK
    <2>2. row.life = "closePending" /\ row.order = o
      BY <1>1, <2>1, HeldParts DEF InFlight, HeldByRow, Waits
    <2>3. CASE VisitWaiting \/ HoldZero \/ PendingKept
      BY <2>2, <2>3 DEF VisitWaiting, HoldZero, PendingKept, Visited, Waits
    <2>4. CASE PendingRefused
      BY <2>1, <2>2, <2>4, RefusedRow DEF PendingRefused, Visited, Waits, Base
    <2>5. ~(VisitConfirm \/ VisitMatched \/ PendingEnded \/ PendingForgotten)
      BY <2>2 DEF VisitConfirm, VisitMatched, PendingEnded, PendingForgotten, Live
    <2>6. ~(VisitFailed \/ VisitVanished \/ FinalizeFlat \/ PruneFlat \/ PendingRecorded
            \/ NoneToVisit)
      BY DEF VisitFailed, VisitVanished, FinalizeFlat, PruneFlat, PendingRecorded, NoneToVisit, Visited
    <2> QED BY <2>3, <2>4, <2>5, <2>6, NoneAdopted DEF Visit
  <1> QED BY <1>2, <1>3

LEMMA HeldOfClosePass ==
    ASSUME Base, InFlight, ClosePass, NEW o \in Orders, Live(o), order'[o] = order[o],
           ~ \E q \in Orders : SubmitClose(q) \/ SubmitLost(q)
    PROVE  (HeldByRow(o) /\ HeldByLedger(o))'
  <1>1. HeldByRow(o) /\ HeldByLedger(o)
    BY HeldParts DEF InFlight
  <1>2. /\ row \in Rows \cup {NoRow} /\ ledger \in Rows \cup {NoRow} /\ Marked = ledger
        /\ row # NoRow => ledger # NoRow /\ row.cycle = ledger.cycle
        /\ pc \in {"idle", "close"} => row = NoRow
    BY NoneMarked DEF Base, Shape, TypeOK, Tracked, Settled
  <1>3. CASE NothingOpen
    BY <1>1, <1>2, <1>3 DEF NothingOpen, HeldByRow, HeldByLedger, Waits, work, disk
  <1>4. CASE DropConsumed \/ KeepRow
    <2>1. pc = "close" /\ pc' = "write" /\ row' \in {NoRow, ledger} /\ ledger' = ledger
      BY <1>2, <1>4 DEF DropConsumed, KeepRow, EndsWith
    <2> QED BY <1>1, <1>2, <2>1 DEF HeldByRow, HeldByLedger, Waits
  <1>5. ASSUME NEW k \in Kinds, DecideExit(k) PROVE (HeldByRow(o) /\ HeldByLedger(o))'
    <2>1. /\ pc = "close" /\ pc' \in {"submit", "finalize"} /\ row' = ledger /\ ledger' = ledger
          /\ ledger # NoRow /\ ledger.life # "closePending"
      BY <1>2, <1>5 DEF DecideExit, disk
    <2> QED BY <1>1, <2>1 DEF HeldByRow, HeldByLedger, Waits
  <1>6. CASE SubmitRefused
    <2>1. pc = "submit" /\ pc' = "write" /\ row' = row /\ row # NoRow
      BY <1>6 DEF SubmitRefused, EndsWith, Base, Shape, RowInHand
    <2> QED BY <1>1, <2>1 DEF HeldByRow, HeldByLedger, Waits
  <1>7. CASE PollPending
    <2>1. row \in Rows /\ cur \in Orders /\ pc = "poll" /\ pc' = "write"
      BY <1>2, <1>7 DEF PollPending, EndsWith, Base, Shape, RowInHand
    <2>2. row' = [row EXCEPT !.life = "closePending", !.order = cur]
      BY <1>7 DEF PollPending, EndsWith
    <2>3. row' \in Rows
      BY <2>1, <2>2, NullsAssumption DEF Rows, Lives
    <2>4. row'.cycle = row.cycle /\ row'.life = "closePending" /\ row'.order = cur
      BY <2>1, <2>2, RelabelledRow
    <2> QED BY <1>1, <2>1, <2>3, <2>4, NoRowAssumption DEF HeldByRow, HeldByLedger, Waits
  <1>8. CASE PollFilled
    <2>1. pc = "poll" /\ pc' = "finalize" /\ UNCHANGED <<row, ledger>> /\ row # NoRow
      BY <1>8 DEF PollFilled, work, disk, Base, Shape, RowInHand
    <2>2. o # cur
      BY <1>8 DEF PollFilled, InFlight, Unsent
    <2> QED BY <1>1, <1>2, <2>1, <2>2 DEF HeldByRow, HeldByLedger
  <1>9. CASE RecordClose \/ RecordRefused
    <2>1. /\ pc = "finalize" /\ pc' = "write" /\ UNCHANGED ledger /\ row \in Rows
          /\ row' \in {NoRow, Refused(row)}
      BY <1>2, <1>9 DEF RecordClose, RecordRefused, EndsWith, Base, Shape, RowInHand
    <2>2. Refused(row) \in Rows
      BY <2>1, RowsStayRows DEF Base, Shape, TypeOK
    <2> QED BY <1>1, <2>1, <2>2, NoRowAssumption, RefusedRow
            DEF HeldByRow, HeldByLedger, Waits, Base
  <1>10. CASE WriteBack
    BY <1>1, <1>10 DEF WriteBack, HeldByRow, HeldByLedger, Waits
  <1> QED BY <1>3, <1>4, <1>5, <1>6, <1>7, <1>8, <1>9, <1>10 DEF ClosePass

LEMMA HeldOfSubmit ==
    ASSUME Base, InFlight, NEW q \in Orders, SubmitClose(q)
    PROVE  (Held /\ OneCloseInFlight)'
  <1>1. /\ Sending(q) /\ pc = "submit" /\ pc' = "poll" /\ cur' = q
        /\ UNCHANGED <<row, ledger>> /\ row # NoRow
    BY SubmitSends DEF SubmitClose, disk, Base, Shape, RowInHand
  <1>2. order'[q].cycle = row.cycle /\ \A p \in Orders : p # q => order'[p] = order[p]
    BY <1>1, SendingGrows DEF Base
  <1>3. ASSUME NEW o \in Orders, Live(o)', o # q
        PROVE  Live(o) /\ order'[o].cycle # row.cycle
    BY <1>1, <1>2, <1>3 DEF Base, Exiting, InFlight, Held, Unsent, Live, Waits
  <1>4. \A o \in Orders : Live(o)' => (HeldByRow(o) /\ HeldByLedger(o))'
    BY <1>1, <1>3 DEF HeldByRow, HeldByLedger
  <1>5. Held'
    BY <1>4 DEF Held, HeldByRow, HeldByLedger
  <1>6. OneCloseInFlight'
    BY <1>2, <1>3 DEF InFlight, OneCloseInFlight
  <1> QED BY <1>5, <1>6

LEMMA HeldOfRest ==
    ASSUME Base, Steady, InFlight, NEW o \in Orders, Live(o), order'[o] = order[o],
           \/ BeginTick \/ NotDue \/ NotReady \/ FetchFails \/ Fetch \/ Save
           \/ Environment \/ Restart \/ UNCHANGED vars
    PROVE  (HeldByRow(o) /\ HeldByLedger(o))'
  <1>1. HeldByRow(o) /\ HeldByLedger(o)
    BY HeldParts DEF InFlight
  <1>2. CASE BeginTick \/ NotDue \/ NotReady \/ FetchFails \/ Fetch \/ Save
    BY <1>1, <1>2 DEF BeginTick, NotDue, NotReady, FetchFails, Fetch, Save, HeldByRow, HeldByLedger,
       Waits, work, disk
  <1>3. CASE OpenPosition
    <2>1. /\ pc = "idle" /\ UNCHANGED <<pc, row>> /\ row = NoRow /\ opened \in Nat
          /\ ledger'.cycle.pos = opened + 1
      BY <1>3, BoundsAssumption DEF OpenPosition, NewPosition, work, Base, Settled, Shape, TypeOK
    <2>2. order[o].cycle.pos <= opened
      BY DEF InFlight, Unsent, Live
    <2> QED BY <2>1, <2>2 DEF HeldByRow, HeldByLedger
  <1>4. CASE Restart \/ UNCHANGED vars
    BY <1>1, <1>4 DEF Restart, vars, work, disk, HeldByRow, HeldByLedger, Waits
  <1>5. CASE \/ ClosedElsewhere \/ Age \/ OpenStray
             \/ \E q \in Orders : FillClose(q) \/ FillPart(q) \/ EndClose(q)
    <2>1. UNCHANGED <<pc, row, ledger, cur>>
      BY <1>5, OrdersFrame DEF ClosedElsewhere, Age, OpenStray, Steady, OwnPositions, work, disk
    <2> QED BY <1>1, <2>1 DEF HeldByRow, HeldByLedger, Waits
  <1> QED BY <1>2, <1>3, <1>4, <1>5 DEF Environment

LEMMA InFlightNext ==
    ASSUME Base, Steady, WholeFills, InFlight, [Next]_vars PROVE InFlight'
  <1>1. CASE \E q \in Orders : SubmitClose(q)
    BY <1>1, HeldOfSubmit, UnsentNext DEF InFlight
  <1>2. CASE ~ \E q \in Orders : SubmitClose(q)
    <2>1. \A o \in Orders : Live(o)' => Live(o) /\ order'[o] = order[o]
      BY <1>2, LiveBefore DEF Base
    <2>2. ~ \E q \in Orders : SubmitLost(q)
      BY DEF WholeFills, SubmitLost
    <2>3. \A o \in Orders : Live(o)' => (HeldByRow(o) /\ HeldByLedger(o))'
      BY <1>2, <2>1, <2>2, NoCrash, HeldOfVisit, HeldOfClosePass, HeldOfRest DEF Base, Next, Engine
    <2>4. Held'
      BY <2>3 DEF Held, HeldByRow, HeldByLedger
    <2>5. OneCloseInFlight'
      BY <2>1 DEF InFlight, OneCloseInFlight
    <2> QED BY <2>4, <2>5, UnsentNext DEF InFlight
  <1> QED BY <1>1, <1>2

(* At most one close order of a position is live in a steady engine whose  *)
(* submits do not lose their answer and whose orders fill whole, whatever  *)
(* balances and queries fail and whatever orders the exchange forgets.     *)
THEOREM OneClose == Steady /\ WholeFills => (Spec => []OneCloseInFlight)
  <1> SUFFICES ASSUME Steady, WholeFills PROVE Spec => []OneCloseInFlight
    OBVIOUS
  <1>1. Init => InFlight
    BY DEF Init, InFlight, Held, Unsent, OneCloseInFlight, Live
  <1>2. Base /\ InFlight /\ [Next]_vars => InFlight'
    BY InFlightNext
  <1>3. InFlight => OneCloseInFlight
    BY DEF InFlight
  <1> QED BY <1>1, <1>2, <1>3, Based, PTL DEF Spec

-----------------------------------------------------------------------------
(* A row waits until its trade is recorded.                                *)

(* Every entry is written before its fill is confirmed.                    *)
LateConfirms == "promptConfirm" \notin Faults

(* A row that waits for its record was confirmed by a reconciliation, so   *)
(* it is past its grace period; zeros are counted against a confirmed row  *)
(* only after its position closed, and then the snapshot shows nothing     *)
(* when they are acted upon.                                               *)
Unfinalized == \A r \in Rowed : r.finalize => r.life # "unconfirmed"

Counts ==
    \A r \in Rowed : r.life # "unconfirmed" /\ zeros > 0 =>
        position = 0 /\ (pc \in {"positions", "visit"} => payload = 0)

Seen ==
    /\ ledger # NoRow /\ ledger.life # "unconfirmed" => seen
    /\ pc \in {"submit", "poll", "finalize", "write"} /\ row # NoRow /\ row.life # "unconfirmed"
         => seen

DroppedIsRecorded ==
    pc = "save" /\ row = NoRow /\ ledger # NoRow /\ ledger.finalize
        => history[ledger.cycle] > 0

Waiting == Unfinalized /\ Counts /\ Seen /\ DroppedIsRecorded

(* Without a closePending row, a visit that changes the row confirms it or *)
(* relabels it.                                                            *)
LEMMA VisitedLife ==
    ASSUME Base, Waiting, Visit, row' # NoRow
    PROVE  row'.finalize => row'.life # "unconfirmed"
  <1>1. row \in Rows /\ row \in Rowed
    BY VisitedRow DEF Base, Shape, TypeOK, Rowed
  <1>2. row.finalize => row.life # "unconfirmed"
    BY <1>1 DEF Waiting, Unfinalized
  <1>3. CASE VisitConfirm \/ VisitMatched
    <2>1. PICK l \in Lives : row' = [row EXCEPT !.life = l] /\ (l # "unconfirmed" \/ l = row.life)
      BY <1>1, <1>3 DEF VisitConfirm, VisitMatched, Visited, Lives, Rows
    <2> QED BY <1>1, <1>2, <2>1, RelabelledRow
  <1>4. CASE PendingEnded \/ PendingForgotten
    <2>1. PICK l \in {"managed", "closeOnly"} : row' = [row EXCEPT !.life = l, !.order = NoOrder]
      BY <1>4 DEF PendingEnded, PendingForgotten, Visited
    <2> QED BY <1>1, <2>1, RelabelledRow
  <1>5. CASE PendingRefused
    BY <1>1, <1>5, RefusedRow DEF PendingRefused, Queried, Visited, Base
  <1>6. CASE VisitFailed \/ VisitWaiting \/ VisitVanished \/ HoldZero \/ FinalizeFlat
             \/ PruneFlat \/ PendingRecorded \/ PendingKept \/ NoneToVisit
    BY <1>2, <1>6 DEF VisitFailed, VisitWaiting, VisitVanished, HoldZero, FinalizeFlat, PruneFlat,
                PendingRecorded, PendingKept, NoneToVisit, Visited
  <1> QED BY <1>3, <1>4, <1>5, <1>6, NoneAdopted, Zenon DEF Visit

(* Seeing the position resets the count of its row.                        *)
LEMMA VisitedZeros ==
    ASSUME Base, Visit, row # NoRow, remote PROVE zeros' = 0
  <1>1. ~(VisitFailed \/ VisitWaiting \/ VisitVanished \/ HoldZero \/ FinalizeFlat \/ PruneFlat
          \/ NoneToVisit)
    BY DEF VisitFailed, VisitWaiting, VisitVanished, HoldZero, FinalizeFlat, PruneFlat, NoneToVisit,
           FlatCandidate
  <1> QED BY <1>1, NoneAdopted DEF Visit, VisitConfirm, VisitMatched, PendingRecorded,
       PendingRefused, PendingEnded, PendingKept, PendingForgotten, Visited, Counted

(* A visit drops a row that waits only once its trade is recorded.         *)
LEMMA VisitDrops ==
    ASSUME Base, Waiting, Visit PROVE DroppedIsRecorded'
  <1> SUFFICES ASSUME row' = NoRow, ledger # NoRow, ledger.finalize
               PROVE  history'[ledger.cycle] > 0
    BY VisitFrame DEF DroppedIsRecorded
  <1>1. /\ pc = "visit" /\ row = ledger /\ row \in Rows /\ row \in Rowed
        /\ row.cycle \in Cycles /\ history \in [Cycles -> Nat]
        /\ row.life # "unconfirmed" /\ seen /\ (~remote => position = 0)
    BY VisitFrame DEF Base, Shape, TypeOK, Settled, Waiting, Unfinalized, Seen, Rowed, Rows
  <1>2. ~(VisitFailed \/ VisitVanished \/ NoneToVisit)
    BY <1>1 DEF VisitFailed, VisitVanished, NoneToVisit, IsNew
  <1>3. CASE FinalizeFlat \/ PendingRecorded
    BY <1>1, <1>3, RecordingStep DEF Recording, Base
  <1>4. CASE PruneFlat
    <2>1. zeros > 0
      BY <1>4 DEF PruneFlat, FlatConfirmed, ZerosNow, ConfirmRequired, Base, Shape, TypeOK
    <2>2. ~StillShown
      BY <1>1, <2>1 DEF Waiting, Counts, StillShown
    <2>3. Duplicate(row) /\ UNCHANGED history
      BY <1>1, <1>4, <2>2 DEF PruneFlat, Appendable
    <2> QED BY <1>1, <2>3 DEF Duplicate
  <1>5. ~(VisitConfirm \/ VisitWaiting \/ VisitMatched \/ HoldZero \/ PendingRefused
          \/ PendingEnded \/ PendingKept \/ PendingForgotten \/ Adopt)
    BY VisitKeepsRow, NoRowAssumption DEF Base
  <1> QED BY <1>2, <1>3, <1>4, <1>5, Zenon DEF Visit

LEMMA WaitingOfVisit ==
    ASSUME Base, Waiting, Visit PROVE Waiting'
  <1>1. /\ pc = "visit" /\ pc' = "save" /\ UNCHANGED <<ledger, position, seen>>
        /\ row = ledger /\ (~remote => position = 0)
    BY VisitFrame DEF env, Base, Settled
  <1>2. Unfinalized'
    BY <1>1, VisitedLife DEF Waiting, Unfinalized, Rowed
  <1>3. Counts'
    <2>1. Rowed' # {} => row # NoRow
      BY <1>1, VisitedRow DEF Rowed
    <2> QED BY <1>1, <2>1, VisitedZeros DEF Counts
  <1>4. Seen'
    BY <1>1 DEF Waiting, Seen
  <1> QED BY <1>2, <1>3, <1>4, VisitDrops DEF Waiting

LEMMA WaitingOfClosePass ==
    ASSUME Base, Waiting, ClosePass PROVE Waiting'
  <1>1. /\ row \in Rows \cup {NoRow} /\ ledger \in Rows \cup {NoRow} /\ Marked = ledger
    BY NoneMarked DEF Base, Shape, TypeOK, Tracked
  <1>2. /\ pc' \notin {"positions", "visit", "save"} /\ UNCHANGED <<zeros, seen, position>>
        /\ pc \in {"close", "submit", "poll", "finalize", "write"}
    BY ClosePassFrame
  <1>3. ledger' \in {ledger, row} /\ (~WriteBack => ledger' = ledger)
    BY ClosePassFrame, ClosePassKeepsCycle DEF Base
  <1>4. row' # NoRow => \E q \in Rowed :
                           /\ q = ledger \/ (q = row /\ pc \in {"submit", "poll", "finalize", "write"})
                           /\ row'.life # "unconfirmed" <=> q.life # "unconfirmed"
                           /\ row'.finalize => q.finalize \/ q.life # "unconfirmed"
    <2>1. CASE DropConsumed \/ KeepRow \/ \E k \in Kinds \ {"none"} : DecideExit(k)
      <3>1. ledger # NoRow /\ row' \in {NoRow, ledger}
        BY <1>1, <2>1 DEF DropConsumed, KeepRow, DecideExit, EndsWith
      <3> QED BY <3>1 DEF Rowed
    <2>2. CASE PollPending
      <3>1. row \in Rows /\ row' = [row EXCEPT !.life = "closePending", !.order = cur]
        BY <1>1, <2>2 DEF PollPending, EndsWith, Base, Shape, RowInHand
      <3>2. row'.life = "closePending" /\ row.life # "unconfirmed" /\ pc = "poll"
        BY <2>2, <3>1, RelabelledRow DEF PollPending, Base, Exiting
      <3> QED BY <3>1, <3>2, NoRowAssumption DEF Rowed
    <2>3. CASE RecordRefused
      <3>1. row \in Rows /\ row' = Refused(row) /\ row'.life = row.life /\ pc = "finalize"
        BY <1>1, <2>3, RefusedRow DEF RecordRefused, EndsWith, Base, Shape, RowInHand
      <3>2. row.life # "unconfirmed"
        BY <3>1 DEF Base, Exiting
      <3> QED BY <3>1, <3>2, NoRowAssumption DEF Rowed
    <2>4. CASE \/ NothingOpen \/ SubmitRefused \/ PollFilled \/ RecordClose \/ WriteBack
               \/ \E o \in Orders : SubmitClose(o) \/ SubmitLost(o)
      BY <2>4 DEF NothingOpen, SubmitRefused, PollFilled, RecordClose, WriteBack,
         SubmitClose, SubmitLost, EndsWith, work, Rowed, Base, Settled
    <2> QED BY <2>1, <2>2, <2>3, <2>4 DEF ClosePass
  <1>5. Unfinalized' /\ Counts'
    BY <1>2, <1>3, <1>4 DEF Waiting, Unfinalized, Counts, Rowed
  <1>6. Seen'
    <2>1. row' # NoRow /\ row'.life # "unconfirmed" => seen
      BY <1>4 DEF Waiting, Seen, Rowed
    <2>2. ledger' # NoRow /\ ledger'.life # "unconfirmed" => seen
      <3>1. CASE WriteBack
        BY <1>3, <3>1 DEF WriteBack, Waiting, Seen
      <3> QED BY <1>3, <3>1 DEF Waiting, Seen
    <2> QED BY <1>2, <2>1, <2>2 DEF Seen
  <1>7. DroppedIsRecorded'
    BY <1>2 DEF DroppedIsRecorded
  <1> QED BY <1>5, <1>6, <1>7 DEF Waiting

LEMMA WaitingOfRest ==
    ASSUME Base, Steady, LateConfirms, Waiting,
           \/ BeginTick \/ NotDue \/ NotReady \/ FetchFails \/ Fetch \/ Save
           \/ Environment \/ Restart \/ UNCHANGED vars
    PROVE  Waiting'
  <1>1. CASE BeginTick
    <2>1. payload' = position
      BY <1>1 DEF BeginTick, Steady, TrueSnapshots
    <2> QED BY <1>1, <2>1 DEF BeginTick, mem, work, disk, env, Waiting, Unfinalized, Counts, Seen,
               DroppedIsRecorded, Rowed
  <1>2. CASE NotDue \/ NotReady \/ FetchFails \/ Fetch \/ Save
    BY <1>2 DEF NotDue, NotReady, FetchFails, Fetch, Save, snap, mem, work, disk, env, Waiting,
       Unfinalized, Counts, Seen, DroppedIsRecorded, Rowed
  <1>3. CASE OpenPosition
    <2>1. /\ pc = "idle" /\ UNCHANGED <<pc, row>> /\ row = NoRow
          /\ ledger'.life = "unconfirmed" /\ ledger'.finalize = FALSE
      BY <1>3 DEF OpenPosition, NewPosition, LateConfirms, work, Base, Settled
    <2> QED BY <2>1 DEF Waiting, Unfinalized, Counts, Seen, DroppedIsRecorded, Rowed
  <1>4. CASE \/ ClosedElsewhere \/ Age \/ OpenStray \/ Restart \/ UNCHANGED vars
             \/ \E q \in Orders : FillClose(q) \/ FillPart(q) \/ EndClose(q)
    <2>1. /\ UNCHANGED <<payload, row, ledger, history, zeros, seen>> /\ position' \in {position, 0}
          /\ pc' = pc \/ pc' = "idle"
      BY <1>4, OrdersFrame DEF ClosedElsewhere, Age, OpenStray, Restart, Steady, OwnPositions, vars,
         snap, mem, work, disk, env
    <2> QED BY <2>1 DEF Waiting, Unfinalized, Counts, Seen, DroppedIsRecorded, Rowed
  <1> QED BY <1>1, <1>2, <1>3, <1>4 DEF Environment

LEMMA WaitingNext == ASSUME Base, Steady, LateConfirms, Waiting, [Next]_vars PROVE Waiting'
    BY WaitingOfVisit, WaitingOfClosePass, WaitingOfRest, NoCrash DEF Next, Engine, Base

(* A trade whose close is done and not yet in history keeps its row until  *)
(* it is in history, in a steady engine whose entries are confirmed by the *)
(* reconciliation: whatever balances, submits and queries fail and however *)
(* orders fill.                                                            *)
THEOREM PendingKeeps == Steady /\ LateConfirms => (Spec => PendingKeptUntilRecorded)
  <1> SUFFICES ASSUME Steady, LateConfirms PROVE Spec => PendingKeptUntilRecorded
    OBVIOUS
  <1>1. Init => Waiting
    BY DEF Init, Waiting, Unfinalized, Counts, Seen, DroppedIsRecorded, Rowed
  <1>2. Base /\ Waiting /\ [Next]_vars => Waiting'
    BY WaitingNext
  <1>3. Base /\ Waiting /\ [Next]_vars
          => (Leaves /\ ledger.finalize => history'[ledger.cycle] > 0)
    <2> SUFFICES ASSUME Base, Waiting, [Next]_vars, Leaves, ledger.finalize
                 PROVE  history'[ledger.cycle] > 0
      OBVIOUS
    <2>1. CASE Save
      BY <2>1 DEF Save, Leaves, Base, Settled, Waiting, DroppedIsRecorded
    <2>2. CASE WriteBack \/ OpenPosition \/ UNCHANGED ledger
      BY <2>2 DEF WriteBack, MayLeave, OpenPosition, Leaves, Base, Settled
    <2> QED BY <2>1, <2>2, LedgerWrites
  <1> QED BY <1>1, <1>2, <1>3, Based, PTL DEF Spec, PendingKeptUntilRecorded
=============================================================================

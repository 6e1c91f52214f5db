--------------------------- MODULE PartialReduce ---------------------------
(***************************************************************************)
(* How PaperEngine reduces a V2 position in parts: the first take-profit   *)
(* and the partial closes the V2 policy asks for.  One leg, one position   *)
(* that stays open (closing it is PositionClose's part), and any number of *)
(* reduce-only orders.  In each tick the engine                            *)
(*                                                                         *)
(*   1. reads the positions (refreshLiveBalanceSnapshot);                  *)
(*   2. reconciles the ledger row, when that is due: reads the positions   *)
(*      again, queries the reduce order the row waits for, books what it   *)
(*      filled, and compares the size of the row with the list;            *)
(*   3. scans the pending orders, at most every ten seconds;               *)
(*   4. may submit one reduce order in the close pass, which loads the     *)
(*      rows and writes them back when it ends.                            *)
(*                                                                         *)
(* A row whose order was accepted is PARTIAL_PENDING: its size changes     *)
(* only when the reconciliation has seen the order fill.                   *)
(***************************************************************************)
EXTENDS Integers, FiniteSets

CONSTANTS
    None,          \* no order, no row
    MaxContracts,  \* contracts of the position at first, and at most
    MaxOrders,     \* bound: reduce orders
    MaxCandle,     \* bound: closed candles the decisions see
    MaxEvents,     \* bound: faults and doings of others
    Faults         \* which of them may happen

FaultKinds == {
    "lostAnswer",   \* a submit is reported failed and reaches the exchange
    "orderEnds",    \* an order ends before it has filled
    "queryFail",    \* a query fails, or finds nothing
    "operator",     \* the operator adds to the position or reduces it
    "closeOnly",    \* the operator switches close-only mode
    "crash" }       \* the process dies and starts again

ASSUME ReduceAssumption ==
    /\ MaxContracts \in Nat \ {0} /\ MaxOrders \in Nat
    /\ MaxCandle \in Nat \ {0} /\ MaxEvents \in Nat
    /\ Faults \subseteq FaultKinds

OrderIds == 1..MaxOrders
Contracts == 0..MaxContracts

ASSUME NoneAssumption == None \notin OrderIds

(* The reasons of a reduce: v2_tp1_automated; PNL_STOP and TRANSITION; the *)
(* SHOCK reasons; the rest, such as the range edge and its take-profits.   *)
Kinds == {"tp1", "routine", "shock", "other"}
Protective(kind) == kind \in {"routine", "shock"}

Orders == [kind : Kinds, size : Contracts, filled : Contracts,
           st : {"none", "live", "filled", "ended"}]

(* PaperOpenPositionRecord: what partial reduces read and write.  OPEN     *)
(* stands for BOT_V2_MANAGED, MANUAL_SIZE_AUGMENTED and CLOSE_ONLY_MANAGED *)
(* too, which are treated alike here.                                      *)
Rows == [life   : {"OPEN", "PARTIAL_PENDING"},
         size   : Contracts,           \* okxContracts
         ord    : OrderIds \cup {None},  \* partialPendingOrdId
         pend   : Contracts,           \* partialPendingContracts
         proc   : Contracts,           \* partialPendingProcessedContracts
         kind   : Kinds,               \* partialPendingReason
         fills  : [OrderIds -> Nat],   \* positionCycleExitFills
         stage  : Nat,                 \* partialExitStage
         tp1    : BOOLEAN,             \* v2RangeTp1Triggered
         count  : Nat,                 \* protectivePartialReduceCount
         last   : 0..MaxCandle,        \* lastReduceFilledCandleTs
         candle : 0..MaxCandle,        \* shockReduceDecisionCandleTs
         sent   : BOOLEAN,    \* shockReduceState is neither IDLE nor TERMINAL
         mismatch  : BOOLEAN,          \* RECONCILE_MISMATCH
         augmented : BOOLEAN]          \* manualAugmentActive

ASSUME NoRowAssumption == None \notin Rows

PCs == {"begin", "reconcile", "visit", "save", "scan", "pass", "write"}

VARIABLES
    pc,        \* where the tick is
    work,      \* the row as the reconciliation or the close pass has it
    remote,    \* okxPositions of the reconciliation, 0 outside of it
    payload,   \* lastLivePositionsPayload; 0 if it could not be read
    cache,     \* cachedOpsPending: the engine's reduce orders it shows
    safe,      \* reconcileSafetyCloseOnly
    row,       \* positions/open.json: the row of this leg
    tp1Rows,   \* positions/history.json: child rows of the take-profit
    pos,       \* contracts of the position
    orders,    \* the engine's reduce orders on the exchange
    closeOnly, \* serverTradeControlState.close_only_mode
    candle,    \* the last closed candle
    left,      \* faults and doings of others that may still come
    known,     \* the orders some saved row has waited for
    increased  \* has the operator ever added to the position?

engine == <<pc, work, remote, payload, cache, safe>>
files == <<row, tp1Rows>>
env == <<pos, orders, closeOnly, candle, left, increased>>
vars == <<engine, files, env, known>>

-----------------------------------------------------------------------------
(* What is read off the state.                                             *)

Live == {o \in OrderIds : orders[o].st = "live"}

(* A fault, or a doing of others, happens.                                 *)
Event(kind) == kind \in Faults /\ left > 0 /\ left' = left - 1
NoEvent == UNCHANGED left

(* isV2PartialPendingActive, and ledgerPartialPending of the guard.        *)
WaitsOnly(r) == r.life = "PARTIAL_PENDING"   \* mutant: life alone
Active(r) == r.life = "PARTIAL_PENDING" \/ r.ord # None \/ r.pend > 0

(* evaluateV2ReducePendingGuard: may this row submit?                      *)
SubmitAllowed(r) == ~Active(r) /\ cache = {}

(* Close-only mode takes every row over, also one that waits for an order. *)
Effective == closeOnly \/ safe
Marked(r) == IF Effective THEN [r EXCEPT !.life = "OPEN"] ELSE r

(* Remote and ledger are the same size, or the row is made so.             *)
Synced(r, n) == [r EXCEPT !.size = n, !.mismatch = FALSE]

(* reconcileOpenPositionWithRemote, for a row that is not PARTIAL_PENDING. *)
(* While an order seems to be on its way a larger ledger is left alone; a  *)
(* position that grew was added to by hand.                                *)
ComparedAsPartial(r, n) ==       \* mutant: an order always seems on its way
    Synced(r, IF r.size < n THEN n ELSE r.size)
Compared(r, n) ==
    IF Active(r) THEN Synced(r, IF r.size < n THEN n ELSE r.size)
    ELSE [Synced(r, n) EXCEPT !.augmented = @ \/ r.size < n]

(* The same, for a row that was PARTIAL_PENDING when the visit began: a    *)
(* difference is a mismatch that blocks, and the size is left alone.       *)
ComparedAnew(r, n) == Compared(r, n)   \* mutant: not told of the order
ComparedPending(r, n) ==
    IF r.size = n THEN Synced(r, n) ELSE [r EXCEPT !.mismatch = TRUE]

(* applyV2PartialFillConfirmed: a new fill is taken off the size and       *)
(* recorded, and the row remembers how much of order o it has processed.   *)
NotProcessed(r, o) == r.proc       \* mutant: it does not
Processed(r, o) == orders[o].filled
Unrecorded(r, o) ==                \* mutant: it is not recorded
    LET delta == orders[o].filled - r.proc IN
    [r EXCEPT !.size = IF @ < delta THEN 0 ELSE @ - delta, !.proc = Processed(r, o)]
Booked(r, o) ==
    LET delta == orders[o].filled - r.proc IN
    [r EXCEPT !.size = IF @ < delta THEN 0 ELSE @ - delta,
              !.fills[o] = @ + delta,
              !.proc = Processed(r, o)]

(* markProtectiveReduceEpisodeFilled: an episode of protection is counted. *)
Uncounted(r) == [r EXCEPT !.last = r.candle]      \* mutant: it is not
Counted(r) == [r EXCEPT !.count = @ + 1, !.last = r.candle,
                        !.sent = @ \/ r.kind = "shock"]

(* applyV2PartialFillConfirmed, once the order has filled: a take-profit   *)
(* moves the stage on, and the metadata of the order is cleared.           *)
Finished(r) ==
    [(IF Protective(r.kind) THEN Counted(r) ELSE r) EXCEPT
        !.life = "OPEN", !.ord = None, !.pend = 0, !.proc = 0,
        !.stage = IF r.kind = "tp1" \/ r.tp1 THEN @ + 1 ELSE @,
        !.tp1 = @ \/ r.kind = "tp1"]

(* What is left of a row whose order ended, or is not found any more: its  *)
(* id is cleared, and not its contracts.                                   *)
Released(r) == [r EXCEPT !.life = "OPEN", !.ord = None, !.mismatch = FALSE]

-----------------------------------------------------------------------------
Init ==
    /\ pc = "begin" /\ work = None /\ remote = 0 /\ payload = 0
    /\ cache = {} /\ safe = FALSE
    /\ row = [life |-> "OPEN", size |-> MaxContracts, ord |-> None,
              pend |-> 0, proc |-> 0, kind |-> "other",
              fills |-> [o \in OrderIds |-> 0], stage |-> 0, tp1 |-> FALSE,
              count |-> 0, last |-> 0, candle |-> 0, sent |-> FALSE,
              mismatch |-> FALSE, augmented |-> FALSE]
    /\ tp1Rows = 0
    /\ pos = MaxContracts
    /\ orders = [o \in OrderIds |->
                   [kind |-> "other", size |-> 0, filled |-> 0, st |-> "none"]]
    /\ closeOnly = FALSE /\ candle = 1 /\ left = MaxEvents
    /\ known = {} /\ increased = FALSE

-----------------------------------------------------------------------------
(* The tick.                                                               *)

Untouched == UNCHANGED <<files, pos, orders, closeOnly, candle, increased, known>>

BeginTick ==
    /\ pc = "begin"
    /\ \/ payload' = pos /\ NoEvent
       \/ payload' = 0 /\ Event("queryFail")
    /\ pc' = "reconcile"
    /\ Untouched /\ UNCHANGED <<work, remote, cache, safe>>

(* Less than thirty seconds after the last one.                            *)
NotDue ==
    /\ pc = "reconcile"
    /\ pc' = "scan"
    /\ Untouched /\ NoEvent /\ UNCHANGED <<work, remote, payload, cache, safe>>

(* The list of positions cannot be read: safe mode, until a save ends it.  *)
FetchFails ==
    /\ pc = "reconcile"
    /\ Event("queryFail")
    /\ safe' = TRUE
    /\ pc' = "scan"
    /\ Untouched /\ UNCHANGED <<work, remote, payload, cache>>

Fetch ==
    /\ pc = "reconcile"
    /\ remote' = pos
    /\ work' = row
    /\ pc' = "visit"
    /\ Untouched /\ NoEvent /\ UNCHANGED <<payload, cache, safe>>

(* A step of the visit ends with the row as r.                             *)
Visited(r) ==
    /\ work' = r
    /\ pc' = "save"
    /\ UNCHANGED <<remote, payload, cache, safe, row, pos, orders, closeOnly,
                   candle, increased, known>>

Waits(o) == pc = "visit" /\ work.life = "PARTIAL_PENDING" /\ work.ord = o

VisitOpen ==
    /\ pc = "visit" /\ work.life = "OPEN"
    /\ Visited(Compared(work, remote))
    /\ NoEvent /\ UNCHANGED tp1Rows

(* The order has filled.  The child row of a take-profit is appended, if   *)
(* the history has none yet, before the ledger is saved.                   *)
PollFilled(o) ==
    /\ Waits(o)
    /\ orders[o].st = "filled" /\ orders[o].filled > work.proc
    /\ Visited(ComparedPending(Finished(Booked(work, o)), remote))
    /\ tp1Rows' = IF work.kind = "tp1" /\ tp1Rows = 0 THEN 1 ELSE tp1Rows
    /\ NoEvent

PollPart(o) ==
    /\ Waits(o)
    /\ orders[o].st = "live" /\ orders[o].filled > work.proc
    /\ Visited(Booked(work, o))
    /\ NoEvent /\ UNCHANGED tp1Rows

(* The order ended before it had filled.                                   *)
PollEnded(o) ==
    /\ Waits(o)
    /\ orders[o].st = "ended"
    /\ Visited(Released(work))
    /\ NoEvent /\ UNCHANGED tp1Rows

(* Nothing new, or no answer.                                              *)
PollKept(o) ==
    /\ Waits(o)
    /\ \/ orders[o].st = "live" /\ orders[o].filled = work.proc /\ NoEvent
       \/ Event("queryFail")
    /\ Visited(work)
    /\ UNCHANGED tp1Rows

(* No answer, three minutes after the order was submitted: the row is      *)
(* given the size of the list.                                             *)
PollTimeout(o) ==
    /\ Waits(o)
    /\ Event("queryFail")
    /\ Visited(Synced(Released(work), remote))
    /\ UNCHANGED tp1Rows

(* The ledger is saved.  A mismatch puts the engine in safe mode, unless   *)
(* the visit went on with a copy of the row that it counts no longer (the  *)
(* protective order was replaced after a fill).                            *)
Saved == known' = known \cup ({work.ord} \ {None})

Save ==
    /\ pc = "save"
    /\ safe' \in {FALSE, work.mismatch}
    /\ row' = work
    /\ Saved
    /\ work' = None /\ remote' = 0
    /\ pc' = "scan"
    /\ UNCHANGED <<payload, cache, tp1Rows, env>>

(* refreshPendingOrdersSnapshot; ten seconds after the last scan.          *)
Scan ==
    /\ pc = "scan"
    /\ \/ cache' = Live
       \/ UNCHANGED cache
    /\ pc' = "pass"
    /\ Untouched /\ NoEvent /\ UNCHANGED <<work, remote, payload, safe>>

-----------------------------------------------------------------------------
(* The close pass.                                                         *)

Ready(r) == work' = r /\ pc' = "write"

(* Nothing is to be reduced, or a gate that looks at the market says no.   *)
Hold ==
    /\ pc = "pass"
    /\ Ready(Marked(row))
    /\ UNCHANGED <<remote, payload, cache, safe, files, env, known>>

(* dispatchOkxClose: a new order, of the next id.                          *)
NewOrder(o, kind, n) ==
    /\ orders[o].st = "none" /\ \A p \in OrderIds : p < o => orders[p].st # "none"
    /\ orders' = [orders EXCEPT ![o] = [kind |-> kind, size |-> n,
                                        filled |-> 0, st |-> "live"]]

(* buildV2PartialPendingRecord                                             *)
Pending(r, o, kind, n) ==
    [r EXCEPT !.life = "PARTIAL_PENDING", !.ord = o, !.pend = n, !.proc = 0,
              !.kind = kind]

(* The order is accepted, refused, or its answer is lost.                  *)
Submitted(o, kind, n, accepted, refused) ==
    \/ NewOrder(o, kind, n) /\ NoEvent /\ Ready(accepted)
    \/ UNCHANGED orders /\ NoEvent /\ Ready(refused)
    \/ NewOrder(o, kind, n) /\ Event("lostAnswer") /\ Ready(refused)

(* The first take-profit.  Its order is not compared with the position.    *)
SubmitTp1(o, n) ==
    LET r == Marked(row) IN
    /\ pc = "pass"
    /\ r.stage < 1 /\ ~r.tp1 /\ SubmitAllowed(r)
    /\ n < r.size
    /\ Submitted(o, "tp1", n, Pending(r, o, "tp1", n), r)
    /\ UNCHANGED <<remote, payload, cache, safe, files, pos, closeOnly, candle,
                   increased, known>>

(* evaluatePartialReduceLimit, evaluateShockReduceEscalation and the       *)
(* episode gate: a routine reduce only as the first, a second of another   *)
(* kind only on a later candle.                                            *)
WithinLimit(r, kind) ==
    /\ kind = "routine" => r.count < 1
    /\ kind = "shock" => r.count < 2 /\ (r.count = 0 \/ candle > r.last)

(* evaluateReduceResubmitAllowed                                           *)
Resubmittable(r) == ~r.sent \/ candle # r.candle

(* A partial close the V2 policy asks for.  One of more contracts than     *)
(* this tick's positions show fails closed.                                *)
SubmitPartial(o, kind, n) ==
    LET r == Marked(row)
        asked == [r EXCEPT !.candle = candle] IN
    /\ pc = "pass"
    /\ SubmitAllowed(r) /\ n < r.size
    /\ WithinLimit(r, kind) /\ Resubmittable(r)
    /\ \/ n <= payload
          /\ Submitted(o, kind, n, Pending([asked EXCEPT !.sent = TRUE], o, kind, n),
                       [asked EXCEPT !.sent = FALSE])
       \/ n > payload /\ UNCHANGED orders /\ NoEvent /\ Ready([asked EXCEPT !.sent = FALSE])
    /\ UNCHANGED <<remote, payload, cache, safe, files, pos, closeOnly, candle,
                   increased, known>>

(* The rows are written back at the end of the pass.                       *)
WriteBack ==
    /\ pc = "write"
    /\ row' = work
    /\ Saved
    /\ work' = None /\ payload' = 0
    /\ pc' = "begin"
    /\ UNCHANGED <<remote, cache, safe, tp1Rows, env>>

-----------------------------------------------------------------------------
(* The exchange, the operator, the market, and the process.                *)

(* An order fills, in whole or in part, and leaves some of the position.   *)
Fill(o, k) ==
    /\ orders[o].st = "live" /\ k < pos /\ orders[o].filled + k <= orders[o].size
    /\ pos' = pos - k
    /\ orders' = [orders EXCEPT
                    ![o].filled = @ + k,
                    ![o].st = IF orders[o].filled + k = orders[o].size
                              THEN "filled" ELSE "live"]
    /\ NoEvent /\ UNCHANGED <<engine, files, closeOnly, candle, increased, known>>

OrderEnds(o) ==
    /\ orders[o].st = "live" /\ Event("orderEnds")
    /\ orders' = [orders EXCEPT ![o].st = "ended"]
    /\ UNCHANGED <<engine, files, pos, closeOnly, candle, increased, known>>

OperatorTrades ==
    /\ Event("operator")
    /\ \/ pos < MaxContracts /\ pos' = pos + 1 /\ increased' = TRUE
       \/ pos > 1 /\ pos' = pos - 1 /\ UNCHANGED increased
    /\ UNCHANGED <<engine, files, orders, closeOnly, candle, known>>

SwitchCloseOnly ==
    /\ Event("closeOnly")
    /\ closeOnly' = ~closeOnly
    /\ UNCHANGED <<engine, files, pos, orders, candle, increased, known>>

NewCandle ==
    /\ candle < MaxCandle
    /\ candle' = candle + 1
    /\ NoEvent /\ UNCHANGED <<engine, files, pos, orders, closeOnly, increased, known>>

(* Files and exchange remain.                                              *)
Crash ==
    /\ Event("crash")
    /\ pc' = "begin" /\ work' = None /\ remote' = 0 /\ payload' = 0
    /\ cache' = {} /\ safe' = FALSE
    /\ UNCHANGED <<files, pos, orders, closeOnly, candle, increased, known>>

-----------------------------------------------------------------------------
Reconcile ==
    \/ NotDue \/ FetchFails \/ Fetch \/ VisitOpen \/ Save
    \/ \E o \in OrderIds :
          PollFilled(o) \/ PollPart(o) \/ PollEnded(o) \/ PollKept(o) \/ PollTimeout(o)

ClosePass ==
    \/ Hold \/ WriteBack
    \/ \E o \in OrderIds, n \in 1..MaxContracts :
          \/ SubmitTp1(o, n)
          \/ \E kind \in Kinds \ {"tp1"} : SubmitPartial(o, kind, n)

Tick == BeginTick \/ Reconcile \/ Scan \/ ClosePass

Others ==
    \/ \E o \in OrderIds : OrderEnds(o) \/ \E k \in 1..MaxContracts : Fill(o, k)
    \/ OperatorTrades \/ SwitchCloseOnly \/ NewCandle \/ Crash

Next == Tick \/ Others

Spec == Init /\ [][Next]_vars

(* The loop runs one tick after the other, and the time since the last     *)
(* reconciliation passes its thirty seconds again and again.               *)
Fairness == WF_vars(Tick) /\ SF_vars(Fetch)

FairSpec == Spec /\ Fairness

-----------------------------------------------------------------------------
(* Every variable holds what the engine keeps in it: the row in the ledger *)
(* and the copy at work are rows, the counters stay in their ranges.       *)
TypeOK ==
    /\ pc \in PCs
    /\ work \in Rows \cup {None}
    /\ work = None <=> pc \notin {"visit", "save", "write"}
    /\ remote \in Contracts /\ payload \in Contracts
    /\ cache \subseteq OrderIds /\ safe \in BOOLEAN
    /\ row \in Rows /\ tp1Rows \in 0..1
    /\ pos \in Contracts \ {0} /\ orders \in [OrderIds -> Orders]
    /\ closeOnly \in BOOLEAN /\ candle \in 1..MaxCandle /\ left \in 0..MaxEvents
    /\ known \subseteq OrderIds /\ increased \in BOOLEAN

(* What the books say was reduced, the exchange has filled: of no order    *)
(* are more contracts recorded than it filled, however often the order is  *)
(* polled, in how many parts it fills and wherever a crash throws the      *)
(* reconciliation back; and the history has at most one take-profit, of an *)
(* order that filled.                                                      *)
BooksAreReal ==
    /\ \A o \in OrderIds : row.fills[o] <= orders[o].filled
    /\ tp1Rows > 0 => \E o \in OrderIds : orders[o].kind = "tp1" /\ orders[o].st = "filled"

(* Two reduce orders that the ledger has known are never live together,    *)
(* although the guard may look at a scan of ten seconds ago and the row    *)
(* may have lost its order to a timeout, a mode switch or the operator.    *)
OneReduceInFlight ==
    \A o, p \in known : orders[o].st = "live" /\ orders[p].st = "live" => o = p

(* Of the orders the ledger has known at most two are protective, and only *)
(* the first of them may be of a routine reason.                           *)
LimitHolds ==
    /\ Cardinality({o \in known : Protective(orders[o].kind)}) <= 2
    /\ \A o, p \in known :
          o < p /\ Protective(orders[o].kind) => orders[p].kind # "routine"

(* The engine holds that the position was added to by hand only if it was: *)
(* its own fills, which the lists of positions show at other times than    *)
(* the orders do, never look like that.                                    *)
NoFalseAugment == row.augmented => increased

(* In the end the ledger has the size of the position, or the row still    *)
(* seems to wait for an order.                                             *)
LedgerConverges == <>[](Active(row) \/ row.size = pos)

(* What the order of a waiting row has filled is booked, unless the row    *)
(* stops waiting first and keeps what marks it as waiting.                 *)
FilledReducesBooked ==
    \A o \in OrderIds :
        row.life = "PARTIAL_PENDING" /\ row.ord = o /\ orders[o].st = "filled"
          ~> \/ row.fills[o] = orders[o].filled
             \/ row.life = "OPEN" /\ Active(row)
=============================================================================

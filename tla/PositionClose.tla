---------------------------- MODULE PositionClose ----------------------------
(***************************************************************************)
(* How PaperEngine closes a position and records the trade, for one leg    *)
(* (a symbol and a side).  In each tick the engine                         *)
(*                                                                         *)
(*   1. takes a snapshot of balance and positions, which decides whether   *)
(*      it may send orders (refreshLiveBalanceSnapshot);                   *)
(*   2. when it is due, reconciles the open ledger with a second, fresher  *)
(*      list of positions (runPositionStateReconciliation);                *)
(*   3. runs the close pass: exits, close orders, the closed history and   *)
(*      the pruning of the ledger (tryPaperPositionClose,                  *)
(*      finalizeFullClose, appendClosedWithStandardRouting).               *)
(*                                                                         *)
(* The snapshot stays the authority for the whole tick, whatever happens   *)
(* on the exchange meanwhile.  Two files survive a crash, positions/       *)
(* open.json and positions/history.json, and they are written one after    *)
(* the other.  Entering a position is EntryExecution's business and one    *)
(* step here; which exit fires, and why, is a free choice.                 *)
(***************************************************************************)
EXTENDS Naturals, FiniteSets

CONSTANTS
    Orders,        \* client ids of close orders; never reused
    NoOrder,       \* no close order
    NoSnapshot,    \* the snapshot has no list of positions
    NoRow,         \* the leg has no ledger row
    MaxPositions,  \* bound: positions opened on the leg
    MaxCrashes,    \* bound: crashes of the process
    Faults         \* what the environment may do beyond the ordinary

FaultKinds == {
    "balanceFail",    \* the balance half of the snapshot fails
    "snapshotFail",   \* the positions half of the snapshot fails
    "fetchFail",      \* the reconciliation's own list of positions fails
    "spuriousEmpty",  \* a list of positions misses an open one, never twice in a row
    "partialFill",    \* a close order fills in part first
    "lostAnswer",     \* a submit is reported failed and reaches the exchange
    "queryFail",      \* an order query fails
    "orderForgotten", \* the exchange no longer returns an ended order
    "closeOnly",      \* the operator may switch on close_only_mode
    "promptConfirm",  \* an entry is written as OPEN, its fill already confirmed
    "strayPosition" } \* a position appears that the ledger does not know

ASSUME FaultsAssumption == Faults \subseteq FaultKinds
ASSUME BoundsAssumption == MaxPositions \in Nat \ {0} /\ MaxCrashes \in Nat
(* positionCycleId.  Positions of the leg are numbered in the order they   *)
(* are opened; a row the engine wrote carries the entry's openedAt, an     *)
(* adopted row the creation time the snapshot shows, so they differ.  An   *)
(* adopted position the snapshot does not show gets openedAt 0.            *)
Cycles == [pos : 0..MaxPositions, origin : {"own", "adopted"}]

(* PaperOpenPositionRecord: the lifecycle states the close path tells      *)
(* apart, finalizePending, and closePendingOrdId.                          *)
Lives == {
    "unconfirmed",   \* INITIAL, PENDING_EXCHANGE_CONFIRM
    "managed",       \* OPEN, BOT_V2_MANAGED, ADDON_ACTIVE, PARTIAL_ACTIVE
    "closeOnly",     \* CLOSE_ONLY_MANAGED
    "closePending",  \* CLOSE_PENDING
    "adopted" }      \* OKX_UNTRACKED_FILL, UNTRACKED_AUTO_ORIGIN
Rows == {r \in [cycle : Cycles, life : Lives, finalize : BOOLEAN,
                order : Orders \cup {NoOrder}] : r.life = "closePending" => r.order # NoOrder}

(* What the exchange keeps of a close order.                               *)
OrderRecords == [cycle : Cycles, st : {"live", "filled", "ended"}, fill : BOOLEAN]

ASSUME NullsAssumption == NoOrder \notin Orders \cup OrderRecords /\ NoSnapshot \notin Nat
ASSUME NoRowAssumption == NoRow \notin Rows

(* Exits.  A stop loss never trusts its own poll; an escalated partial     *)
(* reduce is never authorised to prune; every other exit is an "exit".     *)
Kinds == {"none", "stopLoss", "escalation", "exit"}

PCs == {"down", "idle", "positions", "visit", "save",
        "close", "submit", "poll", "finalize", "write"}

ConfirmRequired == 2   \* AUTHORITATIVE_FLAT_ZERO_CONFIRM_REQUIRED

VARIABLES
    \* the process
    pc,        \* where the tick is
    payload,   \* lastLivePositionsPayload: the position it shows, 0 for none
    ready,     \* okxSignedRestReady, and with it signedExecutionReady
    closeOnly, \* close_only_mode as this tick loaded it
    safeMode,  \* reconcileSafetyCloseOnly
    zeros,     \* authoritativeFlatZeroConfirmByKey, counted up to ConfirmRequired
    consumed,  \* terminalExitConsumedByFlow
    seen,      \* has a reconciliation been due since the row was opened?
    remote,    \* does the reconciliation's list show the leg?
    modified,  \* ledgerModified
    row,       \* the working copy of the row
    kind,      \* the exit being carried out
    cur,       \* its order
    \* files
    ledger,    \* positions/open.json: the row of this leg
    history,   \* positions/history.json: final records of each cycle
    \* the environment
    order,     \* what the exchange knows of each close order
    position,  \* the number of the position that is open, 0 if flat
    opened,    \* positions opened so far
    young,     \* is the row younger than RECONCILE_GRACE_PERIOD_MS?
    lied,      \* did the last reconciliation get a spurious answer?
    crashes

snap == <<payload, ready, closeOnly>>
mem  == <<safeMode, zeros, consumed, seen>>
work == <<remote, modified, row, kind, cur>>
disk == <<ledger, history>>
env  == <<order, position, opened, young, lied, crashes>>
vars == <<pc, snap, mem, work, disk, env>>

-----------------------------------------------------------------------------
(* What the code reads off its state.                                      *)

(* The row is younger than the grace period in this reconciliation: two of *)
(* them are as far apart as the period is long.                            *)
IsNew == young /\ ~seen /\ row.cycle.pos = opened

(* isAuthoritativeFlatPreflightCandidate *)
FlatCandidate == ~remote /\ ~IsNew /\ row.life # "unconfirmed"

(* recordAuthoritativeFlatZeroObservation *)
ZerosNow == IF zeros < ConfirmRequired THEN zeros + 1 ELSE zeros
NeverConfirmed == FALSE
FlatConfirmed == ZerosNow >= ConfirmRequired

(* isHistoryDuplicate, for final records of the cycle *)
Duplicate(r) == history[r.cycle] > 0

(* OKX_POSITION_STILL_EXISTS_NO_CLOSE_FILL: the tick's snapshot shows it.  *)
StillShown == payload \notin {NoSnapshot, 0}

(* appendClosedWithStandardRouting appends the record.                     *)
AppendableTwice(r) == ~StillShown
AppendableWhileShown(r) == ~Duplicate(r)
Appendable(r) == ~Duplicate(r) /\ ~StillShown
Appended(r) == [history EXCEPT ![r.cycle] = @ + 1]

(* When it refuses, finalizePending is set for a position still shown.     *)
Refused(r) == [r EXCEPT !.finalize = @ \/ ~Duplicate(r)]

Effective == closeOnly \/ safeMode     \* effectiveCloseOnlyMode
Marked == IF Effective THEN [ledger EXCEPT !.life = "closeOnly"] ELSE ledger

(* evaluateStaleLedgerExecutionSuppression *)
Suppressed == ready /\ payload = 0

TypeOK ==
    /\ pc \in PCs /\ kind \in Kinds
    /\ payload \in 0..opened \cup {NoSnapshot}
    /\ {ready, closeOnly, safeMode, seen, remote, modified, young, lied} \subseteq BOOLEAN
    /\ zeros \in 0..ConfirmRequired
    /\ consumed \subseteq Cycles
    /\ row \in Rows \cup {NoRow} /\ ledger \in Rows \cup {NoRow}
    /\ cur \in Orders \cup {NoOrder}
    /\ history \in [Cycles -> Nat]
    /\ order \in [Orders -> OrderRecords \cup {NoOrder}]
    /\ position \in 0..opened /\ opened \in 0..MaxPositions
    /\ crashes \in 0..MaxCrashes

Init ==
    /\ pc = "idle" /\ payload = NoSnapshot
    /\ zeros = 0 /\ consumed = {} /\ history = [c \in Cycles |-> 0]
    /\ ready = FALSE /\ closeOnly = FALSE /\ safeMode = FALSE /\ seen = FALSE
    /\ remote = FALSE /\ modified = FALSE /\ young = FALSE /\ lied = FALSE
    /\ row = NoRow /\ ledger = NoRow /\ kind = "none" /\ cur = NoOrder
    /\ order = [o \in Orders |-> NoOrder]
    /\ position = 0 /\ opened = 0 /\ crashes = 0

-----------------------------------------------------------------------------
(* 1. The snapshot of the tick.                                            *)

(* refreshLiveBalanceSnapshot and computeSignedExecutionReadiness.         *)
BeginTick ==
    /\ pc = "idle"
    /\ \E positionsOk \in {TRUE} \cup {"snapshotFail" \notin Faults},
         balanceOk \in {TRUE} \cup {"balanceFail" \notin Faults} :
         /\ payload' \in IF positionsOk
                         THEN {position} \cup (IF "spuriousEmpty" \in Faults THEN {0} ELSE {})
                         ELSE {NoSnapshot}
         /\ ready' = (positionsOk /\ balanceOk)
    /\ closeOnly' \in {FALSE} \cup {"closeOnly" \in Faults}
    /\ pc' = "positions"
    /\ UNCHANGED <<mem, work, disk, env>>

-----------------------------------------------------------------------------
(* 2. The reconciliation.                                                  *)

NotDue == pc = "positions" /\ pc' = "close" /\ UNCHANGED <<snap, mem, work, disk, env>>

NotReady ==
    /\ pc = "positions" /\ ~ready
    /\ seen' = TRUE /\ pc' = "close"
    /\ UNCHANGED <<snap, safeMode, zeros, consumed, work, disk, env>>

FailureAsNoPositions ==
    /\ pc = "positions" /\ ready /\ "fetchFail" \in Faults
    /\ remote' = FALSE /\ row' = ledger /\ modified' = FALSE
    /\ pc' = "visit"
    /\ UNCHANGED <<snap, mem, kind, cur, disk, env>>
FetchFails ==
    /\ pc = "positions" /\ ready /\ "fetchFail" \in Faults
    /\ safeMode' = TRUE /\ seen' = TRUE /\ pc' = "close"
    /\ UNCHANGED <<snap, zeros, consumed, work, disk, env>>

(* The list of positions, and the ledger.  The rows of other legs may      *)
(* already ask for a save.                                                 *)
Fetch ==
    /\ pc = "positions" /\ ready
    /\ lied' \in {FALSE} \cup {"spuriousEmpty" \in Faults /\ position # 0 /\ ~lied}
    /\ remote' = (position # 0 /\ ~lied')
    /\ row' = ledger
    /\ modified' \in BOOLEAN
    /\ pc' = "visit"
    /\ UNCHANGED <<snap, mem, kind, cur, disk, order, position, opened, young, crashes>>

(* The row becomes r and the leg's count of zeros z; m says that the row   *)
(* asks for a save.  What happens to history and consumed is the caller's. *)
Visited(r, m, z) ==
    /\ pc = "visit"
    /\ row' = r /\ modified' = (modified \/ m) /\ zeros' = z
    /\ pc' = "save"
    /\ UNCHANGED <<snap, safeMode, seen, remote, kind, cur, ledger, env>>

Kept == UNCHANGED <<history, consumed>>

(* The count of zeros unless the preflight counts this one.                *)
Counted == IF remote THEN 0 ELSE zeros

VisitConfirm ==
    /\ row # NoRow /\ row.life = "unconfirmed" /\ remote
    /\ \E l \in {"managed", "closeOnly"} : Visited([row EXCEPT !.life = l], TRUE, 0)
    /\ Kept

VisitFailed ==
    /\ row # NoRow /\ row.life = "unconfirmed" /\ ~remote /\ ~IsNew
    /\ Visited(NoRow, TRUE, zeros) /\ Kept

(* A row too young to be judged by a missing position.                     *)
VisitWaiting ==
    /\ row # NoRow /\ row.life \in {"unconfirmed", "adopted"} /\ ~remote /\ IsNew
    /\ Visited(row, FALSE, zeros) /\ Kept

(* Section 3 drops a managed row whose position is missing, however young. *)
(* An adopted row may just have been recovered from evidence of its fill.  *)
VisitVanished ==
    /\ row # NoRow /\ row.life \in {"managed", "closeOnly", "adopted"}
    /\ ~remote /\ IsNew
    /\ Visited(NoRow, row.life = "adopted", zeros) /\ Kept

(* Section 3 with the position there: repairs may settle who manages it.   *)
VisitMatched ==
    /\ row # NoRow /\ row.life \in {"managed", "closeOnly", "adopted"} /\ remote
    /\ \E l \in {row.life, "managed", "closeOnly"} :
         Visited([row EXCEPT !.life = l], l # row.life, 0)
    /\ Kept

(* processAuthoritativeFlatReconcilePreflight: hold, finalize or prune.    *)
HoldZero ==
    /\ row # NoRow /\ FlatCandidate /\ ~FlatConfirmed
    /\ Visited(row, TRUE, ZerosNow) /\ Kept

FinalizeFlat ==
    /\ row # NoRow /\ FlatCandidate /\ FlatConfirmed /\ row.finalize /\ Appendable(row)
    /\ Visited(NoRow, TRUE, ZerosNow)
    /\ history' = Appended(row) /\ UNCHANGED consumed

PruneFlatUnrecorded ==
    /\ row # NoRow /\ FlatCandidate /\ FlatConfirmed
    /\ Visited(NoRow, TRUE, 0)
    /\ consumed' = consumed \ {row.cycle} /\ UNCHANGED history
PruneFlat ==
    /\ row # NoRow /\ FlatCandidate /\ FlatConfirmed /\ ~(row.finalize /\ Appendable(row))
    /\ Visited(NoRow, TRUE, 0)
    /\ consumed' = consumed \ {row.cycle} /\ UNCHANGED history

(* Section 2: a row that waits for its close order, which is queried.      *)
Queried == row # NoRow /\ row.life = "closePending" /\ ~FlatCandidate

PendingRecorded ==
    /\ Queried /\ order[row.order].st = "filled" /\ Appendable(row)
    /\ Visited(NoRow, TRUE, Counted)
    /\ history' = Appended(row) /\ UNCHANGED consumed

PendingRefused ==
    /\ Queried /\ order[row.order].st = "filled" /\ ~Appendable(row)
    /\ Visited(Refused(row), FALSE, Counted) /\ Kept

PendingEnded ==
    /\ Queried /\ order[row.order].st = "ended"
    /\ Visited([row EXCEPT !.life = "managed", !.order = NoOrder], TRUE, Counted) /\ Kept

PendingKept ==
    /\ Queried /\ (order[row.order].st = "live" \/ "queryFail" \in Faults)
    /\ Visited(row, order[row.order].fill, Counted) /\ Kept

(* The exchange no longer knows the order, long after it was sent.         *)
PendingForgotten ==
    /\ Queried /\ remote
    /\ order[row.order].st \in {"filled", "ended"} /\ "orderForgotten" \in Faults
    /\ Visited([row EXCEPT !.life = IF Effective THEN "closeOnly" ELSE "managed",
                           !.order = NoOrder], TRUE, Counted) /\ Kept

(* A position without a row is adopted; the snapshot tells when it began.  *)
Adopt ==
    /\ row = NoRow /\ remote
    /\ \E l \in {"adopted", "closeOnly"} :
         Visited([cycle |-> [pos |-> IF StillShown THEN payload ELSE 0, origin |-> "adopted"],
                  life |-> l, finalize |-> FALSE, order |-> NoOrder], TRUE, zeros)
    /\ Kept

NoneToVisit == row = NoRow /\ ~remote /\ Visited(NoRow, FALSE, zeros) /\ Kept

(* The row is adopted just now, or adopted and not yet close-only.         *)
Untracked ==
    /\ row # NoRow
    /\ \/ ledger = NoRow
       \/ row.cycle.origin = "adopted" /\ row.life # "closeOnly"

Save ==
    /\ pc = "save"
    /\ safeMode' = Untracked
    /\ seen' = TRUE
    /\ ledger' = IF modified THEN row ELSE ledger
    /\ row' = NoRow /\ remote' = FALSE /\ modified' = FALSE
    /\ pc' = "close"
    /\ UNCHANGED <<snap, zeros, consumed, kind, cur, history, env>>

-----------------------------------------------------------------------------
(* 3. The close pass.                                                      *)

NothingOpen ==
    /\ pc = "close" /\ ledger = NoRow
    /\ pc' = "idle"
    /\ UNCHANGED <<snap, mem, work, disk, env>>

(* The row as the pass ends with it.                                       *)
EndsWith(r) ==
    /\ row' = r /\ pc' = "write"
    /\ UNCHANGED <<snap, safeMode, zeros, seen, remote, modified, kind, cur, ledger>>

DropConsumed ==
    /\ pc = "close" /\ ledger # NoRow /\ ledger.cycle \in consumed
    /\ EndsWith(NoRow)
    /\ UNCHANGED <<consumed, history, env>>

KeepRow ==
    /\ pc = "close" /\ ledger # NoRow /\ ledger.cycle \notin consumed
    /\ EndsWith(Marked)
    /\ UNCHANGED <<consumed, history, env>>

(* An exit fires.  Without signed readiness no order is sent: the exit is  *)
(* recorded at once, except a stop loss, which is skipped.                 *)
DecideExit(k) ==
    /\ pc = "close" /\ ledger # NoRow /\ ledger.cycle \notin consumed
    /\ ~Suppressed
    /\ Marked.life \in {"managed", "closeOnly"}
    /\ k = "stopLoss" => ready /\ Marked.life = "managed"
    /\ row' = Marked /\ kind' = k
    /\ pc' = IF ready THEN "submit" ELSE "finalize"
    /\ UNCHANGED <<snap, mem, remote, modified, cur, disk, env>>

(* dispatchOkxClose and submitOkxOrder: a reduce-only order.               *)
SubmitClose(o) ==
    /\ pc = "submit" /\ order[o] = NoOrder /\ position # 0
    /\ order' = [order EXCEPT ![o] = [cycle |-> row.cycle, st |-> "live", fill |-> FALSE]]
    /\ cur' = o /\ pc' = "poll"
    /\ UNCHANGED <<snap, mem, remote, modified, row, kind, disk, position, opened, young, lied, crashes>>

SubmitRefused ==
    /\ pc = "submit"
    /\ EndsWith(row)
    /\ UNCHANGED <<consumed, history, env>>

SubmitLost(o) ==
    /\ pc = "submit" /\ order[o] = NoOrder /\ position # 0 /\ "lostAnswer" \in Faults
    /\ order' = [order EXCEPT ![o] = [cycle |-> row.cycle, st |-> "live", fill |-> FALSE]]
    /\ EndsWith(row)
    /\ UNCHANGED <<consumed, history, position, opened, young, lied, crashes>>

(* The order is queried once or twice.  A stop loss does not ask whether   *)
(* it is filled; any fill is a confirmation for the others.                *)
PollForgets ==
    /\ pc = "poll"
    /\ kind = "stopLoss" \/ ~order[cur].fill \/ "queryFail" \in Faults
    /\ EndsWith(row)
    /\ UNCHANGED <<consumed, history, env>>
PollLosesId ==
    /\ pc = "poll"
    /\ kind = "stopLoss" \/ ~order[cur].fill \/ "queryFail" \in Faults
    /\ EndsWith([row EXCEPT !.life = "closePending"])
    /\ UNCHANGED <<consumed, history, env>>
PollPending ==
    /\ pc = "poll"
    /\ kind = "stopLoss" \/ ~order[cur].fill \/ "queryFail" \in Faults
    /\ EndsWith([row EXCEPT !.life = "closePending", !.order = cur])
    /\ UNCHANGED <<consumed, history, env>>

PollTrusting ==
    /\ pc = "poll" /\ kind # "stopLoss"
    /\ pc' = "finalize"
    /\ UNCHANGED <<snap, mem, work, disk, env>>
PollFilled ==
    /\ pc = "poll" /\ kind # "stopLoss" /\ order[cur].fill
    /\ pc' = "finalize"
    /\ UNCHANGED <<snap, mem, work, disk, env>>

(* finalizeFullClose, from where the close counts as done.                 *)
RecordClose ==
    /\ pc = "finalize" /\ Appendable(row)
    /\ history' = Appended(row)
    /\ consumed' = IF kind = "escalation" THEN consumed ELSE consumed \cup {row.cycle}
    /\ EndsWith(NoRow)
    /\ UNCHANGED env

RecordRefused ==
    /\ pc = "finalize" /\ ~Appendable(row)
    /\ EndsWith(Refused(row))
    /\ UNCHANGED <<consumed, history, env>>

(* OPEN_LEDGER_SAVE_FINAL_GATE: a row leaves only after its terminal exit, *)
(* and never while the row as loaded still waits to be finalized.          *)
MayLeave == ledger.cycle \in consumed /\ ~ledger.finalize

WriteBack ==
    /\ pc = "write"
    /\ ledger' = IF row = NoRow /\ ~MayLeave THEN ledger ELSE row
    /\ row' = NoRow /\ kind' = "none" /\ cur' = NoOrder
    /\ pc' = "idle"
    /\ UNCHANGED <<snap, mem, remote, modified, history, env>>

-----------------------------------------------------------------------------
(* The exchange, the operator, time and the process.                       *)

FillClose(o) ==
    /\ order[o] # NoOrder /\ order[o].st = "live" /\ position # 0
    /\ order' = [order EXCEPT ![o].st = "filled", ![o].fill = TRUE]
    /\ position' = 0
    /\ UNCHANGED <<pc, snap, mem, work, disk, opened, young, lied, crashes>>

FillPart(o) ==
    /\ order[o] # NoOrder /\ order[o].st = "live" /\ ~order[o].fill /\ position # 0
    /\ "partialFill" \in Faults
    /\ order' = [order EXCEPT ![o].fill = TRUE]
    /\ UNCHANGED <<pc, snap, mem, work, disk, position, opened, young, lied, crashes>>

EndClose(o) ==
    /\ order[o] # NoOrder /\ order[o].st = "live"
    /\ order' = [order EXCEPT ![o].st = "ended"]
    /\ UNCHANGED <<pc, snap, mem, work, disk, position, opened, young, lied, crashes>>

(* A protective order, or the operator, closes the position.               *)
ClosedElsewhere ==
    /\ position # 0 /\ position' = 0
    /\ UNCHANGED <<pc, snap, mem, work, disk, order, opened, young, lied, crashes>>

Age ==
    /\ young /\ young' = FALSE
    /\ UNCHANGED <<pc, snap, mem, work, disk, order, position, opened, lied, crashes>>

(* A position, just opened.                                                *)
NewPosition ==
    /\ position = 0 /\ opened < MaxPositions
    /\ position' = opened + 1 /\ opened' = opened + 1
    /\ young' = TRUE /\ seen' = FALSE
    /\ UNCHANGED <<pc, snap, safeMode, zeros, consumed, work, history, order, lied, crashes>>

(* The entry path opens a position and writes its row (EntryExecution).    *)
OpenPosition ==
    /\ pc = "idle" /\ ledger = NoRow
    /\ NewPosition
    /\ \E l \in {"unconfirmed"} \cup (IF "promptConfirm" \in Faults THEN {"managed"} ELSE {}) :
         ledger' = [cycle |-> [pos |-> opened + 1, origin |-> "own"], life |-> l,
                    finalize |-> FALSE, order |-> NoOrder]

OpenStray ==
    /\ pc \in {"idle", "positions"} /\ "strayPosition" \in Faults
    /\ NewPosition
    /\ UNCHANGED ledger

Crash ==
    /\ pc # "down" /\ crashes < MaxCrashes
    /\ pc' = "down" /\ crashes' = crashes + 1
    /\ payload' = NoSnapshot /\ zeros' = 0 /\ consumed' = {}
    /\ ready' = FALSE /\ closeOnly' = FALSE /\ safeMode' = FALSE /\ seen' = FALSE
    /\ remote' = FALSE /\ modified' = FALSE
    /\ row' = NoRow /\ kind' = "none" /\ cur' = NoOrder
    /\ UNCHANGED <<disk, order, position, opened, young, lied>>

Restart ==
    /\ pc = "down" /\ pc' = "idle"
    /\ UNCHANGED <<snap, mem, work, disk, env>>

-----------------------------------------------------------------------------
Visit ==
    \/ VisitConfirm \/ VisitFailed \/ VisitWaiting \/ VisitVanished \/ VisitMatched
    \/ HoldZero \/ FinalizeFlat \/ PruneFlat
    \/ PendingRecorded \/ PendingRefused \/ PendingEnded \/ PendingKept \/ PendingForgotten
    \/ Adopt \/ NoneToVisit

ClosePass ==
    \/ NothingOpen \/ DropConsumed \/ KeepRow
    \/ \E k \in Kinds \ {"none"} : DecideExit(k)
    \/ \E o \in Orders : SubmitClose(o) \/ SubmitLost(o)
    \/ SubmitRefused \/ PollPending \/ PollFilled
    \/ RecordClose \/ RecordRefused \/ WriteBack

Engine == BeginTick \/ NotDue \/ NotReady \/ FetchFails \/ Fetch \/ Visit \/ Save \/ ClosePass

Environment ==
    \/ \E o \in Orders : FillClose(o) \/ FillPart(o) \/ EndClose(o)
    \/ ClosedElsewhere \/ Age \/ OpenPosition \/ OpenStray

Next == Engine \/ Environment \/ Crash \/ Restart

Spec == Init /\ [][Next]_vars

(* A tick runs to its end, ticks go on, and time passes.  The snapshot is  *)
(* complete, and a reconciliation due and answered, again and again.       *)
Fairness ==
    /\ WF_vars(Engine) /\ WF_vars(Restart) /\ WF_vars(Age)
    /\ SF_vars(BeginTick /\ ready') /\ SF_vars(Fetch)

FairSpec == Spec /\ Fairness

-----------------------------------------------------------------------------
(* Properties.                                                             *)

Leaves == ledger # NoRow /\ (ledger' = NoRow \/ ledger'.cycle # ledger.cycle)

Live(o) == order[o] # NoOrder /\ order[o].st = "live"
Filled(c) == \E o \in Orders : order[o] # NoOrder /\ order[o].cycle = c /\ order[o].fill

(* No cycle is recorded twice in the closed history, whatever fails and    *)
(* wherever the process crashes between history and ledger: the duplicate  *)
(* check of every append works across restarts.                            *)
RecordedOnce == \A c \in Cycles : history[c] <= 1

(* A position is recorded once under all the cycle ids it ever had: it is  *)
(* not recorded and then adopted under another openedAt.                   *)
OneRecordPerPosition ==
    \A p \in 1..MaxPositions :
        history[[pos |-> p, origin |-> "own"]] + history[[pos |-> p, origin |-> "adopted"]] <= 1

(* What history calls closed is closed on the exchange.                    *)
RecordedAreClosed == \A c \in Cycles : c.pos # 0 /\ history[c] > 0 => position # c.pos

(* Only orders of a trade that filled make its row wait for a record.      *)
PendingHasFill == ledger # NoRow /\ ledger.finalize => Filled(ledger.cycle)

(* At most one close order of a position is live: an exit is not sent      *)
(* again while the earlier order may still fill.                           *)
OneCloseInFlight ==
    \A o, p \in Orders : Live(o) /\ Live(p) /\ order[o].cycle = order[p].cycle => o = p

(* A row leaves the ledger only when the position it names is closed.  A   *)
(* row that was adopted without an openedAt names none.                    *)
LeftAreFlat == [][Leaves /\ position # 0 => ledger.cycle.pos # position]_vars

(* A trade whose close is done and not yet in history keeps its row until  *)
(* it is in history.                                                       *)
PendingKeptUntilRecorded == [][Leaves /\ ledger.finalize => history'[ledger.cycle] > 0]_vars

(* The row of a position that is gone leaves the ledger.                   *)
FlatRowsLeave == (ledger # NoRow /\ position = 0) ~> (ledger = NoRow \/ position # 0)

(* A trade that waits to be recorded is recorded once its leg is flat.     *)
PendingGetsRecorded ==
    \A c \in Cycles :
        (ledger # NoRow /\ ledger.finalize /\ ledger.cycle = c /\ position = 0) ~> (history[c] > 0)

(* History follows TradeRecord: each cycle is recorded once, at a moment   *)
(* when its position is closed.                                            *)
Trade == INSTANCE TradeRecord
ImplementsTradeRecord == Trade!Spec
=============================================================================

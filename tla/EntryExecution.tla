--------------------------- MODULE EntryExecution ---------------------------
(***************************************************************************)
(* How PaperEngine turns an ENTER decision into at most one exchange       *)
(* order.  One Node process runs a tick at a time (loop.ts).  A tick that  *)
(* reaches the entry code                                                  *)
(*                                                                         *)
(*   1. reconciles the open-position ledger with the exchange's positions  *)
(*      (the remote-only "ghost" path of runPositionStateReconciliation),  *)
(*   2. lists the resting orders and resolves the ambiguous submits        *)
(*      (refreshPendingOrdersSnapshot, reconcileAmbiguousSubmits),         *)
(*   3. reconciles the pending-entry registry (reconcilePendingEntryOrders)*)
(*   4. walks the entry queue: guards, execution-key claim, submit, poll,  *)
(*      and the durable record of what happened (processPaperSymbolEntries *)
(*      and submitOkxOrder).                                               *)
(*                                                                         *)
(* Every await of that path is a step here, so that the exchange may act   *)
(* and the process may crash between any two of them.  Three files survive *)
(* a crash: reports/execution-keys.json, runtime/pending-entry-orders.json *)
(* and positions/open.json.                                                *)
(*                                                                         *)
(* Sizing, pricing, strategy, protection and closing are not in this       *)
(* module: a decision is any choice of sides, and a filled position stays  *)
(* open.                                                                   *)
(***************************************************************************)
EXTENDS Naturals, FiniteSets

CONSTANTS
    Symbols,        \* config.symbols
    Orders,         \* client order ids; buildOkxClOrdId never repeats one
    NoOrder,        \* no order is being handled
    NoKey,          \* no execution key is being handled
    MaxCandle,      \* bound: authoritative candles seen, 1..MaxCandle
    MaxCrashes,     \* bound: crashes of the process
    MaxOpen,        \* config.paperMaxOpenPositions
    Faults,         \* which faults the environment may commit
    OperatorMaySwitch  \* may the operator flip server_trade_enabled?

FaultKinds == {
    "ambiguousError",    \* a submit fails with a text the classifier knows
    "unclassifiedError", \* a submit fails with a text it does not know
    "lateArrival",       \* the request reaches the exchange after its failure was reported
    "readFail",          \* an order, fill, history or position query fails
    "cancelFail",        \* a cancel request fails
    "asyncCancel",       \* an acknowledged cancel is overtaken by a fill
    "partialFill",       \* an order fills in part before it ends
    "diskFail",          \* the key file cannot be written
    "tornWrite" }        \* a crash in the middle of a key-file write leaves it unreadable

ASSUME FaultsAssumption == Faults \subseteq FaultKinds
ASSUME BoundsAssumption ==
    /\ MaxCandle \in Nat \ {0}
    /\ MaxCrashes \in Nat
    /\ MaxOpen \in Nat \ {0}
    /\ OperatorMaySwitch \in BOOLEAN
ASSUME NullsAssumption ==
    /\ NoOrder \notin Orders
    /\ "none" \notin Symbols

Sides == {"long", "short"}
Legs == Symbols \X Sides

(* An execution key, v2entry:<symbol>:<side>:<authoritativeCandleTs>.      *)
Keys == [sym : Symbols, side : Sides, candle : 1..MaxCandle]

ASSUME NoKeyAssumption == NoKey \notin Keys

LegOf(k) == <<k.sym, k.side>>

Styles == {"passive", "ioc"}   \* limit orders, and MOMENTUM_MARKETABLE_IOC

(* The life of a client order id: "sent" is a request on the wire, "lost" *)
(* one that never arrived, the others are what the exchange would answer.  *)
OrderStates == {"unused", "sent", "lost", "rejected", "live", "filled", "canceled"}
Accepted == {"live", "filled", "canceled"}

PCs == {"down", "idle", "positions", "scan", "ambiguous", "absence", "rows",
        "cancel", "resolve", "entries", "persistKey", "send", "await",
        "poll", "release"}

VARIABLES
    \* the process
    pc,          \* where the tick is
    keys,        \* executionKeysConsumed
    loaded,      \* executionKeysLoaded
    ambiguous,   \* ambiguousSubmits, by client order id
    listed,      \* cachedOpsPending: resting orders at the last scan
    safeMode,    \* reconcileSafetyCloseOnly
    decision,    \* decisionBySymbol: the side to enter, or "none"
    gateOpen,    \* server_trade_enabled as loaded by this tick
    ambTodo,     \* ambiguous submits still to be queried in this pass
    rows,        \* registry rows still to be visited in this pass
    dropped,     \* registry rows this pass will not write back
    todo,        \* symbols of the entry queue still to be visited
    cur,         \* the order the current step is about
    curKey,      \* its execution key
    \* files
    keyFile,     \* reports/execution-keys.json
    registry,    \* runtime/pending-entry-orders.json
    ledger,      \* positions/open.json
    \* the environment
    order,       \* what the exchange knows of each client order id
    candle,      \* the current authoritative candle
    tradeEnabled,\* server_trade_enabled in the control file
    crashes

tick == <<pc, listed, safeMode, decision, gateOpen, ambTodo, rows, dropped, todo, cur, curKey>>
mem  == <<keys, loaded, ambiguous>>
disk == <<keyFile, registry, ledger>>
env  == <<candle, tradeEnabled, crashes>>
vars == <<tick, mem, disk, order, env>>

-----------------------------------------------------------------------------
(* What the code reads off an order.                                       *)

KeyOf(o)  == order[o].key
LegOfOrder(o) == LegOf(KeyOf(o))
Used(o)   == order[o].st # "unused"
HasPosition(leg) == \E o \in Orders : order[o].fill /\ LegOfOrder(o) = leg

Unused == [key |-> NoKey, style |-> "passive", st |-> "unused", fill |-> FALSE]

(* A query may fail when the environment may commit "readFail".            *)
ReadOutcomes == IF "readFail" \in Faults THEN {"ok", "error"} ELSE {"ok"}

(* The terminal states getOrder may report.                                *)
EndedUnseen == {}
Ended == {"canceled"}

(* shouldCancelStaleEntryOrder: no ENTER any more, or the side flipped.    *)
Stale(o) == decision[KeyOf(o).sym] # KeyOf(o).side

TypeOK ==
    /\ pc \in PCs
    /\ keys \subseteq Keys /\ keyFile \subseteq Keys
    /\ loaded \in BOOLEAN /\ safeMode \in BOOLEAN /\ gateOpen \in BOOLEAN
    /\ ambiguous \subseteq Orders /\ ambTodo \subseteq Orders
    /\ listed \subseteq Orders /\ rows \subseteq Orders /\ dropped \subseteq Orders
    /\ decision \in [Symbols -> Sides \cup {"none"}]
    /\ todo \subseteq Symbols
    /\ cur \in Orders \cup {NoOrder}
    /\ pc \in {"absence", "cancel", "resolve", "await", "poll"} => cur \in Orders
    /\ curKey \in Keys \cup {NoKey}
    /\ registry \in [Orders -> {"absent", "snapshot", "noSnapshot"}]
    /\ ledger \in [Legs -> {"none", "bot", "adopted"}]
    /\ order \in [Orders -> [key : Keys \cup {NoKey}, style : Styles,
                             st : OrderStates, fill : BOOLEAN]]
    /\ candle \in 1..MaxCandle
    /\ tradeEnabled \in BOOLEAN
    /\ crashes \in 0..MaxCrashes

Init ==
    /\ pc = "idle"
    /\ keys = {} /\ loaded = FALSE /\ ambiguous = {} /\ keyFile = {}
    /\ listed = {} /\ safeMode = FALSE /\ gateOpen = TRUE
    /\ decision = [s \in Symbols |-> "none"]
    /\ ambTodo = {} /\ rows = {} /\ dropped = {} /\ todo = {}
    /\ cur = NoOrder /\ curKey = NoKey
    /\ registry = [o \in Orders |-> "absent"]
    /\ ledger = [l \in Legs |-> "none"]
    /\ order = [o \in Orders |-> Unused]
    /\ candle = 1 /\ tradeEnabled = TRUE /\ crashes = 0
-----------------------------------------------------------------------------
(* The start of a tick.  The control file and the decisions are read once. *)

BeginTick ==
    /\ pc = "idle"
    /\ \E d \in [Symbols -> Sides \cup {"none"}] : decision' = d
    /\ gateOpen' = tradeEnabled
    /\ pc' = "positions"
    /\ UNCHANGED <<listed, safeMode, ambTodo, rows, dropped, todo, cur, curKey,
                   mem, disk, order, env>>

(* A registry row of the leg that carries a ledger snapshot proves a fill  *)
(* to be the engine's own.                                                 *)
NoEvidence(leg) == FALSE
HasFillEvidence(leg) ==
    \E o \in Orders : registry[o] = "snapshot" /\ LegOfOrder(o) = leg

(* A leg with a position and no ledger row.                                *)
OwnGhosts == {leg \in Legs : HasPosition(leg) /\ ledger[leg] = "none" /\ HasFillEvidence(leg)}
GhostsOfRows == {leg \in Legs : ledger[leg] = "none" /\ HasFillEvidence(leg)}
Ghosts == {leg \in Legs : HasPosition(leg) /\ ledger[leg] = "none"}

Foreign == {leg \in Ghosts : ~HasFillEvidence(leg)}

(* An adopted row turns the safe mode on in the pass that writes it.  In a *)
(* later pass it does so only if its lifecycleState still says untracked.  *)
ReconcilePositions ==
    /\ pc = "positions"
    /\ ledger' = [leg \in Legs |-> IF leg \in Foreign THEN "adopted"
                                   ELSE IF leg \in Ghosts THEN "bot" ELSE ledger[leg]]
    /\ safeMode' \in BOOLEAN
    /\ Foreign # {} => safeMode'
    /\ safeMode' => Foreign # {} \/ \E leg \in Legs : ledger[leg] = "adopted"
    /\ pc' = "scan"
    /\ UNCHANGED <<listed, decision, gateOpen, ambTodo, rows, dropped, todo, cur,
                   curKey, mem, keyFile, registry, order, env>>

PositionsUnavailable ==
    /\ pc = "positions"
    /\ "readFail" \in Faults
    /\ safeMode' = TRUE
    /\ pc' = "scan"
    /\ UNCHANGED <<listed, decision, gateOpen, ambTodo, rows, dropped, todo, cur,
                   curKey, mem, disk, order, env>>

(* reconcileCheckIntervalMs has not passed since the last reconciliation.  *)
SkipPositions ==
    /\ pc = "positions"
    /\ pc' = "scan"
    /\ UNCHANGED <<listed, safeMode, decision, gateOpen, ambTodo, rows, dropped,
                   todo, cur, curKey, mem, disk, order, env>>

-----------------------------------------------------------------------------
(* The scan of the resting orders and the ambiguous submits it leads to.   *)

ScanOrders ==
    /\ pc = "scan"
    /\ \E r \in ReadOutcomes :
          listed' = IF r = "ok" THEN {o \in Orders : order[o].st = "live"} ELSE {}
    /\ ambTodo' = ambiguous
    /\ pc' = "ambiguous"
    /\ UNCHANGED <<safeMode, decision, gateOpen, rows, dropped, todo, cur, curKey,
                   mem, disk, order, env>>

(* opsOrdersScanMinIntervalMs has not passed: the last list stays in use.  *)
SkipScan ==
    /\ pc = "scan"
    /\ pc' = "ambiguous"
    /\ UNCHANGED <<listed, safeMode, decision, gateOpen, ambTodo, rows, dropped,
                   todo, cur, curKey, mem, disk, order, env>>

(* getOrder by clOrdId finds the order: the key stays consumed, the entry  *)
(* leaves the map, and nothing else is recorded of the order.              *)
AmbiguousFound(o) ==
    /\ pc = "ambiguous" /\ o \in ambTodo
    /\ order[o].st \in Accepted
    /\ ambiguous' = ambiguous \ {o}
    /\ ambTodo' = ambTodo \ {o}
    /\ UNCHANGED <<pc, listed, safeMode, decision, gateOpen, rows, dropped, todo,
                   cur, curKey, keys, loaded, disk, order, env>>

(* 51603: the other three queries decide.                                  *)
AmbiguousNotFound(o) ==
    /\ pc = "ambiguous" /\ o \in ambTodo
    /\ order[o].st \notin Accepted
    /\ cur' = o
    /\ pc' = "absence"
    /\ UNCHANGED <<listed, safeMode, decision, gateOpen, ambTodo, rows, dropped,
                   todo, curKey, mem, disk, order, env>>

AmbiguousQueryFails(o) ==
    /\ pc = "ambiguous" /\ o \in ambTodo
    /\ "readFail" \in Faults
    /\ ambTodo' = ambTodo \ {o}
    /\ UNCHANGED <<pc, listed, safeMode, decision, gateOpen, rows, dropped, todo,
                   cur, curKey, mem, disk, order, env>>

(* The other three queries: pending orders (one that fails counts as "not  *)
(* pending"), fills history, orders history.                               *)
SeenPending(pend) == pend = "ok" /\ order[cur].st = "live"
SeenInHistory(fills, hist) ==
    \/ fills = "ok" /\ order[cur].fill
    \/ hist = "ok" /\ order[cur].st \in {"filled"} \cup Ended

(* Absence is proved only when both histories were read.                   *)
AbsenceNeverProved(pend, fills, hist) == FALSE
AbsenceProved(pend, fills, hist) ==
    ~SeenPending(pend) /\ ~SeenInHistory(fills, hist) /\ fills = "ok" /\ hist = "ok"

CheckAbsence ==
    /\ pc = "absence"
    /\ \E pend \in ReadOutcomes, fills \in ReadOutcomes, hist \in ReadOutcomes :
         \/ /\ AbsenceProved(pend, fills, hist)
            /\ curKey' = KeyOf(cur)
            /\ pc' = "release"
            /\ UNCHANGED <<ambiguous, ambTodo, cur>>
         \/ /\ ~AbsenceProved(pend, fills, hist)
            /\ ambiguous' = IF ~SeenPending(pend) /\ SeenInHistory(fills, hist)
                            THEN ambiguous \ {cur} ELSE ambiguous
            /\ ambTodo' = ambTodo \ {cur}
            /\ cur' = NoOrder
            /\ pc' = "ambiguous"
            /\ UNCHANGED curKey
    /\ UNCHANGED <<listed, safeMode, decision, gateOpen, rows, dropped, todo,
                   keys, loaded, disk, order, env>>

(* releaseExecutionKey: a write that fails is ignored.  It is reached from *)
(* the ambiguous pass and from a definitive submit failure.                *)
ReleaseKey ==
    /\ pc = "release"
    /\ keys' = keys \ {curKey}
    /\ \/ keyFile' = keys \ {curKey}
       \/ "diskFail" \in Faults /\ keyFile' = keyFile
    /\ ambiguous' = ambiguous \ {cur}
    /\ ambTodo' = ambTodo \ {cur}
    /\ pc' = IF cur \in ambTodo THEN "ambiguous" ELSE "entries"
    /\ cur' = NoOrder /\ curKey' = NoKey
    /\ UNCHANGED <<listed, safeMode, decision, gateOpen, rows, dropped, todo,
                   loaded, registry, ledger, order, env>>
-----------------------------------------------------------------------------
(* reconcilePendingEntryOrders: one pass over the registry.  Rows are only *)
(* marked as dropped; the file is written back at the end of the pass.     *)

(* processPaperSymbolEntries returns before the pass when a symbol snapshot *)
(* failed, trading is disabled, close-only is in force or paper execution  *)
(* is not ready.                                                           *)
ReturnEarly ==
    /\ pc = "ambiguous" /\ ambTodo = {}
    /\ pc' = "idle"
    /\ decision' = [s \in Symbols |-> "none"]
    /\ UNCHANGED <<listed, safeMode, gateOpen, ambTodo, rows, dropped, todo, cur,
                   curKey, mem, disk, order, env>>

StartRows ==
    /\ pc = "ambiguous" /\ ambTodo = {}
    /\ gateOpen /\ ~safeMode
    /\ rows' = {o \in Orders : registry[o] # "absent"}
    /\ dropped' = {}
    /\ pc' = "rows"
    /\ UNCHANGED <<listed, safeMode, decision, gateOpen, ambTodo, todo, cur, curKey,
                   mem, disk, order, env>>

(* The precheck of a stale row: a filled order goes on to the fill path, a *)
(* terminal one is cleared, anything else (an unreadable one too) is       *)
(* canceled.                                                               *)
VisitStaleRow(o) ==
    /\ pc = "rows" /\ o \in rows /\ Stale(o)
    /\ rows' = rows \ {o}
    /\ \E r \in ReadOutcomes :
         \/ /\ r = "ok" /\ order[o].st \in Ended
            /\ dropped' = dropped \cup {o}
            /\ UNCHANGED <<pc, cur>>
         \/ /\ r = "ok" /\ order[o].st = "filled"
            /\ cur' = o /\ pc' = "resolve"
            /\ UNCHANGED dropped
         \/ /\ r = "error" \/ order[o].st \notin {"filled"} \cup Ended
            /\ cur' = o /\ pc' = "cancel"
            /\ UNCHANGED dropped
    /\ UNCHANGED <<listed, safeMode, decision, gateOpen, ambTodo, todo, curKey,
                   mem, disk, order, env>>

(* A row whose order was in the last scan stays, unless it is a passive    *)
(* order older than okxPassiveEntryTtlMs.                                  *)
VisitListedRow(o) ==
    /\ pc = "rows" /\ o \in rows /\ ~Stale(o) /\ o \in listed
    /\ rows' = rows \ {o}
    /\ \/ UNCHANGED <<pc, cur>>
       \/ order[o].style = "passive" /\ cur' = o /\ pc' = "cancel"
    /\ UNCHANGED <<listed, safeMode, decision, gateOpen, ambTodo, dropped, todo,
                   curKey, mem, disk, order, env>>

VisitUnlistedRow(o) ==
    /\ pc = "rows" /\ o \in rows /\ ~Stale(o) /\ o \notin listed
    /\ rows' = rows \ {o}
    /\ cur' = o /\ pc' = "resolve"
    /\ UNCHANGED <<listed, safeMode, decision, gateOpen, ambTodo, dropped, todo,
                   curKey, mem, disk, order, env>>

(* cancelOrder then getOrder.  The row is dropped when the request was     *)
(* acknowledged or the order reads as canceled.                            *)
CancelTrusted(acked, st) == TRUE
CancelConfirmed(acked, st) == acked \/ st \in Ended

CancelRow ==
    /\ pc = "cancel"
    /\ \E acked \in BOOLEAN, r \in ReadOutcomes :
         /\ acked => order[cur].st = "live"
         /\ ~acked => order[cur].st # "live" \/ "cancelFail" \in Faults
         /\ \/ order[cur].st = "live"
               /\ order' = [order EXCEPT ![cur].st = "canceled"]
            \/ order' = order /\ (acked => "asyncCancel" \in Faults)
         /\ dropped' = IF CancelConfirmed(acked, IF r = "ok" THEN order'[cur].st ELSE "unread")
                       THEN dropped \cup {cur} ELSE dropped
    /\ cur' = NoOrder
    /\ pc' = "rows"
    /\ UNCHANGED <<listed, safeMode, decision, gateOpen, ambTodo, rows, todo,
                   curKey, mem, disk, env>>

(* getOrder on a row that is no longer resting.  A filled order becomes a  *)
(* BOT_V2_MANAGED ledger row, persisted at once, unless the leg has a row  *)
(* already; without a ledger snapshot the row is kept.  An ended order's   *)
(* row is dropped, whatever it filled.                                     *)
ResolveRow ==
    /\ pc = "resolve"
    /\ \E r \in ReadOutcomes :
         \/ /\ r = "ok" /\ order[cur].st = "filled" /\ registry[cur] = "snapshot"
            /\ ledger' = [ledger EXCEPT ![LegOfOrder(cur)] =
                             IF @ = "none" THEN "bot" ELSE @]
            /\ dropped' = dropped \cup {cur}
         \/ /\ r = "ok" /\ order[cur].st \in Ended
            /\ dropped' = dropped \cup {cur}
            /\ UNCHANGED ledger
         \/ /\ \/ r = "error"
               \/ order[cur].st \notin {"filled"} \cup Ended
               \/ order[cur].st = "filled" /\ registry[cur] # "snapshot"
            /\ UNCHANGED <<dropped, ledger>>
    /\ cur' = NoOrder
    /\ pc' = "rows"
    /\ UNCHANGED <<listed, safeMode, decision, gateOpen, ambTodo, rows, todo,
                   curKey, mem, keyFile, registry, order, env>>

WriteRegistry ==
    /\ pc = "rows" /\ rows = {}
    /\ registry' = [o \in Orders |-> IF o \in dropped THEN "absent" ELSE registry[o]]
    /\ dropped' = {}
    /\ todo' = {s \in Symbols : decision[s] # "none"}
    /\ pc' = "entries"
    /\ UNCHANGED <<listed, safeMode, decision, gateOpen, ambTodo, rows, cur, curKey,
                   mem, keyFile, ledger, order, env>>
-----------------------------------------------------------------------------
(* The entry queue.                                                        *)

(* The keys this process knows of; the file is read on the first use.      *)
KeysOfThisProcess == keys
KnownKeys == IF loaded THEN keys ELSE keys \cup keyFile

(* Guards in front of the claim: ENTER with a side, no registry row of the *)
(* leg, a free slot, no ledger row of the symbol, no ambiguous submit of   *)
(* the symbol.  With addOnAllowed the mutex lets a row of the same side    *)
(* pass; the add-ons that come this way are left out.                      *)
MayEnterDespiteRegistry(s) ==
    /\ Cardinality({leg \in Legs : ledger[leg] # "none"}) < MaxOpen
    /\ \A side \in Sides : ledger[<<s, side>>] = "none"
    /\ \A o \in ambiguous : KeyOf(o).sym # s
MayEnter(s) ==
    /\ decision[s] \in Sides
    /\ \A o \in Orders : registry[o] # "absent" => LegOfOrder(o) # <<s, decision[s]>>
    /\ Cardinality({leg \in Legs : ledger[leg] # "none"}) < MaxOpen
    /\ \A side \in Sides : ledger[<<s, side>>] = "none"
    /\ \A o \in ambiguous : KeyOf(o).sym # s

EntryKey(s) == [sym |-> s, side |-> decision[s], candle |-> candle]

(* Any other gate of the entry path (barriers, risk, sizing, authority)    *)
(* may refuse the symbol.                                                  *)
SkipSymbol(s) ==
    /\ pc = "entries" /\ s \in todo
    /\ todo' = todo \ {s}
    /\ UNCHANGED <<pc, listed, safeMode, decision, gateOpen, ambTodo, rows, dropped,
                   cur, curKey, mem, disk, order, env>>

RefuseDuplicate(s) ==
    /\ pc = "entries" /\ s \in todo
    /\ MayEnter(s)
    /\ EntryKey(s) \in KnownKeys
    /\ keys' = KnownKeys /\ loaded' = TRUE
    /\ todo' = todo \ {s}
    /\ UNCHANGED <<pc, listed, safeMode, decision, gateOpen, ambTodo, rows, dropped,
                   cur, curKey, ambiguous, disk, order, env>>

(* consumeExecutionKey: in memory first, then the file.                    *)
ClaimKey(s) ==
    /\ pc = "entries" /\ s \in todo
    /\ MayEnter(s)
    /\ EntryKey(s) \notin KnownKeys
    /\ keys' = KnownKeys \cup {EntryKey(s)} /\ loaded' = TRUE
    /\ curKey' = EntryKey(s)
    /\ todo' = todo \ {s}
    /\ pc' = "persistKey"
    /\ UNCHANGED <<listed, safeMode, decision, gateOpen, ambTodo, rows, dropped,
                   cur, ambiguous, disk, order, env>>

SendFirst ==
    /\ pc = "persistKey"
    /\ pc' = "send"
    /\ UNCHANGED <<listed, safeMode, decision, gateOpen, ambTodo, rows, dropped,
                   todo, cur, curKey, mem, disk, order, env>>

PersistKey ==
    /\ pc = "persistKey"
    /\ keyFile' = keys
    /\ pc' = "send"
    /\ UNCHANGED <<listed, safeMode, decision, gateOpen, ambTodo, rows, dropped,
                   todo, cur, curKey, mem, registry, ledger, order, env>>

(* What a tick leaves behind when it ends, here or by an exception.        *)
EndOfTick ==
    /\ pc' = "idle"
    /\ decision' = [s \in Symbols |-> "none"]
    /\ todo' = {} /\ cur' = NoOrder /\ curKey' = NoKey

(* writeFile throws out of consumeExecutionKey and ends the tick; the key  *)
(* stays consumed in memory.                                               *)
PersistKeyFails ==
    /\ pc = "persistKey"
    /\ "diskFail" \in Faults
    /\ EndOfTick
    /\ UNCHANGED <<listed, safeMode, gateOpen, ambTodo, rows, dropped,
                   mem, disk, order, env>>

(* submitOkxOrder may refuse before it sends (DEFINITIVE_NOT_SUBMITTED).   *)
RefuseBeforeSend ==
    /\ pc = "send"
    /\ pc' = "release"
    /\ UNCHANGED <<listed, safeMode, decision, gateOpen, ambTodo, rows, dropped,
                   todo, cur, curKey, mem, disk, order, env>>

SendOrder(o, style) ==
    /\ pc = "send"
    /\ ~Used(o)
    /\ order' = [order EXCEPT ![o] = [key |-> curKey, style |-> style,
                                      st |-> "sent", fill |-> FALSE]]
    /\ cur' = o
    /\ pc' = "await"
    /\ UNCHANGED <<listed, safeMode, decision, gateOpen, ambTodo, rows, dropped,
                   todo, curKey, mem, disk, env>>

(* The four answers submitOkxOrder and classifySubmitOutcome tell apart.   *)
SubmitAccepted ==
    /\ pc = "await" /\ order[cur].st \in Accepted
    /\ pc' = "poll"
    /\ UNCHANGED <<listed, safeMode, decision, gateOpen, ambTodo, rows, dropped,
                   todo, cur, curKey, mem, disk, order, env>>

SubmitRejected ==
    /\ pc = "await" /\ order[cur].st = "rejected"
    /\ pc' = "release"
    /\ UNCHANGED <<listed, safeMode, decision, gateOpen, ambTodo, rows, dropped,
                   todo, cur, curKey, mem, disk, order, env>>

(* A failure may be reported while the request is still on its way.        *)
FateKnown == order[cur].st # "sent" \/ "lateArrival" \in Faults

TimeoutAsRejection ==
    /\ pc = "await" /\ FateKnown
    /\ "ambiguousError" \in Faults
    /\ pc' = "release"
    /\ UNCHANGED <<listed, safeMode, decision, gateOpen, ambTodo, rows, dropped,
                   todo, cur, curKey, mem, disk, order, env>>

SubmitAmbiguous ==
    /\ pc = "await" /\ FateKnown
    /\ "ambiguousError" \in Faults
    /\ ambiguous' = ambiguous \cup {cur}
    /\ pc' = "entries"
    /\ cur' = NoOrder /\ curKey' = NoKey
    /\ UNCHANGED <<listed, safeMode, decision, gateOpen, ambTodo, rows, dropped,
                   todo, keys, loaded, disk, order, env>>

(* signedRequest reports "fetch failed" or "Failed to parse JSON response" *)
(* and no code: classifySubmitOutcome falls through to                     *)
(* DEFINITIVE_EXCHANGE_REJECTED.                                           *)
SubmitUnclassified ==
    /\ pc = "await" /\ FateKnown
    /\ "unclassifiedError" \in Faults
    /\ pc' = "release"
    /\ UNCHANGED <<listed, safeMode, decision, gateOpen, ambTodo, rows, dropped,
                   todo, cur, curKey, mem, disk, order, env>>

(* The registry after an upsert of o, which replaces the leg's row.        *)
Upsert(o, row) ==
    [p \in Orders |-> IF p = o THEN row
                      ELSE IF registry[p] # "absent" /\ LegOfOrder(p) = LegOfOrder(o)
                      THEN "absent" ELSE registry[p]]

(* The poll after an accepted submit, and the record it leads to: a fill   *)
(* opens the ledger row, a passive order without one is registered with    *)
(* its ledger snapshot, an IOC order without one is registered without     *)
(* (and not at all when it reads as canceled).                             *)
PollAndRecord ==
    /\ pc = "poll"
    /\ \E r \in ReadOutcomes :
         \/ /\ r = "ok" /\ order[cur].fill
            /\ ledger' = [ledger EXCEPT ![LegOfOrder(cur)] = "bot"]
            /\ UNCHANGED registry
         \/ /\ r = "error" \/ ~order[cur].fill
            /\ order[cur].style = "passive"
            /\ registry' = Upsert(cur, "snapshot")
            /\ UNCHANGED ledger
         \/ /\ r = "error" \/ ~order[cur].fill
            /\ order[cur].style = "ioc"
            /\ registry' = IF r = "ok" /\ order[cur].st = "canceled" THEN registry
                           ELSE [registry EXCEPT ![cur] = "noSnapshot"]
            /\ UNCHANGED ledger
    /\ pc' = "entries"
    /\ cur' = NoOrder /\ curKey' = NoKey
    /\ UNCHANGED <<listed, safeMode, decision, gateOpen, ambTodo, rows, dropped,
                   todo, mem, keyFile, order, env>>

EndTick ==
    /\ pc = "entries" /\ todo = {}
    /\ EndOfTick
    /\ UNCHANGED <<listed, safeMode, gateOpen, ambTodo, rows, dropped,
                   mem, disk, order, env>>

-----------------------------------------------------------------------------
(* The exchange.  A request arrives or is lost; a resting order fills, in  *)
(* part or in whole, or ends.                                              *)

Arrive(o) ==
    /\ order[o].st = "sent"
    /\ \E st \in {"live", "rejected"} : order' = [order EXCEPT ![o].st = st]
    /\ UNCHANGED <<tick, mem, disk, env>>

Lose(o) ==
    /\ order[o].st = "sent"
    /\ Faults \cap {"ambiguousError", "unclassifiedError"} # {}
    /\ order' = [order EXCEPT ![o].st = "lost"]
    /\ UNCHANGED <<tick, mem, disk, env>>

Fill(o) ==
    /\ order[o].st = "live"
    /\ order' = [order EXCEPT ![o].st = "filled", ![o].fill = TRUE]
    /\ UNCHANGED <<tick, mem, disk, env>>

FillInPart(o) ==
    /\ "partialFill" \in Faults
    /\ order[o].st = "live" /\ ~order[o].fill
    /\ order' = [order EXCEPT ![o].fill = TRUE]
    /\ UNCHANGED <<tick, mem, disk, env>>

(* An IOC order that finds no counterparty ends at once; a passive one is  *)
(* ended by the exchange or by the account's owner.                        *)
Expire(o) ==
    /\ order[o].st = "live"
    /\ order' = [order EXCEPT ![o].st = "canceled"]
    /\ UNCHANGED <<tick, mem, disk, env>>

(* Time and the operator.  Both are read when a tick starts, so nothing is *)
(* lost by letting them move between ticks only.                           *)
NextCandle ==
    /\ pc = "idle" /\ candle < MaxCandle
    /\ candle' = candle + 1
    /\ UNCHANGED <<tick, mem, disk, order, tradeEnabled, crashes>>

SwitchTrading ==
    /\ pc = "idle" /\ OperatorMaySwitch
    /\ tradeEnabled' = ~tradeEnabled
    /\ UNCHANGED <<tick, mem, disk, order, candle, crashes>>

(* The process dies anywhere.  A crash while the key file is written may   *)
(* leave a file that ensureExecutionKeysLoaded reads as empty.             *)
Crash ==
    /\ pc # "down" /\ crashes < MaxCrashes
    /\ crashes' = crashes + 1
    /\ pc' = "down"
    /\ keys' = {} /\ loaded' = FALSE /\ ambiguous' = {}
    /\ listed' = {} /\ safeMode' = FALSE /\ gateOpen' = TRUE
    /\ decision' = [s \in Symbols |-> "none"]
    /\ ambTodo' = {} /\ rows' = {} /\ dropped' = {} /\ todo' = {}
    /\ cur' = NoOrder /\ curKey' = NoKey
    /\ \/ keyFile' = keyFile
       \/ "tornWrite" \in Faults /\ pc \in {"persistKey", "release"} /\ keyFile' = {}
    /\ UNCHANGED <<registry, ledger, order, candle, tradeEnabled>>

Restart ==
    /\ pc = "down"
    /\ pc' = "idle"
    /\ UNCHANGED <<listed, safeMode, decision, gateOpen, ambTodo, rows, dropped,
                   todo, cur, curKey, mem, disk, order, env>>
-----------------------------------------------------------------------------

Tick ==
    \/ ReconcilePositions \/ PositionsUnavailable \/ SkipPositions
    \/ ScanOrders \/ SkipScan
    \/ \E o \in Orders : \/ AmbiguousFound(o) \/ AmbiguousNotFound(o)
                         \/ AmbiguousQueryFails(o)
    \/ CheckAbsence \/ ReleaseKey
    \/ ReturnEarly \/ StartRows
    \/ \E o \in Orders : VisitStaleRow(o) \/ VisitListedRow(o) \/ VisitUnlistedRow(o)
    \/ CancelRow \/ ResolveRow \/ WriteRegistry
    \/ \E s \in Symbols : SkipSymbol(s) \/ RefuseDuplicate(s) \/ ClaimKey(s)
    \/ PersistKey \/ PersistKeyFails \/ RefuseBeforeSend
    \/ \E o \in Orders, style \in Styles : SendOrder(o, style)
    \/ SubmitAccepted \/ SubmitRejected \/ SubmitAmbiguous \/ SubmitUnclassified
    \/ PollAndRecord \/ EndTick

Exchange ==
    \E o \in Orders : Arrive(o) \/ Lose(o) \/ Fill(o) \/ FillInPart(o) \/ Expire(o)

Next == BeginTick \/ Tick \/ Exchange \/ NextCandle \/ SwitchTrading \/ Crash \/ Restart

Spec == Init /\ [][Next]_vars

(* The loop re-arms its timer after every run, every await of a tick ends, *)
(* and pm2 restarts the process: the tick never stops for good.  The two   *)
(* rate limiters let the scans through again and again, no query of the    *)
(* exchange fails for ever, the gate in front of the registry pass does    *)
(* not refuse for ever, and a request is delivered or lost.                *)
QueriesSucceed ==
    /\ SF_vars(ReconcilePositions) /\ SF_vars(ScanOrders)
    /\ SF_vars(CheckAbsence /\ pc' = "release")
    /\ SF_vars(CheckAbsence /\ ambiguous' # ambiguous)
    /\ SF_vars(ResolveRow /\ dropped' # dropped)
    /\ \A o \in Orders : /\ SF_vars(AmbiguousFound(o)) /\ SF_vars(AmbiguousNotFound(o))
                         /\ SF_vars(VisitStaleRow(o) /\ pc' # "cancel")

Fairness ==
    /\ WF_vars(BeginTick) /\ WF_vars(Tick) /\ WF_vars(Restart)
    /\ SF_vars(StartRows)
    /\ QueriesSucceed
    /\ \A o \in Orders : WF_vars(Arrive(o) \/ Lose(o))

FairSpec == Spec /\ Fairness

-----------------------------------------------------------------------------
(* Safety.                                                                 *)

(* An execution key stands for one decision (symbol, side, candle): no two *)
(* orders the exchange accepted were sent for the same one, whatever       *)
(* failed, was retried or restarted in between (consumeExecutionKey,       *)
(* releaseExecutionKey).                                                   *)
OneOrderPerKey ==
    \A o, p \in Orders :
        /\ order[o].st \in Accepted /\ order[p].st \in Accepted
        /\ KeyOf(o) = KeyOf(p)
        => o = p

(* The key of an order the exchange has, or may still receive, is consumed *)
(* in the file, and in memory once the file was read: neither a crash nor  *)
(* a release frees it (consumeExecutionKey writes before the submit).      *)
Pending == {o \in Orders : order[o].st \in Accepted \cup {"sent"}}

ConsumedKeysCoverOrders ==
    \A o \in Pending : /\ KeyOf(o) \in keyFile
                       /\ loaded => KeyOf(o) \in keys

(* The execution-key protocol, as the invariant that explains it.  It      *)
(* holds of a transport whose failure reports the classifier knows, whose  *)
(* failed requests do not arrive later, and of key-file writes that a      *)
(* crash does not tear.                                                    *)
HonestTransport == Faults \cap {"unclassifiedError", "lateArrival", "tornWrite"} = {}

PendingUnique == \A o, p \in Pending : KeyOf(o) = KeyOf(p) => o = p

(* From the claim to the answer the process holds a key no other order has.*)
ClaimHeld ==
    /\ pc \in {"persistKey", "send", "await", "release"} => loaded
    /\ pc \in {"persistKey", "send"} => curKey \in keys
    /\ pc = "send" => curKey \in keyFile
    /\ pc \in {"persistKey", "send", "release"} => \A o \in Pending : KeyOf(o) # curKey
    /\ pc \in {"persistKey", "send", "await"} => \A a \in ambiguous : KeyOf(a) # curKey
    /\ pc = "await" => /\ cur \in Orders
                       /\ KeyOf(cur) = curKey
                       /\ Used(cur)
                       /\ \A o \in Pending : KeyOf(o) = curKey => o = cur

(* The fate of an ambiguous submit is settled, only not known yet, and     *)
(* nobody else has its key: a proof of absence cannot free a used key.     *)
AmbiguousSettled ==
    /\ ambiguous # {} => loaded
    /\ ambTodo \subseteq ambiguous
    /\ \A a \in ambiguous : order[a].st \notin {"unused", "sent"}
    /\ \A a \in ambiguous, o \in Pending : KeyOf(a) = KeyOf(o) => a = o
    /\ pc = "absence" => cur \in ambiguous /\ order[cur].st \notin Accepted

KeyProtocol ==
    ConsumedKeysCoverOrders /\ PendingUnique /\ ClaimHeld /\ AmbiguousSettled

(* The protocol implements EntryOnce: an order is placed when the exchange *)
(* accepts it, and a key is claimed when it is in the file.                *)
PlacedFor == [k \in Keys |-> {o \in Orders : order[o].st \in Accepted /\ KeyOf(o) = k}]
Once == INSTANCE EntryOnce WITH Key <- Keys, Order <- Orders,
                                claimed <- keyFile, placed <- PlacedFor
ImplementsEntryOnce == Once!Spec

(* A leg has at most one engine entry resting or filled: the registry and  *)
(* the ledger together see every order of the engine, although the         *)
(* registry is rewritten from rows visited earlier in the pass             *)
(* (hasBlockingEntryPendingState, evaluateSymbolPositionMutex).            *)
Open(o) == order[o].st = "live" \/ order[o].fill

OneEntryPerLeg ==
    \A o, p \in Orders : Open(o) /\ Open(p) /\ LegOfOrder(o) = LegOfOrder(p) => o = p

(* The fill of a passive entry never enters the ledger as somebody else's  *)
(* position: its registry row, or its ledger row, is there before the      *)
(* reconciler sees the position (hasV2FillEvidence ownership).             *)
PassiveFillsStayOwn ==
    \A o \in Orders :
        order[o].style = "passive" /\ order[o].fill => ledger[LegOfOrder(o)] # "adopted"

(* A ledger row of the engine's own is never a phantom: the exchange holds *)
(* a fill on that leg, whichever of the three paths wrote the row.         *)
LedgerRowsAreFills == \A leg \in Legs : ledger[leg] # "none" => HasPosition(leg)

(* A registry row goes only when its order can no longer become a position *)
(* unseen: the order has ended without a fill, or its leg is in the ledger *)
(* (PENDING_ENTRY_ORDER_CLEARED_PROOF).                                    *)
DropsAreSafe ==
    [][\A o \in Orders :
          registry[o] # "absent" /\ registry'[o] = "absent" =>
             \/ order[o].st = "canceled" /\ ~order[o].fill
             \/ ledger[LegOfOrder(o)] # "none"]_vars

(* Liveness, under FairSpec.                                               *)

(* Every position of the exchange reaches the ledger.                      *)
PositionsReachLedger ==
    \A leg \in Legs : HasPosition(leg) ~> ledger[leg] # "none"

(* An ambiguous submit does not block its symbol for ever                  *)
(* (reconcileAmbiguousSubmits).                                            *)
AmbiguousResolves == \A o \in Orders : o \in ambiguous ~> o \notin ambiguous

(* The registry row of an ended passive entry does not block its leg for   *)
(* ever.                                                                   *)
RowsSettle ==
    \A o \in Orders :
        registry[o] = "snapshot" /\ order[o].st \in {"filled", "canceled"}
           ~> registry[o] # "snapshot"
=============================================================================

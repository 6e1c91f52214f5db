# Verification of the orbitalpha futures paper engine

TLA+ models of the order path of `src/src/engine/paper-engine.ts`, the TLC
configurations that check them on small instances, and TLAPS proofs of the
properties that matter most. Paths below are relative to the repository root
(`src/` is the TypeScript source, so `engine/x.ts` means `src/engine/x.ts`).

## The system

One Node process (`src/loop.ts`) runs `PaperEngine.runOnce` again and again; a
`running` flag and a timer that is re-armed only after a run keep two ticks from
overlapping. A tick is one long asynchronous function. Between its awaits the
exchange (OKX) moves on, the operator may change a control file, and the process
may die; pm2 restarts it. What survives is a set of JSON files.

| Component | State | Operations | Hard part |
| --- | --- | --- | --- |
| Entry execution (`engine/paper-engine.ts`, `engine-v2/execution/entry-order-type.ts`) | `executionKeysConsumed` and `reports/execution-keys.json`, `ambiguousSubmits`, `runtime/pending-entry-orders.json` | claim a key, submit, classify the outcome, poll, register or open | crash between claim and submit, timeouts, retries, fills racing cancels |
| Ambiguous submits (`reconcileAmbiguousSubmits`) | in-memory map by clOrdId | four queries, then release or keep the key | each query may fail or be late |
| Pending registry (`reconcilePendingEntryOrders`) | registry file, last order scan | cancel stale or expired entries, promote filled ones, drop ended ones | decides from a scan up to 10 s old; file rewritten at the end of the pass |
| Position reconciliation (`runPositionStateReconciliation`) | open ledger, `reconcileSafetyCloseOnly` | adopt remote-only positions, prune local-only ones, safe mode | ownership of a fill nobody recorded |
| Open ledger and mutex (`engine/position-manager.ts`) | `positions/open.json` | load, save, `evaluateSymbolPositionMutex` | the ledger lags behind the exchange |
| Close path (`finalizeFullClose`, `tryPaperPositionClose`, `engine/paper-close-finalize.ts`, `engine-v2/lifecycle/*`) | ledger rows with CLOSE_PENDING and `finalizePending`, `positions/history.json` | close order, poll, append to history, prune | a trade recorded twice or never |
| Protective orders (`engine-v2/execution/protective-*`) | algo ids on the ledger row | place, verify, cancel, rebuild | the gap between cancel and re-place |
| Manual takeover (`engine-v2/position/manual-*`) | `control/manual-takeover.json`, latches | take over, reduce, augment, release | engine and operator act on the same leg |
| Partial reduces (`tryPaperPositionClose`, `applyV2PartialFillConfirmed`, `engine-v2/execution/reduce-*`) | `partialPending*`, stage and counters on the ledger row | submit, poll, book, compare sizes | a fill seen at other times in the list of positions and in the order |
| Re-entry gates (`engine-v2/state/loss-reentry-gate.ts`, `engine-v2/lifecycle/terminal-reentry-barrier.ts`) | `cachedHistory`, `historyDirty` | refresh the cache, decide, enter | decided before the close pass, entered after it |
| Deferred entry queue, readiness barrier | in-memory queue, cycle counters | defer, re-validate, drop by age | stale decisions |
| Server trade control | `server_trade_enabled`, `close_only_mode`, kill switch in a file | load and patch per tick | read once, used many awaits later |
| Account truth (`lib/okxAccountTruth*`, `lib/okxLifecycleReconstruction.ts`) | files of raw fills, closed trades and a cursor | background sync beside the ticks, page by page | three files written one after the other, fills that show up late |
| JSON store (`storage/json-store.ts`) | the files | read, write in place | torn and failed writes |
| Strategy, sizing, reports, monitor, API | derived | compute, format | numeric, no protocol state |

The last row is left to tests: it chooses decisions and amounts, and the models
let it choose anything.

How the parts meet in a tick: `runOnce` loads the trade control, runs the
position reconciliation (at most every 30 s), scans the resting orders (at most
every 10 s; the scan ends with the ambiguous submits), computes the decisions,
runs the close path, and then `processPaperSymbolEntries`, which first runs the
registry pass and then walks the entry queue. All of them share the open ledger,
the registry and the last scan.

## Modules

| Module | Content |
| --- | --- |
| `EntryExecution` | the entry path of a tick, the exchange and the crashes around it |
| `EntryOnce` | what the execution-key protocol promises: at most one order per key, and only for a durably claimed key |
| `PositionClose` | the life of one leg's ledger row: snapshot, reconciliation, close pass, closed history |
| `TradeRecord` | what the close path promises: one final record of each position cycle, made when the position is closed |
| `LossReentry` | entering a symbol again: the cached history, the loss gates and the terminal barrier, on top of `PositionClose` |
| `ProtectivePlan` | pure: what the engine decides from a list of protective orders |
| `Protection` | placing, replacing, rebuilding and watching the stop order of one position; the operator's orders and the takeover |
| `PartialReduce` | the first take-profit and the V2 partial closes of an open position, and the comparison of its size |
| `AccountTruth` | the sync of fills and the reconstruction of trades |
| `MCEntryExecution`, `MCPositionClose`, `MCLossReentry`, `MCProtection`, `MCPartialReduce`, `MCAccountTruth` | TLC's instances: symmetry of order ids where it is used, and small sets |
| `EntryExecutionProofs`, `PositionCloseProofs`, `CloseRecordsProofs`, `LossReentryProofs`, `ProtectionProofs`, `OperatorOrdersProofs`, `PartialReduceProofs`, `AccountTruthProofs` | the theorems; `OperatorOrdersProofs` rests on `ProtectionProofs`, `LossReentryProofs` and `CloseRecordsProofs` on `PositionCloseProofs` |

The parts meet in the ledger row and in the tick. `EntryExecution` ends with a
row on a leg, which `PositionClose` sees as the one step `OpenPosition`;
`PositionClose` ends with the row gone, which frees the leg that
`EntryExecution` never frees; `LossReentry` extends `PositionClose` with the
decision and the entry that follow a close in its tick, and each of its steps is
one of `PositionClose` or leaves it alone. `Protection` and `PartialReduce` take over the row
between the two: one changes the orders around a position whose size it does not
decide (`Resize`), the other its size, without its stop. Each module has the
whole tick as its row sees it, so that every one of them is checked with the
interleavings of reconciliation, scan, close pass and watch. `AccountTruth` runs
beside the ticks and shares nothing with them but the exchange.

### EntryExecution

**State.** `keys`/`loaded` are `executionKeysConsumed`/`executionKeysLoaded`,
`keyFile` the file behind them; `ambiguous` is `ambiguousSubmits`; `registry` is
the pending-entry file, whose rows either carry the ledger snapshot
(`paperRecordSnapshot`, passive orders) or do not (IOC orders whose poll was
inconclusive); `ledger` is `positions/open.json`, a row being the engine's own
or adopted; `listed` is `cachedOpsPending`; `safeMode` is
`reconcileSafetyCloseOnly`; `gateOpen` is the trade switch as this tick loaded
it. `pc` says where the tick is, `cur`/`curKey` which order and key it handles.
`order` is the exchange: for each client order id its key, whether it is on the
wire, lost, rejected, resting, filled or ended, and whether any of it has
filled. A position exists on a leg when an order of that leg has a fill; closing
is not in this module, so positions stay.

**Actions.** One per await of the code, in the order the tick makes them:

| Actions | Code |
| --- | --- |
| `BeginTick` | `runOnce`, `loadServerTradeControlState` |
| `ReconcilePositions`, `PositionsUnavailable`, `SkipPositions` | `runPositionStateReconciliation`: positions the ledger does not know become the engine's own when a registry row with a snapshot proves the fill, and adopted rows (safe mode) otherwise |
| `ScanOrders`, `SkipScan` | `refreshPendingOrdersSnapshot` |
| `AmbiguousFound`, `AmbiguousNotFound`, `AmbiguousQueryFails`, `CheckAbsence`, `ReleaseKey` | `reconcileAmbiguousSubmits`: getOrder, then pending orders, fills history and orders history |
| `ReturnEarly`, `StartRows` | the gates of `processPaperSymbolEntries` |
| `VisitStaleRow`, `VisitListedRow`, `VisitUnlistedRow`, `CancelRow`, `ResolveRow`, `WriteRegistry` | `reconcilePendingEntryOrders` |
| `SkipSymbol`, `RefuseDuplicate`, `ClaimKey`, `PersistKey`, `PersistKeyFails` | the entry queue and `consumeExecutionKey` |
| `RefuseBeforeSend`, `SendOrder`, `SubmitAccepted`, `SubmitRejected`, `SubmitAmbiguous`, `SubmitUnclassified`, `PollAndRecord` | `submitOkxOrder`, `classifySubmitOutcome`, and the record of the outcome |
| `Arrive`, `Lose`, `Fill`, `FillInPart`, `Expire` | the network and OKX (external) |
| `NextCandle`, `SwitchTrading`, `Crash`, `Restart` | time, the operator, the process |

**Abstractions.** A decision is any side or none for each symbol, chosen when
the tick begins. Guards that depend on prices, risk, sizing, readiness or manual
takeover are the freedom of `SkipSymbol`, `ReturnEarly` and `RefuseBeforeSend`.
Time limits (10 s, 30 s, the passive order's time to live) are free choices, so
every timing is covered. States of an ended order (canceled, mmp_canceled,
expired) are one. The second poll after 280 ms is part of `PollAndRecord`. The
engine's own cancels outside this path (operations watch, dashboard) look like
`Expire`. A ghost position always has a notional value, and a v2 entry a
committed stop: `submitOkxOrder` refuses one without
(`STOP_PRICE_REQUIRED_BEFORE_ENTRY`). Ledger and registry writes do not fail,
and the two files are read back as written.

**Faults** are a constant, so that each run names what its environment may do:
failing reads, cancels and key-file writes, ambiguous and unclassified submit
failures, requests that arrive after their failure was reported, fills that
overtake an acknowledged cancel, partial fills, and torn key-file writes. Faults
and bounds are the only limits; `MaxCandle` and `MaxCrashes` cap the counters.

**Properties.**

* `OneOrderPerKey`: a decision (symbol, side, candle) is accepted by the
  exchange once, whatever failed, was retried or restarted.
* `KeyProtocol`: why. The key of every order that is or may be at the exchange
  is in the file and in memory; the process holds an unused key from claim to
  answer; an ambiguous submit's fate is settled when it is queried.
* `ImplementsEntryOnce`: the protocol refines `EntryOnce` with
  `claimed <- keyFile` and `placed <- ` the accepted orders of each key.
* `OneEntryPerLeg`: registry and ledger together see every order, so a leg never
  holds two.
* `PassiveFillsStayOwn`: a passive entry's fill is never adopted as somebody
  else's position.
* `DropsAreSafe`: a registry row goes only when its order has ended without a
  fill or its leg is in the ledger.
* `LedgerRowsAreFills`: no ledger row without a fill on the exchange.
* `PositionsReachLedger`, `AmbiguousResolves`, `RowsSettle`: positions reach the
  ledger, ambiguous submits are resolved, rows of ended passive entries go.

### PositionClose

One leg (a symbol and a side) at a time: legs meet only in the save of the
ledger, where another leg's row may ask for the save too (`modified' \in
BOOLEAN` in `Fetch`).

**State.** `payload` is `lastLivePositionsPayload`, the authority on positions
for the whole tick; it is the number of the position it shows, 0 for none, or
`NoSnapshot`. `ready` is signed execution readiness; `zeros` is
`authoritativeFlatZeroConfirmByKey`; `consumed` is `terminalExitConsumedByFlow`;
`safeMode` is `reconcileSafetyCloseOnly`; `row` is the copy of the ledger row a
pass works on; `ledger` and `history` are the two files. Positions of the leg
are numbered in the order they open, which is what `openedAt` tells apart; a
cycle id is that number and whether the row was written by an entry or by an
adoption, because the two have different `openedAt`s of the same position. A row
keeps what the close path reads: its cycle, its lifecycle (grouped in `Lives`),
`finalizePending` and its pending close order.

**Actions.** In the order of the tick:

| Actions | Code |
| --- | --- |
| `BeginTick` | `refreshLiveBalanceSnapshot`, `computeSignedExecutionReadiness` |
| `NotDue`, `NotReady`, `FetchFails`, `Fetch` | the head of `runPositionStateReconciliation` |
| `HoldZero`, `FinalizeFlat`, `PruneFlat` | `processAuthoritativeFlatReconcilePreflight`, which comes before everything else for a row that is not young |
| `VisitConfirm`, `VisitFailed`, `VisitWaiting` | its section 1, rows waiting for the exchange |
| `PendingRecorded`, `PendingRefused`, `PendingEnded`, `PendingKept`, `PendingForgotten` | section 2, rows waiting for a close order |
| `VisitMatched`, `VisitVanished` | section 3, managed rows |
| `Adopt`, `NoneToVisit`, `Save` | section 4, safe mode and the save |
| `NothingOpen`, `DropConsumed`, `KeepRow`, `DecideExit` | `tryPaperPositionClose` up to an exit |
| `SubmitClose`, `SubmitRefused`, `SubmitLost`, `PollPending`, `PollFilled` | `dispatchOkxClose`, `submitOkxOrder` |
| `RecordClose`, `RecordRefused` | `finalizeFullClose`, `appendClosedWithStandardRouting` |
| `WriteBack` | the final gate and the save at the end of the pass |
| `FillClose`, `FillPart`, `EndClose`, `ClosedElsewhere`, `OpenStray` | OKX (external) |
| `OpenPosition`, `Age`, `Crash`, `Restart` | the entry path, the grace period, the process |

**Abstractions.** Which exit fires is free; `Kinds` keeps the three that differ
in what follows (a stop loss does not use its poll's answer, an escalated
partial reduce is not authorised to prune, the others are alike). History counts
final records only. `StillShown` and `Duplicate` are the two reasons to refuse
an append that depend on state; a close price is always valid. The 180 s limit
of a pending order and the 30 s interval of the reconciliation are free choices;
the grace period is `young`, ended by `Age`, and cannot span two reconciliations
(`seen`), which are as far apart as it is long. Repairs that depend on sizes,
ownership and evidence choose freely among the lifecycles they can leave
(`VisitMatched`). Manual takeover, the crash-risk layer and the size-mismatch
safe mode (whose effect is that of `closeOnly`) are left out; partial reduces
have a module of their own. A
list of positions lies at most once in a row (`lied`): the two-zero rule is made
for exactly that. A position of unknown origin appears between ticks or before
the reconciliation.

**Properties.**

* `RecordedOnce`: no cycle is recorded twice, whatever fails.
* `OneRecordPerPosition`: nor is a position, under its own and its adopted id.
* `ImplementsTradeRecord`: history follows `TradeRecord`.
* `PendingHasFill`: only a trade with a fill makes its row wait for a record.
* `PendingKeptUntilRecorded`: such a row stays until history has it.
* `OneCloseInFlight`: an exit is not sent again while the earlier order may fill.
* `LeftAreFlat`: a row leaves the ledger only when the position it names is
  closed (a row adopted without `openedAt` names none).
* `FlatRowsLeave`, `PendingGetsRecorded`: rows of closed positions leave, and
  trades that wait are recorded.
* `RecordedAreClosed`: what history calls closed is closed, which the code does
  not always keep (Other divergences) and the proofs show when snapshots neither
  fail nor lie.

### LossReentry

**State.** That of `PositionClose`, and `decision` (the symbol's decision of the
tick), `cached` and `dirty` (`cachedHistory`, `historyDirty`), `newest` (the
newest record in the file) and `cool` (which trades have a `closedAt` of five
minutes and five completed candles ago).

**Actions.** Each step of `PositionClose` with what it does to this state:
`StartTick`, `Reconcile` and `Close` are the three parts of its tick, of which
the last two may record a trade (`Append`); between them `Decide` is the refresh
of the cache and the decision with the gates of `loss-reentry-gate.ts` and the
barrier of `engine-v2/index.ts`; after the close pass `EnterSame`,
`EnterOpposite` or `NoEntry` is what `processPaperSymbolEntries` makes of it.
`ReentryCrash` empties the cache, and `CoolDown` is the time.

**Abstractions.** Whether a record counts as a loss is free (`isLoss` is a matter
of prices and of the exit's name), and so are displacement, a fresh setup, a
confirmed trend and the structural confirmation of the opposite gate. A trade
may cool down at any time, since its `closedAt` is that of the exit and not of
the record. One leg is followed: the trades of the other side of the symbol are
left out, the records of a leg come in the order of their `closedAt`, and a row
on the leg stops any entry, as the mutex does except for add-ons. A record that
waits in the row (`finalizePending`) never reaches the gates, because the barrier
stops the decision first.

**Properties.**

* `EntriesSeeNewest`: what the engine enters was decided with the newest record
  in view. Nothing checks that at the entry. It holds because a tick that may
  enter is a tick with a snapshot, and in such a tick the close pass records
  nothing: the position it closes is still shown, so the record is refused and
  made by a later reconciliation, before the decisions.
* `NoChurn`: so while the newest record is a loss, nothing is entered on either
  side before five candles have passed, unless the price was displaced.

### ProtectivePlan and Protection

One leg and one life of its position. `ProtectivePlan` has the pure decisions
(which order matches, is adoptable or stale, the one to keep, the ones to
cancel) as operators on a set of orders and a context; `Protection` is the code
that acts on them.

**State.** `row` is the ledger row on disk, `work` the copy its caller has;
`size`, `inv`, `sl`, `tp`, `targets`, `sub`, `subTp`, `changed`, `tried` are the
locals of `ensureProtectiveStopOrderCore`; `blocked` and `clBlocked` are the two
blocks by symbol and by client id; `opSeen`, `scanned`, `cache` what the last
scan left; `payload` the size the tick began with. `book`, `hidden`, `gone` are
the exchange: live orders, those of them its list does not show yet, and ended
ones a lookup still returns. An order's client id is one of five families: the
derived id that is always used again, that of a restored stop, that of an order
attached to the entry the row names (`entry`) or to one it does not name
(`attach`), and the operator's. `dirty` says whether something happened since the
last ensure began.

**Actions.** One per request or write of the ensure:

| Actions | Code |
| --- | --- |
| `Begin`, `GiveUp`, `Locate`, `Collect`, `Plan` | `ensureProtectiveStopOrder` up to its plan: the position, the inventory, adoption, the grace period |
| `Clean`, `Submit`, `Resolve`, `Persist`, `Swap`, `Rescan`, `Finish`, `Return` | cancels of strays, the submit and 51068, the write of the ledger, the cancel of the old order, the scan that verifies, success or block |
| `RbCancel`, `RbSubmit`, `RbQuery`, `RbRestore`, `RbRequery` | `executeSlOnlyOcoRebuildTransaction` |
| `Reconcile`, `ScanOrders`, `Latch`, `Decide`, `Watch` | the five places of a tick that call it, block, unblock or take over |
| `Appear`, `GraceExpires`, `Resize`, `GoFlat`, `OperatorPlaces`, `OperatorCancels`, `Crash` | OKX, time, the operator, the process (external) |

**Abstractions.** Prices are numbered in the order the stop is raised, and the
take-profit's never changes. Registration flags say no more than the ids. The
ensure runs once at a time (the code keeps a promise per position). Resolving
51068 and the cancel that follows are one step; a failing cancel there costs no
event. A leg that the plan gives no take-profit stands for a V2 trend position.
The candidate made of the named entry's order is merged with the order itself
(`mergeProtectiveInventoryRows`) and leaves it the tag `entry_attach_candidate`,
with which the plan passes over it, so the order is neither adopted nor
cancelled (`Tagged`, `Untagged`). `Inventory` and `Rescan` leave such rows out at
once. The rebuild keeps them for judging what the exchange holds and plans
without them, except in its last query, whose list has no tags (`Restored`). A
tagged order that ends between the inventory and that judgement still counts in
the code and not here.
Left out: the returns for an `EXTERNAL_MANUAL_POSITION` row and for
`structureBreached`, which nothing sets; a row that learns or changes the entry
it names during the position; closeFraction orders, partial and separate take-profit orders, plain
reduce-only limit rows, the 51088 recovery, the BTC management block, what
several position cycles leave behind, a plan that changes during a position,
and the return from `ADDON_ACTIVE` through a partial reduce.

**Properties.** `SuccessIsReal`, `NakedIsBlocked`, `CoverKept`, `SwapIsDurable`,
`OperatorOrdersKept`, `ProtectionRecovers`, stated in the module. `dirty` keeps
the first two to what the ensure can answer for: nothing else changed while it
ran.

### PartialReduce

One leg whose position stays open, and any number of reduce-only orders.

**State.** `row` is the ledger row, `work` the copy that the reconciliation or
the close pass holds; `remote` is the list of positions the reconciliation
fetched, `payload` the one of the start of the tick, `cache` the last scan,
`safe` is `reconcileSafetyCloseOnly`. `pos` and `orders` are the exchange.
`known` and `increased` are history: the orders some saved row has waited for,
and whether the operator ever added to the position.

**Actions.**

| Actions | Code |
| --- | --- |
| `BeginTick`, `NotDue`, `FetchFails`, `Fetch` | the two reads of the positions; a failed second one turns safe mode on and ends the reconciliation |
| `VisitOpen` | section 3 of `runPositionStateReconciliation` and `reconcileOpenPositionWithRemote` |
| `PollFilled`, `PollPart`, `PollEnded`, `PollKept`, `PollTimeout` | section 2 for a `PARTIAL_PENDING` row, with `applyV2PartialFillConfirmed` |
| `Save`, `Scan` | the save with safe mode, `refreshPendingOrdersSnapshot` |
| `Hold`, `SubmitTp1`, `SubmitPartial`, `WriteBack` | the close pass: nothing to reduce, the first take-profit, the policy's partial close, the write of the rows |
| `Fill`, `OrderEnds`, `OperatorTrades`, `SwitchCloseOnly`, `NewCandle`, `Crash` | OKX, the operator, time, the process (external) |

**Abstractions.** `OPEN` stands for `BOT_V2_MANAGED`, `MANUAL_SIZE_AUGMENTED`
and `CLOSE_ONLY_MANAGED` too, which are treated alike here. `sent` says that
`shockReduceState` is neither idle nor terminal. Evidence of a shock, the
economics and lot arithmetic of a reduce, ratios and prices are free: any size
below the row's, any reason, or `Hold`. A difference of contracts is always
above the tolerance. A mismatch may or may not turn safe mode on, because after
a replaced stop the reconciliation goes on with a copy that it does not count.
A take-profit of size 0 is refused by the exchange. Not reachable in the code,
and so not here: a pending row without an order id, and a filled order without a
new fill. Left out: what an add-on or a takeover leaves in the row.

**Properties.**

* `BooksAreReal`: of no order is more booked than it filled, and the history has
  at most one take-profit, of an order that filled.
* `OneReduceInFlight`: two orders the ledger has waited for are never live
  together, although the guard looks at an old scan and a row may lose its order
  to a timeout or a mode switch.
* `LimitHolds`: at most two of them are protective, only the first routine.
* `NoFalseAugment`: the engine's own fills never look like the operator's trade.
* `LedgerConverges`: in the end the ledger has the position's size, or the row
  still seems to wait. `FilledReducesBooked`: what a waiting row's order filled
  is booked, unless the row stopped waiting first. What both except is a real
  state of the code (Other divergences).

### AccountTruth

One symbol in net mode. A fill is its bill id, its time and its signed size.

**State.** `raw`, `trades`, `cursor` are the three files; `at` and `sync` are
what each sync does next and its locals, `Syncs` how many could run at once
(one does, which is what the mutant of `HistoryGrows` breaks). `executed` and
`shown` are the fills there were and those the exchange lists. `truncated` and
`whole` are history: has a sync saved less than it asked for, and were all fills
ever saved the first so many.

**Actions.** `Trigger` (`triggerIfDue`), `ReadLastPage`, `ReadFullPage`,
`ReadUnmarkedPage` (one page of `syncOkxAccountTruthTrades` each), `SaveFills`,
`SaveTrades`, `SaveCursor` (its three writes), `Abandon` (a refused page or a
failed write), `Crash`, and the exchange: `Execute`, `Appear`, `TimePasses`.
`Positions` is the walk of `reconstructLifecyclesFromFills` over the fills, as a
recursive function, and `Lifecycles` what it has closed at the end.

**Abstractions.** Bill ids grow with time and order the fills of one instant.
Prices, fees, ownership labels and the backfill, which only tests call, are left
out. That the last sync began a minute ago is not modelled, only that none runs.

**Properties.** `NoFillBehindCursor`, `HistoryGrows`, `StoredTradesAreReal`
(against `Cycles`, which looks for every opening fill and the closing one that
follows it, by the running sum of the sizes),
`FillsGetStored`, `TradesGetStored`.

## Runs

| Run | Bounds | Shows |
| --- | --- | --- |
| `entry_reliable` | one symbol, three orders, two candles; reads and cancels fail, the operator switches trading | `OneEntryPerLeg`, `PassiveFillsStayOwn`, `DropsAreSafe` |
| `entry_crash` | one symbol, two orders, one candle, one crash; ambiguous submits, failing reads, cancels and writes, cancels overtaken by fills, partial fills | `OneOrderPerKey`, `KeyProtocol`, `LedgerRowsAreFills`, `ImplementsEntryOnce` |
| `entry_liveness` | one order, one crash; failing reads, ambiguous and unclassified submits, torn key files | `PositionsReachLedger`, `AmbiguousResolves`, `RowsSettle` |
| `close_records` | two positions, two orders, one crash; failing lists, partial fills, lost answers, entries confirmed at once, stray positions | `RecordedOnce`, `OneRecordPerPosition`, `PendingHasFill`, `LeftAreFlat`, `ImplementsTradeRecord` |
| `close_orders` | two positions, two orders; failing balances and queries, forgotten orders | `TypeOK`, `OneCloseInFlight`, `PendingKeptUntilRecorded`, `FlatRowsLeave`, `PendingGetsRecorded` |
| `loss_reentry` | two positions, one close order, one crash; failing balances, partial fills, close-only mode | `EntriesSeeNewest`, `NoChurn` |
| `protect_faults` | two sizes, two stops, with and without a take-profit; any three of resizes, failures and crashes | `SuccessIsReal`, `NakedIsBlocked`, `CoverKept`, `ProtectionRecovers` |
| `protect_all` | the same, any two of all sixteen changes and faults | `SwapIsDurable`, `OperatorOrdersKept` |
| `partial_reduce` | three contracts, three reduce orders, two candles, any one of all six faults | `BooksAreReal`, `OneReduceInFlight`, `LimitHolds`, `NoFalseAugment`, `LedgerConverges`, `FilledReducesBooked` |
| `account_truth` | two pages of one fill, three fills of sizes that open, reduce, close and reverse, four instants, one fault | `TypeOK`, `NoFillBehindCursor`, `StoredTradesAreReal`, `HistoryGrows`, `FillsGetStored`, `TradesGetStored` |
| `entry_unclassified`, `protect_trail` | the smallest instance that shows it, with only the fault it needs | counterexamples, see Findings |

The types of `EntryExecution`, `Protection` and `PartialReduce` are proved and in no
run.

Why these bounds suffice. A duplicate needs two orders, and one key is enough
for two orders of the same decision; a second entry on a leg needs a second
candle (the key of the first stays consumed), and a third order lets a dropped
row be replaced. Symbols do not interact in the protocol except through the slot
count, which `MaxOpen` = 1 makes bite with one symbol and two sides. One crash
reaches every intermediate state of the files; a second starts from a state the
first can leave. On the close side a second position is what a stale count, a
stale row or a reused id can hurt, and a second close order what a forgotten one
collides with. A re-entry needs a closed position and the next, and failing
balances are what lets a close be recorded in its own tick. A stop can only have an old or the new size and an old or the new
price, and five ids are enough for an attached, an old, a new and a restored
order and the operator's. Three reduce orders exceed the limit of two; with one
fault the row loses its order once, and the orders left still collide with it.
Two faults there, or closeOnly beside the others in `close_records`, take TLC
longer than is of use; the proofs cover the safety properties for any number.
Pages of one fill make every boundary between fills one between pages.

The faults a run leaves out are those under which its properties fail for a
reason given under Other divergences: failing or lying snapshots for everything
that speaks of closed positions, failing balances for `PendingHasFill`, failing
lists, partial fills, stray positions, lost answers and crashes for
`OneCloseInFlight`, entries confirmed at once and close-only mode for
`PendingKeptUntilRecorded`; raised stops, add-ons, the operator, stale scans and
dead lookups for `ProtectionRecovers`.

**Fairness** (`FairSpec`).

* `EntryExecution`: the loop re-arms its timer and catches every exception, so
  the steps of a tick and the restart are weakly fair. Queries and rate limits
  fail or skip intermittently: strong fairness says that a query made again and
  again succeeds at some time, and that the gates in front of the registry pass
  are not closed for ever. A request on the wire is delivered or lost. Nothing
  is assumed of fills: an order may rest for ever.
* `PositionClose`: the steps of a tick, the restart and the passing of the grace
  period are weakly fair; complete snapshots (`BeginTick` with `ready'`) and
  reconciliations that are due and answered (`Fetch`) are strongly fair, because
  the interval is 30 s of a loop that goes on and the failures are those of
  single requests.
* `Protection`: weak fairness of the tick with its ensure and of `Appear`: an
  accepted order is listed in the end. `GraceExpires` is strongly fair because
  ticks come in between a deadline and its passing. Faults are bounded, so
  `ProtectionRecovers` speaks of what happens after the last.
* `PartialReduce`: weak fairness of the tick, strong fairness of `Fetch`, as in
  `PositionClose`. Nothing is assumed of fills.
* `AccountTruth`: weak fairness of the steps of a sync: the loop triggers one in
  every tick that finds none running, and requests have a timeout.

## Findings

* `entry_unclassified`: `classifySubmitOutcome` ends in
  `DEFINITIVE_EXCHANGE_REJECTED`; `signedRequest` reports a failed `fetch` as
  `fetch failed` and an HTML error page as `Failed to parse JSON response`,
  neither of which it lists. The key is released and the decision ordered again.
* `protect_trail`: with nothing failing, a raised stop at an unchanged size never
  reaches the exchange: its client id is in use (51068), and the order behind it
  is neither adoptable, for its price, nor stale, for its size. The symbol stays
  blocked.

### Other divergences

Met while modelling, and kept by no run. Those with a fault and a property can be
seen by giving a run that fault.

Entries:

* An ambiguous submit that turns out to be at the exchange leaves
  `ambiguousSubmits` and enters no other record (2368); the next candle enters
  the leg again (`OneEntryPerLeg` with `ambiguousError`).
* The key file is written in place and an unreadable one counts as empty, so a
  crash in the middle of a write forgets every key (`OneOrderPerKey` with
  `tornWrite`).
* Resting entries do not count against `ORBITALPHA_PAPER_MAX_OPEN_POSITIONS`
  (22676), and after a side flip whose cancel is overtaken by the fill the
  opposite side is entered in the same tick: the mutex (22693) reads a ledger
  without the fill.
* The fresh-tick barrier is computed into a local (7191) before readiness may
  recover (8454), and dropped at the end of that tick (8489) with none of its
  two ticks (2146) behind it. See Not modelled for why it holds nothing back.

Closes:

* A close that its poll does not confirm leaves a `CLOSE_PENDING` row without
  `finalizePending`. If the order fills before the next reconciliation, the flat
  preflight comes before the query of the order and prunes the row after two
  zeros (10034), with nothing failing and without a record, against "that leg is
  closed, appended to history, and removed from the array" (`README.md:52`). So
  does a row whose position a stop on the exchange closed. Such a loss never arms
  the re-entry gates, and the other side may be entered at once, against "minimum
  300s + at least one 5m completed candle" (`loss-reentry-gate.ts:589`).
* When the positions half of the snapshot fails, an exit is recorded with
  `fillConfirmed: true` and pruned although no order was sent (10945;
  `RecordedAreClosed` with `snapshotFail`). When only the balance half fails, the
  same branch sets `finalizePending` on the row of an open position
  (`PendingHasFill` with `balanceFail`).
* Close-only mode relabels a `CLOSE_PENDING` row (15336), and a second close
  order follows the first; a row that waits to be recorded loses that too
  (`OneCloseInFlight`, `PendingKeptUntilRecorded` with `closeOnly`).
* Any fill counts as a confirmed close, so a close order that filled in part and
  still rests leaves a managed row, and the next exit sends a second order
  (`OneCloseInFlight` with `partialFill`; with `strayPosition` the second order
  is for the adopted row).
* Within the grace period a managed row whose position is missing is dropped
  although its trade waits to be recorded (`PendingKeptUntilRecorded` with
  `promptConfirm`).
* The finalised exit of the flat preflight leaves the count of zeros at two, and
  its key is the leg: one spurious zero then prunes the leg's next row.

Protection:

* After a resize, 51068 leads to the cancel of the old stop before the new one
  is placed (12752-12755), against "Safe Replacement Atomic Swap: Submit
  replacement first" (12716). If the submit then fails the position has no stop,
  and a success inside the visibility grace (13174-13260) reports one.
* In that window a scan of up to ten seconds ago lacks the stop, and the engine's
  own cancel is taken for the operator's, although
  `manual-takeover-authority.ts:187` asks for positive evidence; a failing
  rebuild with a failing query, and an order that is listed later than a tick
  after its submit, end the same way.
* An order that has ended may be adopted from a lookup by client id (13179), and
  a lookup that fails to find one keeps the client id blocked.
* The rebuild of an add-on is due "on next reconciliation" (25343), which skips
  `ADDON_ACTIVE` rows (5476-5484), and the watch does not compare sizes. When the
  size fits already, the add-on's clean cancels both stops; it and the rebuild
  for a take-profit cancel the operator's order, against
  `protective-reconcile-plan.ts:265` ("Operator / manual orders are NEVER cancelled
  by engine!").
* The watch unblocks on the ledger's stop of any size (3386) and on a stale scan.
* `cancelProtectionOrdersForClosedPosition` (11107-11205) leaves OCO orders.

Partial reduces:

* Once the take-profit has filled, every later reduce moves `partialExitStage`
  on, because the test for a canonical take-profit is also true of
  `v2RangeTp1Triggered`; the comment above it (10375-10385) says that a shock
  reduce does not, and the stage gates the second take-profit.
* An order that is canceled or times out leaves `partialPendingContracts` in the
  row (5325: "Clear all pending fields"). The guard then refuses every later
  partial reduce, and a ledger larger than the position is left so.
* What a canceled order had filled since the last poll is not booked.
* Close-only or safe mode relabels a `PARTIAL_PENDING` row: its order is never
  polled again and its fill never booked.
* A fill between the list of positions and the query is a size mismatch until
  the next pass, and may turn safe mode on.
* The child record of the take-profit cancels the stop of the still open
  position before it is ensured again.
* A lost answer of a partial reduce ends its episode as terminal, and the reduce
  is submitted again beside an order nobody tracks (18396).

Account truth:

* A sync that stops at the last page allowed, or at one without a new bill id,
  saves what it has and moves the cursor past older fills, against "Persists
  deduplicated raw fills history so that lifecycles spanning multiple sync
  batches are never lost" (`okxAccountTruthIngest.ts:51`). An exactly full last
  page is reported as truncated.
* A fill that shows up late makes a trade with another opening, and the one made
  without it stays for ever; so does a trade made from a window that begins
  within a position.
* Two trades of one side opened in the same millisecond share a key.
* A file that cannot be read counts as empty and is overwritten
  (`account-truth-store.ts:114`).
* `posSide` is ignored, so the legs of hedge mode are netted; trade ids of one
  instant are compared as strings.

Elsewhere: `soft-exit-hysteresis.ts` lets a soft exit through unconfirmed when
the closed candle is older than the last one it counted.

## Proofs

`EntryExecutionProofs` proves, for all values of the constants:

* `Typed`: `Spec => []TypeOK`, the type invariant every other proof uses.
* `KeysHold`: `Spec => []KeyProtocol` under `HonestTransport`, that is, when the
  environment commits none of `unclassifiedError`, `lateArrival` and
  `tornWrite`. `OneOrderPerKey` is not inductive: that nobody else holds the key
  at the moment of the submit depends on the key having been in the file before
  (`ConsumedKeysCoverOrders`), on the claim being exclusive from claim to answer
  (`ClaimHeld`), and on a release following only a rejection or a proof of
  absence of an order whose fate is settled (`AmbiguousSettled`). The four parts
  together are inductive. Steps that leave keys alone share one lemma
  (`HarmlessStep`); the claim, submit, ambiguous and crash steps have one each.
* `NoDuplicateOrders`: `OneOrderPerKey` as a consequence.
* `Implements`: every step refines a step of `EntryOnce` or stutters; the only
  step that places is `Arrive`.
* `NoPhantomRows`: `LedgerRowsAreFills`, under every fault, from the agreement
  of fills with order states (`FillsAgree`) and the fact that fills do not
  vanish.
* `DropsHold`: `DropsAreSafe` under `SoundCancels`, that is, without
  `asyncCancel` and `partialFill`, whatever else fails and however often the
  process dies. `RowsSound` says that a row is of an accepted order
  (`RowsAccepted`, `PollAccepted`), that it was marked because its order is
  canceled without a fill or its leg is in the ledger (`DropGrounds`, `Whole`), and
  that from the claim to the record of the outcome no row is on the leg, so that
  the record replaces none (`LegClear`).
* `OneEntry` and `PassiveFillsOwned`: `OneEntryPerLeg` and
  `PassiveFillsStayOwn` under `Reliable`, without crashes, `ambiguousError`,
  `unclassifiedError`, `asyncCancel` and `partialFill`. `EntryAlone` ties an order
  that rests or filled to what keeps its leg from the next entry: the answer the
  tick awaits (`SentAwaited`), then a registry row or the ledger (`OpenSeen`; for a
  passive order a row with its snapshot, `PassiveSnapshots`), and says that on the
  leg of a claim only the claim's own order is open (`LegFree`).

TLC finds each exclusion needed: either of `asyncCancel` and `partialFill` alone
breaks `DropsAreSafe`, and any of the faults excluded by `Reliable`, or one crash,
both other properties. `entry_unclassified` shows that the first exclusion in `HonestTransport` is
needed, and a torn write breaks `OneOrderPerKey` too; the third, `lateArrival`,
is the gap between a proof of absence and a request still under way.

`PositionCloseProofs` proves, for all values of the constants:

* `Typed`: `Spec => []TypeOK`. The type of the row needs `RowInHand`: from the
  decision to exit on there is a row, and an order while it is polled.
* `RecordsOnce`: `RecordedOnce`, under every fault. Every append is a
  `Recording` step, of a cycle not in history.
* `RecordedClosed` and `Implements`: `RecordedAreClosed` and
  `ImplementsTradeRecord` under `TrueSnapshots`, that is, when the environment
  commits neither `snapshotFail` nor `spuriousEmpty`. Neither property is
  inductive. The invariant `Truth` adds that rows and records are of positions
  already opened (`Past`), and that during a tick whose snapshot shows nothing no
  row stands for the position (`Sighted`): a position that opens meanwhile has a
  number no row carries, and adoption takes its number from the snapshot.
* `LeftFlat`: `LeftAreFlat` when in addition no stray position appears
  (`OwnPositions`). `Settled` ties together what the engine knows of the leg: a
  snapshot or list without it, a row the reconciliation dropped, and a consumed
  exit, each of which means that the position is closed. TLC finds no violation
  with stray positions either.

`snapshotFail` must be excluded (Other divergences), and `spuriousEmpty` in the
snapshot has the same effect.

`CloseRecordsProofs` proves, for any number of positions, close orders and crashes:

* `RecordedUnderOneId`: `OneRecordPerPosition` under `TrueSnapshots`. A position
  has two cycle ids, as the engine's own and as adopted. The row at work and the
  one on disk have the same (`Agree`); nothing is recorded under the other id of a
  position that has a row or is still in the snapshot, and so nothing is recorded
  under both (`Unshared`).
* `PendingFilled`: `PendingHasFill` when balances arrive with the rest
  (`BalancesArrive`), under every other fault: what makes a row wait for its
  record can be traced to a fill (`Traced`, `Backed`).
* `OneClose`: `OneCloseInFlight` under `Steady` and `WholeFills`. `Steady` is an
  engine without crashes whose snapshots are true and whose lists are fetched,
  with no stray positions and no close-only mode; `WholeFills` excludes lost
  answers and partial fills. Balances and queries may still fail, and orders be
  forgotten. The invariant `Base` says what the tick knows of the leg (`Settled`,
  `Tracked`, `Exiting`), and `InFlight` that a live close order is the one its row
  waits for, or the one being polled (`Held`), and has no fill (`Unsent`).
* `PendingKeeps`: `PendingKeptUntilRecorded` under `Steady` and `LateConfirms`
  (entries are confirmed by the reconciliation), with partial fills and lost
  answers. `Waiting` says that a row that waits was confirmed (`Unfinalized`), so
  that it is past its grace period (`Seen`), that zeros are counted against a
  confirmed row only after its position closed (`Counts`), and that a row dropped
  while it waited is in history (`DroppedIsRecorded`).

TLC finds `OneRecordPerPosition` broken by `snapshotFail` alone, `PendingHasFill`
by `balanceFail` alone, and each of the other two by every fault its hypotheses
exclude, but `spuriousEmpty` breaks `PendingKeptUntilRecorded` only together with
another.

`LossReentryProofs` proves `EntriesAreInformed` and `NoChurning`, that is,
`EntriesSeeNewest` and `NoChurn` under every fault. `GateInv` says that the cache
is dirty or current (`Fresh`), that nothing is decided while the reconciliation
runs (`DueBefore`), and that with signed readiness there is a list of positions
(`ReadyHasList`) which shows the position under a close (`ClosesShown`), so that
a decision that may still be carried out keeps seeing the newest record
(`DecisionSees`). `ReentryRefines` gives it the types of `PositionClose`.

`ProtectionProofs` proves, under every fault and for every bound:

* `TypeCorrect`: `TypeOK`. Its invariant `Shape` adds `InHand`: while an ensure
  runs its caller has a row, the leg has one on disk, and the ids the current
  step needs are there (the stop the rebuild cancels, the order to persist).
* `SwapsAreDurable`: `SwapIsDurable`, a part of `InHand`: `Swap` is reached only
  through a `Persist` that did not fail, and nothing else writes the row in
  between.

Three more hold when a query never takes an order that has ended for a live one
(`LooksAlive`, no `deadLookup`):

* `SuccessReal`: `SuccessIsReal`, whatever else happens. The invariant
  `CoverInv` has two parts. There is one live order for each family of client ids
  and for each id, and a restored stop has no take-profit (`OneEach`). And
  while nothing has happened since the ensure began, what it has put in a slot is
  a live order that its cancels spare, a rebuild spares every order with a
  take-profit, and whoever comes to write the ledger has a stop that outlives
  the swap (`Covered`). That the chosen orders are never on the list to cancel is
  a fact about `ProtectivePlan`: among the orders the plan does not pass over,
  they never tie with another in the ranking (`FullOrdersRank`,
  `CanonicalSpared`).
* `CoverIsKept`: `CoverKept`, without add-ons (`NoAddons`): the plan of a scaled
  row puts the stop it keeps on the list to cancel.
* `NakedBlocked`: `NakedIsBlocked`, when in addition every tick scans
  (`FreshScans`, no `staleScan`) and stops are not raised (`NoTrails`); with
  add-ons, the operator's orders, slow reconciliations and crashes. What the scan
  shows is still there after the ensure (`CacheLive`), and an ensure that returns
  without a stop has blocked or waits for an order to appear (`Warned`); whoever
  has submitted or found a stop has one on the exchange, also when the ledger
  could not be written (`SentStop`).

TLC finds each of these exclusions needed, and with four events no other.

`OperatorOrdersProofs` proves `OperatorOrdersAreKept`. The invariant `Apart` adds
to `Shape` that an id has one family of client ids in every list the engine
holds, however old (`OneFamily`), that no live order of the operator is on the
list to cancel while the row is not scaled (`Spared`), and that an ensure works
on a row as scaled as the one on disk.

`PartialReduceProofs` proves, under every fault and for any number of contracts,
orders and candles:

* `Typed`; `BooksHold`, `OneInFlight` and `AugmentsAreReal` from one inductive
  invariant, of which the ledger row and the copy at work each satisfy the same
  part (`Sane`): a pending row waits for an order it submitted, of which it has
  booked no more than it processed (`Waiting`, `Placed`, `Books`); a known order
  that lives keeps the row from submitting another (`Guarded`), which holds only
  because a released row keeps its contracts; and as long as nobody adds to the
  position, what it filled and the row has not booked is still in the row's size
  (`Sized`), whatever the lists showed (`Shown`).
* `LimitIsKept`: `LimitHolds`, from `Limits`: the count of a row covers the
  protective orders the ledger has known, except the one it waits for, and ids
  are given out in order.

`AccountTruthProofs` proves, for pages of any size and any number of fills and
faults: `TypeCorrect`, `NoFillIsLost`, `HistoryOnlyGrows` and `TradesAreReal`.
The invariant says that times grow with bill ids (`InOrder`), that one sync runs
(`Alone`), that a sync has read all it asked for from its last page up, except
fills that appeared late and are not much older than those it read (`SyncInv`),
and that what is listed and not stored is within reach of the cursor (`Kept`).
The assumption `Lag <= Overlap` is the one the five minutes of overlap are for.

`ReconstructionExact` says that the reconstruction computes exactly the trades of
the definition: `Lifecycles(S) = Cycles(S)` for every set `S` of fills with
distinct ids, with gaps in it or none. It needs induction over the ids. The
induction theorem of the library takes a predicate, which the provers cannot
instantiate; `NatSet` states it for a set, from the well-foundedness of `<`
(`WFMin`). With it, first, the two recursive functions exist, so that they satisfy
their equations (`PositionsMean`, `NetMeans`); then the position after the fills
up to an id is their sum, its legs are those since the last opening, and what it
has closed are trades (`Follows`); and conversely a trade has one opening, because
a position that was opened is not flat again before it is closed (`StaysOpen`,
`OneOpening`). `TradesAreReal`, that is `StoredTradesAreReal`, follows with
`CyclesStay`: the trades of the first so many fills remain trades when newer fills
come. Its invariant `Books` says so of the file and of the copies a sync holds.

Only model-checked: the liveness properties, which TLAPS cannot prove
(`PositionsReachLedger`, `AmbiguousResolves`, `RowsSettle`, `FlatRowsLeave`,
`PendingGetsRecorded`, `ProtectionRecovers`, `FillsGetStored`, `TradesGetStored`,
`LedgerConverges`, `FilledReducesBooked`). Every invariant and every action
property of the passing runs is the statement of a theorem.

## Plan

1. `EntryExecution` and `PositionClose` with their abstract specifications
   `EntryOnce` and `TradeRecord`: done.
2. `Protection` with the takeover, `AccountTruth`, `PartialReduce`, `LossReentry`,
   and the proofs above: done.
3. Theorems for the safety properties that need hypotheses on the faults
   (`OneEntry`, `DropsHold`, `CloseRecordsProofs`, `SuccessReal`, `CoverIsKept`,
   `NakedBlocked`) and the reconstruction of trades by induction: done.
4. The store's failure modes, the keys of scale-in orders, the ownership latch,
   and `Protection` composed with `PartialReduce` (today the stop sees reduces as
   `Resize`).

## Not modelled

* Market data, strategy (`engine-v2/index.ts`, executors, market judgment), risk
  sizing, legacy strategies and the AI filter: most of the lines of the
  repository. They are numeric and keep no protocol state; the models let them
  choose any decision and size, which covers every outcome of theirs.
* Reports, dashboard bundle, monitor and read-only API: derived output.
* The deferred entry queue and the fresh-tick barrier: the last check before an
  order (22009-22025) asks for a V2 authority and a V2 candidate of this cycle,
  and such a candidate bypasses the barrier (21068-21089), so no entry that could
  be executed is ever deferred.
* The exit authority and its hysteresis: counters in front of an exit that `DecideExit` and `SubmitPartial`
  may take or leave in any tick.
* Scale-in and add-on orders use execution keys of their own and the same submit
  path, and with `addOnAllowed` the mutex lets them pass a row of their side, which
  `MayEnter` of `EntryExecution` does not; `Protection` has what a filled add-on
  leaves in the ledger.
* The patching of the trade-control file: it is read once per tick, which is all
  the models need of it.

See `PROJECT.json` for the component list and the hazards, with the properties
that cover each.

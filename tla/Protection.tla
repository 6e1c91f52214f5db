----------------------------- MODULE Protection -----------------------------
(***************************************************************************)
(* How PaperEngine keeps a position protected by a stop order on the       *)
(* exchange, for one leg and one life of its position.  In each tick the   *)
(* engine                                                                  *)
(*                                                                         *)
(*   1. reconciles the ledger and ensures the protective order of the row  *)
(*      (reconcileOpenPositions), when that is due;                        *)
(*   2. scans the pending orders of the account, at most every ten         *)
(*      seconds (refreshPendingOrdersSnapshot);                            *)
(*   3. takes the position for the operator's if the scan shows that its   *)
(*      stop is gone (latchManualProtectiveInterventionsFromExchangeScan); *)
(*   4. may raise the stop, and then ensures it, or fill an add-on;        *)
(*   5. watches: looks at the scan again and ensures the order if it is    *)
(*      not there (runPositionOperationsWatch).                            *)
(*                                                                         *)
(* ensureProtectiveStopOrder is the procedure all of them call.  It reads  *)
(* the position and the orders, plans with the operators of                *)
(* ProtectivePlan, and then sends orders one request at a time, writing    *)
(* positions/open.json in between.  The exchange, the operator and a crash *)
(* interfere between any two of its steps.                                 *)
(***************************************************************************)
EXTENDS ProtectivePlan

CONSTANTS
    NoRow,      \* the leg has no ledger row
    Plans,      \* may the plan want a take-profit on the exchange?
    MaxEvents,  \* bound: changes and faults in a behaviour
    Faults      \* what may happen beyond the ordinary

FaultKinds == {
    "resize",       \* the size of the position changes: a fill, a reduce, a person
    "trail",        \* the lifecycle authority raises the stop
    "addon",        \* the engine fills an add-on
    "flat",         \* the position is closed
    "crash",        \* the process dies and starts again
    "operatorPlaces",   \* the operator places a protective order
    "operatorCancels",  \* the operator cancels one, or it triggers
    "queryFail",    \* a query fails
    "refused",      \* a submit fails and does not reach the exchange
    "lostAnswer",   \* a submit is reported failed and reaches the exchange
    "cancelFail",   \* a cancel fails
    "persistFail",  \* a write of the ledger fails
    "lag",          \* an accepted order appears in the list of pending orders later
    "deadLookup",   \* a lookup by client id returns an order that has ended
    "staleScan",    \* a tick comes before the scan is due again (FIVE_SECOND_LOOP)
    "slowReconcile" } \* a tick comes before the reconciliation is due again

ASSUME FaultsAssumption == Faults \subseteq FaultKinds
ASSUME EventsAssumption == MaxEvents \in Nat /\ Plans \subseteq BOOLEAN /\ Plans # {}

Graces == {"none", "ahead", "past"}   \* a deadline

(* PaperOpenPositionRecord: what protection reads and writes.  The flags   *)
(* isProtectiveStopRegistered and isTakeProfitRegistered are set together  *)
(* with the ids, so they say no more than slId # None and tpId # None.     *)
Rows == [slId   : OrderIds \cup {None},  \* protectiveSlAlgoId
         tpId   : OrderIds \cup {None},  \* protectiveTpAlgoId
         failed : BOOLEAN,  \* isProtectionFailed
         ever   : BOOLEAN,  \* confirmedExchangeProtectionEverSeen
         grace  : Graces,   \* protectiveVisibilityGraceDeadlineMs
         young  : BOOLEAN,  \* entryProtectionUntil is ahead
         stop   : Stops,    \* stopPrice
         addon  : BOOLEAN,  \* addonRebuildRequired
         scaled : BOOLEAN,  \* lifecycleState is ADDON_ACTIVE
         taken  : BOOLEAN]  \* manualTakeoverActive, OPERATOR_MANAGED

ASSUME NoRowAssumption == NoRow \notin Rows

Modes == {"none", "tick", "trail", "watch"}   \* who called ensure
TickPCs == {"reconcile", "scan", "latch", "decide", "watch"}
EnsurePCs == {"locate", "collect", "clean", "submit", "resolve", "persist",
              "swap", "rescan", "finish", "rbCancel", "rbSubmit", "rbQuery",
              "rbRestore", "rbRequery"}

VARIABLES
    pc,        \* where the tick is
    \* ensureProtectiveStopOrderCore
    mode,      \* its caller
    work,      \* open, as the caller has it
    size,      \* contractsToProtect
    inv,       \* currentProtectiveInventory
    sl,        \* engineOwnedSl
    tp,        \* engineOwnedTp
    targets,   \* cancelTargets
    sub,       \* submittedSlAlgoId
    subTp,     \* submittedTpAlgoId
    changed,   \* modified, or ledgerRepairNeeded
    tried,     \* submittedProtective
    \* memory that lives longer
    blocked,   \* symbolProtectionFailedBlocked
    clBlocked, \* clOrdIdSubmitBlocked, for "s"
    opSeen,    \* operatorPendingOrdersBySymbol
    scanned,   \* has a scan been made, and was the last one clean?
    cache,     \* cachedOpsAlgos
    payload,   \* lastLivePositionsPayload: the contracts this tick began with
    \* a file
    row,       \* positions/open.json: the row of this leg
    \* the environment
    wants,     \* does the plan want a take-profit on the exchange?
    pos,       \* contracts of the position
    book,      \* live protective orders
    hidden,    \* those of them the list of pending orders does not show yet
    gone,      \* ended orders a lookup still returns
    left,      \* changes and faults that may still come
    dirty      \* has anything happened since the last ensure began?

ens == <<mode, work, size, inv, sl, tp, targets, sub, subTp, changed, tried>>
mem == <<blocked, clBlocked, opSeen, scanned, cache, payload>>
exch == <<book, hidden, gone>>
env == <<wants, pos, exch, left, dirty>>
vars == <<pc, ens, mem, row, env>>

-----------------------------------------------------------------------------
(* What is read off the state.                                             *)

Visible == {o \in book : o.id \notin hidden}
Live(cl) == {o \in book : o.cl = cl}

Ctx == [size |-> size, stop |-> work.stop, wants |-> wants]

(* An id nothing refers to any more; the exchange numbers orders anew.     *)
InUse == Ids(book) \cup Ids(inv) \cup Ids(cache) \cup Ids(gone) \cup targets
         \cup {sl, tp, sub, subTp}
         \cup (IF row = NoRow THEN {} ELSE {row.slId, row.tpId})
         \cup (IF work = NoRow THEN {} ELSE {work.slId, work.tpId})
FreshId(i) == i \notin InUse /\ \A j \in OrderIds : j \notin InUse => i <= j

(* A fault or a change of the environment happens.                         *)
Event(kind) == kind \in Faults /\ left > 0 /\ left' = left - 1
NoEvent == UNCHANGED left

(* The position is the operator's: isManualTakeoverActive.                 *)
TakenOver == row.taken \/ opSeen

(* buildPositionOpsSurface, findProtectiveHintsForInst: the scan shows a   *)
(* stop of the right price and size, or the ledger's own stop at the right *)
(* price and of any size (resolveLedgerCanonicalProtectiveTruth).          *)
Evidence(r) == r.slId # None /\ (wants => r.tpId # None)
FoundInLedger(seen, r) ==        \* mutant: the ids of the ledger are enough
    ~r.failed /\ Evidence(r)
FoundIn(seen, r) ==
    \/ /\ \E o \in seen : o.px = r.stop /\ o.size = payload
       /\ wants => \E o \in seen : o.kind = "oco"
    \/ /\ ~r.failed /\ Evidence(r)
       /\ \E o \in seen : /\ o.id = r.slId /\ o.px = r.stop
                          /\ wants => \E p \in seen : p.id = r.tpId /\ p.kind = "oco"

(* shouldLatchManualProtectiveOnlyIntervention                             *)
LatchDue(scan, seen, r) ==
    /\ scan = "clean" /\ seen = {}
    /\ ~r.taken
    /\ r.grace # "ahead" /\ (r.grace = "none" => ~r.young)
    /\ r.ever /\ (r.slId # None \/ r.tpId # None)

(* The whole position is covered at the price p.                           *)
StopAt(p) == \E o \in book : o.size = pos /\ o.px = p
ProfitOn  == \E o \in book : o.size = pos /\ o.kind = "oco"

-----------------------------------------------------------------------------
(* Requests to the exchange.                                               *)

(* cancelAlgoOrder                                                         *)
Remove(ids) ==
    /\ book' = {o \in book : o.id \notin ids}
    /\ hidden' = hidden \ ids
    /\ gone' = IF "deadLookup" \in Faults
               THEN LET dead == {[o EXCEPT !.live = FALSE] :
                                     o \in {p \in book : p.id \in ids /\ p.cl = "s"}}
                    IN  IF dead = {} THEN gone ELSE dead
               ELSE gone

Cancel(ids) ==
    \/ Remove(ids) /\ NoEvent
    \/ Event("cancelFail") /\ UNCHANGED exch

(* submitAlgoOrder: the exchange takes the order.  A client id may be used *)
(* again once no live order has it.                                        *)
Place(i, cl, kind) ==
    /\ Live(cl) = {}
    /\ FreshId(i)
    /\ book' = book \cup {[id |-> i, cl |-> cl, kind |-> kind, size |-> size,
                           px |-> work.stop, live |-> TRUE]}
    /\ gone' = {o \in gone : o.cl # cl}

Shown(i) == \/ NoEvent /\ UNCHANGED hidden
            \/ Event("lag") /\ hidden' = hidden \cup {i}

(* The submit is not confirmed: the exchange refuses the client id (51068),*)
(* fails, or takes the order and its answer is lost.                       *)
Refused(cl) == Live(cl) # {} /\ NoEvent /\ UNCHANGED exch
Failed(i, cl, kind) ==
    \/ Event("refused") /\ UNCHANGED exch
    \/ Event("lostAnswer") /\ Place(i, cl, kind) /\ UNCHANGED hidden

(* getOrdersAlgoPendingAll, cached for the operations watch.               *)
Scan ==
    \/ /\ cache' = Visible /\ scanned' = "clean"
       /\ opSeen' = (\E o \in Visible : ~BotOwned(o))
       /\ NoEvent
    \/ /\ Event("queryFail")
       /\ cache' = {} /\ scanned' = "error" /\ opSeen' = FALSE

-----------------------------------------------------------------------------
(* ensureProtectiveStopOrder                                               *)

Begin(caller, r) ==
    /\ pc' = "locate" /\ mode' = caller /\ work' = r /\ dirty' = FALSE
    /\ UNCHANGED <<size, inv, sl, tp, targets, sub, subTp, changed, tried>>

Forget ==
    /\ mode' = "none" /\ work' = NoRow /\ size' = 0 /\ inv' = {}
    /\ sl' = None /\ tp' = None /\ targets' = {} /\ sub' = None /\ subTp' = None
    /\ changed' = FALSE /\ tried' = FALSE

(* Back to the caller, with its success, whether the record was modified,  *)
(* the record, and the block as ensure left it.                            *)
Return(ok, modified, r, block) ==
    /\ Forget
    /\ \/ /\ mode = "tick" /\ pc' = "scan"
          /\ row' = IF modified THEN r ELSE row
          /\ blocked' = (block \/ ~ok)
       \/ /\ mode = "trail" /\ pc' = "watch"
          /\ row' = IF ok THEN r ELSE work
          /\ blocked' = block
       \/ /\ mode = "watch" /\ pc' = "reconcile"
          /\ row' = IF modified THEN r ELSE row
          /\ blocked' = ~(\/ ok /\ r.slId # None /\ ~r.failed
                          \/ Evidence(r) /\ r.grace = "ahead")

(* An early return with an unmodified record.                              *)
GiveUp(block) == Return(FALSE, FALSE, [work EXCEPT !.failed = TRUE], block)

(* Account, position, prices, trigger layout.  Two returns with success are *)
(* left out: that for a row in EXTERNAL_MANUAL_POSITION, which is not the   *)
(* engine's to protect, and that for structureBreached, a flag of the row   *)
(* that no code sets.  That for a takeover stands at the callers.           *)
Locate ==
    /\ pc = "locate"
    /\ \/ /\ pos > 0
          /\ size' = pos /\ pc' = "collect"
          /\ UNCHANGED <<mode, work, inv, sl, tp, targets, sub, subTp, changed,
                         tried, mem, row, env>>
       \/ /\ pos = 0
          /\ Return(TRUE, FALSE, work, blocked)
          /\ UNCHANGED <<clBlocked, opSeen, scanned, cache, payload, env>>
       \/ /\ Event("queryFail")
          /\ GiveUp(TRUE)
          /\ UNCHANGED <<clBlocked, opSeen, scanned, cache, payload, wants, pos,
                         exch, dirty>>

(* collectProtectiveInventoryForReconcile: pending orders, and lookups by  *)
(* the client ids the engine expects and the list does not show.  What the *)
(* plan passes over is left out.                                           *)
Inventory ==
    Untagged(Visible \cup {o \in book : o.id \in hidden /\ o.cl \in {"s", "attach"}}
                     \cup {o \in gone : Live(o.cl) = {}})

(* shouldDeferReplacementSlResubmitDuringVisibilityGrace                   *)
Deferred(s) == ~wants /\ work.grace = "ahead" /\ s # None /\ work.slId \notin {None, s}

(* resolveProtectiveExistingAlgoLedgerAdoption: ledgerRepairNeeded         *)
RepairNeeded(s, t) ==
    work.slId # s \/ work.tpId # t \/ work.failed # ~Complete(Ctx, s, t)

(* The plan.  An add-on whose rebuild is due puts the canonical orders on  *)
(* the list to cancel, and whether to submit was decided from them before. *)
Plan(i, s, t) ==
    LET add  == work.addon
        keptSl == IF add THEN None ELSE s
        keptTp == IF add THEN None ELSE t
        cancel == CancelTargets(i, Ctx, s, t)
                  \cup (IF add THEN {s, t} \ {None} ELSE {})
        need == NeedSubmit(i, Ctx, s, t) /\ ~Deferred(keptSl)
    IN  /\ sl' = keptSl /\ tp' = keptTp /\ targets' = cancel
        /\ work' = [work EXCEPT !.addon = FALSE]
        /\ changed' = RepairNeeded(keptSl, keptTp)
        /\ pc' = IF need
                 THEN IF SlOnly(Ctx, s, t) /\ ~add THEN "rbCancel" ELSE "submit"
                 ELSE IF cancel = {} THEN "finish" ELSE "clean"

Collect ==
    /\ pc = "collect"
    /\ \/ /\ inv' = Inventory
          /\ \E s \in CanonicalSl(Inventory, Ctx), t \in CanonicalTp(Inventory, Ctx) :
                Plan(Inventory, s, t)
          /\ UNCHANGED <<mode, size, sub, subTp, tried, mem, row, env>>
       \/ /\ Event("queryFail")
          /\ GiveUp(blocked)
          /\ UNCHANGED <<clBlocked, opSeen, scanned, cache, payload, wants, pos,
                         exch, dirty>>

(* isPureDuplicateCleanup: nothing to submit, orders to cancel.            *)
Clean ==
    /\ pc = "clean"
    /\ Cancel(targets)
    /\ changed' = TRUE /\ pc' = "finish"
    /\ UNCHANGED <<mode, work, size, inv, sl, tp, targets, sub, subTp, tried,
                   mem, row, wants, pos, dirty>>

WantedKind == IF wants THEN "oco" ELSE "sl"

(* The order always has the client id "s"; while that id is blocked the    *)
(* engine does not try and looks the order up instead.                     *)
Submit ==
    /\ pc = "submit"
    /\ \/ /\ clBlocked
          /\ pc' = "resolve"
          /\ UNCHANGED <<sub, subTp, changed, tried, clBlocked, exch, left>>
       \/ /\ ~clBlocked
          /\ tried' = TRUE
          /\ \/ /\ Refused("s")
                /\ pc' = "resolve"
                /\ UNCHANGED <<sub, subTp, changed, clBlocked>>
             \/ \E i \in OrderIds :
                   \/ /\ Place(i, "s", WantedKind) /\ Shown(i)
                      /\ sub' = i /\ subTp' = (IF wants THEN i ELSE None)
                      /\ changed' = TRUE /\ clBlocked' = FALSE /\ pc' = "persist"
                   \/ /\ Failed(i, "s", WantedKind)
                      /\ pc' = "rescan"
                      /\ UNCHANGED <<sub, subTp, changed, clBlocked>>
    /\ UNCHANGED <<mode, work, size, inv, sl, tp, targets, blocked, opSeen,
                   scanned, cache, payload, row, wants, pos, dirty>>

(* resolveProtective51068AfterSubmit: the order that has the client id, in *)
(* the inventory or else as a lookup finds it.  Adopted, it fills the      *)
(* slots it fits; of another size, it is cancelled at once.                *)
Found51068 == LET known == {o \in inv : o.cl = "s"}
              IN  IF known # {} THEN known ELSE Live("s") \cup gone

Resolve ==
    /\ pc = "resolve"
    /\ pc' = IF tried THEN "rescan" ELSE "finish"
    /\ \/ /\ Found51068 = {}
          /\ clBlocked' = FALSE
          /\ UNCHANGED <<sl, tp, changed, exch, left>>
       \/ \E o \in Found51068 :
             \/ /\ Resolution(o, Ctx) = "adopt"
                /\ sl' = IF SlValid(o, Ctx) THEN o.id ELSE sl
                /\ tp' = IF TpValid(o, Ctx) THEN o.id ELSE tp
                /\ clBlocked' = FALSE
                /\ UNCHANGED <<changed, exch, left>>
             \/ /\ Resolution(o, Ctx) = "stale_replace"
                /\ Cancel({o.id})
                /\ clBlocked' = FALSE /\ changed' = TRUE
                /\ UNCHANGED <<sl, tp>>
             \/ /\ Resolution(o, Ctx) \in {"blocked_existing_unresolved", "not_found"}
                /\ clBlocked' = TRUE
                /\ UNCHANGED <<sl, tp, changed, exch, left>>
       \/ /\ \A o \in inv : o.cl # "s"
          /\ Event("queryFail")
          /\ clBlocked' = TRUE
          /\ UNCHANGED <<sl, tp, changed, exch>>
    /\ UNCHANGED <<mode, work, size, inv, targets, sub, subTp, tried, blocked,
                   opSeen, scanned, cache, payload, row, wants, pos, dirty>>

(* Mutant: the old orders are cancelled though the write failed.           *)
PersistUnchecked ==
    /\ pc = "persist"
    /\ \/ /\ row' = [work EXCEPT !.slId = sub, !.ever = TRUE, !.grace = "ahead"]
          /\ work' = row' /\ NoEvent
       \/ Event("persistFail") /\ UNCHANGED <<row, work>>
    /\ changed' = TRUE
    /\ pc' = IF targets = {} THEN "rescan" ELSE "swap"
    /\ UNCHANGED <<mode, size, inv, sl, tp, targets, sub, subTp, tried, mem,
                   wants, pos, exch, dirty>>

(* preVisibilityPersistRecord: the new id is in the ledger before anything *)
(* old is cancelled.                                                       *)
Persist ==
    /\ pc = "persist"
    /\ \/ /\ row' = [work EXCEPT !.slId = sub, !.ever = TRUE, !.grace = "ahead",
                                 !.tpId = IF wants /\ subTp # None THEN subTp ELSE @]
          /\ work' = row' /\ changed' = TRUE
          /\ pc' = IF targets = {} THEN "rescan" ELSE "swap"
          /\ NoEvent
       \/ /\ Event("persistFail")
          /\ pc' = "rescan"
          /\ UNCHANGED <<row, work, changed>>
    /\ UNCHANGED <<mode, size, inv, sl, tp, targets, sub, subTp, tried, mem,
                   wants, pos, exch, dirty>>

Swap ==
    /\ pc = "swap"
    /\ Cancel(targets)
    /\ pc' = "rescan"
    /\ UNCHANGED <<ens, mem, row, wants, pos, dirty>>

(* The list of pending orders, merged over what was known before; so a row *)
(* keeps its tag.                                                          *)
Rescan ==
    /\ pc = "rescan"
    /\ pc' = "finish"
    /\ \/ /\ \E s \in CanonicalSl(inv \cup Untagged(Visible), Ctx),
                t \in CanonicalTp(inv \cup Untagged(Visible), Ctx) :
                /\ sl' = IF s = None THEN sl ELSE s
                /\ tp' = IF t = None THEN tp ELSE t
          /\ NoEvent
       \/ Event("queryFail") /\ UNCHANGED <<sl, tp>>
    /\ UNCHANGED <<mode, work, size, inv, targets, sub, subTp, changed, tried,
                   mem, row, wants, pos, exch, dirty>>

(* Final state evaluation.  Inside the grace period an id the engine has   *)
(* just submitted, or the ledger's, stands for an order not seen yet.  A   *)
(* deadline that is over is not renewed if the ledger could not be written.*)
InsideGrace == IF sub # None THEN work.grace # "past" ELSE work.grace = "ahead"
Provisional(found, submitted, ledger) ==
    IF found # None \/ ~InsideGrace THEN None
    ELSE IF submitted # None THEN submitted ELSE ledger
ProvSl == Provisional(sl, sub, work.slId)
ProvTp == IF wants THEN Provisional(tp, subTp, work.tpId) ELSE None
FinalSl == IF sl # None THEN sl ELSE ProvSl
FinalTp == IF tp # None THEN tp ELSE ProvTp
Success == Complete(Ctx, FinalSl, FinalTp)

Finish ==
    /\ pc = "finish"
    /\ Return(Success, changed,
              [work EXCEPT !.slId = FinalSl, !.tpId = FinalTp, !.failed = ~Success,
                           !.ever = @ \/ FinalSl # None,
                           !.grace = IF ProvSl # None \/ ProvTp # None
                                     THEN "ahead" ELSE "none"],
              ~Success)
    /\ UNCHANGED <<clBlocked, opSeen, scanned, cache, payload, env>>
-----------------------------------------------------------------------------
(* executeSlOnlyOcoRebuildTransaction: the stop has no take-profit, and a  *)
(* second order for the whole position is not allowed, so the old one is   *)
(* cancelled first.                                                        *)

HardBlock == GiveUp(TRUE)

Replan(i) ==
    /\ inv' = i
    /\ sl' \in CanonicalSl(i, Ctx)
    /\ tp' \in CanonicalTp(i, Ctx)

RbCancel ==
    /\ pc = "rbCancel"
    /\ tried' = TRUE
    /\ \/ /\ Remove({sl}) /\ NoEvent
          /\ inv' = {o \in inv : o.id # sl}
          /\ pc' = "rbSubmit"
          /\ UNCHANGED sub
       \/ /\ Event("cancelFail")
          /\ sub' = sl
          /\ pc' = "persist"
          /\ UNCHANGED <<inv, exch>>
    /\ UNCHANGED <<mode, work, size, sl, tp, targets, subTp, changed, mem, row,
                   wants, pos, dirty>>

RbSubmit ==
    /\ pc = "rbSubmit"
    /\ pc' = "rbQuery"
    /\ \/ Refused("s") /\ UNCHANGED sub
       \/ \E i \in OrderIds :
             \/ Place(i, "s", "oco") /\ Shown(i) /\ sub' = i
             \/ Failed(i, "s", "oco") /\ UNCHANGED sub
    /\ UNCHANGED <<mode, work, size, inv, sl, tp, targets, subTp, changed, tried,
                   mem, row, wants, pos, dirty>>

(* What the exchange holds is judged with the tagged rows, the plan is not.*)
RbQuery ==
    /\ pc = "rbQuery"
    /\ \/ \E f \in TruthSl(inv \cup Visible, Ctx) :
             /\ NoEvent
             /\ \/ /\ TruthComplete(inv \cup Visible, Ctx, f)
                   /\ Replan(Untagged(inv \cup Visible))
                   /\ sub' = (IF sub = None THEN f ELSE sub) /\ subTp' = f
                   /\ changed' = TRUE /\ pc' = "persist"
                \/ /\ ~TruthComplete(inv \cup Visible, Ctx, f)
                   /\ inv' = inv \cup Visible /\ sub' = None
                   /\ pc' = "rbRestore"
                   /\ UNCHANGED <<sl, tp, subTp, changed>>
       \/ /\ Event("queryFail")
          /\ inv' = {} /\ sub' = None
          /\ pc' = "rbRestore"
          /\ UNCHANGED <<sl, tp, subTp, changed>>
    /\ UNCHANGED <<mode, work, size, targets, tried, mem, row, wants, pos, exch,
                   dirty>>

RbRestore ==
    /\ pc = "rbRestore"
    /\ \/ \E i \in OrderIds :
             /\ Place(i, "rst", "sl") /\ Shown(i)
             /\ pc' = "rbRequery"
             /\ UNCHANGED <<ens, row, blocked>>
       \/ /\ \/ Refused("rst")
             \/ \E i \in OrderIds : Failed(i, "rst", "sl")
          /\ HardBlock
    /\ UNCHANGED <<clBlocked, opSeen, scanned, cache, payload, wants, pos, dirty>>

(* The list alone carries no tags; if it cannot be had, what was known does.*)
Restored(seen, planned) ==
    \E f \in TruthSl(seen, Ctx) :
       \/ /\ f # None
          /\ Replan(planned)
          /\ sub' = f /\ pc' = "persist"
          /\ UNCHANGED <<mode, work, size, targets, subTp, changed, tried, row, blocked>>
       \/ f = None /\ HardBlock

RbRequery ==
    /\ pc = "rbRequery"
    /\ \/ NoEvent /\ Restored(Visible, Visible)
       \/ Event("queryFail") /\ Restored(inv, Untagged(inv))
    /\ UNCHANGED <<clBlocked, opSeen, scanned, cache, payload, wants, pos, exch,
                   dirty>>

Ensure ==
    \/ Locate \/ Collect \/ Clean \/ Submit \/ Resolve \/ Persist \/ Swap
    \/ Rescan \/ Finish
    \/ RbCancel \/ RbSubmit \/ RbQuery \/ RbRestore \/ RbRequery

-----------------------------------------------------------------------------
(* The tick.                                                               *)

(* reconcileOpenPositions.  A row in ADDON_ACTIVE is none of those it      *)
(* looks at more closely; neither is one the operator manages.             *)
Reconcile ==
    /\ pc = "reconcile" /\ row # NoRow
    /\ payload' = pos
    /\ \/ /\ pos = 0
          /\ row' = NoRow /\ blocked' = FALSE /\ clBlocked' = FALSE
          /\ UNCHANGED <<pc, ens, dirty>>
       \/ /\ pos > 0
          /\ row.scaled \/ TakenOver \/ "slowReconcile" \in Faults
          /\ pc' = "scan"
          /\ UNCHANGED <<ens, row, blocked, clBlocked, dirty>>
       \/ /\ pos > 0 /\ ~row.scaled /\ ~TakenOver
          /\ Begin("tick", row)
          /\ UNCHANGED <<row, blocked, clBlocked>>
    /\ UNCHANGED <<opSeen, scanned, cache, wants, pos, exch, left>>

(* refreshPendingOrdersSnapshot                                            *)
ScanOrders ==
    /\ pc = "scan"
    /\ pc' = "latch"
    /\ \/ Scan
       \/ /\ "staleScan" \in Faults /\ scanned # "no"
          /\ UNCHANGED <<cache, scanned, opSeen, left>>
    /\ UNCHANGED <<ens, blocked, clBlocked, payload, row, wants, pos, exch, dirty>>

(* activateManualTakeover: written down, and then the engine's conditional *)
(* orders are cancelled, those the list of conditional orders shows.       *)
TakeOver ==
    /\ row' = [row EXCEPT !.taken = TRUE]
    /\ Cancel(Ids({o \in Visible : BotOwned(o) /\ o.kind = "sl"}))

(* latchManualProtectiveInterventionsFromExchangeScan                      *)
Latch ==
    /\ pc = "latch"
    /\ pc' = "decide"
    /\ IF payload > 0 /\ ~TakenOver /\ LatchDue(scanned, cache, row)
       THEN TakeOver
       ELSE /\ row' = [row EXCEPT !.ever = @ \/ ( payload > 0 /\ ~TakenOver
                                                /\ FoundIn(cache, row))]
            /\ UNCHANGED <<exch, left>>
    /\ UNCHANGED <<ens, mem, wants, pos, dirty>>

(* The close pass raises the stop, and ensures it if the position is the   *)
(* engine's to manage; or an add-on is filled and written to the ledger,   *)
(* with the stop its decision asks for or the old one; or neither.         *)
Decide ==
    /\ pc = "decide"
    /\ \/ /\ pc' = "watch"
          /\ UNCHANGED <<ens, row, pos, left, dirty>>
       \/ /\ Event("trail") /\ row.stop < MaxStop
          /\ LET raised == [row EXCEPT !.stop = @ + 1]
             IN  \/ /\ ~TakenOver /\ Begin("trail", raised)
                    /\ UNCHANGED <<row, pos>>
                 \/ /\ TakenOver /\ row' = raised /\ pc' = "watch"
                    /\ UNCHANGED <<ens, pos, dirty>>
       \/ /\ Event("addon") /\ pos > 0 /\ pos < MaxSize /\ ~blocked /\ ~TakenOver
          /\ pos' = pos + 1
          /\ \E p \in Stops :
                row' = [row EXCEPT !.addon = TRUE, !.scaled = TRUE, !.stop = p]
          /\ pc' = "watch" /\ dirty' = TRUE
          /\ UNCHANGED ens
    /\ UNCHANGED <<mem, wants, exch>>

(* runPositionOperationsWatch.  It scans again if that is due.  A position *)
(* found protected is unblocked; one that is not is ensured, unless it is, *)
(* or now becomes, the operator's.                                         *)
Watch ==
    /\ pc = "watch"
    /\ \/ UNCHANGED <<cache, scanned, opSeen, left>>
       \/ Scan
    /\ LET found == FoundIn(cache', row)
           operators == row.taken \/ opSeen'
       IN  \/ /\ payload = 0
              /\ pc' = "reconcile"
              /\ UNCHANGED <<ens, row, blocked, exch, dirty>>
           \/ /\ payload > 0 /\ operators
              /\ pc' = "reconcile"
              /\ row' = [row EXCEPT !.taken = TRUE]
              /\ blocked' = (blocked /\ ~found)
              /\ UNCHANGED <<ens, exch, dirty>>
           \/ /\ payload > 0 /\ ~operators /\ found
              /\ pc' = "reconcile"
              /\ row' = [row EXCEPT !.ever = TRUE]
              /\ blocked' = FALSE
              /\ UNCHANGED <<ens, exch, dirty>>
           \/ /\ payload > 0 /\ ~operators /\ LatchDue(scanned', cache', row)
              /\ pc' = "reconcile"
              /\ row' = [row EXCEPT !.taken = TRUE]
              /\ \/ Remove(Ids({o \in Visible : BotOwned(o) /\ o.kind = "sl"}))
                 \/ "cancelFail" \in Faults /\ UNCHANGED exch
              /\ UNCHANGED <<ens, blocked, dirty>>
           \/ /\ payload > 0 /\ ~operators /\ ~found
              /\ ~LatchDue(scanned', cache', row)
              /\ Begin("watch", row)
              /\ UNCHANGED <<row, blocked, exch>>
    /\ UNCHANGED <<clBlocked, payload, wants, pos>>

Tick == Reconcile \/ ScanOrders \/ Latch \/ Decide \/ Watch

-----------------------------------------------------------------------------
(* The environment.                                                        *)

(* An accepted order appears in the list of pending orders.                *)
Appear ==
    /\ \E i \in hidden : hidden' = hidden \ {i}
    /\ UNCHANGED <<pc, ens, mem, row, wants, pos, book, gone, left, dirty>>

(* The grace period ends, between two ticks: at 30 seconds it is longer    *)
(* than a tick and the time orders take to appear; or the first two        *)
(* minutes of the position do.                                             *)
GraceExpires ==
    /\ pc = "reconcile" /\ row # NoRow
    /\ \/ row.grace = "ahead" /\ hidden = {} /\ row' = [row EXCEPT !.grace = "past"]
       \/ row.young /\ row' = [row EXCEPT !.young = FALSE]
    /\ UNCHANGED <<pc, ens, mem, env>>

(* Fills and reduces the engine did not ask for here.                      *)
Resize ==
    /\ Event("resize") /\ pos > 0
    /\ \E n \in Sizes \ {pos} : pos' = n
    /\ dirty' = TRUE
    /\ UNCHANGED <<pc, ens, mem, row, wants, exch>>

(* The position is closed: one of the orders triggers, or something else   *)
(* closes it.                                                              *)
GoFlat ==
    /\ Event("flat") /\ pos > 0
    /\ pos' = 0
    /\ \/ \E o \in book : Remove({o.id})
       \/ UNCHANGED exch
    /\ dirty' = TRUE
    /\ UNCHANGED <<pc, ens, mem, row, wants>>

OperatorPlaces ==
    /\ Event("operatorPlaces") /\ Live("op") = {} /\ pos > 0
    /\ \E i \in OrderIds, k \in Kinds, n \in Sizes, p \in Stops :
          /\ FreshId(i)
          /\ book' = book \cup {[id |-> i, cl |-> "op", kind |-> k, size |-> n,
                                 px |-> p, live |-> TRUE]}
    /\ dirty' = TRUE
    /\ UNCHANGED <<pc, ens, mem, row, wants, pos, hidden, gone>>

OperatorCancels ==
    /\ Event("operatorCancels")
    /\ \E o \in book : Remove({o.id})
    /\ dirty' = TRUE
    /\ UNCHANGED <<pc, ens, mem, row, wants, pos>>

(* The process dies and starts again: memory and the ensure are lost.      *)
Crash ==
    /\ Event("crash")
    /\ pc' = "reconcile" /\ Forget
    /\ blocked' = FALSE /\ clBlocked' = FALSE /\ opSeen' = FALSE
    /\ scanned' = "no" /\ cache' = {} /\ payload' = 0
    /\ dirty' = TRUE
    /\ UNCHANGED <<row, wants, pos, exch>>

Environment ==
    \/ Appear \/ GraceExpires \/ Resize \/ GoFlat
    \/ OperatorPlaces \/ OperatorCancels \/ Crash

(* The row left the ledger and nothing is left to do.                      *)
Over == row = NoRow /\ UNCHANGED vars

-----------------------------------------------------------------------------
(* A position that was just entered, unprotected or with an order attached *)
(* to its entry.                                                           *)

NewRow == [slId |-> None, tpId |-> None, failed |-> FALSE, ever |-> FALSE,
           grace |-> "none", young |-> TRUE, stop |-> 1, addon |-> FALSE, scaled |-> FALSE,
           taken |-> FALSE]
Attached(c, k) == [id |-> 1, cl |-> c, kind |-> k, size |-> 1, px |-> 1,
                   live |-> TRUE]

Init ==
    /\ pc = "reconcile" /\ row = NewRow /\ wants \in Plans /\ pos = 1
    /\ mode = "none" /\ work = NoRow /\ size = 0 /\ inv = {}
    /\ sl = None /\ tp = None /\ targets = {} /\ sub = None /\ subTp = None
    /\ changed = FALSE /\ tried = FALSE
    /\ blocked = FALSE /\ clBlocked = FALSE /\ opSeen = FALSE
    /\ scanned = "no" /\ cache = {} /\ payload = 0
    /\ book \in {{}} \cup {{Attached(c, k)} : c \in {"attach", "entry"}, k \in Kinds}
    /\ hidden = {} /\ gone = {} /\ left = MaxEvents
    /\ dirty = TRUE

Next == Ensure \/ Tick \/ Environment \/ Over

Spec == Init /\ [][Next]_vars

-----------------------------------------------------------------------------
TypeOK ==
    /\ pc \in TickPCs \cup EnsurePCs
    /\ mode \in Modes /\ work \in Rows \cup {NoRow} /\ size \in Sizes \cup {0}
    /\ inv \in SUBSET Orders
    /\ sl \in OrderIds \cup {None} /\ tp \in OrderIds \cup {None}
    /\ targets \in SUBSET OrderIds
    /\ sub \in OrderIds \cup {None} /\ subTp \in OrderIds \cup {None}
    /\ changed \in BOOLEAN /\ tried \in BOOLEAN
    /\ blocked \in BOOLEAN /\ clBlocked \in BOOLEAN /\ opSeen \in BOOLEAN
    /\ scanned \in {"no", "clean", "error"} /\ cache \in SUBSET Orders
    /\ payload \in Sizes \cup {0}
    /\ row \in Rows \cup {NoRow}
    /\ wants \in BOOLEAN /\ pos \in Sizes \cup {0}
    /\ book \in SUBSET Orders /\ hidden \in SUBSET OrderIds
    /\ gone \in SUBSET Orders /\ left \in Nat
    /\ dirty \in BOOLEAN

-----------------------------------------------------------------------------
(* What protection promises.                                               *)

(* An ensure that reports success, and not on the strength of an id it has *)
(* not seen yet, leaves an order for the whole position at the planned     *)
(* stop on the exchange, with the take-profit if there is to be one;       *)
(* whatever queries, submits, cancels or writes failed on the way.         *)
SuccessIsReal ==
    pc = "finish" /\ Success /\ ProvSl = None /\ ~dirty =>
        StopAt(work.stop) /\ (wants /\ ProvTp = None => ProfitOn)

(* When a tick is over and nothing has happened since its last ensure      *)
(* began, new entries of the symbol are blocked if the exchange holds no   *)
(* stop at the ledger's price, unless the ledger gave an accepted order    *)
(* time to appear.                                                         *)
NakedIsBlocked ==
    pc = "reconcile" /\ ~dirty /\ row # NoRow /\ pos > 0 /\ ~row.taken
      /\ (\A o \in book : o.px # row.stop)
        => blocked \/ row.grace # "none"

(* Old orders are only cancelled for a new one when the ledger on disk     *)
(* names the new one, so that a crash between the two loses neither.       *)
SwapIsDurable ==
    pc = "swap" => sub # None /\ row # NoRow /\ row.slId = sub

(* No request of ensure takes the last stop that fits the position off the *)
(* exchange, only the rebuild that has to cancel it first.                 *)
CoverKept ==
    [][(Ensure /\ pc # "rbCancel" /\ ~dirty /\ StopAt(work.stop))
       => (\E o \in book' : o.size = pos /\ o.px = work.stop)]_vars

(* The engine leaves the orders of the operator alone, whenever they are   *)
(* placed; the rebuild, and that of an add-on, may adopt and cancel one.   *)
OperatorOrdersKept ==
    [][(/\ Ensure \/ Tick
        /\ pc # "rbCancel" /\ row # NoRow /\ ~row.scaled)
       => (\A o \in Live("op") : o \in book')]_vars

-----------------------------------------------------------------------------
(* The loop keeps running, accepted orders appear, and time passes: every  *)
(* deadline is over in the end although ticks come in between.             *)
FairSpec ==
    /\ Spec
    /\ WF_vars(Ensure \/ Tick)
    /\ WF_vars(Appear)
    /\ SF_vars(GraceExpires)

(* Once nothing more fails or changes, the position ends covered at its    *)
(* size and stop and its symbol unblocked, for ever, unless it is gone or  *)
(* the operator's.                                                         *)
ProtectionRecovers ==
    <>[](row = NoRow \/ row.taken
         \/ (StopAt(row.stop) /\ (wants => ProfitOn) /\ ~blocked))
=============================================================================

------------------------ MODULE OperatorOrdersProofs ------------------------
(* The engine leaves the operator's protective orders alone, for every     *)
(* size of position, number of stops, orders and faults.                   *)
EXTENDS ProtectionProofs

-----------------------------------------------------------------------------
(* An id names orders of one family, among the live orders, those that     *)
(* ensure holds in memory, and the ended ones a lookup still returns.      *)

Known == book \cup inv \cup gone
OneFamily == \A o, p \in Known : o.id = p.id => o.cl = p.cl

LEMMA CopiesFamily ==
    ASSUME OneFamily, \A o \in Known' : \E p \in Known : p.id = o.id /\ p.cl = o.cl
    PROVE  OneFamily'
    BY DEF OneFamily

LEMMA StillFamily ==
    ASSUME OneFamily, UNCHANGED exch, inv' \subseteq Known PROVE OneFamily'
    BY CopiesFamily DEF Known, exch

LEMMA RemoveFamily ==
    ASSUME OneFamily, ExchTyped, NEW ids, Remove(ids), inv' \subseteq Known PROVE OneFamily'
  <1> DEFINE dead == {[o EXCEPT !.live = FALSE] :
                          o \in {p \in book : p.id \in ids /\ p.cl = "s"}}
  <1>1. book' \subseteq book /\ (gone' = gone \/ gone' = dead)
    BY DEF Remove
  <1>2. \A o \in dead : \E p \in book : p.id = o.id /\ p.cl = o.cl
    BY DEF Orders, ExchTyped
  <1> QED BY <1>1, <1>2, CopiesFamily DEF Known

LEMMA CancelFamily ==
    ASSUME OneFamily, ExchTyped, NEW ids, Cancel(ids), inv' \subseteq Known PROVE OneFamily'
    BY RemoveFamily, StillFamily DEF Cancel

LEMMA PlaceFamily ==
    ASSUME OneFamily, NEW i, NEW cl, NEW kind, Place(i, cl, kind), inv' \subseteq inv
    PROVE  OneFamily'
  <1> DEFINE new == [id |-> i, cl |-> cl, kind |-> kind, size |-> size,
                     px |-> work.stop, live |-> TRUE]
  <1>1. book' = book \cup {new} /\ gone' \subseteq gone
    BY DEF Place
  <1>2. \A o \in Known : o.id # i
    BY DEF Place, FreshId, InUse, Ids, Known
  <1>3. Known' \subseteq Known \cup {new}
    BY <1>1 DEF Known
  <1> QED BY <1>2, <1>3 DEF OneFamily

LEMMA SentFamily ==
    ASSUME OneFamily, NEW i, NEW cl, NEW kind, inv' \subseteq inv,
           (Place(i, cl, kind) /\ Shown(i)) \/ Failed(i, cl, kind) \/ Refused(cl)
    PROVE  OneFamily'
    BY PlaceFamily, StillFamily DEF Failed, Refused, Known

LEMMA EnsureFamily == ASSUME OneFamily, ExchTyped, Ensure PROVE OneFamily'
  <1>1. CASE Locate \/ Collect
    <2>1. UNCHANGED exch
      BY <1>1 DEF Locate, Collect, env, exch
    <2>2. inv' \subseteq Known
      BY <1>1, ForgotInventory
      DEF Locate, Collect, Known, Inventory, Visible, Untagged, GiveUp, Return
    <2> QED BY <2>1, <2>2, StillFamily
  <1>2. CASE Clean \/ Swap
    BY <1>2, CancelFamily DEF Clean, Swap, Known, ens
  <1>3. CASE Submit
    <2>1. inv' = inv
      BY <1>3 DEF Submit
    <2>2. CASE clBlocked
      BY <1>3, <2>1, <2>2, StillFamily DEF Submit, Known
    <2>3. CASE ~clBlocked
      BY <1>3, <2>1, <2>3, SentFamily DEF Submit
    <2> QED BY <2>2, <2>3
  <1>4. CASE Resolve
    BY <1>4, CancelFamily, StillFamily DEF Resolve, Known
  <1>5. CASE Persist \/ Rescan
    BY <1>5, StillFamily DEF Persist, Rescan, Known
  <1>6. CASE Finish
    BY <1>6, ForgotInventory, StillFamily DEF Finish, Return, env, Known
  <1>7. CASE RbCancel
    BY <1>7, RemoveFamily, StillFamily DEF RbCancel, Known
  <1>8. CASE RbSubmit
    BY <1>8, SentFamily DEF RbSubmit
  <1>9. CASE RbQuery
    BY <1>9, StillFamily, UntaggedFewer DEF RbQuery, Replan, Known, Visible
  <1>10. CASE RbRestore
    <2>1. inv' \subseteq inv
      BY <1>10, ForgotInventory DEF RbRestore, HardBlock, GiveUp, Return, ens
    <2> QED BY <1>10, <2>1, SentFamily DEF RbRestore
  <1>11. CASE RbRequery
    <2>1. inv' \subseteq Known
      BY <1>11, ForgotInventory, RequeryReads
      DEF Requeried, Restored, Replan, HardBlock, GiveUp, Return, Known, Visible
    <2>2. UNCHANGED exch
      BY <1>11 DEF RbRequery
    <2> QED BY <2>1, <2>2, StillFamily
  <1> QED BY <1>1, <1>2, <1>3, <1>4, <1>5, <1>6, <1>7, <1>8, <1>9, <1>10, <1>11 DEF Ensure

LEMMA TickFamily == ASSUME OneFamily, ExchTyped, Tick PROVE OneFamily'
  <1>1. inv' = inv
    BY DEF Tick, Reconcile, ScanOrders, Latch, Decide, Watch, Begin, ens
  <1>2. UNCHANGED exch \/ \E ids : Cancel(ids) \/ Remove(ids)
    BY DEF Tick, Reconcile, ScanOrders, Latch, TakeOver, Decide, Watch
  <1> QED BY <1>1, <1>2, CancelFamily, RemoveFamily, StillFamily DEF Known

LEMMA EnvironmentFamily == ASSUME OneFamily, ExchTyped, Environment PROVE OneFamily'
  <1>1. CASE Appear \/ GraceExpires
    BY <1>1, CopiesFamily DEF Appear, GraceExpires, Known, ens, env, exch
  <1>2. CASE Resize
    BY <1>2, StillFamily DEF Resize, Known, ens
  <1>3. CASE GoFlat
    BY <1>3, RemoveFamily, StillFamily DEF GoFlat, Known, ens
  <1>4. CASE OperatorCancels
    BY <1>4, RemoveFamily DEF OperatorCancels, Known, ens
  <1>5. CASE OperatorPlaces
    <2>1. PICK i \in OrderIds, k \in Kinds, n \in Sizes, p \in Stops :
             /\ FreshId(i)
             /\ book' = book \cup {[id |-> i, cl |-> "op", kind |-> k, size |-> n,
                                    px |-> p, live |-> TRUE]}
      BY <1>5 DEF OperatorPlaces
    <2>2. \A o \in Known : o.id # i
      BY <2>1 DEF FreshId, InUse, Ids, Known
    <2>3. inv' = inv /\ gone' = gone
      BY <1>5 DEF OperatorPlaces, ens
    <2>4. Known' = Known \cup {[id |-> i, cl |-> "op", kind |-> k, size |-> n,
                                px |-> p, live |-> TRUE]}
      BY <2>1, <2>3 DEF Known
    <2> QED BY <2>2, <2>4 DEF OneFamily
  <1>6. CASE Crash
    BY <1>6, ForgotInventory, StillFamily DEF Crash
  <1> QED BY <1>1, <1>2, <1>3, <1>4, <1>5, <1>6 DEF Environment

LEMMA NextFamily == Shape /\ OneFamily /\ [Next]_vars => OneFamily'
  <1>1. ASSUME OneFamily, UNCHANGED vars PROVE OneFamily'
    BY <1>1, StillFamily DEF vars, env, ens, Known
  <1>2. Shape => ExchTyped
    BY PartsOfShape DEF Parts, EnvTyped
  <1> QED BY <1>1, <1>2, EnsureFamily, TickFamily, EnvironmentFamily DEF Next, Over

-----------------------------------------------------------------------------
(* No order of the operator is on a list to cancel, unless an add-on was   *)
(* filled, whose rebuild cancels whatever order the plan adopted.          *)

Spared == \A o \in Live("op") : o.id \notin targets
AddonScales(r) == r.addon => r.scaled

Apart ==
    /\ OneFamily
    /\ row \in Rows => (~row.scaled => Spared) /\ AddonScales(row)
    /\ pc \in EnsurePCs => AddonScales(work) /\ work.scaled = row.scaled

(* A step of ensure that neither plans nor returns.                        *)
LEMMA OngoingApart ==
    ASSUME Shape, Apart, OneFamily', pc \in EnsurePCs,
           UNCHANGED <<targets, work, row>>, Live("op")' \subseteq Live("op")
    PROVE  Apart'
  <1>1. row \in Rows
    BY PartsOfShape DEF InHand, EnsurePCs
  <1> QED BY <1>1 DEF Apart, Spared

LEMMA ReturnedApart ==
    ASSUME Shape, Apart, OneFamily', pc \in EnsurePCs, NEW ok, NEW m, NEW b,
           NEW r, r.addon = work.addon, r.scaled = work.scaled, Return(ok, m, r, b)
    PROVE  Apart'
  <1>1. row \in Rows /\ work \in Rows
    BY PartsOfShape DEF InHand, EnsurePCs
  <1>2. targets' = {} /\ pc' \notin EnsurePCs
    BY DEF Return, Forget, EnsurePCs
  <1>3. row' \in {row, r, work}
    BY DEF Return
  <1>4. AddonScales(row')
    BY <1>1, <1>3 DEF Apart, AddonScales
  <1> QED BY <1>2, <1>4 DEF Apart, Spared

LEMMA GaveUpApart ==
    ASSUME Shape, Apart, OneFamily', pc \in EnsurePCs, NEW b, GiveUp(b) PROVE Apart'
  <1>1. work \in Rows
    BY PartsOfShape DEF InHand, EnsurePCs
  <1>2. [work EXCEPT !.failed = TRUE].addon = work.addon
        /\ [work EXCEPT !.failed = TRUE].scaled = work.scaled
    BY <1>1 DEF Rows
  <1> QED BY <1>2, ReturnedApart DEF GiveUp

(* What a request can do to the orders of the operator.                    *)
LEMMA RemoveOps == ASSUME NEW ids, Remove(ids) PROVE Live("op")' \subseteq Live("op")
    BY DEF Remove, Live

LEMMA SentOps ==
    ASSUME NEW i, NEW cl, cl # "op", NEW kind,
           (Place(i, cl, kind) /\ Shown(i)) \/ Failed(i, cl, kind) \/ Refused(cl)
    PROVE  Live("op")' = Live("op")
  <1>1. book' = book \/ \E o : o.cl = cl /\ book' = book \cup {o}
    BY DEF Place, Failed, Refused, exch
  <1> QED BY <1>1 DEF Live

LEMMA CollectApart == ASSUME Shape, Apart, OneFamily', Collect PROVE Apart'
  <1>1. row \in Rows /\ work \in Rows /\ pc \in EnsurePCs
    BY PartsOfShape DEF InHand, Collect, EnsurePCs
  <1>2. CASE /\ \E s \in CanonicalSl(Inventory, Ctx), t \in CanonicalTp(Inventory, Ctx) :
                   Plan(Inventory, s, t)
             /\ UNCHANGED <<row, env>>
    <2>1. PICK s, t : Plan(Inventory, s, t)
      BY <1>2
    <2>2. AddonScales(work)' /\ work'.scaled = row'.scaled
      BY <1>1, <1>2, <2>1 DEF Plan, Apart, AddonScales, Rows
    <2>3. ASSUME ~row.scaled PROVE Spared'
      <3>1. ~work.addon
        BY <1>1, <2>3 DEF Apart, AddonScales
      <3>2. targets' = CancelTargets(Inventory, Ctx, s, t)
        BY <2>1, <3>1 DEF Plan
      <3>3. \A i \in targets' : \E o \in Inventory : o.id = i /\ o.cl # "op"
        BY <3>2 DEF CancelTargets, BotOwned
      <3>4. Inventory \subseteq Known /\ Live("op") \subseteq Known
        BY DEF Inventory, Visible, Untagged, Known, Live
      <3>5. \A o \in Live("op") : o.id \notin targets'
        BY <3>3, <3>4 DEF Apart, OneFamily, Live
      <3> QED BY <1>2, <3>5 DEF Spared, Live, env, exch
    <2> QED BY <1>2, <2>2, <2>3 DEF Apart
  <1>3. CASE GiveUp(blocked)
    BY <1>1, <1>3, GaveUpApart
  <1> QED BY <1>2, <1>3 DEF Collect

LEMMA PersistApart == ASSUME Shape, Apart, OneFamily', Persist PROVE Apart'
  <1>1. row \in Rows /\ work \in Rows /\ pc \in EnsurePCs
    BY PartsOfShape DEF InHand, Persist, EnsurePCs
  <1>2. targets' = targets /\ Live("op")' = Live("op")
    BY DEF Persist, Live, exch
  <1>3. CASE UNCHANGED <<row, work>>
    BY <1>1, <1>2, <1>3, OngoingApart
  <1>4. CASE /\ row' = [work EXCEPT !.slId = sub, !.ever = TRUE, !.grace = "ahead",
                                    !.tpId = IF wants /\ subTp # None THEN subTp ELSE @]
             /\ work' = row'
    <2>1. row'.addon = work.addon /\ row'.scaled = work.scaled
      BY <1>1, <1>4 DEF Rows
    <2> QED BY <1>1, <1>2, <1>4, <2>1 DEF Apart, Spared, AddonScales
  <1> QED BY <1>3, <1>4 DEF Persist

LEMMA FinishApart == ASSUME Shape, Apart, OneFamily', Finish PROVE Apart'
  <1>1. work \in Rows /\ pc \in EnsurePCs
    BY PartsOfShape DEF InHand, Finish, EnsurePCs
  <1> DEFINE seen == work.ever \/ FinalSl # None
             failed == ~Success
             given == IF ProvSl # None \/ ProvTp # None THEN "ahead" ELSE "none"
             r == [work EXCEPT !.slId = FinalSl, !.tpId = FinalTp, !.failed = failed,
                               !.ever = seen, !.grace = given]
  <1>2. Return(Success, changed, r, ~Success)
    BY DEF Finish
  <1> HIDE DEF seen, failed, given
  <1>3. r.addon = work.addon /\ r.scaled = work.scaled
    BY <1>1 DEF Rows
  <1> HIDE DEF r
  <1> QED BY <1>1, <1>2, <1>3, ReturnedApart

LEMMA EnsureApart == ASSUME Shape, Apart, OneFamily', Ensure PROVE Apart'
  <1>1. pc \in EnsurePCs
    BY DEF Ensure, Locate, Collect, Clean, Submit, Resolve, Persist, Swap, Rescan, Finish,
       RbCancel, RbSubmit, RbQuery, RbRestore, RbRequery, EnsurePCs
  <1>2. CASE Locate
    <2>1. CASE Return(TRUE, FALSE, work, blocked)
      BY <1>1, <2>1, ReturnedApart
    <2>2. CASE GiveUp(TRUE)
      BY <1>1, <2>2, GaveUpApart
    <2>3. CASE UNCHANGED <<work, targets, row, env>>
      BY <1>1, <2>3, OngoingApart DEF Live, env, exch
    <2> QED BY <1>2, <2>1, <2>2, <2>3 DEF Locate
  <1>3. CASE Clean \/ Swap \/ Resolve
    <2>1. UNCHANGED <<targets, work, row>>
      BY <1>3 DEF Clean, Swap, Resolve, ens
    <2>2. Live("op")' \subseteq Live("op")
      BY <1>3, RemoveOps DEF Clean, Swap, Resolve, Cancel, Live, exch
    <2> QED BY <1>1, <2>1, <2>2, OngoingApart
  <1>4. CASE Submit \/ RbSubmit
    <2>1. UNCHANGED <<targets, work, row>>
      BY <1>4 DEF Submit, RbSubmit
    <2>2. Live("op")' \subseteq Live("op")
      BY <1>4, SentOps DEF Submit, RbSubmit, Live, exch
    <2> QED BY <1>1, <2>1, <2>2, OngoingApart
  <1>5. CASE Rescan \/ RbQuery
    BY <1>1, <1>5, OngoingApart DEF Rescan, RbQuery, Live, exch
  <1>6. CASE RbCancel
    <2>1. Live("op")' \subseteq Live("op")
      BY <1>6, RemoveOps DEF RbCancel, Live, exch
    <2> QED BY <1>1, <1>6, <2>1, OngoingApart DEF RbCancel
  <1>7. CASE RbRestore
    <2>1. CASE HardBlock
      BY <1>1, <2>1, GaveUpApart DEF HardBlock
    <2>2. CASE UNCHANGED <<ens, row>>
      <3>1. Live("op")' \subseteq Live("op")
        BY <1>7, SentOps DEF RbRestore
      <3> QED BY <1>1, <2>2, <3>1, OngoingApart DEF ens
    <2> QED BY <1>7, <2>1, <2>2 DEF RbRestore
  <1>8. CASE RbRequery
    <2>1. CASE HardBlock
      BY <1>1, <2>1, GaveUpApart DEF HardBlock
    <2>2. CASE UNCHANGED <<work, targets, row>>
      BY <1>1, <1>8, <2>2, OngoingApart DEF RbRequery, Live, exch
    <2> QED BY <1>8, <2>1, <2>2 DEF RbRequery, Restored
  <1> QED
    BY <1>2, <1>3, <1>4, <1>5, <1>6, <1>7, <1>8, CollectApart, PersistApart, FinishApart
    DEF Ensure

(* A step of the tick.                                                     *)
LEMMA TickedApart ==
    ASSUME Apart, OneFamily', row \in Rows, row' \in Rows, targets' = targets,
           Live("op")' \subseteq Live("op"),
           AddonScales(row'), row.scaled => row'.scaled,
           \/ pc' \in TickPCs
           \/ pc' = "locate" /\ AddonScales(work') /\ work'.scaled = row'.scaled
    PROVE  Apart'
    BY DEF Apart, Spared, AddonScales, TickPCs, EnsurePCs

(* A row the tick has changed.                                             *)
LEMMA RowFlags ==
    ASSUME NEW r \in Rows
    PROVE  /\ \A p : /\ [r EXCEPT !.stop = p].addon = r.addon
                    /\ [r EXCEPT !.stop = p].scaled = r.scaled
           /\ \A p : [r EXCEPT !.addon = TRUE, !.scaled = TRUE, !.stop = p].scaled = TRUE
    BY DEF Rows

LEMMA TickApart == ASSUME Shape, Apart, OneFamily', Shape', Tick PROVE Apart'
  <1>1. row \in Rows /\ AddonScales(row)
    <2>1. row \in Rows
      BY PartsOfShape DEF Parts, RowTyped, InHand, Tick, Reconcile, ScanOrders, Latch, Decide, Watch
    <2> QED BY <2>1 DEF Apart
  <1>2. CASE row' = NoRow
    <2>1. pc' \notin EnsurePCs
      BY <1>2, NoRowAssumption DEF Shape, InHand, EnsurePCs
    <2> QED BY <1>2, <2>1, NoRowAssumption DEF Apart
  <1>3. CASE row' # NoRow
    <2>1. row' \in Rows
      BY <1>3, PartsOfShape DEF Shape, TypeOK
    <2>2. targets' = targets
      BY DEF Tick, Reconcile, ScanOrders, Latch, Decide, Watch, Begin, ens
    <2>3. Live("op")' \subseteq Live("op")
      BY RemoveOps DEF Tick, Reconcile, ScanOrders, Latch, TakeOver, Cancel, Decide, Watch, Live, exch
    <2>4. CASE Reconcile \/ ScanOrders
      <3>1. /\ row' = row
            /\ \/ pc' \in TickPCs
               \/ pc' = "locate" /\ work' = row
        BY <1>3, <2>4 DEF Reconcile, ScanOrders, Begin, TickPCs
      <3> QED BY <1>1, <2>1, <2>2, <2>3, <3>1, TickedApart
    <2>5. CASE Latch
      <3> DEFINE seen == row.ever \/ (payload > 0 /\ ~TakenOver /\ FoundIn(cache, row))
      <3>0. row' = [row EXCEPT !.taken = TRUE] \/ row' = [row EXCEPT !.ever = seen]
        BY <2>5 DEF Latch, TakeOver
      <3> HIDE DEF seen
      <3>1. row'.addon = row.addon /\ row'.scaled = row.scaled
        BY <1>1, <3>0 DEF Rows
      <3>2. pc' \in TickPCs
        BY <2>5 DEF Latch, TickPCs
      <3> QED BY <1>1, <2>1, <2>2, <2>3, <3>1, <3>2, TickedApart DEF AddonScales
    <2>6. CASE Decide
      <3>1. CASE row' = row /\ pc' = "watch"
        BY <1>1, <2>1, <2>2, <2>3, <3>1, TickedApart DEF TickPCs
      <3>2. CASE Begin("trail", [row EXCEPT !.stop = @ + 1]) /\ UNCHANGED row
        <4>1. work'.addon = row.addon /\ work'.scaled = row.scaled
          BY <1>1, <3>2, RowFlags DEF Begin
        <4> QED BY <1>1, <2>1, <2>2, <2>3, <3>2, <4>1, TickedApart DEF Begin, AddonScales
      <3>3. CASE row' = [row EXCEPT !.stop = @ + 1] /\ pc' = "watch"
        <4>1. row'.addon = row.addon /\ row'.scaled = row.scaled
          BY <1>1, <3>3, RowFlags
        <4> QED BY <1>1, <2>1, <2>2, <2>3, <3>3, <4>1, TickedApart DEF TickPCs, AddonScales
      <3>4. CASE /\ \E p \in Stops :
                      row' = [row EXCEPT !.addon = TRUE, !.scaled = TRUE, !.stop = p]
                 /\ pc' = "watch"
        <4>1. row'.scaled = TRUE
          BY <1>1, <3>4, RowFlags
        <4> QED BY <1>1, <2>1, <2>2, <2>3, <3>4, <4>1, TickedApart DEF TickPCs, AddonScales
      <3> QED BY <2>6, <3>1, <3>2, <3>3, <3>4 DEF Decide
    <2>7. CASE Watch
      <3>1. /\ row'.addon = row.addon /\ row'.scaled = row.scaled
            /\ \/ pc' \in TickPCs
               \/ pc' = "locate" /\ work' = row /\ row' = row
        <4>1. /\ row' \in {row, [row EXCEPT !.taken = TRUE], [row EXCEPT !.ever = TRUE]}
              /\ \/ pc' = "reconcile"
                 \/ pc' = "locate" /\ work' = row /\ row' = row
          BY <2>7 DEF Watch, Begin
        <4>2. row'.addon = row.addon /\ row'.scaled = row.scaled
          BY <1>1, <4>1 DEF Rows
        <4> QED BY <4>1, <4>2 DEF TickPCs
      <3> QED BY <1>1, <2>1, <2>2, <2>3, <3>1, TickedApart DEF AddonScales
    <2> QED BY <2>4, <2>5, <2>6, <2>7 DEF Tick
  <1> QED BY <1>2, <1>3

LEMMA OutsideApart ==
    ASSUME Shape, Apart, OneFamily', UNCHANGED <<pc, ens, row>>,
           \A o \in Live("op")' : o \in Live("op") \/ o.id \notin targets
    PROVE  Apart'
    BY DEF Apart, Spared, ens

LEMMA EnvironmentApart == ASSUME Shape, Apart, OneFamily', Environment PROVE Apart'
  <1>1. CASE Appear \/ Resize
    BY <1>1, OutsideApart DEF Appear, Resize, Live, exch
  <1>2. CASE GoFlat \/ OperatorCancels
    <2>1. Live("op")' \subseteq Live("op")
      BY <1>2, RemoveOps DEF GoFlat, OperatorCancels, Live, exch
    <2> QED BY <1>2, <2>1, OutsideApart DEF GoFlat, OperatorCancels
  <1>3. CASE OperatorPlaces
    <2>1. \A o \in Live("op")' : o \in Live("op") \/ o.id \notin targets
      BY <1>3 DEF OperatorPlaces, FreshId, InUse, Live
    <2> QED BY <1>3, <2>1, OutsideApart DEF OperatorPlaces
  <1>4. CASE GraceExpires
    <2>1. row \in Rows
      BY <1>4, PartsOfShape DEF GraceExpires, Parts, RowTyped
    <2>2. row' \in Rows /\ row'.addon = row.addon /\ row'.scaled = row.scaled
      BY <1>4, <2>1 DEF GraceExpires, Rows, Graces
    <2>3. targets' = targets /\ Live("op")' = Live("op") /\ pc' \in TickPCs
      BY <1>4 DEF GraceExpires, ens, env, exch, Live, TickPCs
    <2>4. AddonScales(row)
      BY <2>1 DEF Apart
    <2> QED BY <2>1, <2>2, <2>3, <2>4, TickedApart DEF AddonScales
  <1>5. CASE Crash
    BY <1>5 DEF Crash, Forget, Apart, Spared, EnsurePCs
  <1> QED BY <1>1, <1>2, <1>3, <1>4, <1>5 DEF Environment

LEMMA InitApart == Init => Apart
    BY DEF Init, Apart, OneFamily, Known, Spared, AddonScales, NewRow, EnsurePCs

LEMMA NextApart == Shape /\ Apart /\ [Next]_vars => Apart'
  <1> SUFFICES ASSUME Shape, Apart, [Next]_vars PROVE Apart'
    OBVIOUS
  <1>1. OneFamily' /\ Shape'
    BY NextFamily, NextShape DEF Apart
  <1>2. CASE UNCHANGED vars
    BY <1>1, <1>2, OutsideApart DEF vars, env, exch, Live
  <1> QED BY <1>1, <1>2, EnsureApart, TickApart, EnvironmentApart DEF Next, Over

-----------------------------------------------------------------------------
(* A request that is no cancel cancels nothing; and what is cancelled is   *)
(* on the list, has the engine's client id, or belongs to the bot.         *)
LEMMA StepSpares ==
    ASSUME Shape, Apart, Next, Ensure \/ Tick, pc # "rbCancel", row # NoRow, ~row.scaled,
           NEW o \in Live("op")
    PROVE  o \in book'
  <1>1. Spared /\ o \in book /\ o.cl = "op"
    BY PartsOfShape DEF Apart, Parts, RowTyped, Live
  <1>2. ASSUME NEW ids, Remove(ids), o.id \notin ids PROVE o \in book'
    BY <1>1, <1>2 DEF Remove
  <1>3. CASE Clean \/ Swap
    BY <1>1, <1>2, <1>3 DEF Clean, Swap, Cancel, Spared, exch
  <1>4. CASE Resolve
    <2>1. \A p \in Found51068 : p.cl = "s" \/ p \in gone
      BY DEF Found51068, Live
    <2>2. \A p \in Found51068 : p \in Known
      BY DEF Found51068, Live, Known
    <2>3. o \in Known
      BY <1>1 DEF Known
    <2>4. ASSUME NEW p \in Found51068, Resolution(p, Ctx) = "stale_replace" PROVE p.cl # "op"
      BY <2>4 DEF Resolution, Stale, BotOwned
    <2>5. \A p \in Found51068 : Resolution(p, Ctx) = "stale_replace" => o.id # p.id
      BY <1>1, <2>2, <2>3, <2>4 DEF Apart, OneFamily
    <2> QED BY <1>1, <1>2, <1>4, <2>5 DEF Resolve, Cancel, exch
  <1>5. CASE Submit \/ RbSubmit \/ RbRestore
    BY <1>1, <1>5 DEF Submit, RbSubmit, RbRestore, Place, Failed, Refused, exch
  <1>6. CASE Locate \/ Collect \/ Persist \/ Rescan \/ Finish \/ RbQuery \/ RbRequery
    BY <1>1, <1>6
    DEF Locate, Collect, Persist, Rescan, Finish, RbQuery, RbRequery, env, exch
  <1>7. CASE Tick
    <2>1. \A p \in Visible : p \in Known /\ (BotOwned(p) => p.cl # "op")
      BY DEF Visible, Known, BotOwned
    <2>2. o.id \notin Ids({p \in Visible : BotOwned(p) /\ p.kind = "sl"})
      BY <1>1, <2>1 DEF Ids, Apart, OneFamily, Known
    <2>3. \/ UNCHANGED exch
          \/ Remove(Ids({p \in Visible : BotOwned(p) /\ p.kind = "sl"}))
      BY <1>7 DEF Tick, Reconcile, ScanOrders, Latch, TakeOver, Cancel, Decide, Watch
    <2> QED BY <1>1, <1>2, <2>2, <2>3 DEF exch
  <1> QED
    BY <1>3, <1>4, <1>5, <1>6, <1>7 DEF Ensure, Tick, RbCancel

(* No request of the engine cancels an order of the operator, except that  *)
(* of the rebuild, which has to cancel the stop it found, and of a leg     *)
(* that an add-on has filled.                                              *)
THEOREM OperatorOrdersAreKept == Spec => OperatorOrdersKept
  <1>1. Init => Shape /\ Apart
    BY InitShape, InitApart
  <1>2. Shape /\ Apart /\ [Next]_vars => (Shape /\ Apart)'
    BY NextShape, NextApart
  <1>3. Shape /\ Apart /\ [Next]_vars
          => [(/\ Ensure \/ Tick
               /\ pc # "rbCancel" /\ row # NoRow /\ ~row.scaled)
              => (\A o \in Live("op") : o \in book')]_vars
    BY StepSpares
  <1> QED BY <1>1, <1>2, <1>3, PTL DEF Spec, OperatorOrdersKept
=============================================================================

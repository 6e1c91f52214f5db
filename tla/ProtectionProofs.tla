-------------------------- MODULE ProtectionProofs --------------------------
(* Theorems about Protection, for every size of position, number of stops, *)
(* orders and faults.                                                      *)
EXTENDS Protection, TLAPS

-----------------------------------------------------------------------------
(* Types, in the groups in which the steps change them.                    *)

EnsTyped ==
    /\ mode \in Modes /\ work \in Rows \cup {NoRow} /\ size \in Sizes \cup {0}
    /\ inv \in SUBSET Orders
    /\ sl \in OrderIds \cup {None} /\ tp \in OrderIds \cup {None}
    /\ targets \in SUBSET OrderIds
    /\ sub \in OrderIds \cup {None} /\ subTp \in OrderIds \cup {None}
    /\ changed \in BOOLEAN /\ tried \in BOOLEAN

MemTyped ==
    /\ blocked \in BOOLEAN /\ clBlocked \in BOOLEAN /\ opSeen \in BOOLEAN
    /\ scanned \in {"no", "clean", "error"} /\ cache \in SUBSET Orders
    /\ payload \in Sizes \cup {0}

ExchTyped ==
    book \in SUBSET Orders /\ hidden \in SUBSET OrderIds /\ gone \in SUBSET Orders

EnvTyped ==
    /\ wants \in BOOLEAN /\ pos \in Sizes \cup {0} /\ ExchTyped
    /\ left \in Nat /\ dirty \in BOOLEAN

PcTyped  == pc \in TickPCs \cup EnsurePCs
RowTyped == row \in Rows \cup {NoRow}

LEMMA TypeOKIsTyped ==
    TypeOK <=> PcTyped /\ EnsTyped /\ MemTyped /\ RowTyped /\ EnvTyped
    BY DEF TypeOK, PcTyped, EnsTyped, MemTyped, RowTyped, EnvTyped, ExchTyped

(* There is a row while a tick runs, and ensure has one in hand and a size *)
(* to protect.  An id is known where ensure is about to use it, and it is  *)
(* the ledger's when old orders are cancelled for it.                      *)
InHand ==
    /\ pc # "reconcile" => row \in Rows
    /\ pc \in EnsurePCs => work \in Rows
    /\ pc \in EnsurePCs \ {"locate"} => size \in Sizes
    /\ pc = "rbCancel" => sl # None
    /\ pc = "persist" => sub # None
    /\ pc = "swap" => sub # None /\ row.slId = sub

Shape == TypeOK /\ InHand

-----------------------------------------------------------------------------
(* The operators of the plan.                                              *)

LEMMA IdsTyped == ASSUME NEW S \in SUBSET Orders PROVE Ids(S) \subseteq OrderIds
    BY DEF Ids, Orders

LEMMA IdOrNoneTyped ==
    ASSUME NEW S \in SUBSET Orders
    PROVE  IdOrNone(S) \subseteq OrderIds \cup {None}
    BY IdsTyped DEF IdOrNone

LEMMA CanonicalTyped ==
    ASSUME NEW S \in SUBSET Orders, NEW ctx
    PROVE  /\ CanonicalSl(S, ctx) \subseteq OrderIds \cup {None}
           /\ CanonicalTp(S, ctx) \subseteq OrderIds \cup {None}
           /\ TruthSl(S, ctx) \subseteq OrderIds \cup {None}
  <1> DEFINE V == {o \in S : SlValid(o, ctx)}
             W == {o \in S : TpValid(o, ctx)}
             X == {o \in S : SizeMatches(o, ctx)}
  <1>1. Best(V, ctx) \in SUBSET Orders /\ Best(W, ctx) \in SUBSET Orders /\ X \in SUBSET Orders
    BY DEF Best
  <1>2. /\ IdOrNone(Best(V, ctx)) \subseteq OrderIds \cup {None}
        /\ IdOrNone(Best(W, ctx)) \subseteq OrderIds \cup {None}
        /\ IdOrNone(X) \subseteq OrderIds \cup {None}
    BY <1>1, IdOrNoneTyped
  <1> QED BY <1>2 DEF CanonicalSl, CanonicalTp, TruthSl

LEMMA TargetsTyped ==
    ASSUME NEW S \in SUBSET Orders, NEW ctx, NEW s, NEW t
    PROVE  CancelTargets(S, ctx, s, t) \subseteq OrderIds
    BY DEF CancelTargets, Orders

LEMMA NoneIsNoOrder == None \notin OrderIds
    BY DEF None, OrderIds

-----------------------------------------------------------------------------
(* Requests to the exchange.                                               *)

LEMMA EventTyped == ASSUME left \in Nat, NEW k, Event(k) PROVE left' \in Nat
    BY DEF Event

LEMMA RemoveTyped == ASSUME ExchTyped, NEW ids, Remove(ids) PROVE ExchTyped'
  <1> DEFINE dead == {[o EXCEPT !.live = FALSE] :
                          o \in {p \in book : p.id \in ids /\ p.cl = "s"}}
  <1>1. dead \subseteq Orders
    BY DEF ExchTyped, Orders
  <1>2. gone' = gone \/ gone' = dead
    BY DEF Remove
  <1> QED BY <1>1, <1>2 DEF Remove, ExchTyped

LEMMA CancelTyped ==
    ASSUME ExchTyped, left \in Nat, NEW ids, Cancel(ids)
    PROVE  ExchTyped' /\ left' \in Nat
    BY RemoveTyped, EventTyped DEF Cancel, exch, ExchTyped, NoEvent

LEMMA PlaceTyped ==
    ASSUME ExchTyped, work \in Rows, size \in Sizes, NEW i \in OrderIds,
           NEW cl \in Families, NEW kind \in Kinds, Place(i, cl, kind)
    PROVE  book' \in SUBSET Orders /\ gone' \in SUBSET Orders
  <1>1. [id |-> i, cl |-> cl, kind |-> kind, size |-> size, px |-> work.stop,
         live |-> TRUE] \in Orders
    BY DEF Orders, Rows
  <1> QED BY <1>1 DEF Place, ExchTyped

LEMMA SentTyped ==
    ASSUME ExchTyped, left \in Nat, work \in Rows, size \in Sizes, NEW i \in OrderIds,
           NEW cl \in Families, NEW kind \in Kinds,
           (Place(i, cl, kind) /\ Shown(i)) \/ Failed(i, cl, kind) \/ Refused(cl)
    PROVE  ExchTyped' /\ left' \in Nat
  <1>1. CASE Place(i, cl, kind) /\ Shown(i)
    BY <1>1, PlaceTyped, EventTyped DEF Shown, NoEvent, ExchTyped
  <1>2. CASE Failed(i, cl, kind)
    BY <1>2, PlaceTyped, EventTyped DEF Failed, exch, ExchTyped
  <1>3. CASE Refused(cl)
    BY <1>3 DEF Refused, exch, ExchTyped, NoEvent
  <1> QED BY <1>1, <1>2, <1>3

LEMMA ScanTyped ==
    ASSUME ExchTyped, left \in Nat, Scan
    PROVE  /\ cache' \in SUBSET Orders /\ scanned' \in {"no", "clean", "error"}
           /\ opSeen' \in BOOLEAN /\ left' \in Nat
    BY EventTyped DEF Scan, Visible, ExchTyped, NoEvent

-----------------------------------------------------------------------------
(* Beginning and leaving ensure.                                           *)

LEMMA BeginShape ==
    ASSUME EnsTyped, NEW r \in Rows, NEW c \in Modes, Begin(c, r)
    PROVE  EnsTyped' /\ pc' = "locate" /\ work' \in Rows /\ dirty' \in BOOLEAN
    BY DEF Begin, EnsTyped

LEMMA ReturnShape ==
    ASSUME EnsTyped, MemTyped, row \in Rows, work \in Rows,
           NEW ok \in BOOLEAN, NEW m \in BOOLEAN, NEW r \in Rows, NEW b \in BOOLEAN,
           Return(ok, m, r, b)
    PROVE  /\ EnsTyped' /\ row' \in Rows /\ blocked' \in BOOLEAN
           /\ pc' \in {"scan", "watch", "reconcile"}
  <1>1. EnsTyped'
    BY DEF Return, Forget, EnsTyped, Modes
  <1>2. row' \in Rows /\ pc' \in {"scan", "watch", "reconcile"}
    BY DEF Return
  <1>3. blocked' \in BOOLEAN
    BY DEF Return
  <1> QED BY <1>1, <1>2, <1>3

LEMMA GiveUpShape ==
    ASSUME EnsTyped, MemTyped, row \in Rows, work \in Rows, NEW b \in BOOLEAN, GiveUp(b)
    PROVE  /\ EnsTyped' /\ row' \in Rows /\ blocked' \in BOOLEAN
           /\ pc' \in {"scan", "watch", "reconcile"}
  <1>1. [work EXCEPT !.failed = TRUE] \in Rows
    BY DEF Rows
  <1> QED BY <1>1, ReturnShape DEF GiveUp

-----------------------------------------------------------------------------
(* Ensure keeps the shape.                                                 *)

Parts == EnsTyped /\ MemTyped /\ RowTyped /\ EnvTyped /\ PcTyped

LEMMA PartsOfShape == Shape <=> Parts /\ InHand
    BY DEF Shape, Parts, TypeOK, PcTyped, EnsTyped, MemTyped, RowTyped, EnvTyped, ExchTyped

LEMMA ShapeOfParts == Parts' /\ InHand' => Shape'
    BY DEF Shape, Parts, TypeOK, PcTyped, EnsTyped, MemTyped, RowTyped, EnvTyped, ExchTyped

(* After a return to the caller.                                           *)
LEMMA ReturnedShape ==
    ASSUME EnsTyped', MemTyped', EnvTyped', row' \in Rows,
           pc' \in {"scan", "watch", "reconcile"}
    PROVE  Shape'
  <1>1. PcTyped' /\ RowTyped' /\ InHand'
    BY DEF PcTyped, RowTyped, InHand, TickPCs, EnsurePCs
  <1> QED BY <1>1, ShapeOfParts DEF Parts

LEMMA GaveUpShape ==
    ASSUME Shape, pc \in EnsurePCs, NEW b \in BOOLEAN, GiveUp(b), ExchTyped', left' \in Nat,
           UNCHANGED <<clBlocked, opSeen, scanned, cache, payload, wants, pos, dirty>>
    PROVE  Shape'
  <1>1. Parts /\ row \in Rows /\ work \in Rows
    BY PartsOfShape DEF InHand, EnsurePCs
  <1>2. EnsTyped' /\ row' \in Rows /\ blocked' \in BOOLEAN /\ pc' \in {"scan", "watch", "reconcile"}
    BY <1>1, GiveUpShape DEF Parts
  <1>3. MemTyped' /\ EnvTyped'
    BY <1>1, <1>2 DEF Parts, MemTyped, EnvTyped
  <1> QED BY <1>2, <1>3, ReturnedShape

LEMMA LocateShape == ASSUME Shape, Locate PROVE Shape'
  <1>1. Parts /\ row \in Rows /\ work \in Rows /\ pc \in EnsurePCs
    BY PartsOfShape DEF InHand, Locate, EnsurePCs
  <1>2. CASE pos > 0 /\ size' = pos /\ pc' = "collect"
             /\ UNCHANGED <<mode, work, inv, sl, tp, targets, sub, subTp, changed, tried,
                            mem, row, env>>
    <2>1. pos \in Sizes
      BY <1>1, <1>2, PlanAssumption DEF Parts, EnvTyped, Sizes
    <2>2. EnsTyped' /\ MemTyped' /\ RowTyped' /\ EnvTyped'
      BY <1>1, <1>2, <2>1 DEF Parts, EnsTyped, MemTyped, RowTyped, EnvTyped, ExchTyped, mem, env, exch
    <2>3. PcTyped' /\ InHand'
      BY <1>1, <1>2, <2>1 DEF PcTyped, InHand, EnsurePCs
    <2> QED BY <2>2, <2>3, ShapeOfParts DEF Parts
  <1>3. CASE Return(TRUE, FALSE, work, blocked)
             /\ UNCHANGED <<clBlocked, opSeen, scanned, cache, payload, env>>
    <2>1. EnsTyped' /\ row' \in Rows /\ blocked' \in BOOLEAN /\ pc' \in {"scan", "watch", "reconcile"}
      BY <1>1, <1>3, ReturnShape DEF Parts, MemTyped
    <2>2. MemTyped' /\ EnvTyped'
      BY <1>1, <1>3, <2>1 DEF Parts, MemTyped, EnvTyped, ExchTyped, env, exch
    <2> QED BY <2>1, <2>2, ReturnedShape
  <1>4. CASE Event("queryFail") /\ GiveUp(TRUE)
             /\ UNCHANGED <<clBlocked, opSeen, scanned, cache, payload, wants, pos, exch,
                            dirty>>
    <2>1. ExchTyped' /\ left' \in Nat
      BY <1>1, <1>4, EventTyped DEF Parts, EnvTyped, ExchTyped, exch
    <2> QED BY <1>1, <1>4, <2>1, GaveUpShape
  <1> QED BY <1>2, <1>3, <1>4 DEF Locate

LEMMA PlanShape ==
    ASSUME EnsTyped, work \in Rows, NEW i \in SUBSET Orders,
           NEW s \in OrderIds \cup {None}, NEW t \in OrderIds \cup {None}, Plan(i, s, t)
    PROVE  /\ sl' \in OrderIds \cup {None} /\ tp' \in OrderIds \cup {None}
           /\ targets' \in SUBSET OrderIds /\ work' \in Rows /\ changed' \in BOOLEAN
           /\ pc' \in {"rbCancel", "submit", "finish", "clean"}
           /\ pc' = "rbCancel" => sl' # None
  <1>1. sl' \in {None, s} /\ tp' \in {None, t}
    BY DEF Plan
  <1>2. targets' \in SUBSET OrderIds
    <2>1. CancelTargets(i, Ctx, s, t) \subseteq OrderIds
      BY TargetsTyped
    <2> QED BY <2>1 DEF Plan
  <1>3. work' \in Rows
    BY DEF Plan, Rows
  <1>4. changed' \in BOOLEAN
    BY DEF Plan, RepairNeeded
  <1>5. pc' \in {"rbCancel", "submit", "finish", "clean"}
    BY DEF Plan
  <1>6. pc' = "rbCancel" => sl' # None
    BY DEF Plan, SlOnly
  <1> QED BY <1>1, <1>2, <1>3, <1>4, <1>5, <1>6

LEMMA InventoryTyped ==
    ExchTyped => Inventory \in SUBSET Orders /\ Visible \in SUBSET Orders
    BY DEF ExchTyped, Inventory, Visible, Untagged

(* What the plan passes over is only left out.                             *)
LEMMA UntaggedFewer == \A S : Untagged(S) \subseteq S
    BY DEF Untagged

LEMMA CollectShape == ASSUME Shape, Collect PROVE Shape'
  <1>1. Parts /\ row \in Rows /\ work \in Rows /\ size \in Sizes /\ pc \in EnsurePCs
    BY PartsOfShape DEF InHand, Collect, EnsurePCs
  <1>2. CASE /\ inv' = Inventory
             /\ \E s \in CanonicalSl(Inventory, Ctx), t \in CanonicalTp(Inventory, Ctx) :
                   Plan(Inventory, s, t)
             /\ UNCHANGED <<mode, size, sub, subTp, tried, mem, row, env>>
    <2>1. PICK s \in CanonicalSl(Inventory, Ctx), t \in CanonicalTp(Inventory, Ctx) :
             Plan(Inventory, s, t)
      BY <1>2
    <2>2. Inventory \in SUBSET Orders
      BY <1>1, InventoryTyped DEF Parts, EnvTyped
    <2>3. s \in OrderIds \cup {None} /\ t \in OrderIds \cup {None}
      BY <2>2, CanonicalTyped
    <2>4. /\ sl' \in OrderIds \cup {None} /\ tp' \in OrderIds \cup {None}
          /\ targets' \in SUBSET OrderIds /\ work' \in Rows /\ changed' \in BOOLEAN
          /\ pc' \in {"rbCancel", "submit", "finish", "clean"}
          /\ pc' = "rbCancel" => sl' # None
      BY <1>1, <2>1, <2>2, <2>3, PlanShape DEF Parts
    <2>5. EnsTyped'
      BY <1>1, <1>2, <2>2, <2>4 DEF Parts, EnsTyped
    <2>6. MemTyped' /\ RowTyped' /\ EnvTyped'
      BY <1>1, <1>2 DEF Parts, MemTyped, RowTyped, EnvTyped, ExchTyped, mem, env, exch
    <2>7. PcTyped' /\ InHand'
      BY <1>1, <1>2, <2>4 DEF PcTyped, InHand, EnsurePCs
    <2> QED BY <2>5, <2>6, <2>7, ShapeOfParts DEF Parts
  <1>3. CASE Event("queryFail") /\ GiveUp(blocked)
             /\ UNCHANGED <<clBlocked, opSeen, scanned, cache, payload, wants, pos, exch,
                            dirty>>
    <2>1. ExchTyped' /\ left' \in Nat
      BY <1>1, <1>3, EventTyped DEF Parts, EnvTyped, ExchTyped, exch
    <2>2. blocked \in BOOLEAN
      BY <1>1 DEF Parts, MemTyped
    <2> QED BY <1>1, <1>3, <2>1, <2>2, GaveUpShape
  <1> QED BY <1>2, <1>3 DEF Collect

LEMMA CleanShape == ASSUME Shape, Clean PROVE Shape'
  <1>1. Parts /\ row \in Rows /\ work \in Rows /\ size \in Sizes
    BY PartsOfShape DEF InHand, Clean, EnsurePCs
  <1>2. ExchTyped' /\ left' \in Nat
    BY <1>1, CancelTyped DEF Clean, Parts, EnvTyped
  <1>3. EnsTyped' /\ MemTyped' /\ RowTyped' /\ EnvTyped'
    BY <1>1, <1>2 DEF Clean, Parts, EnsTyped, MemTyped, RowTyped, EnvTyped, mem
  <1>4. PcTyped' /\ InHand'
    BY <1>1 DEF Clean, PcTyped, InHand, EnsurePCs
  <1> QED BY <1>3, <1>4, ShapeOfParts DEF Parts

LEMMA SubmitShape == ASSUME Shape, Submit PROVE Shape'
  <1>1. Parts /\ row \in Rows /\ work \in Rows /\ size \in Sizes
    BY PartsOfShape DEF InHand, Submit, EnsurePCs
  <1>2. ExchTyped /\ left \in Nat /\ {"s"} \subseteq Families /\ WantedKind \in Kinds
    BY <1>1 DEF Parts, EnvTyped, Families, Kinds, WantedKind
  <1>3. ExchTyped' /\ left' \in Nat
    <2>1. CASE clBlocked
      BY <1>2, <2>1 DEF Submit, exch, ExchTyped
    <2>2. CASE ~clBlocked
      <3>1. CASE Refused("s")
        BY <1>2, <3>1 DEF Refused, exch, ExchTyped, NoEvent
      <3>2. CASE \E i \in OrderIds : \/ Place(i, "s", WantedKind) /\ Shown(i)
                                     \/ Failed(i, "s", WantedKind)
        BY <1>1, <1>2, <3>2, SentTyped
      <3> QED BY <2>2, <3>1, <3>2 DEF Submit
    <2> QED BY <2>1, <2>2
  <1>4. /\ sub' \in OrderIds \cup {None} /\ subTp' \in OrderIds \cup {None}
        /\ changed' \in BOOLEAN /\ tried' \in BOOLEAN /\ clBlocked' \in BOOLEAN
        /\ pc' \in {"resolve", "rescan", "persist"}
        /\ pc' = "persist" => sub' # None
    BY <1>1, NoneIsNoOrder DEF Submit, Parts, EnsTyped, MemTyped
  <1>5. EnsTyped' /\ MemTyped' /\ RowTyped' /\ EnvTyped'
    BY <1>1, <1>3, <1>4 DEF Submit, Parts, EnsTyped, MemTyped, RowTyped, EnvTyped
  <1>6. PcTyped' /\ InHand'
    BY <1>1, <1>4 DEF Submit, PcTyped, InHand, EnsurePCs
  <1> QED BY <1>5, <1>6, ShapeOfParts DEF Parts

LEMMA ResolveShape == ASSUME Shape, Resolve PROVE Shape'
  <1>1. Parts /\ row \in Rows /\ work \in Rows /\ size \in Sizes
    BY PartsOfShape DEF InHand, Resolve, EnsurePCs
  <1>2. ExchTyped' /\ left' \in Nat
    BY <1>1, CancelTyped, EventTyped DEF Resolve, Parts, EnvTyped, exch, ExchTyped
  <1>3. Found51068 \in SUBSET Orders
    BY <1>1 DEF Found51068, Live, Parts, EnsTyped, EnvTyped, ExchTyped
  <1>4. /\ sl' \in OrderIds \cup {None} /\ tp' \in OrderIds \cup {None}
        /\ changed' \in BOOLEAN /\ clBlocked' \in BOOLEAN
    <2>1. \A o \in Found51068 : o.id \in OrderIds
      BY <1>3 DEF Orders
    <2> QED BY <1>1, <2>1 DEF Resolve, Parts, EnsTyped, MemTyped
  <1>5. EnsTyped' /\ MemTyped' /\ RowTyped' /\ EnvTyped'
    BY <1>1, <1>2, <1>4 DEF Resolve, Parts, EnsTyped, MemTyped, RowTyped, EnvTyped
  <1>6. pc' \in {"rescan", "finish"}
    BY DEF Resolve
  <1>7. PcTyped' /\ InHand'
    BY <1>1, <1>6 DEF Resolve, PcTyped, InHand, EnsurePCs
  <1> QED BY <1>5, <1>7, ShapeOfParts DEF Parts

LEMMA PersistShape == ASSUME Shape, Persist PROVE Shape'
  <1>1. Parts /\ row \in Rows /\ work \in Rows /\ size \in Sizes /\ sub # None
    BY PartsOfShape DEF InHand, Persist, EnsurePCs
  <1>2. ExchTyped' /\ left' \in Nat
    BY <1>1, EventTyped DEF Persist, Parts, EnvTyped, exch, ExchTyped, NoEvent
  <1>3. /\ row' \in Rows /\ work' \in Rows /\ changed' \in BOOLEAN
        /\ pc' \in {"rescan", "swap"}
        /\ pc' = "swap" => row'.slId = sub
    <2>1. sub \in OrderIds \cup {None} /\ subTp \in OrderIds \cup {None}
      BY <1>1 DEF Parts, EnsTyped
    <2>2. CASE UNCHANGED <<row, work, changed>> /\ pc' = "rescan"
      BY <1>1, <2>2 DEF Parts, EnsTyped
    <2>3. CASE /\ row' = [work EXCEPT !.slId = sub, !.ever = TRUE, !.grace = "ahead",
                                     !.tpId = IF wants /\ subTp # None THEN subTp ELSE @]
               /\ work' = row' /\ changed' = TRUE
               /\ pc' = IF targets = {} THEN "rescan" ELSE "swap"
      BY <1>1, <2>1, <2>3 DEF Rows, Graces
    <2> QED BY <2>2, <2>3 DEF Persist
  <1>4. EnsTyped' /\ MemTyped' /\ RowTyped' /\ EnvTyped'
    BY <1>1, <1>2, <1>3 DEF Persist, Parts, EnsTyped, MemTyped, RowTyped, EnvTyped, mem
  <1>5. PcTyped' /\ InHand'
    BY <1>1, <1>3 DEF Persist, PcTyped, InHand, EnsurePCs
  <1> QED BY <1>4, <1>5, ShapeOfParts DEF Parts

LEMMA SwapShape == ASSUME Shape, Swap PROVE Shape'
  <1>1. Parts /\ row \in Rows /\ work \in Rows /\ size \in Sizes
    BY PartsOfShape DEF InHand, Swap, EnsurePCs
  <1>2. ExchTyped' /\ left' \in Nat
    BY <1>1, CancelTyped DEF Swap, Parts, EnvTyped
  <1>3. EnsTyped' /\ MemTyped' /\ RowTyped' /\ EnvTyped'
    BY <1>1, <1>2 DEF Swap, Parts, EnsTyped, MemTyped, RowTyped, EnvTyped, ens, mem
  <1>4. PcTyped' /\ InHand'
    BY <1>1 DEF Swap, PcTyped, InHand, EnsurePCs, ens
  <1> QED BY <1>3, <1>4, ShapeOfParts DEF Parts

LEMMA RescanShape == ASSUME Shape, Rescan PROVE Shape'
  <1>1. Parts /\ row \in Rows /\ work \in Rows /\ size \in Sizes
    BY PartsOfShape DEF InHand, Rescan, EnsurePCs
  <1>2. ExchTyped' /\ left' \in Nat
    BY <1>1, EventTyped DEF Rescan, Parts, EnvTyped, exch, ExchTyped, NoEvent
  <1>3. inv \cup Untagged(Visible) \in SUBSET Orders
    BY <1>1, InventoryTyped, UntaggedFewer DEF Parts, EnsTyped, EnvTyped
  <1>4. /\ CanonicalSl(inv \cup Untagged(Visible), Ctx) \subseteq OrderIds \cup {None}
        /\ CanonicalTp(inv \cup Untagged(Visible), Ctx) \subseteq OrderIds \cup {None}
    BY <1>3, CanonicalTyped
  <1>5. sl' \in OrderIds \cup {None} /\ tp' \in OrderIds \cup {None}
    BY <1>1, <1>4 DEF Rescan, Parts, EnsTyped
  <1>6. EnsTyped' /\ MemTyped' /\ RowTyped' /\ EnvTyped'
    BY <1>1, <1>2, <1>5 DEF Rescan, Parts, EnsTyped, MemTyped, RowTyped, EnvTyped, mem
  <1>7. PcTyped' /\ InHand'
    BY <1>1 DEF Rescan, PcTyped, InHand, EnsurePCs
  <1> QED BY <1>6, <1>7, ShapeOfParts DEF Parts

LEMMA FinishedRow ==
    ASSUME NEW r \in Rows, NEW s \in OrderIds \cup {None}, NEW t \in OrderIds \cup {None},
           NEW failed \in BOOLEAN, NEW seen \in BOOLEAN, NEW g \in Graces
    PROVE  [r EXCEPT !.slId = s, !.tpId = t, !.failed = failed, !.ever = seen,
                     !.grace = g] \in Rows
    BY DEF Rows

LEMMA FinishShape == ASSUME Shape, Finish PROVE Shape'
  <1>1. Parts /\ row \in Rows /\ work \in Rows
    BY PartsOfShape DEF InHand, Finish, EnsurePCs
  <1>2. ProvSl \in OrderIds \cup {None} /\ ProvTp \in OrderIds \cup {None}
    BY <1>1 DEF ProvSl, ProvTp, Provisional, Parts, EnsTyped, Rows
  <1>3. FinalSl \in OrderIds \cup {None} /\ FinalTp \in OrderIds \cup {None}
    BY <1>1, <1>2 DEF FinalSl, FinalTp, Parts, EnsTyped
  <1>4. Success \in BOOLEAN
    BY DEF Success, Complete
  <1>5. [work EXCEPT !.slId = FinalSl, !.tpId = FinalTp, !.failed = ~Success,
                     !.ever = @ \/ FinalSl # None,
                     !.grace = IF ProvSl # None \/ ProvTp # None
                               THEN "ahead" ELSE "none"] \in Rows
    <2> DEFINE seen == work.ever \/ FinalSl # None
               failed == ~Success
               given == IF ProvSl # None \/ ProvTp # None THEN "ahead" ELSE "none"
    <2>1. seen \in BOOLEAN /\ failed \in BOOLEAN /\ given \in Graces
      BY DEF Graces
    <2> HIDE DEF seen, failed, given
    <2>2. [work EXCEPT !.slId = FinalSl, !.tpId = FinalTp, !.failed = failed,
                       !.ever = seen, !.grace = given] \in Rows
      BY <1>1, <1>3, <2>1, FinishedRow
    <2> QED BY <2>2 DEF seen, failed, given
  <1>6. EnsTyped' /\ row' \in Rows /\ blocked' \in BOOLEAN /\ pc' \in {"scan", "watch", "reconcile"}
    BY <1>1, <1>4, <1>5, ReturnShape DEF Finish, Parts, EnsTyped
  <1>7. MemTyped' /\ EnvTyped'
    BY <1>1, <1>6 DEF Finish, Parts, MemTyped, EnvTyped, ExchTyped, env, exch
  <1> QED BY <1>6, <1>7, ReturnedShape

-----------------------------------------------------------------------------
(* The rebuild keeps the shape.                                            *)

LEMMA RbCancelShape == ASSUME Shape, RbCancel PROVE Shape'
  <1>1. Parts /\ row \in Rows /\ work \in Rows /\ size \in Sizes /\ sl # None
    BY PartsOfShape DEF InHand, RbCancel, EnsurePCs
  <1>2. ExchTyped' /\ left' \in Nat
    BY <1>1, RemoveTyped, EventTyped DEF RbCancel, Parts, EnvTyped, exch, ExchTyped, NoEvent
  <1>3. /\ inv' \in SUBSET Orders /\ sub' \in OrderIds \cup {None} /\ tried' \in BOOLEAN
        /\ pc' \in {"rbSubmit", "persist"}
        /\ pc' = "persist" => sub' # None
    BY <1>1 DEF RbCancel, Parts, EnsTyped
  <1>4. EnsTyped' /\ MemTyped' /\ RowTyped' /\ EnvTyped'
    BY <1>1, <1>2, <1>3 DEF RbCancel, Parts, EnsTyped, MemTyped, RowTyped, EnvTyped, mem
  <1>5. PcTyped' /\ InHand'
    BY <1>1, <1>3 DEF RbCancel, PcTyped, InHand, EnsurePCs
  <1> QED BY <1>4, <1>5, ShapeOfParts DEF Parts

LEMMA RbSubmitShape == ASSUME Shape, RbSubmit PROVE Shape'
  <1>1. Parts /\ row \in Rows /\ work \in Rows /\ size \in Sizes
    BY PartsOfShape DEF InHand, RbSubmit, EnsurePCs
  <1>2. ExchTyped /\ left \in Nat /\ "s" \in Families /\ "oco" \in Kinds
    BY <1>1 DEF Parts, EnvTyped, Families, Kinds
  <1>3. ExchTyped' /\ left' \in Nat
    <2>1. CASE Refused("s")
      BY <1>2, <2>1 DEF Refused, exch, ExchTyped, NoEvent
    <2>2. CASE \E i \in OrderIds : \/ Place(i, "s", "oco") /\ Shown(i)
                                   \/ Failed(i, "s", "oco")
      BY <1>1, <1>2, <2>2, SentTyped
    <2> QED BY <2>1, <2>2 DEF RbSubmit
  <1>4. sub' \in OrderIds \cup {None}
    BY <1>1 DEF RbSubmit, Parts, EnsTyped
  <1>5. EnsTyped' /\ MemTyped' /\ RowTyped' /\ EnvTyped'
    BY <1>1, <1>3, <1>4 DEF RbSubmit, Parts, EnsTyped, MemTyped, RowTyped, EnvTyped, mem
  <1>6. PcTyped' /\ InHand'
    BY <1>1 DEF RbSubmit, PcTyped, InHand, EnsurePCs
  <1> QED BY <1>5, <1>6, ShapeOfParts DEF Parts

LEMMA ReplanTyped ==
    ASSUME NEW i \in SUBSET Orders, Replan(i)
    PROVE  /\ inv' \in SUBSET Orders
           /\ sl' \in OrderIds \cup {None} /\ tp' \in OrderIds \cup {None}
  <1>1. /\ CanonicalSl(i, Ctx) \subseteq OrderIds \cup {None}
        /\ CanonicalTp(i, Ctx) \subseteq OrderIds \cup {None}
    BY CanonicalTyped
  <1> QED BY <1>1 DEF Replan

(* An id that fills every slot of a plan is the id of an order.            *)
LEMMA CompleteNames ==
    ASSUME NEW i \in SUBSET Orders, NEW ctx, NEW f, TruthComplete(i, ctx, f)
    PROVE  f \in OrderIds
    BY DEF TruthComplete, Orders

LEMMA RbQueryShape == ASSUME Shape, RbQuery PROVE Shape'
  <1>1. Parts /\ row \in Rows /\ work \in Rows /\ size \in Sizes
    BY PartsOfShape DEF InHand, RbQuery, EnsurePCs
  <1>2. inv \cup Visible \in SUBSET Orders
    BY <1>1, InventoryTyped DEF Parts, EnsTyped, EnvTyped
  <1> DEFINE After ==
        /\ inv' \in SUBSET Orders
        /\ sl' \in OrderIds \cup {None} /\ tp' \in OrderIds \cup {None}
        /\ sub' \in OrderIds \cup {None} /\ subTp' \in OrderIds \cup {None}
        /\ changed' \in BOOLEAN /\ left' \in Nat
        /\ pc' \in {"persist", "rbRestore"}
        /\ pc' = "persist" => sub' # None
  <1>3. After
    <2>1. ASSUME NEW f \in TruthSl(inv \cup Visible, Ctx), NoEvent,
                 TruthComplete(inv \cup Visible, Ctx, f), Replan(Untagged(inv \cup Visible)),
                 sub' = (IF sub = None THEN f ELSE sub), subTp' = f,
                 changed' = TRUE, pc' = "persist"
          PROVE  After
      <3>1. f \in OrderIds
        BY <1>2, <2>1, CompleteNames
      <3>2. /\ inv' \in SUBSET Orders
            /\ sl' \in OrderIds \cup {None} /\ tp' \in OrderIds \cup {None}
        BY <1>2, <2>1, ReplanTyped, UntaggedFewer
      <3> QED BY <1>1, <2>1, <3>1, <3>2, NoneIsNoOrder DEF Parts, EnsTyped, EnvTyped, NoEvent
    <2>2. CASE NoEvent /\ inv' = inv \cup Visible /\ sub' = None /\ pc' = "rbRestore"
               /\ UNCHANGED <<sl, tp, subTp, changed>>
      BY <1>1, <1>2, <2>2 DEF Parts, EnsTyped, EnvTyped, NoEvent
    <2>3. CASE Event("queryFail") /\ inv' = {} /\ sub' = None /\ pc' = "rbRestore"
               /\ UNCHANGED <<sl, tp, subTp, changed>>
      BY <1>1, <2>3, EventTyped DEF Parts, EnsTyped, EnvTyped
    <2> QED BY <2>1, <2>2, <2>3 DEF RbQuery
  <1>4. EnsTyped' /\ MemTyped' /\ RowTyped' /\ EnvTyped'
    BY <1>1, <1>3 DEF RbQuery, Parts, EnsTyped, MemTyped, RowTyped, EnvTyped, ExchTyped, mem, exch
  <1>5. PcTyped' /\ InHand'
    BY <1>1, <1>3 DEF RbQuery, PcTyped, InHand, EnsurePCs
  <1> QED BY <1>4, <1>5, ShapeOfParts DEF Parts

LEMMA RbRestoreShape == ASSUME Shape, RbRestore PROVE Shape'
  <1>1. Parts /\ row \in Rows /\ work \in Rows /\ size \in Sizes /\ pc \in EnsurePCs
    BY PartsOfShape DEF InHand, RbRestore, EnsurePCs
  <1>2. ExchTyped /\ left \in Nat /\ "rst" \in Families /\ "sl" \in Kinds
    BY <1>1 DEF Parts, EnvTyped, Families, Kinds
  <1>3. CASE \E i \in OrderIds :
               /\ Place(i, "rst", "sl") /\ Shown(i)
               /\ pc' = "rbRequery"
               /\ UNCHANGED <<ens, row, blocked>>
    <2>1. ExchTyped' /\ left' \in Nat
      BY <1>1, <1>2, <1>3, SentTyped
    <2>2. EnsTyped' /\ MemTyped' /\ RowTyped' /\ EnvTyped'
      BY <1>1, <1>3, <2>1 DEF RbRestore, Parts, EnsTyped, MemTyped, RowTyped, EnvTyped, ens
    <2>3. PcTyped' /\ InHand'
      BY <1>1, <1>3 DEF PcTyped, InHand, EnsurePCs, ens
    <2> QED BY <2>2, <2>3, ShapeOfParts DEF Parts
  <1>4. CASE (Refused("rst") \/ \E i \in OrderIds : Failed(i, "rst", "sl")) /\ HardBlock
    <2>1. ExchTyped' /\ left' \in Nat
      <3>1. CASE Refused("rst")
        BY <1>2, <3>1 DEF Refused, exch, ExchTyped, NoEvent
      <3>2. CASE \E i \in OrderIds : Failed(i, "rst", "sl")
        BY <1>1, <1>2, <3>2, SentTyped
      <3> QED BY <1>4, <3>1, <3>2
    <2> QED BY <1>1, <1>4, <2>1, GaveUpShape DEF RbRestore, HardBlock
  <1> QED BY <1>3, <1>4 DEF RbRestore

(* What the last query of a rebuild has found, and what it plans with.     *)
Requeried(seen, planned) == seen \in {Visible, inv} /\ planned \subseteq seen

LEMMA RequeryReads ==
    ASSUME RbRequery
    PROVE  \E seen, planned : /\ NoEvent \/ Event("queryFail")
                              /\ Requeried(seen, planned) /\ Restored(seen, planned)
  <1>1. /\ Requeried(Visible, Visible) /\ Requeried(inv, Untagged(inv))
    BY UntaggedFewer DEF Requeried
  <1> QED BY <1>1 DEF RbRequery

LEMMA RbRequeryShape == ASSUME Shape, RbRequery PROVE Shape'
  <1>1. Parts /\ row \in Rows /\ work \in Rows /\ size \in Sizes /\ pc \in EnsurePCs
    BY PartsOfShape DEF InHand, RbRequery, EnsurePCs
  <1>2. PICK seen, planned :
             /\ NoEvent \/ Event("queryFail")
             /\ Requeried(seen, planned) /\ Restored(seen, planned)
    BY RequeryReads
  <1>3. seen \in SUBSET Orders /\ planned \in SUBSET Orders
    BY <1>1, <1>2, InventoryTyped DEF Parts, EnsTyped, EnvTyped, Requeried
  <1>4. left' \in Nat
    BY <1>1, <1>2, EventTyped DEF Parts, EnvTyped, NoEvent
  <1>5. ASSUME NEW f \in TruthSl(seen, Ctx), f # None, Replan(planned), sub' = f,
               pc' = "persist",
               UNCHANGED <<mode, work, size, targets, subTp, changed, tried, row, blocked>>
        PROVE  Shape'
    <2>1. f \in OrderIds \cup {None}
      BY <1>3, CanonicalTyped
    <2>2. /\ inv' \in SUBSET Orders
          /\ sl' \in OrderIds \cup {None} /\ tp' \in OrderIds \cup {None}
      BY <1>3, <1>5, ReplanTyped
    <2>3. EnsTyped' /\ MemTyped' /\ RowTyped' /\ EnvTyped'
      BY <1>1, <1>4, <1>5, <2>1, <2>2
      DEF RbRequery, Parts, EnsTyped, MemTyped, RowTyped, EnvTyped, ExchTyped, exch
    <2>4. PcTyped' /\ InHand'
      BY <1>1, <1>5 DEF PcTyped, InHand, EnsurePCs
    <2> QED BY <2>3, <2>4, ShapeOfParts DEF Parts
  <1>6. CASE HardBlock
    <2>1. ExchTyped'
      BY <1>1 DEF RbRequery, Parts, EnvTyped, ExchTyped, exch
    <2> QED BY <1>1, <1>4, <1>6, <2>1, GaveUpShape DEF RbRequery, HardBlock
  <1> QED BY <1>2, <1>5, <1>6 DEF Restored

LEMMA EnsureShape == ASSUME Shape, Ensure PROVE Shape'
    BY LocateShape, CollectShape, CleanShape, SubmitShape, ResolveShape, PersistShape,
       SwapShape, RescanShape, FinishShape, RbCancelShape, RbSubmitShape, RbQueryShape,
       RbRestoreShape, RbRequeryShape DEF Ensure

-----------------------------------------------------------------------------
(* The tick keeps the shape.                                               *)

(* A tick that has not begun an ensure.                                    *)
LEMMA TickedShape ==
    ASSUME EnsTyped', MemTyped', EnvTyped', row' \in Rows,
           pc' \in TickPCs
    PROVE  Shape'
  <1>1. PcTyped' /\ RowTyped' /\ InHand'
    BY DEF PcTyped, RowTyped, InHand, TickPCs, EnsurePCs
  <1> QED BY <1>1, ShapeOfParts DEF Parts

(* One that has.                                                           *)
LEMMA BegunShape ==
    ASSUME EnsTyped', MemTyped', EnvTyped', row' \in Rows, work' \in Rows, pc' = "locate"
    PROVE  Shape'
  <1>1. PcTyped' /\ RowTyped' /\ InHand'
    BY DEF PcTyped, RowTyped, InHand, TickPCs, EnsurePCs
  <1> QED BY <1>1, ShapeOfParts DEF Parts

LEMMA ReconcileShape == ASSUME Shape, Reconcile PROVE Shape'
  <1>1. Parts /\ row \in Rows
    BY PartsOfShape DEF InHand, Reconcile, Parts, RowTyped
  <1>2. CASE /\ row' = NoRow /\ blocked' = FALSE /\ clBlocked' = FALSE
             /\ UNCHANGED <<pc, ens, dirty>>
    <2>1. EnsTyped'
      BY <1>1, <1>2 DEF Parts, EnsTyped, ens
    <2>2. MemTyped' /\ RowTyped'
      BY <1>1, <1>2 DEF Reconcile, Parts, MemTyped, RowTyped, EnvTyped
    <2>3. EnvTyped'
      BY <1>1, <1>2 DEF Reconcile, Parts, EnvTyped, ExchTyped, exch
    <2>4. PcTyped' /\ InHand'
      BY <1>1, <1>2 DEF Reconcile, PcTyped, InHand, EnsurePCs, TickPCs
    <2> QED BY <2>1, <2>2, <2>3, <2>4, ShapeOfParts DEF Parts
  <1>3. CASE pc' = "scan" /\ UNCHANGED <<ens, row, blocked, clBlocked, dirty>>
    <2>1. EnsTyped' /\ MemTyped' /\ EnvTyped' /\ row' \in Rows
      BY <1>1, <1>3 DEF Reconcile, Parts, EnsTyped, MemTyped, EnvTyped, ExchTyped, ens, exch
    <2> QED BY <1>3, <2>1, TickedShape DEF TickPCs
  <1>4. CASE Begin("tick", row) /\ UNCHANGED <<row, blocked, clBlocked>>
    <2>1. EnsTyped' /\ pc' = "locate" /\ work' \in Rows /\ dirty' \in BOOLEAN
      BY <1>1, <1>4, BeginShape DEF Parts, Modes
    <2>2. MemTyped' /\ EnvTyped' /\ row' \in Rows
      BY <1>1, <1>4, <2>1 DEF Reconcile, Parts, MemTyped, EnvTyped, ExchTyped, exch
    <2> QED BY <2>1, <2>2, BegunShape
  <1> QED BY <1>2, <1>3, <1>4 DEF Reconcile

LEMMA ScanOrdersShape == ASSUME Shape, ScanOrders PROVE Shape'
  <1>1. Parts /\ row \in Rows
    BY PartsOfShape DEF InHand, ScanOrders
  <1>2. /\ cache' \in SUBSET Orders /\ scanned' \in {"no", "clean", "error"}
        /\ opSeen' \in BOOLEAN /\ left' \in Nat
    BY <1>1, ScanTyped DEF ScanOrders, Parts, MemTyped, EnvTyped
  <1>3. EnsTyped' /\ MemTyped' /\ EnvTyped' /\ row' \in Rows
    BY <1>1, <1>2 DEF ScanOrders, Parts, EnsTyped, MemTyped, EnvTyped, ExchTyped, ens, exch
  <1> QED BY <1>3, TickedShape DEF ScanOrders, TickPCs

LEMMA TakenRow == \A r \in Rows : /\ [r EXCEPT !.taken = TRUE] \in Rows
                                 /\ [r EXCEPT !.ever = TRUE] \in Rows
                                 /\ [r EXCEPT !.ever = FALSE] \in Rows
    BY DEF Rows

LEMMA LatchShape == ASSUME Shape, Latch PROVE Shape'
  <1>1. Parts /\ row \in Rows
    BY PartsOfShape DEF InHand, Latch
  <1>2. ExchTyped' /\ left' \in Nat /\ row' \in Rows
    <2>1. CASE payload > 0 /\ ~TakenOver /\ LatchDue(scanned, cache, row)
      <3>1. TakeOver
        BY <2>1 DEF Latch
      <3> QED BY <1>1, <3>1, CancelTyped, TakenRow DEF TakeOver, Parts, EnvTyped
    <2>2. CASE ~(payload > 0 /\ ~TakenOver /\ LatchDue(scanned, cache, row))
      <3> DEFINE seen == row.ever \/ (payload > 0 /\ ~TakenOver /\ FoundIn(cache, row))
      <3>1. row' = [row EXCEPT !.ever = seen] /\ UNCHANGED <<exch, left>>
        BY <2>2 DEF Latch
      <3>2. seen \in BOOLEAN
        OBVIOUS
      <3> HIDE DEF seen
      <3>3. row' \in Rows
        BY <1>1, <3>1, <3>2 DEF Rows
      <3> QED BY <1>1, <3>1, <3>3 DEF Parts, EnvTyped, ExchTyped, exch
    <2> QED BY <2>1, <2>2
  <1>3. EnsTyped' /\ MemTyped' /\ EnvTyped'
    BY <1>1, <1>2 DEF Latch, Parts, EnsTyped, MemTyped, EnvTyped, ens, mem
  <1> QED BY <1>2, <1>3, TickedShape DEF Latch, TickPCs

LEMMA DecideShape == ASSUME Shape, Decide PROVE Shape'
  <1>1. Parts /\ row \in Rows
    BY PartsOfShape DEF InHand, Decide
  <1>2. MemTyped'
    BY <1>1 DEF Decide, Parts, MemTyped, mem
  <1>3. CASE pc' = "watch" /\ UNCHANGED <<ens, row, pos, left, dirty>>
    <2>1. EnsTyped' /\ EnvTyped' /\ row' \in Rows
      BY <1>1, <1>3 DEF Decide, Parts, EnsTyped, EnvTyped, ExchTyped, ens, exch
    <2> QED BY <1>2, <1>3, <2>1, TickedShape DEF TickPCs
  <1>4. ASSUME Event("trail"), row.stop < MaxStop PROVE [row EXCEPT !.stop = @ + 1] \in Rows
    <2>1. row.stop + 1 \in Stops
      BY <1>1, <1>4, PlanAssumption DEF Rows, Stops
    <2> QED BY <1>1, <2>1 DEF Rows
  <1>5. CASE /\ Event("trail") /\ row.stop < MaxStop
             /\ Begin("trail", [row EXCEPT !.stop = @ + 1])
             /\ UNCHANGED <<row, pos>>
    <2>1. EnsTyped' /\ pc' = "locate" /\ work' \in Rows /\ dirty' \in BOOLEAN
      BY <1>1, <1>4, <1>5, BeginShape DEF Parts, Modes
    <2>2. EnvTyped' /\ row' \in Rows
      BY <1>1, <1>5, <2>1, EventTyped DEF Decide, Parts, EnvTyped, ExchTyped, exch
    <2> QED BY <1>2, <2>1, <2>2, BegunShape
  <1>6. CASE /\ Event("trail") /\ row.stop < MaxStop
             /\ row' = [row EXCEPT !.stop = @ + 1] /\ pc' = "watch"
             /\ UNCHANGED <<ens, pos, dirty>>
    <2>1. row' \in Rows
      BY <1>4, <1>6
    <2>2. EnsTyped'
      BY <1>1, <1>6 DEF Parts, EnsTyped, ens
    <2>3. EnvTyped'
      BY <1>1, <1>6, EventTyped DEF Decide, Parts, EnvTyped, ExchTyped, exch
    <2> QED BY <1>2, <1>6, <2>1, <2>2, <2>3, TickedShape DEF TickPCs
  <1>7. CASE /\ Event("addon") /\ pos > 0 /\ pos < MaxSize
             /\ pos' = pos + 1
             /\ \E p \in Stops :
                   row' = [row EXCEPT !.addon = TRUE, !.scaled = TRUE, !.stop = p]
             /\ pc' = "watch" /\ dirty' = TRUE
             /\ UNCHANGED ens
    <2>1. pos' \in Sizes \cup {0}
      BY <1>1, <1>7, PlanAssumption DEF Parts, EnvTyped, Sizes
    <2>2. row' \in Rows
      BY <1>1, <1>7 DEF Rows
    <2>3. EnsTyped' /\ EnvTyped'
      BY <1>1, <1>7, <2>1, EventTyped DEF Decide, Parts, EnsTyped, EnvTyped, ExchTyped, ens, exch
    <2> QED BY <1>2, <1>7, <2>2, <2>3, TickedShape DEF TickPCs
  <1> QED BY <1>3, <1>5, <1>6, <1>7 DEF Decide

LEMMA WatchShape == ASSUME Shape, Watch PROVE Shape'
  <1>1. Parts /\ row \in Rows
    BY PartsOfShape DEF InHand, Watch
  <1>2. /\ cache' \in SUBSET Orders /\ scanned' \in {"no", "clean", "error"}
        /\ opSeen' \in BOOLEAN /\ left' \in Nat
    BY <1>1, ScanTyped DEF Watch, Parts, MemTyped, EnvTyped
  <1>3. CASE Begin("watch", row) /\ UNCHANGED <<row, blocked, exch>>
    <2>1. EnsTyped' /\ pc' = "locate" /\ work' \in Rows /\ dirty' \in BOOLEAN
      BY <1>1, <1>3, BeginShape DEF Parts, Modes
    <2>2. MemTyped' /\ EnvTyped' /\ row' \in Rows
      BY <1>1, <1>2, <1>3, <2>1 DEF Watch, Parts, MemTyped, EnvTyped, ExchTyped, exch
    <2> QED BY <2>1, <2>2, BegunShape
  <1>4. CASE /\ pc' = "reconcile" /\ UNCHANGED <<ens, dirty>>
             /\ row' \in Rows /\ blocked' \in BOOLEAN /\ ExchTyped'
    <2>1. EnsTyped' /\ MemTyped' /\ EnvTyped'
      BY <1>1, <1>2, <1>4 DEF Watch, Parts, EnsTyped, MemTyped, EnvTyped, ens
    <2> QED BY <1>4, <2>1, TickedShape DEF TickPCs
  <1>5. \/ Begin("watch", row) /\ UNCHANGED <<row, blocked, exch>>
        \/ /\ pc' = "reconcile" /\ UNCHANGED <<ens, dirty>>
           /\ row' \in {row, [row EXCEPT !.taken = TRUE], [row EXCEPT !.ever = TRUE]}
           /\ \/ UNCHANGED blocked
              \/ blocked' = FALSE
              \/ blocked' = (blocked /\ ~FoundIn(cache', row))
           /\ \/ UNCHANGED exch
              \/ \E ids : Remove(ids)
    BY DEF Watch
  <1>6. CASE /\ pc' = "reconcile" /\ UNCHANGED <<ens, dirty>>
             /\ row' \in {row, [row EXCEPT !.taken = TRUE], [row EXCEPT !.ever = TRUE]}
             /\ \/ UNCHANGED blocked
                \/ blocked' = FALSE
                \/ blocked' = (blocked /\ ~FoundIn(cache', row))
             /\ \/ UNCHANGED exch
                \/ \E ids : Remove(ids)
    <2>1. row' \in Rows
      BY <1>1, <1>6, TakenRow
    <2>2. blocked' \in BOOLEAN
      BY <1>1, <1>6 DEF Parts, MemTyped
    <2>3. ExchTyped'
      BY <1>1, <1>6, RemoveTyped DEF Parts, EnvTyped, ExchTyped, exch
    <2> QED BY <1>4, <1>6, <2>1, <2>2, <2>3
  <1> QED BY <1>3, <1>5, <1>6

LEMMA TickShape == ASSUME Shape, Tick PROVE Shape'
    BY ReconcileShape, ScanOrdersShape, LatchShape, DecideShape, WatchShape DEF Tick

-----------------------------------------------------------------------------
(* The environment keeps the shape.                                        *)

(* Steps that touch neither the process nor the ledger.                    *)
LEMMA OutsideShape ==
    ASSUME Shape, UNCHANGED <<pc, ens, mem, row>>, EnvTyped' PROVE Shape'
  <1>1. Parts /\ InHand
    BY PartsOfShape
  <1>2. EnsTyped' /\ MemTyped' /\ RowTyped' /\ PcTyped'
    BY <1>1 DEF Parts, EnsTyped, MemTyped, RowTyped, PcTyped, ens, mem
  <1>3. InHand'
    BY <1>1 DEF InHand, ens
  <1> QED BY <1>2, <1>3, ShapeOfParts DEF Parts

LEMMA GraceExpiresShape == ASSUME Shape, GraceExpires PROVE Shape'
  <1>1. Parts /\ row \in Rows
    BY PartsOfShape DEF GraceExpires, Parts, RowTyped
  <1>2. row' \in Rows
    BY <1>1 DEF GraceExpires, Rows, Graces
  <1>3. EnsTyped' /\ MemTyped' /\ EnvTyped'
    BY <1>1 DEF GraceExpires, Parts, EnsTyped, MemTyped, EnvTyped, ExchTyped, ens, mem, env, exch
  <1> QED BY <1>2, <1>3, TickedShape DEF GraceExpires, TickPCs

LEMMA OperatorPlacesShape == ASSUME Shape, OperatorPlaces PROVE Shape'
  <1>1. EnvTyped
    BY PartsOfShape DEF Parts
  <1>2. book' \in SUBSET Orders
    <2>1. PICK i \in OrderIds, k \in Kinds, n \in Sizes, p \in Stops :
             book' = book \cup {[id |-> i, cl |-> "op", kind |-> k, size |-> n,
                                px |-> p, live |-> TRUE]}
      BY DEF OperatorPlaces
    <2>2. [id |-> i, cl |-> "op", kind |-> k, size |-> n, px |-> p, live |-> TRUE] \in Orders
      BY DEF Orders, Families
    <2> QED BY <1>1, <2>1, <2>2 DEF EnvTyped, ExchTyped
  <1>3. EnvTyped'
    BY <1>1, <1>2, EventTyped DEF OperatorPlaces, EnvTyped, ExchTyped
  <1> QED BY <1>3, OutsideShape DEF OperatorPlaces

LEMMA CrashShape == ASSUME Shape, Crash PROVE Shape'
  <1>1. Parts
    BY PartsOfShape
  <1>2. EnsTyped'
    BY DEF Crash, Forget, EnsTyped, Modes
  <1>3. MemTyped' /\ RowTyped' /\ EnvTyped'
    BY <1>1, EventTyped DEF Crash, Parts, MemTyped, RowTyped, EnvTyped, ExchTyped, exch
  <1>4. PcTyped' /\ InHand'
    BY DEF Crash, PcTyped, InHand, EnsurePCs, TickPCs
  <1> QED BY <1>2, <1>3, <1>4, ShapeOfParts DEF Parts

LEMMA EnvironmentShape == ASSUME Shape, Environment PROVE Shape'
  <1>1. EnvTyped
    BY PartsOfShape DEF Parts
  <1>2. CASE Appear
    <2>1. EnvTyped'
      BY <1>1, <1>2 DEF Appear, EnvTyped, ExchTyped
    <2> QED BY <1>2, <2>1, OutsideShape DEF Appear
  <1>3. CASE Resize
    <2>1. EnvTyped'
      BY <1>1, <1>3, EventTyped DEF Resize, EnvTyped, ExchTyped, exch
    <2> QED BY <1>3, <2>1, OutsideShape DEF Resize
  <1>4. CASE GoFlat
    <2>1. ExchTyped'
      BY <1>1, <1>4, RemoveTyped DEF GoFlat, EnvTyped, exch, ExchTyped
    <2>2. EnvTyped'
      BY <1>1, <1>4, <2>1, EventTyped DEF GoFlat, EnvTyped
    <2> QED BY <1>4, <2>2, OutsideShape DEF GoFlat
  <1>5. CASE OperatorCancels
    <2>1. ExchTyped'
      BY <1>1, <1>5, RemoveTyped DEF OperatorCancels, EnvTyped
    <2>2. EnvTyped'
      BY <1>1, <1>5, <2>1, EventTyped DEF OperatorCancels, EnvTyped
    <2> QED BY <1>5, <2>2, OutsideShape DEF OperatorCancels
  <1> QED
    BY <1>2, <1>3, <1>4, <1>5, GraceExpiresShape, OperatorPlacesShape, CrashShape
    DEF Environment

-----------------------------------------------------------------------------
(* The theorems.                                                           *)

LEMMA InitShape == Init => Shape
  <1> SUFFICES ASSUME Init PROVE Shape
    OBVIOUS
  <1>1. 1 \in OrderIds /\ 1 \in Sizes /\ 1 \in Stops
    BY PlanAssumption DEF OrderIds, Sizes, Stops
  <1>2. row \in Rows
    BY <1>1 DEF Init, NewRow, Rows, Graces
  <1>3. book \in SUBSET Orders
    <2>1. \A c \in {"attach", "entry"}, k \in Kinds : Attached(c, k) \in Orders
      BY <1>1 DEF Attached, Orders, Families
    <2>2. book = {} \/ \E c \in {"attach", "entry"}, k \in Kinds : book = {Attached(c, k)}
      BY DEF Init
    <2> QED BY <2>1, <2>2
  <1>4. Parts
    <2>1. EnsTyped /\ MemTyped /\ PcTyped
      BY DEF Init, EnsTyped, MemTyped, PcTyped, Modes, TickPCs
    <2>2. wants \in BOOLEAN /\ left \in Nat /\ pos \in Sizes
      BY <1>1, EventsAssumption DEF Init
    <2>3. hidden = {} /\ gone = {} /\ dirty = TRUE
      BY DEF Init
    <2> QED BY <1>2, <1>3, <2>1, <2>2, <2>3 DEF Parts, RowTyped, EnvTyped, ExchTyped
  <1>5. InHand
    BY <1>2 DEF Init, InHand, EnsurePCs
  <1> QED BY <1>4, <1>5, PartsOfShape

LEMMA StutterShape == ASSUME Shape, UNCHANGED vars PROVE Shape'
  <1>1. UNCHANGED <<pc, ens, mem, row>> /\ EnvTyped'
    BY PartsOfShape DEF vars, Parts, EnvTyped, ExchTyped, env, exch
  <1> QED BY <1>1, OutsideShape

LEMMA NextShape == Shape /\ [Next]_vars => Shape'
    BY EnsureShape, TickShape, EnvironmentShape, StutterShape DEF Next, Over

LEMMA ShapeHolds == Spec => []Shape
    BY InitShape, NextShape, PTL DEF Spec

(* Every variable keeps its type, whatever fails: in particular nothing    *)
(* that is not an order is ever put on a list of orders to cancel.         *)
THEOREM TypeCorrect == Spec => []TypeOK
  <1>1. Shape => TypeOK
    BY DEF Shape
  <1> QED BY <1>1, ShapeHolds, PTL

(* Whenever the engine is about to cancel the old orders, the row on disk  *)
(* names the new one: a crash there leaves an order the next process knows.*)
THEOREM SwapsAreDurable == Spec => []SwapIsDurable
  <1>1. Shape => SwapIsDurable
    <2> SUFFICES ASSUME Shape, pc = "swap" PROVE sub # None /\ row # NoRow /\ row.slId = sub
      BY DEF SwapIsDurable
    <2>1. InHand
      BY DEF Shape
    <2> QED BY <2>1, NoRowAssumption DEF InHand
  <1> QED BY <1>1, ShapeHolds, PTL

-----------------------------------------------------------------------------
(* What the plan of ensure keeps, when no lookup returns an ended order.   *)

(* One live order for each family and id; a restored stop has no           *)
(* take-profit.  Copies of ensure's own agree with the exchange's order.   *)
OneEach ==
    /\ \A o, p \in book : o.cl = p.cl => o = p
    /\ \A o \in book : o.cl = "rst" => o.kind = "sl"
    /\ \A o, p \in book \cup inv : o.id = p.id => o = p

(* Two orders with both legs at the planned prices never tie: the restored *)
(* stop, the only family that ranks with another, has one leg.             *)
LEMMA FullOrdersRank ==
    ASSUME NEW S \in SUBSET Orders, NEW ctx,
           \A o, p \in S : o.cl = p.cl => o = p,
           \A o \in S : ~Tagged(o) /\ (o.cl = "rst" => o.kind = "sl"),
           NEW o \in S, NEW p \in S, SlValid(o, ctx), TpValid(o, ctx),
           SlValid(p, ctx) \/ TpValid(p, ctx)
    PROVE  /\ Rank(p, ctx) >= Rank(o, ctx) => SlValid(p, ctx) /\ TpValid(p, ctx)
           /\ Rank(p, ctx) = Rank(o, ctx) => o = p
           /\ ~(SlValid(p, ctx) /\ TpValid(p, ctx)) => Rank(p, ctx) <= Rank(o, ctx)
  <1>1. ctx.wants /\ o.kind = "oco" /\ o.cl # "rst" /\ SizeMatches(o, ctx)
    BY DEF TpValid
  <1>2. SizeMatches(p, ctx)
    BY DEF SlValid, TpValid
  <1>3. SlValid(p, ctx) /\ TpValid(p, ctx) <=> p.kind = "oco" /\ SlValid(p, ctx)
    BY <1>1, <1>2 DEF TpValid
  <1>4. o.cl \in Families /\ p.cl \in Families
    BY DEF Orders
  <1>5. CASE p.kind = "oco" /\ SlValid(p, ctx)
    <2>1. p.cl # "rst" /\ o.cl # "entry" /\ p.cl # "entry"
      BY <1>5 DEF Tagged
    <2> QED BY <1>1, <1>3, <1>4, <1>5, <2>1 DEF Rank, Families
  <1>6. CASE ~(p.kind = "oco" /\ SlValid(p, ctx))
    <2>1. Rank(p, ctx) <= 20 /\ Rank(o, ctx) >= 150
      BY <1>1, <1>6 DEF Rank
    <2>2. Rank(p, ctx) \in Nat /\ Rank(o, ctx) \in Nat
      BY DEF Rank
    <2>3. Rank(p, ctx) <= Rank(o, ctx) /\ ~(Rank(p, ctx) >= Rank(o, ctx))
          /\ Rank(p, ctx) # Rank(o, ctx)
      BY <2>1, <2>2
    <2> QED BY <1>3, <1>6, <2>3
  <1> QED BY <1>5, <1>6

(* What the plan calls its stop and its take-profit are such orders.       *)
LEMMA CanonicalValid ==
    ASSUME NEW S \in SUBSET Orders, NEW ctx, NEW s \in CanonicalSl(S, ctx),
           NEW t \in CanonicalTp(S, ctx)
    PROVE  /\ s # None => \E o \in S : /\ o.id = s /\ SlValid(o, ctx)
                                       /\ o \in Best({p \in S : SlValid(p, ctx)}, ctx)
           /\ t # None => \E o \in S : /\ o.id = t /\ TpValid(o, ctx)
                                       /\ o \in Best({p \in S : TpValid(p, ctx)}, ctx)
    BY DEF CanonicalSl, CanonicalTp, IdOrNone, Ids, Best

LEMMA CanonicalFits ==
    ASSUME NEW S \in SUBSET Orders, NEW ctx
    PROVE  /\ \A s \in CanonicalSl(S, ctx) : s # None => \E o \in S : SlValid(o, ctx)
           /\ \A t \in CanonicalTp(S, ctx) : t # None => \E o \in S : TpValid(o, ctx)
    BY DEF CanonicalSl, CanonicalTp, IdOrNone, Ids, Best

(* If there is an order with both legs as planned, it is the canonical     *)
(* stop as well as the canonical take-profit.                              *)
LEMMA BothLegs ==
    ASSUME NEW S \in SUBSET Orders, NEW ctx,
           \A o, p \in S : o.cl = p.cl => o = p,
           \A o \in S : ~Tagged(o) /\ (o.cl = "rst" => o.kind = "sl"),
           NEW s \in CanonicalSl(S, ctx), NEW t \in CanonicalTp(S, ctx),
           NEW o \in S, SlValid(o, ctx), TpValid(o, ctx),
           \/ o \in Best({p \in S : SlValid(p, ctx)}, ctx)
           \/ o \in Best({p \in S : TpValid(p, ctx)}, ctx)
    PROVE  s = o.id /\ t = o.id
  <1> DEFINE V == {p \in S : SlValid(p, ctx)}
             W == {p \in S : TpValid(p, ctx)}
  <1>1. \A p \in V \cup W : Rank(p, ctx) \in Nat
    BY DEF Rank
  <1>2. \A p \in V \cup W : Rank(p, ctx) <= Rank(o, ctx)
    <2> SUFFICES ASSUME NEW p \in V \cup W PROVE Rank(p, ctx) <= Rank(o, ctx)
      OBVIOUS
    <2>1. CASE SlValid(p, ctx) /\ TpValid(p, ctx)
      BY <2>1 DEF Best
    <2>2. CASE ~(SlValid(p, ctx) /\ TpValid(p, ctx))
      BY <2>2, FullOrdersRank
    <2> QED BY <2>1, <2>2
  <1>3. o \in Best(V, ctx) /\ o \in Best(W, ctx)
    BY <1>2 DEF Best
  <1>4. \A p \in Best(V, ctx) \cup Best(W, ctx) : p = o
    <2> SUFFICES ASSUME NEW p \in Best(V, ctx) \cup Best(W, ctx) PROVE p = o
      OBVIOUS
    <2>1. p \in V \cup W /\ o \in V \cup W /\ Rank(o, ctx) <= Rank(p, ctx)
      BY <1>3 DEF Best
    <2>2. Rank(p, ctx) = Rank(o, ctx)
      BY <1>1, <1>2, <2>1
    <2> QED BY <2>1, <2>2, FullOrdersRank
  <1>5. s \in Ids(Best(V, ctx)) /\ t \in Ids(Best(W, ctx))
    BY <1>3 DEF CanonicalSl, CanonicalTp, IdOrNone
  <1> QED BY <1>4, <1>5 DEF Ids

(* The canonical orders are not among those to cancel.                     *)
LEMMA CanonicalSpared ==
    ASSUME NEW S \in SUBSET Orders, NEW ctx,
           \A o, p \in S : o.cl = p.cl => o = p,
           \A o \in S : ~Tagged(o) /\ (o.cl = "rst" => o.kind = "sl"),
           \A o, p \in S : o.id = p.id => o = p,
           NEW s \in CanonicalSl(S, ctx), NEW t \in CanonicalTp(S, ctx)
    PROVE  /\ s # None => s \notin CancelTargets(S, ctx, s, t)
           /\ t # None => t \notin CancelTargets(S, ctx, s, t)
  <1> DEFINE V == {p \in S : SlValid(p, ctx)}
             W == {p \in S : TpValid(p, ctx)}
  <1>1. ASSUME s # None, s \in CancelTargets(S, ctx, s, t) PROVE FALSE
    <2>1. PICK o \in S : o.id = s /\ SlValid(o, ctx) /\ o \in Best(V, ctx)
      BY <1>1, CanonicalValid
    <2>2. TpValid(o, ctx) /\ o.id # t
      BY <1>1, <2>1 DEF CancelTargets, Stale, SlValid
    <2> QED BY <2>1, <2>2, BothLegs
  <1>2. ASSUME t # None, t \in CancelTargets(S, ctx, s, t) PROVE FALSE
    <2>1. PICK o \in S : o.id = t /\ TpValid(o, ctx) /\ o \in Best(W, ctx)
      BY <1>2, CanonicalValid
    <2>2. SlValid(o, ctx) /\ o.id # s
      BY <1>2, <2>1 DEF CancelTargets, Stale, TpValid
    <2> QED BY <2>1, <2>2, BothLegs
  <1> QED BY <1>1, <1>2

(* There are few ranks, so if an order fits, one is the best, and the plan *)
(* has a canonical one.                                                    *)
LEMMA BestFound ==
    ASSUME NEW ctx, ctx.wants, NEW W, Best(W, ctx) = {} PROVE W = {}
  <1>1. \A o \in W : Rank(o, ctx) \in {0, 10, 20, 150, 160, 170}
    BY DEF Rank
  <1>2. \A o \in W : \E p \in W : Rank(p, ctx) > Rank(o, ctx)
    BY <1>1 DEF Best
  <1>3. \A o \in W : Rank(o, ctx) # 170
    BY <1>1, <1>2
  <1>4. \A o \in W : Rank(o, ctx) # 160
    BY <1>1, <1>2, <1>3
  <1>5. \A o \in W : Rank(o, ctx) # 150
    BY <1>1, <1>2, <1>3, <1>4
  <1>6. \A o \in W : Rank(o, ctx) # 20
    BY <1>1, <1>2, <1>3, <1>4, <1>5
  <1>7. \A o \in W : Rank(o, ctx) # 10
    BY <1>1, <1>2, <1>3, <1>4, <1>5, <1>6
  <1> QED BY <1>1, <1>2, <1>3, <1>4, <1>5, <1>6, <1>7

LEMMA ProfitFound ==
    ASSUME NEW S \in SUBSET Orders, NEW ctx, None \in CanonicalTp(S, ctx)
    PROVE  \A o \in S : ~TpValid(o, ctx)
  <1> DEFINE W == {o \in S : TpValid(o, ctx)}
  <1>1. Best(W, ctx) = {}
    <2>1. \A o \in Best(W, ctx) : o.id # None
      BY NoneIsNoOrder DEF Best, Orders
    <2> QED BY <2>1 DEF CanonicalTp, IdOrNone, Ids
  <1>2. ctx.wants => W = {}
    BY <1>1, BestFound
  <1> QED BY <1>2 DEF TpValid

-----------------------------------------------------------------------------
(* The orders stay apart: an id and a family are free before they are used *)
(* again.                                                                  *)

LEMMA FewerEach ==
    ASSUME OneEach, book' \subseteq book, inv' \subseteq book \cup inv PROVE OneEach'
    BY DEF OneEach

LEMMA MoreEach ==
    ASSUME OneEach, NEW n, book' = book \cup {n}, inv' \subseteq inv,
           Live(n.cl) = {}, FreshId(n.id), n.cl = "rst" => n.kind = "sl"
    PROVE  OneEach'
  <1>1. \A o \in book \cup inv : o.id # n.id
    BY DEF FreshId, InUse, Ids
  <1>2. \A o \in book : o.cl # n.cl
    BY DEF Live
  <1> QED BY <1>1, <1>2 DEF OneEach

LEMMA RemoveEach == ASSUME NEW ids, Remove(ids) PROVE book' \subseteq book
    BY DEF Remove

LEMMA CancelEach == ASSUME NEW ids, Cancel(ids) PROVE book' \subseteq book
    BY RemoveEach DEF Cancel, exch

(* A submit adds one order, of the plan's size and stop, or none.          *)
NewOrder(i, cl, kind) == [id |-> i, cl |-> cl, kind |-> kind, size |-> size,
                          px |-> work.stop, live |-> TRUE]

LEMMA SentOne ==
    ASSUME NEW i, NEW cl, NEW kind,
           (Place(i, cl, kind) /\ Shown(i)) \/ Failed(i, cl, kind) \/ Refused(cl)
    PROVE  \/ book' = book
           \/ Live(cl) = {} /\ FreshId(i) /\ book' = book \cup {NewOrder(i, cl, kind)}
    BY DEF Place, Failed, Refused, exch, NewOrder

LEMMA SentEach ==
    ASSUME OneEach, NEW i, NEW cl, NEW kind, inv' \subseteq inv, cl = "rst" => kind = "sl",
           (Place(i, cl, kind) /\ Shown(i)) \/ Failed(i, cl, kind) \/ Refused(cl)
    PROVE  OneEach'
  <1>1. CASE book' = book
    BY <1>1, FewerEach
  <1>2. CASE Live(cl) = {} /\ FreshId(i) /\ book' = book \cup {NewOrder(i, cl, kind)}
    <2>1. /\ NewOrder(i, cl, kind).id = i /\ NewOrder(i, cl, kind).cl = cl
          /\ NewOrder(i, cl, kind).kind = kind
      BY DEF NewOrder
    <2> QED BY <1>2, <2>1, MoreEach
  <1> QED BY <1>1, <1>2, SentOne

LEMMA ForgotInventory == ASSUME Forget PROVE inv' = {}
    BY DEF Forget

LEMMA InventoryLive == ASSUME gone = {} PROVE Inventory \subseteq book /\ Visible \subseteq book
    BY DEF Inventory, Visible, Untagged

LEMMA EnsureEach == ASSUME OneEach, gone = {}, Ensure PROVE OneEach'
  <1>1. CASE Locate \/ Collect
    <2>1. book' = book
      BY <1>1 DEF Locate, Collect, env, exch
    <2>2. inv' \subseteq book \cup inv
      BY <1>1, ForgotInventory, InventoryLive DEF Locate, Collect, GiveUp, Return
    <2> QED BY <2>1, <2>2, FewerEach
  <1>2. CASE Clean \/ Swap
    BY <1>2, CancelEach, FewerEach DEF Clean, Swap, ens
  <1>3. CASE Submit
    <2>1. inv' = inv
      BY <1>3 DEF Submit
    <2>2. CASE clBlocked
      BY <1>3, <2>1, <2>2, FewerEach DEF Submit, exch
    <2>3. CASE ~clBlocked
      <3>1. PICK i : \/ Place(i, "s", WantedKind) /\ Shown(i)
                     \/ Failed(i, "s", WantedKind)
                     \/ Refused("s")
        BY <1>3, <2>3 DEF Submit
      <3> QED BY <2>1, <3>1, SentEach
    <2> QED BY <2>2, <2>3
  <1>4. CASE Resolve
    BY <1>4, CancelEach, FewerEach DEF Resolve, exch
  <1>5. CASE Persist \/ Rescan
    BY <1>5, FewerEach DEF Persist, Rescan, exch
  <1>6. CASE Finish
    BY <1>6, ForgotInventory, FewerEach DEF Finish, Return, env, exch
  <1>7. CASE RbCancel
    BY <1>7, RemoveEach, FewerEach DEF RbCancel, exch
  <1>8. CASE RbSubmit
    <2>1. PICK i : \/ Place(i, "s", "oco") /\ Shown(i)
                   \/ Failed(i, "s", "oco")
                   \/ Refused("s")
      BY <1>8 DEF RbSubmit
    <2>2. inv' = inv
      BY <1>8 DEF RbSubmit
    <2> QED BY <2>1, <2>2, SentEach
  <1>9. CASE RbQuery
    BY <1>9, InventoryLive, UntaggedFewer, FewerEach DEF RbQuery, Replan, exch
  <1>10. CASE RbRestore
    <2>1. inv' \subseteq inv
      BY <1>10, ForgotInventory DEF RbRestore, HardBlock, GiveUp, Return, ens
    <2> QED BY <1>10, <2>1, SentEach DEF RbRestore
  <1>11. CASE RbRequery
    <2>1. inv' \subseteq book \cup inv
      BY <1>11, ForgotInventory, InventoryLive, RequeryReads
      DEF Requeried, Restored, Replan, HardBlock, GiveUp, Return
    <2>2. book' = book
      BY <1>11 DEF RbRequery, exch
    <2> QED BY <2>1, <2>2, FewerEach
  <1> QED BY <1>1, <1>2, <1>3, <1>4, <1>5, <1>6, <1>7, <1>8, <1>9, <1>10, <1>11 DEF Ensure

LEMMA TickEach == ASSUME OneEach, Tick PROVE OneEach'
  <1>1. inv' = inv
    BY DEF Tick, Reconcile, ScanOrders, Latch, Decide, Watch, Begin, ens
  <1>2. UNCHANGED exch \/ \E ids : Cancel(ids) \/ Remove(ids)
    BY DEF Tick, Reconcile, ScanOrders, Latch, TakeOver, Decide, Watch
  <1>3. book' \subseteq book
    BY <1>2, CancelEach, RemoveEach DEF exch
  <1> QED BY <1>1, <1>3, FewerEach

LEMMA EnvironmentEach == ASSUME OneEach, Environment PROVE OneEach'
  <1>1. CASE Appear \/ GraceExpires \/ Resize
    BY <1>1, FewerEach DEF Appear, GraceExpires, Resize, ens, env, exch
  <1>2. CASE GoFlat \/ OperatorCancels
    BY <1>2, RemoveEach, FewerEach DEF GoFlat, OperatorCancels, ens, exch
  <1>3. CASE OperatorPlaces
    <2>1. PICK i \in OrderIds, k \in Kinds, n \in Sizes, p \in Stops :
             /\ FreshId(i)
             /\ book' = book \cup {[id |-> i, cl |-> "op", kind |-> k, size |-> n,
                                    px |-> p, live |-> TRUE]}
      BY <1>3 DEF OperatorPlaces
    <2>2. inv' = inv /\ Live("op") = {}
      BY <1>3 DEF OperatorPlaces, ens
    <2> DEFINE new == [id |-> i, cl |-> "op", kind |-> k, size |-> n, px |-> p, live |-> TRUE]
    <2>3. new.id = i /\ new.cl = "op"
      OBVIOUS
    <2>4. book' = book \cup {new}
      BY <2>1
    <2> HIDE DEF new
    <2> QED BY <2>1, <2>2, <2>3, <2>4, MoreEach
  <1>4. CASE Crash
    BY <1>4, ForgotInventory, FewerEach DEF Crash, exch
  <1> QED BY <1>1, <1>2, <1>3, <1>4 DEF Environment

(* No lookup returns an order that has ended.                              *)
LooksAlive == "deadLookup" \notin Faults

LEMMA NextEach ==
    ASSUME LooksAlive PROVE gone = {} /\ OneEach /\ [Next]_vars => gone' = {} /\ OneEach'
  <1> SUFFICES ASSUME gone = {}, OneEach, [Next]_vars PROVE gone' = {} /\ OneEach'
    OBVIOUS
  <1>1. \A ids : Remove(ids) => gone' = gone
    BY DEF Remove, LooksAlive
  <1>2. \A ids : Cancel(ids) => gone' = gone
    BY <1>1 DEF Cancel, exch
  <1>3. \A i, cl, kind : Place(i, cl, kind) \/ Failed(i, cl, kind) \/ Refused(cl)
                            => gone' \subseteq gone
    BY DEF Place, Failed, Refused, exch
  <1>4. ASSUME Ensure PROVE gone' \subseteq gone
    <2>1. CASE Locate \/ Collect \/ Persist \/ Rescan \/ Finish \/ RbQuery \/ RbRequery
      BY <2>1 DEF Locate, Collect, Persist, Rescan, Finish, RbQuery, RbRequery, env, exch
    <2>2. CASE Clean \/ Swap \/ Resolve \/ RbCancel
      BY <1>1, <1>2, <2>2 DEF Clean, Swap, Resolve, RbCancel, exch
    <2>3. CASE Submit \/ RbSubmit \/ RbRestore
      BY <1>3, <2>3 DEF Submit, RbSubmit, RbRestore, exch
    <2> QED BY <1>4, <2>1, <2>2, <2>3 DEF Ensure
  <1>5. ASSUME Tick PROVE gone' = gone
    BY <1>1, <1>2, <1>5
    DEF Tick, Reconcile, ScanOrders, Latch, TakeOver, Decide, Watch, exch
  <1>6. ASSUME Environment PROVE gone' = gone
    BY <1>1, <1>6
    DEF Environment, Appear, GraceExpires, Resize, GoFlat, OperatorPlaces,
        OperatorCancels, Crash, env, exch
  <1>7. ASSUME UNCHANGED vars PROVE gone' = gone /\ OneEach'
    BY <1>7, FewerEach DEF vars, env, exch, ens
  <1> QED BY <1>4, <1>5, <1>6, <1>7, EnsureEach, TickEach, EnvironmentEach DEF Next, Over

-----------------------------------------------------------------------------
(* The cover.                                                              *)

HasStop(S)   == \E o \in S : SlValid(o, Ctx)
HasProfit(S) == \E o \in S : TpValid(o, Ctx)
SlotsIn(S)   == (sl # None => HasStop(S)) /\ (tp # None => HasProfit(S))

(* The live orders ensure is not about to cancel.                          *)
Safe == {o \in book : o.id \notin targets}

Rebuild == {"rbCancel", "rbSubmit", "rbQuery", "rbRestore", "rbRequery"}

(* What ensure knows while nothing interferes: it protects the whole       *)
(* position; a slot it holds filled is filled by a live order, and by one  *)
(* that stays as long as there are orders to cancel; the orders it keeps   *)
(* in memory that fit are still there.  A rebuild spares every order that  *)
(* has the take-profit, and whoever gets to the write of the ledger has    *)
(* put a stop on the exchange that outlives the cancels after it.          *)
Covered ==
    /\ pc \in EnsurePCs \ {"locate"} => size = pos
    /\ pc \in {"submit", "resolve"} \cup Rebuild =>
          \A o \in inv : Adoptable(o, Ctx) => o \in book
    /\ pc \in {"submit", "resolve", "rescan", "finish"} => SlotsIn(book)
    /\ pc \in {"clean", "persist", "swap"} => SlotsIn(Safe)
    /\ pc \in {"persist", "swap"} => HasStop(Safe) /\ (HasProfit(inv) => HasProfit(Safe))
    /\ pc = "rescan" => (HasStop(inv) => HasStop(book)) /\ (HasProfit(inv) => HasProfit(book))
    /\ pc \in Rebuild =>
          wants /\ \A o \in book \cup inv : TpValid(o, Ctx) => o.id \notin targets
    /\ pc = "rbCancel" => tp = None /\ \E o \in Safe : o.id = sl /\ SlValid(o, Ctx)
    /\ pc = "rbRequery" => HasStop(Safe)

CoverInv == OneEach /\ gone = {} /\ (~dirty => Covered)

LEMMA OutsideCovered == ASSUME pc' \notin EnsurePCs \ {"locate"} PROVE Covered'
    BY DEF Covered, EnsurePCs, Rebuild

LEMMA SameCovered ==
    ASSUME Covered, UNCHANGED <<pc, ens, wants, pos, book>> PROVE Covered'
    BY DEF Covered, SlotsIn, HasStop, HasProfit, SlValid, TpValid, Adoptable, SizeMatches,
           Safe, Ctx, ens

LEMMA CollectCovered ==
    ASSUME Shape, OneEach, gone = {}, Covered, Collect PROVE Covered'
  <1>1. CASE GiveUp(blocked)
    BY <1>1, OutsideCovered DEF GiveUp, Return, EnsurePCs
  <1>2. CASE /\ inv' = Inventory
             /\ \E s \in CanonicalSl(Inventory, Ctx), t \in CanonicalTp(Inventory, Ctx) :
                   Plan(Inventory, s, t)
             /\ UNCHANGED <<mode, size, sub, subTp, tried, mem, row, env>>
    <2>1. PICK s \in CanonicalSl(Inventory, Ctx), t \in CanonicalTp(Inventory, Ctx) :
             Plan(Inventory, s, t)
      BY <1>2
    <2>2. Inventory \subseteq book /\ Inventory \in SUBSET Orders /\ work \in Rows
      BY InventoryLive, InventoryTyped, PartsOfShape
      DEF InHand, Collect, EnsurePCs, Parts, EnvTyped
    <2>3. /\ size' = pos' /\ Ctx' = Ctx /\ book' = book /\ wants' = wants
          /\ inv' = Inventory
      BY <1>2, <2>1, <2>2 DEF Plan, Ctx, Rows, Covered, Collect, EnsurePCs, env, exch
    <2>4. /\ sl' \in {None, s} /\ tp' \in {None, t}
          /\ pc' \in {"rbCancel", "submit", "finish", "clean"}
          /\ targets' \subseteq CancelTargets(Inventory, Ctx, s, t) \cup {s, t}
          /\ sl' # None \/ tp' # None \/ pc' = "rbCancel" =>
                targets' = CancelTargets(Inventory, Ctx, s, t)
          /\ pc' = "rbCancel" => /\ sl' = s /\ tp' = t /\ s # None /\ t = None /\ wants
      BY <2>1 DEF Plan, SlOnly, Ctx
    <2>5. /\ \A o, p \in Inventory : o.cl = p.cl => o = p
          /\ \A o \in Inventory : ~Tagged(o) /\ (o.cl = "rst" => o.kind = "sl")
          /\ \A o, p \in Inventory : o.id = p.id => o = p
      BY <2>2 DEF OneEach, Inventory, Untagged
    <2>6. /\ s # None => s \notin CancelTargets(Inventory, Ctx, s, t)
          /\ t # None => t \notin CancelTargets(Inventory, Ctx, s, t)
      BY <2>2, <2>5, CanonicalSpared
    <2>7. /\ s # None => \E o \in Inventory : o.id = s /\ SlValid(o, Ctx)
          /\ t # None => \E o \in Inventory : o.id = t /\ TpValid(o, Ctx)
      BY <2>2, CanonicalValid
    <2>8. /\ sl' # None => /\ \E o \in book : SlValid(o, Ctx)
                           /\ \E o \in book : o.id \notin targets' /\ o.id = s /\ SlValid(o, Ctx)
          /\ tp' # None => /\ \E o \in book : TpValid(o, Ctx)
                           /\ \E o \in book : o.id \notin targets' /\ TpValid(o, Ctx)
      BY <2>2, <2>4, <2>6, <2>7
    <2>9. ASSUME pc' = "rbCancel", NEW o \in book \cup Inventory, TpValid(o, Ctx)
          PROVE  o.id \notin targets'
      <3>1. o \in book /\ \A p \in Inventory : ~TpValid(p, Ctx)
        BY <2>2, <2>4, <2>9, ProfitFound
      <3>2. o \notin Inventory
        BY <2>9, <3>1
      <3>3. \A p \in Inventory : p.id # o.id
        BY <2>2, <3>1, <3>2 DEF OneEach
      <3> QED BY <2>4, <2>9, <3>3 DEF CancelTargets
    <2> USE DEF HasStop, HasProfit, SlotsIn, Safe, SlValid, TpValid, Adoptable, SizeMatches
    <2>10. /\ sl' # None => HasStop(book)' /\ HasStop(Safe)'
           /\ tp' # None => HasProfit(book)' /\ HasProfit(Safe)'
      BY <2>3, <2>8
    <2>11. pc' = "rbCancel" => /\ \E o \in Safe' : o.id = sl' /\ SlValid(o, Ctx)'
                               /\ tp' = None /\ wants'
                               /\ \A o \in (book \cup inv)' : TpValid(o, Ctx)' => o.id \notin targets'
      BY <2>3, <2>4, <2>8, <2>9
    <2> QED BY <2>2, <2>3, <2>4, <2>10, <2>11 DEF Covered, Rebuild
  <1> QED BY <1>1, <1>2 DEF Collect


LEMMA CleanCovered == ASSUME OneEach, Covered, Clean PROVE Covered'
  <1>1. book' = book \/ book' = Safe
    BY DEF Clean, Cancel, Remove, exch, Safe
  <1>2. SlotsIn(Safe) /\ size = pos /\ pc' = "finish"
    BY DEF Covered, Clean, EnsurePCs
  <1>3. SlotsIn(book)'
    BY <1>1, <1>2
    DEF Clean, SlotsIn, HasStop, HasProfit, SlValid, TpValid, SizeMatches, Ctx, Safe
  <1>4. (size = pos)'
    BY <1>2 DEF Clean
  <1> QED BY <1>2, <1>3, <1>4 DEF Covered, Rebuild

LEMMA SwapCovered == ASSUME Covered, Swap PROVE Covered'
  <1>1. book' = book \/ book' = Safe
    BY DEF Swap, Cancel, Remove, exch, Safe
  <1>2. /\ SlotsIn(Safe) /\ HasStop(Safe) /\ (HasProfit(inv) => HasProfit(Safe))
        /\ size = pos /\ pc' = "rescan"
    BY DEF Covered, Swap, EnsurePCs
  <1>3. /\ UNCHANGED <<size, pos, sl, tp, inv>> /\ Ctx' = Ctx
    BY DEF Swap, ens, Ctx
  <1>4. SlotsIn(book)' /\ HasStop(book)' /\ (HasProfit(inv)' => HasProfit(book)')
    BY <1>1, <1>2, <1>3
    DEF SlotsIn, HasStop, HasProfit, SlValid, TpValid, SizeMatches, Safe
  <1> QED BY <1>2, <1>3, <1>4 DEF Covered, Rebuild

(* The order a submit adds fits.                                           *)
LEMMA NewFits ==
    ASSUME work \in Rows, size \in Sizes, NEW i, NEW cl, NEW kind, FreshId(i)
    PROVE  /\ SlValid(NewOrder(i, cl, kind), Ctx)
           /\ wants /\ kind = "oco" => TpValid(NewOrder(i, cl, kind), Ctx)
           /\ NewOrder(i, cl, kind).id = i /\ i \notin targets
    BY DEF NewOrder, SlValid, TpValid, SizeMatches, Ctx, FreshId, InUse

LEMMA SubmitCovered == ASSUME Shape, Covered, Submit PROVE Covered'
  <1>1. /\ work \in Rows /\ size \in Sizes
        /\ UNCHANGED <<work, size, inv, sl, tp, targets, wants, pos>> /\ Ctx' = Ctx
    BY PartsOfShape DEF InHand, Submit, EnsurePCs, Ctx
  <1>2. size = pos /\ SlotsIn(book) /\ \A o \in inv : Adoptable(o, Ctx) => o \in book
    BY DEF Covered, Submit, EnsurePCs
  <1> USE DEF HasStop, HasProfit, SlotsIn, SlValid, TpValid, Adoptable, SizeMatches
  <1>3. CASE pc' = "resolve" /\ book' = book
    BY <1>1, <1>2, <1>3 DEF Covered, Rebuild
  <1>4. CASE pc' = "rescan" /\ book \subseteq book'
    BY <1>1, <1>2, <1>4 DEF Covered, Rebuild
  <1>5. ASSUME NEW i \in OrderIds, Place(i, "s", WantedKind), pc' = "persist" PROVE Covered'
    <2>1. FreshId(i) /\ book' = book \cup {NewOrder(i, "s", WantedKind)}
      BY <1>5 DEF Place, NewOrder
    <2> DEFINE n == NewOrder(i, "s", WantedKind)
    <2>2. SlValid(n, Ctx) /\ (wants => TpValid(n, Ctx)) /\ n.id \notin targets
      BY <1>1, <2>1, NewFits DEF WantedKind
    <2>3. n \in Safe'
      BY <1>1, <2>1, <2>2 DEF Safe
    <2> HIDE DEF n, SlValid, TpValid
    <2>4. HasStop(Safe)' /\ (wants => HasProfit(Safe)')
      BY <1>1, <2>2, <2>3 DEF SlValid, TpValid
    <2>5. (tp # None \/ HasProfit(inv)) => wants
      BY <1>2 DEF TpValid, Ctx
    <2>6. SlotsIn(Safe)' /\ (HasProfit(inv)' => HasProfit(Safe)')
      BY <1>1, <2>4, <2>5 DEF TpValid
    <2> QED BY <1>1, <1>2, <1>5, <2>4, <2>6 DEF Covered, Rebuild
  <1>6. \/ pc' = "resolve" /\ book' = book
        \/ pc' = "rescan" /\ book \subseteq book'
        \/ pc' = "persist" /\ \E i \in OrderIds : Place(i, "s", WantedKind)
    BY DEF Submit, Refused, Failed, Place, exch
  <1> QED BY <1>3, <1>4, <1>5, <1>6

LEMMA ResolveCovered == ASSUME OneEach, gone = {}, Covered, Resolve PROVE Covered'
  <1>1. /\ UNCHANGED <<work, size, inv, targets, wants, pos>> /\ Ctx' = Ctx
        /\ pc' \in {"rescan", "finish"}
    BY DEF Resolve, Ctx
  <1>2. size = pos /\ SlotsIn(book) /\ \A o \in inv : Adoptable(o, Ctx) => o \in book
    BY DEF Covered, Resolve, EnsurePCs
  <1>4. ASSUME UNCHANGED exch, (sl' # None => HasStop(book)), (tp' # None => HasProfit(book))
        PROVE  Covered'
    BY <1>1, <1>2, <1>4
    DEF Covered, Rebuild, HasStop, HasProfit, SlotsIn, SlValid, TpValid, Adoptable,
        SizeMatches, exch
  <1>5. CASE UNCHANGED <<sl, tp, exch>>
    BY <1>2, <1>4, <1>5 DEF SlotsIn
  <1>6. ASSUME NEW o \in Found51068, Adoptable(o, Ctx), UNCHANGED exch,
               sl' = (IF SlValid(o, Ctx) THEN o.id ELSE sl),
               tp' = (IF TpValid(o, Ctx) THEN o.id ELSE tp)
        PROVE  Covered'
    <2>1. o \in book
      BY <1>2, <1>6 DEF Found51068, Live
    <2> QED BY <1>2, <1>4, <1>6, <2>1 DEF HasStop, HasProfit, SlotsIn
  <1>7. ASSUME NEW o \in Found51068, ~Adoptable(o, Ctx), Cancel({o.id}), UNCHANGED <<sl, tp>>
        PROVE  Covered'
    <2>1. o \in book \cup inv
      BY <1>7 DEF Found51068, Live
    <2>2. book' \subseteq book /\ \A p \in book : p \in book' \/ p.id = o.id
      BY <1>7 DEF Cancel, Remove, exch
    <2>3. \A p \in book : Adoptable(p, Ctx) => p \in book'
      BY <1>7, <2>1, <2>2 DEF OneEach
    <2> QED
      BY <1>1, <1>2, <1>7, <2>3
      DEF Covered, Rebuild, HasStop, HasProfit, SlotsIn, SlValid, TpValid, Adoptable,
          SizeMatches
  <1>8. \/ UNCHANGED <<sl, tp, exch>>
        \/ \E o \in Found51068 :
              \/ /\ Adoptable(o, Ctx) /\ UNCHANGED exch
                 /\ sl' = (IF SlValid(o, Ctx) THEN o.id ELSE sl)
                 /\ tp' = (IF TpValid(o, Ctx) THEN o.id ELSE tp)
              \/ ~Adoptable(o, Ctx) /\ Cancel({o.id}) /\ UNCHANGED <<sl, tp>>
    BY DEF Resolve, Resolution
  <1> QED BY <1>5, <1>6, <1>7, <1>8


LEMMA PersistCovered == ASSUME Shape, Covered, Persist PROVE Covered'
  <1>1. work \in Rows
    BY PartsOfShape DEF InHand, Persist, EnsurePCs
  <1>2. work'.stop = work.stop
    BY <1>1 DEF Persist, Rows
  <1>3. /\ UNCHANGED <<size, inv, sl, tp, targets, wants, pos, book>> /\ Ctx' = Ctx
        /\ pc' \in {"rescan", "swap"}
    BY <1>2 DEF Persist, Ctx, exch
  <1>4. /\ size = pos /\ SlotsIn(Safe) /\ HasStop(Safe)
        /\ (HasProfit(inv) => HasProfit(Safe))
    BY DEF Covered, Persist, EnsurePCs
  <1> QED BY <1>3, <1>4
    DEF Covered, Rebuild, HasStop, HasProfit, SlotsIn, SlValid, TpValid, SizeMatches, Safe

LEMMA RescanCovered == ASSUME Shape, Covered, Rescan PROVE Covered'
  <1>1. /\ UNCHANGED <<work, size, inv, targets, wants, pos, book>> /\ Ctx' = Ctx
        /\ pc' = "finish"
    BY DEF Rescan, Ctx, exch
  <1>2. /\ size = pos /\ SlotsIn(book)
        /\ (HasStop(inv) => HasStop(book)) /\ (HasProfit(inv) => HasProfit(book))
    BY DEF Covered, Rescan, EnsurePCs
  <1>3. inv \cup Untagged(Visible) \in SUBSET Orders /\ Untagged(Visible) \subseteq book
    BY PartsOfShape, InventoryTyped, UntaggedFewer DEF Parts, EnsTyped, EnvTyped, Visible
  <1>4. (sl' # None => HasStop(book)) /\ (tp' # None => HasProfit(book))
    <2>1. CASE UNCHANGED <<sl, tp>>
      BY <1>2, <2>1 DEF SlotsIn
    <2>2. ASSUME NEW s \in CanonicalSl(inv \cup Untagged(Visible), Ctx),
                 NEW t \in CanonicalTp(inv \cup Untagged(Visible), Ctx),
                 sl' = (IF s = None THEN sl ELSE s), tp' = (IF t = None THEN tp ELSE t)
          PROVE  (sl' # None => HasStop(book)) /\ (tp' # None => HasProfit(book))
      <3>1. /\ s # None => \E o \in inv \cup Untagged(Visible) : SlValid(o, Ctx)
            /\ t # None => \E o \in inv \cup Untagged(Visible) : TpValid(o, Ctx)
        BY <1>3, CanonicalFits
      <3>2. (s # None => HasStop(book)) /\ (t # None => HasProfit(book))
        BY <1>2, <1>3, <3>1 DEF HasStop, HasProfit
      <3> QED BY <1>2, <2>2, <3>2 DEF SlotsIn
    <2> QED BY <2>1, <2>2 DEF Rescan
  <1> QED BY <1>1, <1>2, <1>4
    DEF Covered, Rebuild, HasStop, HasProfit, SlotsIn, SlValid, TpValid, SizeMatches

-----------------------------------------------------------------------------
(* The rebuild.                                                            *)

LEMMA RbCancelCovered == ASSUME Covered, RbCancel PROVE Covered'
  <1>1. /\ UNCHANGED <<work, size, sl, tp, targets, wants, pos>> /\ Ctx' = Ctx
    BY DEF RbCancel, Ctx
  <1>2. /\ size = pos /\ wants /\ tp = None
        /\ \A o \in inv : Adoptable(o, Ctx) => o \in book
        /\ \A o \in book \cup inv : TpValid(o, Ctx) => o.id \notin targets
        /\ \E o \in Safe : o.id = sl /\ SlValid(o, Ctx)
    BY DEF Covered, RbCancel, EnsurePCs, Rebuild
  <1> USE DEF HasStop, HasProfit, SlotsIn, SlValid, TpValid, Adoptable, SizeMatches, Safe
  <1>3. CASE Remove({sl}) /\ inv' = {o \in inv : o.id # sl} /\ pc' = "rbSubmit"
    <2>1. book' = {o \in book : o.id # sl}
      BY <1>3 DEF Remove
    <2> QED BY <1>1, <1>2, <1>3, <2>1 DEF Covered, Rebuild
  <1>4. CASE pc' = "persist" /\ UNCHANGED <<inv, exch>>
    <2>1. SlotsIn(Safe) /\ HasStop(Safe) /\ (HasProfit(inv) => HasProfit(Safe))
      BY <1>2
    <2> QED BY <1>1, <1>2, <1>4, <2>1 DEF Covered, Rebuild, exch
  <1> QED BY <1>3, <1>4 DEF RbCancel

(* What the rebuild relies on between its requests.                        *)
LEMMA RebuildCovered ==
    ASSUME Covered, UNCHANGED <<size, wants, pos, targets>>, Ctx' = Ctx, size = pos,
           pc' \in {"rbSubmit", "rbQuery", "rbRestore", "rbRequery"}, wants,
           \A o \in inv' : Adoptable(o, Ctx) => o \in book',
           \A o \in book' : TpValid(o, Ctx) => o.id \notin targets,
           pc' = "rbRequery" => \E o \in book' : o.id \notin targets /\ SlValid(o, Ctx)
    PROVE  Covered'
    BY DEF Covered, Rebuild, HasStop, SlValid, TpValid, Adoptable, SizeMatches, Safe

LEMMA RbSubmitCovered == ASSUME Shape, Covered, RbSubmit PROVE Covered'
  <1>1. /\ UNCHANGED <<work, size, inv, sl, tp, targets, wants, pos>> /\ Ctx' = Ctx
        /\ pc' = "rbQuery" /\ work \in Rows /\ size \in Sizes
    BY PartsOfShape DEF RbSubmit, Ctx, InHand, EnsurePCs
  <1>2. /\ size = pos /\ wants
        /\ \A o \in inv : Adoptable(o, Ctx) => o \in book
        /\ \A o \in book \cup inv : TpValid(o, Ctx) => o.id \notin targets
    BY DEF Covered, RbSubmit, EnsurePCs, Rebuild
  <1>3. PICK i : \/ Place(i, "s", "oco") /\ Shown(i)
                 \/ Failed(i, "s", "oco")
                 \/ Refused("s")
    BY DEF RbSubmit
  <1>4. /\ book \subseteq book'
        /\ \A o \in book' : o \in book \/ o.id \notin targets
    BY <1>1, <1>3, SentOne, NewFits
  <1> QED BY <1>1, <1>2, <1>4, RebuildCovered

LEMMA RbQueryCovered == ASSUME Shape, Covered, RbQuery PROVE Covered'
  <1>1. /\ UNCHANGED <<work, size, targets, wants, pos, book>> /\ Ctx' = Ctx
    BY DEF RbQuery, Ctx, exch
  <1>2. /\ size = pos /\ wants
        /\ \A o \in inv : Adoptable(o, Ctx) => o \in book
        /\ \A o \in book \cup inv : TpValid(o, Ctx) => o.id \notin targets
    BY DEF Covered, RbQuery, EnsurePCs, Rebuild
  <1>3. \A o \in inv \cup Visible : Adoptable(o, Ctx) => o \in book
    BY <1>2 DEF Visible
  <1>4. CASE pc' = "rbRestore" /\ inv' \subseteq inv \cup Visible
    BY <1>1, <1>2, <1>3, <1>4, RebuildCovered
  <1>5. ASSUME NEW f, TruthComplete(inv \cup Visible, Ctx, f), pc' = "persist",
               Replan(Untagged(inv \cup Visible))
        PROVE  Covered'
    <2>1. PICK o \in inv \cup Visible : SlValid(o, Ctx) /\ TpValid(o, Ctx)
      BY <1>2, <1>5 DEF TruthComplete, SlValid, TpValid, Ctx
    <2>2. o \in Safe
      BY <1>2, <1>3, <2>1 DEF Safe, Adoptable
    <2>3. HasStop(Safe)' /\ HasProfit(Safe)'
      BY <1>1, <2>1, <2>2
      DEF HasStop, HasProfit, SlValid, TpValid, SizeMatches, Safe
    <2> QED BY <1>1, <1>2, <1>5, <2>3 DEF Covered, Rebuild, SlotsIn
  <1>6. \/ pc' = "rbRestore" /\ inv' \subseteq inv \cup Visible
        \/ \E f : /\ TruthComplete(inv \cup Visible, Ctx, f) /\ pc' = "persist"
                  /\ Replan(Untagged(inv \cup Visible))
    BY DEF RbQuery
  <1> QED BY <1>4, <1>5, <1>6

LEMMA RbRestoreCovered == ASSUME Shape, Covered, RbRestore PROVE Covered'
  <1>1. CASE HardBlock
    BY <1>1, OutsideCovered DEF HardBlock, GiveUp, Return, EnsurePCs
  <1>2. ASSUME NEW i, Place(i, "rst", "sl"), Shown(i), pc' = "rbRequery",
               UNCHANGED ens
        PROVE  Covered'
    <2>1. /\ work \in Rows /\ size \in Sizes
          /\ UNCHANGED <<size, inv, targets, wants, pos>> /\ Ctx' = Ctx
      BY <1>2, PartsOfShape DEF InHand, RbRestore, EnsurePCs, Ctx, ens
    <2>2. /\ size = pos /\ wants
          /\ \A o \in inv : Adoptable(o, Ctx) => o \in book
          /\ \A o \in book \cup inv : TpValid(o, Ctx) => o.id \notin targets
      BY DEF Covered, RbRestore, EnsurePCs, Rebuild
    <2>3. FreshId(i) /\ book' = book \cup {NewOrder(i, "rst", "sl")}
      BY <1>2 DEF Place, NewOrder
    <2>4. /\ SlValid(NewOrder(i, "rst", "sl"), Ctx)
          /\ NewOrder(i, "rst", "sl").id \notin targets
      BY <2>1, <2>3, NewFits
    <2> QED BY <1>2, <2>1, <2>2, <2>3, <2>4, RebuildCovered
  <1> QED BY <1>1, <1>2 DEF RbRestore

LEMMA RbRequeryCovered == ASSUME Shape, Covered, RbRequery PROVE Covered'
  <1>1. CASE HardBlock
    BY <1>1, OutsideCovered DEF HardBlock, GiveUp, Return, EnsurePCs
  <1>2. ASSUME NEW seen, NEW i, Requeried(seen, i), Replan(i), pc' = "persist",
               UNCHANGED <<work, size, targets>>
        PROVE  Covered'
    <2>1. UNCHANGED <<work, size, targets, wants, pos, book>> /\ Ctx' = Ctx
      BY <1>2 DEF RbRequery, Ctx, exch
    <2>2. /\ size = pos /\ HasStop(Safe)
          /\ \A o \in inv : Adoptable(o, Ctx) => o \in book
          /\ \A o \in book \cup inv : TpValid(o, Ctx) => o.id \notin targets
      BY DEF Covered, RbRequery, EnsurePCs, Rebuild
    <2>3. i \in SUBSET Orders /\ i \subseteq book \cup inv
      BY <1>2, PartsOfShape, InventoryTyped DEF Parts, EnsTyped, EnvTyped, Visible, Requeried
    <2>4. \A o \in i : TpValid(o, Ctx) => o \in Safe
      BY <2>2, <2>3 DEF Visible, Safe, Adoptable
    <2>5. inv' = i /\ tp' \in CanonicalTp(i, Ctx) /\ sl' \in CanonicalSl(i, Ctx)
      BY <1>2 DEF Replan
    <2>6. (tp' # None => HasProfit(Safe)) /\ ((\E o \in inv' : TpValid(o, Ctx)) => HasProfit(Safe))
      <3>1. tp' # None => \E o \in i : TpValid(o, Ctx)
        BY <2>3, <2>5, CanonicalFits
      <3> QED BY <2>4, <2>5, <3>1 DEF HasProfit
    <2> QED BY <1>2, <2>1, <2>2, <2>6
      DEF Covered, Rebuild, SlotsIn, HasStop, HasProfit, SlValid, TpValid, SizeMatches, Safe
  <1> QED BY <1>1, <1>2, RequeryReads DEF Restored

-----------------------------------------------------------------------------
(* The steps of ensure keep the cover; those of others either tell that    *)
(* something happened or leave what it speaks of alone.                    *)

LEMMA LocateCovered == ASSUME Locate PROVE Covered'
  <1>1. CASE pc' \notin EnsurePCs \ {"locate"}
    BY <1>1, OutsideCovered
  <1>2. CASE pc' = "collect" /\ size' = pos /\ pos' = pos
    BY <1>2 DEF Covered, Rebuild
  <1> QED BY <1>1, <1>2 DEF Locate, GiveUp, Return, EnsurePCs, env

LEMMA EnsureCovered ==
    ASSUME Shape, OneEach, gone = {}, ~dirty => Covered, Ensure PROVE ~dirty' => Covered'
  <1>1. dirty' = dirty
    BY DEF Ensure, Locate, Collect, Clean, Submit, Resolve, Persist, Swap, Rescan, Finish,
           RbCancel, RbSubmit, RbQuery, RbRestore, RbRequery, env
  <1>2. CASE Finish
    BY <1>2, OutsideCovered DEF Finish, Return, EnsurePCs
  <1> QED
    BY <1>1, <1>2, LocateCovered, CollectCovered, CleanCovered, SubmitCovered,
       ResolveCovered, PersistCovered, SwapCovered, RescanCovered, RbCancelCovered,
       RbSubmitCovered, RbQueryCovered, RbRestoreCovered, RbRequeryCovered
    DEF Ensure

LEMMA TickCovered == ASSUME Tick PROVE Covered'
  <1>1. pc' \in TickPCs \cup {"locate"}
    BY DEF Tick, Reconcile, ScanOrders, Latch, Decide, Watch, Begin, TickPCs
  <1> QED BY <1>1, OutsideCovered DEF TickPCs, EnsurePCs

LEMMA EnvironmentCovered ==
    ASSUME ~dirty => Covered, Environment PROVE ~dirty' => Covered'
  <1>1. CASE Appear
    BY <1>1, SameCovered DEF Appear
  <1>2. CASE GraceExpires
    BY <1>2, OutsideCovered DEF GraceExpires, EnsurePCs
  <1>3. CASE Resize \/ GoFlat \/ OperatorPlaces \/ OperatorCancels \/ Crash
    BY <1>3 DEF Resize, GoFlat, OperatorPlaces, OperatorCancels, Crash
  <1> QED BY <1>1, <1>2, <1>3 DEF Environment

LEMMA InitCover == Init => CoverInv
  <1> SUFFICES ASSUME Init PROVE OneEach /\ gone = {} /\ dirty
    BY DEF CoverInv
  <1>1. \A o, p \in book : o = p
    BY DEF Init
  <1>2. \A o \in book : o.cl \in {"attach", "entry"}
    BY DEF Init, Attached
  <1> QED BY <1>1, <1>2 DEF Init, OneEach

LEMMA NextCover == ASSUME LooksAlive PROVE Shape /\ CoverInv /\ [Next]_vars => CoverInv'
  <1> SUFFICES ASSUME Shape, CoverInv, [Next]_vars PROVE CoverInv'
    OBVIOUS
  <1>1. gone' = {} /\ OneEach'
    BY NextEach DEF CoverInv
  <1>2. ASSUME UNCHANGED vars PROVE ~dirty' => Covered'
    BY <1>2, SameCovered DEF CoverInv, vars, env, exch
  <1>3. ~dirty' => Covered'
    BY <1>2, EnsureCovered, TickCovered, EnvironmentCovered DEF CoverInv, Next, Over
  <1> QED BY <1>1, <1>3 DEF CoverInv

LEMMA CoverHolds == ASSUME LooksAlive PROVE Spec => []CoverInv
    BY InitCover, NextCover, ShapeHolds, PTL DEF Spec

(* An ensure that reports success without relying on an id it has not seen *)
(* leaves the whole position covered at the planned stop, and a            *)
(* take-profit if there is to be one: whatever queries, submits, cancels   *)
(* and writes fail, answers are lost, orders appear late and the process   *)
(* dies, and whatever the operator does, as long as no lookup returns an   *)
(* order that has ended.                                                   *)
THEOREM SuccessReal == ASSUME LooksAlive PROVE Spec => []SuccessIsReal
  <1>1. Shape /\ CoverInv => SuccessIsReal
    <2> SUFFICES ASSUME Shape, CoverInv, pc = "finish", Success, ProvSl = None, ~dirty
                 PROVE  StopAt(work.stop) /\ (wants /\ ProvTp = None => ProfitOn)
      BY DEF SuccessIsReal
    <2>1. size = pos /\ SlotsIn(book)
      BY DEF CoverInv, Covered, EnsurePCs
    <2>2. sl # None /\ (wants /\ ProvTp = None => tp # None)
      BY DEF Success, Complete, FinalSl, FinalTp, Ctx
    <2> QED BY <2>1, <2>2
      DEF SlotsIn, HasStop, HasProfit, SlValid, TpValid, SizeMatches, Ctx, StopAt, ProfitOn
  <1> QED BY <1>1, ShapeHolds, CoverHolds, PTL


-----------------------------------------------------------------------------
(* Without an add-on the plan never gives up the stop it has found.        *)

Plain(r) == r \in Rows => ~r.addon
PlainRows ==
    /\ Plain(row) /\ Plain(work)
    /\ pc = "clean" => sl # None

NoAddons == "addon" \notin Faults

LEMMA PlainCopies ==
    ASSUME NEW r \in Rows, Plain(r)
    PROVE  /\ \A b \in BOOLEAN : /\ Plain([r EXCEPT !.failed = b]) /\ Plain([r EXCEPT !.taken = b])
                                 /\ Plain([r EXCEPT !.ever = b]) /\ Plain([r EXCEPT !.young = b])
           /\ \A p : Plain([r EXCEPT !.stop = p]) /\ Plain([r EXCEPT !.grace = p])
           /\ Plain([r EXCEPT !.addon = FALSE])
           /\ \A s, t, g, e : Plain([r EXCEPT !.slId = s, !.ever = e, !.grace = g, !.tpId = t])
           /\ \A s, t, g, e, f :
                 Plain([r EXCEPT !.slId = s, !.tpId = t, !.failed = f, !.ever = e, !.grace = g])
    BY DEF Plain, Rows

LEMMA ReturnedPlain ==
    ASSUME Plain(row), Plain(work), NEW ok, NEW m, NEW b, NEW r, Plain(r), Return(ok, m, r, b)
    PROVE  PlainRows'
  <1>1. row' \in {row, r, work} /\ work' = NoRow /\ pc' # "clean"
    BY DEF Return, Forget
  <1> QED BY <1>1, NoRowAssumption DEF PlainRows, Plain

LEMMA EnsurePlain == ASSUME Shape, PlainRows, Ensure PROVE PlainRows'
  <1>1. row \in Rows /\ work \in Rows
    BY PartsOfShape
    DEF InHand, EnsurePCs, Ensure, Locate, Collect, Clean, Submit, Resolve, Persist, Swap,
        Rescan, Finish, RbCancel, RbSubmit, RbQuery, RbRestore, RbRequery
  <1>2. ASSUME NEW b, GiveUp(b) PROVE PlainRows'
    BY <1>1, <1>2, PlainCopies, ReturnedPlain DEF GiveUp, PlainRows
  <1>3. ASSUME UNCHANGED <<row, work>>, pc' # "clean" PROVE PlainRows'
    BY <1>3 DEF PlainRows, Plain
  <1>4. CASE Locate
    BY <1>2, <1>3, <1>4, ReturnedPlain DEF Locate, PlainRows
  <1>5. CASE Collect
    <2>1. ASSUME NEW i, NEW s, NEW t, Plan(i, s, t), UNCHANGED mem, row' = row
          PROVE  PlainRows'
      <3>1. Plain(work') /\ ~work.addon
        BY <1>1, <2>1, PlainCopies DEF Plan, PlainRows, Plain
      <3>2. pc' = "clean" => sl' # None
        BY <2>1, <3>1 DEF Plan, NeedSubmit, Deferred
      <3> QED BY <2>1, <3>1, <3>2 DEF PlainRows, Plain
    <2> QED BY <1>2, <1>5, <2>1 DEF Collect
  <1>6. CASE Clean \/ Swap
    BY <1>3, <1>6 DEF Clean, Swap, ens
  <1>7. CASE Submit
    BY <1>3, <1>7 DEF Submit
  <1>8. CASE Resolve
    BY <1>3, <1>8 DEF Resolve
  <1>9. CASE Persist
    <2>1. CASE UNCHANGED <<row, work>>
      BY <1>3, <1>9, <2>1 DEF Persist
    <2>2. CASE /\ row' = [work EXCEPT !.slId = sub, !.ever = TRUE, !.grace = "ahead",
                                      !.tpId = IF wants /\ subTp # None THEN subTp ELSE @]
               /\ work' = row'
      <3>1. Plain(row')
        BY <1>1, <2>2, PlainCopies DEF PlainRows
      <3> QED BY <1>9, <2>2, <3>1 DEF PlainRows, Persist
    <2> QED BY <1>9, <2>1, <2>2 DEF Persist
  <1>10. CASE Rescan \/ RbCancel \/ RbSubmit \/ RbQuery
    BY <1>3, <1>10 DEF Rescan, RbCancel, RbSubmit, RbQuery
  <1>11. CASE Finish
    <2> DEFINE r == [work EXCEPT !.slId = FinalSl, !.tpId = FinalTp, !.failed = ~Success,
                                 !.ever = @ \/ FinalSl # None,
                                 !.grace = IF ProvSl # None \/ ProvTp # None
                                           THEN "ahead" ELSE "none"]
    <2>1. Plain(r)
      BY <1>1 DEF PlainRows, Plain, Rows
    <2>2. Return(Success, changed, r, ~Success)
      BY <1>11 DEF Finish
    <2> HIDE DEF r
    <2> QED BY <2>1, <2>2, ReturnedPlain DEF PlainRows
  <1>12. CASE RbRestore \/ RbRequery
    BY <1>2, <1>3, <1>12 DEF RbRestore, RbRequery, Restored, HardBlock, ens
  <1> QED BY <1>4, <1>5, <1>6, <1>7, <1>8, <1>9, <1>10, <1>11, <1>12 DEF Ensure

LEMMA NextPlain == ASSUME NoAddons PROVE Shape /\ PlainRows /\ [Next]_vars => PlainRows'
  <1> SUFFICES ASSUME Shape, PlainRows, [Next]_vars PROVE PlainRows'
    OBVIOUS
  <1>1. row \in Rows => \A r \in {row, [row EXCEPT !.taken = TRUE], [row EXCEPT !.ever = TRUE],
                                   [row EXCEPT !.stop = @ + 1], [row EXCEPT !.grace = "past"],
                                   [row EXCEPT !.young = FALSE]} : Plain(r)
    BY PlainCopies DEF PlainRows
  <1>2. row = NoRow => row \notin Rows
    BY NoRowAssumption
  <1>3. row \in Rows \/ row = NoRow
    BY DEF Shape, TypeOK
  <1>4. CASE Tick
    <2>1. row \in Rows
      BY <1>3, <1>4, PartsOfShape
      DEF Tick, Reconcile, ScanOrders, Latch, Decide, Watch, InHand
    <2>2. Latch => Plain(row')
      <3>1. ASSUME Latch PROVE row' \in {row, [row EXCEPT !.taken = TRUE]}
                               \/ \E b \in BOOLEAN : row' = [row EXCEPT !.ever = b]
        BY <3>1 DEF Latch, TakeOver
      <3> QED BY <1>1, <2>1, <3>1, PlainCopies DEF PlainRows
    <2>3. row' \in {row, NoRow, [row EXCEPT !.taken = TRUE], [row EXCEPT !.ever = TRUE],
                    [row EXCEPT !.stop = @ + 1]} \/ Latch
      BY <1>4 DEF Tick, Reconcile, ScanOrders, Decide, Watch, Event, NoAddons
    <2>4. Plain(row')
      BY <1>1, <2>1, <2>2, <2>3, NoRowAssumption DEF Plain
    <2>5. work' \in {work, row, [row EXCEPT !.stop = @ + 1]} /\ pc' # "clean"
      BY <1>4 DEF Tick, Reconcile, ScanOrders, Latch, Decide, Watch, Begin, ens
    <2>6. Plain(work')
      BY <1>1, <2>1, <2>5 DEF PlainRows
    <2> QED BY <2>4, <2>5, <2>6 DEF PlainRows
  <1>5. CASE Environment
    <2>1. row' \in {row, [row EXCEPT !.grace = "past"], [row EXCEPT !.young = FALSE]}
          /\ work' \in {work, NoRow} /\ (pc' = "clean" => pc = "clean" /\ sl' = sl)
      BY <1>5 DEF Environment, Appear, GraceExpires, Resize, GoFlat, OperatorPlaces,
                  OperatorCancels, Crash, Forget, ens, env
    <2>2. Plain(row')
      <3>1. row' = row \/ row \in Rows
        BY <1>3, <1>5
        DEF Environment, Appear, GraceExpires, Resize, GoFlat, OperatorPlaces,
            OperatorCancels, Crash, env
      <3> QED BY <1>1, <2>1, <3>1 DEF PlainRows
    <2>3. Plain(work')
      BY <2>1, NoRowAssumption DEF PlainRows, Plain
    <2> QED BY <2>1, <2>2, <2>3 DEF PlainRows
  <1>6. CASE UNCHANGED vars
    BY <1>6 DEF vars, ens, PlainRows, Plain
  <1> QED BY <1>4, <1>5, <1>6, EnsurePlain DEF Next, Over

LEMMA PlainHolds == ASSUME NoAddons PROVE Spec => []PlainRows
  <1>1. Init => PlainRows
    BY NoRowAssumption DEF Init, PlainRows, Plain, NewRow
  <1> QED BY <1>1, NextPlain, ShapeHolds, PTL DEF Spec

(* A request that keeps every live order, or every one that fits and is    *)
(* not to be cancelled while one of these is a stop, keeps the cover.      *)
LEMMA EnsureKeepsStop ==
    ASSUME Shape, OneEach, gone = {}, Covered, PlainRows, Ensure, pc # "rbCancel",
           StopAt(work.stop)
    PROVE  \E o \in book' : o.size = pos /\ o.px = work.stop
  <1>1. ASSUME book \subseteq book' PROVE \E o \in book' : o.size = pos /\ o.px = work.stop
    BY <1>1 DEF StopAt
  <1>2. ASSUME pc \in EnsurePCs \ {"locate"}, \E o \in book' : SlValid(o, Ctx)
        PROVE  \E o \in book' : o.size = pos /\ o.px = work.stop
    BY <1>2 DEF Covered, SlValid, SizeMatches, Ctx
  <1>3. CASE Locate \/ Collect \/ Persist \/ Rescan \/ Finish \/ RbQuery \/ RbRequery
    BY <1>1, <1>3 DEF Locate, Collect, Persist, Rescan, Finish, RbQuery, RbRequery, env, exch
  <1>4. ASSUME NEW i, NEW cl, NEW kind,
               (Place(i, cl, kind) /\ Shown(i)) \/ Failed(i, cl, kind) \/ Refused(cl)
        PROVE  book \subseteq book'
    BY <1>4, SentOne
  <1>5. CASE Submit
    BY <1>1, <1>4, <1>5 DEF Submit, exch
  <1>6. CASE RbSubmit \/ RbRestore
    BY <1>1, <1>4, <1>6 DEF RbSubmit, RbRestore
  <1>7. CASE Clean \/ Swap
    <2>1. book \subseteq book' \/ book' = Safe
      BY <1>7 DEF Clean, Swap, Cancel, Remove, exch, Safe
    <2>2. HasStop(Safe) /\ pc \in EnsurePCs \ {"locate"}
      BY <1>7 DEF Clean, Swap, Covered, SlotsIn, PlainRows, EnsurePCs
    <2> QED BY <1>1, <1>2, <2>1, <2>2 DEF HasStop
  <1>8. CASE Resolve
    <2>1. CASE book \subseteq book'
      BY <1>1, <2>1
    <2>2. ASSUME NEW o \in Found51068, ~Adoptable(o, Ctx), Cancel({o.id})
          PROVE  \E p \in book' : SlValid(p, Ctx)
      <3>1. o \in book \cup inv
        BY <2>2 DEF Found51068, Live
      <3>2. \A p \in book : p \in book' \/ p.id = o.id
        BY <2>2 DEF Cancel, Remove, exch
      <3>3. PICK p \in book : SlValid(p, Ctx)
        BY <1>8 DEF StopAt, SlValid, SizeMatches, Ctx, Covered, Resolve, EnsurePCs
      <3> QED BY <2>2, <3>1, <3>2, <3>3 DEF OneEach, Adoptable
    <2>3. \/ book \subseteq book'
          \/ \E o \in Found51068 : ~Adoptable(o, Ctx) /\ Cancel({o.id})
      BY <1>8 DEF Resolve, Resolution, exch
    <2> QED BY <1>2, <1>8, <2>1, <2>2, <2>3 DEF Resolve, EnsurePCs
  <1>9. CASE RbCancel
    BY <1>9 DEF RbCancel
  <1> QED BY <1>3, <1>5, <1>6, <1>7, <1>8, <1>9 DEF Ensure

(* No request of ensure but that of the rebuild takes the last stop that   *)
(* fits the position off the exchange, under every fault but a lookup that *)
(* returns an ended order, and without add-ons: the plan of an add-on puts *)
(* the stop it keeps on the list to cancel.                                *)
THEOREM CoverIsKept == ASSUME LooksAlive, NoAddons PROVE Spec => CoverKept
  <1> DEFINE Kept == (Ensure /\ pc # "rbCancel" /\ ~dirty /\ StopAt(work.stop))
                       => (\E o \in book' : o.size = pos /\ o.px = work.stop)
  <1>1. Shape /\ CoverInv /\ PlainRows /\ [Next]_vars => [Kept]_vars
    BY EnsureKeepsStop DEF CoverInv
  <1> QED BY <1>1, ShapeHolds, CoverHolds, PlainHolds, PTL DEF Spec, CoverKept

-----------------------------------------------------------------------------
(* The block.                                                              *)

(* An accepted order the list of pending orders does not show yet is one   *)
(* of the engine's.                                                        *)
HiddenOwn == \A i \in hidden : \E o \in book : o.id = i /\ o.cl # "op"

(* Nothing is submitted before the plan is made; while ensure runs, what   *)
(* it has in hand and the ledger agree on the stop and the deadline.       *)
Unsent ==
    pc \in TickPCs \cup {"locate", "collect", "clean", "submit", "resolve", "rbCancel"}
        => sub = None /\ subTp = None
InStep ==
    pc \in EnsurePCs =>
        mode \in {"tick", "watch"} /\ row.stop = work.stop /\ row.grace = work.grace

Underway == HiddenOwn /\ Unsent /\ InStep

(* The stop is not raised, and every tick scans anew.                      *)
NoTrails == "trail" \notin Faults
FreshScans == "staleScan" \notin Faults

LEMMA SameHidden ==
    ASSUME HiddenOwn, book \subseteq book', hidden' \subseteq hidden PROVE HiddenOwn'
    BY DEF HiddenOwn

LEMMA RemoveHidden == ASSUME HiddenOwn, NEW ids, Remove(ids) PROVE HiddenOwn'
    BY DEF HiddenOwn, Remove

LEMMA CancelHidden == ASSUME HiddenOwn, NEW ids, Cancel(ids) PROVE HiddenOwn'
    BY RemoveHidden, SameHidden DEF Cancel, exch

LEMMA SentHidden ==
    ASSUME HiddenOwn, NEW i, NEW cl, NEW kind, cl # "op",
           (Place(i, cl, kind) /\ Shown(i)) \/ Failed(i, cl, kind) \/ Refused(cl)
    PROVE  HiddenOwn'
  <1>1. \/ book \subseteq book' /\ hidden' = hidden
        \/ book' = book \cup {NewOrder(i, cl, kind)} /\ hidden' \subseteq hidden \cup {i}
    BY DEF Place, Shown, Failed, Refused, exch, NewOrder
  <1>2. NewOrder(i, cl, kind).id = i /\ NewOrder(i, cl, kind).cl = cl
    BY DEF NewOrder
  <1> QED BY <1>1, <1>2 DEF HiddenOwn

LEMMA NextHidden == HiddenOwn /\ [Next]_vars => HiddenOwn'
  <1> SUFFICES ASSUME HiddenOwn, [Next]_vars PROVE HiddenOwn'
    OBVIOUS
  <1>1. CASE UNCHANGED exch
    BY <1>1, SameHidden DEF exch
  <1>2. CASE \E ids : Cancel(ids) \/ Remove(ids)
    BY <1>2, RemoveHidden, CancelHidden
  <1>3. CASE \E i, k : \E cl \in {"s", "rst"} :
                 (Place(i, cl, k) /\ Shown(i)) \/ Failed(i, cl, k) \/ Refused(cl)
    BY <1>3, SentHidden
  <1>4. CASE book \subseteq book' /\ hidden' \subseteq hidden
    BY <1>4, SameHidden
  <1>5. CASE Ensure
    <2>1. CASE Submit \/ RbSubmit \/ RbRestore
      BY <1>1, <1>3, <2>1 DEF Submit, RbSubmit, RbRestore
    <2>2. CASE Clean \/ Swap \/ Resolve \/ RbCancel
      BY <1>1, <1>2, <2>2 DEF Clean, Swap, Resolve, RbCancel
    <2> QED BY <1>1, <1>5, <2>1, <2>2
         DEF Ensure, Locate, Collect, Persist, Rescan, Finish, RbQuery, RbRequery, env
  <1>6. CASE Tick
    BY <1>1, <1>2, <1>6 DEF Tick, Reconcile, ScanOrders, Latch, TakeOver, Decide, Watch
  <1>7. CASE Environment
    <2>1. CASE Appear \/ OperatorPlaces
      BY <1>4, <2>1 DEF Appear, OperatorPlaces
    <2> QED BY <1>1, <1>2, <1>7, <2>1
         DEF Environment, GraceExpires, Resize, GoFlat, OperatorCancels, Crash, env
  <1> QED BY <1>1, <1>5, <1>6, <1>7 DEF Next, Over, vars, env

LEMMA ReturnedUnderway ==
    ASSUME NEW ok, NEW m, NEW b, NEW r, Return(ok, m, r, b) PROVE Unsent' /\ InStep'
    BY DEF Return, Forget, Unsent, InStep, EnsurePCs

LEMMA SameUnderway ==
    ASSUME Unsent, InStep, pc \in EnsurePCs, UNCHANGED <<mode, work, row>>,
           pc' \notin TickPCs \cup {"locate", "collect", "clean", "submit", "resolve", "rbCancel"}
    PROVE  Unsent' /\ InStep'
    BY DEF Unsent, InStep

LEMMA EnsureUnderway == ASSUME Shape, Unsent, InStep, Ensure PROVE Unsent' /\ InStep'
  <1>1. pc \in EnsurePCs /\ work \in Rows
    BY PartsOfShape
    DEF InHand, EnsurePCs, Ensure, Locate, Collect, Clean, Submit, Resolve, Persist, Swap,
        Rescan, Finish, RbCancel, RbSubmit, RbQuery, RbRestore, RbRequery
  <1> USE DEF TickPCs
  <1>2. ASSUME NEW b, GiveUp(b) PROVE Unsent' /\ InStep'
    BY <1>2, ReturnedUnderway DEF GiveUp
  <1>3. CASE Locate
    <2>1. CASE pc' = "collect" /\ UNCHANGED <<mode, work, row, sub, subTp>>
      BY <1>1, <1>3, <2>1 DEF Locate, Unsent, InStep
    <2> QED BY <1>2, <1>3, <2>1, ReturnedUnderway DEF Locate
  <1>4. CASE Collect
    <2>1. ASSUME NEW i, NEW s, NEW t, Plan(i, s, t), UNCHANGED <<mode, row, sub, subTp>>
          PROVE  Unsent' /\ InStep'
      <3>1. work'.stop = work.stop /\ work'.grace = work.grace
        BY <1>1, <2>1 DEF Plan, Rows
      <3> QED BY <1>1, <1>4, <2>1, <3>1 DEF Collect, Unsent, InStep
    <2> QED BY <1>2, <1>4, <2>1 DEF Collect
  <1>5. CASE Clean \/ Swap
    BY <1>1, <1>5, SameUnderway DEF Clean, Swap, ens
  <1>6. CASE Submit
    <2>1. CASE pc' = "resolve" /\ UNCHANGED <<mode, work, row, sub, subTp>>
      BY <1>1, <1>6, <2>1 DEF Submit, Unsent, InStep
    <2> QED BY <1>1, <1>6, <2>1, SameUnderway DEF Submit
  <1>7. CASE Resolve
    BY <1>1, <1>7, SameUnderway DEF Resolve
  <1>8. CASE Persist
    <2>1. CASE UNCHANGED <<row, work>>
      BY <1>1, <1>8, <2>1, SameUnderway DEF Persist
    <2>2. CASE work' = row'
      BY <1>1, <1>8, <2>2 DEF Persist, Unsent, InStep
    <2> QED BY <1>8, <2>1, <2>2 DEF Persist
  <1>9. CASE Rescan \/ RbCancel \/ RbSubmit \/ RbQuery
    BY <1>1, <1>9, SameUnderway DEF Rescan, RbCancel, RbSubmit, RbQuery
  <1>10. CASE Finish
    BY <1>10, ReturnedUnderway DEF Finish
  <1>11. CASE RbRestore \/ RbRequery
    BY <1>1, <1>2, <1>11, SameUnderway DEF RbRestore, RbRequery, Restored, HardBlock, ens
  <1> QED BY <1>3, <1>4, <1>5, <1>6, <1>7, <1>8, <1>9, <1>10, <1>11 DEF Ensure

LEMMA TickUnderway == ASSUME NoTrails, Unsent, InStep, Tick PROVE Unsent' /\ InStep'
  <1>1. pc \in TickPCs /\ sub' = sub /\ subTp' = subTp
    BY DEF Tick, Reconcile, ScanOrders, Latch, Decide, Watch, Begin, ens, TickPCs
  <1>2. Unsent'
    BY <1>1 DEF Unsent
  <1>3. \/ pc' \in TickPCs
        \/ mode' \in {"tick", "watch"} /\ work' = row /\ row' = row
    BY <1>1 DEF Tick, Reconcile, ScanOrders, Latch, Decide, Watch, Begin, NoTrails, Event,
                TickPCs
  <1> QED BY <1>2, <1>3 DEF InStep, TickPCs, EnsurePCs

LEMMA NextUnderway ==
    ASSUME NoTrails PROVE Shape /\ Underway /\ [Next]_vars => Underway'
  <1> SUFFICES ASSUME Shape, Underway, [Next]_vars PROVE Unsent' /\ InStep'
    BY NextHidden DEF Underway
  <1>1. CASE Environment
    <2>1. CASE Crash
      BY <2>1 DEF Crash, Forget, Unsent, InStep, EnsurePCs
    <2>2. CASE GraceExpires
      BY <2>2 DEF GraceExpires, Underway, Unsent, InStep, EnsurePCs, ens
    <2> QED BY <1>1, <2>1, <2>2
         DEF Environment, Appear, Resize, GoFlat, OperatorPlaces, OperatorCancels, Underway,
             Unsent, InStep, ens
  <1>2. CASE UNCHANGED vars
    BY <1>2 DEF vars, ens, Underway, Unsent, InStep
  <1> QED BY <1>1, <1>2, EnsureUnderway, TickUnderway DEF Next, Over, Underway

LEMMA UnderwayHolds == ASSUME NoTrails PROVE Spec => []Underway
  <1>1. Init => Underway
    BY DEF Init, Underway, HiddenOwn, Unsent, InStep, EnsurePCs
  <1> QED BY <1>1, NextUnderway, ShapeHolds, PTL DEF Spec


-----------------------------------------------------------------------------
(* An order ensure has submitted or found in a rebuild is in the ledger, or *)
(* the write failed: either way a stop that fits is on the exchange.       *)
SentStop == pc \in {"rescan", "finish"} /\ sub # None => HasStop(book)

LEMMA OutsideSent == ASSUME pc' \notin {"rescan", "finish"} PROVE SentStop'
    BY DEF SentStop

LEMMA EnsureSent ==
    ASSUME Shape, Underway, Covered, SentStop, Ensure PROVE SentStop'
  <1>1. CASE Collect \/ Clean \/ Submit \/ Resolve
    <2>1. sub' = None \/ pc' \notin {"rescan", "finish"}
      BY <1>1 DEF Collect, GiveUp, Return, Clean, Submit, Resolve, Underway, Unsent
    <2> QED BY <2>1 DEF SentStop
  <1>2. CASE Persist
    <2>1. HasStop(Safe) /\ work \in Rows
      BY <1>2, PartsOfShape DEF Persist, Covered, InHand, EnsurePCs
    <2>2. UNCHANGED <<size, wants, book>> /\ work'.stop = work.stop
      BY <1>2, <2>1 DEF Persist, Rows, exch
    <2> QED BY <2>1, <2>2 DEF SentStop, HasStop, SlValid, SizeMatches, Ctx, Safe
  <1>3. CASE Swap
    <2>1. HasStop(Safe) /\ (book' = book \/ book' = Safe)
      BY <1>3 DEF Swap, Covered, Cancel, Remove, exch, Safe
    <2>2. UNCHANGED <<size, wants, work>>
      BY <1>3 DEF Swap, ens
    <2> QED BY <2>1, <2>2 DEF SentStop, HasStop, SlValid, SizeMatches, Ctx, Safe
  <1>4. CASE Rescan
    BY <1>4 DEF Rescan, SentStop, HasStop, SlValid, SizeMatches, Ctx, exch
  <1>5. CASE Locate \/ RbCancel \/ RbSubmit \/ RbQuery
    BY <1>5, OutsideSent DEF Locate, RbCancel, RbSubmit, RbQuery, GiveUp, Return
  <1>6. CASE Finish \/ RbRestore \/ RbRequery
    BY <1>6, OutsideSent DEF Finish, RbRestore, RbRequery, Restored, HardBlock, GiveUp, Return
  <1> QED BY <1>1, <1>2, <1>3, <1>4, <1>5, <1>6 DEF Ensure

LEMMA NextSent ==
    Shape /\ CoverInv /\ Underway /\ (~dirty => SentStop) /\ [Next]_vars
        => (~dirty' => SentStop')
  <1> SUFFICES ASSUME Shape, CoverInv, Underway, ~dirty => SentStop, [Next]_vars, ~dirty'
               PROVE  SentStop'
    OBVIOUS
  <1>1. CASE Ensure
    <2>1. ~dirty
      BY <1>1 DEF Ensure, Locate, Collect, Clean, Submit, Resolve, Persist, Swap, Rescan,
                  Finish, RbCancel, RbSubmit, RbQuery, RbRestore, RbRequery, env
    <2> QED BY <1>1, <2>1, EnsureSent DEF CoverInv
  <1>2. CASE Tick
    BY <1>2, OutsideSent DEF Tick, Reconcile, ScanOrders, Latch, Decide, Watch, Begin
  <1>3. CASE Appear \/ UNCHANGED vars
    BY <1>3 DEF Appear, vars, env, exch, ens, SentStop, HasStop, SlValid, SizeMatches, Ctx
  <1>4. CASE GraceExpires
    BY <1>4, OutsideSent DEF GraceExpires
  <1>5. CASE Resize \/ GoFlat \/ OperatorPlaces \/ OperatorCancels \/ Crash
    BY <1>5 DEF Resize, GoFlat, OperatorPlaces, OperatorCancels, Crash
  <1> QED BY <1>1, <1>2, <1>3, <1>4, <1>5 DEF Next, Environment, Over


-----------------------------------------------------------------------------
(* While nothing interferes, a tick that is not in ensure knows of a       *)
(* missing stop, and takes an order for the stop only if it is there.      *)
Naked == \A o \in book : o.px # row.stop

Warned ==
    pc \in TickPCs /\ row # NoRow /\ pos > 0 /\ ~row.taken /\ Naked
        => blocked \/ row.grace # "none"
CacheLive ==
    pc \in {"latch", "decide", "watch"} /\ row # NoRow /\ ~row.taken => cache \subseteq book

LEMMA OutsideWarned == ASSUME pc' \notin TickPCs PROVE Warned' /\ CacheLive'
    BY DEF Warned, CacheLive, TickPCs

(* A return that ran into a failure blocks, or the row still waits for an  *)
(* order it knows.                                                         *)
LEMMA GaveUpWarned ==
    ASSUME Shape, InStep, pc \in EnsurePCs, NEW b, GiveUp(b) PROVE Warned' /\ CacheLive'
  <1>1. work \in Rows /\ row.grace = work.grace /\ mode \in {"tick", "watch"}
    BY PartsOfShape DEF InHand, InStep
  <1>2. [work EXCEPT !.failed = TRUE].grace = work.grace
    BY <1>1 DEF Rows
  <1>3. row' = row /\ pc' \in {"scan", "reconcile"}
    BY <1>1 DEF GiveUp, Return
  <1>4. blocked' \/ row.grace = "ahead"
    BY <1>1, <1>2 DEF GiveUp, Return
  <1> QED BY <1>3, <1>4 DEF Warned, CacheLive

LEMMA FinishWarned ==
    ASSUME Shape, Underway, Covered, SentStop, Finish PROVE Warned' /\ CacheLive'
  <1> DEFINE r == [work EXCEPT !.slId = FinalSl, !.tpId = FinalTp, !.failed = ~Success,
                               !.ever = @ \/ FinalSl # None,
                               !.grace = IF ProvSl # None \/ ProvTp # None
                                         THEN "ahead" ELSE "none"]
  <1>1. /\ work \in Rows /\ row \in Rows /\ mode \in {"tick", "watch"}
        /\ row.grace = work.grace /\ row.stop = work.stop
    BY PartsOfShape DEF InHand, Underway, InStep, Finish, EnsurePCs
  <1>2. /\ r.slId = FinalSl /\ r.tpId = FinalTp /\ r.stop = work.stop
        /\ (ProvSl # None => r.grace = "ahead")
    BY <1>1 DEF Rows
  <1>3. Return(Success, changed, r, ~Success) /\ book' = book
    BY DEF Finish, env, exch
  <1> HIDE DEF r
  <1>4. pc' \in {"scan", "reconcile"} /\ row' = (IF changed THEN r ELSE row)
    BY <1>1, <1>3 DEF Return
  <1>5. blocked' \/ Success
    <2>1. Evidence(r) => Success
      BY <1>2 DEF Evidence, Success, Complete, Ctx
    <2> QED BY <1>1, <1>3, <2>1 DEF Return
  <1>6. row'.stop = work.stop
    BY <1>1, <1>2, <1>4
  <1>7. ASSUME Success, Naked' PROVE row'.grace # "none"
    <2>1. sl = None
      BY <1>3, <1>6, <1>7 DEF Covered, Finish, SlotsIn, HasStop, SlValid, Ctx, Naked
    <2>2. ProvSl # None
      BY <1>7, <2>1 DEF Success, Complete, FinalSl
    <2>3. CASE changed
      BY <1>2, <1>4, <2>2, <2>3
    <2>4. CASE ~changed
      <3>1. sub = None
        BY <1>3, <1>6, <1>7 DEF SentStop, Finish, HasStop, SlValid, Ctx, Naked
      <3>2. work.grace = "ahead"
        BY <2>2, <3>1 DEF ProvSl, Provisional, InsideGrace
      <3> QED BY <1>1, <1>4, <2>4, <3>2
    <2> QED BY <2>3, <2>4
  <1> QED BY <1>4, <1>5, <1>7 DEF Warned, CacheLive

LEMMA EnsureWarned ==
    ASSUME Shape, Underway, Covered, SentStop, Ensure PROVE Warned' /\ CacheLive'
  <1>1. pc \in EnsurePCs /\ InStep
    BY DEF EnsurePCs, Ensure, Locate, Collect, Clean, Submit, Resolve, Persist, Swap,
           Rescan, Finish, RbCancel, RbSubmit, RbQuery, RbRestore, RbRequery, Underway
  <1>2. CASE \E b : GiveUp(b)
    BY <1>1, <1>2, GaveUpWarned
  <1>3. CASE Locate /\ pos = 0
    <2>1. \/ pos' = 0 /\ pc' \notin {"latch", "decide", "watch"}
          \/ pc' \notin TickPCs
          \/ \E b : GiveUp(b)
      BY <1>1, <1>3 DEF Locate, Return, env, InStep, TickPCs
    <2> QED BY <1>2, <2>1, OutsideWarned DEF Warned, CacheLive
  <1>4. CASE Finish
    BY <1>4, FinishWarned
  <1>5. CASE pc' \notin TickPCs
    BY <1>5, OutsideWarned
  <1>6. CASE Locate \/ Collect \/ RbRestore \/ RbRequery
    BY <1>2, <1>3, <1>5, <1>6
    DEF Locate, Collect, Plan, RbRestore, RbRequery, Restored, HardBlock, TickPCs
  <1>7. CASE Clean \/ Submit \/ Resolve \/ Persist \/ Swap \/ Rescan \/ RbCancel
             \/ RbSubmit \/ RbQuery
    BY <1>5, <1>7
    DEF Clean, Submit, Resolve, Persist, Swap, Rescan, RbCancel, RbSubmit, RbQuery, TickPCs
  <1> QED BY <1>4, <1>6, <1>7 DEF Ensure

LEMMA ScanLive == ASSUME Scan, book' = book PROVE cache' \subseteq book'
    BY DEF Scan, Visible

(* Steps that leave the row's stop, deadline and owner alone.              *)
LEMMA SameWarned ==
    ASSUME Warned, pc \in TickPCs, row # NoRow, row'.stop = row.stop, row'.grace = row.grace,
           row'.taken = row.taken, UNCHANGED <<pos, book, blocked>>
    PROVE  Warned'
    BY DEF Warned, Naked

LEMMA RowFields ==
    \A r \in Rows : \A b \in BOOLEAN :
        /\ [r EXCEPT !.ever = b].stop = r.stop /\ [r EXCEPT !.ever = b].grace = r.grace
        /\ [r EXCEPT !.ever = b].taken = r.taken
        /\ [r EXCEPT !.young = b].stop = r.stop /\ [r EXCEPT !.young = b].grace = r.grace
        /\ [r EXCEPT !.young = b].taken = r.taken
        /\ [r EXCEPT !.taken = TRUE].taken /\ [r EXCEPT !.grace = "past"].grace = "past"
    BY DEF Rows

LEMMA WatchWarned == ASSUME Shape, Warned, CacheLive, Watch PROVE Warned' /\ CacheLive'
  <1>1. row \in Rows /\ row # NoRow /\ pos' = pos /\ pc \in TickPCs
    BY PartsOfShape, NoRowAssumption DEF InHand, Watch, TickPCs
  <1>2. CASE pc' = "locate"
    BY <1>2, OutsideWarned DEF TickPCs
  <1>3. CASE pc' = "reconcile"
    <2>1. CacheLive'
      BY <1>3 DEF CacheLive
    <2>2. CASE UNCHANGED <<row, blocked, exch>>
      BY <1>1, <2>1, <2>2, SameWarned DEF exch
    <2>3. CASE row' = [row EXCEPT !.taken = TRUE]
      <3>1. row'.taken
        BY <1>1, <2>3, RowFields
      <3> QED BY <2>1, <3>1 DEF Warned
    <2>4. CASE /\ ~row.taken /\ FoundIn(cache', row) /\ UNCHANGED exch
               /\ row' = [row EXCEPT !.ever = TRUE]
      <3>1. cache' \subseteq book'
        BY <1>1, <2>4, ScanLive DEF Watch, CacheLive, exch
      <3>2. \E o \in book' : o.px = row.stop
        BY <2>4, <3>1 DEF FoundIn
      <3>3. row'.stop = row.stop
        BY <1>1, <2>4, RowFields
      <3> QED BY <2>1, <3>2, <3>3 DEF Warned, Naked
    <2> QED BY <1>3, <2>1, <2>2, <2>3, <2>4 DEF Watch, Begin
  <1> QED BY <1>2, <1>3 DEF Watch, Begin

LEMMA TickWarned ==
    ASSUME NoTrails, FreshScans, Shape, Warned, CacheLive, Tick, ~dirty'
    PROVE  Warned' /\ CacheLive'
  <1> USE DEF TickPCs
  <1>1. CASE Reconcile
    <2>1. CASE pc' = "locate"
      BY <2>1, OutsideWarned
    <2>2. CASE row' = NoRow /\ pc' = pc
      BY <1>1, <2>2 DEF Reconcile, Warned, CacheLive
    <2>3. CASE pc' = "scan" /\ UNCHANGED <<row, blocked>>
      BY <1>1, <2>3, SameWarned DEF Reconcile, CacheLive, exch
    <2> QED BY <1>1, <2>1, <2>2, <2>3 DEF Reconcile, Begin
  <1>2. CASE ScanOrders
    <2>1. UNCHANGED <<row, pos, book, blocked>> /\ pc = "scan" /\ pc' = "latch" /\ Scan
      BY <1>2 DEF ScanOrders, FreshScans, exch
    <2>2. row # NoRow
      BY <2>1, PartsOfShape, NoRowAssumption DEF InHand
    <2> QED BY <2>1, <2>2, ScanLive, SameWarned DEF CacheLive
  <1>3. CASE Latch
    <2>1. row \in Rows /\ row # NoRow
      BY <1>3, PartsOfShape, NoRowAssumption DEF InHand, Latch
    <2>2. CASE TakeOver
      <3>1. row'.taken
        BY <2>1, <2>2, RowFields DEF TakeOver
      <3> QED BY <3>1 DEF Warned, CacheLive
    <2>3. CASE (\E b \in BOOLEAN : row' = [row EXCEPT !.ever = b]) /\ UNCHANGED exch
      <3>1. row'.stop = row.stop /\ row'.grace = row.grace /\ row'.taken = row.taken
        BY <2>1, <2>3, RowFields
      <3>2. UNCHANGED <<pos, book, blocked, cache>> /\ pc = "latch" /\ pc' = "decide"
        BY <1>3, <2>3 DEF Latch, mem, exch
      <3> QED BY <2>1, <3>1, <3>2, SameWarned DEF CacheLive
    <2>4. TakeOver \/ ((\E b \in BOOLEAN : row' = [row EXCEPT !.ever = b]) /\ UNCHANGED exch)
      BY <1>3 DEF Latch
    <2> QED BY <2>2, <2>3, <2>4
  <1>4. CASE Decide
    <2>1. /\ UNCHANGED <<row, pos, book, blocked, cache>> /\ pc = "decide" /\ pc' = "watch"
      BY <1>4 DEF Decide, NoTrails, Event, mem, exch
    <2>2. row # NoRow
      BY <2>1, PartsOfShape, NoRowAssumption DEF InHand
    <2> QED BY <2>1, <2>2, SameWarned DEF CacheLive
  <1>5. CASE Watch
    BY <1>5, WatchWarned
  <1> QED BY <1>1, <1>2, <1>3, <1>4, <1>5 DEF Tick

NakedInv == ~dirty => SentStop /\ Warned /\ CacheLive

LEMMA NextNaked ==
    ASSUME NoTrails, FreshScans
    PROVE  Shape /\ CoverInv /\ Underway /\ NakedInv /\ [Next]_vars => NakedInv'
  <1> SUFFICES ASSUME Shape, CoverInv, Underway, NakedInv, [Next]_vars, ~dirty'
               PROVE  Warned' /\ CacheLive'
    BY NextSent DEF NakedInv
  <1>1. CASE Ensure
    <2>1. ~dirty
      BY <1>1 DEF Ensure, Locate, Collect, Clean, Submit, Resolve, Persist, Swap, Rescan,
                  Finish, RbCancel, RbSubmit, RbQuery, RbRestore, RbRequery, env
    <2> QED BY <1>1, <2>1, EnsureWarned DEF CoverInv, NakedInv
  <1>2. CASE Tick
    <2>1. CASE pc' = "locate"
      BY <2>1, OutsideWarned DEF TickPCs
    <2>2. CASE pc' # "locate"
      <3>1. ~dirty
        BY <1>2, <2>2 DEF Tick, Reconcile, ScanOrders, Latch, Decide, Watch, Begin
      <3> QED BY <1>2, <3>1, TickWarned DEF NakedInv
    <2> QED BY <2>1, <2>2
  <1>3. CASE Appear \/ UNCHANGED vars
    BY <1>3 DEF Appear, vars, env, exch, mem, NakedInv, Warned, Naked, CacheLive
  <1>4. CASE GraceExpires
    <2>1. row \in Rows /\ row # NoRow /\ pc = "reconcile" /\ pc' = pc
          /\ UNCHANGED <<pos, book, blocked, dirty>>
      BY <1>4, PartsOfShape DEF GraceExpires, Parts, RowTyped, mem, env, exch
    <2>2. CASE row' = [row EXCEPT !.grace = "past"]
      BY <2>1, <2>2, RowFields DEF Warned, CacheLive
    <2>3. CASE row' = [row EXCEPT !.young = FALSE]
      <3>1. row'.stop = row.stop /\ row'.grace = row.grace /\ row'.taken = row.taken
        BY <2>1, <2>3, RowFields
      <3> QED BY <2>1, <3>1, SameWarned DEF NakedInv, CacheLive, TickPCs
    <2> QED BY <1>4, <2>2, <2>3 DEF GraceExpires
  <1>5. CASE Resize \/ GoFlat \/ OperatorPlaces \/ OperatorCancels \/ Crash
    BY <1>5 DEF Resize, GoFlat, OperatorPlaces, OperatorCancels, Crash
  <1> QED BY <1>1, <1>2, <1>3, <1>4, <1>5 DEF Next, Environment, Over

(* A tick that ends with the position open and no stop at the ledger's     *)
(* price on the exchange, with nothing having happened since the last      *)
(* ensure began, leaves new entries of the symbol blocked, unless the      *)
(* ledger has given an accepted order time to appear: with any size of     *)
(* position, add-ons, the operator's orders, failing requests and writes,  *)
(* late orders and crashes, if ended orders are not returned, every tick   *)
(* scans, and the stop is not raised.                                      *)
THEOREM NakedBlocked ==
    ASSUME LooksAlive, NoTrails, FreshScans PROVE Spec => []NakedIsBlocked
  <1>1. Init => NakedInv
    BY DEF Init, NakedInv
  <1>2. NakedInv => NakedIsBlocked
    BY DEF NakedInv, Warned, Naked, NakedIsBlocked, TickPCs
  <1> QED BY <1>1, <1>2, NextNaked, ShapeHolds, CoverHolds, UnderwayHolds, PTL DEF Spec
=============================================================================

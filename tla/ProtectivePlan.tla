--------------------------- MODULE ProtectivePlan ---------------------------
(***************************************************************************)
(* What the engine decides from a list of protective orders: the pure      *)
(* functions of engine-v2/execution (protective-reconcile-plan,            *)
(* protective-inventory, final-protection-authority) for one leg.          *)
(*                                                                         *)
(* An order is a record.  cl is the family of its algoClOrdId: "s" is the  *)
(* id the engine derives from the position and always uses again, "rst"    *)
(* that of a restored stop, and "op" any id of the operator.  An order     *)
(* attached to the entry has an id made from that of the entry: "entry" if *)
(* the ledger row names that entry (exchangeClOrdId), "attach" if it does  *)
(* not.  A "sl" is a conditional order with a stop only, an "oco" also has *)
(* the take-profit.  The take-profit price of a plan never changes here,   *)
(* so an OCO always has the right one.                                     *)
(*                                                                         *)
(* ctx is ProtectiveReconcileContext: the contracts to protect, the stop   *)
(* price, and whether the plan wants a take-profit on the exchange.        *)
(***************************************************************************)
EXTENDS Naturals

CONSTANTS
    MaxOrders,  \* bound: exchange ids of protective orders in use at a time
    MaxSize,    \* bound: contracts of the position
    MaxStop     \* bound: stop prices of the plan, in the order they are raised

ASSUME PlanAssumption ==
    MaxOrders \in Nat \ {0} /\ MaxSize \in Nat \ {0} /\ MaxStop \in Nat \ {0}

OrderIds == 1..MaxOrders
None     == 0             \* no order
Sizes    == 1..MaxSize
Stops    == 1..MaxStop

Families == {"s", "rst", "attach", "entry", "op"}
Kinds    == {"sl", "oco"}

(* live: the state the exchange shows of the order.                        *)
Orders == [id : OrderIds, cl : Families, kind : Kinds,
           size : Sizes, px : Stops, live : BOOLEAN]

Ids(S) == {o.id : o \in S}

-----------------------------------------------------------------------------
(* evaluateProtectiveAlgoMatch                                             *)

AnyOwned(o) == TRUE              \* mutant: the operator's orders are the bot's
BotOwned(o) == o.cl # "op"

SizeMatches(o, ctx) == o.size = ctx.size

SlValidAnySize(o, ctx) == o.px = ctx.stop   \* mutant: the size is not compared
SlValid(o, ctx) == o.px = ctx.stop /\ SizeMatches(o, ctx)
TpValid(o, ctx) == ctx.wants /\ o.kind = "oco" /\ SizeMatches(o, ctx)

(* Neither the owner nor the state of an order matters here.               *)
Adoptable(o, ctx) == SlValid(o, ctx) \/ TpValid(o, ctx)

NeverStale(o, ctx) == FALSE      \* mutant: an old size is not replaced
Stale(o, ctx) == BotOwned(o) /\ ~SizeMatches(o, ctx)

(* rankScore                                                               *)
Rank(o, ctx) ==
    (IF ctx.wants
     THEN IF o.kind = "oco" /\ SlValid(o, ctx) THEN 150 ELSE 0
     ELSE IF o.kind = "sl" THEN 100 ELSE 80)
    + (IF o.cl \in {"s", "rst"} THEN 20 ELSE IF o.cl \in {"attach", "entry"} THEN 10 ELSE 0)

-----------------------------------------------------------------------------
(* planProtectiveOrderReconcile                                            *)

(* The best of several orders; which of equals comes first is up to the    *)
(* order of the exchange's list.                                           *)
Best(S, ctx) == {o \in S : \A p \in S : Rank(p, ctx) <= Rank(o, ctx)}

(* The candidate the engine makes of the order attached to the entry the   *)
(* row names is merged with that order, and tags it (entry_attach_         *)
(* candidate): the plan passes over a row with the tag.                    *)
Tagged(o) == o.cl = "entry"
Untagged(inv) == {o \in inv : ~Tagged(o)}

IdOrNone(S) == IF S = {} THEN {None} ELSE Ids(S)

CanonicalSl(inv, ctx) == IdOrNone(Best({o \in inv : SlValid(o, ctx)}, ctx))
CanonicalTp(inv, ctx) == IdOrNone(Best({o \in inv : TpValid(o, ctx)}, ctx))

(* Mutant: the canonical stop is not left out.                             *)
CancelCanonical(inv, ctx, sl, tp) ==
    {o.id : o \in {p \in inv : BotOwned(p) /\ (Stale(p, ctx) \/ SlValid(p, ctx))}}

(* Stale orders, and duplicates of a canonical one, if they are the bot's. *)
CancelTargets(inv, ctx, sl, tp) ==
    {o.id : o \in {p \in inv : /\ BotOwned(p)
                               /\ \/ Stale(p, ctx)
                                  \/ SlValid(p, ctx) /\ p.id # sl
                                  \/ TpValid(p, ctx) /\ p.id # tp}}

(* legacyOcoMigrationNeeded                                                *)
LegacyOco(inv, ctx, sl) ==
    /\ ~ctx.wants
    /\ \E o \in inv : o.id = sl /\ o.kind = "oco" /\ BotOwned(o)

(* needSubmitSl or submitOco                                               *)
NeedSubmit(inv, ctx, sl, tp) ==
    \/ sl = None
    \/ ctx.wants /\ tp = None
    \/ LegacyOco(inv, ctx, sl)

(* slOnlyOcoRebuild                                                        *)
SlOnly(ctx, sl, tp) == ctx.wants /\ sl # None /\ tp = None

(* The order slots a plan asks for are filled.                             *)
Complete(ctx, sl, tp) == sl # None /\ (ctx.wants => tp # None)

-----------------------------------------------------------------------------
(* resolve51068ProtectiveLookup, for an order that was found               *)

Resolution(o, ctx) ==
    IF ~o.live THEN "not_found"
    ELSE IF Adoptable(o, ctx) THEN "adopt"
    ELSE IF Stale(o, ctx) THEN "stale_replace"
    ELSE "blocked_existing_unresolved"

-----------------------------------------------------------------------------
(* resolveExchangeProtectionTruth                                          *)

(* The stop it finds: an order of the right size, at whatever price.       *)
TruthSl(inv, ctx) == IdOrNone({o \in inv : SizeMatches(o, ctx)})

(* protectionComplete, sl being the stop found: every order is of the      *)
(* right size and the one found has both legs at the right price.          *)
TruthComplete(inv, ctx, sl) ==
    /\ \A o \in inv : SizeMatches(o, ctx)
    /\ \E o \in inv : o.id = sl /\ o.px = ctx.stop /\ (ctx.wants => o.kind = "oco")
=============================================================================

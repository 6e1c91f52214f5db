------------------------ MODULE EntryExecutionProofs ------------------------
(* Theorems about EntryExecution, for every number of symbols, orders and  *)
(* candles and every number of crashes.                                    *)
EXTENDS EntryExecution, TLAPS

USE DEF PCs, OrderStates, Accepted, Styles, Sides, Ended

(* A step of the tick, of the exchange or of the environment, and what a   *)
(* step that stutters leaves alone.                                        *)
LEMMA TypeInit == Init => TypeOK
  <1> SUFFICES ASSUME Init PROVE TypeOK
    OBVIOUS
  <1>1. Unused \in [key : Keys \cup {NoKey}, style : Styles, st : OrderStates, fill : BOOLEAN]
    BY DEF Unused
  <1>2. candle \in 1..MaxCandle /\ crashes \in 0..MaxCrashes
    BY BoundsAssumption DEF Init
  <1> QED BY <1>1, <1>2 DEF Init, TypeOK

LEMMA TypeOfReconcile ==
    ASSUME TypeOK, BeginTick \/ ReconcilePositions \/ PositionsUnavailable \/ SkipPositions
                   \/ ScanOrders \/ SkipScan
    PROVE  TypeOK'
  <1>1. CASE BeginTick
    BY <1>1 DEF TypeOK, BeginTick, mem, disk, env
  <1>2. CASE ReconcilePositions
    BY <1>2 DEF TypeOK, ReconcilePositions, mem, env
  <1>3. CASE PositionsUnavailable \/ SkipPositions
    BY <1>3 DEF TypeOK, PositionsUnavailable, SkipPositions, mem, disk, env
  <1>4. CASE ScanOrders \/ SkipScan
    BY <1>4 DEF TypeOK, ScanOrders, SkipScan, mem, disk, env
  <1> QED BY <1>1, <1>2, <1>3, <1>4

LEMMA TypeOfAmbiguous ==
    ASSUME TypeOK,
           \/ \E o \in Orders : AmbiguousFound(o) \/ AmbiguousNotFound(o) \/ AmbiguousQueryFails(o)
           \/ CheckAbsence \/ ReleaseKey
    PROVE  TypeOK'
  <1>1. ASSUME NEW o \in Orders, AmbiguousFound(o) \/ AmbiguousNotFound(o) \/ AmbiguousQueryFails(o)
        PROVE  TypeOK'
    BY <1>1 DEF TypeOK, AmbiguousFound, AmbiguousNotFound, AmbiguousQueryFails, mem, disk, env
  <1>2. CASE CheckAbsence
    BY <1>2 DEF TypeOK, CheckAbsence, KeyOf, disk, env
  <1>3. CASE ReleaseKey
    BY <1>3 DEF TypeOK, ReleaseKey, env
  <1> QED BY <1>1, <1>2, <1>3

LEMMA TypeOfRegistry ==
    ASSUME TypeOK,
           \/ ReturnEarly \/ StartRows \/ CancelRow \/ ResolveRow \/ WriteRegistry
           \/ \E o \in Orders : VisitStaleRow(o) \/ VisitListedRow(o) \/ VisitUnlistedRow(o)
    PROVE  TypeOK'
  <1>1. CASE ReturnEarly \/ StartRows
    BY <1>1 DEF TypeOK, ReturnEarly, StartRows, mem, disk, env
  <1>2. ASSUME NEW o \in Orders, VisitStaleRow(o) PROVE TypeOK'
    BY <1>2 DEF TypeOK, VisitStaleRow, mem, disk, env
  <1>3. ASSUME NEW o \in Orders, VisitListedRow(o) \/ VisitUnlistedRow(o) PROVE TypeOK'
    BY <1>3 DEF TypeOK, VisitListedRow, VisitUnlistedRow, mem, disk, env
  <1>4. CASE CancelRow
    BY <1>4 DEF TypeOK, CancelRow, mem, disk, env
  <1>5. CASE ResolveRow
    BY <1>5 DEF TypeOK, ResolveRow, mem, env
  <1>6. CASE WriteRegistry
    BY <1>6 DEF TypeOK, WriteRegistry, mem, env
  <1> QED BY <1>1, <1>2, <1>3, <1>4, <1>5, <1>6

LEMMA TypeOfEntry ==
    ASSUME TypeOK,
           \/ \E s \in Symbols : SkipSymbol(s) \/ RefuseDuplicate(s) \/ ClaimKey(s)
           \/ PersistKey \/ PersistKeyFails \/ RefuseBeforeSend
           \/ \E o \in Orders, style \in Styles : SendOrder(o, style)
           \/ SubmitAccepted \/ SubmitRejected \/ SubmitAmbiguous \/ SubmitUnclassified
           \/ PollAndRecord \/ EndTick
    PROVE  TypeOK'
  <1>1. ASSUME NEW s \in Symbols, SkipSymbol(s) \/ RefuseDuplicate(s) PROVE TypeOK'
    BY <1>1 DEF TypeOK, SkipSymbol, RefuseDuplicate, KnownKeys, mem, disk, env
  <1>2. ASSUME NEW s \in Symbols, ClaimKey(s) PROVE TypeOK'
    <2>1. EntryKey(s) \in Keys
      BY <1>2 DEF TypeOK, ClaimKey, MayEnter, EntryKey, Keys
    <2> QED BY <1>2, <2>1 DEF TypeOK, ClaimKey, KnownKeys, disk, env
  <1>3. CASE PersistKey \/ PersistKeyFails \/ RefuseBeforeSend
    BY <1>3 DEF TypeOK, PersistKey, PersistKeyFails, RefuseBeforeSend, EndOfTick, mem, disk, env
  <1>4. ASSUME NEW o \in Orders, NEW style \in Styles, SendOrder(o, style) PROVE TypeOK'
    BY <1>4 DEF TypeOK, SendOrder, mem, disk, env
  <1>5. CASE SubmitAccepted \/ SubmitRejected \/ SubmitAmbiguous \/ SubmitUnclassified
    BY <1>5 DEF TypeOK, SubmitAccepted, SubmitRejected, SubmitAmbiguous, SubmitUnclassified,
                mem, disk, env
  <1>6. CASE PollAndRecord
    BY <1>6 DEF TypeOK, PollAndRecord, Upsert, mem, env
  <1>7. CASE EndTick
    BY <1>7 DEF TypeOK, EndTick, EndOfTick, mem, disk, env
  <1> QED BY <1>1, <1>2, <1>3, <1>4, <1>5, <1>6, <1>7

LEMMA TypeOfEnvironment ==
    ASSUME TypeOK, Exchange \/ NextCandle \/ SwitchTrading \/ Crash \/ Restart
    PROVE  TypeOK'
  <1>1. ASSUME NEW o \in Orders, Arrive(o) \/ Lose(o) \/ Fill(o) \/ FillInPart(o) \/ Expire(o)
        PROVE  TypeOK'
    <2> DEFINE Rec == [key : Keys \cup {NoKey}, style : Styles, st : OrderStates, fill : BOOLEAN]
    <2>1. order \in [Orders -> Rec]
      BY DEF TypeOK
    <2>2. \E r \in Rec : order' = [order EXCEPT ![o] = r]
      <3>1. ASSUME NEW st \in OrderStates PROVE [order[o] EXCEPT !.st = st] \in Rec
        BY <2>1
      <3>2. CASE Arrive(o) \/ Lose(o) \/ Expire(o)
        BY <3>1, <3>2 DEF Arrive, Lose, Expire
      <3>3. CASE Fill(o)
        <4>1. [order[o] EXCEPT !.st = "filled", !.fill = TRUE] \in Rec
          BY <2>1
        <4> QED BY <3>3, <4>1 DEF Fill
      <3>4. CASE FillInPart(o)
        <4>1. [order[o] EXCEPT !.fill = TRUE] \in Rec
          BY <2>1
        <4> QED BY <3>4, <4>1 DEF FillInPart
      <3> QED BY <1>1, <3>2, <3>3, <3>4
    <2>3. order' \in [Orders -> Rec]
      BY <2>1, <2>2
    <2>4. UNCHANGED <<tick, mem, disk, env>>
      BY <1>1 DEF Arrive, Lose, Fill, FillInPart, Expire
    <2> QED BY <2>4, <2>3 DEF TypeOK, tick, mem, disk, env
  <1>2. CASE NextCandle \/ SwitchTrading
    <2>1. candle' \in 1..MaxCandle /\ tradeEnabled' \in BOOLEAN /\ crashes' \in 0..MaxCrashes
      <3>1. CASE NextCandle
        BY <3>1, BoundsAssumption DEF TypeOK, NextCandle
      <3>2. CASE SwitchTrading
        BY <3>2 DEF TypeOK, SwitchTrading
      <3> QED BY <1>2, <3>1, <3>2
    <2>2. UNCHANGED <<tick, mem, disk, order>>
      BY <1>2 DEF NextCandle, SwitchTrading
    <2> QED BY <2>1, <2>2 DEF TypeOK, tick, mem, disk
  <1>3. CASE Crash
    <2>1. crashes' \in 0..MaxCrashes
      BY <1>3, BoundsAssumption DEF TypeOK, Crash
    <2>2. keyFile' \subseteq Keys /\ pc' = "down"
      BY <1>3 DEF TypeOK, Crash
    <2> QED BY <1>3, <2>1, <2>2 DEF TypeOK, Crash
  <1>4. CASE Restart
    BY <1>4 DEF TypeOK, Restart, mem, disk, env
  <1> QED BY <1>1, <1>2, <1>3, <1>4 DEF Exchange

LEMMA TypeNext == TypeOK /\ [Next]_vars => TypeOK'
  <1> SUFFICES ASSUME TypeOK, [Next]_vars PROVE TypeOK'
    OBVIOUS
  <1>1. CASE BeginTick \/ Tick
    BY <1>1, TypeOfReconcile, TypeOfAmbiguous, TypeOfRegistry, TypeOfEntry DEF Tick
  <1>2. CASE Exchange \/ NextCandle \/ SwitchTrading \/ Crash \/ Restart
    BY <1>2, TypeOfEnvironment
  <1>3. CASE UNCHANGED vars
    BY <1>3 DEF TypeOK, vars, tick, mem, disk, env
  <1> QED BY <1>1, <1>2, <1>3 DEF Next

(* Every variable keeps its type, whatever fails.                          *)
THEOREM Typed == Spec => []TypeOK
  BY TypeInit, TypeNext, PTL DEF Spec
-----------------------------------------------------------------------------
(* The execution-key protocol.                                             *)

LEMMA KeysAtStart == Init => KeyProtocol
  BY DEF Init, KeyProtocol, ConsumedKeysCoverOrders, PendingUnique, ClaimHeld,
         AmbiguousSettled, Pending, Unused

(* What becomes of the orders in a step that sends none.                   *)
OrdersMove ==
    \A o \in Orders :
        /\ order'[o].key = order[o].key
        /\ order'[o].st \in Accepted \cup {"sent"} => order[o].st \in Accepted \cup {"sent"}
        /\ order[o].st # "unused" => order'[o].st # "unused"
        /\ order[o].st \notin {"unused", "sent"} => order'[o].st \notin {"unused", "sent"}

(* A step that sends no order and leaves the keys alone is harmless, when  *)
(* it stays where it is or goes where no key is held.                      *)
LEMMA HarmlessStep ==
    ASSUME TypeOK, KeyProtocol, OrdersMove, UNCHANGED <<keys, loaded, ambiguous, keyFile>>,
           ambTodo' \subseteq ambiguous,
           \/ pc' \notin {"persistKey", "send", "await", "release", "absence"}
           \/ UNCHANGED <<pc, cur, curKey>>
    PROVE  KeyProtocol'
  <1>1. \A o \in Orders : /\ KeyOf(o)' = KeyOf(o)
                          /\ o \in Pending' => o \in Pending
    BY DEF OrdersMove, KeyOf, Pending
  <1>2. Pending' \subseteq Orders /\ Pending \subseteq Orders
    BY DEF Pending
  <1>3. ConsumedKeysCoverOrders'
    BY <1>1, <1>2 DEF KeyProtocol, ConsumedKeysCoverOrders
  <1>4. PendingUnique'
    BY <1>1, <1>2 DEF KeyProtocol, PendingUnique
  <1>5. ambiguous \subseteq Orders
    BY DEF TypeOK
  <1>6. ClaimHeld'
    <2>1. CASE pc' \notin {"persistKey", "send", "await", "release", "absence"}
      BY <2>1 DEF ClaimHeld
    <2>2. CASE UNCHANGED <<pc, cur, curKey>>
      <3>1. pc = "await" => Used(cur)'
        BY <2>2 DEF KeyProtocol, ClaimHeld, OrdersMove, Used
      <3>2. pc \in {"persistKey", "send", "await"} => \A a \in ambiguous' : KeyOf(a)' # curKey'
        BY <1>1, <1>5, <2>2 DEF KeyProtocol, ClaimHeld
      <3>3. pc \in {"persistKey", "send", "release"} => \A o \in Pending' : KeyOf(o)' # curKey'
        BY <1>1, <1>2, <2>2 DEF KeyProtocol, ClaimHeld
      <3>4. pc = "await" => /\ KeyOf(cur)' = curKey'
                            /\ \A o \in Pending' : KeyOf(o)' = curKey' => o = cur
        BY <1>1, <1>2, <2>2 DEF KeyProtocol, ClaimHeld
      <3> QED BY <2>2, <3>1, <3>2, <3>3, <3>4 DEF KeyProtocol, ClaimHeld
    <2> QED BY <2>1, <2>2
  <1>7. AmbiguousSettled'
    <2>1. \A a \in ambiguous' : order'[a].st \notin {"unused", "sent"}
      BY <1>5 DEF KeyProtocol, AmbiguousSettled, OrdersMove
    <2>2. \A a \in ambiguous', o \in Pending' : KeyOf(a)' = KeyOf(o)' => a = o
      BY <1>1, <1>2, <1>5 DEF KeyProtocol, AmbiguousSettled
    <2>3. pc' = "absence" => cur' \in ambiguous' /\ order'[cur'].st \notin Accepted
      BY <1>5 DEF KeyProtocol, AmbiguousSettled, OrdersMove
    <2> QED BY <2>1, <2>2, <2>3 DEF KeyProtocol, AmbiguousSettled
  <1> QED BY <1>3, <1>4, <1>6, <1>7 DEF KeyProtocol

LEMMA StillOrdersMove == UNCHANGED order => OrdersMove
  BY DEF OrdersMove

LEMMA ExchangeMoves ==
    ASSUME TypeOK, Exchange \/ CancelRow
    PROVE  OrdersMove
  <1> USE DEF TypeOK, OrdersMove
  <1>1. ASSUME NEW o \in Orders, Arrive(o) \/ Lose(o) \/ Fill(o) \/ FillInPart(o) \/ Expire(o)
        PROVE  OrdersMove
    BY <1>1 DEF Arrive, Lose, Fill, FillInPart, Expire
  <1>2. CASE CancelRow
    BY <1>2 DEF CancelRow
  <1> QED BY <1>1, <1>2 DEF Exchange

LEMMA KeysThroughTick ==
    ASSUME TypeOK, KeyProtocol,
           \/ BeginTick \/ ReconcilePositions \/ PositionsUnavailable \/ SkipPositions
           \/ ScanOrders \/ SkipScan \/ ReturnEarly \/ StartRows
           \/ CancelRow \/ ResolveRow \/ WriteRegistry
           \/ \E o \in Orders : \/ AmbiguousQueryFails(o) \/ VisitStaleRow(o)
                                \/ VisitListedRow(o) \/ VisitUnlistedRow(o)
           \/ \E s \in Symbols : SkipSymbol(s)
           \/ PersistKeyFails \/ SubmitAccepted \/ PollAndRecord \/ EndTick
           \/ Exchange \/ NextCandle \/ SwitchTrading \/ Restart \/ UNCHANGED vars
    PROVE  KeyProtocol'
  <1> USE DEF mem, disk, env, tick
  <1>1. ambTodo \subseteq ambiguous
    BY DEF KeyProtocol, AmbiguousSettled
  <1> DEFINE Calm == pc' \notin {"persistKey", "send", "await", "release", "absence"}
             Kept == UNCHANGED <<keys, loaded, ambiguous, keyFile>>
  <1>2. CASE \/ BeginTick \/ ReconcilePositions \/ PositionsUnavailable \/ SkipPositions
             \/ ScanOrders \/ SkipScan \/ ReturnEarly \/ StartRows
    <2>1. Calm /\ Kept /\ UNCHANGED order /\ ambTodo' \subseteq ambiguous
      BY <1>1, <1>2 DEF BeginTick, ReconcilePositions, PositionsUnavailable, SkipPositions,
                        ScanOrders, SkipScan, ReturnEarly, StartRows
    <2> QED BY <2>1, HarmlessStep, StillOrdersMove
  <1>3. CASE ResolveRow \/ WriteRegistry
    <2>1. Calm /\ Kept /\ UNCHANGED order /\ ambTodo' \subseteq ambiguous
      BY <1>1, <1>3 DEF ResolveRow, WriteRegistry
    <2> QED BY <2>1, HarmlessStep, StillOrdersMove
  <1>4. ASSUME NEW o \in Orders, \/ AmbiguousQueryFails(o) \/ VisitStaleRow(o)
                                 \/ VisitListedRow(o) \/ VisitUnlistedRow(o)
        PROVE  KeyProtocol'
    <2>1. Calm /\ Kept /\ UNCHANGED order /\ ambTodo' \subseteq ambiguous
      BY <1>1, <1>4 DEF AmbiguousQueryFails, VisitStaleRow, VisitListedRow, VisitUnlistedRow
    <2> QED BY <2>1, HarmlessStep, StillOrdersMove
  <1>5. CASE \/ \E s \in Symbols : SkipSymbol(s)
             \/ PersistKeyFails \/ SubmitAccepted \/ PollAndRecord \/ EndTick
    <2>1. Calm /\ Kept /\ UNCHANGED order /\ ambTodo' \subseteq ambiguous
      BY <1>1, <1>5 DEF SkipSymbol, PersistKeyFails, SubmitAccepted, PollAndRecord, EndTick,
                        EndOfTick
    <2> QED BY <2>1, HarmlessStep, StillOrdersMove
  <1>6. CASE NextCandle \/ SwitchTrading \/ Restart \/ UNCHANGED vars
    <2>1. /\ Calm \/ UNCHANGED <<pc, cur, curKey>>
          /\ Kept /\ UNCHANGED order /\ ambTodo' \subseteq ambiguous
      BY <1>1, <1>6 DEF NextCandle, SwitchTrading, Restart, vars
    <2> QED BY <2>1, HarmlessStep, StillOrdersMove
  <1>7. CASE CancelRow
    <2>1. Calm /\ Kept /\ ambTodo' \subseteq ambiguous
      BY <1>1, <1>7 DEF CancelRow
    <2> QED BY <1>7, <2>1, HarmlessStep, ExchangeMoves
  <1>8. CASE Exchange
    <2>1. UNCHANGED <<pc, cur, curKey>> /\ Kept /\ ambTodo' \subseteq ambiguous
      BY <1>1, <1>8 DEF Exchange, Arrive, Lose, Fill, FillInPart, Expire
    <2> QED BY <1>8, <2>1, HarmlessStep, ExchangeMoves
  <1> QED BY <1>2, <1>3, <1>4, <1>5, <1>6, <1>7, <1>8

(* The ambiguous pass: only a key that no order has is given back.         *)
LEMMA KeysThroughAmbiguous ==
    ASSUME TypeOK, KeyProtocol,
           \/ \E o \in Orders : AmbiguousFound(o) \/ AmbiguousNotFound(o)
           \/ CheckAbsence \/ ReleaseKey
    PROVE  KeyProtocol'
  <1> USE DEF mem, disk, env
  <1>1. ambiguous \subseteq Orders /\ Pending \subseteq Orders
    BY DEF TypeOK, Pending
  <1>2. ASSUME NEW o \in Orders, AmbiguousFound(o) \/ AmbiguousNotFound(o)
        PROVE  KeyProtocol'
    <2>1. UNCHANGED <<order, keyFile, keys, loaded>> /\ ambiguous' \subseteq ambiguous
      BY <1>2 DEF AmbiguousFound, AmbiguousNotFound
    <2>2. ConsumedKeysCoverOrders' /\ PendingUnique'
      BY <2>1 DEF KeyProtocol, ConsumedKeysCoverOrders, PendingUnique, Pending, KeyOf
    <2>3. ClaimHeld'
      BY <1>2 DEF AmbiguousFound, AmbiguousNotFound, ClaimHeld
    <2>4. AmbiguousSettled'
      BY <1>2, <2>1 DEF KeyProtocol, AmbiguousSettled, AmbiguousFound, AmbiguousNotFound,
                        Pending, KeyOf
    <2> QED BY <2>2, <2>3, <2>4 DEF KeyProtocol
  <1>3. CASE CheckAbsence
    <2>1. UNCHANGED <<order, keyFile, keys, loaded>> /\ ambiguous' \subseteq ambiguous
      BY <1>3 DEF CheckAbsence
    <2>2. ConsumedKeysCoverOrders' /\ PendingUnique'
      BY <2>1 DEF KeyProtocol, ConsumedKeysCoverOrders, PendingUnique, Pending, KeyOf
    <2>3. cur \in ambiguous /\ loaded /\ \A o \in Pending : KeyOf(o) # KeyOf(cur)
      BY <1>1, <1>3 DEF KeyProtocol, AmbiguousSettled, CheckAbsence, Pending
    <2>4. ClaimHeld'
      <3>1. pc' = "ambiguous" \/ (pc' = "release" /\ curKey' = KeyOf(cur))
        BY <1>3 DEF CheckAbsence
      <3> QED BY <2>1, <2>3, <3>1 DEF ClaimHeld, Pending, KeyOf
    <2>5. AmbiguousSettled'
      <3>1. pc' # "absence" /\ ambTodo' \subseteq ambiguous'
        BY <1>3 DEF CheckAbsence, KeyProtocol, AmbiguousSettled
      <3> QED BY <2>1, <3>1 DEF KeyProtocol, AmbiguousSettled, Pending, KeyOf
    <2> QED BY <2>2, <2>4, <2>5 DEF KeyProtocol
  <1>4. CASE ReleaseKey
    <2>1. UNCHANGED <<order, loaded>> /\ ambiguous' \subseteq ambiguous /\ keys' = keys \ {curKey}
          /\ keyFile' \in {keys \ {curKey}, keyFile} /\ pc' \in {"ambiguous", "entries"}
      BY <1>4 DEF ReleaseKey
    <2>2. loaded /\ \A o \in Pending : KeyOf(o) # curKey
      BY <1>4 DEF KeyProtocol, ClaimHeld, ReleaseKey
    <2>3. ConsumedKeysCoverOrders'
      BY <1>1, <2>1, <2>2 DEF KeyProtocol, ConsumedKeysCoverOrders, Pending, KeyOf
    <2>4. PendingUnique' /\ ClaimHeld'
      BY <2>1 DEF KeyProtocol, PendingUnique, ClaimHeld, Pending, KeyOf
    <2>5. ambTodo' \subseteq ambiguous'
      BY <1>4 DEF ReleaseKey, KeyProtocol, AmbiguousSettled
    <2>6. AmbiguousSettled'
      BY <2>1, <2>5 DEF KeyProtocol, AmbiguousSettled, Pending, KeyOf
    <2> QED BY <2>3, <2>4, <2>6 DEF KeyProtocol
  <1> QED BY <1>2, <1>3, <1>4

(* The claim and its write: a key is claimed when no order has it.         *)
LEMMA KeysThroughClaim ==
    ASSUME TypeOK, KeyProtocol,
           \/ \E s \in Symbols : RefuseDuplicate(s) \/ ClaimKey(s)
           \/ PersistKey \/ RefuseBeforeSend
    PROVE  KeyProtocol'
  <1> USE DEF mem, disk, env
  <1>1. ambiguous \subseteq Orders /\ Pending \subseteq Orders
    BY DEF TypeOK, Pending
  <1>2. \A o \in Pending : KeyOf(o) \in KnownKeys
    BY DEF KeyProtocol, ConsumedKeysCoverOrders, KnownKeys
  <1>3. ASSUME NEW s \in Symbols, RefuseDuplicate(s) PROVE KeyProtocol'
    <2>1. UNCHANGED <<order, keyFile, ambiguous, ambTodo>> /\ keys' = KnownKeys /\ loaded'
          /\ pc' = "entries"
      BY <1>3 DEF RefuseDuplicate
    <2>2. ConsumedKeysCoverOrders'
      BY <1>2, <2>1 DEF KeyProtocol, ConsumedKeysCoverOrders, Pending, KeyOf
    <2> QED BY <2>1, <2>2 DEF KeyProtocol, PendingUnique, ClaimHeld, AmbiguousSettled,
                              Pending, KeyOf
  <1>4. ASSUME NEW s \in Symbols, ClaimKey(s) PROVE KeyProtocol'
    <2>1. /\ UNCHANGED <<order, keyFile, ambiguous, ambTodo>>
          /\ keys' = KnownKeys \cup {EntryKey(s)} /\ loaded'
          /\ pc' = "persistKey" /\ curKey' = EntryKey(s)
      BY <1>4 DEF ClaimKey
    <2>2. ConsumedKeysCoverOrders'
      BY <1>2, <2>1 DEF KeyProtocol, ConsumedKeysCoverOrders, Pending, KeyOf
    <2>3. \A o \in Pending : KeyOf(o) # EntryKey(s)
      BY <1>2, <1>4 DEF ClaimKey
    <2>4. \A a \in ambiguous : KeyOf(a) # EntryKey(s)
      <3>1. \A a \in ambiguous : KeyOf(a).sym # s
        BY <1>4, <1>1 DEF ClaimKey, MayEnter
      <3>2. EntryKey(s).sym = s
        BY DEF EntryKey
      <3> QED BY <3>1, <3>2
    <2>5. ClaimHeld'
      BY <2>1, <2>3, <2>4 DEF ClaimHeld, Pending, KeyOf
    <2> QED BY <2>1, <2>2, <2>5 DEF KeyProtocol, PendingUnique, AmbiguousSettled, Pending, KeyOf
  <1>5. CASE PersistKey
    <2>1. UNCHANGED <<order, mem, ambTodo, curKey>> /\ keyFile' = keys /\ pc' = "send"
      BY <1>5 DEF PersistKey
    <2>2. pc = "persistKey" /\ loaded
      BY <1>5 DEF PersistKey, KeyProtocol, ClaimHeld
    <2>3. ConsumedKeysCoverOrders'
      BY <2>1, <2>2 DEF KeyProtocol, ConsumedKeysCoverOrders, Pending, KeyOf
    <2> QED BY <2>1, <2>2, <2>3 DEF KeyProtocol, PendingUnique, ClaimHeld, AmbiguousSettled,
                                    Pending, KeyOf
  <1>6. CASE RefuseBeforeSend
    BY <1>6 DEF RefuseBeforeSend, KeyProtocol, ConsumedKeysCoverOrders, PendingUnique,
                ClaimHeld, AmbiguousSettled, Pending, KeyOf
  <1> QED BY <1>3, <1>4, <1>5, <1>6

(* The submit: the order that is sent is the only one with its key.        *)
LEMMA KeysThroughSubmit ==
    ASSUME TypeOK, KeyProtocol, HonestTransport,
           \/ \E o \in Orders, style \in Styles : SendOrder(o, style)
           \/ SubmitRejected \/ SubmitAmbiguous \/ SubmitUnclassified
    PROVE  KeyProtocol'
  <1> USE DEF mem, disk, env
  <1>1. ambiguous \subseteq Orders /\ Pending \subseteq Orders
    BY DEF TypeOK, Pending
  <1>2. ASSUME NEW o \in Orders, NEW style \in Styles, SendOrder(o, style) PROVE KeyProtocol'
    <2>1. /\ order' = [order EXCEPT ![o] = [key |-> curKey, style |-> style,
                                            st |-> "sent", fill |-> FALSE]]
          /\ order[o].st = "unused" /\ pc = "send" /\ pc' = "await" /\ cur' = o
          /\ UNCHANGED <<mem, disk, ambTodo, curKey>>
      BY <1>2 DEF SendOrder, Used
    <2>2. /\ order'[o].key = curKey /\ order'[o].st = "sent"
          /\ \A p \in Orders \ {o} : order'[p] = order[p]
      BY <2>1 DEF TypeOK
    <2>3. Pending' = Pending \cup {o}
      BY <2>2 DEF Pending
    <2>4. loaded /\ curKey \in keys /\ curKey \in keyFile
          /\ (\A p \in Pending : KeyOf(p) # curKey) /\ (\A a \in ambiguous : KeyOf(a) # curKey)
      BY <2>1 DEF KeyProtocol, ClaimHeld
    <2>5. o \notin ambiguous /\ o \notin Pending
      BY <2>1 DEF KeyProtocol, AmbiguousSettled, Pending
    <2>6. KeyOf(o)' = curKey /\ \A p \in Pending \cup ambiguous : KeyOf(p)' = KeyOf(p)
      BY <1>1, <2>2, <2>5 DEF KeyOf
    <2>7. ConsumedKeysCoverOrders'
      BY <2>1, <2>3, <2>4, <2>6 DEF KeyProtocol, ConsumedKeysCoverOrders
    <2>8. PendingUnique'
      <3>1. \A p, q \in Pending : KeyOf(p) = KeyOf(q) => p = q
        BY <1>1 DEF KeyProtocol, PendingUnique
      <3>2. \A p, q \in Pending' : KeyOf(p)' = KeyOf(q)' => p = q
        BY <2>3, <2>4, <2>6, <3>1
      <3> QED BY <3>2, <1>1, <2>3 DEF PendingUnique, Pending
    <2>9. ClaimHeld'
      BY <2>1, <2>2, <2>3, <2>4, <2>6 DEF ClaimHeld, Used
    <2>10. AmbiguousSettled'
      BY <1>1, <2>1, <2>2, <2>3, <2>4, <2>5, <2>6 DEF KeyProtocol, AmbiguousSettled
    <2> QED BY <2>7, <2>8, <2>9, <2>10 DEF KeyProtocol
  <1>3. CASE SubmitRejected
    BY <1>3 DEF SubmitRejected, KeyProtocol, ConsumedKeysCoverOrders, PendingUnique,
                ClaimHeld, AmbiguousSettled, Pending, KeyOf
  <1>4. CASE SubmitAmbiguous
    <2>1. /\ pc = "await" /\ pc' = "entries" /\ ambiguous' = ambiguous \cup {cur}
          /\ UNCHANGED <<order, keys, loaded, keyFile, ambTodo>>
      BY <1>4 DEF SubmitAmbiguous
    <2>2. /\ cur \in Orders /\ loaded /\ order[cur].st \notin {"unused", "sent"}
          /\ \A o \in Pending : KeyOf(o) = KeyOf(cur) => o = cur
      BY <1>4, <2>1 DEF KeyProtocol, ClaimHeld, Used, SubmitAmbiguous, FateKnown, HonestTransport
    <2>3. ConsumedKeysCoverOrders' /\ PendingUnique' /\ ClaimHeld'
      BY <2>1 DEF KeyProtocol, ConsumedKeysCoverOrders, PendingUnique, ClaimHeld, Pending, KeyOf
    <2>4. AmbiguousSettled'
      BY <2>1, <2>2 DEF KeyProtocol, AmbiguousSettled, Pending, KeyOf
    <2> QED BY <2>3, <2>4 DEF KeyProtocol
  <1>5. CASE SubmitUnclassified
    BY <1>5 DEF SubmitUnclassified, HonestTransport
  <1> QED BY <1>2, <1>3, <1>4, <1>5

LEMMA KeysThroughCrash ==
    ASSUME KeyProtocol, HonestTransport, Crash
    PROVE  KeyProtocol'
  <1>1. /\ UNCHANGED <<order, keyFile>> /\ loaded' = FALSE /\ ambiguous' = {} /\ ambTodo' = {}
        /\ pc' = "down"
    BY DEF Crash, HonestTransport
  <1> QED BY <1>1 DEF KeyProtocol, ConsumedKeysCoverOrders, PendingUnique, ClaimHeld,
                      AmbiguousSettled, Pending, KeyOf

LEMMA KeysNext ==
    ASSUME HonestTransport, TypeOK, KeyProtocol, [Next]_vars
    PROVE  KeyProtocol'
  BY KeysThroughTick, KeysThroughAmbiguous, KeysThroughClaim, KeysThroughSubmit,
     KeysThroughCrash DEF Next, Tick

(* The execution-key protocol holds whatever interleaves with it: the      *)
(* exchange, any number of crashes, failing queries, cancels and writes.   *)
THEOREM KeysHold == ASSUME HonestTransport PROVE Spec => []KeyProtocol
  <1>1. TypeOK /\ KeyProtocol /\ [Next]_vars => KeyProtocol'
    BY KeysNext
  <1> QED BY <1>1, KeysAtStart, Typed, PTL DEF Spec

(* No two orders the exchange accepted were sent for the same decision.    *)
THEOREM NoDuplicateOrders == ASSUME HonestTransport PROVE Spec => []OneOrderPerKey
  <1>1. KeyProtocol => OneOrderPerKey
    BY DEF KeyProtocol, PendingUnique, Pending, OneOrderPerKey
  <1> QED BY <1>1, KeysHold, PTL
-----------------------------------------------------------------------------
(* The protocol implements EntryOnce.                                      *)

(* The orders the exchange accepted, and their keys, stay the same.        *)
NoneAccepted ==
    \A o \in Orders : /\ order'[o].st \in Accepted <=> order[o].st \in Accepted
                      /\ order[o].st \in Accepted => order'[o].key = order[o].key

LEMMA OnlyArrivalPlaces ==
    ASSUME TypeOK, [Next]_vars
    PROVE  NoneAccepted \/ \E o \in Orders : Arrive(o) /\ order'[o].st = "live"
  <1> USE DEF NoneAccepted
  <1>1. CASE UNCHANGED order
    BY <1>1
  <1>2. ASSUME NEW o \in Orders, Arrive(o)
        PROVE  NoneAccepted \/ order'[o].st = "live"
    BY <1>2 DEF Arrive, TypeOK
  <1>3. ASSUME NEW o \in Orders, Lose(o) \/ Fill(o) \/ FillInPart(o) \/ Expire(o)
        PROVE  NoneAccepted
    BY <1>3 DEF Lose, Fill, FillInPart, Expire, TypeOK
  <1>4. CASE CancelRow
    BY <1>4 DEF CancelRow, TypeOK
  <1>5. ASSUME NEW o \in Orders, NEW style \in Styles, SendOrder(o, style) PROVE NoneAccepted
    BY <1>5 DEF SendOrder, Used, TypeOK
  <1>6. CASE \/ BeginTick \/ ReconcilePositions \/ PositionsUnavailable \/ SkipPositions
             \/ ScanOrders \/ SkipScan
             \/ \E o \in Orders : \/ AmbiguousFound(o) \/ AmbiguousNotFound(o)
                                  \/ AmbiguousQueryFails(o)
             \/ CheckAbsence \/ ReleaseKey \/ ReturnEarly \/ StartRows
             \/ \E o \in Orders : VisitStaleRow(o) \/ VisitListedRow(o) \/ VisitUnlistedRow(o)
             \/ ResolveRow \/ WriteRegistry
    <2>1. UNCHANGED order
      BY <1>6 DEF BeginTick, ReconcilePositions, PositionsUnavailable, SkipPositions,
                  ScanOrders, SkipScan, AmbiguousFound, AmbiguousNotFound, AmbiguousQueryFails,
                  CheckAbsence, ReleaseKey, ReturnEarly, StartRows, VisitStaleRow,
                  VisitListedRow, VisitUnlistedRow, ResolveRow, WriteRegistry
    <2> QED BY <1>1, <2>1
  <1>7. CASE \/ \E s \in Symbols : SkipSymbol(s) \/ RefuseDuplicate(s) \/ ClaimKey(s)
             \/ PersistKey \/ PersistKeyFails \/ RefuseBeforeSend
             \/ SubmitAccepted \/ SubmitRejected \/ SubmitAmbiguous \/ SubmitUnclassified
             \/ PollAndRecord \/ EndTick \/ NextCandle \/ SwitchTrading \/ Crash \/ Restart
             \/ UNCHANGED vars
    <2>1. UNCHANGED order
      BY <1>7 DEF SkipSymbol, RefuseDuplicate, ClaimKey, PersistKey, PersistKeyFails,
                  RefuseBeforeSend, SubmitAccepted, SubmitRejected, SubmitAmbiguous,
                  SubmitUnclassified, PollAndRecord, EndTick, NextCandle, SwitchTrading,
                  Crash, Restart, vars
    <2> QED BY <1>1, <2>1
  <1> QED BY <1>2, <1>3, <1>4, <1>5, <1>6, <1>7 DEF Next, Tick, Exchange

(* Every step that accepts no order rewrites the claims, and an accepted   *)
(* order is placed for a claimed key that had none.                        *)
LEMMA OnceNext ==
    ASSUME TypeOK, KeyProtocol, TypeOK', KeyProtocol', [Next]_vars
    PROVE  Once!Next
  <1> USE DEF Once!Next
  <1>1. CASE NoneAccepted
    <2>1. PlacedFor' = PlacedFor
      <3>1. \A k \in Keys : {o \in Orders : order'[o].st \in Accepted /\ order'[o].key = k}
                            = {o \in Orders : order[o].st \in Accepted /\ order[o].key = k}
        BY <1>1 DEF NoneAccepted
      <3> QED BY <3>1, Zenon DEF PlacedFor, KeyOf
    <2>2. keyFile' \subseteq Keys
      BY DEF TypeOK
    <2>3. \A k \in Keys : PlacedFor'[k] # {} => k \in keyFile'
      BY DEF PlacedFor, KeyOf, KeyProtocol, ConsumedKeysCoverOrders, Pending
    <2>4. Once!PlacedKeys \subseteq keyFile'
      BY <2>1, <2>3 DEF Once!PlacedKeys
    <2> QED BY <2>1, <2>2, <2>4 DEF Once!Rewrite
  <1>2. ASSUME NEW o \in Orders, Arrive(o), order'[o].st = "live"
        PROVE  Once!Next
    <2> DEFINE k == order[o].key
    <2>1. /\ order[o].st = "sent" /\ UNCHANGED keyFile
          /\ order'[o].key = k /\ \A p \in Orders \ {o} : order'[p] = order[p]
      BY <1>2 DEF Arrive, TypeOK, disk
    <2>2. o \in Pending
      BY <2>1 DEF Pending
    <2>3. k \in keyFile /\ k \in Keys
      BY <2>2 DEF KeyProtocol, ConsumedKeysCoverOrders, KeyOf, TypeOK
    <2>4. \A p \in Orders : order[p].st \in Accepted => order[p].key # k
      BY <2>1, <2>2 DEF KeyProtocol, PendingUnique, Pending, KeyOf
    <2>5. PlacedFor[k] = {}
      BY <2>3, <2>4 DEF PlacedFor, KeyOf
    <2>6. PlacedFor' = [PlacedFor EXCEPT ![k] = {o}]
      <3>1. {p \in Orders : order'[p].st \in Accepted /\ order'[p].key = k} = {o}
        BY <1>2, <2>1, <2>4
      <3>2. \A j \in Keys \ {k} : {p \in Orders : order'[p].st \in Accepted /\ order'[p].key = j}
                                  = {p \in Orders : order[p].st \in Accepted /\ order[p].key = j}
        BY <2>1
      <3> QED BY <2>3, <3>1, <3>2 DEF PlacedFor, KeyOf
    <2>7. Once!Place(k, o)
      BY <2>1, <2>3, <2>5, <2>6 DEF Once!Place
    <2> QED BY <2>3, <2>7
  <1> QED BY <1>1, <1>2, OnlyArrivalPlaces

(* An order is placed only for a durably claimed key, at most one for each.*)
THEOREM Implements == ASSUME HonestTransport PROVE Spec => ImplementsEntryOnce
  <1>1. Init => Once!Init
    BY DEF Init, Once!Init, PlacedFor, Unused
  <1>2. TypeOK /\ KeyProtocol /\ TypeOK' /\ KeyProtocol' /\ [Next]_vars => [Once!Next]_(Once!vars)
    BY OnceNext
  <1> QED BY <1>1, <1>2, Typed, KeysHold, PTL DEF Spec, ImplementsEntryOnce, Once!Spec
-----------------------------------------------------------------------------
(* The ledger holds no phantom.                                            *)

FillsAgree ==
    \A o \in Orders : /\ order[o].st = "filled" => order[o].fill
                      /\ order[o].st = "unused" => ~order[o].fill

(* Fills stay, with the leg they are on.                                   *)
FillsStay == \A o \in Orders : order[o].fill => order'[o].fill /\ order'[o].key = order[o].key

LEMMA PositionsStay ==
    ASSUME FillsStay, NEW leg, HasPosition(leg)
    PROVE  HasPosition(leg)'
  BY DEF FillsStay, HasPosition, LegOfOrder, LegOf, KeyOf

LEMMA FillsOfOrderSteps ==
    ASSUME TypeOK, FillsAgree,
           \/ Exchange \/ CancelRow \/ UNCHANGED order
           \/ \E o \in Orders, style \in Styles : SendOrder(o, style)
    PROVE  FillsAgree' /\ FillsStay
  <1> USE DEF TypeOK, FillsAgree, FillsStay
  <1>1. ASSUME NEW o \in Orders, Arrive(o) \/ Lose(o) \/ Fill(o) \/ FillInPart(o) \/ Expire(o)
        PROVE  FillsAgree' /\ FillsStay
    BY <1>1 DEF Arrive, Lose, Fill, FillInPart, Expire
  <1>2. CASE CancelRow
    BY <1>2 DEF CancelRow
  <1>3. ASSUME NEW o \in Orders, NEW style \in Styles, SendOrder(o, style)
        PROVE  FillsAgree' /\ FillsStay
    BY <1>3 DEF SendOrder, Used
  <1>4. CASE UNCHANGED order
    BY <1>4
  <1> QED BY <1>1, <1>2, <1>3, <1>4 DEF Exchange

LedgerSound == FillsAgree /\ LedgerRowsAreFills

LEMMA LedgerKept ==
    ASSUME TypeOK, LedgerSound, UNCHANGED ledger, FillsStay
    PROVE  LedgerRowsAreFills'
  BY PositionsStay DEF LedgerSound, LedgerRowsAreFills

LEMMA LedgerWritten ==
    ASSUME TypeOK, LedgerSound, ReconcilePositions \/ ResolveRow \/ PollAndRecord
    PROVE  LedgerSound'
  <1>1. UNCHANGED order
    BY DEF ReconcilePositions, ResolveRow, PollAndRecord
  <1>2. FillsAgree' /\ \A leg : HasPosition(leg)' = HasPosition(leg)
    BY <1>1 DEF LedgerSound, FillsAgree, HasPosition, LegOfOrder, KeyOf
  <1>3. ledger \in [Legs -> {"none", "bot", "adopted"}]
    BY DEF TypeOK
  <1>4. CASE ReconcilePositions
    <2>1. \A leg \in Legs : ledger'[leg] # "none" => ledger[leg] # "none" \/ leg \in Ghosts
      BY <1>4 DEF ReconcilePositions, Foreign
    <2> QED BY <1>2, <2>1 DEF LedgerSound, LedgerRowsAreFills, Ghosts
  <1>5. CASE ResolveRow \/ PollAndRecord
    <2>1. UNCHANGED ledger \/ /\ order[cur].fill /\ cur \in Orders
                              /\ \A leg \in Legs : leg # LegOfOrder(cur) => ledger'[leg] = ledger[leg]
      <3>1. CASE ResolveRow
        BY <3>1, <1>3 DEF ResolveRow, LedgerSound, FillsAgree, TypeOK
      <3>2. CASE PollAndRecord
        BY <3>2, <1>3 DEF PollAndRecord, TypeOK
      <3> QED BY <1>5, <3>1, <3>2
    <2>2. order[cur].fill /\ cur \in Orders => HasPosition(LegOfOrder(cur))
      BY DEF HasPosition
    <2> QED BY <1>2, <2>1, <2>2 DEF LedgerSound, LedgerRowsAreFills
  <1> QED BY <1>2, <1>4, <1>5 DEF LedgerSound

LEMMA LedgerNext == TypeOK /\ LedgerSound /\ [Next]_vars => LedgerSound'
  <1> SUFFICES ASSUME TypeOK, LedgerSound, [Next]_vars PROVE LedgerSound'
    OBVIOUS
  <1> USE DEF mem, disk, env, tick
  <1>1. CASE ReconcilePositions \/ ResolveRow \/ PollAndRecord
    BY <1>1, LedgerWritten
  <1>2. CASE UNCHANGED ledger /\ ( \/ Exchange \/ CancelRow \/ UNCHANGED order
                                  \/ \E o \in Orders, style \in Styles : SendOrder(o, style))
    <2>1. FillsAgree' /\ FillsStay
      BY <1>2, FillsOfOrderSteps DEF LedgerSound
    <2> QED BY <1>2, <2>1, LedgerKept DEF LedgerSound
  <1>3. CASE Exchange \/ CancelRow \/ \E o \in Orders, style \in Styles : SendOrder(o, style)
    <2>1. UNCHANGED ledger
      BY <1>3 DEF Exchange, Arrive, Lose, Fill, FillInPart, Expire, CancelRow, SendOrder
    <2> QED BY <1>2, <1>3, <2>1
  <1>4. CASE \/ BeginTick \/ PositionsUnavailable \/ SkipPositions \/ ScanOrders \/ SkipScan
             \/ \E o \in Orders : \/ AmbiguousFound(o) \/ AmbiguousNotFound(o)
                                  \/ AmbiguousQueryFails(o)
             \/ CheckAbsence \/ ReleaseKey \/ ReturnEarly \/ StartRows
             \/ \E o \in Orders : VisitStaleRow(o) \/ VisitListedRow(o) \/ VisitUnlistedRow(o)
             \/ WriteRegistry
    <2>1. UNCHANGED <<ledger, order>>
      BY <1>4 DEF BeginTick, PositionsUnavailable, SkipPositions, ScanOrders, SkipScan,
                  AmbiguousFound, AmbiguousNotFound, AmbiguousQueryFails, CheckAbsence,
                  ReleaseKey, ReturnEarly, StartRows, VisitStaleRow, VisitListedRow,
                  VisitUnlistedRow, WriteRegistry
    <2> QED BY <1>2, <2>1
  <1>5. CASE \/ \E s \in Symbols : SkipSymbol(s) \/ RefuseDuplicate(s) \/ ClaimKey(s)
             \/ PersistKey \/ PersistKeyFails \/ RefuseBeforeSend
             \/ SubmitAccepted \/ SubmitRejected \/ SubmitAmbiguous \/ SubmitUnclassified
             \/ EndTick \/ NextCandle \/ SwitchTrading \/ Crash \/ Restart \/ UNCHANGED vars
    <2>1. UNCHANGED <<ledger, order>>
      BY <1>5 DEF SkipSymbol, RefuseDuplicate, ClaimKey, PersistKey, PersistKeyFails,
                  RefuseBeforeSend, SubmitAccepted, SubmitRejected, SubmitAmbiguous,
                  SubmitUnclassified, EndTick, NextCandle, SwitchTrading, Crash, Restart, vars
    <2> QED BY <1>2, <2>1
  <1> QED BY <1>1, <1>3, <1>4, <1>5 DEF Next, Tick

(* A ledger row stands for a fill of the exchange, under every fault.      *)
THEOREM NoPhantomRows == Spec => []LedgerRowsAreFills
  <1>1. Init => LedgerSound
    BY DEF Init, LedgerSound, FillsAgree, LedgerRowsAreFills, Unused
  <1>2. LedgerSound => LedgerRowsAreFills
    BY DEF LedgerSound
  <1> QED BY <1>1, <1>2, LedgerNext, Typed, PTL DEF Spec
-----------------------------------------------------------------------------
(* What each step may touch: the orders, the ledger, the registry, the     *)
(* rows marked as dropped, and the claim in progress.                      *)

Claiming == {"persistKey", "send", "await", "poll"}

OrderSteps ==
    \/ Exchange \/ CancelRow \/ UNCHANGED order
    \/ \E o \in Orders, style \in Styles : SendOrder(o, style)
LedgerSteps == ReconcilePositions \/ ResolveRow \/ PollAndRecord \/ UNCHANGED ledger
RegistrySteps == WriteRegistry \/ PollAndRecord \/ UNCHANGED registry
DropSteps ==
    \/ CancelRow \/ ResolveRow
    \/ \E o \in Orders : VisitStaleRow(o)
    \/ dropped' = {} \/ UNCHANGED dropped
ClaimSteps ==
    \/ pc' \notin Claiming
    \/ UNCHANGED <<pc, cur, curKey>>
    \/ \E s \in Symbols : ClaimKey(s)
    \/ pc = "persistKey" /\ pc' = "send" /\ UNCHANGED curKey
    \/ \E o \in Orders, style \in Styles : SendOrder(o, style)
    \/ SubmitAccepted

Touched == OrderSteps /\ LedgerSteps /\ RegistrySteps /\ DropSteps /\ ClaimSteps

LEMMA StepsTouch == [Next]_vars => Touched
  <1> SUFFICES ASSUME [Next]_vars PROVE Touched
    OBVIOUS
  <1> USE DEF mem, disk, env, tick, Touched, OrderSteps, LedgerSteps, RegistrySteps,
              DropSteps, ClaimSteps, Claiming
  <1>1. CASE BeginTick \/ PositionsUnavailable \/ SkipPositions \/ ScanOrders \/ SkipScan
    BY <1>1 DEF BeginTick, PositionsUnavailable, SkipPositions, ScanOrders, SkipScan
  <1>2. CASE \E o \in Orders : \/ AmbiguousFound(o) \/ AmbiguousNotFound(o)
                               \/ AmbiguousQueryFails(o)
    BY <1>2 DEF AmbiguousFound, AmbiguousNotFound, AmbiguousQueryFails
  <1>3. CASE CheckAbsence \/ ReleaseKey \/ ReturnEarly \/ StartRows
    BY <1>3 DEF CheckAbsence, ReleaseKey, ReturnEarly, StartRows
  <1>4. CASE ReconcilePositions
    BY <1>4 DEF ReconcilePositions
  <1>5. CASE \E o \in Orders : VisitStaleRow(o) \/ VisitListedRow(o) \/ VisitUnlistedRow(o)
    <2>1. UNCHANGED <<order, ledger, registry>>
      BY <1>5 DEF VisitStaleRow, VisitListedRow, VisitUnlistedRow
    <2>2. pc' \in {"rows", "cancel", "resolve"}
      BY <1>5 DEF VisitStaleRow, VisitListedRow, VisitUnlistedRow
    <2>3. (\E o \in Orders : VisitStaleRow(o)) \/ UNCHANGED dropped
      BY <1>5 DEF VisitListedRow, VisitUnlistedRow
    <2> QED BY <2>1, <2>2, <2>3
  <1>6. CASE CancelRow
    BY <1>6 DEF CancelRow
  <1>7. CASE ResolveRow
    BY <1>7 DEF ResolveRow
  <1>8. CASE WriteRegistry
    BY <1>8 DEF WriteRegistry
  <1>9. CASE \/ \E s \in Symbols : SkipSymbol(s) \/ RefuseDuplicate(s) \/ ClaimKey(s)
             \/ PersistKey \/ PersistKeyFails \/ RefuseBeforeSend
    <2>1. UNCHANGED <<order, ledger, registry, dropped>>
      BY <1>9 DEF SkipSymbol, RefuseDuplicate, ClaimKey, PersistKey, PersistKeyFails,
                  RefuseBeforeSend, EndOfTick
    <2>2. ClaimSteps
      BY <1>9 DEF SkipSymbol, RefuseDuplicate, PersistKey, PersistKeyFails, RefuseBeforeSend,
                  EndOfTick
    <2> QED BY <2>1, <2>2
  <1>10. CASE \E o \in Orders, style \in Styles : SendOrder(o, style)
    BY <1>10 DEF SendOrder
  <1>11. CASE SubmitAccepted \/ SubmitRejected \/ SubmitAmbiguous \/ SubmitUnclassified \/ EndTick
    BY <1>11 DEF SubmitAccepted, SubmitRejected, SubmitAmbiguous, SubmitUnclassified, EndTick,
                 EndOfTick
  <1>12. CASE PollAndRecord
    BY <1>12 DEF PollAndRecord
  <1>13. CASE Exchange
    <2>1. UNCHANGED <<tick, mem, disk, env>>
      BY <1>13 DEF Exchange, Arrive, Lose, Fill, FillInPart, Expire
    <2> QED BY <1>13, <2>1
  <1>14. CASE NextCandle \/ SwitchTrading \/ Restart \/ UNCHANGED vars
    BY <1>14 DEF NextCandle, SwitchTrading, Restart, vars
  <1>15. CASE Crash
    BY <1>15 DEF Crash
  <1> QED BY <1>1, <1>2, <1>3, <1>4, <1>5, <1>6, <1>7, <1>8, <1>9, <1>10, <1>11, <1>12,
             <1>13, <1>14, <1>15 DEF Next, Tick

(* A row of the ledger stays: nothing in this module closes a position.    *)
LedgerStays == \A leg \in Legs : ledger[leg] # "none" => ledger'[leg] # "none"

LEMMA LedgerOnlyGrows == TypeOK /\ LedgerSteps => LedgerStays
  <1> SUFFICES ASSUME TypeOK, LedgerSteps PROVE LedgerStays
    OBVIOUS
  <1>1. ledger \in [Legs -> {"none", "bot", "adopted"}]
    BY DEF TypeOK
  <1>2. CASE ReconcilePositions
    BY <1>1, <1>2 DEF ReconcilePositions, LedgerStays
  <1>3. CASE ResolveRow
    BY <1>1, <1>3 DEF ResolveRow, LedgerStays
  <1>4. CASE PollAndRecord
    BY <1>1, <1>4 DEF PollAndRecord, LedgerStays
  <1>5. CASE UNCHANGED ledger
    BY <1>5 DEF LedgerStays
  <1> QED BY <1>2, <1>3, <1>4, <1>5 DEF LedgerSteps
-----------------------------------------------------------------------------
(* No registry row is dropped too early.  It holds of an exchange that     *)
(* cancels what it acknowledged and fills an order in whole or not at all: *)
(* a crash, an ambiguous answer, a query, a cancel request or a file that  *)
(* fails do not matter.                                                    *)

SoundCancels == Faults \cap {"asyncCancel", "partialFill"} = {}

Whole == \A o \in Orders : order[o].fill => order[o].st = "filled"
Keyed == \A o \in Orders : Used(o) => KeyOf(o) \in Keys
RowsAccepted == \A o \in Orders : registry[o] # "absent" => order[o].st \in Accepted

(* Why a row was marked: its order was canceled, or its leg has a row.     *)
DropGrounds ==
    \A o \in dropped : /\ order[o].st \in Accepted
                       /\ order[o].st = "canceled" \/ ledger[LegOfOrder(o)] # "none"

(* From the claim to the record of the outcome no row is on the leg, so    *)
(* that the record replaces none.                                          *)
LegClear ==
    pc \in Claiming =>
        /\ curKey \in Keys
        /\ \A o \in Orders : registry[o] # "absent" => LegOfOrder(o) # LegOf(curKey)
CurHasKey == pc \in {"await", "poll"} => KeyOf(cur) = curKey /\ Used(cur)
PollAccepted == pc = "poll" => order[cur].st \in Accepted

RowsSound == Whole /\ Keyed /\ RowsAccepted /\ DropGrounds /\ LegClear /\ CurHasKey /\ PollAccepted

(* What a used order keeps.                                                *)
OrdersLast ==
    \A o \in Orders :
        /\ Used(o) => /\ order'[o].key = order[o].key
                      /\ order'[o].style = order[o].style
                      /\ Used(o)'
        /\ order[o].st \in Accepted => order'[o].st \in Accepted
        /\ order[o].st = "canceled" => order'[o].st = "canceled"

LEMMA OrdersThroughSteps ==
    ASSUME SoundCancels, TypeOK, Whole, OrderSteps
    PROVE  OrdersLast /\ Whole'
  <1> USE DEF TypeOK, Whole, OrdersLast, Used
  <1>1. ASSUME NEW o \in Orders, Arrive(o) \/ Lose(o) \/ Fill(o) \/ FillInPart(o) \/ Expire(o)
        PROVE  OrdersLast /\ Whole'
    BY <1>1 DEF SoundCancels, Arrive, Lose, Fill, FillInPart, Expire
  <1>2. CASE CancelRow
    BY <1>2 DEF CancelRow
  <1>3. ASSUME NEW o \in Orders, NEW style \in Styles, SendOrder(o, style)
        PROVE  OrdersLast /\ Whole'
    BY <1>3 DEF SendOrder
  <1>4. CASE UNCHANGED order
    BY <1>4
  <1> QED BY <1>1, <1>2, <1>3, <1>4 DEF OrderSteps, Exchange

LEMMA KeysThroughSteps ==
    ASSUME TypeOK, Keyed, LegClear, OrdersLast, OrderSteps
    PROVE  Keyed'
  <1> USE DEF TypeOK, Keyed, OrdersLast, Used, KeyOf
  <1>1. ASSUME NEW o \in Orders, Arrive(o) \/ Lose(o) \/ Fill(o) \/ FillInPart(o) \/ Expire(o)
        PROVE  Keyed'
    BY <1>1 DEF Arrive, Lose, Fill, FillInPart, Expire
  <1>2. CASE CancelRow
    BY <1>2 DEF CancelRow
  <1>3. ASSUME NEW o \in Orders, NEW style \in Styles, SendOrder(o, style)
        PROVE  Keyed'
    BY <1>3 DEF SendOrder, LegClear, Claiming
  <1>4. CASE UNCHANGED order
    BY <1>4
  <1> QED BY <1>1, <1>2, <1>3, <1>4 DEF OrderSteps, Exchange

(* The leg of a used order is one of the ledger's and does not change.     *)
LEMMA LegsStay ==
    ASSUME TypeOK, Keyed, OrdersLast, NEW o \in Orders, Used(o)
    PROVE  LegOfOrder(o) \in Legs /\ LegOfOrder(o)' = LegOfOrder(o)
  <1>1. KeyOf(o) \in Keys /\ KeyOf(o)' = KeyOf(o)
    BY DEF Keyed, OrdersLast, KeyOf
  <1> QED BY <1>1 DEF LegOfOrder, LegOf, Legs, Keys

LEMMA RowsThroughSteps ==
    ASSUME TypeOK, RowsSound, OrdersLast, RegistrySteps
    PROVE  RowsAccepted'
  <1>1. registry \in [Orders -> {"absent", "snapshot", "noSnapshot"}]
    BY DEF TypeOK
  <1> SUFFICES ASSUME NEW o \in Orders, registry'[o] # "absent"
               PROVE  order[o].st \in Accepted
    BY DEF RowsAccepted, OrdersLast
  <1>2. CASE UNCHANGED registry
    BY <1>2 DEF RowsSound, RowsAccepted
  <1>3. CASE WriteRegistry
    BY <1>1, <1>3 DEF WriteRegistry, RowsSound, RowsAccepted
  <1>4. CASE PollAndRecord
    <2>1. registry'[o] # "absent" => registry[o] # "absent" \/ o = cur
      BY <1>1, <1>4 DEF PollAndRecord, Upsert, TypeOK
    <2>2. order[cur].st \in Accepted
      BY <1>4 DEF PollAndRecord, RowsSound, PollAccepted
    <2> QED BY <2>1, <2>2 DEF RowsSound, RowsAccepted
  <1> QED BY <1>2, <1>3, <1>4 DEF RegistrySteps

LEMMA GroundsThroughSteps ==
    ASSUME TypeOK, SoundCancels, RowsSound, OrdersLast, LedgerStays, DropSteps
    PROVE  DropGrounds'
  <1> DEFINE Grounds(o) == /\ order[o].st \in Accepted
                           /\ order[o].st = "canceled" \/ ledger[LegOfOrder(o)] # "none"
  <1>1. ASSUME NEW o \in Orders, Grounds(o) PROVE Grounds(o)'
    <2>1. Used(o) /\ order'[o].st \in Accepted
      BY <1>1 DEF Used, OrdersLast
    <2>2. LegOfOrder(o) \in Legs /\ LegOfOrder(o)' = LegOfOrder(o)
      BY <2>1, LegsStay DEF RowsSound
    <2>3. order[o].st = "canceled" => order'[o].st = "canceled"
      BY DEF OrdersLast
    <2>4. ledger[LegOfOrder(o)] # "none" => ledger'[LegOfOrder(o)'] # "none"
      BY <2>2 DEF LedgerStays
    <2> QED BY <1>1, <2>1, <2>3, <2>4
  <1>2. \A o \in dropped : o \in Orders /\ Grounds(o)
    BY DEF TypeOK, RowsSound, DropGrounds
  <1>3. CASE dropped' = {} \/ UNCHANGED dropped
    BY <1>1, <1>2, <1>3 DEF DropGrounds
  <1>4. ASSUME NEW o \in Orders, VisitStaleRow(o) PROVE DropGrounds'
    <2>1. \/ UNCHANGED dropped
          \/ dropped' = dropped \cup {o} /\ order[o].st = "canceled"
      BY <1>4 DEF VisitStaleRow
    <2> QED BY <1>1, <1>2, <2>1 DEF DropGrounds
  <1>5. CASE CancelRow
    <2>1. cur \in Orders
      BY <1>5 DEF CancelRow, TypeOK
    <2>2. "asyncCancel" \notin Faults
      BY DEF SoundCancels
    <2>3. \/ UNCHANGED dropped
          \/ dropped' = dropped \cup {cur} /\ order'[cur].st = "canceled"
      <3>1. \A acked \in BOOLEAN, r \in ReadOutcomes :
               CancelConfirmed(acked, IF r = "ok" THEN order'[cur].st ELSE "unread")
                  => acked \/ order'[cur].st = "canceled"
        BY DEF CancelConfirmed
      <3>2. order[cur].st = "live" /\ order' = [order EXCEPT ![cur].st = "canceled"]
               => order'[cur].st = "canceled"
        BY <2>1 DEF TypeOK
      <3> QED BY <1>5, <2>2, <3>1, <3>2 DEF CancelRow
    <2> QED BY <1>1, <1>2, <2>1, <2>3 DEF DropGrounds
  <1>6. CASE ResolveRow
    <2>1. cur \in Orders /\ UNCHANGED order /\ ledger \in [Legs -> {"none", "bot", "adopted"}]
      BY <1>6 DEF ResolveRow, TypeOK
    <2>2. \A p \in dropped' : \/ p \in dropped
                              \/ p = cur /\ order[p].st = "canceled"
                              \/ /\ p = cur /\ order[p].st = "filled"
                                 /\ ledger' = [ledger EXCEPT ![LegOfOrder(p)] =
                                                  IF @ = "none" THEN "bot" ELSE @]
      BY <1>6 DEF ResolveRow
    <2>3. ASSUME NEW p \in Orders, order[p].st = "filled",
                 ledger' = [ledger EXCEPT ![LegOfOrder(p)] = IF @ = "none" THEN "bot" ELSE @]
          PROVE  Grounds(p)'
      <3>1. LegOfOrder(p) \in Legs /\ LegOfOrder(p)' = LegOfOrder(p)
        BY <2>3, LegsStay DEF RowsSound, Used
      <3>2. ledger'[LegOfOrder(p)] # "none"
        BY <2>1, <2>3, <3>1
      <3> QED BY <2>1, <2>3, <3>1, <3>2
    <2>4. \A p \in dropped' : Grounds(p)'
      BY <1>1, <1>2, <2>1, <2>2, <2>3
    <2> QED BY <2>4 DEF DropGrounds
  <1> QED BY <1>3, <1>4, <1>5, <1>6 DEF DropSteps

LEMMA ClaimThroughSteps ==
    ASSUME TypeOK, RowsSound, OrdersLast, Keyed', RegistrySteps, ClaimSteps, TypeOK'
    PROVE  LegClear' /\ CurHasKey' /\ PollAccepted'
  <1> USE DEF Claiming
  <1> SUFFICES ASSUME pc' \in Claiming PROVE LegClear' /\ CurHasKey' /\ PollAccepted'
    BY DEF LegClear, CurHasKey, PollAccepted
  <1>1. UNCHANGED registry
    BY DEF RegistrySteps, WriteRegistry, PollAndRecord
  <1>2. \A o \in Orders : registry[o] # "absent" => LegOfOrder(o)' = LegOfOrder(o)
    BY LegsStay DEF RowsSound, RowsAccepted, Used
  <1>3. ASSUME pc \in Claiming, UNCHANGED curKey PROVE LegClear'
    BY <1>1, <1>2, <1>3 DEF RowsSound, LegClear
  <1>4. CASE UNCHANGED <<pc, cur, curKey>>
    <2>1. pc \in {"await", "poll"} => cur \in Orders
      BY DEF TypeOK
    <2>2. CurHasKey' /\ PollAccepted'
      BY <1>4, <2>1 DEF RowsSound, CurHasKey, PollAccepted, OrdersLast, KeyOf, Used
    <2> QED BY <1>3, <1>4, <2>2
  <1>5. ASSUME NEW s \in Symbols, ClaimKey(s) PROVE LegClear' /\ CurHasKey' /\ PollAccepted'
    <2>1. EntryKey(s) \in Keys /\ LegOf(EntryKey(s)) = <<s, decision[s]>>
      BY <1>5 DEF TypeOK, ClaimKey, MayEnter, EntryKey, Keys, LegOf
    <2>2. \A o \in Orders : registry[o] # "absent" => LegOfOrder(o) # <<s, decision[s]>>
      BY <1>5 DEF ClaimKey, MayEnter
    <2>3. pc' = "persistKey" /\ curKey' = EntryKey(s)
      BY <1>5 DEF ClaimKey
    <2> QED BY <1>1, <1>2, <2>1, <2>2, <2>3 DEF LegClear, CurHasKey, PollAccepted
  <1>6. CASE pc = "persistKey" /\ pc' = "send" /\ UNCHANGED curKey
    BY <1>3, <1>6 DEF CurHasKey, PollAccepted
  <1>7. ASSUME NEW o \in Orders, NEW style \in Styles, SendOrder(o, style)
        PROVE  LegClear' /\ CurHasKey' /\ PollAccepted'
    <2>1. pc = "send" /\ pc' = "await" /\ UNCHANGED curKey
      BY <1>7 DEF SendOrder
    <2>2. CurHasKey'
      BY <1>7 DEF SendOrder, CurHasKey, KeyOf, Used, TypeOK
    <2> QED BY <1>3, <2>1, <2>2 DEF PollAccepted
  <1>8. CASE SubmitAccepted
    <2>1. pc = "await" /\ pc' = "poll" /\ UNCHANGED <<cur, curKey, order>>
      BY <1>8 DEF SubmitAccepted, mem, disk, env
    <2>2. CurHasKey' /\ PollAccepted'
      BY <1>8, <2>1 DEF SubmitAccepted, RowsSound, CurHasKey, PollAccepted, KeyOf, Used
    <2> QED BY <1>3, <2>1, <2>2
  <1> QED BY <1>4, <1>5, <1>6, <1>7, <1>8 DEF ClaimSteps

LEMMA RowsNext ==
    ASSUME SoundCancels, TypeOK, RowsSound, [Next]_vars
    PROVE  RowsSound' /\ OrdersLast /\ LedgerStays
  <1>1. Touched /\ TypeOK'
    BY StepsTouch, TypeNext
  <1>2. LedgerStays
    BY <1>1, LedgerOnlyGrows DEF Touched
  <1>3. OrdersLast /\ Whole'
    BY <1>1, OrdersThroughSteps DEF Touched, RowsSound
  <1>4. Keyed'
    BY <1>1, <1>3, KeysThroughSteps DEF Touched, RowsSound
  <1>5. RowsAccepted'
    BY <1>1, <1>3, RowsThroughSteps DEF Touched
  <1>6. DropGrounds'
    BY <1>1, <1>2, <1>3, GroundsThroughSteps DEF Touched
  <1>7. LegClear' /\ CurHasKey' /\ PollAccepted'
    BY <1>1, <1>3, <1>4, ClaimThroughSteps DEF Touched
  <1> QED BY <1>2, <1>3, <1>4, <1>5, <1>6, <1>7 DEF RowsSound

LEMMA RowsAtStart == Init => RowsSound
  BY DEF Init, RowsSound, Whole, Keyed, RowsAccepted, DropGrounds, LegClear, CurHasKey,
         PollAccepted, Claiming, Unused, Used

LEMMA DropsHaveGrounds ==
    ASSUME TypeOK, RowsSound, [Next]_vars, NEW o \in Orders,
           registry[o] # "absent", registry'[o] = "absent"
    PROVE  \/ order[o].st = "canceled" /\ ~order[o].fill
           \/ ledger[LegOfOrder(o)] # "none"
  <1>1. registry \in [Orders -> {"absent", "snapshot", "noSnapshot"}]
    BY DEF TypeOK
  <1>2. WriteRegistry \/ PollAndRecord
    BY StepsTouch DEF Touched, RegistrySteps
  <1>3. CASE WriteRegistry
    <2>1. o \in dropped
      BY <1>1, <1>3 DEF WriteRegistry
    <2> QED BY <2>1 DEF RowsSound, DropGrounds, Whole
  <1>4. CASE PollAndRecord
    <2>1. cur \in Orders /\ KeyOf(cur) = curKey /\ LegOfOrder(o) # LegOfOrder(cur)
      BY <1>4 DEF PollAndRecord, TypeOK, RowsSound, CurHasKey, LegClear, Claiming, LegOfOrder
    <2>2. registry'[o] # "absent"
      BY <1>1, <1>4, <2>1 DEF PollAndRecord, Upsert
    <2> QED BY <2>2
  <1> QED BY <1>2, <1>3, <1>4

(* A registry row goes only when its order has ended without a fill or its *)
(* leg is in the ledger, for any number of orders and crashes.             *)
THEOREM DropsHold == ASSUME SoundCancels PROVE Spec => DropsAreSafe
  <1>1. TypeOK /\ RowsSound /\ [Next]_vars => RowsSound'
    BY RowsNext
  <1>2. TypeOK /\ RowsSound /\ [Next]_vars =>
        [\A o \in Orders :
            registry[o] # "absent" /\ registry'[o] = "absent" =>
               \/ order[o].st = "canceled" /\ ~order[o].fill
               \/ ledger[LegOfOrder(o)] # "none"]_vars
    BY DropsHaveGrounds
  <1> QED BY <1>1, <1>2, RowsAtStart, Typed, PTL DEF Spec, DropsAreSafe
-----------------------------------------------------------------------------
(* One entry for each leg.  It holds when every submit is answered for     *)
(* what it did, no crash loses the answer, and cancels and fills are sound:*)
(* each of these faults breaks it by itself.                               *)

Reliable ==
    /\ MaxCrashes = 0
    /\ Faults \cap {"ambiguousError", "unclassifiedError", "asyncCancel", "partialFill"} = {}

LEMMA ReliableIsSound == Reliable => SoundCancels
  BY DEF Reliable, SoundCancels

(* The order whose answer, or whose first poll, is awaited.                *)
Awaited(o) == pc \in {"await", "poll"} /\ cur = o

SentAwaited == \A o \in Orders : order[o].st = "sent" => pc = "await" /\ cur = o

(* An open entry is in the hands of the process, or on disk.               *)
OpenSeen ==
    \A o \in Orders :
        Open(o) => Awaited(o) \/ registry[o] # "absent" \/ ledger[LegOfOrder(o)] # "none"

(* On the leg of the claim only its own order may be open.                 *)
LegFree ==
    pc \in Claiming =>
        \A o \in Orders : Open(o) /\ LegOfOrder(o) = LegOf(curKey) => Awaited(o)

PassiveSnapshots == \A o \in Orders : registry[o] = "noSnapshot" => order[o].style # "passive"

EntryAlone == SentAwaited /\ OpenSeen /\ LegFree /\ PassiveSnapshots /\ OneEntryPerLeg

LEMMA AloneAtStart == Init => EntryAlone
  BY DEF Init, EntryAlone, SentAwaited, OpenSeen, LegFree, PassiveSnapshots, OneEntryPerLeg,
         Open, Unused, Claiming

(* An awaited answer is not left behind.                                   *)
AwaitSteps ==
    \/ UNCHANGED <<pc, cur>>
    \/ SubmitAccepted \/ SubmitRejected \/ PollAndRecord

LEMMA AwaitIsLeft ==
    ASSUME Reliable, TypeOK, [Next]_vars, pc \in {"await", "poll"}
    PROVE  AwaitSteps
  <1> USE DEF AwaitSteps, tick
  <1>1. ~ (Crash \/ SubmitAmbiguous \/ SubmitUnclassified)
    <2>1. crashes = 0 /\ MaxCrashes = 0
      BY DEF Reliable, TypeOK
    <2>2. "ambiguousError" \notin Faults /\ "unclassifiedError" \notin Faults
      BY DEF Reliable
    <2> QED BY <2>1, <2>2 DEF Crash, SubmitAmbiguous, SubmitUnclassified
  <1>2. ~ (\/ BeginTick \/ ReconcilePositions \/ PositionsUnavailable \/ SkipPositions
           \/ ScanOrders \/ SkipScan \/ CheckAbsence \/ ReleaseKey \/ ReturnEarly \/ StartRows
           \/ CancelRow \/ ResolveRow \/ WriteRegistry)
    BY DEF BeginTick, ReconcilePositions, PositionsUnavailable, SkipPositions, ScanOrders,
           SkipScan, CheckAbsence, ReleaseKey, ReturnEarly, StartRows, CancelRow, ResolveRow,
           WriteRegistry
  <1>3. ~ \E o \in Orders : \/ AmbiguousFound(o) \/ AmbiguousNotFound(o) \/ AmbiguousQueryFails(o)
                            \/ VisitStaleRow(o) \/ VisitListedRow(o) \/ VisitUnlistedRow(o)
                            \/ \E style \in Styles : SendOrder(o, style)
    BY DEF AmbiguousFound, AmbiguousNotFound, AmbiguousQueryFails, VisitStaleRow,
           VisitListedRow, VisitUnlistedRow, SendOrder
  <1>4. ~ (\/ \E s \in Symbols : SkipSymbol(s) \/ RefuseDuplicate(s) \/ ClaimKey(s)
           \/ PersistKey \/ PersistKeyFails \/ RefuseBeforeSend \/ EndTick \/ Restart)
    BY DEF SkipSymbol, RefuseDuplicate, ClaimKey, PersistKey, PersistKeyFails,
           RefuseBeforeSend, EndTick, Restart
  <1>5. CASE Exchange \/ NextCandle \/ SwitchTrading \/ UNCHANGED vars
    BY <1>5 DEF Exchange, Arrive, Lose, Fill, FillInPart, Expire, NextCandle, SwitchTrading, vars
  <1> QED BY <1>1, <1>2, <1>3, <1>4, <1>5 DEF Next, Tick

(* What opens was on its way, and nothing else changes its leg.            *)
OpensFrom ==
    \A o \in Orders :
        /\ Open(o)' => Open(o) \/ order[o].st = "sent"
        /\ Open(o)' => LegOfOrder(o)' = LegOfOrder(o)
        /\ order'[o].fill /\ ~order[o].fill => order[o].st = "live"

LEMMA OpensThroughSteps ==
    ASSUME TypeOK, Whole, OrdersLast, OrderSteps
    PROVE  OpensFrom
  <1> USE DEF TypeOK, Open
  <1>1. ASSUME NEW p \in Orders, Open(p) \/ order[p].st = "sent"
        PROVE  LegOfOrder(p)' = LegOfOrder(p)
    BY <1>1 DEF Whole, OrdersLast, Used, LegOfOrder, LegOf, KeyOf
  <1>2. ASSUME NEW o \in Orders, Arrive(o) \/ Lose(o) \/ Fill(o) \/ FillInPart(o) \/ Expire(o)
        PROVE  \A p \in Orders : /\ Open(p)' => Open(p) \/ order[p].st = "sent"
                                 /\ order'[p].fill /\ ~order[p].fill => order[p].st = "live"
    BY <1>2 DEF Arrive, Lose, Fill, FillInPart, Expire
  <1>3. ASSUME CancelRow
        PROVE  \A p \in Orders : /\ Open(p)' => Open(p) \/ order[p].st = "sent"
                                 /\ order'[p].fill /\ ~order[p].fill => order[p].st = "live"
    BY <1>3 DEF CancelRow
  <1>4. ASSUME NEW o \in Orders, NEW style \in Styles, SendOrder(o, style)
        PROVE  \A p \in Orders : /\ Open(p)' => Open(p) \/ order[p].st = "sent"
                                 /\ order'[p].fill /\ ~order[p].fill => order[p].st = "live"
    BY <1>4 DEF SendOrder
  <1>5. ASSUME UNCHANGED order
        PROVE  \A p \in Orders : /\ Open(p)' => Open(p) \/ order[p].st = "sent"
                                 /\ order'[p].fill /\ ~order[p].fill => order[p].st = "live"
    BY <1>5
  <1>6. \A p \in Orders : /\ Open(p)' => Open(p) \/ order[p].st = "sent"
                          /\ order'[p].fill /\ ~order[p].fill => order[p].st = "live"
    BY <1>2, <1>3, <1>4, <1>5 DEF OrderSteps, Exchange
  <1> QED BY <1>1, <1>6 DEF OpensFrom

(* The exchange acts, on an order the process has in hand or on disk.      *)
LEMMA AloneThroughExchange ==
    ASSUME TypeOK, RowsSound, EntryAlone, OrdersLast, OpensFrom, Exchange
    PROVE  EntryAlone'
  <1>1. UNCHANGED <<pc, cur, curKey, registry, ledger>>
    BY DEF Exchange, Arrive, Lose, Fill, FillInPart, Expire, tick, disk
  <1>2. \A o \in Orders : order'[o].st = "sent" => order[o].st = "sent"
    BY DEF Exchange, Arrive, Lose, Fill, FillInPart, Expire, TypeOK
  <1>3. SentAwaited'
    BY <1>1, <1>2 DEF EntryAlone, SentAwaited
  <1>4. \A o \in Orders : Open(o)' => Open(o) \/ (pc = "await" /\ cur = o)
    BY DEF OpensFrom, EntryAlone, SentAwaited
  <1>5. OpenSeen'
    BY <1>1, <1>4 DEF OpensFrom, EntryAlone, OpenSeen, Awaited
  <1>6. LegFree'
    BY <1>1, <1>4 DEF OpensFrom, EntryAlone, LegFree, Awaited
  <1>7. PassiveSnapshots'
    BY <1>1 DEF EntryAlone, PassiveSnapshots, RowsSound, RowsAccepted, OrdersLast, Used
  <1>8. ASSUME NEW o \in Orders, NEW p \in Orders, Open(o)', Open(p)',
               LegOfOrder(o)' = LegOfOrder(p)'
        PROVE  o = p
    <2>1. LegOfOrder(o) = LegOfOrder(p)
      BY <1>8 DEF OpensFrom
    <2>2. pc = "await" /\ cur \in Orders => LegOfOrder(cur) = LegOf(curKey)
      BY DEF RowsSound, CurHasKey, LegOfOrder
    <2>3. pc = "await" => \A q \in Orders : Open(q) /\ LegOfOrder(q) = LegOf(curKey) => q = cur
      BY DEF EntryAlone, LegFree, Awaited, Claiming
    <2> QED BY <1>4, <1>8, <2>1, <2>2, <2>3 DEF EntryAlone, OneEntryPerLeg
  <1>9. OneEntryPerLeg'
    BY <1>8 DEF OneEntryPerLeg
  <1> QED BY <1>3, <1>5, <1>6, <1>7, <1>9 DEF EntryAlone

(* A step of the process that writes orders: a submit, and the cancel of a *)
(* registered order.                                                       *)
LEMMA AloneThroughWrites ==
    ASSUME TypeOK, RowsSound, EntryAlone, OrdersLast, OpensFrom,
           CancelRow \/ \E o \in Orders, style \in Styles : SendOrder(o, style)
    PROVE  EntryAlone'
  <1>1. pc \in {"cancel", "send"} /\ UNCHANGED <<curKey, registry, ledger>>
    BY DEF CancelRow, SendOrder, disk
  <1>2. \A o \in Orders : order[o].st # "sent" /\ ~Awaited(o)
    BY <1>1 DEF EntryAlone, SentAwaited, Awaited
  <1>3. \A o \in Orders : Open(o)' => Open(o) /\ LegOfOrder(o)' = LegOfOrder(o)
    BY <1>2 DEF OpensFrom
  <1>4. OneEntryPerLeg'
    BY <1>3 DEF EntryAlone, OneEntryPerLeg
  <1>5. OpenSeen'
    BY <1>1, <1>2, <1>3 DEF EntryAlone, OpenSeen
  <1>6. PassiveSnapshots'
    BY <1>1 DEF EntryAlone, PassiveSnapshots, RowsSound, RowsAccepted, OrdersLast, Used
  <1>7. SentAwaited'
    <2>1. CASE CancelRow
      BY <1>2, <2>1 DEF CancelRow, SentAwaited, TypeOK
    <2>2. ASSUME NEW o \in Orders, NEW style \in Styles, SendOrder(o, style)
          PROVE  SentAwaited'
      BY <1>2, <2>2 DEF SendOrder, SentAwaited, TypeOK
    <2> QED BY <2>1, <2>2
  <1>8. LegFree'
    <2>1. CASE CancelRow
      BY <2>1 DEF CancelRow, LegFree, Claiming
    <2>2. CASE pc = "send"
      BY <1>1, <1>2, <1>3, <2>2 DEF EntryAlone, LegFree, Claiming
    <2> QED BY <1>1, <2>1, <2>2 DEF SendOrder
  <1> QED BY <1>4, <1>5, <1>6, <1>7, <1>8 DEF EntryAlone

(* A step that leaves the orders alone.                                    *)
LEMMA SeenThroughRecords ==
    ASSUME Reliable, TypeOK, RowsSound, EntryAlone, LedgerStays, [Next]_vars, UNCHANGED order
    PROVE  OpenSeen'
  <1>1. RegistrySteps
    BY StepsTouch DEF Touched
  <1>2. registry \in [Orders -> {"absent", "snapshot", "noSnapshot"}]
    BY DEF TypeOK
  <1> SUFFICES ASSUME NEW o \in Orders, Open(o)
               PROVE  Awaited(o)' \/ registry'[o] # "absent" \/ ledger'[LegOfOrder(o)] # "none"
    BY DEF OpenSeen, Open, LegOfOrder, KeyOf
  <1>3. LegOfOrder(o) \in Legs
    BY LegsStay DEF RowsSound, Whole, Open, Used, Keyed, LegOfOrder, LegOf, Legs, Keys
  <1>4. CASE ledger[LegOfOrder(o)] # "none"
    BY <1>3, <1>4 DEF LedgerStays
  <1>5. CASE registry[o] # "absent" /\ ledger[LegOfOrder(o)] = "none"
    <2>1. ~ (order[o].st = "canceled" /\ ~order[o].fill)
      BY DEF Open
    <2>2. registry'[o] # "absent"
      BY <1>5, <2>1, DropsHaveGrounds
    <2> QED BY <2>2
  <1>6. CASE Awaited(o)
    <2>1. AwaitSteps
      BY <1>6, AwaitIsLeft DEF Awaited
    <2>2. CASE UNCHANGED <<pc, cur>> \/ SubmitAccepted
      BY <1>6, <2>2 DEF Awaited, SubmitAccepted
    <2>3. ~SubmitRejected
      BY <1>6 DEF SubmitRejected, Awaited, Open, RowsSound, Whole
    <2>4. CASE PollAndRecord
      <3>1. ledger \in [Legs -> {"none", "bot", "adopted"}] /\ cur = o
        BY <1>6 DEF TypeOK, Awaited
      <3>2. order[o].st = "canceled" => ~order[o].fill
        BY DEF RowsSound, Whole
      <3> QED BY <1>2, <1>3, <2>4, <3>1, <3>2 DEF PollAndRecord, Upsert, Open
    <2> QED BY <2>1, <2>2, <2>3, <2>4 DEF AwaitSteps
  <1> QED BY <1>4, <1>5, <1>6 DEF EntryAlone, OpenSeen

LEMMA FreeThroughClaim ==
    ASSUME Reliable, TypeOK, RowsSound, EntryAlone, [Next]_vars, UNCHANGED order
    PROVE  LegFree'
  <1> USE DEF Claiming
  <1>1. ClaimSteps
    BY StepsTouch DEF Touched
  <1> SUFFICES ASSUME pc' \in Claiming, NEW o \in Orders, Open(o),
                      LegOfOrder(o) = LegOf(curKey')
               PROVE  Awaited(o)'
    BY DEF LegFree, Open, LegOfOrder, KeyOf
  <1>2. ASSUME pc \in Claiming, UNCHANGED curKey PROVE Awaited(o)
    BY <1>2 DEF EntryAlone, LegFree
  <1>3. CASE UNCHANGED <<pc, cur, curKey>>
    BY <1>2, <1>3 DEF Awaited
  <1>4. ASSUME NEW s \in Symbols, ClaimKey(s) PROVE FALSE
    <2>1. LegOfOrder(o) = <<s, decision[s]>> /\ decision[s] \in Sides
      BY <1>4 DEF ClaimKey, MayEnter, EntryKey, LegOf
    <2>2. registry[o] = "absent" /\ ledger[LegOfOrder(o)] = "none" /\ ~Awaited(o)
      BY <1>4, <2>1 DEF ClaimKey, MayEnter, Awaited
    <2> QED BY <2>2 DEF EntryAlone, OpenSeen
  <1>5. CASE pc = "persistKey" /\ pc' = "send" /\ UNCHANGED curKey
    BY <1>2, <1>5 DEF Awaited
  <1>6. CASE \E p \in Orders, style \in Styles : SendOrder(p, style)
    <2>1. pc = "send" /\ UNCHANGED curKey
      BY <1>6 DEF SendOrder
    <2> QED BY <1>2, <2>1 DEF Awaited
  <1>7. CASE SubmitAccepted
    <2>1. pc = "await" /\ pc' = "poll" /\ UNCHANGED <<cur, curKey>>
      BY <1>7 DEF SubmitAccepted
    <2> QED BY <1>2, <2>1 DEF Awaited
  <1> QED BY <1>1, <1>3, <1>4, <1>5, <1>6, <1>7 DEF ClaimSteps

LEMMA AloneThroughRecords ==
    ASSUME Reliable, TypeOK, RowsSound, EntryAlone, LedgerStays, [Next]_vars, UNCHANGED order
    PROVE  EntryAlone'
  <1>1. SentAwaited'
    <2> SUFFICES ASSUME NEW o \in Orders, order[o].st = "sent"
                 PROVE  pc' = "await" /\ cur' = o
      BY DEF SentAwaited
    <2>1. pc = "await" /\ cur = o
      BY DEF EntryAlone, SentAwaited
    <2>2. AwaitSteps
      BY <2>1, AwaitIsLeft
    <2> QED BY <2>1, <2>2 DEF AwaitSteps, SubmitAccepted, SubmitRejected, PollAndRecord
  <1>2. PassiveSnapshots'
    <2>1. RegistrySteps /\ registry \in [Orders -> {"absent", "snapshot", "noSnapshot"}]
      BY StepsTouch DEF Touched, TypeOK
    <2>2. CASE UNCHANGED registry
      BY <2>2 DEF EntryAlone, PassiveSnapshots
    <2>3. CASE WriteRegistry
      BY <2>1, <2>3 DEF WriteRegistry, EntryAlone, PassiveSnapshots
    <2>4. CASE PollAndRecord
      BY <2>1, <2>4 DEF PollAndRecord, Upsert, EntryAlone, PassiveSnapshots
    <2> QED BY <2>1, <2>2, <2>3, <2>4 DEF RegistrySteps
  <1>3. OneEntryPerLeg'
    BY DEF EntryAlone, OneEntryPerLeg, Open, LegOfOrder, KeyOf
  <1> QED BY <1>1, <1>2, <1>3, SeenThroughRecords, FreeThroughClaim DEF EntryAlone

LEMMA AloneNext ==
    ASSUME Reliable, TypeOK, RowsSound, EntryAlone, [Next]_vars
    PROVE  EntryAlone' /\ OpensFrom
  <1>1. OrdersLast /\ LedgerStays /\ OrderSteps
    BY RowsNext, ReliableIsSound, StepsTouch DEF Touched
  <1>2. OpensFrom
    BY <1>1, OpensThroughSteps DEF RowsSound
  <1>3. EntryAlone'
    BY <1>1, <1>2, AloneThroughExchange, AloneThroughWrites, AloneThroughRecords
       DEF OrderSteps
  <1> QED BY <1>2, <1>3

(* A leg has at most one engine entry resting or filled, for any number of *)
(* symbols, orders, candles and slots, while queries, cancel requests and  *)
(* file writes fail as they like.                                          *)
THEOREM OneEntry == ASSUME Reliable PROVE Spec => []OneEntryPerLeg
  <1>1. TypeOK /\ RowsSound /\ [Next]_vars => RowsSound'
    BY RowsNext, ReliableIsSound
  <1>2. TypeOK /\ RowsSound /\ EntryAlone /\ [Next]_vars => EntryAlone'
    BY AloneNext
  <1>3. EntryAlone => OneEntryPerLeg
    BY DEF EntryAlone
  <1> QED BY <1>1, <1>2, <1>3, RowsAtStart, AloneAtStart, Typed, PTL DEF Spec

(* A row is adopted only for a leg without a row of the engine's.          *)
LEMMA AdoptedFrom ==
    ASSUME TypeOK, LedgerSteps, NEW leg \in Legs, ledger'[leg] = "adopted"
    PROVE  ledger[leg] = "adopted" \/ (ReconcilePositions /\ leg \in Foreign)
  <1>1. ledger \in [Legs -> {"none", "bot", "adopted"}]
    BY DEF TypeOK
  <1>2. CASE ReconcilePositions
    BY <1>1, <1>2 DEF ReconcilePositions
  <1>3. CASE ResolveRow \/ PollAndRecord \/ UNCHANGED ledger
    BY <1>1, <1>3 DEF ResolveRow, PollAndRecord
  <1> QED BY <1>2, <1>3 DEF LedgerSteps

LEMMA OwnNext ==
    ASSUME Reliable, TypeOK, RowsSound, LedgerSound, EntryAlone, PassiveFillsStayOwn, [Next]_vars
    PROVE  PassiveFillsStayOwn'
  <1>1. OrdersLast /\ LedgerSteps /\ OrderSteps /\ OpensFrom
    BY RowsNext, ReliableIsSound, StepsTouch, AloneNext DEF Touched
  <1> SUFFICES ASSUME NEW o \in Orders, order'[o].style = "passive", order'[o].fill,
                      ledger'[LegOfOrder(o)'] = "adopted"
               PROVE  FALSE
    BY DEF PassiveFillsStayOwn
  <1>2. Open(o) /\ LegOfOrder(o)' = LegOfOrder(o)
    BY <1>1 DEF OpensFrom, Open
  <1>3. Used(o) /\ order[o].style = "passive"
    BY <1>1, <1>2 DEF OrdersLast, RowsSound, Whole, Used, Open
  <1>4. LegOfOrder(o) \in Legs
    BY <1>3 DEF RowsSound, Keyed, LegOfOrder, LegOf, Legs, Keys
  <1>5. CASE ReconcilePositions /\ LegOfOrder(o) \in Foreign
    <2>1. ledger[LegOfOrder(o)] = "none" /\ ~HasFillEvidence(LegOfOrder(o)) /\ pc = "positions"
      BY <1>5 DEF Foreign, Ghosts, ReconcilePositions
    <2>2. registry[o] # "absent"
      BY <1>2, <2>1 DEF EntryAlone, OpenSeen, Awaited
    <2>3. registry[o] = "snapshot"
      BY <1>3, <2>2 DEF EntryAlone, PassiveSnapshots, TypeOK
    <2> QED BY <2>1, <2>3 DEF HasFillEvidence
  <1>6. CASE ledger[LegOfOrder(o)] = "adopted"
    <2>1. ~order[o].fill
      BY <1>3, <1>6 DEF PassiveFillsStayOwn
    <2>2. PICK p \in Orders : order[p].fill /\ LegOfOrder(p) = LegOfOrder(o)
      BY <1>4, <1>6 DEF LedgerSound, LedgerRowsAreFills, HasPosition
    <2>3. p = o
      BY <1>2, <2>2 DEF EntryAlone, OneEntryPerLeg, Open
    <2> QED BY <2>1, <2>2, <2>3
  <1> QED BY <1>1, <1>2, <1>4, <1>5, <1>6, AdoptedFrom

(* The fill of a passive entry is never taken for somebody else's.         *)
THEOREM PassiveFillsOwned == ASSUME Reliable PROVE Spec => []PassiveFillsStayOwn
  <1>1. TypeOK /\ RowsSound /\ [Next]_vars => RowsSound'
    BY RowsNext, ReliableIsSound
  <1>2. TypeOK /\ RowsSound /\ EntryAlone /\ [Next]_vars => EntryAlone'
    BY AloneNext
  <1>3. Init => LedgerSound /\ PassiveFillsStayOwn
    BY DEF Init, LedgerSound, FillsAgree, LedgerRowsAreFills, PassiveFillsStayOwn, Unused
  <1>4. TypeOK /\ RowsSound /\ LedgerSound /\ EntryAlone /\ PassiveFillsStayOwn /\ [Next]_vars
           => PassiveFillsStayOwn'
    BY OwnNext
  <1> QED BY <1>1, <1>2, <1>3, <1>4, LedgerNext, RowsAtStart, AloneAtStart, Typed, PTL DEF Spec
=============================================================================

------------------------ MODULE PartialReduceProofs ------------------------
(* Theorems about PartialReduce, for any number of contracts, orders,      *)
(* candles and faults.                                                     *)
EXTENDS PartialReduce, FiniteSetTheorems, TLAPS

-----------------------------------------------------------------------------
(* What the operators on rows do, field by field.                          *)

LEMMA MarkedRow ==
    ASSUME NEW r \in Rows
    PROVE  /\ Marked(r) \in Rows /\ Marked(r).life \in {"OPEN", r.life}
           /\ Marked(r).size = r.size /\ Marked(r).ord = r.ord
           /\ Marked(r).pend = r.pend /\ Marked(r).proc = r.proc
           /\ Marked(r).kind = r.kind /\ Marked(r).fills = r.fills
           /\ Marked(r).augmented = r.augmented /\ Marked(r).count = r.count
  BY DEF Marked, Rows

LEMMA SyncedRow ==
    ASSUME NEW r \in Rows, NEW n \in Contracts
    PROVE  /\ Synced(r, n) \in Rows /\ Synced(r, n).size = n
           /\ Synced(r, n).life = r.life /\ Synced(r, n).ord = r.ord
           /\ Synced(r, n).pend = r.pend /\ Synced(r, n).proc = r.proc
           /\ Synced(r, n).kind = r.kind /\ Synced(r, n).fills = r.fills
           /\ Synced(r, n).augmented = r.augmented /\ Synced(r, n).count = r.count
  BY DEF Synced, Rows

LEMMA ComparedRow ==
    ASSUME NEW r \in Rows, NEW n \in Contracts
    PROVE  /\ Compared(r, n) \in Rows /\ Compared(r, n).size \in {r.size, n}
           /\ Compared(r, n).life = r.life /\ Compared(r, n).ord = r.ord
           /\ Compared(r, n).pend = r.pend /\ Compared(r, n).proc = r.proc
           /\ Compared(r, n).kind = r.kind /\ Compared(r, n).fills = r.fills
           /\ Compared(r, n).count = r.count
           /\ r.size >= n => Compared(r, n).augmented = r.augmented
  <1> DEFINE m == IF r.size < n THEN n ELSE r.size
             s == Synced(r, n)
  <1>0. r.size \in Contracts /\ m \in Contracts /\ m \in {r.size, n}
    BY DEF Rows
  <1>1. CASE Active(r)
    BY <1>0, <1>1, SyncedRow DEF Compared
  <1>2. CASE ~Active(r)
    <2>1. Compared(r, n) = [s EXCEPT !.augmented = @ \/ r.size < n]
      BY <1>2 DEF Compared
    <2>2. s \in Rows /\ (s.augmented \/ r.size < n) \in BOOLEAN
      BY SyncedRow DEF Rows
    <2>3. /\ Compared(r, n) \in Rows /\ Compared(r, n).size = s.size
          /\ Compared(r, n).life = s.life /\ Compared(r, n).ord = s.ord
          /\ Compared(r, n).pend = s.pend /\ Compared(r, n).proc = s.proc
          /\ Compared(r, n).kind = s.kind /\ Compared(r, n).fills = s.fills
          /\ Compared(r, n).count = s.count
          /\ Compared(r, n).augmented = (s.augmented \/ r.size < n)
      BY <2>1, <2>2 DEF Rows
    <2>4. r.size >= n => Compared(r, n).augmented = r.augmented
      BY <1>0, <2>2, <2>3, SyncedRow DEF Rows, Contracts
    <2> QED BY <2>3, <2>4, SyncedRow
  <1> QED BY <1>1, <1>2

LEMMA ComparedPendingRow ==
    ASSUME NEW r \in Rows, NEW n \in Contracts
    PROVE  LET s == ComparedPending(r, n) IN
           /\ s \in Rows /\ s.size = r.size /\ s.life = r.life /\ s.ord = r.ord
           /\ s.pend = r.pend /\ s.proc = r.proc /\ s.kind = r.kind
           /\ s.fills = r.fills /\ s.augmented = r.augmented /\ s.count = r.count
  BY DEF ComparedPending, Synced, Rows

LEMMA BookedRow ==
    ASSUME NEW r \in Rows, NEW o \in OrderIds, orders \in [OrderIds -> Orders],
           orders[o].filled > r.proc
    PROVE  LET s == Booked(r, o)
               delta == orders[o].filled - r.proc IN
           /\ s \in Rows /\ s.life = r.life /\ s.ord = r.ord /\ s.pend = r.pend
           /\ s.kind = r.kind /\ s.augmented = r.augmented /\ s.count = r.count
           /\ s.proc = orders[o].filled
           /\ s.fills = [r.fills EXCEPT ![o] = @ + delta]
           /\ s.size = IF r.size < delta THEN 0 ELSE r.size - delta
  <1>1. orders[o].filled \in Contracts /\ r.proc \in Contracts /\ r.size \in Contracts
    BY DEF Rows, Orders
  <1> DEFINE delta == orders[o].filled - r.proc
             size == IF r.size < delta THEN 0 ELSE r.size - delta
             fills == [r.fills EXCEPT ![o] = @ + delta]
  <1>2. delta \in Nat /\ size \in Contracts
    BY <1>1, ReduceAssumption DEF Contracts
  <1>3. fills \in [OrderIds -> Nat]
    BY <1>2 DEF Rows
  <1>4. Booked(r, o) = [r EXCEPT !.size = size, !.fills = fills, !.proc = orders[o].filled]
    BY DEF Booked, Processed, Rows
  <1> HIDE DEF delta, size, fills
  <1>5. LET s == Booked(r, o) IN
           /\ s \in Rows /\ s.life = r.life /\ s.ord = r.ord /\ s.pend = r.pend
           /\ s.kind = r.kind /\ s.augmented = r.augmented /\ s.count = r.count
           /\ s.proc = orders[o].filled /\ s.fills = fills /\ s.size = size
    BY <1>1, <1>2, <1>3, <1>4 DEF Rows
  <1> QED BY <1>5 DEF delta, size, fills

LEMMA FinishedRow ==
    ASSUME NEW r \in Rows
    PROVE  LET s == Finished(r) IN
           /\ s \in Rows /\ s.life = "OPEN" /\ s.ord = None /\ s.pend = 0
           /\ s.size = r.size /\ s.fills = r.fills /\ s.augmented = r.augmented
           /\ s.count = IF Protective(r.kind) THEN r.count + 1 ELSE r.count
  <1> DEFINE q == IF Protective(r.kind) THEN Counted(r) ELSE r
             st == IF r.kind = "tp1" \/ r.tp1 THEN q.stage + 1 ELSE q.stage
             tp == q.tp1 \/ r.kind = "tp1"
  <1>1. /\ q \in Rows /\ q.size = r.size /\ q.fills = r.fills /\ q.augmented = r.augmented
        /\ q.count = IF Protective(r.kind) THEN r.count + 1 ELSE r.count
    <2>1. r.count + 1 \in Nat /\ r.candle \in 0..MaxCandle /\ (r.sent \/ r.kind = "shock") \in BOOLEAN
      BY DEF Rows
    <2>2. LET c == [r EXCEPT !.count = r.count + 1, !.last = r.candle,
                             !.sent = r.sent \/ r.kind = "shock"] IN
          /\ c \in Rows /\ c.size = r.size /\ c.fills = r.fills
          /\ c.augmented = r.augmented /\ c.count = r.count + 1
      BY <2>1 DEF Rows
    <2> QED BY <2>2 DEF Counted
  <1>2. st \in Nat /\ tp \in BOOLEAN /\ 0 \in Contracts
    BY <1>1, ReduceAssumption DEF Rows, Contracts
  <1>3. Finished(r) = [q EXCEPT !.life = "OPEN", !.ord = None, !.pend = 0, !.proc = 0,
                                !.stage = st, !.tp1 = tp]
    BY DEF Finished
  <1> HIDE DEF q, st, tp
  <1>4. LET s == Finished(r) IN
           /\ s \in Rows /\ s.life = "OPEN" /\ s.ord = None /\ s.pend = 0
           /\ s.size = q.size /\ s.fills = q.fills /\ s.augmented = q.augmented
           /\ s.count = q.count
    BY <1>1, <1>2, <1>3 DEF Rows
  <1> QED BY <1>1, <1>4

LEMMA ReleasedRow ==
    ASSUME NEW r \in Rows
    PROVE  LET s == Released(r) IN
           /\ s \in Rows /\ s.life = "OPEN" /\ s.ord = None /\ s.pend = r.pend
           /\ s.size = r.size /\ s.fills = r.fills /\ s.augmented = r.augmented
           /\ s.count = r.count
  BY DEF Released, Rows

LEMMA PendingRow ==
    ASSUME NEW r \in Rows, NEW o \in OrderIds, NEW kind \in Kinds, NEW n \in Contracts
    PROVE  LET s == Pending(r, o, kind, n) IN
           /\ s \in Rows /\ s.life = "PARTIAL_PENDING" /\ s.ord = o /\ s.pend = n
           /\ s.proc = 0 /\ s.kind = kind
           /\ s.size = r.size /\ s.fills = r.fills /\ s.augmented = r.augmented
           /\ s.count = r.count
  <1>1. 0 \in Contracts /\ o \in OrderIds \cup {None} /\ "PARTIAL_PENDING" \in {"OPEN", "PARTIAL_PENDING"}
    BY ReduceAssumption DEF Contracts
  <1> QED BY <1>1 DEF Pending, Rows

LEMMA AskedRow ==
    ASSUME NEW r \in Rows, NEW b \in BOOLEAN, NEW c \in 0..MaxCandle
    PROVE  LET s == [[r EXCEPT !.candle = c] EXCEPT !.sent = b] IN
           /\ s \in Rows /\ s.life = r.life /\ s.ord = r.ord /\ s.pend = r.pend
           /\ s.proc = r.proc /\ s.kind = r.kind
           /\ s.size = r.size /\ s.fills = r.fills /\ s.augmented = r.augmented
           /\ s.count = r.count
  <1> DEFINE q == [r EXCEPT !.candle = c]
  <1>1. /\ q \in Rows /\ q.life = r.life /\ q.ord = r.ord /\ q.pend = r.pend
        /\ q.proc = r.proc /\ q.kind = r.kind /\ q.size = r.size /\ q.fills = r.fills
        /\ q.augmented = r.augmented /\ q.count = r.count
    BY DEF Rows
  <1> HIDE DEF q
  <1>2. LET s == [q EXCEPT !.sent = b] IN
        /\ s \in Rows /\ s.life = q.life /\ s.ord = q.ord /\ s.pend = q.pend
        /\ s.proc = q.proc /\ s.kind = q.kind /\ s.size = q.size /\ s.fills = q.fills
        /\ s.augmented = q.augmented /\ s.count = q.count
    BY <1>1 DEF Rows
  <1> QED BY <1>1, <1>2 DEF q

-----------------------------------------------------------------------------
(* The inductive invariant.  It speaks of the row on disk and of the copy  *)
(* at work alike.                                                          *)

(* What the row waits for is an order it submitted, of which it has booked *)
(* what it has processed.                                                  *)
Waiting(r, os) ==
    r.life = "PARTIAL_PENDING" =>
        /\ r.ord # None /\ r.pend > 0
        /\ os[r.ord].kind = r.kind
        /\ r.fills[r.ord] <= r.proc /\ r.proc <= os[r.ord].filled

Books(r, os) == \A o \in OrderIds : r.fills[o] <= os[o].filled

Placed(r, os) == r.ord # None => os[r.ord].st # "none"

(* As long as nobody adds to the position (of p contracts), the row is not *)
(* smaller, and what its order has filled and it has not booked is still   *)
(* in its size.                                                            *)
Sized(r, os, p, inc) ==
    /\ r.augmented => inc
    /\ ~inc =>
         /\ r.size >= p
         /\ r.life = "PARTIAL_PENDING" => r.size >= p + os[r.ord].filled - r.proc

(* The orders rows of the ledger have known, once r is saved.              *)
KnownWith(r, kn) == kn \cup ({r.ord} \ {None})

(* At most one of them is live; if one is, the row will submit no other.   *)
Guarded(r, os, kn) ==
    /\ \A o \in KnownWith(r, kn) : os[o].st = "live" => Active(r) /\ r.ord \in {None, o}
    /\ \A o, p \in KnownWith(r, kn) : os[o].st = "live" /\ os[p].st = "live" => o = p

SaneIn(r, os, kn, p, inc) ==
    /\ Waiting(r, os) /\ Books(r, os) /\ Placed(r, os)
    /\ Sized(r, os, p, inc) /\ Guarded(r, os, kn)

Sane(r) == SaneIn(r, orders, known, pos, increased)

Fresh ==
    \A o \in OrderIds : orders[o].st = "none" => orders[o].filled = 0 /\ o \notin known

(* What the reconciliation was shown.                                      *)
Shown ==
    /\ ~increased /\ remote # 0 => remote >= pos
    /\ pc = "visit" => remote # 0 /\ (~increased => work.size >= remote)

TookProfit == \E o \in OrderIds : orders[o].kind = "tp1" /\ orders[o].st = "filled"

IInv ==
    /\ TypeOK /\ Fresh /\ Shown
    /\ Sane(row) /\ (row.ord # None => row.ord \in known)
    /\ work # None => Sane(work)
    /\ tp1Rows > 0 => TookProfit

-----------------------------------------------------------------------------
(* Steps that only change the row at work.                                 *)

(* A row that differs in nothing the invariant reads is as sane.           *)
LEMMA SaneCopy ==
    ASSUME NEW r, NEW s, Sane(r),
           s.ord = r.ord, s.life = r.life, s.pend = r.pend, s.proc = r.proc,
           s.kind = r.kind, s.fills = r.fills,
           s.augmented => r.augmented \/ increased,
           ~increased => \/ s.size = r.size
                         \/ s.life # "PARTIAL_PENDING" /\ s.size >= pos
    PROVE  Sane(s)
  BY DEF Sane, SaneIn, Waiting, Books, Sized, KnownWith, Guarded, Active, Placed

LEMMA MarkedSane ==
    ASSUME TypeOK, NEW r \in Rows, Sane(r) PROVE Sane(Marked(r))
  <1> DEFINE s == Marked(r)
  <1>1. /\ s \in Rows /\ s.life \in {"OPEN", r.life} /\ s.size = r.size /\ s.ord = r.ord
        /\ s.pend = r.pend /\ s.proc = r.proc /\ s.kind = r.kind /\ s.fills = r.fills
        /\ s.augmented = r.augmented
    BY MarkedRow
  <1> HIDE DEF s
  <1>2. Waiting(s, orders) /\ Books(s, orders) /\ Placed(s, orders)
    BY <1>1 DEF Sane, SaneIn, Waiting, Books, Placed
  <1>3. Sized(s, orders, pos, increased)
    BY <1>1 DEF Sane, SaneIn, Sized
  <1>4. r.life = "PARTIAL_PENDING" => r.ord # None
    BY DEF Sane, SaneIn, Waiting
  <1>5. Guarded(s, orders, known)
    BY <1>1, <1>4 DEF Sane, SaneIn, Guarded, KnownWith, Active
  <1> QED BY <1>2, <1>3, <1>5 DEF Sane, SaneIn, s

(* The order has ended, or is given up: the row keeps its contracts.       *)
LEMMA ReleasedSane ==
    ASSUME TypeOK, NEW r \in Rows, Sane(r), r.life = "PARTIAL_PENDING"
    PROVE  Sane(Released(r))
  <1> DEFINE s == Released(r)
  <1>1. /\ s \in Rows /\ s.life = "OPEN" /\ s.ord = None /\ s.pend = r.pend
        /\ s.size = r.size /\ s.fills = r.fills /\ s.augmented = r.augmented
    BY ReleasedRow
  <1> HIDE DEF s
  <1>2. Waiting(s, orders) /\ Books(s, orders) /\ Placed(s, orders) /\ Sized(s, orders, pos, increased)
    BY <1>1 DEF Sane, SaneIn, Waiting, Books, Placed, Sized
  <1>3. Active(s)
    BY <1>1 DEF Sane, SaneIn, Waiting, Active
  <1>4. KnownWith(s, known) \subseteq KnownWith(r, known)
    BY <1>1 DEF KnownWith
  <1>5. Guarded(s, orders, known)
    BY <1>1, <1>3, <1>4 DEF Sane, SaneIn, Guarded
  <1> QED BY <1>2, <1>5 DEF Sane, SaneIn, s

(* A fill is booked.                                                       *)
LEMMA BookedSane ==
    ASSUME TypeOK, NEW r \in Rows, Sane(r), NEW o \in OrderIds,
           r.life = "PARTIAL_PENDING", r.ord = o, orders[o].filled > r.proc
    PROVE  Sane(Booked(r, o))
  <1> DEFINE s == Booked(r, o)
             delta == orders[o].filled - r.proc
  <1>0. orders \in [OrderIds -> Orders] /\ orders[o].filled \in Nat /\ r.proc \in Nat
        /\ r.size \in Nat /\ pos \in Nat /\ \A p \in OrderIds : orders[p].filled \in Nat
    BY ReduceAssumption DEF TypeOK, Rows, Orders, Contracts
  <1>1. /\ s \in Rows /\ s.life = r.life /\ s.ord = r.ord /\ s.pend = r.pend
        /\ s.kind = r.kind /\ s.augmented = r.augmented /\ s.proc = orders[o].filled
        /\ s.fills = [r.fills EXCEPT ![o] = @ + delta]
        /\ s.size = IF r.size < delta THEN 0 ELSE r.size - delta
    BY <1>0, BookedRow
  <1>2. delta \in Nat /\ r.fills \in [OrderIds -> Nat]
    BY <1>0 DEF Rows
  <1> HIDE DEF s
  <1>3. s.fills[o] = r.fills[o] + delta /\ \A p \in OrderIds : p # o => s.fills[p] = r.fills[p]
    BY <1>1, <1>2
  <1>4. r.fills[o] <= r.proc
    BY DEF Sane, SaneIn, Waiting
  <1>5. s.fills[o] <= orders[o].filled
    BY <1>0, <1>2, <1>3, <1>4
  <1>6. Waiting(s, orders) /\ Placed(s, orders)
    BY <1>0, <1>1, <1>5 DEF Sane, SaneIn, Waiting, Placed
  <1>7. Books(s, orders)
    BY <1>3, <1>5 DEF Sane, SaneIn, Books
  <1>8. Sized(s, orders, pos, increased)
    BY <1>0, <1>1, <1>2 DEF Sane, SaneIn, Sized
  <1>9. Guarded(s, orders, known)
    BY <1>1 DEF Sane, SaneIn, Guarded, KnownWith, Active
  <1> QED BY <1>6, <1>7, <1>8, <1>9 DEF Sane, SaneIn, s

(* The order has filled, and is no longer waited for.                      *)
LEMMA FinishedSane ==
    ASSUME TypeOK, NEW r \in Rows, Sane(r), NEW o \in OrderIds,
           r.ord = o, orders[o].st # "live"
    PROVE  Sane(Finished(r))
  <1> DEFINE s == Finished(r)
  <1>1. /\ s \in Rows /\ s.life = "OPEN" /\ s.ord = None
        /\ s.size = r.size /\ s.fills = r.fills /\ s.augmented = r.augmented
    BY FinishedRow
  <1> HIDE DEF s
  <1>2. Waiting(s, orders) /\ Books(s, orders) /\ Placed(s, orders) /\ Sized(s, orders, pos, increased)
    BY <1>1 DEF Sane, SaneIn, Waiting, Books, Placed, Sized
  <1>3. KnownWith(s, known) \subseteq KnownWith(r, known)
    BY <1>1 DEF KnownWith
  <1>4. \A p \in KnownWith(r, known) : orders[p].st # "live"
    BY NoneAssumption DEF Sane, SaneIn, Guarded, KnownWith
  <1>5. Guarded(s, orders, known)
    BY <1>3, <1>4 DEF Guarded
  <1> QED BY <1>2, <1>5 DEF Sane, SaneIn, s

(* The comparison with the list leaves a row sane that is as large.        *)
LEMMA ComparedSane ==
    ASSUME TypeOK, NEW r \in Rows, Sane(r), r.life = "OPEN",
           ~increased => remote >= pos /\ r.size >= remote
    PROVE  Sane(Compared(r, remote))
  <1> DEFINE s == Compared(r, remote)
  <1>1. /\ s \in Rows /\ s.size \in {r.size, remote}
        /\ s.life = r.life /\ s.ord = r.ord /\ s.pend = r.pend /\ s.proc = r.proc
        /\ s.kind = r.kind /\ s.fills = r.fills
        /\ r.size >= remote => s.augmented = r.augmented
    BY ComparedRow DEF TypeOK
  <1> HIDE DEF s
  <1>2. ~increased => s.size >= pos
    BY <1>1, ReduceAssumption DEF Sane, SaneIn, Sized, TypeOK, Contracts, Rows
  <1>3. s.augmented => r.augmented \/ increased
    BY <1>1
  <1> QED BY <1>1, <1>2, <1>3, SaneCopy DEF s

(* A row made as large as the list, which waits for nothing.               *)
LEMMA SyncedSane ==
    ASSUME TypeOK, NEW r \in Rows, Sane(r), r.life = "OPEN", ~increased => remote >= pos
    PROVE  Sane(Synced(r, remote))
  <1> DEFINE s == Synced(r, remote)
  <1>1. /\ s.size = remote /\ s.life = r.life /\ s.ord = r.ord /\ s.pend = r.pend
        /\ s.proc = r.proc /\ s.kind = r.kind /\ s.fills = r.fills
        /\ s.augmented = r.augmented
    BY SyncedRow DEF TypeOK
  <1> HIDE DEF s
  <1>2. Sane(s)
    BY <1>1, SaneCopy
  <1> QED BY <1>2 DEF s

LEMMA ComparedPendingSane ==
    ASSUME TypeOK, NEW r \in Rows, Sane(r) PROVE Sane(ComparedPending(r, remote))
  <1> DEFINE s == ComparedPending(r, remote)
  <1>1. /\ s.size = r.size /\ s.life = r.life /\ s.ord = r.ord /\ s.pend = r.pend
        /\ s.proc = r.proc /\ s.kind = r.kind /\ s.fills = r.fills
        /\ s.augmented = r.augmented
    BY ComparedPendingRow DEF TypeOK
  <1> HIDE DEF s
  <1>2. Sane(s)
    BY <1>1, SaneCopy
  <1> QED BY <1>2 DEF s

-----------------------------------------------------------------------------
(* Steps of the exchange, and new orders.                                  *)

(* Orders only fill, end or appear; those a row knows do not appear again. *)
LEMMA WorldSane ==
    ASSUME NEW r \in Rows, NEW os \in [OrderIds -> Orders], NEW ot \in [OrderIds -> Orders],
           NEW kn \in SUBSET OrderIds, NEW p \in Nat, NEW q \in Nat,
           NEW inc \in BOOLEAN, NEW jnc \in BOOLEAN,
           \A o \in kn : os[o].st # "none",
           \A o \in OrderIds :
              /\ os[o].filled <= ot[o].filled
              /\ os[o].st # "none" => ot[o].st # "none" /\ ot[o].kind = os[o].kind
              /\ os[o].st # "none" /\ ot[o].st = "live" => os[o].st = "live",
           inc => jnc,
           ~jnc => /\ q <= p
                   /\ \A o \in OrderIds :
                        os[o].st # "none" => q + ot[o].filled <= p + os[o].filled,
           SaneIn(r, os, kn, p, inc)
    PROVE  SaneIn(r, ot, kn, q, jnc)
  <1>1. r.ord \in OrderIds \cup {None} /\ r.size \in Nat /\ r.proc \in Nat /\ r.fills \in [OrderIds -> Nat]
    BY ReduceAssumption DEF Rows, Contracts
  <1>2. \A o \in OrderIds : os[o].filled \in Nat /\ ot[o].filled \in Nat
    BY ReduceAssumption DEF Orders, Contracts
  <1>3. \A o \in KnownWith(r, kn) : o \in OrderIds /\ os[o].st # "none"
    BY <1>1 DEF KnownWith, SaneIn, Placed
  <1>4. Waiting(r, ot)
    BY <1>1, <1>2 DEF SaneIn, Waiting, Placed
  <1>5. Books(r, ot)
    BY <1>1, <1>2 DEF SaneIn, Books
  <1>6. Placed(r, ot)
    BY <1>1 DEF SaneIn, Placed
  <1>7. Sized(r, ot, q, jnc)
    BY <1>1, <1>2 DEF SaneIn, Sized, Waiting, Placed
  <1>8. Guarded(r, ot, kn)
    BY <1>3 DEF SaneIn, Guarded
  <1> QED BY <1>4, <1>5, <1>6, <1>7, <1>8 DEF SaneIn

(* A row that submitted a new order, and waits for it.                     *)
LEMMA PendingSane ==
    ASSUME NEW r \in Rows, NEW os \in [OrderIds -> Orders], NEW kn \in SUBSET OrderIds,
           NEW p \in Nat, NEW inc \in BOOLEAN,
           SaneIn(r, os, kn, p, inc), ~Active(r),
           NEW o \in OrderIds, NEW kind \in Kinds, NEW n \in 1..MaxContracts,
           os[o].kind = kind, os[o].filled = 0, os[o].st = "live"
    PROVE  SaneIn(Pending(r, o, kind, n), os, kn, p, inc)
  <1> DEFINE s == Pending(r, o, kind, n)
  <1>0. n \in Contracts /\ n > 0
    BY ReduceAssumption DEF Contracts
  <1>1. /\ s \in Rows /\ s.life = "PARTIAL_PENDING" /\ s.ord = o /\ s.pend = n
        /\ s.proc = 0 /\ s.kind = kind /\ s.size = r.size /\ s.fills = r.fills
        /\ s.augmented = r.augmented
    BY <1>0, PendingRow
  <1> HIDE DEF s
  <1>2. r.fills[o] = 0
    BY DEF SaneIn, Books, Rows
  <1>3. Waiting(s, os) /\ Books(s, os) /\ Placed(s, os)
    BY <1>0, <1>1, <1>2, NoneAssumption DEF SaneIn, Waiting, Books, Placed
  <1>4. Sized(s, os, p, inc)
    BY <1>1, ReduceAssumption DEF SaneIn, Sized, Rows, Contracts
  <1>5. \A q \in kn : os[q].st # "live"
    BY DEF SaneIn, Guarded, KnownWith
  <1>6. Active(s) /\ KnownWith(s, kn) = kn \cup {o}
    BY <1>1, NoneAssumption DEF Active, KnownWith
  <1>7. Guarded(s, os, kn)
    BY <1>1, <1>5, <1>6 DEF Guarded
  <1> QED BY <1>3, <1>4, <1>7 DEF SaneIn, s

-----------------------------------------------------------------------------
(* Type correctness.                                                       *)

LEMMA RowIsNotNone == \A r \in Rows : r # None
  BY NoRowAssumption

LEMMA EventTyped ==
    ASSUME TypeOK, NEW kind, NoEvent \/ Event(kind) PROVE left' \in 0..MaxEvents
  BY ReduceAssumption DEF TypeOK, NoEvent, Event

LEMMA VisitedTyped ==
    ASSUME TypeOK, NEW r \in Rows, pc = "visit", Visited(r),
           tp1Rows' \in 0..1, left' \in 0..MaxEvents
    PROVE  TypeOK'
  BY RowIsNotNone DEF TypeOK, Visited, PCs

LEMMA ReadyTyped ==
    ASSUME TypeOK, NEW r \in Rows, Ready(r), orders' \in [OrderIds -> Orders],
           left' \in 0..MaxEvents,
           UNCHANGED <<remote, payload, cache, safe, files, pos, closeOnly, candle,
                       increased, known>>
    PROVE  TypeOK'
  BY RowIsNotNone DEF TypeOK, Ready, files, PCs

LEMMA TypeOfReconcile == ASSUME TypeOK, BeginTick \/ Reconcile \/ Scan PROVE TypeOK'
  <1>1. CASE BeginTick
    <2>1. left' \in 0..MaxEvents
      BY <1>1, EventTyped DEF BeginTick
    <2> QED BY <1>1, <2>1, ReduceAssumption DEF BeginTick, Untouched, files, TypeOK, PCs, Contracts
  <1>2. CASE NotDue \/ FetchFails
    <2>1. left' \in 0..MaxEvents
      BY <1>2, EventTyped DEF NotDue, FetchFails
    <2> QED BY <1>2, <2>1 DEF NotDue, FetchFails, Untouched, files, TypeOK, PCs
  <1>3. CASE Fetch
    BY <1>3, RowIsNotNone DEF Fetch, Untouched, NoEvent, files, TypeOK, PCs
  <1>4. CASE VisitOpen
    <2>1. work \in Rows /\ Compared(work, remote) \in Rows
      BY <1>4, ComparedRow DEF VisitOpen, TypeOK
    <2> QED BY <1>4, <2>1, VisitedTyped DEF VisitOpen, NoEvent, TypeOK
  <1>5. CASE Save
    <2>1. work \in Rows /\ work.ord \in OrderIds \cup {None} /\ work.mismatch \in BOOLEAN
      BY <1>5 DEF Save, TypeOK, Rows
    <2>2. 0 \in Contracts
      BY ReduceAssumption DEF Contracts
    <2>3. safe' \in BOOLEAN
      BY <1>5, <2>1 DEF Save
    <2> QED BY <1>5, <2>1, <2>2, <2>3 DEF Save, Saved, env, TypeOK, PCs
  <1>6. CASE Scan
    BY <1>6 DEF Scan, Untouched, NoEvent, files, Live, TypeOK, PCs
  <1>7. ASSUME NEW o \in OrderIds,
               PollFilled(o) \/ PollPart(o) \/ PollEnded(o) \/ PollKept(o) \/ PollTimeout(o)
        PROVE  TypeOK'
    <2>1. pc = "visit" /\ work \in Rows /\ remote \in Contracts /\ orders \in [OrderIds -> Orders]
      BY <1>7 DEF PollFilled, PollPart, PollEnded, PollKept, PollTimeout, Waits, TypeOK
    <2>2. left' \in 0..MaxEvents /\ tp1Rows' \in 0..1
      <3>1. NoEvent \/ Event("queryFail")
        BY <1>7 DEF PollFilled, PollPart, PollEnded, PollKept, PollTimeout
      <3> QED BY <1>7, <3>1, EventTyped DEF PollFilled, PollPart, PollEnded, PollKept,
                PollTimeout, TypeOK
    <2>3. CASE PollFilled(o)
      <3>1. Booked(work, o) \in Rows
        BY <2>1, <2>3, BookedRow DEF PollFilled
      <3>2. ComparedPending(Finished(Booked(work, o)), remote) \in Rows
        BY <2>1, <3>1, FinishedRow, ComparedPendingRow
      <3> QED BY <2>1, <2>2, <2>3, <3>2, VisitedTyped DEF PollFilled
    <2>4. CASE PollPart(o)
      <3>1. Booked(work, o) \in Rows
        BY <2>1, <2>4, BookedRow DEF PollPart
      <3> QED BY <2>1, <2>2, <2>4, <3>1, VisitedTyped DEF PollPart
    <2>5. CASE PollEnded(o) \/ PollKept(o)
      BY <2>1, <2>2, <2>5, ReleasedRow, VisitedTyped DEF PollEnded, PollKept
    <2>6. CASE PollTimeout(o)
      <3>1. Synced(Released(work), remote) \in Rows
        BY <2>1, ReleasedRow, SyncedRow
      <3> QED BY <2>1, <2>2, <2>6, <3>1, VisitedTyped DEF PollTimeout
    <2> QED BY <1>7, <2>3, <2>4, <2>5, <2>6
  <1> QED BY <1>1, <1>2, <1>3, <1>4, <1>5, <1>6, <1>7 DEF Reconcile

(* The orders after a submit, and the row it leaves.                       *)
LEMMA TypeOfSubmit ==
    ASSUME TypeOK, NEW o \in OrderIds, NEW kind \in Kinds, NEW n \in 1..MaxContracts,
           NEW accepted \in Rows, NEW refused \in Rows,
           Submitted(o, kind, n, accepted, refused),
           UNCHANGED <<remote, payload, cache, safe, files, pos, closeOnly, candle,
                       increased, known>>
    PROVE  TypeOK'
  <1>1. left' \in 0..MaxEvents
    BY EventTyped DEF Submitted
  <1>2. orders' \in [OrderIds -> Orders]
    <2>1. [kind |-> kind, size |-> n, filled |-> 0, st |-> "live"] \in Orders
      BY ReduceAssumption DEF Orders, Contracts
    <2> QED BY <2>1 DEF Submitted, NewOrder, TypeOK
  <1>3. Ready(accepted) \/ Ready(refused)
    BY DEF Submitted
  <1> QED BY <1>1, <1>2, <1>3, ReadyTyped

LEMMA TypeOfClosePass == ASSUME TypeOK, ClosePass PROVE TypeOK'
  <1>0. row \in Rows /\ Marked(row) \in Rows /\ candle \in 0..MaxCandle
    BY MarkedRow DEF TypeOK
  <1>1. CASE Hold
    BY <1>0, <1>1, ReadyTyped DEF Hold, env, TypeOK
  <1>2. CASE WriteBack
    <2>1. work \in Rows /\ work.ord \in OrderIds \cup {None}
      BY <1>2 DEF WriteBack, TypeOK, Rows
    <2> QED BY <1>2, <2>1, ReduceAssumption DEF WriteBack, Saved, env, TypeOK, PCs, Contracts
  <1>3. ASSUME NEW o \in OrderIds, NEW n \in 1..MaxContracts, SubmitTp1(o, n) PROVE TypeOK'
    <2>1. n \in Contracts /\ "tp1" \in Kinds
      BY ReduceAssumption DEF Contracts, Kinds
    <2>2. Pending(Marked(row), o, "tp1", n) \in Rows
      BY <1>0, <2>1, PendingRow
    <2> QED BY <1>0, <1>3, <2>1, <2>2, TypeOfSubmit DEF SubmitTp1
  <1>4. ASSUME NEW o \in OrderIds, NEW n \in 1..MaxContracts, NEW kind \in Kinds,
               SubmitPartial(o, kind, n)
        PROVE  TypeOK'
    <2> DEFINE asked == [Marked(row) EXCEPT !.candle = candle]
               sent == [asked EXCEPT !.sent = TRUE]
               unsent == [asked EXCEPT !.sent = FALSE]
    <2>1. n \in Contracts
      BY ReduceAssumption DEF Contracts
    <2>2. sent \in Rows /\ unsent \in Rows
      BY <1>0, AskedRow
    <2> HIDE DEF sent, unsent
    <2>3. Pending(sent, o, kind, n) \in Rows
      BY <2>1, <2>2, PendingRow
    <2>4. CASE Submitted(o, kind, n, Pending(sent, o, kind, n), unsent)
      BY <1>4, <2>2, <2>3, <2>4, TypeOfSubmit DEF SubmitPartial
    <2>5. CASE UNCHANGED orders /\ NoEvent /\ Ready(unsent)
      BY <1>4, <2>2, <2>5, ReadyTyped DEF SubmitPartial, NoEvent, TypeOK
    <2> QED BY <1>4, <2>4, <2>5 DEF SubmitPartial, sent, unsent
  <1> QED BY <1>1, <1>2, <1>3, <1>4 DEF ClosePass

LEMMA TypeOfOthers == ASSUME TypeOK, Others PROVE TypeOK'
  <1>1. ASSUME NEW o \in OrderIds, NEW k \in 1..MaxContracts, Fill(o, k) PROVE TypeOK'
    <2>1. orders[o] \in Orders /\ pos \in Contracts /\ pos > 0
      BY DEF TypeOK, Contracts
    <2>2. orders[o].filled + k \in Contracts /\ pos - k \in Contracts \ {0}
      BY <1>1, <2>1, ReduceAssumption DEF Fill, Orders, Contracts
    <2>3. orders' \in [OrderIds -> Orders]
      BY <1>1, <2>1, <2>2 DEF Fill, Orders, TypeOK
    <2> QED BY <1>1, <2>2, <2>3 DEF Fill, engine, files, NoEvent, TypeOK
  <1>2. ASSUME NEW o \in OrderIds, OrderEnds(o) PROVE TypeOK'
    <2>1. left' \in 0..MaxEvents
      BY <1>2, EventTyped DEF OrderEnds
    <2>2. orders' \in [OrderIds -> Orders]
      BY <1>2 DEF OrderEnds, Orders, TypeOK
    <2> QED BY <1>2, <2>1, <2>2 DEF OrderEnds, engine, files, TypeOK
  <1>3. CASE OperatorTrades
    <2>1. left' \in 0..MaxEvents
      BY <1>3, EventTyped DEF OperatorTrades
    <2>2. pos' \in Contracts \ {0}
      BY <1>3, ReduceAssumption DEF OperatorTrades, TypeOK, Contracts
    <2> QED BY <1>3, <2>1, <2>2 DEF OperatorTrades, engine, files, TypeOK
  <1>4. CASE SwitchCloseOnly
    <2>1. left' \in 0..MaxEvents
      BY <1>4, EventTyped DEF SwitchCloseOnly
    <2> QED BY <1>4, <2>1 DEF SwitchCloseOnly, engine, files, TypeOK
  <1>5. CASE NewCandle
    BY <1>5, ReduceAssumption DEF NewCandle, engine, files, NoEvent, TypeOK
  <1>6. CASE Crash
    <2>1. left' \in 0..MaxEvents
      BY <1>6, EventTyped DEF Crash
    <2>2. 0 \in Contracts
      BY ReduceAssumption DEF Contracts
    <2> QED BY <1>6, <2>1, <2>2 DEF Crash, files, TypeOK, PCs
  <1> QED BY <1>1, <1>2, <1>3, <1>4, <1>5, <1>6 DEF Others

LEMMA TypeInit == Init => TypeOK
  <1> SUFFICES ASSUME Init PROVE TypeOK
    OBVIOUS
  <1>1. 0 \in Contracts /\ MaxContracts \in Contracts \ {0}
    BY ReduceAssumption DEF Contracts
  <1>2. row \in Rows
    BY <1>1, ReduceAssumption DEF Init, Rows, Kinds
  <1>3. orders \in [OrderIds -> Orders]
    BY <1>1 DEF Init, Orders, Kinds
  <1>4. candle \in 1..MaxCandle /\ left \in 0..MaxEvents
    BY ReduceAssumption DEF Init
  <1>5. /\ pc = "begin" /\ work = None /\ remote = 0 /\ payload = 0
        /\ cache = {} /\ safe = FALSE /\ tp1Rows = 0 /\ pos = MaxContracts
        /\ closeOnly = FALSE /\ known = {} /\ increased = FALSE
    BY DEF Init
  <1>6. pc \in PCs /\ work \in Rows \cup {None} /\ (work = None <=> pc \notin {"visit", "save", "write"})
    BY <1>5 DEF PCs
  <1>7. remote \in Contracts /\ payload \in Contracts /\ pos \in Contracts \ {0}
    BY <1>1, <1>5
  <1>8. cache \subseteq OrderIds /\ tp1Rows \in 0..1 /\ known \subseteq OrderIds
    BY <1>5
  <1>9. safe \in BOOLEAN /\ closeOnly \in BOOLEAN /\ increased \in BOOLEAN
    BY <1>5, Zenon
  <1> QED BY <1>2, <1>3, <1>4, <1>6, <1>7, <1>8, <1>9 DEF TypeOK

LEMMA TypeStep == TypeOK /\ [Next]_vars => TypeOK'
  <1> SUFFICES ASSUME TypeOK, [Next]_vars PROVE TypeOK'
    OBVIOUS
  <1>1. CASE Next
    BY <1>1, TypeOfReconcile, TypeOfClosePass, TypeOfOthers DEF Next, Tick
  <1>2. CASE UNCHANGED vars
    BY <1>2 DEF vars, engine, files, env, TypeOK
  <1> QED BY <1>1, <1>2

(* Every variable keeps its type: rows stay rows whatever the visits, the  *)
(* submits and the fills make of them, and no size leaves its range.       *)
THEOREM Typed == Spec => []TypeOK
  BY TypeInit, TypeStep, PTL DEF Spec

-----------------------------------------------------------------------------
(* The invariant is inductive.                                             *)

LEMMA InvInit == Init => IInv
  <1> SUFFICES ASSUME Init PROVE IInv
    OBVIOUS
  <1>1. /\ work = None /\ remote = 0 /\ pc = "begin" /\ tp1Rows = 0 /\ known = {}
        /\ increased = FALSE /\ pos = MaxContracts
    BY DEF Init
  <1>2. \A o \in OrderIds : orders[o].st = "none" /\ orders[o].filled = 0
    BY DEF Init
  <1>3. /\ row.life = "OPEN" /\ row.ord = None /\ row.augmented = FALSE
        /\ row.size = MaxContracts /\ \A o \in OrderIds : row.fills[o] = 0
    BY DEF Init
  <1>4. Waiting(row, orders) /\ Placed(row, orders) /\ Books(row, orders)
    BY <1>2, <1>3 DEF Waiting, Placed, Books
  <1>5. Sized(row, orders, pos, increased)
    BY <1>1, <1>3, ReduceAssumption DEF Sized
  <1>6. Guarded(row, orders, known)
    BY <1>1, <1>3 DEF Guarded, KnownWith
  <1> QED BY <1>1, <1>2, <1>3, <1>4, <1>5, <1>6, TypeInit
          DEF IInv, Sane, SaneIn, Fresh, Shown

(* The engine changes nothing but the row at work.                         *)
LEMMA RowStep ==
    ASSUME IInv, TypeOK', UNCHANGED <<row, pos, orders, known, increased>>,
           work' # None => Sane(work'), Shown', tp1Rows' > 0 => TookProfit
    PROVE  IInv'
  BY DEF IInv, Fresh, Sane, TookProfit

(* The exchange moves on; the engine keeps what it has.                    *)
LEMMA WorldStep ==
    ASSUME IInv, TypeOK', UNCHANGED <<row, work, pc, remote, tp1Rows, known>>,
           \A o \in OrderIds :
              /\ orders[o].filled <= orders'[o].filled
              /\ orders'[o].st = "none" <=> orders[o].st = "none"
              /\ orders[o].st = "none" => orders'[o].filled = 0
              /\ orders'[o].kind = orders[o].kind
              /\ orders'[o].st = "live" => orders[o].st = "live"
              /\ orders[o].st = "filled" => orders'[o].st = "filled",
           increased => increased',
           ~increased' => /\ pos' <= pos
                          /\ \A o \in OrderIds :
                               pos' + orders'[o].filled <= pos + orders[o].filled
    PROVE  IInv'
  <1>1. /\ orders \in [OrderIds -> Orders] /\ orders' \in [OrderIds -> Orders]
        /\ known \in SUBSET OrderIds /\ pos \in Nat /\ pos' \in Nat
        /\ increased \in BOOLEAN /\ increased' \in BOOLEAN /\ row \in Rows
        /\ work # None => work \in Rows
    BY ReduceAssumption DEF IInv, TypeOK, Contracts
  <1>2. \A o \in known : orders[o].st # "none"
    BY <1>1 DEF IInv, Fresh
  <1>3. SaneIn(row, orders', known, pos', increased')
    BY <1>1, <1>2, WorldSane DEF IInv, Sane
  <1>4. work # None => SaneIn(work, orders', known, pos', increased')
    BY <1>1, <1>2, WorldSane DEF IInv, Sane
  <1>5. Fresh'
    BY DEF IInv, Fresh
  <1>6. Shown'
    <2>1. remote \in Nat
      BY ReduceAssumption DEF IInv, TypeOK, Contracts
    <2> QED BY <1>1, <2>1 DEF IInv, Shown
  <1>7. tp1Rows' > 0 => TookProfit'
    BY DEF IInv, TookProfit
  <1> QED BY <1>3, <1>4, <1>5, <1>6, <1>7 DEF IInv, Sane

LEMMA InvOfOthers == ASSUME IInv, Others PROVE IInv'
  <1>1. TypeOK /\ TypeOK'
    BY TypeOfOthers DEF IInv
  <1>2. /\ orders \in [OrderIds -> Orders] /\ pos \in Nat
        /\ \A o \in OrderIds : orders[o].filled \in Nat
    BY <1>1, ReduceAssumption DEF TypeOK, Contracts, Orders
  <1>3. ASSUME NEW o \in OrderIds, NEW k \in 1..MaxContracts, Fill(o, k) PROVE IInv'
    <2>1. /\ orders[o].st = "live" /\ pos' = pos - k /\ k \in Nat
          /\ orders'[o].filled = orders[o].filled + k /\ orders'[o].kind = orders[o].kind
          /\ orders'[o].st \in {"live", "filled"}
          /\ \A p \in OrderIds : p # o => orders'[p] = orders[p]
      BY <1>2, <1>3 DEF Fill, Orders
    <2>2. UNCHANGED <<row, work, pc, remote, tp1Rows, known, increased>>
      BY <1>3 DEF Fill, engine, files
    <2> QED BY <1>1, <1>2, <2>1, <2>2, WorldStep DEF IInv, Fresh
  <1>4. ASSUME NEW o \in OrderIds, OrderEnds(o) PROVE IInv'
    <2>1. /\ orders[o].st = "live" /\ pos' = pos /\ orders'[o].filled = orders[o].filled
          /\ orders'[o].kind = orders[o].kind /\ orders'[o].st = "ended"
          /\ \A p \in OrderIds : p # o => orders'[p] = orders[p]
      BY <1>2, <1>4 DEF OrderEnds, Orders
    <2>2. UNCHANGED <<row, work, pc, remote, tp1Rows, known, increased>>
      BY <1>4 DEF OrderEnds, engine, files
    <2> QED BY <1>1, <1>2, <2>1, <2>2, WorldStep DEF IInv, Fresh
  <1>5. CASE OperatorTrades
    <2>1. orders' = orders /\ UNCHANGED <<row, work, pc, remote, tp1Rows, known>>
      BY <1>5 DEF OperatorTrades, engine, files
    <2>2. increased' \/ (pos' = pos - 1 /\ UNCHANGED increased)
      BY <1>5, Zenon DEF OperatorTrades
    <2>3. increased => increased'
      BY <2>2
    <2> QED BY <1>1, <1>2, <2>1, <2>2, <2>3, WorldStep DEF IInv, Fresh
  <1>6. CASE SwitchCloseOnly \/ NewCandle
    <2>1. UNCHANGED <<row, work, pc, remote, tp1Rows, known, orders, pos, increased>>
      BY <1>6 DEF SwitchCloseOnly, NewCandle, engine, files
    <2> QED BY <1>1, <1>2, <2>1, WorldStep DEF IInv, Fresh
  <1>7. CASE Crash
    <2>1. /\ UNCHANGED <<row, pos, orders, known, increased, tp1Rows>>
          /\ pc' = "begin" /\ work' = None /\ remote' = 0
      BY <1>7 DEF Crash, files
    <2> QED BY <1>1, <2>1, RowStep DEF IInv, Shown
  <1> QED BY <1>3, <1>4, <1>5, <1>6, <1>7 DEF Others

LEMMA InvOfVisit ==
    ASSUME IInv, \/ VisitOpen
                 \/ \E o \in OrderIds : PollFilled(o) \/ PollPart(o) \/ PollEnded(o)
                                        \/ PollKept(o) \/ PollTimeout(o)
    PROVE  IInv'
  <1>1. TypeOK /\ TypeOK' /\ pc = "visit"
    BY TypeOfReconcile DEF IInv, Reconcile, VisitOpen, PollFilled, PollPart, PollEnded,
       PollKept, PollTimeout, Waits
  <1>2. work \in Rows /\ Sane(work) /\ remote \in Contracts /\ orders \in [OrderIds -> Orders]
    BY <1>1, RowIsNotNone DEF IInv, TypeOK
  <1>3. ~increased => remote >= pos /\ work.size >= remote
    BY <1>1 DEF IInv, Shown
  <1>4. pc' = "save" /\ UNCHANGED <<remote, row, pos, orders, known, increased>>
    BY DEF VisitOpen, PollFilled, PollPart, PollEnded, PollKept, PollTimeout, Visited
  <1>5. Shown'
    BY <1>4 DEF IInv, Shown
  <1> SUFFICES Sane(work') /\ (tp1Rows' > 0 => TookProfit)
    BY <1>1, <1>4, <1>5, RowStep
  <1>6. CASE VisitOpen
    BY <1>1, <1>2, <1>3, <1>6, ComparedSane DEF VisitOpen, Visited, IInv
  <1>7. ASSUME NEW o \in OrderIds, PollFilled(o) PROVE Sane(work') /\ (tp1Rows' > 0 => TookProfit)
    <2> DEFINE b == Booked(work, o)
    <2>1. work.life = "PARTIAL_PENDING" /\ work.ord = o /\ orders[o].filled > work.proc
          /\ orders[o].st = "filled"
      BY <1>7 DEF PollFilled, Waits
    <2>2. b \in Rows /\ b.ord = o /\ Sane(b)
      BY <1>1, <1>2, <2>1, BookedRow, BookedSane
    <2> HIDE DEF b
    <2>3. Finished(b) \in Rows /\ Sane(Finished(b))
      BY <1>1, <2>1, <2>2, FinishedRow, FinishedSane
    <2>4. Sane(ComparedPending(Finished(b), remote))
      BY <1>1, <2>3, ComparedPendingSane
    <2>5. work' = ComparedPending(Finished(b), remote)
      BY <1>7 DEF PollFilled, Visited, b
    <2>6. work.kind = "tp1" => TookProfit
      BY <1>2, <2>1 DEF Sane, SaneIn, Waiting, TookProfit
    <2>7. tp1Rows' > 0 => TookProfit
      BY <1>7, <2>6 DEF PollFilled, IInv
    <2> QED BY <2>4, <2>5, <2>7
  <1>8. ASSUME NEW o \in OrderIds, PollPart(o) PROVE Sane(work')
    BY <1>1, <1>2, <1>8, BookedSane DEF PollPart, Waits, Visited
  <1>9. ASSUME NEW o \in OrderIds, PollEnded(o) \/ PollKept(o) PROVE Sane(work')
    BY <1>1, <1>2, <1>9, ReleasedSane DEF PollEnded, PollKept, Waits, Visited
  <1>10. ASSUME NEW o \in OrderIds, PollTimeout(o) PROVE Sane(work')
    <2>1. work.life = "PARTIAL_PENDING" /\ work' = Synced(Released(work), remote)
      BY <1>10 DEF PollTimeout, Waits, Visited
    <2>2. Released(work) \in Rows /\ Released(work).life = "OPEN" /\ Sane(Released(work))
      BY <1>1, <1>2, <2>1, ReleasedRow, ReleasedSane
    <2> QED BY <1>1, <1>3, <2>1, <2>2, SyncedSane
  <1>11. ASSUME NEW o \in OrderIds, PollPart(o) \/ PollEnded(o) \/ PollKept(o) \/ PollTimeout(o)
         PROVE  tp1Rows' > 0 => TookProfit
    BY <1>11 DEF PollPart, PollEnded, PollKept, PollTimeout, IInv
  <1> QED BY <1>6, <1>7, <1>8, <1>9, <1>10, <1>11 DEF VisitOpen, IInv

(* The row at work is saved.                                               *)
LEMMA SaveStep ==
    ASSUME IInv, TypeOK', Shown', work \in Rows, row' = work, work' = None, Saved,
           UNCHANGED <<pos, orders, increased, tp1Rows>>
    PROVE  IInv'
  <1>1. Sane(work) /\ work.ord \in OrderIds \cup {None}
    BY RowIsNotNone DEF IInv, Rows
  <1>2. known' = KnownWith(work, known) /\ KnownWith(work, known') = KnownWith(work, known)
    BY DEF Saved, KnownWith
  <1>3. SaneIn(work, orders, known', pos, increased)
    BY <1>1, <1>2 DEF Sane, SaneIn, Guarded
  <1>4. Fresh'
    BY <1>1, <1>2 DEF IInv, Fresh, Sane, SaneIn, Placed, KnownWith
  <1>5. work.ord # None => work.ord \in known'
    BY <1>2 DEF KnownWith
  <1> QED BY <1>3, <1>4, <1>5 DEF IInv, Sane, TookProfit

LEMMA InvOfReconcile == ASSUME IInv, BeginTick \/ Reconcile \/ Scan PROVE IInv'
  <1>1. TypeOK /\ TypeOK'
    BY TypeOfReconcile DEF IInv
  <1>2. CASE BeginTick \/ NotDue \/ FetchFails \/ Scan
    <2>1. /\ UNCHANGED <<work, remote, row, tp1Rows, pos, orders, known, increased>>
          /\ pc' \in {"reconcile", "scan", "pass"}
      BY <1>2 DEF BeginTick, NotDue, FetchFails, Scan, Untouched, files
    <2>2. Shown' /\ (work' # None => Sane(work'))
      BY <2>1 DEF IInv, Shown
    <2>3. tp1Rows' > 0 => TookProfit
      BY <2>1 DEF IInv
    <2> QED BY <1>1, <2>1, <2>2, <2>3, RowStep
  <1>3. CASE Fetch
    <2>1. /\ UNCHANGED <<row, tp1Rows, pos, orders, known, increased>>
          /\ work' = row /\ remote' = pos /\ pc' = "visit"
      BY <1>3 DEF Fetch, Untouched, files
    <2>2. pos \in Nat \ {0} /\ (~increased => row.size >= pos)
      BY <1>1, ReduceAssumption DEF IInv, Sane, SaneIn, Sized, TypeOK, Contracts
    <2>3. Shown'
      BY <2>1, <2>2 DEF Shown
    <2> QED BY <1>1, <2>1, <2>3, RowStep DEF IInv
  <1>4. CASE Save
    <2>1. work \in Rows /\ remote' = 0 /\ pc' = "scan"
      BY <1>1, <1>4 DEF Save, TypeOK
    <2>2. Shown'
      BY <2>1 DEF Shown
    <2> QED BY <1>1, <1>4, <2>1, <2>2, SaveStep DEF Save, env
  <1> QED BY <1>2, <1>3, <1>4, InvOfVisit DEF Reconcile

(* A submit, of a row sane as it was marked, or asked for.                 *)
LEMMA SubmitStep ==
    ASSUME IInv, TypeOK', NEW o \in OrderIds, NEW kind \in Kinds, NEW n \in 1..MaxContracts,
           NEW r \in Rows, Sane(r), ~Active(r), NEW refused \in Rows, Sane(refused),
           Submitted(o, kind, n, Pending(r, o, kind, n), refused),
           UNCHANGED <<remote, files, pos, increased, known>>
    PROVE  IInv'
  <1>1. pc' = "write" /\ UNCHANGED <<row, tp1Rows>>
    BY DEF Submitted, Ready, files
  <1>2. Shown'
    BY <1>1 DEF IInv, Shown
  <1>3. CASE UNCHANGED orders /\ work' = refused
    <2>1. tp1Rows' > 0 => TookProfit
      BY <1>1 DEF IInv
    <2> QED BY <1>1, <1>2, <1>3, <2>1, RowStep
  <1>4. CASE NewOrder(o, kind, n) /\ work' \in {refused, Pending(r, o, kind, n)}
    <2>1. /\ orders \in [OrderIds -> Orders] /\ orders' \in [OrderIds -> Orders]
          /\ known \in SUBSET OrderIds /\ pos \in Nat /\ increased \in BOOLEAN /\ row \in Rows
          /\ \A q \in OrderIds : orders[q].filled \in Nat
      BY ReduceAssumption DEF IInv, TypeOK, Contracts, Orders
    <2>2. /\ orders[o].st = "none" /\ orders[o].filled = 0 /\ o \notin known
          /\ orders'[o].kind = kind /\ orders'[o].filled = 0 /\ orders'[o].st = "live"
          /\ \A q \in OrderIds : q # o => orders'[q] = orders[q]
      BY <1>4, <2>1 DEF NewOrder, IInv, Fresh
    <2>3. \A q \in known : orders[q].st # "none"
      BY <2>1 DEF IInv, Fresh
    <2>4. \A q \in OrderIds :
              /\ orders[q].filled <= orders'[q].filled
              /\ orders[q].st # "none" => /\ orders'[q].st # "none"
                                          /\ orders'[q].kind = orders[q].kind
              /\ orders[q].st # "none" /\ orders'[q].st = "live" => orders[q].st = "live"
              /\ orders[q].st # "none" => pos + orders'[q].filled <= pos + orders[q].filled
      BY <2>1, <2>2
    <2>5. \A s \in Rows : Sane(s) => SaneIn(s, orders', known, pos, increased)
      BY <2>1, <2>3, <2>4, WorldSane DEF Sane
    <2>6. SaneIn(Pending(r, o, kind, n), orders', known, pos, increased)
      BY <2>1, <2>2, <2>5, PendingSane
    <2>7. SaneIn(work', orders', known, pos, increased)
      BY <1>4, <2>5, <2>6
    <2>8. SaneIn(row, orders', known, pos, increased)
      BY <2>1, <2>5 DEF IInv
    <2>9. Fresh'
      BY <2>2 DEF IInv, Fresh
    <2>10. tp1Rows' > 0 => TookProfit'
      <3>1. tp1Rows' > 0 => TookProfit
        BY <1>1 DEF IInv
      <3> QED BY <2>2, <3>1 DEF TookProfit
    <2> QED BY <1>1, <1>2, <2>7, <2>8, <2>9, <2>10 DEF IInv, Sane
  <1> QED BY <1>3, <1>4 DEF Submitted, Ready

LEMMA InvOfClosePass == ASSUME IInv, ClosePass PROVE IInv'
  <1> DEFINE r == Marked(row)
  <1>1. TypeOK /\ TypeOK' /\ candle \in 0..MaxCandle
    BY TypeOfClosePass DEF IInv, TypeOK
  <1>2. row \in Rows /\ r \in Rows /\ Sane(r)
    BY <1>1, MarkedRow, MarkedSane DEF IInv, TypeOK
  <1> HIDE DEF r
  <1>3. CASE Hold
    <2>1. /\ work' = r /\ pc' = "write"
          /\ UNCHANGED <<remote, row, tp1Rows, pos, orders, increased, known>>
      BY <1>3 DEF Hold, Ready, files, env, r
    <2>2. Shown' /\ (tp1Rows' > 0 => TookProfit)
      BY <2>1 DEF IInv, Shown
    <2> QED BY <1>1, <1>2, <2>1, <2>2, RowStep
  <1>4. CASE WriteBack
    <2>1. work \in Rows /\ pc' = "begin"
      BY <1>1, <1>4 DEF WriteBack, TypeOK
    <2>2. Shown'
      BY <1>4, <2>1 DEF WriteBack, env, IInv, Shown
    <2> QED BY <1>1, <1>4, <2>1, <2>2, SaveStep DEF WriteBack, env
  <1>5. ASSUME NEW o \in OrderIds, NEW n \in 1..MaxContracts, SubmitTp1(o, n) PROVE IInv'
    <2>1. /\ ~Active(r) /\ Submitted(o, "tp1", n, Pending(r, o, "tp1", n), r)
          /\ UNCHANGED <<remote, files, pos, increased, known>>
      BY <1>5 DEF SubmitTp1, SubmitAllowed, r
    <2> QED BY <1>1, <1>2, <2>1, SubmitStep DEF Kinds
  <1>6. ASSUME NEW o \in OrderIds, NEW n \in 1..MaxContracts, NEW kind \in Kinds,
               SubmitPartial(o, kind, n)
        PROVE  IInv'
    <2> DEFINE sent == [[r EXCEPT !.candle = candle] EXCEPT !.sent = TRUE]
               unsent == [[r EXCEPT !.candle = candle] EXCEPT !.sent = FALSE]
    <2>1. /\ ~Active(r) /\ UNCHANGED <<remote, files, pos, increased, known>>
          /\ \/ Submitted(o, kind, n, Pending(sent, o, kind, n), unsent)
             \/ UNCHANGED orders /\ Ready(unsent)
      BY <1>6 DEF SubmitPartial, SubmitAllowed, r
    <2>2. /\ sent \in Rows /\ sent.life = r.life /\ sent.ord = r.ord /\ sent.pend = r.pend
          /\ sent.proc = r.proc /\ sent.kind = r.kind /\ sent.size = r.size
          /\ sent.fills = r.fills /\ sent.augmented = r.augmented
      BY <1>1, <1>2, AskedRow
    <2>3. /\ unsent \in Rows /\ unsent.life = r.life /\ unsent.ord = r.ord
          /\ unsent.pend = r.pend /\ unsent.proc = r.proc /\ unsent.kind = r.kind
          /\ unsent.size = r.size /\ unsent.fills = r.fills
          /\ unsent.augmented = r.augmented
      BY <1>1, <1>2, AskedRow
    <2> HIDE DEF sent, unsent
    <2>4. Sane(sent) /\ Sane(unsent) /\ ~Active(sent)
      <3>1. Sane(sent)
        BY <1>2, <2>2, SaneCopy
      <3>2. Sane(unsent)
        BY <1>2, <2>3, SaneCopy
      <3>3. ~Active(sent)
        BY <2>1, <2>2 DEF Active
      <3> QED BY <3>1, <3>2, <3>3
    <2>5. CASE Submitted(o, kind, n, Pending(sent, o, kind, n), unsent)
      BY <1>1, <2>1, <2>2, <2>3, <2>4, <2>5, SubmitStep
    <2>6. CASE UNCHANGED orders /\ Ready(unsent)
      <3>1. /\ work' = unsent /\ pc' = "write"
            /\ UNCHANGED <<remote, row, tp1Rows, pos, orders, increased, known>>
        BY <2>1, <2>6 DEF Ready, files
      <3>2. Shown' /\ (tp1Rows' > 0 => TookProfit)
        BY <3>1 DEF IInv, Shown
      <3> QED BY <1>1, <2>4, <3>1, <3>2, RowStep
    <2> QED BY <2>1, <2>5, <2>6
  <1> QED BY <1>3, <1>4, <1>5, <1>6 DEF ClosePass

LEMMA InvStep == IInv /\ [Next]_vars => IInv'
  <1> SUFFICES ASSUME IInv, [Next]_vars PROVE IInv'
    OBVIOUS
  <1>1. CASE Next
    BY <1>1, InvOfReconcile, InvOfClosePass, InvOfOthers DEF Next, Tick
  <1>2. CASE UNCHANGED vars
    <2>1. TypeOK' /\ UNCHANGED <<work, pc, remote, row, tp1Rows, pos, orders, increased, known>>
      BY <1>2, TypeStep DEF IInv, vars, engine, files, env
    <2> QED BY <2>1, RowStep DEF IInv, Shown
  <1> QED BY <1>1, <1>2

LEMMA Inductive == Spec => []IInv
  BY InvInit, InvStep, PTL DEF Spec

(* Of no order are more contracts recorded than it filled, and a           *)
(* take-profit in the history is one that filled.                          *)
THEOREM BooksHold == Spec => []BooksAreReal
  <1>1. IInv => BooksAreReal
    BY DEF IInv, Sane, SaneIn, Books, TookProfit, BooksAreReal
  <1> QED BY <1>1, Inductive, PTL

(* Two reduce orders that the ledger has known are never live together.    *)
THEOREM OneInFlight == Spec => []OneReduceInFlight
  <1>1. IInv => OneReduceInFlight
    BY DEF IInv, Sane, SaneIn, Guarded, KnownWith, OneReduceInFlight
  <1> QED BY <1>1, Inductive, PTL

(* The engine's own fills are never taken for an increase by the operator. *)
THEOREM AugmentsAreReal == Spec => []NoFalseAugment
  <1>1. IInv => NoFalseAugment
    BY DEF IInv, Sane, SaneIn, Sized, NoFalseAugment
  <1> QED BY <1>1, Inductive, PTL

-----------------------------------------------------------------------------
(* The limit on protective reduces.  Its invariant relates the orders the  *)
(* ledger has known to the count that the row carries.                     *)

ProtectiveIn(kn, os) == {o \in kn : Protective(os[o].kind)}

Limited(r, os, kn) ==
    LET n == Cardinality(ProtectiveIn(KnownWith(r, kn), os)) IN
    /\ n <= 2
    /\ ~Active(r) => n <= r.count
    /\ r.life = "PARTIAL_PENDING" =>
           n <= IF Protective(r.kind) THEN r.count + 1 ELSE r.count
    /\ \A o, p \in KnownWith(r, kn) :
           o < p /\ Protective(os[o].kind) => os[p].kind # "routine"

Ordered == \A o, p \in OrderIds : o < p /\ orders[o].st = "none" => orders[p].st = "none"

Limits ==
    /\ Ordered
    /\ Limited(row, orders, known)
    /\ work # None => Limited(work, orders, known)

LEMMA ProtectiveFinite ==
    ASSUME NEW S \in SUBSET OrderIds, NEW os
    PROVE  /\ IsFiniteSet(ProtectiveIn(S, os)) /\ Cardinality(ProtectiveIn(S, os)) \in Nat
           /\ \A T \in SUBSET S : Cardinality(ProtectiveIn(T, os)) <= Cardinality(ProtectiveIn(S, os))
  <1>1. IsFiniteSet(OrderIds)
    BY FS_Interval, ReduceAssumption DEF OrderIds
  <1>2. \A T \in SUBSET OrderIds : IsFiniteSet(ProtectiveIn(T, os))
    BY <1>1, FS_Subset DEF ProtectiveIn
  <1>3. \A T \in SUBSET S : ProtectiveIn(T, os) \subseteq ProtectiveIn(S, os)
    BY DEF ProtectiveIn
  <1> QED BY <1>2, <1>3, FS_Subset, FS_CardinalityType

LEMMA KnownAreOrders ==
    ASSUME NEW r \in Rows, NEW kn \in SUBSET OrderIds
    PROVE  KnownWith(r, kn) \in SUBSET OrderIds
  BY DEF KnownWith, Rows

(* A row that differs in nothing the limit reads.                          *)
LEMMA LimitedCopy ==
    ASSUME NEW r, NEW s, NEW os, NEW kn, Limited(r, os, kn),
           s.ord = r.ord, s.life = r.life, s.pend = r.pend, s.kind = r.kind, s.count = r.count
    PROVE  Limited(s, os, kn)
  BY DEF Limited, KnownWith, Active

(* A row that keeps what marks it as waiting, or has no less to say.       *)
LEMMA LimitedLess ==
    ASSUME NEW r \in Rows, NEW s \in Rows, NEW os, NEW kn \in SUBSET OrderIds,
           Limited(r, os, kn), s.ord \in {r.ord, None}, s.life = "OPEN", s.count = r.count,
           ~Active(s) => ~Active(r)
    PROVE  Limited(s, os, kn)
  <1>1. KnownWith(s, kn) \subseteq KnownWith(r, kn) /\ KnownWith(r, kn) \in SUBSET OrderIds
    BY KnownAreOrders DEF KnownWith
  <1>2. /\ Cardinality(ProtectiveIn(KnownWith(s, kn), os)) \in Nat
        /\ Cardinality(ProtectiveIn(KnownWith(r, kn), os)) \in Nat
        /\ Cardinality(ProtectiveIn(KnownWith(s, kn), os))
             <= Cardinality(ProtectiveIn(KnownWith(r, kn), os))
    BY <1>1, ProtectiveFinite
  <1> QED BY <1>1, <1>2 DEF Limited, Rows

(* The order has filled and is counted.                                    *)
LEMMA LimitedFinished ==
    ASSUME NEW r \in Rows, NEW os, NEW kn \in SUBSET OrderIds, Limited(r, os, kn),
           r.life = "PARTIAL_PENDING"
    PROVE  Limited(Finished(r), os, kn)
  <1> DEFINE s == Finished(r)
  <1>0. /\ s \in Rows /\ s.life = "OPEN" /\ s.ord = None
        /\ s.count = IF Protective(r.kind) THEN r.count + 1 ELSE r.count
    BY FinishedRow
  <1> HIDE DEF s
  <1>1. KnownWith(s, kn) \subseteq KnownWith(r, kn) /\ KnownWith(r, kn) \in SUBSET OrderIds
    BY <1>0, KnownAreOrders DEF KnownWith
  <1>2. /\ Cardinality(ProtectiveIn(KnownWith(s, kn), os)) \in Nat
        /\ Cardinality(ProtectiveIn(KnownWith(r, kn), os)) \in Nat
        /\ Cardinality(ProtectiveIn(KnownWith(s, kn), os))
             <= Cardinality(ProtectiveIn(KnownWith(r, kn), os))
    BY <1>1, ProtectiveFinite
  <1>3. Limited(s, os, kn)
    BY <1>0, <1>1, <1>2 DEF Limited, Rows
  <1> QED BY <1>3 DEF s

(* The orders a row has known keep their kinds.                            *)
LEMMA LimitedLater ==
    ASSUME NEW r, NEW os, NEW ot, NEW kn, Limited(r, os, kn),
           \A o \in KnownWith(r, kn) : ot[o].kind = os[o].kind
    PROVE  Limited(r, ot, kn)
  <1>1. ProtectiveIn(KnownWith(r, kn), ot) = ProtectiveIn(KnownWith(r, kn), os)
    BY DEF ProtectiveIn
  <1> QED BY <1>1 DEF Limited

(* A new order, later than all that were known and within the limit.       *)
LEMMA LimitedPending ==
    ASSUME NEW r \in Rows, NEW os, NEW kn \in SUBSET OrderIds, Limited(r, os, kn), ~Active(r),
           NEW o \in OrderIds, NEW kind \in Kinds, NEW n \in Contracts,
           os[o].kind = kind, \A p \in kn : p < o,
           kind = "routine" => r.count < 1, kind = "shock" => r.count < 2
    PROVE  Limited(Pending(r, o, kind, n), os, kn)
  <1> DEFINE s == Pending(r, o, kind, n)
             P == ProtectiveIn(kn, os)
             Q == ProtectiveIn(kn \cup {o}, os)
  <1>1. /\ s \in Rows /\ s.life = "PARTIAL_PENDING" /\ s.ord = o /\ s.kind = kind
        /\ s.count = r.count /\ r.count \in Nat
    BY PendingRow DEF Rows
  <1>2. KnownWith(r, kn) = kn /\ KnownWith(s, kn) = kn \cup {o}
    BY <1>1, NoneAssumption DEF KnownWith, Active
  <1>3. IsFiniteSet(P) /\ Cardinality(P) \in Nat /\ Cardinality(Q) \in Nat
    BY ProtectiveFinite
  <1>4. Cardinality(P) <= r.count /\ Cardinality(P) <= 2
    BY <1>2 DEF Limited
  <1>5. Cardinality(Q) <= IF Protective(kind) THEN Cardinality(P) + 1 ELSE Cardinality(P)
    <2>1. /\ Protective(kind) => Q = P \cup {o}
          /\ ~Protective(kind) => Q = P
      BY DEF ProtectiveIn
    <2> HIDE DEF P, Q
    <2>2. Cardinality(P \cup {o}) = IF o \in P THEN Cardinality(P) ELSE Cardinality(P) + 1
      BY <1>3, FS_AddElement, Zenon
    <2>3. CASE Protective(kind)
      BY <1>3, <2>1, <2>2, <2>3
    <2>4. CASE ~Protective(kind)
      BY <1>3, <2>1, <2>4
    <2> QED BY <2>3, <2>4
  <1>6. Protective(kind) => r.count < 2
    BY <1>1 DEF Protective
  <1>7. kind = "routine" => \A p \in kn : ~Protective(os[p].kind)
    <2> SUFFICES ASSUME kind = "routine", NEW p \in kn, Protective(os[p].kind) PROVE FALSE
      OBVIOUS
    <2>1. Cardinality(P) = 0
      BY <1>1, <1>3, <1>4
    <2>2. P = {}
      BY <1>3, <2>1, FS_EmptySet
    <2> QED BY <2>2 DEF ProtectiveIn
  <1>8. \A p, q \in kn \cup {o} : p < q /\ Protective(os[p].kind) => os[q].kind # "routine"
    <2> SUFFICES ASSUME NEW p \in kn \cup {o}, NEW q \in kn \cup {o},
                        p < q, Protective(os[p].kind)
                 PROVE  os[q].kind # "routine"
      OBVIOUS
    <2>1. p \in kn
      BY DEF OrderIds
    <2>2. CASE q \in kn
      BY <1>2, <2>1, <2>2 DEF Limited
    <2>3. CASE q = o
      BY <1>7, <2>1, <2>3
    <2> QED BY <2>2, <2>3
  <1> HIDE DEF s, Q, P
  <1>9. Cardinality(Q) <= 2 /\ Cardinality(Q) <= IF Protective(kind) THEN r.count + 1 ELSE r.count
    BY <1>1, <1>3, <1>4, <1>5, <1>6
  <1>10. Limited(s, os, kn)
    BY <1>1, <1>2, <1>8, <1>9 DEF Limited, Active, Q
  <1> QED BY <1>10 DEF s

LEMMA LimitsInit == Init => Limits
  <1> SUFFICES ASSUME Init PROVE Limits
    OBVIOUS
  <1>1. /\ known = {} /\ work = None /\ row.ord = None /\ row.count = 0
        /\ row.life = "OPEN" /\ \A o \in OrderIds : orders[o].st = "none"
    BY DEF Init
  <1>2. KnownWith(row, known) = {} /\ ProtectiveIn({}, orders) = {}
    BY <1>1 DEF KnownWith, ProtectiveIn
  <1> QED BY <1>1, <1>2, FS_EmptySet DEF Limits, Ordered, Limited

(* Only the row at work changes.                                           *)
LEMMA LimitsRowStep ==
    ASSUME Limits, UNCHANGED <<row, orders, known>>,
           work' # None => Limited(work', orders, known)
    PROVE  Limits'
  BY DEF Limits, Ordered

(* Orders fill, end or appear, in their order.                             *)
LEMMA LimitsWorldStep ==
    ASSUME Limits, IInv, UNCHANGED <<row, known>>,
           \A o \in OrderIds : orders[o].st # "none" => orders'[o].kind = orders[o].kind,
           Ordered', work' # None => Limited(work', orders', known)
    PROVE  Limits'
  <1>1. row \in Rows /\ known \in SUBSET OrderIds /\ (row.ord # None => row.ord \in known)
    BY DEF IInv, TypeOK
  <1>2. \A o \in KnownWith(row, known) : orders'[o].kind = orders[o].kind
    BY <1>1 DEF KnownWith, IInv, Fresh
  <1>3. Limited(row, orders', known)
    BY <1>2, LimitedLater DEF Limits
  <1> QED BY <1>3 DEF Limits

(* What a sane row waits for was submitted.                                *)
LEMMA WorkKinds ==
    ASSUME IInv, work # None,
           \A o \in OrderIds : orders[o].st # "none" => orders'[o].kind = orders[o].kind
    PROVE  \A o \in KnownWith(work, known) : orders'[o].kind = orders[o].kind
  <1>1. work \in Rows /\ known \in SUBSET OrderIds /\ Placed(work, orders)
    BY DEF IInv, TypeOK, Sane, SaneIn
  <1> QED BY <1>1 DEF KnownWith, IInv, Fresh, Placed, Rows

LEMMA LimitsOfOthers == ASSUME IInv, Limits, Others PROVE Limits'
  <1>1. orders \in [OrderIds -> Orders]
    BY DEF IInv, TypeOK
  <1>2. CASE \E o \in OrderIds : OrderEnds(o) \/ \E k \in 1..MaxContracts : Fill(o, k)
    <2> DEFINE Kept == \A o \in OrderIds : /\ orders'[o].kind = orders[o].kind
                                           /\ orders'[o].st = "none" <=> orders[o].st = "none"
    <2>1. UNCHANGED <<row, work, known>> /\ Kept
      <3>1. ASSUME NEW o \in OrderIds, OrderEnds(o) PROVE UNCHANGED <<row, work, known>> /\ Kept
        BY <1>1, <3>1 DEF OrderEnds, engine, files, Orders
      <3>2. ASSUME NEW o \in OrderIds, NEW k \in 1..MaxContracts, Fill(o, k)
            PROVE  UNCHANGED <<row, work, known>> /\ Kept
        BY <1>1, <3>2 DEF Fill, engine, files, Orders
      <3> QED BY <1>2, <3>1, <3>2
    <2>2. Ordered'
      BY <2>1 DEF Limits, Ordered
    <2>3. work' # None => Limited(work', orders', known)
      BY <2>1, WorkKinds, LimitedLater DEF Limits
    <2> QED BY <2>1, <2>2, <2>3, LimitsWorldStep
  <1>3. CASE OperatorTrades \/ SwitchCloseOnly \/ NewCandle
    BY <1>3 DEF OperatorTrades, SwitchCloseOnly, NewCandle, engine, files, Limits, Ordered
  <1>4. CASE Crash
    BY <1>4, LimitsRowStep DEF Crash, files
  <1> QED BY <1>2, <1>3, <1>4 DEF Others

LEMMA LimitsSave ==
    ASSUME IInv, Limits, work \in Rows, row' = work, work' = None, Saved, UNCHANGED orders
    PROVE  Limits'
  <1>1. KnownWith(work, known') = KnownWith(work, known)
    BY DEF Saved, KnownWith
  <1>2. Limited(work, orders, known)
    BY RowIsNotNone DEF Limits
  <1>3. Limited(work, orders, known')
    BY <1>1, <1>2 DEF Limited
  <1> QED BY <1>3 DEF Limits, Ordered

LEMMA LimitsOfReconcile == ASSUME IInv, Limits, BeginTick \/ Reconcile \/ Scan PROVE Limits'
  <1>1. TypeOK
    BY DEF IInv
  <1>2. CASE BeginTick \/ NotDue \/ FetchFails \/ Scan \/ Fetch
    <2>1. UNCHANGED <<row, orders, known>> /\ work' \in {work, row}
      BY <1>2 DEF BeginTick, NotDue, FetchFails, Scan, Fetch, Untouched, files
    <2> QED BY <2>1, LimitsRowStep DEF Limits
  <1>3. CASE Save
    <2>1. work \in Rows
      BY <1>1, <1>3 DEF Save, TypeOK
    <2> QED BY <1>3, <2>1, LimitsSave DEF Save, env
  <1>4. CASE VisitOpen
    <2>1. work \in Rows /\ remote \in Contracts /\ Limited(work, orders, known)
      BY <1>1, <1>4, RowIsNotNone DEF VisitOpen, TypeOK, Limits
    <2>2. Limited(Compared(work, remote), orders, known)
      BY <2>1, ComparedRow, LimitedCopy
    <2> QED BY <1>4, <2>2, LimitsRowStep DEF VisitOpen, Visited
  <1>5. ASSUME NEW o \in OrderIds,
               PollFilled(o) \/ PollPart(o) \/ PollEnded(o) \/ PollKept(o) \/ PollTimeout(o)
        PROVE  Limits'
    <2>1. /\ pc = "visit" /\ work.life = "PARTIAL_PENDING" /\ work.ord = o
          /\ UNCHANGED <<row, orders, known>>
      BY <1>5 DEF PollFilled, PollPart, PollEnded, PollKept, PollTimeout, Waits, Visited
    <2>2. /\ work \in Rows /\ remote \in Contracts /\ orders \in [OrderIds -> Orders]
          /\ known \in SUBSET OrderIds
      BY <1>1, <2>1 DEF TypeOK
    <2>3. Limited(work, orders, known) /\ work.pend > 0
      BY <2>1, <2>2, RowIsNotNone DEF Limits, IInv, Sane, SaneIn, Waiting
    <2>4. CASE PollFilled(o)
      <3> DEFINE b == Booked(work, o)
      <3>1. b \in Rows /\ b.life = "PARTIAL_PENDING" /\ Limited(b, orders, known)
        BY <2>1, <2>2, <2>3, <2>4, BookedRow, LimitedCopy DEF PollFilled
      <3> HIDE DEF b
      <3>2. Finished(b) \in Rows /\ Limited(Finished(b), orders, known)
        BY <2>2, <3>1, FinishedRow, LimitedFinished
      <3>3. Limited(ComparedPending(Finished(b), remote), orders, known)
        BY <2>2, <3>2, ComparedPendingRow, LimitedCopy
      <3> QED BY <2>1, <2>4, <3>3, LimitsRowStep DEF PollFilled, Visited, b
    <2>5. CASE PollPart(o)
      <3>1. Limited(Booked(work, o), orders, known)
        BY <2>2, <2>3, <2>5, BookedRow, LimitedCopy DEF PollPart
      <3> QED BY <2>1, <2>5, <3>1, LimitsRowStep DEF PollPart, Visited
    <2>6. Released(work) \in Rows /\ Limited(Released(work), orders, known)
      <3>1. /\ Released(work) \in Rows /\ Released(work).ord = None
            /\ Released(work).life = "OPEN" /\ Released(work).count = work.count
            /\ Active(Released(work))
        BY <2>2, <2>3, ReleasedRow DEF Active
      <3> QED BY <2>2, <2>3, <3>1, LimitedLess
    <2>7. CASE PollEnded(o) \/ PollKept(o)
      BY <2>1, <2>3, <2>6, <2>7, LimitsRowStep DEF PollEnded, PollKept, Visited
    <2>8. CASE PollTimeout(o)
      <3>1. Limited(Synced(Released(work), remote), orders, known)
        BY <2>2, <2>6, SyncedRow, LimitedCopy
      <3> QED BY <2>1, <2>8, <3>1, LimitsRowStep DEF PollTimeout, Visited
    <2> QED BY <1>5, <2>4, <2>5, <2>7, <2>8
  <1> QED BY <1>2, <1>3, <1>4, <1>5 DEF Reconcile

LEMMA LimitsSubmit ==
    ASSUME IInv, Limits, NEW o \in OrderIds, NEW kind \in Kinds, NEW n \in 1..MaxContracts,
           NEW r \in Rows, Limited(r, orders, known), ~Active(r),
           NEW refused \in Rows, Limited(refused, orders, known), refused.ord = r.ord,
           kind = "routine" => r.count < 1, kind = "shock" => r.count < 2,
           Submitted(o, kind, n, Pending(r, o, kind, n), refused),
           UNCHANGED <<files, known>>
    PROVE  Limits'
  <1>1. UNCHANGED row /\ n \in Contracts
    BY ReduceAssumption DEF files, Contracts
  <1>2. CASE UNCHANGED orders /\ work' = refused
    BY <1>1, <1>2, LimitsRowStep
  <1>3. CASE NewOrder(o, kind, n) /\ work' \in {refused, Pending(r, o, kind, n)}
    <2>1. orders \in [OrderIds -> Orders] /\ known \in SUBSET OrderIds
      BY DEF IInv, TypeOK
    <2>2. /\ orders[o].st = "none" /\ \A p \in OrderIds : p < o => orders[p].st # "none"
          /\ orders'[o].kind = kind /\ orders'[o].st = "live"
          /\ \A q \in OrderIds : q # o => orders'[q] = orders[q]
      BY <1>3, <2>1 DEF NewOrder
    <2>3. Ordered'
      BY <2>2 DEF Limits, Ordered, OrderIds
    <2>4. \A p \in known : p < o /\ p # o
      BY <2>1, <2>2 DEF Limits, Ordered, IInv, Fresh, OrderIds
    <2>5. \A p \in known : orders'[p].kind = orders[p].kind
      BY <2>1, <2>2, <2>4
    <2>6. KnownWith(r, known) = known /\ KnownWith(refused, known) = known
      BY DEF KnownWith, Active
    <2>7. Limited(r, orders', known) /\ Limited(refused, orders', known)
      BY <2>5, <2>6, LimitedLater
    <2>8. Limited(Pending(r, o, kind, n), orders', known)
      BY <1>1, <2>1, <2>2, <2>4, <2>7, LimitedPending
    <2>9. \A q \in OrderIds : orders[q].st # "none" => orders'[q].kind = orders[q].kind
      BY <2>2
    <2> QED BY <1>1, <1>3, <2>3, <2>7, <2>8, <2>9, LimitsWorldStep
  <1> QED BY <1>2, <1>3 DEF Submitted, Ready

LEMMA LimitsOfClosePass == ASSUME IInv, Limits, ClosePass PROVE Limits'
  <1> DEFINE r == Marked(row)
  <1>1. TypeOK /\ candle \in 0..MaxCandle /\ row \in Rows /\ known \in SUBSET OrderIds
    BY DEF IInv, TypeOK
  <1>2. r \in Rows /\ r.ord = row.ord /\ r.pend = row.pend /\ r.kind = row.kind
        /\ r.count = row.count /\ r.life \in {"OPEN", row.life}
    BY <1>1, MarkedRow
  <1> HIDE DEF r
  <1>3. Limited(r, orders, known)
    <2>1. CASE r.life = row.life
      BY <1>2, <2>1, LimitedCopy DEF Limits
    <2>2. CASE r.life = "OPEN"
      <3>1. row.life = "PARTIAL_PENDING" => row.ord # None
        BY DEF IInv, Sane, SaneIn, Waiting
      <3>2. ~Active(r) => ~Active(row)
        BY <1>2, <3>1 DEF Active
      <3> QED BY <1>1, <1>2, <2>2, <3>2, LimitedLess DEF Limits
    <2> QED BY <1>2, <2>1, <2>2
  <1>4. CASE Hold
    BY <1>3, <1>4, LimitsRowStep DEF Hold, Ready, files, env, r
  <1>5. CASE WriteBack
    <2>1. work \in Rows
      BY <1>1, <1>5 DEF WriteBack, TypeOK
    <2> QED BY <1>5, <2>1, LimitsSave DEF WriteBack, env
  <1>6. ASSUME NEW o \in OrderIds, NEW n \in 1..MaxContracts, SubmitTp1(o, n) PROVE Limits'
    <2>1. /\ ~Active(r) /\ Submitted(o, "tp1", n, Pending(r, o, "tp1", n), r)
          /\ UNCHANGED <<files, known>>
      BY <1>6 DEF SubmitTp1, SubmitAllowed, r
    <2> QED BY <1>2, <1>3, <2>1, LimitsSubmit DEF Kinds
  <1>7. ASSUME NEW o \in OrderIds, NEW n \in 1..MaxContracts, NEW kind \in Kinds,
               SubmitPartial(o, kind, n)
        PROVE  Limits'
    <2> DEFINE sent == [[r EXCEPT !.candle = candle] EXCEPT !.sent = TRUE]
               unsent == [[r EXCEPT !.candle = candle] EXCEPT !.sent = FALSE]
    <2>1. /\ ~Active(r) /\ UNCHANGED <<files, known>> /\ WithinLimit(r, kind)
          /\ \/ Submitted(o, kind, n, Pending(sent, o, kind, n), unsent)
             \/ UNCHANGED orders /\ Ready(unsent)
      BY <1>7 DEF SubmitPartial, SubmitAllowed, r
    <2>2. /\ sent \in Rows /\ sent.life = r.life /\ sent.ord = r.ord /\ sent.pend = r.pend
          /\ sent.kind = r.kind /\ sent.count = r.count
          /\ unsent \in Rows /\ unsent.life = r.life /\ unsent.ord = r.ord
          /\ unsent.pend = r.pend /\ unsent.kind = r.kind /\ unsent.count = r.count
      BY <1>1, <1>2, AskedRow
    <2> HIDE DEF sent, unsent
    <2>3. /\ Limited(sent, orders, known) /\ Limited(unsent, orders, known)
          /\ ~Active(sent)
      BY <1>3, <2>1, <2>2, LimitedCopy DEF Active
    <2>4. /\ kind = "routine" => sent.count < 1
          /\ kind = "shock" => sent.count < 2
      BY <2>1, <2>2 DEF WithinLimit
    <2>5. CASE Submitted(o, kind, n, Pending(sent, o, kind, n), unsent)
      BY <2>1, <2>2, <2>3, <2>4, <2>5, LimitsSubmit
    <2>6. CASE UNCHANGED orders /\ Ready(unsent)
      BY <2>1, <2>3, <2>6, LimitsRowStep DEF Ready, files
    <2> QED BY <2>1, <2>5, <2>6
  <1> QED BY <1>4, <1>5, <1>6, <1>7 DEF ClosePass

LEMMA LimitsStep == IInv /\ Limits /\ [Next]_vars => Limits'
  <1> SUFFICES ASSUME IInv, Limits, [Next]_vars PROVE Limits'
    OBVIOUS
  <1>1. CASE Next
    BY <1>1, LimitsOfReconcile, LimitsOfClosePass, LimitsOfOthers DEF Next, Tick
  <1>2. CASE UNCHANGED vars
    BY <1>2 DEF vars, engine, files, env, Limits, Ordered
  <1> QED BY <1>1, <1>2

(* Of the orders the ledger has known at most two are protective, and only *)
(* the first may be routine: the count on the row is never behind, however *)
(* orders end, time out or are taken over.                                 *)
THEOREM LimitIsKept == Spec => []LimitHolds
  <1>1. IInv /\ Limits => LimitHolds
    <2> SUFFICES ASSUME IInv, Limits PROVE LimitHolds
      OBVIOUS
    <2>1. KnownWith(row, known) = known
      BY DEF KnownWith, IInv
    <2> QED BY <2>1 DEF Limits, Limited, ProtectiveIn, LimitHolds
  <1> QED BY <1>1, LimitsInit, LimitsStep, Inductive, PTL DEF Spec
=============================================================================

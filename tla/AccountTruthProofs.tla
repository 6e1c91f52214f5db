------------------------- MODULE AccountTruthProofs -------------------------
(* Theorems about AccountTruth, for every size of page, number of pages,   *)
(* overlap, window, number of fills and of faults.                         *)
EXTENDS AccountTruth, FiniteSetTheorems, WellFoundedInduction, TLAPS

-----------------------------------------------------------------------------
(* The inductive invariant.                                                *)

HasLocals(l) ==
    DOMAIN l = {"base", "old", "from", "begin", "after", "pages", "got", "cut"}

Typed ==
    /\ now \in Nat /\ cursor \in Nat /\ cursor <= now
    /\ IsFiniteSet(executed) /\ shown \subseteq executed /\ raw \subseteq shown
    /\ \A f \in executed : f.id \in Nat \ {0} /\ f.time \in Nat
    /\ at \in [Syncs -> Steps]
    /\ sync = [s \in Syncs |-> sync[s]]
    /\ \A s \in Syncs :
          /\ HasLocals(sync[s])
          /\ sync[s].after \in Nat /\ sync[s].begin \in Int /\ sync[s].from \in Nat
    /\ truncated \in BOOLEAN

(* Fills come in the order of their ids, and are shown in time.            *)
InOrder ==
    /\ \A f \in executed : f.time <= now /\ f.id <= Cardinality(executed)
    /\ \A f, g \in executed : f.id < g.id => f.time <= g.time
    /\ \A f \in executed \ shown : now <= f.time + Lag

Alone == \A r, s \in Syncs : ~Idle(r) /\ ~Idle(s) => r = s

(* What a running sync has read is what the disk has.                      *)
Current(s) ==
    /\ sync[s].base \subseteq shown /\ sync[s].got \subseteq shown
    /\ sync[s].from = cursor /\ sync[s].begin <= Begin(cursor)
    /\ at[s] \in {"read", "saveFills"} => sync[s].base = raw
    /\ at[s] \in {"saveTrades", "saveCursor"} => raw = Merged(s)

(* A fill that appeared while pages were read is not much older than those *)
(* that were read.                                                         *)
Late(f, S) == \A g \in S : f.time >= g.time - Overlap

(* The fills from the id i up that the sync asked for are read, except late*)
(* ones; those stored before are read again.                               *)
ReadFrom(s, i) ==
    /\ \A f \in shown : f.time >= sync[s].begin /\ f.id >= i
                        => f \in sync[s].got \/ Late(f, sync[s].got)
    /\ \A f \in sync[s].base : f.time >= sync[s].begin /\ f.id >= i
                               => f \in sync[s].got

Reading(s) ==
    at[s] = "read" =>
        \/ sync[s].after = 0 /\ sync[s].got = {}
        \/ /\ sync[s].after # 0 /\ ReadFrom(s, sync[s].after)
           /\ \E g \in sync[s].got : g.id = sync[s].after

Complete(s) ==
    /\ at[s] = "saveFills" => sync[s].cut \/ ReadFrom(s, 0)
    /\ at[s] \in {"saveTrades", "saveCursor"} => truncated \/ ReadFrom(s, 0)

SyncInv(s) == ~Idle(s) => Current(s) /\ Reading(s) /\ Complete(s)

(* The property, in the terms the steps change.                            *)
Reachable(f) == f.time < now - Window \/ cursor = 0 \/ f.time >= cursor - Overlap
Kept == truncated \/ \A f \in shown \ raw : Reachable(f)

IInv == Typed /\ InOrder /\ Alone /\ (\A s \in Syncs : SyncInv(s)) /\ Kept

-----------------------------------------------------------------------------
LEMMA BeginMeans ==
    ASSUME NEW t \in Nat, now \in Nat, cursor \in Nat
    PROVE  /\ Begin(cursor) \in Int
           /\ (t >= Begin(cursor) \/ t < now - Window)
              <=> (t < now - Window \/ cursor = 0 \/ t >= cursor - Overlap)
  BY ConstantsAssumption DEF Begin

LEMMA KeptIsProperty == ASSUME Typed, Kept PROVE NoFillBehindCursor
<1> SUFFICES ASSUME ~truncated, NEW f \in shown, f \notin raw
             PROVE  f.time >= Begin(cursor) \/ f.time < now - Window
  BY DEF NoFillBehindCursor
<1>1. Reachable(f)
  BY DEF Kept
<1>2. f.time \in Nat /\ now \in Nat /\ cursor \in Nat
  BY DEF Typed
<1> QED
  BY <1>1, <1>2, BeginMeans DEF Reachable

(* One sync changes its variables, and the rest stays.                     *)
LEMMA LocalStep ==
    ASSUME IInv, NEW s \in Syncs, NEW step \in Steps, NEW l,
           HasLocals(l), l.after \in Nat, l.begin \in Int, l.from \in Nat,
           UNCHANGED <<exch, disk, truncated>>,
           at' = [at EXCEPT ![s] = step], sync' = [sync EXCEPT ![s] = l],
           \A r \in Syncs : r # s => Idle(r),
           step # "idle" => SyncInv(s)'
    PROVE  IInv'
<1>1. Typed'
  <2>1. sync'[s] = l /\ \A r \in Syncs : r # s => sync'[r] = sync[r]
    BY DEF IInv, Typed
  <2> QED
    BY <2>1 DEF IInv, Typed, exch, disk, HasLocals
<1>2. InOrder'
  BY DEF IInv, InOrder, exch
<1>3. at'[s] = step /\ \A r \in Syncs : r # s => at'[r] = "idle"
  BY DEF IInv, Typed, Idle
<1>4. Alone'
  BY <1>3 DEF Alone, Idle
<1>5. \A r \in Syncs : SyncInv(r)'
  BY <1>3 DEF SyncInv, Idle
<1>6. Kept'
  BY DEF IInv, Kept, Reachable, exch, disk
<1> QED
  BY <1>1, <1>2, <1>4, <1>5, <1>6 DEF IInv

-----------------------------------------------------------------------------
(* The steps of a sync.                                                    *)

LEMMA TriggerKeeps == ASSUME IInv, NEW s \in Syncs, Trigger(s) PROVE IInv'
<1> DEFINE l == [base |-> raw, old |-> trades, from |-> cursor, begin |-> Begin(cursor),
                 after |-> 0, pages |-> 0, got |-> {}, cut |-> FALSE]
<1>2. Begin(cursor) \in Int
  BY ConstantsAssumption DEF IInv, Typed, Begin
<1>3. at' = [at EXCEPT ![s] = "read"] /\ sync' = [sync EXCEPT ![s] = l]
  BY DEF Trigger, Goto
<1>4. sync'[s] = l /\ at'[s] = "read"
  BY <1>3 DEF IInv, Typed
<1>5. /\ l.base = raw /\ l.got = {} /\ l.from = cursor /\ l.begin = Begin(cursor)
      /\ l.after = 0 /\ HasLocals(l)
  BY DEF HasLocals
<1> HIDE DEF l
<1>6. Current(s)'
  <2>1. raw' = raw /\ shown' = shown /\ cursor' = cursor /\ now' = now
    BY DEF Trigger, exch, disk
  <2>2. Begin(cursor)' = Begin(cursor)
    BY <2>1 DEF Begin
  <2>3. /\ sync'[s].base = raw' /\ sync'[s].got = {}
        /\ sync'[s].from = cursor' /\ sync'[s].begin = Begin(cursor)'
    BY <1>4, <1>5, <2>1, <2>2
  <2>4. sync'[s].base \subseteq shown' /\ sync'[s].got \subseteq shown'
    BY <2>1, <2>3 DEF IInv, Typed
  <2>5. sync'[s].begin <= Begin(cursor)'
    BY <2>2, <2>3, <1>2
  <2> QED
    BY <1>4, <2>3, <2>4, <2>5 DEF Current
<1>7. Reading(s)' /\ Complete(s)'
  BY <1>4, <1>5 DEF Reading, Complete
<1>8. \A r \in Syncs : Idle(r)
  BY DEF Trigger, NoneInFlight
<1>9. UNCHANGED <<exch, disk, truncated>>
  BY DEF Trigger
<1>10. SyncInv(s)'
  BY <1>6, <1>7 DEF SyncInv
<1>11. l.after \in Nat /\ l.begin \in Int /\ l.from \in Nat /\ "read" \in Steps
  BY <1>2, <1>5 DEF IInv, Typed, Steps
<1> QED
  BY <1>3, <1>5, <1>8, <1>9, <1>10, <1>11, LocalStep

(* Reading the fills P of those unread, from the id i up, and being done   *)
(* or going on from there.                                                 *)
LEMMA PageKeepsReading ==
    ASSUME IInv, NEW s \in Syncs, at[s] = "read",
           NEW i \in Nat, NEW P, P = FromUp(Unread(sync[s]), i),
           UNCHANGED <<exch, disk, truncated>>,
           sync'[s].base = sync[s].base, sync'[s].begin = sync[s].begin,
           sync'[s].got = sync[s].got \cup P
    PROVE  ReadFrom(s, i)'
<1> USE DEF exch, disk
<1>1. /\ Typed /\ InOrder /\ Current(s) /\ Reading(s)
  BY DEF IInv, SyncInv, Idle
<1>2. sync[s].after \in Nat /\ sync[s].begin \in Int
  BY <1>1 DEF Typed
<1>3. \A f \in shown : f \in executed /\ f.id \in Nat /\ f.time \in Nat
  BY <1>1 DEF Typed
<1>4. ASSUME NEW f \in shown, f.time >= sync[s].begin, f.id >= i,
             sync[s].after = 0 \/ f.id < sync[s].after
      PROVE  f \in P
  BY <1>4 DEF FromUp, Unread
<1>5. CASE sync[s].after = 0
  <2>1. \A f \in shown : f.time >= sync[s].begin /\ f.id >= i => f \in P
    BY <1>4, <1>5
  <2>2. sync[s].base \subseteq shown
    BY <1>1 DEF Current
  <2> QED
    BY <2>1, <2>2 DEF ReadFrom
<1>6. CASE sync[s].after # 0
  <2>1. ReadFrom(s, sync[s].after)
    BY <1>1, <1>6 DEF Reading
  <2>2. PICK g \in sync[s].got : g.id = sync[s].after
    BY <1>1, <1>6 DEF Reading
  <2>3. g \in shown
    BY <1>1 DEF Current
  <2>4. ASSUME NEW f, Late(f, sync[s].got), f \in shown PROVE Late(f, sync[s].got \cup P)
    <3>1. f.time >= g.time - Overlap
      BY <2>4 DEF Late
    <3>2. ASSUME NEW p \in P PROVE f.time >= p.time - Overlap
      <4>1. p \in shown /\ p.id < g.id
        BY <1>6, <2>2 DEF FromUp, Unread
      <4>2. p.time <= g.time
        BY <4>1, <2>3, <1>1, <1>3 DEF InOrder
      <4> QED
        BY <3>1, <4>1, <4>2, <2>3, <2>4, <1>3, ConstantsAssumption
    <3> QED
      BY <2>4, <3>2 DEF Late
  <2>5. ASSUME NEW f \in shown, f.time >= sync[s].begin, f.id >= i
        PROVE  f \in sync[s].got \cup P \/ Late(f, sync[s].got \cup P)
    <3>1. CASE f.id < sync[s].after
      BY <2>5, <3>1, <1>4
    <3>2. CASE f.id >= sync[s].after
      BY <2>5, <3>2, <2>1, <2>4 DEF ReadFrom
    <3> QED
      BY <3>1, <3>2, <1>2, <1>3
  <2>6. ASSUME NEW f \in sync[s].base, f.time >= sync[s].begin, f.id >= i
        PROVE  f \in sync[s].got \cup P
    <3>1. f \in shown
      BY <1>1 DEF Current
    <3>2. CASE f.id < sync[s].after
      BY <2>6, <3>1, <3>2, <1>4
    <3>3. CASE f.id >= sync[s].after
      BY <2>6, <3>3, <2>1 DEF ReadFrom
    <3> QED
      BY <3>1, <3>2, <3>3, <1>2, <1>3
  <2> QED
    BY <2>5, <2>6 DEF ReadFrom, Late
<1> QED
  BY <1>5, <1>6

LEMMA OnlyOneRuns ==
    ASSUME IInv, NEW s \in Syncs, ~Idle(s)
    PROVE  \A r \in Syncs : r # s => Idle(r)
  BY DEF IInv, Alone

LEMMA ReadLastPageKeeps == ASSUME IInv, NEW s \in Syncs, ReadLastPage(s) PROVE IInv'
<1> DEFINE P == Unread(sync[s])
           l == [sync[s] EXCEPT !.got = @ \cup P]
<1>1. at[s] = "read" /\ Current(s) /\ HasLocals(sync[s])
  BY DEF ReadLastPage, IInv, SyncInv, Idle, Typed
<1>2. /\ l.base = sync[s].base /\ l.got = sync[s].got \cup P /\ l.from = sync[s].from
      /\ l.begin = sync[s].begin /\ l.after = sync[s].after /\ l.cut = sync[s].cut
      /\ HasLocals(l)
  BY <1>1 DEF HasLocals
<1>3. UNCHANGED <<exch, disk, truncated>>
  BY DEF ReadLastPage
<1>4. at' = [at EXCEPT ![s] = "saveFills"] /\ sync' = [sync EXCEPT ![s] = l]
  BY DEF ReadLastPage, Goto
<1>5. sync'[s] = l /\ at'[s] = "saveFills"
  BY <1>4 DEF IInv, Typed
<1>6. P = FromUp(Unread(sync[s]), 0)
  BY DEF FromUp, Unread, IInv, Typed
<1>7. P \subseteq shown
  BY DEF Unread
<1> HIDE DEF l, P
<1>8. ReadFrom(s, 0)'
  BY <1>1, <1>2, <1>3, <1>5, <1>6, PageKeepsReading
<1>9. Current(s)'
  BY <1>1, <1>2, <1>3, <1>5, <1>7 DEF Current, Begin, exch, disk
<1>10. SyncInv(s)'
  BY <1>5, <1>8, <1>9 DEF SyncInv, Reading, Complete
<1>11. l.after \in Nat /\ l.begin \in Int /\ l.from \in Nat /\ "saveFills" \in Steps
  BY <1>2 DEF IInv, Typed, Steps
<1>12. \A r \in Syncs : r # s => Idle(r)
  BY <1>1, OnlyOneRuns DEF Idle
<1> QED
  BY <1>2, <1>3, <1>4, <1>10, <1>11, <1>12, LocalStep


(* After a full page: its oldest fill is the one the next begins behind,   *)
(* unless there is to be no next, and then the sync is cut short.          *)
LEMMA ReadFullPageKeeps == ASSUME IInv, NEW s \in Syncs, ReadFullPage(s) PROVE IInv'
<1>1. at[s] = "read" /\ Current(s) /\ HasLocals(sync[s])
  BY DEF ReadFullPage, IInv, SyncInv, Idle, Typed
<1>2. PICK last \in Unread(sync[s]) :
         LET page == FromUp(Unread(sync[s]), last.id)
             end  == LastAllowed(sync[s])
         IN  /\ sync' = [sync EXCEPT ![s] =
                           [sync[s] EXCEPT !.got = sync[s].got \cup page,
                              !.after = last.id, !.pages = sync[s].pages + 1,
                              !.cut = end]]
             /\ at' = [at EXCEPT ![s] = IF end THEN "saveFills" ELSE "read"]
  BY DEF ReadFullPage, Goto
<1> DEFINE P == FromUp(Unread(sync[s]), last.id)
           end == LastAllowed(sync[s])
           step == IF end THEN "saveFills" ELSE "read"
           l == [sync[s] EXCEPT !.got = @ \cup P, !.after = last.id,
                                !.pages = @ + 1, !.cut = end]
<1>3. /\ l.base = sync[s].base /\ l.got = sync[s].got \cup P /\ l.from = sync[s].from
      /\ l.begin = sync[s].begin /\ l.after = last.id /\ l.cut = end
  BY <1>1 DEF HasLocals
<1>4. HasLocals(l)
  BY <1>1 DEF HasLocals
<1>5. at' = [at EXCEPT ![s] = step] /\ sync' = [sync EXCEPT ![s] = l]
  BY <1>2
<1>6. last \in P /\ last \in shown /\ P \subseteq shown /\ last.id \in Nat \ {0}
  BY DEF FromUp, Unread, IInv, Typed
<1> HIDE DEF l, P, end
<1>7. UNCHANGED <<exch, disk, truncated>>
  BY DEF ReadFullPage
<1>8. sync'[s] = l /\ at'[s] = step
  BY <1>5 DEF IInv, Typed
<1>9. ReadFrom(s, last.id)'
  <2>1. P = FromUp(Unread(sync[s]), last.id)
    BY DEF P
  <2> QED
    BY <2>1, <1>1, <1>3, <1>6, <1>7, <1>8, PageKeepsReading
<1>10. Current(s)'
  BY <1>1, <1>3, <1>6, <1>7, <1>8 DEF Current, Begin, exch, disk
<1>11. Reading(s)'
  BY <1>3, <1>6, <1>8, <1>9 DEF Reading, ReadFrom
<1>12. Complete(s)'
  BY <1>3, <1>8 DEF Complete
<1>13. SyncInv(s)'
  BY <1>10, <1>11, <1>12 DEF SyncInv
<1>14. l.after \in Nat /\ l.begin \in Int /\ l.from \in Nat /\ step \in Steps
  BY <1>3, <1>6 DEF IInv, Typed, Steps
<1>15. \A r \in Syncs : r # s => Idle(r)
  BY <1>1, OnlyOneRuns DEF Idle
<1> QED
  BY <1>4, <1>5, <1>7, <1>13, <1>14, <1>15, LocalStep

LEMMA ReadUnmarkedPageKeeps ==
    ASSUME IInv, NEW s \in Syncs, ReadUnmarkedPage(s) PROVE IInv'
<1>1. at[s] = "read" /\ Current(s) /\ HasLocals(sync[s])
  BY DEF ReadUnmarkedPage, IInv, SyncInv, Idle, Typed
<1>2. PICK last \in Unread(sync[s]) :
         sync' = [sync EXCEPT ![s] =
                    [sync[s] EXCEPT
                       !.got = sync[s].got \cup FromUp(Unread(sync[s]), last.id),
                       !.cut = TRUE]]
  BY DEF ReadUnmarkedPage
<1> DEFINE P == FromUp(Unread(sync[s]), last.id)
           l == [sync[s] EXCEPT !.got = @ \cup P, !.cut = TRUE]
<1>3. /\ l.base = sync[s].base /\ l.got = sync[s].got \cup P /\ l.from = sync[s].from
      /\ l.begin = sync[s].begin /\ l.after = sync[s].after /\ l.cut = TRUE
  BY <1>1 DEF HasLocals
<1>4. HasLocals(l)
  BY <1>1 DEF HasLocals
<1>5. at' = [at EXCEPT ![s] = "saveFills"] /\ sync' = [sync EXCEPT ![s] = l]
  BY <1>2 DEF ReadUnmarkedPage, Goto
<1>6. P \subseteq shown
  BY DEF FromUp, Unread
<1> HIDE DEF l, P
<1>7. UNCHANGED <<exch, disk, truncated>>
  BY DEF ReadUnmarkedPage
<1>8. sync'[s] = l /\ at'[s] = "saveFills"
  BY <1>5 DEF IInv, Typed
<1>9. Current(s)'
  BY <1>1, <1>3, <1>6, <1>7, <1>8 DEF Current, Begin, exch, disk
<1>10. SyncInv(s)'
  BY <1>3, <1>8, <1>9 DEF SyncInv, Reading, Complete
<1>11. l.after \in Nat /\ l.begin \in Int /\ l.from \in Nat /\ "saveFills" \in Steps
  BY <1>3 DEF IInv, Typed, Steps
<1>12. \A r \in Syncs : r # s => Idle(r)
  BY <1>1, OnlyOneRuns DEF Idle
<1> QED
  BY <1>4, <1>5, <1>7, <1>10, <1>11, <1>12, LocalStep

LEMMA AbandonKeeps == ASSUME IInv, NEW s \in Syncs, Abandon(s) PROVE IInv'
<1>1. HasLocals(NoSync) /\ NoSync.after \in Nat /\ NoSync.begin \in Int /\ NoSync.from \in Nat
  BY DEF HasLocals, NoSync
<1>2. at' = [at EXCEPT ![s] = "idle"] /\ sync' = [sync EXCEPT ![s] = NoSync]
  BY DEF Abandon, Goto
<1>3. \A r \in Syncs : r # s => Idle(r)
  BY OnlyOneRuns DEF Abandon
<1>4. UNCHANGED <<exch, disk, truncated>> /\ "idle" \in Steps
  BY DEF Abandon, Steps
<1> QED
  BY <1>1, <1>2, <1>3, <1>4, LocalStep

LEMMA SaveFillsKeeps == ASSUME IInv, NEW s \in Syncs, SaveFills(s) PROVE IInv'
<1>1. /\ at[s] = "saveFills" /\ raw' = Merged(s)
      /\ at' = [at EXCEPT ![s] = "saveTrades"]
      /\ truncated' = (truncated \/ sync[s].cut)
      /\ UNCHANGED <<now, executed, shown, cursor, sync>>
  BY DEF SaveFills, Goto, exch
<1>2. Typed /\ Current(s) /\ Complete(s)
  BY <1>1 DEF IInv, SyncInv, Idle
<1>3. at'[s] = "saveTrades" /\ \A r \in Syncs : r # s => at'[r] = "idle"
  BY <1>1, <1>2, OnlyOneRuns DEF Idle, Typed
<1>4. Merged(s) \subseteq shown /\ raw \subseteq Merged(s)
  BY <1>1, <1>2 DEF Current, Merged
<1>5. Typed'
  BY <1>1, <1>2, <1>4 DEF Typed, Steps
<1>6. InOrder'
  BY <1>1 DEF IInv, InOrder
<1>7. Alone'
  BY <1>3 DEF Alone, Idle
<1>8. Current(s)'
  BY <1>1, <1>2, <1>3, <1>4 DEF Current, Merged, Begin
<1>9. Complete(s)'
  BY <1>1, <1>2, <1>3 DEF Complete, ReadFrom, Late
<1>10. \A r \in Syncs : SyncInv(r)'
  BY <1>3, <1>8, <1>9 DEF SyncInv, Reading, Idle
<1>11. Kept'
  BY <1>1, <1>4 DEF IInv, Kept, Reachable
<1> QED
  BY <1>5, <1>6, <1>7, <1>10, <1>11 DEF IInv

LEMMA SaveTradesKeeps == ASSUME IInv, NEW s \in Syncs, SaveTrades(s) PROVE IInv'
<1>1. /\ at[s] = "saveTrades" /\ at' = [at EXCEPT ![s] = "saveCursor"]
      /\ UNCHANGED <<now, executed, shown, raw, cursor, sync, truncated>>
  BY DEF SaveTrades, Goto, exch
<1>2. Typed /\ Current(s) /\ Complete(s)
  BY <1>1 DEF IInv, SyncInv, Idle
<1>3. at'[s] = "saveCursor" /\ \A r \in Syncs : r # s => at'[r] = "idle"
  BY <1>1, <1>2, OnlyOneRuns DEF Idle, Typed
<1>4. Typed'
  BY <1>1, <1>2 DEF Typed, Steps
<1>5. InOrder' /\ Kept'
  BY <1>1 DEF IInv, InOrder, Kept, Reachable
<1>6. Alone'
  BY <1>3 DEF Alone, Idle
<1>7. Current(s)' /\ Complete(s)'
  BY <1>1, <1>2, <1>3 DEF Current, Complete, Merged, Begin, ReadFrom, Late
<1>8. \A r \in Syncs : SyncInv(r)'
  BY <1>3, <1>7 DEF SyncInv, Reading, Idle
<1> QED
  BY <1>4, <1>5, <1>6, <1>8 DEF IInv

(* The cursor moves to the last fill that is stored; one that is not was   *)
(* late, or is older than the sync asked for.                              *)
LEMMA SaveCursorKeeps == ASSUME IInv, NEW s \in Syncs, SaveCursor(s) PROVE IInv'
<1>1. /\ at[s] = "saveCursor" /\ cursor' \in {sync[s].from} \cup Times(Merged(s))
      /\ at' = [at EXCEPT ![s] = "idle"] /\ sync' = [sync EXCEPT ![s] = NoSync]
      /\ UNCHANGED <<now, executed, shown, raw, truncated>>
  BY DEF SaveCursor, Goto, exch
<1>2. /\ Typed /\ InOrder /\ Kept /\ Current(s) /\ Complete(s)
      /\ raw = Merged(s) /\ sync[s].from = cursor
  BY <1>1 DEF IInv, SyncInv, Idle, Current
<1>3. \A r \in Syncs : at'[r] = "idle"
  BY <1>1, <1>2, OnlyOneRuns DEF Idle, Typed
<1>4. \A f \in shown : f \in executed /\ f.time \in Nat /\ f.time <= now
  BY <1>2 DEF Typed, InOrder
<1>5. cursor' = cursor \/ \E g \in raw : cursor' = g.time
  BY <1>1, <1>2 DEF Times
<1>6. cursor' \in Nat /\ cursor' <= now
  BY <1>2, <1>4, <1>5 DEF Typed
<1>7. Typed'
  <2>1. HasLocals(NoSync) /\ NoSync.after \in Nat /\ NoSync.begin \in Int /\ NoSync.from \in Nat
    BY DEF HasLocals, NoSync
  <2>2. \A r \in Syncs : sync'[r] = IF r = s THEN NoSync ELSE sync[r]
    BY <1>1, <1>2 DEF Typed
  <2>3. at' \in [Syncs -> Steps] /\ sync' = [r \in Syncs |-> sync'[r]]
    BY <1>1, <1>2 DEF Typed, Steps
  <2> QED
    BY <2>1, <2>2, <2>3, <1>1, <1>2, <1>6 DEF Typed
<1>8. InOrder'
  BY <1>1, <1>2 DEF InOrder
<1>9. Alone' /\ \A r \in Syncs : SyncInv(r)'
  BY <1>3 DEF Alone, SyncInv, Idle
<1>10. Kept'
  <2> SUFFICES ASSUME ~truncated, NEW f \in shown, f \notin raw
               PROVE  Reachable(f)'
    BY <1>1 DEF Kept
  <2>1. ReadFrom(s, 0) /\ Reachable(f)
    BY <1>1, <1>2 DEF Complete, Kept
  <2>2. now \in Nat /\ cursor \in Nat /\ sync[s].begin \in Int
    BY <1>2 DEF Typed
  <2>3. CASE cursor' = cursor
    BY <2>1, <2>3, <1>1 DEF Reachable
  <2>4. CASE f.time < sync[s].begin
    <3>1. sync[s].begin <= Begin(cursor) /\ Begin(cursor) \in Int
      BY <2>2, <1>2, BeginMeans DEF Current
    <3>2. ~(f.time >= Begin(cursor))
      BY <3>1, <2>2, <2>4, <1>4
    <3>3. f.time < now - Window
      BY <3>2, <2>1, <2>2, <1>4, BeginMeans DEF Reachable
    <3> QED
      BY <3>3, <1>1 DEF Reachable
  <2>5. CASE f.time >= sync[s].begin /\ \E g \in raw : cursor' = g.time
    <3>1. PICK g \in raw : cursor' = g.time
      BY <2>5
    <3>2. g \in shown /\ g \in executed /\ g.id \in Nat /\ f.id \in Nat
      BY <1>2 DEF Typed
    <3>3. Late(f, sync[s].got)
      BY <2>1, <2>5, <1>2, <3>2 DEF ReadFrom, Merged
    <3>4. CASE g \in sync[s].got
      BY <3>1, <3>3, <3>4 DEF Late, Reachable
    <3>5. CASE g \in sync[s].base /\ g \notin sync[s].got
      <4>1. ~(g.time >= sync[s].begin)
        BY <3>2, <3>5, <2>1 DEF ReadFrom
      <4>2. f.time >= g.time - Overlap
        BY <4>1, <2>2, <2>5, <3>2, <1>4, ConstantsAssumption
      <4> QED
        BY <4>2, <3>1 DEF Reachable
    <3> QED
      BY <3>4, <3>5, <1>2 DEF Merged
  <2> QED
    BY <2>2, <2>3, <2>4, <2>5, <1>4, <1>5
<1> QED
  BY <1>7, <1>8, <1>9, <1>10 DEF IInv

LEMMA CrashKeeps == ASSUME IInv, Crash PROVE IInv'
<1>1. /\ at' = [r \in Syncs |-> "idle"] /\ sync' = [r \in Syncs |-> NoSync]
      /\ UNCHANGED <<now, executed, shown, raw, cursor, truncated>>
  BY DEF Crash, exch, disk
<1>2. HasLocals(NoSync) /\ NoSync.after \in Nat /\ NoSync.begin \in Int /\ NoSync.from \in Nat
  BY DEF HasLocals, NoSync
<1>3. \A r \in Syncs : at'[r] = "idle" /\ sync'[r] = NoSync
  BY <1>1
<1>4. Typed'
  BY <1>1, <1>2, <1>3 DEF IInv, Typed, Steps
<1>5. InOrder' /\ Kept'
  BY <1>1 DEF IInv, InOrder, Kept, Reachable
<1>6. Alone' /\ \A r \in Syncs : SyncInv(r)'
  BY <1>3 DEF Alone, SyncInv, Idle
<1> QED
  BY <1>4, <1>5, <1>6 DEF IInv

-----------------------------------------------------------------------------
(* The steps of the exchange.                                              *)

LEMMA ExecuteKeeps == ASSUME IInv, Execute PROVE IInv'
<1>1. PICK q \in Qtys :
         executed' = executed \cup {[id |-> Cardinality(executed) + 1,
                                     time |-> now, qty |-> q]}
  BY DEF Execute
<1> DEFINE new == [id |-> Cardinality(executed) + 1, time |-> now, qty |-> q]
<1>2. UNCHANGED <<now, shown, raw, cursor, at, sync, truncated>>
  BY DEF Execute, disk
<1>3. Typed /\ InOrder
  BY DEF IInv
<1>4. Cardinality(executed) \in Nat /\ now \in Nat
  BY <1>3, FS_CardinalityType DEF Typed
<1>5. new \notin executed /\ new.id = Cardinality(executed) + 1 /\ new.time = now
  BY <1>3, <1>4 DEF InOrder
<1> HIDE DEF new
<1>6. executed' = executed \cup {new}
  BY <1>1 DEF new
<1>7. IsFiniteSet(executed') /\ Cardinality(executed') = Cardinality(executed) + 1
  BY <1>3, <1>5, <1>6, FS_AddElement DEF Typed
<1>8. Typed'
  BY <1>2, <1>3, <1>4, <1>5, <1>6, <1>7 DEF Typed
<1>9. InOrder'
  <2>1. \A f \in executed' : f.time <= now /\ f.id <= Cardinality(executed) + 1
    BY <1>3, <1>4, <1>5, <1>6 DEF InOrder, Typed
  <2>2. \A f, g \in executed' : f.id < g.id => f.time <= g.time
    BY <1>3, <1>4, <1>5, <1>6 DEF InOrder, Typed
  <2>3. \A f \in executed' \ shown : now <= f.time + Lag
    BY <1>3, <1>4, <1>5, <1>6, ConstantsAssumption DEF InOrder
  <2> QED
    BY <2>1, <2>2, <2>3, <1>2, <1>7 DEF InOrder
<1>10. Alone' /\ Kept'
  BY <1>2 DEF IInv, Alone, Idle, Kept, Reachable
<1>11. ASSUME NEW s \in Syncs PROVE SyncInv(s)'
  BY <1>2 DEF IInv, SyncInv, Idle, Current, Reading, Complete, ReadFrom, Late, Begin, Merged
<1> QED
  BY <1>8, <1>9, <1>10, <1>11 DEF IInv

(* What appears now is late for those read before, and in reach of the     *)
(* cursor: the exchange's lag is within the overlap.                       *)
LEMMA AppearKeeps == ASSUME IInv, Appear PROVE IInv'
<1>1. PICK f \in executed \ shown : shown' = shown \cup {f}
  BY DEF Appear
<1>2. UNCHANGED <<now, executed, raw, cursor, at, sync, truncated>>
  BY DEF Appear, disk
<1>3. Typed /\ InOrder
  BY DEF IInv
<1>4. now <= f.time + Lag /\ f.time \in Nat /\ now \in Nat /\ cursor \in Nat /\ cursor <= now
  BY <1>3 DEF Typed, InOrder
<1>5. Typed'
  BY <1>1, <1>2, <1>3 DEF Typed
<1>6. InOrder'
  BY <1>1, <1>2, <1>3 DEF InOrder
<1>7. Alone'
  BY <1>2 DEF IInv, Alone, Idle
<1>8. Kept'
  <2>1. Reachable(f)
    BY <1>4, ConstantsAssumption DEF Reachable
  <2> QED
    BY <2>1, <1>1, <1>2 DEF IInv, Kept, Reachable
<1>9. ASSUME NEW s \in Syncs PROVE SyncInv(s)'
  <2> SUFFICES ASSUME ~Idle(s) PROVE Current(s)' /\ Reading(s)' /\ Complete(s)'
    BY <1>2 DEF SyncInv, Idle
  <2>1. Current(s) /\ Reading(s) /\ Complete(s)
    BY DEF IInv, SyncInv
  <2>2. Current(s)'
    BY <2>1, <1>1, <1>2 DEF Current, Merged, Begin
  <2>3. Late(f, sync[s].got)
    <3>1. \A g \in sync[s].got : g.time \in Nat /\ g.time <= now
      BY <2>1, <1>3 DEF Current, Typed, InOrder
    <3> QED
      BY <3>1, <1>4, ConstantsAssumption DEF Late
  <2>4. \A i : ReadFrom(s, i) => ReadFrom(s, i)'
    BY <2>3, <1>1, <1>2 DEF ReadFrom, Late
  <2> QED
    BY <2>1, <2>2, <2>4, <1>2 DEF Reading, Complete
<1> QED
  BY <1>5, <1>6, <1>7, <1>8, <1>9 DEF IInv

LEMMA TimePassesKeeps == ASSUME IInv, TimePasses PROVE IInv'
<1>1. now' = now + 1 /\ \A f \in executed \ shown : now < f.time + Lag
  BY DEF TimePasses
<1>2. UNCHANGED <<executed, shown, raw, cursor, at, sync, truncated>>
  BY DEF TimePasses, disk
<1>3. Typed /\ InOrder
  BY DEF IInv
<1>4. now \in Nat /\ cursor \in Nat /\ \A f \in executed : f.time \in Nat
  BY <1>3 DEF Typed
<1>5. Typed'
  BY <1>1, <1>2, <1>3 DEF Typed
<1>6. InOrder'
  BY <1>1, <1>2, <1>3, <1>4, ConstantsAssumption DEF InOrder
<1>7. Alone'
  BY <1>2 DEF IInv, Alone, Idle
<1>8. Kept'
  <2>1. \A f \in shown : f.time \in Nat
    BY <1>3 DEF Typed
  <2>2. \A f \in shown : Reachable(f) => Reachable(f)'
    BY <2>1, <1>1, <1>2, <1>4, ConstantsAssumption DEF Reachable
  <2> QED
    BY <2>2, <1>2 DEF IInv, Kept
<1>9. ASSUME NEW s \in Syncs PROVE SyncInv(s)'
  <2> SUFFICES ASSUME ~Idle(s) PROVE Current(s)' /\ Reading(s)' /\ Complete(s)'
    BY <1>2 DEF SyncInv, Idle
  <2>1. Current(s) /\ Reading(s) /\ Complete(s)
    BY DEF IInv, SyncInv
  <2>2. Begin(cursor) <= Begin(cursor)' /\ Begin(cursor) \in Int /\ Begin(cursor)' \in Int
    BY <1>1, <1>2, <1>4, ConstantsAssumption DEF Begin
  <2>3. sync[s].begin <= Begin(cursor)'
    BY <2>1, <2>2, <1>3 DEF Current, Typed
  <2>4. Current(s)'
    BY <2>1, <2>3, <1>2 DEF Current, Merged
  <2> QED
    BY <2>1, <2>4, <1>2 DEF Reading, Complete, ReadFrom, Late
<1> QED
  BY <1>5, <1>6, <1>7, <1>8, <1>9 DEF IInv

LEMMA StutterKeeps == ASSUME IInv, UNCHANGED vars PROVE IInv'
<1>1. UNCHANGED <<now, executed, shown, raw, cursor, at, sync, truncated>>
  BY DEF vars, exch, disk
<1>2. Typed' /\ InOrder' /\ Alone' /\ Kept'
  BY <1>1 DEF IInv, Typed, InOrder, Alone, Idle, Kept, Reachable
<1>3. ASSUME NEW s \in Syncs PROVE SyncInv(s)'
  BY <1>1 DEF IInv, SyncInv, Idle, Current, Reading, Complete, ReadFrom, Late, Begin, Merged
<1> QED
  BY <1>2, <1>3 DEF IInv

-----------------------------------------------------------------------------
(* The theorems.                                                           *)

LEMMA InitHolds == Init => IInv
<1> SUFFICES ASSUME Init PROVE IInv
  OBVIOUS
<1>1. HasLocals(NoSync) /\ NoSync.after \in Nat /\ NoSync.begin \in Int /\ NoSync.from \in Nat
  BY DEF HasLocals, NoSync
<1>2. Typed
  <2>1. IsFiniteSet(executed) /\ at \in [Syncs -> Steps]
    BY FS_EmptySet DEF Init, Steps
  <2>2. sync = [s \in Syncs |-> sync[s]] /\ \A s \in Syncs : sync[s] = NoSync
    BY DEF Init
  <2>3. \A s \in Syncs : /\ HasLocals(sync[s]) /\ sync[s].after \in Nat
                          /\ sync[s].begin \in Int /\ sync[s].from \in Nat
    BY <2>2, <1>1
  <2>4. now = 1 /\ cursor = 0 /\ executed = {} /\ shown = {} /\ raw = {}
    BY DEF Init
  <2>5. /\ now \in Nat /\ cursor \in Nat /\ cursor <= now
        /\ shown \subseteq executed /\ raw \subseteq shown
    BY <2>4
  <2>6. truncated \in BOOLEAN
    BY Zenon DEF Init
  <2>7. \A f \in executed : f.id \in Nat \ {0} /\ f.time \in Nat
    BY <2>4
  <2> QED
    BY <2>1, <2>2, <2>3, <2>5, <2>6, <2>7, Zenon DEF Typed
<1>3. InOrder /\ Kept
  BY DEF Init, InOrder, Kept
<1>4. Alone /\ \A s \in Syncs : SyncInv(s)
  BY DEF Init, Alone, SyncInv, Idle
<1> QED
  BY <1>2, <1>3, <1>4 DEF IInv

LEMMA StepKeeps == IInv /\ [Next]_vars => IInv'
<1> SUFFICES ASSUME IInv, [Next]_vars PROVE IInv'
  OBVIOUS
<1>1. ASSUME NEW s \in Syncs, SyncStep(s) PROVE IInv'
  BY <1>1, TriggerKeeps, ReadLastPageKeeps, ReadFullPageKeeps, ReadUnmarkedPageKeeps,
     AbandonKeeps, SaveFillsKeeps, SaveTradesKeeps, SaveCursorKeeps DEF SyncStep
<1> QED
  BY <1>1, CrashKeeps, ExecuteKeeps, AppearKeeps, TimePassesKeeps, StutterKeeps DEF Next

LEMMA Always == Spec => []IInv
  BY InitHolds, StepKeeps, PTL DEF Spec

(* A fill that has shown up is in the store, or the next sync still asks   *)
(* for it, unless a sync was truncated or it is older than any asks for:   *)
(* for pages of every size, whatever fails between the three writes, as    *)
(* long as the exchange shows a fill within the overlap of its cursor.     *)
THEOREM NoFillIsLost == Spec => []NoFillBehindCursor
<1>1. IInv => NoFillBehindCursor
  BY KeptIsProperty DEF IInv
<1> QED
  BY <1>1, Always, PTL

(* The store of fills only grows, because syncs run one at a time: what one*)
(* read before it asked the exchange is still the file when it writes.     *)
THEOREM HistoryOnlyGrows == Spec => HistoryGrows
<1>1. IInv /\ [Next]_vars => raw \subseteq raw'
  <2> SUFFICES ASSUME IInv, [Next]_vars PROVE raw \subseteq raw'
    OBVIOUS
  <2>1. ASSUME NEW s \in Syncs, SaveFills(s) PROVE raw \subseteq raw'
    <3>1. sync[s].base = raw
      BY <2>1 DEF IInv, SyncInv, Idle, Current, SaveFills
    <3> QED
      BY <2>1, <3>1 DEF SaveFills, Merged
  <2>2. CASE UNCHANGED raw
    BY <2>2
  <2>3. ASSUME NEW s \in Syncs, SyncStep(s) PROVE SaveFills(s) \/ raw' = raw
    BY <2>3 DEF SyncStep, Trigger, ReadLastPage, ReadFullPage, ReadUnmarkedPage, Abandon,
                SaveTrades, SaveCursor, disk
  <2> QED
    BY <2>1, <2>2, <2>3 DEF Next, Crash, Execute, Appear, TimePasses, vars, disk
<1>2. IInv /\ [Next]_vars => [raw \subseteq raw']_vars
  BY <1>1
<1> QED
  BY <1>2, Always, PTL DEF Spec, HistoryGrows

-----------------------------------------------------------------------------
(* The reconstruction of trades, by induction over the ids of fills.       *)

(* What holds of zero and, with a number, of the next holds of all.        *)
LEMMA NatSet ==
    ASSUME NEW P, 0 \in P, \A n \in Nat : n \in P => n + 1 \in P
    PROVE  Nat \subseteq P
<1> DEFINE R == {ss \in Nat \X Nat : ss[1] < ss[2]}
           T == Nat \ P
<1> SUFFICES ASSUME T # {} PROVE FALSE
  OBVIOUS
<1>1. IsWellFoundedOn(R, Nat)
  BY NatLessThanWellFounded DEF OpToRel
<1>2. T \subseteq Nat
  OBVIOUS
<1> HIDE DEF R, T
<1>3. PICK x \in T : \A y \in T : ~ (<<y, x>> \in R)
  BY <1>1, <1>2, WFMin
<1>4. x \in Nat /\ x # 0 /\ x - 1 \in Nat /\ x \notin P
  BY <1>3 DEF T
<1>5. x - 1 \in T
  <2>1. (x - 1) + 1 = x
    BY <1>4
  <2> QED
    BY <1>4, <2>1 DEF T
<1>6. <<x - 1, x>> \in R
  BY <1>4 DEF R
<1> QED
  BY <1>3, <1>5, <1>6

-----------------------------------------------------------------------------
(* The two recursive functions exist, so that they are what their          *)
(* definitions say.                                                        *)
CountedTo(S, m, p) ==
    p = [n \in 0..m |-> IF n = 0 THEN Flat ELSE Counted(S, p[n - 1], n)]

LEMMA PositionsMean ==
    ASSUME NEW S, NEW n \in 0..MaxFills
    PROVE  Positions(S)[n] = IF n = 0 THEN Flat
                             ELSE Counted(S, Positions(S)[n - 1], n)
<1> DEFINE P == {m \in Nat : \E p : CountedTo(S, m, p)}
<1>1. 0 \in P
  <2>1. CountedTo(S, 0, [m \in 0..0 |-> Flat])
    BY DEF CountedTo
  <2> QED BY <2>1
<1>2. ASSUME NEW m \in Nat, m \in P PROVE m + 1 \in P
  <2>1. PICK p : CountedTo(S, m, p)
    BY <1>2
  <2> DEFINE q == [i \in 0..m + 1 |-> IF i <= m THEN p[i] ELSE Counted(S, p[m], i)]
  <2>2. ASSUME NEW i \in 0..m + 1
        PROVE  q[i] = IF i = 0 THEN Flat ELSE Counted(S, q[i - 1], i)
    <3>1. CASE i = 0
      BY <2>1, <3>1 DEF CountedTo
    <3>2. CASE i # 0 /\ i <= m
      <4>1. i \in 0..m /\ i - 1 \in 0..m + 1 /\ i - 1 <= m
        BY <3>2
      <4>2. p[i] = Counted(S, p[i - 1], i)
        BY <2>1, <3>2, <4>1 DEF CountedTo
      <4> QED BY <3>2, <4>1, <4>2
    <3>3. CASE i = m + 1
      <4>1. i - 1 = m /\ ~(i <= m) /\ i # 0 /\ m \in 0..m + 1 /\ m <= m
        BY <3>3
      <4> QED BY <4>1
    <3> QED BY <3>1, <3>2, <3>3
  <2>3. CountedTo(S, m + 1, q)
    BY <2>2 DEF CountedTo
  <2> QED BY <2>3
<1> HIDE DEF P
<1>3. MaxFills \in P
  BY <1>1, <1>2, NatSet, ConstantsAssumption
<1>4. \E p : CountedTo(S, MaxFills, p)
  BY <1>3 DEF P
<1>5. CountedTo(S, MaxFills, Positions(S))
  BY <1>4 DEF CountedTo, Positions
<1> QED
  BY <1>5 DEF CountedTo

SummedTo(S, m, p) ==
    p = [n \in 0..m |-> IF n = 0 THEN 0 ELSE p[n - 1] + Qty(S, n)]

LEMMA NetMeans ==
    ASSUME NEW S, NEW n \in 0..MaxFills
    PROVE  Net(S, n) = IF n = 0 THEN 0 ELSE Net(S, n - 1) + Qty(S, n)
<1> DEFINE P == {m \in Nat : \E p : SummedTo(S, m, p)}
<1>1. 0 \in P
  <2>1. SummedTo(S, 0, [m \in 0..0 |-> 0])
    BY DEF SummedTo
  <2> QED BY <2>1
<1>2. ASSUME NEW m \in Nat, m \in P PROVE m + 1 \in P
  <2>1. PICK p : SummedTo(S, m, p)
    BY <1>2
  <2> DEFINE q == [i \in 0..m + 1 |-> IF i <= m THEN p[i] ELSE p[m] + Qty(S, i)]
  <2>2. ASSUME NEW i \in 0..m + 1
        PROVE  q[i] = IF i = 0 THEN 0 ELSE q[i - 1] + Qty(S, i)
    <3>1. CASE i = 0
      BY <2>1, <3>1 DEF SummedTo
    <3>2. CASE i # 0 /\ i <= m
      <4>1. i \in 0..m /\ i - 1 \in 0..m + 1 /\ i - 1 <= m
        BY <3>2
      <4>2. p[i] = p[i - 1] + Qty(S, i)
        BY <2>1, <3>2, <4>1 DEF SummedTo
      <4> QED BY <3>2, <4>1, <4>2
    <3>3. CASE i = m + 1
      <4>1. i - 1 = m /\ ~(i <= m) /\ i # 0 /\ m \in 0..m + 1 /\ m <= m
        BY <3>3
      <4> QED BY <4>1
    <3> QED BY <3>1, <3>2, <3>3
  <2>3. SummedTo(S, m + 1, q)
    BY <2>2 DEF SummedTo
  <2> QED BY <2>3
<1> HIDE DEF P
<1>3. MaxFills \in P
  BY <1>1, <1>2, NatSet, ConstantsAssumption
<1>4. \E p : SummedTo(S, MaxFills, p)
  BY <1>3 DEF P
<1>5. SummedTo(S, MaxFills, Nets(S))
  BY <1>4 DEF SummedTo, Nets
<1> QED
  BY <1>5 DEF SummedTo, Net

OneEach(S) == \A f, g \in S : f.id = g.id => f = g

LEMMA QtyMeans ==
    ASSUME NEW S \in SUBSET Fills, OneEach(S), NEW n \in Nat
    PROVE  /\ Qty(S, n) \in Int
           /\ \A f \in S : f.id = n => /\ Qty(S, n) = f.qty
                                       /\ f.qty \in Int \ {0}
                                       /\ (CHOOSE g \in S : g.id = n) = f
           /\ (~ \E f \in S : f.id = n) => Qty(S, n) = 0
<1>1. \A f \in S : f.qty \in Int \ {0}
  BY ConstantsAssumption DEF Fills
<1>2. ASSUME NEW f \in S, f.id = n PROVE (CHOOSE g \in S : g.id = n) = f
  <2>1. (CHOOSE g \in S : g.id = n) \in S /\ (CHOOSE g \in S : g.id = n).id = n
    BY <1>2
  <2> QED BY <1>2, <2>1 DEF OneEach
<1>3. ASSUME NEW f \in S, f.id = n PROVE Qty(S, n) = f.qty
  BY <1>2, <1>3 DEF Qty
<1>4. (~ \E f \in S : f.id = n) => Qty(S, n) = 0
  BY DEF Qty
<1> HIDE DEF Qty
<1>5. Qty(S, n) \in Int
  <2>1. CASE \E f \in S : f.id = n
    BY <1>1, <1>3, <2>1
  <2> QED BY <1>4, <2>1
<1> QED
  BY <1>1, <1>2, <1>3, <1>4, <1>5

LEMMA NetTyped ==
    ASSUME NEW S \in SUBSET Fills, OneEach(S)
    PROVE  \A n \in 0..MaxFills : Net(S, n) \in Int
<1> DEFINE P == {n \in Nat : n \in 0..MaxFills => Net(S, n) \in Int}
<1>1. 0 \in P
  BY NetMeans, ConstantsAssumption
<1>2. ASSUME NEW n \in Nat, n \in P PROVE n + 1 \in P
  <2> SUFFICES ASSUME n + 1 \in 0..MaxFills PROVE Net(S, n + 1) \in Int
    OBVIOUS
  <2>1. n \in 0..MaxFills /\ (n + 1) - 1 = n /\ n + 1 # 0
    BY ConstantsAssumption
  <2>2. Net(S, n + 1) = Net(S, n) + Qty(S, n + 1)
    BY <2>1, NetMeans
  <2> QED BY <1>2, <2>1, <2>2, QtyMeans
<1> HIDE DEF P
<1>3. Nat \subseteq P
  BY <1>1, <1>2, NatSet
<1> QED BY <1>3 DEF P

-----------------------------------------------------------------------------
(* The position reconstructed up to an id is the one the fills add up to,  *)
(* its legs are those since it was opened, and what it has closed are      *)
(* trades of the definition.                                               *)
ClosesAt(S, b, e) ==
    /\ b < e /\ Opens(S, b) /\ Closes(S, e)
    /\ \A i \in b + 1 .. e - 1 : ~Closes(S, i)

Ids(S) == {f.id : f \in S}

Since(S, n, legs, b) ==
    /\ b \in Ids(S) /\ b <= n /\ Opens(S, b)
    /\ \A i \in b + 1 .. n : ~Closes(S, i)
    /\ legs = Between(S, b, n)

Follows(S, n, p) ==
    /\ p = [net |-> p.net, legs |-> p.legs, closed |-> p.closed]
    /\ p.net = Net(S, n)
    /\ p.closed \subseteq Cycles(S)
    /\ p.net = 0 => p.legs = {}
    /\ p.net # 0 => \E b \in Nat : Since(S, n, p.legs, b)

LEMMA CycleIsTrade ==
    ASSUME NEW S, NEW b \in Ids(S), NEW e \in Ids(S), ClosesAt(S, b, e)
    PROVE  Trade(Between(S, b, e)) \in Cycles(S)
<1>1. /\ <<b, e>> \in Ids(S) \X Ids(S)
      /\ <<b, e>>[1] = b /\ <<b, e>>[2] = e
  OBVIOUS
<1> QED
  BY <1>1 DEF Cycles, Ids, ClosesAt

LEMMA IdsOfFills == ASSUME NEW S \in SUBSET Fills PROVE Ids(S) \subseteq 1..MaxFills
  BY DEF Ids, Fills

(* The signs of a position before and after a fill.                        *)
LEMMA Signs ==
    ASSUME NEW a \in Int, NEW q \in Int, q # 0
    PROVE  /\ a = 0 => ~(a * q < 0) /\ a + q # 0
           /\ a # 0 /\ ~(a * q < 0) => a * (a + q) > 0
           /\ a * q < 0 /\ Magnitude(q) < Magnitude(a) => a * (a + q) > 0
           /\ a * q < 0 /\ ~(Magnitude(q) < Magnitude(a)) => a # 0 /\ a * (a + q) <= 0
           /\ a * q < 0 /\ ~(Magnitude(q) < Magnitude(a)) /\ a + q # 0 => a * (a + q) < 0
           /\ a * (a + q) > 0 => a # 0 /\ a + q # 0
<1> USE DEF Magnitude
<1>1. CASE a = 0
  BY <1>1
<1>2. CASE a > 0 /\ q > 0
  BY <1>2
<1>3. CASE a > 0 /\ q < 0
  BY <1>3
<1>4. CASE a < 0 /\ q > 0
  BY <1>4
<1>5. CASE a < 0 /\ q < 0
  BY <1>5
<1> QED
  BY <1>1, <1>2, <1>3, <1>4, <1>5

LEMMA NoFillAt ==
    ASSUME NEW S \in SUBSET Fills, OneEach(S), NEW n \in Nat, n + 1 \in 0..MaxFills,
           ~ \E f \in S : f.id = n + 1, NEW p, Follows(S, n, p)
    PROVE  Follows(S, n + 1, p)
<1>1. n \in 0..MaxFills /\ (n + 1) - 1 = n /\ n + 1 # 0
  BY ConstantsAssumption
<1>2. Net(S, n + 1) = Net(S, n) + Qty(S, n + 1) /\ Net(S, n) \in Int
  BY <1>1, NetMeans, NetTyped
<1>3. Qty(S, n + 1) = 0
  BY QtyMeans
<1>4. Net(S, n + 1) = Net(S, n)
  BY <1>2, <1>3
<1>5. Net(S, n) # 0 => ~Closes(S, n + 1)
  BY <1>1, <1>2, <1>4 DEF Closes
<1>6. ASSUME NEW b \in Nat, Since(S, n, p.legs, b), Net(S, n) # 0
      PROVE  Since(S, n + 1, p.legs, b)
  <2>1. \A i \in b + 1 .. n + 1 : i \in b + 1 .. n \/ i = n + 1
    OBVIOUS
  <2>2. Between(S, b, n + 1) = Between(S, b, n)
    <3>1. \A f \in S : f.id \in Nat /\ f.id # n + 1
      BY DEF Fills
    <3> QED BY <3>1 DEF Between
  <2> QED BY <1>5, <1>6, <2>1, <2>2 DEF Since
<1> QED
  BY <1>4, <1>6 DEF Follows

LEMMA FillAt ==
    ASSUME NEW S \in SUBSET Fills, OneEach(S), NEW n \in Nat, n + 1 \in 0..MaxFills,
           NEW f \in S, f.id = n + 1, NEW p, Follows(S, n, p)
    PROVE  Follows(S, n + 1, Fill(p, f))
<1> DEFINE a == Net(S, n)
           q == f.qty
           m == n + 1
<1>1. n \in 0..MaxFills /\ m - 1 = n /\ m # 0
  BY ConstantsAssumption
<1>2. a \in Int /\ q \in Int /\ q # 0 /\ Net(S, m) = a + q
  <2>1. Net(S, m) = Net(S, n) + Qty(S, m) /\ Net(S, n) \in Int
    BY <1>1, NetMeans, NetTyped
  <2> QED BY <2>1, QtyMeans
<1>3. m \in Ids(S)
  BY DEF Ids
<1>4. p.net = a
  BY DEF Follows
<1>5. Closes(S, m) <=> a # 0 /\ a * (a + q) <= 0
  BY <1>1, <1>2 DEF Closes
<1>6. Opens(S, m) <=> a = 0 \/ a * (a + q) < 0
  BY <1>1, <1>2 DEF Opens
<1>7. Between(S, m, m) = {f}
  <2>1. \A g \in S : g.id \in Nat
    BY DEF Fills
  <2> QED BY <2>1 DEF Between, OneEach
<1>8. ASSUME NEW b \in Nat, b <= n PROVE Between(S, b, m) = Between(S, b, n) \cup {f}
  <2>1. \A g \in S : g.id \in Nat
    BY DEF Fills
  <2>2. \A g \in S : g.id = m => g = f
    BY DEF OneEach
  <2>3. \A g \in S : g.id \in b..m <=> (g.id \in b..n \/ g.id = m)
    BY <2>1, <1>8
  <2> QED BY <2>2, <2>3 DEF Between
<1> HIDE DEF a, q, m
<1>9. ASSUME NEW legs, legs = {f}, Opens(S, m)
      PROVE  \E b \in Nat : Since(S, m, legs, b)
  <2>1. m \in Nat /\ \A i \in m + 1 .. m : ~Closes(S, i)
    BY DEF m
  <2> QED BY <1>3, <1>7, <1>9, <2>1 DEF Since
(* The position goes on: it was opened and is not closed.                  *)
<1>10. ASSUME a # 0, ~Closes(S, m)
       PROVE  \E b \in Nat : Since(S, m, p.legs \cup {f}, b)
  <2>1. PICK b \in Nat : Since(S, n, p.legs, b)
    BY <1>4, <1>10 DEF Follows
  <2>2. \A i \in b + 1 .. m : i \in b + 1 .. n \/ i = m
    BY <2>1 DEF m
  <2>3. b <= m /\ b <= n
    BY <2>1 DEF m, Since
  <2> QED BY <1>8, <1>10, <2>1, <2>2, <2>3 DEF Since
<1>11. CASE ~(a * q < 0)
  <2>1. /\ Fill(p, f) = [net |-> a + q, legs |-> p.legs \cup {f}, closed |-> p.closed]
    BY <1>4, <1>11 DEF Fill, Against, Follows, q
  <2>2. a + q # 0
    BY <1>2, <1>11, Signs
  <2>3. CASE a = 0
    <3>1. p.legs = {} /\ Opens(S, m)
      BY <1>4, <1>6, <2>3 DEF Follows
    <3>2. \E b \in Nat : Since(S, m, p.legs \cup {f}, b)
      BY <1>9, <3>1
    <3> QED BY <1>2, <2>1, <2>2, <3>2 DEF Follows, m
  <2>4. CASE a # 0
    <3>1. ~Closes(S, m)
      BY <1>2, <1>5, <1>11, <2>4, Signs
    <3>2. \E b \in Nat : Since(S, m, p.legs \cup {f}, b)
      BY <1>10, <2>4, <3>1
    <3> QED BY <1>2, <2>1, <2>2, <3>2 DEF Follows, m
  <2> QED BY <2>3, <2>4
<1>12. CASE a * q < 0 /\ Magnitude(q) < Magnitude(a)
  <2>1. /\ Fill(p, f) = [net |-> a + q, legs |-> p.legs \cup {f}, closed |-> p.closed]
    BY <1>4, <1>12 DEF Fill, Against, Follows, q
  <2>2. a # 0 /\ a + q # 0 /\ ~Closes(S, m)
    BY <1>2, <1>5, <1>12, Signs
  <2>3. \E b \in Nat : Since(S, m, p.legs \cup {f}, b)
    BY <1>10, <2>2
  <2> QED BY <1>2, <2>1, <2>2, <2>3 DEF Follows, m
<1>13. CASE a * q < 0 /\ ~(Magnitude(q) < Magnitude(a))
  <2>1. Fill(p, f) = [net |-> a + q, legs |-> IF a + q = 0 THEN {} ELSE {f},
                      closed |-> p.closed \cup {Trade(p.legs \cup {f})}]
    BY <1>4, <1>13 DEF Fill, Against, q
  <2>2. a # 0 /\ Closes(S, m)
    BY <1>2, <1>5, <1>13, Signs
  <2>3. PICK b \in Nat : Since(S, n, p.legs, b)
    BY <1>4, <2>2 DEF Follows
  <2>4. b < m /\ b \in Ids(S) /\ b <= n /\ m - 1 = n
    BY <1>1, <2>3 DEF Since, m
  <2>5. Trade(p.legs \cup {f}) \in Cycles(S)
    <3>1. p.legs \cup {f} = Between(S, b, m)
      BY <1>8, <2>3, <2>4 DEF Since
    <3>2. ClosesAt(S, b, m)
      BY <2>2, <2>3, <2>4 DEF Since, ClosesAt
    <3> QED BY <1>3, <2>4, <3>1, <3>2, CycleIsTrade
  <2>6. p.closed \cup {Trade(p.legs \cup {f})} \subseteq Cycles(S)
    BY <2>5 DEF Follows
  <2>7. CASE a + q = 0
    BY <1>2, <2>1, <2>6, <2>7 DEF Follows, m
  <2>8. CASE a + q # 0
    <3>1. Opens(S, m)
      BY <1>2, <1>6, <1>13, <2>8, Signs
    <3>2. \E b2 \in Nat : Since(S, m, {f}, b2)
      BY <1>9, <3>1
    <3> QED BY <1>2, <2>1, <2>6, <2>8, <3>2 DEF Follows, m
  <2> QED BY <2>7, <2>8
<1> QED
  BY <1>11, <1>12, <1>13 DEF m

LEMMA PositionsFollow ==
    ASSUME NEW S \in SUBSET Fills, OneEach(S)
    PROVE  \A n \in 0..MaxFills : Follows(S, n, Positions(S)[n])
<1> DEFINE P == {n \in Nat : n \in 0..MaxFills => Follows(S, n, Positions(S)[n])}
<1>1. 0 \in P
  <2>1. 0 \in 0..MaxFills
    BY ConstantsAssumption
  <2>2. Positions(S)[0] = Flat /\ Net(S, 0) = 0
    BY <2>1, PositionsMean, NetMeans
  <2>3. Follows(S, 0, Flat)
    BY <2>2 DEF Follows, Flat
  <2> QED BY <2>2, <2>3
<1>2. ASSUME NEW n \in Nat, n \in P PROVE n + 1 \in P
  <2> SUFFICES ASSUME n + 1 \in 0..MaxFills
               PROVE  Follows(S, n + 1, Positions(S)[n + 1])
    OBVIOUS
  <2> DEFINE p == Positions(S)[n]
  <2>1. n \in 0..MaxFills /\ (n + 1) - 1 = n /\ n + 1 # 0
    BY ConstantsAssumption
  <2>2. Follows(S, n, p)
    BY <1>2, <2>1
  <2>3. Positions(S)[n + 1] = Counted(S, p, n + 1)
    BY <2>1, PositionsMean
  <2> HIDE DEF p
  <2>4. CASE \E f \in S : f.id = n + 1
    <3>1. PICK f \in S : f.id = n + 1
      BY <2>4
    <3>2. (CHOOSE g \in S : g.id = n + 1) = f
      BY <3>1, QtyMeans
    <3>3. Counted(S, p, n + 1) = Fill(p, f)
      BY <3>1, <3>2 DEF Counted
    <3> QED BY <2>2, <2>3, <3>1, <3>3, FillAt
  <2>5. CASE ~ \E f \in S : f.id = n + 1
    <3>1. Counted(S, p, n + 1) = p
      BY <2>5 DEF Counted
    <3> QED BY <2>2, <2>3, <2>5, <3>1, NoFillAt
  <2> QED BY <2>4, <2>5
<1> HIDE DEF P
<1>3. Nat \subseteq P
  BY <1>1, <1>2, NatSet
<1> QED
  BY <1>3, ConstantsAssumption DEF P

(* What is reconstructed from fills are trades of those fills.             *)
LEMMA LifecyclesAreCycles ==
    ASSUME NEW S \in SUBSET Fills, OneEach(S)
    PROVE  Lifecycles(S) \subseteq Cycles(S)
<1>1. MaxFills \in 0..MaxFills
  BY ConstantsAssumption
<1>2. Follows(S, MaxFills, Positions(S)[MaxFills])
  BY <1>1, PositionsFollow
<1> QED
  BY <1>2 DEF Follows, Lifecycles

-----------------------------------------------------------------------------
(* The converse: no trade of the definition is missed.                     *)
AllClosed(S, n, p) ==
    \A b \in Ids(S), e \in Ids(S) :
        e <= n /\ ClosesAt(S, b, e) => Trade(Between(S, b, e)) \in p.closed

LEMMA OpenedIsOpen ==
    ASSUME NEW S \in SUBSET Fills, OneEach(S), NEW b \in Ids(S), Opens(S, b)
    PROVE  Net(S, b) # 0
<1>1. b \in 1..MaxFills /\ b \in 0..MaxFills /\ b - 1 \in 0..MaxFills /\ b # 0 /\ b \in Nat
  BY IdsOfFills, ConstantsAssumption
<1>2. PICK f \in S : f.id = b
  BY DEF Ids
<1>3. Qty(S, b) \in Int \ {0}
  BY <1>1, <1>2, QtyMeans
<1>4. Net(S, b) = Net(S, b - 1) + Qty(S, b) /\ Net(S, b - 1) \in Int
  BY <1>1, NetMeans, NetTyped
<1>5. CASE Net(S, b - 1) = 0
  BY <1>3, <1>4, <1>5
<1>6. CASE Net(S, b - 1) * Net(S, b) < 0
  BY <1>4, <1>6
<1> QED
  BY <1>5, <1>6 DEF Opens

LEMMA StaysOpen ==
    ASSUME NEW S \in SUBSET Fills, OneEach(S), NEW b \in 0..MaxFills, Net(S, b) # 0
    PROVE  \A n \in 0..MaxFills :
              b <= n /\ (\A i \in b + 1 .. n : ~Closes(S, i)) => Net(S, n) # 0
<1> DEFINE P == {n \in Nat : n \in 0..MaxFills /\ b <= n
                              /\ (\A i \in b + 1 .. n : ~Closes(S, i)) => Net(S, n) # 0}
<1>1. 0 \in P
  <2>1. ASSUME b <= 0 PROVE b = 0
    BY <2>1
  <2> QED BY <2>1
<1>2. ASSUME NEW n \in Nat, n \in P PROVE n + 1 \in P
  <2> SUFFICES ASSUME n + 1 \in 0..MaxFills, b <= n + 1,
                      \A i \in b + 1 .. n + 1 : ~Closes(S, i)
               PROVE  Net(S, n + 1) # 0
    OBVIOUS
  <2>1. CASE b = n + 1
    BY <2>1
  <2>2. CASE b # n + 1
    <3>1. b <= n /\ n \in 0..MaxFills /\ n + 1 \in b + 1 .. n + 1 /\ (n + 1) - 1 = n
      BY <2>2, ConstantsAssumption
    <3>2. \A i \in b + 1 .. n : i \in b + 1 .. n + 1
      BY <3>1
    <3>3. Net(S, n) # 0
      BY <1>2, <3>1, <3>2
    <3>4. ~Closes(S, n + 1)
      BY <3>1
    <3>5. Net(S, n) \in Int /\ Net(S, n + 1) \in Int
      BY <3>1, NetTyped
    <3> QED BY <3>1, <3>3, <3>4, <3>5 DEF Closes
  <2> QED BY <2>1, <2>2
<1> HIDE DEF P
<1>3. Nat \subseteq P
  BY <1>1, <1>2, NatSet
<1> QED BY <1>3 DEF P

(* Between two openings the position was closed.                           *)
LEMMA ReopensClosed ==
    ASSUME NEW S \in SUBSET Fills, OneEach(S), NEW b \in Ids(S), NEW c \in Ids(S), b < c,
           Opens(S, b), Opens(S, c)
    PROVE  \E i \in b + 1 .. c : Closes(S, i)
<1> SUFFICES ASSUME \A i \in b + 1 .. c : ~Closes(S, i) PROVE FALSE
  OBVIOUS
<1>1. /\ b \in Nat /\ c \in Nat /\ c - 1 \in 0..MaxFills /\ c \in 0..MaxFills
      /\ b \in 0..MaxFills /\ b <= c - 1 /\ c \in b + 1 .. c
  BY IdsOfFills, ConstantsAssumption
<1>2. Net(S, b) # 0
  BY OpenedIsOpen
<1>3. \A i \in b + 1 .. c - 1 : i \in b + 1 .. c
  BY <1>1
<1>4. Net(S, c - 1) # 0
  BY <1>1, <1>2, <1>3, StaysOpen
<1>5. ~Closes(S, c)
  BY <1>1
<1>6. Net(S, c - 1) \in Int /\ Net(S, c) \in Int
  BY <1>1, NetTyped
<1> QED BY <1>4, <1>5, <1>6 DEF Opens, Closes

LEMMA OneOpening ==
    ASSUME NEW S \in SUBSET Fills, OneEach(S), NEW b \in Ids(S), NEW c \in Ids(S),
           NEW e \in Ids(S), ClosesAt(S, b, e), ClosesAt(S, c, e)
    PROVE  b = c
<1>1. b \in Nat /\ c \in Nat /\ e \in Nat /\ b < e /\ c < e
  BY IdsOfFills DEF ClosesAt
<1>2. CASE b < c
  <2>1. PICK i \in b + 1 .. c : Closes(S, i)
    BY <1>2, ReopensClosed DEF ClosesAt
  <2>2. i \in b + 1 .. e - 1
    BY <1>1, <2>1
  <2> QED BY <2>1, <2>2 DEF ClosesAt
<1>3. CASE c < b
  <2>1. PICK i \in c + 1 .. b : Closes(S, i)
    BY <1>3, ReopensClosed DEF ClosesAt
  <2>2. i \in c + 1 .. e - 1
    BY <1>1, <2>1
  <2> QED BY <2>1, <2>2 DEF ClosesAt
<1> QED
  BY <1>1, <1>2, <1>3

(* A fill that closes adds the trade it closes to those closed before.     *)
LEMMA ClosingFill ==
    ASSUME NEW S \in SUBSET Fills, OneEach(S), NEW n \in Nat, n + 1 \in 0..MaxFills,
           NEW f \in S, f.id = n + 1, NEW p, Follows(S, n, p), Closes(S, n + 1)
    PROVE  /\ p.closed \subseteq Fill(p, f).closed
           /\ \A b \in Ids(S) : ClosesAt(S, b, n + 1)
                               => Trade(Between(S, b, n + 1)) \in Fill(p, f).closed
<1> DEFINE a == Net(S, n)
           q == f.qty
           m == n + 1
<1>1. n \in 0..MaxFills /\ m - 1 = n /\ m # 0 /\ m \in Ids(S)
  BY ConstantsAssumption DEF Ids
<1>2. a \in Int /\ q \in Int /\ q # 0 /\ Net(S, m) = a + q
  <2>1. Net(S, m) = Net(S, n) + Qty(S, m) /\ Net(S, n) \in Int
    BY <1>1, NetMeans, NetTyped
  <2> QED BY <2>1, QtyMeans
<1>3. p.net = a
  BY DEF Follows
<1>4. a # 0 /\ a * (a + q) <= 0
  BY <1>1, <1>2 DEF Closes
<1>5. ASSUME NEW b \in Nat, b <= n PROVE Between(S, b, m) = Between(S, b, n) \cup {f}
  <2>1. \A g \in S : g.id \in Nat
    BY DEF Fills
  <2>2. \A g \in S : g.id = m => g = f
    BY DEF OneEach
  <2>3. \A g \in S : g.id \in b..m <=> (g.id \in b..n \/ g.id = m)
    BY <2>1, <1>5
  <2> QED BY <2>2, <2>3 DEF Between
<1> HIDE DEF a, q
<1>6. a * q < 0 /\ ~(Magnitude(q) < Magnitude(a))
  <2>1. a * (a + q) > 0 => ~(a * (a + q) <= 0)
    BY <1>2
  <2> QED BY <1>2, <1>4, <2>1, Signs
<1>7. Fill(p, f).closed = p.closed \cup {Trade(p.legs \cup {f})}
  BY <1>3, <1>6 DEF Fill, Against, q
<1>8. PICK c \in Nat : Since(S, n, p.legs, c)
  BY <1>3, <1>4 DEF Follows
<1>9. c < m /\ c \in Ids(S) /\ c <= n
  BY <1>8 DEF Since
<1>10. ClosesAt(S, c, m)
  BY <1>1, <1>8, <1>9 DEF Since, ClosesAt
<1>11. ASSUME NEW b \in Ids(S), ClosesAt(S, b, m)
       PROVE  Trade(Between(S, b, m)) \in Fill(p, f).closed
  <2>1. b = c
    BY <1>1, <1>9, <1>10, <1>11, OneOpening
  <2>2. Between(S, b, m) = p.legs \cup {f}
    BY <1>5, <1>8, <1>9, <2>1 DEF Since
  <2> QED BY <1>7, <2>2
<1> QED
  BY <1>7, <1>11

LEMMA FillKeeps ==
    ASSUME NEW S, NEW n, NEW p, Follows(S, n, p), NEW f
    PROVE  p.closed \subseteq Fill(p, f).closed
  BY DEF Follows, Fill

LEMMA CyclesAreClosed ==
    ASSUME NEW S \in SUBSET Fills, OneEach(S)
    PROVE  Cycles(S) \subseteq Lifecycles(S)
<1> DEFINE P == {n \in Nat : n \in 0..MaxFills => AllClosed(S, n, Positions(S)[n])}
<1>1. 0 \in P
  BY IdsOfFills DEF AllClosed, ClosesAt
<1>2. ASSUME NEW n \in Nat, n \in P PROVE n + 1 \in P
  <2> SUFFICES ASSUME n + 1 \in 0..MaxFills
               PROVE  AllClosed(S, n + 1, Positions(S)[n + 1])
    OBVIOUS
  <2> DEFINE p == Positions(S)[n]
             c == Counted(S, p, n + 1)
  <2>1. n \in 0..MaxFills /\ (n + 1) - 1 = n /\ n + 1 # 0
    BY ConstantsAssumption
  <2>2. Follows(S, n, p) /\ AllClosed(S, n, p)
    BY <1>2, <2>1, PositionsFollow
  <2>3. Positions(S)[n + 1] = c
    BY <2>1, PositionsMean
  <2> HIDE DEF p
  <2>4. CASE \E f \in S : f.id = n + 1
    <3>1. PICK f \in S : f.id = n + 1
      BY <2>4
    <3>2. c = Fill(p, f)
      <4>1. (CHOOSE g \in S : g.id = n + 1) = f
        BY <3>1, QtyMeans
      <4> QED BY <3>1, <4>1 DEF Counted
    <3>3. p.closed \subseteq c.closed
      BY <2>2, <3>2, FillKeeps
    <3>4. ASSUME NEW b \in Ids(S), ClosesAt(S, b, n + 1)
          PROVE  Trade(Between(S, b, n + 1)) \in c.closed
      BY <2>2, <3>1, <3>2, <3>4, ClosingFill DEF ClosesAt
    <3>5. \A e \in Ids(S) : e <= n + 1 => e <= n \/ e = n + 1
      BY IdsOfFills
    <3> HIDE DEF c
    <3> QED BY <2>2, <2>3, <3>3, <3>4, <3>5 DEF AllClosed
  <2>5. CASE ~ \E f \in S : f.id = n + 1
    <3>1. c = p
      BY <2>5 DEF Counted
    <3>2. \A e \in Ids(S) : e <= n + 1 => e <= n
      BY <2>5, IdsOfFills DEF Ids
    <3> HIDE DEF c
    <3> QED BY <2>2, <2>3, <3>1, <3>2 DEF AllClosed
  <2> QED BY <2>4, <2>5
<1> HIDE DEF P
<1>3. MaxFills \in P
  BY <1>1, <1>2, NatSet, ConstantsAssumption
<1>4. AllClosed(S, MaxFills, Positions(S)[MaxFills])
  BY <1>3, ConstantsAssumption DEF P
<1>5. \A e \in Ids(S) : e <= MaxFills
  BY IdsOfFills
<1>6. ASSUME NEW t \in Cycles(S)
      PROVE  \E b \in Ids(S), e \in Ids(S) : ClosesAt(S, b, e) /\ t = Trade(Between(S, b, e))
  BY <1>6 DEF Cycles, Ids, ClosesAt
<1> QED
  BY <1>4, <1>5, <1>6 DEF AllClosed, Lifecycles

(* The reconstruction computes the trades of the definition, all of them   *)
(* and no other, for every set of fills, with gaps in it or none: one pass *)
(* that keeps a position and its legs is as good as looking for every      *)
(* opening and the closing that follows it.                                *)
THEOREM ReconstructionExact ==
    ASSUME NEW S \in SUBSET Fills, OneEach(S)
    PROVE  Lifecycles(S) = Cycles(S)
  BY LifecyclesAreCycles, CyclesAreClosed

-----------------------------------------------------------------------------
(* The trades of a history do not change when newer fills come.            *)
Begins(S, T) == S \subseteq T /\ \A f \in S, g \in T : g.id <= f.id => g \in S

LEMMA SameNets ==
    ASSUME NEW T \in SUBSET Fills, OneEach(T), NEW S, Begins(S, T)
    PROVE  \A n \in 0..MaxFills : (\E f \in S : n <= f.id) => Net(S, n) = Net(T, n)
<1> DEFINE P == {n \in Nat : n \in 0..MaxFills /\ (\E f \in S : n <= f.id)
                             => Net(S, n) = Net(T, n)}
<1>0. S \in SUBSET Fills /\ OneEach(S) /\ \A f \in S : f.id \in Nat
  BY DEF Begins, OneEach, Fills
<1>1. 0 \in P
  BY NetMeans
<1>2. ASSUME NEW n \in Nat, n \in P PROVE n + 1 \in P
  <2> SUFFICES ASSUME n + 1 \in 0..MaxFills, NEW f \in S, n + 1 <= f.id
               PROVE  Net(S, n + 1) = Net(T, n + 1)
    OBVIOUS
  <2>1. n \in 0..MaxFills /\ n <= f.id /\ (n + 1) - 1 = n /\ n + 1 # 0
    BY <1>0, ConstantsAssumption
  <2>2. Net(S, n) = Net(T, n)
    BY <1>2, <2>1
  <2>3. Qty(S, n + 1) = Qty(T, n + 1)
    <3>1. CASE \E g \in T : g.id = n + 1
      <4>1. PICK g \in T : g.id = n + 1
        BY <3>1
      <4>2. g \in S
        BY <4>1 DEF Begins
      <4> QED BY <1>0, <4>1, <4>2, QtyMeans
    <3>2. CASE ~ \E g \in T : g.id = n + 1
      <4>1. ~ \E g \in S : g.id = n + 1
        BY <3>2 DEF Begins
      <4> QED BY <1>0, <3>2, <4>1, QtyMeans
    <3> QED BY <3>1, <3>2
  <2> QED BY <2>1, <2>2, <2>3, NetMeans
<1> HIDE DEF P
<1>3. Nat \subseteq P
  BY <1>1, <1>2, NatSet
<1> QED BY <1>3 DEF P

LEMMA CyclesStay ==
    ASSUME NEW T \in SUBSET Fills, OneEach(T), NEW S, Begins(S, T)
    PROVE  Cycles(S) \subseteq Cycles(T)
<1>0. S \in SUBSET Fills /\ \A f \in T : f.id \in Nat
  BY DEF Begins, Fills
<1> SUFFICES ASSUME NEW b \in Ids(S), NEW e \in Ids(S), ClosesAt(S, b, e)
             PROVE  Trade(Between(S, b, e)) \in Cycles(T)
  BY DEF Cycles, Ids, ClosesAt
<1>1. PICK f \in S : f.id = e
  BY DEF Ids
<1>2. b \in 1..MaxFills /\ e \in 1..MaxFills /\ b < e
  BY <1>0, IdsOfFills DEF ClosesAt
<1>3. ASSUME NEW n \in 0..e PROVE Net(S, n) = Net(T, n)
  <2>1. n \in 0..MaxFills /\ n <= f.id
    BY <1>1, <1>2, ConstantsAssumption
  <2> QED BY <2>1, SameNets
<1>4. Opens(T, b)
  <2>1. b - 1 \in 0..e /\ b \in 0..e
    BY <1>2
  <2>2. Net(S, b - 1) = Net(T, b - 1) /\ Net(S, b) = Net(T, b)
    BY <1>3, <2>1
  <2> QED BY <2>2 DEF Opens, ClosesAt
<1>5. ASSUME NEW i \in 1..e PROVE Closes(T, i) <=> Closes(S, i)
  <2>1. i - 1 \in 0..e /\ i \in 0..e
    BY <1>2
  <2>2. Net(S, i - 1) = Net(T, i - 1) /\ Net(S, i) = Net(T, i)
    BY <1>3, <2>1
  <2> QED BY <2>2 DEF Closes
<1>6. ClosesAt(T, b, e)
  <2>1. e \in 1..e /\ \A i \in b + 1 .. e - 1 : i \in 1..e
    BY <1>2
  <2> QED BY <1>4, <1>5, <2>1 DEF ClosesAt
<1>7. Between(S, b, e) = Between(T, b, e)
  <2>1. ASSUME NEW g \in T, g.id \in b..e PROVE g \in S
    <3>1. g.id <= f.id
      BY <1>0, <1>1, <1>2, <2>1
    <3> QED BY <3>1 DEF Begins
  <2> QED BY <2>1 DEF Between, Begins
<1>8. b \in Ids(T) /\ e \in Ids(T)
  BY DEF Ids, Begins
<1> QED BY <1>6, <1>7, <1>8, CycleIsTrade

LEMMA TradeLegs ==
    ASSUME NEW S PROVE \A t \in Cycles(S) : t.legs \subseteq S
<1>1. \A b, e : Trade(Between(S, b, e)).legs \subseteq S
  BY DEF Trade, Between
<1> QED BY <1>1 DEF Cycles

-----------------------------------------------------------------------------
(* Types and bounds.                                                       *)
Bounded ==
    /\ now \in 1..MaxTime
    /\ executed \subseteq Fills /\ OneEach(executed)
    /\ faults \in 0..MaxFaults /\ whole \in BOOLEAN
    /\ \A s \in Syncs :
          /\ Idle(s) => sync[s] = NoSync
          /\ sync[s].after \in 0..MaxFills /\ sync[s].pages \in 0..MaxPages
          /\ at[s] = "read" => sync[s].pages < MaxPages

LEMMA BoundedInit == Init => Bounded
  BY ConstantsAssumption, Zenon, SMT DEF Init, Bounded, OneEach, Idle, NoSync

(* A step of one sync, within the bounds.                                  *)
LEMMA BoundedStep ==
    ASSUME IInv, Bounded, UNCHANGED exch, whole' \in BOOLEAN, faults' \in 0..MaxFaults,
           NEW s \in Syncs, NEW step, NEW l,
           at' = [at EXCEPT ![s] = step], sync' = [sync EXCEPT ![s] = l],
           step = "idle" => l = NoSync,
           l.after \in 0..MaxFills, l.pages \in 0..MaxPages,
           step = "read" => l.pages < MaxPages
    PROVE  Bounded'
<1>1. /\ at'[s] = step /\ sync'[s] = l
      /\ \A r \in Syncs : r # s => at'[r] = at[r] /\ sync'[r] = sync[r]
  BY DEF IInv, Typed
<1>2. UNCHANGED <<now, executed>>
  BY DEF exch
<1>3. \A r \in Syncs :
          /\ Idle(r)' => sync'[r] = NoSync
          /\ sync'[r].after \in 0..MaxFills /\ sync'[r].pages \in 0..MaxPages
          /\ at'[r] = "read" => sync'[r].pages < MaxPages
  BY <1>1 DEF Bounded, Idle
<1> QED BY <1>2, <1>3 DEF Bounded, OneEach

LEMMA NoSyncBounds ==
    NoSync.after = 0 /\ NoSync.pages = 0 /\ 0 \in 0..MaxFills /\ 0 \in 0..MaxPages
  BY ConstantsAssumption DEF NoSync

LEMMA BoundedSync ==
    ASSUME IInv, Bounded, NEW s \in Syncs, SyncStep(s) PROVE Bounded'
<1>1. HasLocals(sync[s]) /\ sync[s].after \in 0..MaxFills /\ sync[s].pages \in 0..MaxPages
      /\ (at[s] = "read" => sync[s].pages < MaxPages)
  BY DEF IInv, Typed, Bounded
<1>2. CASE Trigger(s)
  <2> DEFINE l == [base |-> raw, old |-> trades, from |-> cursor, begin |-> Begin(cursor),
                   after |-> 0, pages |-> 0, got |-> {}, cut |-> FALSE]
  <2>1. at' = [at EXCEPT ![s] = "read"] /\ sync' = [sync EXCEPT ![s] = l]
        /\ UNCHANGED <<exch, whole, faults>>
    BY <1>2 DEF Trigger, Goto
  <2>2. l.after = 0 /\ l.pages = 0
    OBVIOUS
  <2> HIDE DEF l
  <2>3. l.after \in 0..MaxFills /\ l.pages \in 0..MaxPages /\ l.pages < MaxPages
    BY <2>2, ConstantsAssumption
  <2> QED BY <2>1, <2>3, BoundedStep DEF Bounded
<1>3. CASE ReadLastPage(s)
  <2> DEFINE l == [sync[s] EXCEPT !.got = @ \cup Unread(sync[s])]
  <2>1. at' = [at EXCEPT ![s] = "saveFills"] /\ sync' = [sync EXCEPT ![s] = l]
        /\ UNCHANGED <<exch, whole, faults>>
    BY <1>3 DEF ReadLastPage, Goto
  <2>2. l.after = sync[s].after /\ l.pages = sync[s].pages
    BY <1>1 DEF HasLocals
  <2> HIDE DEF l
  <2> QED BY <1>1, <2>1, <2>2, BoundedStep DEF Bounded
<1>4. CASE ReadFullPage(s)
  <2>1. PICK last \in Unread(sync[s]) :
           LET page == FromUp(Unread(sync[s]), last.id)
               end  == LastAllowed(sync[s])
           IN  /\ sync' = [sync EXCEPT ![s] =
                             [sync[s] EXCEPT !.got = sync[s].got \cup page,
                                !.after = last.id, !.pages = sync[s].pages + 1,
                                !.cut = end]]
               /\ at' = [at EXCEPT ![s] = IF end THEN "saveFills" ELSE "read"]
    BY <1>4 DEF ReadFullPage, Goto
  <2> DEFINE end == LastAllowed(sync[s])
             l == [sync[s] EXCEPT !.got = sync[s].got \cup FromUp(Unread(sync[s]), last.id),
                                  !.after = last.id, !.pages = sync[s].pages + 1, !.cut = end]
             step == IF end THEN "saveFills" ELSE "read"
  <2>2. at' = [at EXCEPT ![s] = step] /\ sync' = [sync EXCEPT ![s] = l]
        /\ UNCHANGED <<exch, whole, faults>>
    BY <1>4, <2>1 DEF ReadFullPage
  <2>3. l.after = last.id /\ l.pages = sync[s].pages + 1
    BY <1>1 DEF HasLocals
  <2>4. last.id \in 0..MaxFills
    BY <2>1 DEF Unread, IInv, Typed, Bounded, Fills
  <2>5. sync[s].pages < MaxPages
    BY <1>1, <1>4 DEF ReadFullPage
  <2>6. step # "idle" /\ (step = "read" => sync[s].pages + 1 < MaxPages)
    BY <1>1, ConstantsAssumption DEF LastAllowed
  <2>7. sync[s].pages + 1 \in 0..MaxPages
    BY <1>1, <2>5, ConstantsAssumption
  <2> HIDE DEF l, end, step
  <2> QED BY <2>2, <2>3, <2>4, <2>6, <2>7, BoundedStep DEF Bounded
<1>5. CASE ReadUnmarkedPage(s)
  <2>1. PICK last \in Unread(sync[s]) :
           sync' = [sync EXCEPT ![s] =
                      [sync[s] EXCEPT
                         !.got = sync[s].got \cup FromUp(Unread(sync[s]), last.id),
                         !.cut = TRUE]]
    BY <1>5 DEF ReadUnmarkedPage
  <2> DEFINE l == [sync[s] EXCEPT !.got = sync[s].got \cup FromUp(Unread(sync[s]), last.id),
                                  !.cut = TRUE]
  <2>2. at' = [at EXCEPT ![s] = "saveFills"] /\ sync' = [sync EXCEPT ![s] = l]
        /\ UNCHANGED <<exch, whole>> /\ faults' = faults + 1 /\ faults < MaxFaults
    BY <1>5, <2>1 DEF ReadUnmarkedPage, Goto
  <2>3. l.after = sync[s].after /\ l.pages = sync[s].pages
    BY <1>1 DEF HasLocals
  <2>4. faults' \in 0..MaxFaults
    BY <2>2, ConstantsAssumption DEF Bounded
  <2> HIDE DEF l
  <2> QED BY <1>1, <2>2, <2>3, <2>4, BoundedStep DEF Bounded
<1>6. CASE Abandon(s)
  <2>1. at' = [at EXCEPT ![s] = "idle"] /\ sync' = [sync EXCEPT ![s] = NoSync]
        /\ UNCHANGED <<exch, whole>> /\ faults' = faults + 1 /\ faults < MaxFaults
    BY <1>6 DEF Abandon, Goto
  <2>2. faults' \in 0..MaxFaults
    BY <2>1, ConstantsAssumption DEF Bounded
  <2> QED BY <2>1, <2>2, BoundedStep, NoSyncBounds DEF Bounded
<1>7. CASE SaveFills(s) \/ SaveTrades(s)
  <2>1. PICK step \in {"saveTrades", "saveCursor"} : at' = [at EXCEPT ![s] = step]
    BY <1>7 DEF SaveFills, SaveTrades, Goto
  <2>2. sync' = [sync EXCEPT ![s] = sync[s]] /\ UNCHANGED <<exch, faults>>
    BY <1>7 DEF SaveFills, SaveTrades, IInv, Typed
  <2>3. whole' \in BOOLEAN
    BY <1>7, Zenon DEF SaveFills, SaveTrades, Bounded
  <2> QED BY <1>1, <2>1, <2>2, <2>3, BoundedStep DEF Bounded
<1>8. CASE SaveCursor(s)
  <2>1. at' = [at EXCEPT ![s] = "idle"] /\ sync' = [sync EXCEPT ![s] = NoSync]
        /\ UNCHANGED <<exch, whole, faults>>
    BY <1>8 DEF SaveCursor, Goto
  <2> QED BY <2>1, BoundedStep, NoSyncBounds DEF Bounded
<1> QED
  BY <1>2, <1>3, <1>4, <1>5, <1>6, <1>7, <1>8 DEF SyncStep

LEMMA BoundedElse ==
    ASSUME IInv, Bounded, Crash \/ Execute \/ Appear \/ TimePasses \/ UNCHANGED vars
    PROVE  Bounded'
<1>1. CASE Crash
  <2>1. \A s \in Syncs : at'[s] = "idle" /\ sync'[s] = NoSync
    BY <1>1 DEF Crash
  <2>2. faults' \in 0..MaxFaults
    BY <1>1, ConstantsAssumption DEF Crash, Bounded
  <2>3. UNCHANGED <<now, executed, whole>>
    BY <1>1 DEF Crash, exch
  <2> QED BY <2>1, <2>2, <2>3, NoSyncBounds DEF Bounded, Idle, OneEach
<1>2. CASE Execute
  <2>1. PICK q \in Qtys :
           executed' = executed \cup {[id |-> Cardinality(executed) + 1,
                                       time |-> now, qty |-> q]}
    BY <1>2 DEF Execute
  <2> DEFINE f == [id |-> Cardinality(executed) + 1, time |-> now, qty |-> q]
  <2>2. f \in Fills
    <3>1. Cardinality(executed) \in Nat /\ Cardinality(executed) < MaxFills
      BY <1>2, FS_CardinalityType DEF Execute, IInv, Typed
    <3>2. Cardinality(executed) + 1 \in 1..MaxFills
      BY <3>1, ConstantsAssumption
    <3> QED BY <3>2 DEF Fills, Bounded
  <2>3. \A g \in executed : g.id # f.id
    <3>1. \A g \in executed : g.id \in Nat /\ g.id <= Cardinality(executed)
      BY DEF IInv, Typed, InOrder
    <3>2. Cardinality(executed) \in Nat
      BY FS_CardinalityType DEF IInv, Typed
    <3> QED BY <3>1, <3>2
  <2> HIDE DEF f
  <2>4. executed' = executed \cup {f}
    BY <2>1 DEF f
  <2>5. OneEach(executed)'
    BY <2>3, <2>4 DEF Bounded, OneEach
  <2>6. executed' \subseteq Fills
    BY <2>2, <2>4 DEF Bounded
  <2>7. UNCHANGED <<now, at, sync, faults, whole>>
    BY <1>2 DEF Execute
  <2> QED BY <2>5, <2>6, <2>7 DEF Bounded, Idle
<1>3. CASE Appear \/ TimePasses
  <2>1. now' \in 1..MaxTime
    BY <1>3, ConstantsAssumption DEF Appear, TimePasses, Bounded
  <2>2. UNCHANGED <<executed, at, sync, faults, whole>>
    BY <1>3 DEF Appear, TimePasses
  <2> QED BY <2>1, <2>2 DEF Bounded, Idle, OneEach
<1>4. CASE UNCHANGED vars
  BY <1>4 DEF vars, exch, Bounded, Idle, OneEach
<1> QED
  BY <1>1, <1>2, <1>3, <1>4

LEMMA BoundedNext == IInv /\ Bounded /\ [Next]_vars => Bounded'
  BY BoundedSync, BoundedElse DEF Next

-----------------------------------------------------------------------------
(* The trades in the file, those a sync has taken from it, and what it is  *)
(* about to add.                                                           *)
Books ==
    /\ \A t \in trades : t.legs \subseteq Fills
    /\ \A s \in Syncs : \A t \in sync[s].old : t.legs \subseteq Fills
    /\ whole => /\ trades \subseteq Cycles(executed)
                /\ \A s \in Syncs :
                      /\ sync[s].old \subseteq Cycles(executed)
                      /\ at[s] = "saveTrades" => Begins(Merged(s), executed)

LEMMA BooksInit == Init => Books
  BY DEF Init, Books, NoSync

(* A sync that reads, or ends.                                             *)
LEMMA BooksStay ==
    ASSUME Books, UNCHANGED <<executed, trades, whole>>,
           \A r \in Syncs :
              /\ sync'[r].old \subseteq sync[r].old \cup trades
              /\ at'[r] = "saveTrades" => at[r] = "saveTrades" /\ sync'[r] = sync[r]
    PROVE  Books'
<1>1. \A t \in trades' : t.legs \subseteq Fills
  BY DEF Books
<1>2. \A s \in Syncs : \A t \in sync'[s].old : t.legs \subseteq Fills
  BY DEF Books
<1>3. ASSUME whole'
      PROVE  /\ trades' \subseteq Cycles(executed)
             /\ \A s \in Syncs :
                   /\ sync'[s].old \subseteq Cycles(executed)
                   /\ at'[s] = "saveTrades" => Begins(Merged(s)', executed)
  BY <1>3 DEF Books, Merged
<1> QED BY <1>1, <1>2, <1>3 DEF Books

LEMMA MergedFills ==
    ASSUME IInv, Bounded, NEW s \in Syncs, ~Idle(s)
    PROVE  Merged(s) \subseteq executed /\ Merged(s) \in SUBSET Fills /\ OneEach(Merged(s))
<1>1. Merged(s) \subseteq executed
  BY DEF IInv, SyncInv, Current, Typed, Merged
<1> QED BY <1>1 DEF Bounded, OneEach

LEMMA BooksSync ==
    ASSUME IInv, Bounded, Books, NEW s \in Syncs, SyncStep(s) PROVE Books'
<1>0. HasLocals(sync[s]) /\ sync = [r \in Syncs |-> sync[r]] /\ at \in [Syncs -> Steps]
  BY DEF IInv, Typed
<1>1. CASE Trigger(s)
  <2>1. sync'[s].old = trades /\ at'[s] = "read"
    BY <1>0, <1>1 DEF Trigger, Goto
  <2>2. \A r \in Syncs : r # s => at'[r] = at[r] /\ sync'[r] = sync[r]
    BY <1>0, <1>1 DEF Trigger, Goto
  <2>3. UNCHANGED <<executed, trades, whole>>
    BY <1>1 DEF Trigger, exch, disk
  <2> QED BY <2>1, <2>2, <2>3, BooksStay
<1>2. CASE ReadLastPage(s) \/ ReadFullPage(s) \/ ReadUnmarkedPage(s)
  <2>1. sync'[s].old = sync[s].old /\ at'[s] # "saveTrades"
    <3>1. CASE ReadLastPage(s)
      BY <1>0, <3>1 DEF ReadLastPage, Goto, HasLocals
    <3>2. CASE ReadFullPage(s)
      BY <1>0, <3>2 DEF ReadFullPage, Goto, HasLocals
    <3>3. CASE ReadUnmarkedPage(s)
      BY <1>0, <3>3 DEF ReadUnmarkedPage, Goto, HasLocals
    <3> QED BY <1>2, <3>1, <3>2, <3>3
  <2>2. \A r \in Syncs : r # s => at'[r] = at[r] /\ sync'[r] = sync[r]
    BY <1>0, <1>2 DEF ReadLastPage, ReadFullPage, ReadUnmarkedPage, Goto
  <2>3. UNCHANGED <<executed, trades, whole>>
    BY <1>2 DEF ReadLastPage, ReadFullPage, ReadUnmarkedPage, exch, disk
  <2> QED BY <2>1, <2>2, <2>3, BooksStay
<1>3. CASE Abandon(s) \/ SaveCursor(s)
  <2>1. sync'[s].old = {} /\ at'[s] = "idle"
    BY <1>0, <1>3 DEF Abandon, SaveCursor, Goto, NoSync
  <2>2. \A r \in Syncs : r # s => at'[r] = at[r] /\ sync'[r] = sync[r]
    BY <1>0, <1>3 DEF Abandon, SaveCursor, Goto
  <2>3. UNCHANGED <<executed, trades, whole>>
    BY <1>3 DEF Abandon, SaveCursor, exch, disk
  <2> QED BY <2>1, <2>2, <2>3, BooksStay
<1>4. CASE SaveFills(s)
  <2>1. UNCHANGED <<executed, trades, sync>>
    BY <1>4 DEF SaveFills, exch
  <2>2. whole' => whole /\ Begins(Merged(s), executed)
    <3>1. Merged(s) \subseteq executed
      BY <1>4, MergedFills DEF SaveFills, Idle
    <3> QED BY <1>4, <3>1 DEF SaveFills, Begins
  <2>3. \A r \in Syncs : r # s => at'[r] = at[r]
    BY <1>0, <1>4 DEF SaveFills, Goto
  <2>4. ASSUME whole', NEW r \in Syncs, at'[r] = "saveTrades"
        PROVE  Begins(Merged(r), executed)
    BY <2>2, <2>3, <2>4 DEF Books
  <2>5. \A r \in Syncs : Merged(r)' = Merged(r)
    BY <2>1 DEF Merged
  <2> QED BY <2>1, <2>2, <2>4, <2>5 DEF Books
<1>5. CASE SaveTrades(s)
  <2> DEFINE M == Merged(s)
  <2>1. UNCHANGED <<executed, sync, whole>> /\ trades' = Merge(sync[s].old, Lifecycles(M))
    BY <1>5 DEF SaveTrades, exch, Reconstructed
  <2>2. M \subseteq executed /\ M \in SUBSET Fills /\ OneEach(M)
    BY <1>5, MergedFills DEF SaveTrades, Idle
  <2>3. trades' \subseteq sync[s].old \cup Cycles(M)
    BY <2>1, <2>2, LifecyclesAreCycles DEF Merge
  <2>4. \A t \in trades' : t.legs \subseteq Fills
    BY <2>2, <2>3, TradeLegs DEF Books
  <2>5. whole => trades' \subseteq Cycles(executed)
    <3> SUFFICES ASSUME whole PROVE trades' \subseteq Cycles(executed)
      OBVIOUS
    <3>1. Begins(M, executed) /\ sync[s].old \subseteq Cycles(executed)
      BY <1>5 DEF Books, SaveTrades
    <3>2. executed \in SUBSET Fills /\ OneEach(executed)
      BY DEF Bounded
    <3> HIDE DEF M
    <3>3. Cycles(M) \subseteq Cycles(executed)
      BY <3>1, <3>2, CyclesStay
    <3> QED BY <2>3, <3>1, <3>3
  <2>6. \A r \in Syncs : /\ at'[r] = "saveTrades" => at[r] = "saveTrades"
                         /\ Merged(r)' = Merged(r)
    BY <1>0, <1>5, <2>1 DEF SaveTrades, Goto, Merged
  <2> QED BY <2>1, <2>4, <2>5, <2>6 DEF Books
<1> QED
  BY <1>1, <1>2, <1>3, <1>4, <1>5 DEF SyncStep

LEMMA BooksElse ==
    ASSUME IInv, Bounded, Bounded', Books,
           Crash \/ Execute \/ Appear \/ TimePasses \/ UNCHANGED vars
    PROVE  Books'
<1>1. CASE Crash
  <2>1. \A s \in Syncs : at'[s] = "idle" /\ sync'[s].old = {}
    BY <1>1 DEF Crash, NoSync
  <2>2. UNCHANGED <<executed, trades, whole>>
    BY <1>1 DEF Crash, exch, disk
  <2> QED BY <2>1, <2>2, BooksStay
<1>2. CASE Execute
  <2>1. PICK q \in Qtys :
           executed' = executed \cup {[id |-> Cardinality(executed) + 1,
                                       time |-> now, qty |-> q]}
    BY <1>2 DEF Execute
  <2> DEFINE f == [id |-> Cardinality(executed) + 1, time |-> now, qty |-> q]
  <2>2. \A g \in executed : ~(f.id <= g.id)
    <3>1. \A g \in executed : g.id \in Nat /\ g.id <= Cardinality(executed)
      BY DEF IInv, Typed, InOrder
    <3>2. Cardinality(executed) \in Nat
      BY FS_CardinalityType DEF IInv, Typed
    <3> QED BY <3>1, <3>2
  <2>3. executed' = executed \cup {f}
    BY <2>1
  <2> HIDE DEF f
  <2>4. \A S : Begins(S, executed) => Begins(S, executed')
    BY <2>2, <2>3 DEF Begins
  <2>5. Begins(executed, executed')
    BY <2>4 DEF Begins
  <2>6. Cycles(executed) \subseteq Cycles(executed')
    <3>1. executed' \in SUBSET Fills /\ OneEach(executed')
      BY DEF Bounded, OneEach
    <3> QED BY <2>5, <3>1, CyclesStay
  <2>7. UNCHANGED <<trades, at, sync, whole>> /\ \A s \in Syncs : Merged(s)' = Merged(s)
    BY <1>2 DEF Execute, disk, Merged
  <2> QED BY <2>4, <2>6, <2>7 DEF Books
<1>3. CASE Appear \/ TimePasses \/ UNCHANGED vars
  <2>1. UNCHANGED <<executed, trades, whole, at, sync>>
    BY <1>3 DEF Appear, TimePasses, vars, exch, disk
  <2> QED BY <2>1, BooksStay
<1> QED
  BY <1>1, <1>2, <1>3

LEMMA BooksNext == IInv /\ Bounded /\ Bounded' /\ Books /\ [Next]_vars => Books'
  BY BooksSync, BooksElse DEF Next

LEMMA StoreHolds == Spec => [](IInv /\ Bounded /\ Books)
<1>1. Init => Bounded /\ Books
  BY BoundedInit, BooksInit
<1>2. IInv /\ IInv' /\ Bounded /\ Books /\ [Next]_vars => Bounded' /\ Books'
  BY BoundedNext, BooksNext
<1> QED BY <1>1, <1>2, Always, PTL DEF Spec

(* Every variable keeps its type, what is read and stored is from the      *)
(* exchange, and no sync reads more pages than it may.                     *)
THEOREM TypeCorrect == Spec => []TypeOK
<1>1. IInv /\ Bounded /\ Books => TypeOK
  <2> SUFFICES ASSUME IInv, Bounded, Books PROVE TypeOK
    OBVIOUS
  <2>1. now \in 1..MaxTime /\ executed \subseteq Fills /\ shown \subseteq executed
        /\ raw \subseteq shown /\ at \in [Syncs -> Steps] /\ faults \in 0..MaxFaults
    BY DEF IInv, Typed, Bounded
  <2>2. cursor \in 0..now
    BY DEF IInv, Typed
  <2>3. \A t \in trades : t.legs \subseteq Fills
    BY DEF Books
  <2>4. ASSUME NEW s \in Syncs
        PROVE  /\ sync[s].begin \in Int /\ sync[s].after \in 0..MaxFills
               /\ sync[s].pages \in 0..MaxPages
               /\ sync[s].base \subseteq shown /\ sync[s].got \subseteq shown
    <3>1. CASE Idle(s)
      BY <3>1 DEF Bounded, NoSync, IInv, Typed
    <3>2. CASE ~Idle(s)
      BY <3>2 DEF Bounded, IInv, Typed, SyncInv, Current
    <3> QED BY <3>1, <3>2
  <2>5. truncated \in BOOLEAN /\ whole \in BOOLEAN
    BY Zenon DEF IInv, Typed, Bounded
  <2> QED BY <2>1, <2>2, <2>3, <2>4, <2>5, Zenon DEF TypeOK
<1> QED BY <1>1, StoreHolds, PTL

(* No trade in the file was made up: as long as the fills saved were, at   *)
(* each save, all there were up to the last of them, every stored trade is *)
(* one of the fills there were, whatever batches, crashes and reversals.   *)
THEOREM TradesAreReal == Spec => []StoredTradesAreReal
<1>1. IInv /\ Bounded /\ Books => StoredTradesAreReal
  BY DEF Books, StoredTradesAreReal
<1> QED BY <1>1, StoreHolds, PTL

=============================================================================

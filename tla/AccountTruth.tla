---------------------------- MODULE AccountTruth ----------------------------
(***************************************************************************)
(* The account truth: a history of closed trades built from what the       *)
(* exchange says was filled, whoever ordered it.  The loop triggers a sync *)
(* beside its ticks (OkxAccountTruthScheduler); a sync reads the fills     *)
(* since a cursor, newest page first, and writes three files one after the *)
(* other: the raw fills, the trades reconstructed from them, the cursor    *)
(* (syncOkxAccountTruthTrades).                                            *)
(*                                                                         *)
(* One symbol, in net mode.  A fill is its bill id, its time and its       *)
(* signed size; bill ids grow with time, and the order of trade ids is     *)
(* taken to be theirs.  Prices, fees, labels and ownership are left out.   *)
(***************************************************************************)
EXTENDS Integers, FiniteSets

CONSTANTS
    Syncs,       \* numbers of syncs that could run at once
    Qtys,        \* signed sizes of fills
    PageSize,    \* fills of one page (100)
    MaxPages,    \* pages of one sync (50)
    Overlap,     \* how far before its cursor a sync begins (5 minutes)
    Window,      \* how far back a sync can begin at all (7 days)
    Lag,         \* how long the exchange may keep a fill from its list
    MaxFills,    \* bound: fills
    MaxTime,     \* bound: the clock
    MaxFaults    \* bound: failed requests, failed writes and crashes

ASSUME ConstantsAssumption ==
    /\ Syncs \subseteq Nat
    /\ Qtys \subseteq Int \ {0}
    /\ PageSize \in Nat \ {0} /\ MaxPages \in Nat \ {0}
    /\ Overlap \in Nat /\ Window \in Nat /\ Lag \in Nat
    /\ MaxFills \in Nat /\ MaxTime \in Nat \ {0} /\ MaxFaults \in Nat
    /\ Lag <= Overlap

VARIABLES
    \* the exchange
    now,         \* the clock
    executed,    \* fills there were
    shown,       \* those of them its list of fills shows
    \* the data directory
    raw,         \* okx-raw-fills.json
    trades,      \* okx-closed-trades.json
    cursor,      \* lastFillTime of okx-sync-cursor.json; 0 when there is none
    \* the process
    at,          \* what each sync does next
    sync,        \* its local variables
    faults,      \* faults there were
    \* history
    truncated,   \* has a sync saved less than it asked for?
    whole        \* were all fills ever saved the first so many of the symbol?

exch == <<now, executed, shown>>
disk == <<raw, trades, cursor>>
vars == <<exch, disk, at, sync, faults, truncated, whole>>

Fills == [id : 1..MaxFills, time : 1..MaxTime, qty : Qtys]
Times(S) == {f.time : f \in S}
First(S) == CHOOSE f \in S : \A g \in S : f.id <= g.id
Last(S) == CHOOSE f \in S : \A g \in S : g.id <= f.id

-----------------------------------------------------------------------------
(* reconstructLifecyclesFromFills: the fills in their order, the position  *)
(* they add up to, and a trade whenever it returns to zero or beyond.      *)

Trade(legs) == [side |-> IF First(legs).qty > 0 THEN "long" ELSE "short",
                openedAt |-> First(legs).time, closedAt |-> Last(legs).time,
                legs |-> legs]

Flat == [net |-> 0, legs |-> {}, closed |-> {}]
Magnitude(n) == IF n < 0 THEN -n ELSE n
Against(p, f) == p.net * f.qty < 0

Fill(p, f) ==
    CASE ~Against(p, f) ->                                    \* opens or adds
            [p EXCEPT !.net = @ + f.qty, !.legs = @ \cup {f}]
      [] Against(p, f) /\ Magnitude(f.qty) < Magnitude(p.net) ->      \* reduces
            [p EXCEPT !.net = @ + f.qty, !.legs = @ \cup {f}]
      [] OTHER ->                                        \* closes, or reverses
            [net |-> p.net + f.qty,
             legs |-> IF p.net + f.qty = 0 THEN {} ELSE {f},
             closed |-> p.closed \cup {Trade(p.legs \cup {f})}]

(* The position p and the fill with the id n, if there is one.             *)
Counted(S, p, n) ==
    IF \E f \in S : f.id = n THEN Fill(p, CHOOSE f \in S : f.id = n) ELSE p

(* The position after the fills up to each id.                             *)
Positions(S) ==
    LET after[n \in 0..MaxFills] ==
            IF n = 0 THEN Flat ELSE Counted(S, after[n - 1], n)
    IN  after

Lifecycles(S) == Positions(S)[MaxFills].closed

(* canonicalClosedTradeDedupKey: the position cycle id.                    *)
TradeKey(t) == <<t.side, t.openedAt>>
Keys(T) == {TradeKey(t) : t \in T}

(* The trades known before, and those reconstructed now in their place.  Of*)
(* two with one key the one written last stays: they come latest first.    *)
WrittenAfter(t, u) == \/ t.closedAt < u.closedAt
                      \/ t.closedAt = u.closedAt /\ Last(u.legs).id <= Last(t.legs).id
Merge(old, new) ==
    {t \in old : TradeKey(t) \notin Keys(new)}
    \cup {t \in new : \A u \in new : TradeKey(u) = TradeKey(t) => WrittenAfter(t, u)}

-----------------------------------------------------------------------------
(* A sync.                                                                 *)

Idle(s) == at[s] = "idle"
Goto(s, step) == at' = [at EXCEPT ![s] = step]
NoSync == [base |-> {}, old |-> {}, from |-> 0, begin |-> 0, after |-> 0,
           pages |-> 0, got |-> {}, cut |-> FALSE]

(* triggerIfDue.  When the last sync began a minute ago is not modelled,   *)
(* only that a running one is never joined by another (syncInFlight).  A   *)
(* new sync takes the first number that is free.                           *)
BeginAtCursor(c) == IF c > 0 /\ c > now - Window THEN c ELSE now - Window  \* mutant
Begin(c) == IF c > 0 /\ c - Overlap > now - Window THEN c - Overlap ELSE now - Window

JoinOthers == TRUE                                             \* mutant
StuckAfterFault == faults = 0 /\ \A o \in Syncs : Idle(o)      \* mutant
NoneInFlight == \A o \in Syncs : Idle(o)
FirstFree(s) == Idle(s) /\ \A o \in Syncs : Idle(o) => s <= o

Trigger(s) ==
    /\ NoneInFlight /\ FirstFree(s)
    /\ Goto(s, "read")
    /\ sync' = [sync EXCEPT ![s] =
                  [base |-> raw, old |-> trades, from |-> cursor, begin |-> Begin(cursor),
                   after |-> 0, pages |-> 0, got |-> {}, cut |-> FALSE]]
    /\ UNCHANGED <<exch, disk, faults, truncated, whole>>

(* The fills a page is taken from: those after the bill the last page ended*)
(* at, that is, older ones.                                                *)
Unread(l) == {f \in shown : f.time >= l.begin /\ (l.after = 0 \/ f.id < l.after)}
FromUp(S, i) == {f \in S : f.id >= i}

ReadLastPage(s) ==
    /\ at[s] = "read"
    /\ Cardinality(Unread(sync[s])) < PageSize
    /\ sync' = [sync EXCEPT ![s].got = @ \cup Unread(sync[s])]
    /\ Goto(s, "saveFills")
    /\ UNCHANGED <<exch, disk, faults, truncated, whole>>

NeverLast(l) == FALSE            \* mutant: maxPages is not looked at
LastAllowed(l) == l.pages + 1 >= MaxPages

(* A full page.  After the last one allowed the sync goes on with what it  *)
(* has, and calls that truncated even when nothing is left to read.        *)
ReadFullPage(s) ==
    /\ at[s] = "read"
    /\ \E last \in Unread(sync[s]) :
          LET l    == sync[s]
              page == FromUp(Unread(l), last.id)
              end  == LastAllowed(l)
          IN  /\ Cardinality(page) = PageSize
              /\ sync' = [sync EXCEPT ![s] =
                            [l EXCEPT !.got = l.got \cup page, !.after = last.id,
                                      !.pages = l.pages + 1, !.cut = end]]
              /\ Goto(s, IF end THEN "saveFills" ELSE "read")
    /\ UNCHANGED <<exch, disk, faults, truncated, whole>>

(* A full page whose last fill has no bill id, or one that was seen.       *)
ReadUnmarkedPage(s) ==
    /\ at[s] = "read" /\ faults < MaxFaults
    /\ \E last \in Unread(sync[s]) :
          LET l    == sync[s]
              page == FromUp(Unread(l), last.id)
          IN  /\ Cardinality(page) = PageSize
              /\ sync' = [sync EXCEPT ![s] =
                            [l EXCEPT !.got = l.got \cup page, !.cut = TRUE]]
    /\ Goto(s, "saveFills")
    /\ faults' = faults + 1
    /\ UNCHANGED <<exch, disk, truncated, whole>>

(* A page is refused, and again after "429": nothing is saved.  Or a write *)
(* fails, and what was not written yet is not.                             *)
Abandon(s) ==
    /\ ~Idle(s) /\ faults < MaxFaults
    /\ Goto(s, "idle")
    /\ sync' = [sync EXCEPT ![s] = NoSync]
    /\ faults' = faults + 1
    /\ UNCHANGED <<exch, disk, truncated, whole>>

Merged(s) == sync[s].base \cup sync[s].got

SaveFills(s) ==
    /\ at[s] = "saveFills"
    /\ raw' = Merged(s)
    /\ Goto(s, "saveTrades")
    /\ truncated' = (truncated \/ sync[s].cut)
    /\ whole' = (whole /\ \A f \in Merged(s), g \in executed : g.id <= f.id => g \in Merged(s))
    /\ UNCHANGED <<exch, trades, cursor, sync, faults>>

OfBatch(s) == Lifecycles(sync[s].got)   \* mutant: of the fills of this sync only
OnNews(s) ==                            \* mutant: only when a fill is new
    IF sync[s].got \subseteq sync[s].base THEN {} ELSE Lifecycles(Merged(s))
Reconstructed(s) == Lifecycles(Merged(s))

SaveTrades(s) ==
    /\ at[s] = "saveTrades"
    /\ trades' = Merge(sync[s].old, Reconstructed(s))
    /\ Goto(s, "saveCursor")
    /\ UNCHANGED <<exch, raw, cursor, sync, faults, truncated, whole>>

SaveCursor(s) ==
    /\ at[s] = "saveCursor"
    /\ cursor' \in {sync[s].from} \cup Times(Merged(s))
    /\ cursor' >= sync[s].from
    /\ \A f \in Merged(s) : cursor' >= f.time
    /\ Goto(s, "idle")
    /\ sync' = [sync EXCEPT ![s] = NoSync]
    /\ UNCHANGED <<exch, raw, trades, faults, truncated, whole>>

SyncStep(s) ==
    \/ Trigger(s) \/ ReadLastPage(s) \/ ReadFullPage(s) \/ ReadUnmarkedPage(s)
    \/ Abandon(s) \/ SaveFills(s) \/ SaveTrades(s) \/ SaveCursor(s)

(* The process dies and starts again.                                      *)
Crash ==
    /\ faults < MaxFaults
    /\ \E s \in Syncs : ~Idle(s)
    /\ at' = [s \in Syncs |-> "idle"]
    /\ sync' = [s \in Syncs |-> NoSync]
    /\ faults' = faults + 1
    /\ UNCHANGED <<exch, disk, truncated, whole>>

-----------------------------------------------------------------------------
(* The exchange.  A fill is in its list at most Lag after it happened.     *)

Execute ==
    /\ Cardinality(executed) < MaxFills
    /\ \E q \in Qtys :
          executed' = executed \cup {[id |-> Cardinality(executed) + 1,
                                      time |-> now, qty |-> q]}
    /\ UNCHANGED <<now, shown, disk, at, sync, faults, truncated, whole>>

Appear ==
    /\ \E f \in executed \ shown : shown' = shown \cup {f}
    /\ UNCHANGED <<now, executed, disk, at, sync, faults, truncated, whole>>

TimePasses ==
    /\ now < MaxTime
    /\ \A f \in executed \ shown : now < f.time + Lag
    /\ now' = now + 1
    /\ UNCHANGED <<executed, shown, disk, at, sync, faults, truncated, whole>>

-----------------------------------------------------------------------------
Init ==
    /\ now = 1 /\ executed = {} /\ shown = {}
    /\ raw = {} /\ trades = {} /\ cursor = 0
    /\ at = [s \in Syncs |-> "idle"] /\ sync = [s \in Syncs |-> NoSync]
    /\ faults = 0 /\ truncated = FALSE /\ whole = TRUE

Next == \/ \E s \in Syncs : SyncStep(s)
        \/ Crash \/ Execute \/ Appear \/ TimePasses

Spec == Init /\ [][Next]_vars

-----------------------------------------------------------------------------
(* Properties.                                                             *)

Steps == {"idle", "read", "saveFills", "saveTrades", "saveCursor"}

(* The variables stay in their types, and no sync reads more pages than it *)
(* may.                                                                    *)
TypeOK ==
    /\ now \in 1..MaxTime /\ executed \subseteq Fills /\ shown \subseteq executed
    /\ raw \subseteq shown /\ cursor \in 0..now
    /\ \A t \in trades : t.legs \subseteq Fills
    /\ at \in [Syncs -> Steps]
    /\ \A s \in Syncs :
          /\ sync[s].begin \in Int /\ sync[s].after \in 0..MaxFills
          /\ sync[s].pages \in 0..MaxPages
          /\ sync[s].base \subseteq shown /\ sync[s].got \subseteq shown
    /\ faults \in 0..MaxFaults /\ truncated \in BOOLEAN /\ whole \in BOOLEAN

(* No fill is lost to the cursor: one that is not in the store when it has *)
(* shown up is one the next sync will still ask for, however pages, late   *)
(* fills, failures and crashes between the three writes come together.     *)
(* Except what a truncated sync left out, and what is older than any sync  *)
(* asks for.                                                               *)
NoFillBehindCursor ==
    truncated \/ \A f \in shown : \/ f \in raw
                                  \/ f.time >= Begin(cursor)
                                  \/ f.time < now - Window

(* The store of fills only grows: no sync writes back an older version of  *)
(* it over that of another.                                                *)
HistoryGrows == [][raw \subseteq raw']_vars

(* The trades of a symbol by definition: a trade is the fills from one that*)
(* opened a position to the next that brought it to zero or beyond.        *)
(* Net(S, i) is the size of the position after the fills up to the id i.   *)
Qty(S, n) == IF \E f \in S : f.id = n THEN (CHOOSE f \in S : f.id = n).qty ELSE 0
Nets(S) == LET net[n \in 0..MaxFills] == IF n = 0 THEN 0 ELSE net[n - 1] + Qty(S, n)
           IN  net
Net(S, i) == Nets(S)[i]
Closes(S, i) == Net(S, i - 1) # 0 /\ Net(S, i - 1) * Net(S, i) <= 0
Opens(S, i) == Net(S, i - 1) = 0 \/ Net(S, i - 1) * Net(S, i) < 0
Between(S, b, e) == {f \in S : f.id \in b..e}
Cycles(S) ==
    LET ids == {f.id : f \in S}
        Cycle(b, e) == /\ b < e /\ Opens(S, b) /\ Closes(S, e)
                       /\ \A i \in b + 1 .. e - 1 : ~Closes(S, i)
    IN  {Trade(Between(S, be[1], be[2])) : be \in {be \in ids \X ids : Cycle(be[1], be[2])}}

(* As long as what was saved had no gap, every stored trade is one there   *)
(* was: batches that split a position, crashes and reversals make none up. *)
StoredTradesAreReal == whole /\ trades # {} => trades \subseteq Cycles(executed)

-----------------------------------------------------------------------------
(* The loop triggers a sync again whenever none is running; requests and   *)
(* writes end.                                                             *)
FairSpec == Spec /\ WF_vars(\E s \in Syncs : SyncStep(s))

(* Every fill that shows up gets into the store, with the same exceptions: *)
(* again and again the store has all of them.                              *)
FillsGetStored ==
    []<>(truncated \/ \A f \in shown : f \in raw \/ f.time < now - Window)

(* When the store has all fills, every trade ends in it, whichever syncs   *)
(* its fills came with: of trades of a side opened in one instant, one.    *)
TradesGetStored ==
    <>[](whole /\ raw = executed => Keys(Cycles(executed)) \subseteq Keys(trades))
=============================================================================

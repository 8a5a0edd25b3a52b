----------------------------- MODULE CookieStore -----------------------------
(***************************************************************************)
(* The Service Worker's cookie jars and tab state and their mirror in      *)
(* IndexedDB (web/sw.js, 2501-3046): jars per registrable domain, dirty    *)
(* flags, debounced and periodic flushes, the restore at start.            *)
(*                                                                         *)
(* The worker has one thread; an action is the code between two awaits or  *)
(* callbacks.  The browser may end the worker at any step.  IndexedDB is   *)
(* external: read-write transactions of one store commit in the order they *)
(* were created, a transaction or an open may fail, and a transaction left *)
(* behind by a worker that ends commits whole or not at all.               *)
(*                                                                         *)
(* A cookie is a (name, domain, path) triple of a jar.  Its value is the   *)
(* number of the write that set it, 0 when the jar has no live record:     *)
(* natural expiry, which takes a record from every copy at once, is left   *)
(* out, and with it the filters on expired records.                        *)
(***************************************************************************)
EXTENDS Naturals, Sequences

CONSTANTS
    Jars,        \* registrable domains
    Cookies,     \* cookies of a jar
    Tabs,        \* tab ids, each created at most once
    MaxWrites,   \* bound on cookie writes
    MaxFailures, \* bound on IndexedDB failures
    MaxFlights,  \* bound on flushes under way at once
    MaxLives     \* bound on starts of the worker

ASSUME BoundsAssumption == MaxWrites \in Nat /\ MaxFlights \in Nat

VARIABLES
    up,          \* the worker runs
    db,          \* cookieDbPromise: "none", "opening", "open"
    restore,     \* where loadAllStoredJars is: "db", "read", "done"
    sharedJars,  \* the records of each jar
    dirty,       \* jars whose dirty flag is set
    cookieFlushTimer, stateFlushTimer,
    tabs,        \* the tabs the worker knows
    flights,     \* flushes under way, oldest first
    stored,      \* the store's row of each jar, with the write it reflects
    storedTabs,  \* the store's STATE_TABS_KEY row
    writes, failures, lives,
    \* History, read by no step:
    blind,       \* this life's restore failed
    erased,      \* cookies erased in this life
    lost         \* jars with a failed flush and no later write

memory == <<db, restore, sharedJars, dirty, cookieFlushTimer, stateFlushTimer,
            tabs, flights>>
disk == <<stored, storedTabs>>
counters == <<writes, failures, lives>>
history == <<blind, erased, lost>>
vars == <<up, memory, disk, counters, history>>

Records == [Cookies -> 0..MaxWrites]
NoRecords == [c \in Cookies |-> 0]
Row == [records: Records, asOf: 0..MaxWrites]

\* A flush: the rows it puts and whether it still waits for the database.
\* flushDirtyJarsToIDB takes its rows before that wait, flushStateToIDB after.
JarFlight(at, rows) == [kind |-> "jars", at |-> at, rows |-> rows, tabs |-> {}]
StateFlight(at, ts) ==
    [kind |-> "state", at |-> at, rows |-> [j \in {} |-> NoRecords], tabs |-> ts]

TypeOK ==
    /\ up \in BOOLEAN /\ db \in {"none", "opening", "open"}
    /\ restore \in {"db", "read", "done"}
    /\ sharedJars \in [Jars -> Records] /\ dirty \in SUBSET Jars
    /\ cookieFlushTimer \in BOOLEAN /\ stateFlushTimer \in BOOLEAN
    /\ tabs \in SUBSET Tabs /\ storedTabs \in SUBSET Tabs
    /\ Len(flights) <= MaxFlights
    /\ \A i \in DOMAIN flights :
          /\ flights[i].kind \in {"jars", "state"} /\ flights[i].at \in {"db", "tx"}
          /\ flights[i].tabs \in SUBSET Tabs
          /\ DOMAIN flights[i].rows \in SUBSET Jars
          /\ \A j \in DOMAIN flights[i].rows : flights[i].rows[j] \in Row
    /\ stored \in [Jars -> Row]
    /\ blind \in BOOLEAN /\ erased \in SUBSET (Jars \X Cookies) /\ lost \in SUBSET Jars

\* Mutant of loaded: no caller awaits the restore.
LoadedAtOnce == TRUE

\* cookieJarLoaded
loaded == restore = "done"

Init ==
    /\ up = FALSE /\ db = "none" /\ restore = "db" /\ flights = <<>>
    /\ sharedJars = [j \in Jars |-> NoRecords] /\ dirty = {} /\ tabs = {}
    /\ cookieFlushTimer = FALSE /\ stateFlushTimer = FALSE
    /\ blind = FALSE /\ erased = {} /\ lost = {}
    /\ stored = [j \in Jars |-> [records |-> NoRecords, asOf |-> 0]]
    /\ storedTabs = {}
    /\ writes = 0 /\ failures = 0 /\ lives = 0

-----------------------------------------------------------------------------
(* The worker's life.                                                      *)

\* The script runs: restorePromise = loadAllStoredJars() opens the database.
Start ==
    /\ ~up /\ lives < MaxLives
    /\ up' = TRUE /\ lives' = lives + 1
    /\ db' = "opening"
    /\ UNCHANGED <<restore, sharedJars, dirty, cookieFlushTimer, stateFlushTimer,
                   tabs, flights, disk, writes, failures, history>>

\* Rows and tabs once the flights `puts` have been put, in their order.
Latest(hits) == flights[CHOOSE i \in hits : \A k \in hits : k <= i]
RowsAfter(puts) ==
    [j \in Jars |->
        LET hits == {i \in puts : j \in DOMAIN flights[i].rows}
        IN  IF hits = {} THEN stored[j] ELSE Latest(hits).rows[j]]
TabsAfter(puts) ==
    LET hits == {i \in puts : flights[i].kind = "state"}
    IN  IF hits = {} THEN storedTabs ELSE Latest(hits).tabs

\* The browser ends the worker: memory and timers are gone.  Transactions that
\* were created commit or abort without it.
End ==
    /\ up /\ up' = FALSE
    /\ \E kept \in SUBSET {i \in DOMAIN flights : flights[i].at = "tx"} :
          stored' = RowsAfter(kept) /\ storedTabs' = TabsAfter(kept)
    /\ db' = "none" /\ restore' = "db" /\ flights' = <<>>
    /\ sharedJars' = [j \in Jars |-> NoRecords] /\ dirty' = {} /\ tabs' = {}
    /\ cookieFlushTimer' = FALSE /\ stateFlushTimer' = FALSE
    /\ blind' = FALSE /\ erased' = {} /\ lost' = {}
    /\ UNCHANGED counters

-----------------------------------------------------------------------------
(* Cookie writes and tabs.                                                 *)

\* Mutant of markDirty: a jar with a flush under way is not marked again.
MarkDirtyUnlessFlushing(j) ==
    /\ dirty' = IF \E i \in DOMAIN flights : j \in DOMAIN flights[i].rows
                THEN dirty ELSE dirty \cup {j}
    /\ cookieFlushTimer' = TRUE
    /\ lost' = lost \ {j}

\* markDirty: the flag, and scheduleCookieFlush's timer.
markDirty(j) ==
    /\ dirty' = dirty \cup {j}
    /\ cookieFlushTimer' = TRUE
    /\ lost' = lost \ {j}

\* setCookieLine with a live record, from a Set-Cookie header or a page's
\* document.cookie.  Every caller has awaited ensureCookieJarLoaded.
SetCookie(j, c) ==
    /\ up /\ loaded /\ writes < MaxWrites
    /\ writes' = writes + 1
    /\ sharedJars' = [sharedJars EXCEPT ![j][c] = writes']
    /\ markDirty(j)
    /\ UNCHANGED <<up, db, restore, stateFlushTimer, tabs, flights, disk,
                   failures, lives, blind, erased>>

\* setCookieLine with Max-Age <= 0 marks the jar dirty only if it held the
\* cookie; with an Expires in the past it stores a record that no reader sees.
EraseCookie(j, c) ==
    /\ up /\ loaded /\ writes < MaxWrites
    /\ writes' = writes + 1
    /\ sharedJars' = [sharedJars EXCEPT ![j][c] = 0]
    /\ erased' = erased \cup {<<j, c>>}
    /\ \/ markDirty(j)
       \/ /\ sharedJars[j][c] = 0
          /\ UNCHANGED <<dirty, cookieFlushTimer, lost>>
    /\ UNCHANGED <<up, db, restore, stateFlushTimer, tabs, flights, disk,
                   failures, lives, blind>>

\* createTab
createTab(t) ==
    /\ up /\ loaded /\ t \notin tabs \cup storedTabs
    /\ tabs' = tabs \cup {t}
    /\ stateFlushTimer' = TRUE
    /\ UNCHANGED <<up, db, restore, sharedJars, dirty, cookieFlushTimer, flights,
                   disk, counters, history>>

-----------------------------------------------------------------------------
(* Flushes.                                                                *)

Snapshot == [j \in dirty |-> [records |-> sharedJars[j], asOf |-> writes]]
Stage == IF db = "open" THEN "tx" ELSE "db"
Opened == IF db = "none" THEN "opening" ELSE db

\* flushDirtyJarsToIDB up to its await: consumeDirty and the snapshot first.
JarFlush == IF dirty = {} THEN <<>> ELSE <<JarFlight(Stage, Snapshot)>>

\* flushStateToIDB up to its await.
StateFlush == <<StateFlight(Stage, tabs)>>

\* The debounce timer of scheduleCookieFlush.
CookieTimer ==
    /\ up /\ cookieFlushTimer /\ Len(flights) < MaxFlights
    /\ cookieFlushTimer' = FALSE
    /\ flights' = flights \o JarFlush
    /\ dirty' = {}
    /\ db' = IF dirty = {} THEN db ELSE Opened
    /\ UNCHANGED <<up, restore, sharedJars, stateFlushTimer, tabs, disk, counters,
                   history>>

\* The debounce timer of scheduleStateFlush.
StateTimer ==
    /\ up /\ stateFlushTimer /\ Len(flights) < MaxFlights
    /\ stateFlushTimer' = FALSE
    /\ flights' = flights \o StateFlush
    /\ db' = Opened
    /\ UNCHANGED <<up, restore, sharedJars, dirty, cookieFlushTimer, tabs, disk,
                   counters, history>>

\* setInterval's minute and a FLUSH_COOKIES message, which wait for no
\* restore, flush both.
FlushBoth ==
    /\ up /\ Len(flights) + 1 < MaxFlights
    /\ flights' = flights \o JarFlush \o StateFlush
    /\ dirty' = {}
    /\ db' = Opened
    /\ UNCHANGED <<up, restore, sharedJars, cookieFlushTimer, stateFlushTimer, tabs,
                   disk, counters, history>>

-----------------------------------------------------------------------------
(* IndexedDB answers.                                                      *)

\* openCookieDb resolves: whoever awaited it creates its transaction, in the
\* order of the calls; a state flush takes its snapshot now.
DbOpened ==
    /\ up /\ db = "opening"
    /\ db' = "open"
    /\ restore' = IF restore = "db" THEN "read" ELSE restore
    /\ flights' = [i \in DOMAIN flights |->
                      IF flights[i].kind = "jars" THEN [flights[i] EXCEPT !.at = "tx"]
                      ELSE StateFlight("tx", tabs)]
    /\ UNCHANGED <<up, sharedJars, dirty, cookieFlushTimer, stateFlushTimer, tabs,
                   disk, counters, history>>

JarsIn(fs) == UNION {DOMAIN fs[i].rows : i \in DOMAIN fs}

\* It rejects: the promise is dropped for a later call to try again, the
\* flushes that awaited it swallow the error, the restore gives up.
DbFailed ==
    /\ up /\ db = "opening" /\ failures < MaxFailures
    /\ failures' = failures + 1
    /\ db' = "none" /\ flights' = <<>>
    /\ restore' = "done"
    /\ blind' = (blind \/ restore = "db")
    /\ lost' = lost \cup (JarsIn(flights) \ dirty)
    /\ UNCHANGED <<up, sharedJars, dirty, cookieFlushTimer, stateFlushTimer, tabs,
                   disk, writes, lives, erased>>

\* Mutant of merge: a jar that exists already takes nothing.
MergeNothing(live, restored) == live

\* merge: a live record wins over the stored one.
merge(live, restored) ==
    [c \in Cookies |-> IF live[c] # 0 THEN live[c] ELSE restored[c]]

\* getAll's onsuccess and onerror in loadAllStoredJars.
RestoreRead ==
    /\ up /\ restore = "read"
    /\ restore' = "done"
    /\ sharedJars' = [j \in Jars |-> merge(sharedJars[j], stored[j].records)]
    /\ tabs' = tabs \cup storedTabs
    /\ UNCHANGED <<up, db, dirty, cookieFlushTimer, stateFlushTimer, flights, disk,
                   counters, history>>
RestoreFailed ==
    /\ up /\ restore = "read" /\ failures < MaxFailures
    /\ failures' = failures + 1
    /\ restore' = "done" /\ blind' = TRUE
    /\ UNCHANGED <<up, db, sharedJars, dirty, cookieFlushTimer, stateFlushTimer,
                   tabs, flights, disk, writes, lives, erased, lost>>

\* The oldest transaction commits.  The restore's read was created before any.
TxCommit ==
    /\ up /\ restore # "read" /\ flights # <<>> /\ Head(flights).at = "tx"
    /\ stored' = RowsAfter({1})
    /\ storedTabs' = TabsAfter({1})
    /\ flights' = Tail(flights)
    /\ UNCHANGED <<up, db, restore, sharedJars, dirty, cookieFlushTimer,
                   stateFlushTimer, tabs, counters, history>>

\* It fails: the flush swallows the error, and the dirty flags are consumed.
TxFailed ==
    /\ up /\ restore # "read" /\ flights # <<>> /\ Head(flights).at = "tx"
    /\ failures < MaxFailures
    /\ failures' = failures + 1
    /\ flights' = Tail(flights)
    /\ lost' = lost \cup (JarsIn(<<Head(flights)>>) \ (dirty \cup JarsIn(Tail(flights))))
    /\ UNCHANGED <<up, db, restore, sharedJars, dirty, cookieFlushTimer,
                   stateFlushTimer, tabs, disk, writes, lives, blind, erased>>

Next ==
    \/ Start \/ End
    \/ \E j \in Jars, c \in Cookies : SetCookie(j, c) \/ EraseCookie(j, c)
    \/ \E t \in Tabs : createTab(t)
    \/ CookieTimer \/ StateTimer \/ FlushBoth
    \/ DbOpened \/ DbFailed \/ RestoreRead \/ RestoreFailed \/ TxCommit \/ TxFailed

Spec == Init /\ [][Next]_vars

\* Timers fire and IndexedDB answers.  Nothing makes a worker start or end,
\* and the bound on failures says that the database works in the end.
Fairness ==
    /\ WF_vars(CookieTimer) /\ WF_vars(StateTimer) /\ WF_vars(FlushBoth)
    /\ WF_vars(DbOpened \/ DbFailed) /\ WF_vars(RestoreRead \/ RestoreFailed)
    /\ WF_vars(TxCommit \/ TxFailed)

-----------------------------------------------------------------------------
(* Properties.                                                             *)

\* What StoreMovesForward says of a step.
Forward ==
    /\ TypeOK'
    /\ \A j \in Jars, c \in Cookies :
          <<j, c>> \in erased /\ sharedJars[j][c] = 0 /\ sharedJars'[j][c] # 0
             => writes' > writes
    /\ \A j \in Jars :
          /\ stored'[j].asOf >= stored[j].asOf
          /\ \A c \in Cookies : stored[j].records[c] # 0 /\ stored'[j].records[c] = 0
                 => blind \/ <<j, c>> \in erased

\* What a step of the worker keeps.  A cookie that was erased in this life
\* comes back only when it is set again: the late restore (merge, sw.js:3013)
\* finds no erasure it could undo, since every write waits for cookieJarLoaded
\* (sw.js:169, 663, 2151).  A row of the store never goes back to an older
\* state of its jar, whichever of the timer, the interval and the FLUSH_COOKIES
\* message flushed it, and however many flushes were under way
\* (flushDirtyJarsToIDB, sw.js:2748).  And a stored cookie leaves the store only
\* if it was erased in this life, or if this life's restore failed: a row is
\* replaced whole, so a jar that starts empty takes every stored cookie with it
\* (sw.js:2748-2766).
StoreMovesForward == [][Forward]_vars

\* While the worker lives, what a jar holds reaches the store.  The exceptions
\* are what a failure costs: a flush that failed is not repeated before the
\* jar's next write (consumeDirty precedes the write, sw.js:2752), and a failed
\* restore leaves the two apart.  The tab state has no such exception: the
\* interval writes it whether or not it changed (sw.js:2768).
Mirrored ==
    /\ \A j \in Jars :
          []<>(~up \/ blind \/ j \in lost \/ stored[j].records = sharedJars[j])
    /\ []<>(~up \/ storedTabs = tabs)
=============================================================================

--------------------------- MODULE Cookies_proofs ---------------------------
(***************************************************************************)
(* Why the mirror of the cookie jars in IndexedDB only moves forward, for   *)
(* any jars, cookies and tabs and any number of writes, failures, flushes   *)
(* under way and lives of the worker (CookieStore!StoreMovesForward).       *)
(*                                                                         *)
(* A row of a jar is in one of three places: in the store, in a flush under *)
(* way, or in memory, from which the next flush is taken.  The invariant    *)
(* says that these stand in the order of their age, and that a cookie is in *)
(* an older place and not in a younger one only if it was erased in this    *)
(* life or the restore failed.                                              *)
(*                                                                         *)
(* And why the documents' views of a jar are complete, for any pages and as *)
(* many writes as the sets of write ids hold (CookieView!RequestSeesWrites, *)
(* NoChangeMissed, OwnWriteStands).  A page's write has reached the jar or   *)
(* is in flight, and a change of the jar has reached a page or is on its    *)
(* way there.                                                               *)
(***************************************************************************)
EXTENDS CookieJar, WellFoundedInduction, TLAPS

Flight == [kind: {"jars", "state"}, at: {"db", "tx"},
           rows: UNION {[S -> Row] : S \in SUBSET Jars}, tabs: SUBSET Tabs]

Types ==
    /\ up \in BOOLEAN /\ db \in {"none", "opening", "open"}
    /\ restore \in {"db", "read", "done"}
    /\ sharedJars \in [Jars -> Records] /\ dirty \in SUBSET Jars
    /\ cookieFlushTimer \in BOOLEAN /\ stateFlushTimer \in BOOLEAN
    /\ tabs \in SUBSET Tabs /\ storedTabs \in SUBSET Tabs
    /\ flights \in Seq(Flight) /\ Len(flights) <= MaxFlights
    /\ stored \in [Jars -> Row]
    /\ blind \in BOOLEAN /\ erased \in SUBSET (Jars \X Cookies) /\ lost \in SUBSET Jars
    /\ writes \in 0..MaxWrites

\* Until the restore has been tried nothing is written and nothing flushed.
Waits ==
    /\ ~loaded => /\ sharedJars = [j \in Jars |-> NoRecords]
                  /\ dirty = {} /\ erased = {} /\ blind = FALSE
                  /\ \A i \in DOMAIN flights : DOMAIN flights[i].rows = {}
    /\ ~up => db = "none" /\ ~loaded /\ flights = <<>>
    /\ restore = "read" => db = "open"

\* The cookies of jar j that may be missing from a younger row.
Excused(j) == {c \in Cookies : blind \/ <<j, c>> \in erased}

\* The row `new` may be put over `old`.
Follows(excused, old, new) ==
    /\ old.asOf <= new.asOf
    /\ \A c \in Cookies \ excused : old.records[c] # 0 => new.records[c] # 0

\* The row a flush would take now.
Current(j) == [records |-> sharedJars[j], asOf |-> writes]

\* The places of a row are in order: the store, the flushes from the oldest to
\* the youngest, memory.
InOrder ==
    /\ \A j \in Jars : stored[j].asOf <= writes
    /\ \A j \in Jars : loaded => Follows(Excused(j), stored[j], Current(j))
    /\ \A i \in DOMAIN flights : \A j \in DOMAIN flights[i].rows :
          /\ Follows(Excused(j), stored[j], flights[i].rows[j])
          /\ Follows(Excused(j), flights[i].rows[j], Current(j))
          /\ \A k \in DOMAIN flights : i < k /\ j \in DOMAIN flights[k].rows
                => Follows(Excused(j), flights[i].rows[j], flights[k].rows[j])

StoreInv == Types /\ Waits /\ InOrder

-----------------------------------------------------------------------------

\* Types says all that TypeOK says.
LEMMA TypesImply == Types => TypeOK
<1> SUFFICES ASSUME Types PROVE TypeOK
  BY ZenonT(30)
<1>1. \A i \in DOMAIN flights : flights[i] \in Flight
  BY SMTT(30) DEF Types
<1>2. ASSUME NEW f \in Flight
      PROVE  /\ f.kind \in {"jars", "state"} /\ f.at \in {"db", "tx"}
             /\ f.tabs \in SUBSET Tabs
             /\ DOMAIN f.rows \in SUBSET Jars
             /\ \A j \in DOMAIN f.rows : f.rows[j] \in Row
  <2>1. f.rows \in UNION {[S -> Row] : S \in SUBSET Jars}
    BY ZenonT(30) DEF Flight
  <2>2. PICK S \in SUBSET Jars : f.rows \in [S -> Row]
    BY <2>1, ZenonT(30)
  <2> QED  BY <2>2, ZenonT(30) DEF Flight
<1> QED  BY <1>1, <1>2, ZenonT(30) DEF Types, TypeOK

\* A sequence and another one put behind it.
LEMMA Behind ==
  ASSUME NEW S, NEW s \in Seq(S), NEW t \in Seq(S)
  PROVE  /\ s \o t \in Seq(S) /\ Len(s \o t) = Len(s) + Len(t)
         /\ \A i \in DOMAIN (s \o t) :
               \/ i \in DOMAIN s /\ (s \o t)[i] = s[i]
               \/ /\ i - Len(s) \in DOMAIN t /\ (s \o t)[i] = t[i - Len(s)]
                  /\ i > Len(s)
  BY SMTT(30)

\* The oldest of a sequence taken off.
LEMMA Taken ==
  ASSUME NEW S, NEW s \in Seq(S), s # <<>>
  PROVE  /\ Tail(s) \in Seq(S) /\ Len(Tail(s)) = Len(s) - 1
         /\ Head(s) = s[1] /\ 1 \in DOMAIN s
         /\ \A i \in DOMAIN Tail(s) : i + 1 \in DOMAIN s /\ Tail(s)[i] = s[i + 1]
  BY SMTT(30)

\* A set of flushes has a youngest one.
LEMMA GreatestElement ==
  ASSUME NEW n \in Nat, NEW T \in SUBSET (1..n), T # {}
  PROVE  \E x \in T : \A y \in T : y <= x
<1> DEFINE R == {ss \in Nat \X Nat : ss[1] < ss[2]}
           B == {n - y : y \in T}
<1>1. IsWellFoundedOn(R, Nat)
  BY NatLessThanWellFounded, ZenonT(30) DEF OpToRel
<1>2. \A x, y \in Nat : y < x => <<y, x>> \in R
  BY ZenonT(30)
<1>3. B \in SUBSET Nat /\ B # {} /\ \A y \in T : n - y \in B
  <2>1. \A y \in T : n - y \in B /\ n - y \in Nat
    BY SMTT(30)
  <2> QED  BY <2>1, ZenonT(30)
<1> HIDE DEF R
<1>4. PICK b \in B : \A y \in B : ~(<<y, b>> \in R)
  BY <1>1, <1>3, WFMin, ZenonT(30)
<1>5. \A y \in B : ~(y < b)
  BY <1>2, <1>3, <1>4, ZenonT(30)
<1>6. PICK x \in T : b = n - x
  BY <1>4, ZenonT(30)
<1>7. \A y \in T : y <= x
  <2> HIDE DEF B
  <2> QED  BY <1>3, <1>5, <1>6, SMTT(30)
<1> QED  BY <1>7, ZenonT(30)

\* What the youngest of some flushes is.
LEMMA LatestIs ==
  ASSUME Types, NEW hits \in SUBSET DOMAIN flights, hits # {}
  PROVE  \E i \in hits : Latest(hits) = flights[i]
<1>1. \E i \in hits : \A k \in hits : k <= i
  <2>1. DOMAIN flights = 1..Len(flights) /\ Len(flights) \in Nat
    BY SMTT(30) DEF Types
  <2> QED  BY <2>1, GreatestElement, ZenonT(30)
<1> QED  BY <1>1, ZenonT(30) DEF Latest

\* What the store holds once some flushes are put: for each jar what it held,
\* or the row of one of them.
LEMMA PutRows ==
  ASSUME Types, NEW puts \in SUBSET DOMAIN flights
  PROVE  /\ RowsAfter(puts) \in [Jars -> Row]
         /\ TabsAfter(puts) \in SUBSET Tabs
         /\ \A j \in Jars :
               \/ /\ RowsAfter(puts)[j] = stored[j]
                  /\ \A i \in puts : j \notin DOMAIN flights[i].rows
               \/ \E i \in puts : /\ j \in DOMAIN flights[i].rows
                                 /\ RowsAfter(puts)[j] = flights[i].rows[j]
<1>1. \A i \in DOMAIN flights :
          /\ flights[i].tabs \in SUBSET Tabs
          /\ \A j \in DOMAIN flights[i].rows : flights[i].rows[j] \in Row
  BY TypesImply, ZenonT(30) DEF TypeOK
<1>2. ASSUME NEW j \in Jars
      PROVE  /\ RowsAfter(puts)[j] \in Row
             /\ \/ /\ RowsAfter(puts)[j] = stored[j]
                   /\ \A i \in puts : j \notin DOMAIN flights[i].rows
                \/ \E i \in puts : /\ j \in DOMAIN flights[i].rows
                                  /\ RowsAfter(puts)[j] = flights[i].rows[j]
  <2> DEFINE hits == {i \in puts : j \in DOMAIN flights[i].rows}
  <2>1. RowsAfter(puts)[j] = IF hits = {} THEN stored[j] ELSE Latest(hits).rows[j]
    BY ZenonT(30) DEF RowsAfter
  <2>2. CASE hits = {}
    BY <2>1, <2>2, ZenonT(30) DEF Types
  <2>3. CASE hits # {}
    <3>1. PICK i \in hits : Latest(hits) = flights[i]
      BY <2>3, LatestIs, ZenonT(30)
    <3> QED  BY <2>1, <2>3, <3>1, <1>1, ZenonT(30)
  <2> QED  BY <2>2, <2>3, ZenonT(30)
<1>3. TabsAfter(puts) \in SUBSET Tabs
  <2> DEFINE hits == {i \in puts : flights[i].kind = "state"}
  <2>1. TabsAfter(puts) = IF hits = {} THEN storedTabs ELSE Latest(hits).tabs
    BY ZenonT(30) DEF TabsAfter
  <2>2. CASE hits = {}
    BY <2>1, <2>2, ZenonT(30) DEF Types
  <2>3. CASE hits # {}
    <3>1. PICK i \in hits : Latest(hits) = flights[i]
      BY <2>3, LatestIs, ZenonT(30)
    <3> QED  BY <2>1, <2>3, <3>1, <1>1, ZenonT(30)
  <2> QED  BY <2>2, <2>3, ZenonT(30)
<1>4. RowsAfter(puts) \in [Jars -> Row]
  BY <1>2, ZenonT(30) DEF RowsAfter
<1> QED  BY <1>2, <1>3, <1>4, ZenonT(30)

\* More cookies excused: a row that could be put still can.
LEMMA ExcusedMore ==
  ASSUME NEW E, NEW F, E \subseteq F, NEW old, NEW new, Follows(E, old, new)
  PROVE  Follows(F, old, new)
  BY ZenonT(30) DEF Follows

-----------------------------------------------------------------------------
(* One lemma per kind of step.                                             *)

\* A flush's rows are what memory holds when it is taken.
Fresh(s) ==
    /\ s \in Seq(Flight)
    /\ \A i \in DOMAIN s : \A j \in DOMAIN s[i].rows :
          j \in dirty /\ s[i].rows[j] = Current(j)

\* What flushDirtyJarsToIDB and flushStateToIDB put behind the flights is fresh.
LEMMA FlushesFresh ==
  ASSUME StoreInv
  PROVE  /\ Fresh(JarFlush) /\ Fresh(StateFlush) /\ Fresh(JarFlush \o StateFlush)
         /\ Len(JarFlush) <= 1 /\ Len(StateFlush) = 1
         /\ Len(JarFlush) \in Nat /\ Len(JarFlush \o StateFlush) = Len(JarFlush) + 1
<1> USE DEF StoreInv, Types
<1>1. Snapshot \in [dirty -> Row] /\ \A j \in dirty : Snapshot[j] = Current(j)
  BY ZenonT(30) DEF Snapshot, Row, Current
<1>2. Snapshot \in UNION {[S -> Row] : S \in SUBSET Jars} /\ DOMAIN Snapshot = dirty
  BY <1>1, ZenonT(30)
<1>3. Stage \in {"db", "tx"}
  BY ZenonT(30) DEF Stage
<1>4. JarFlight(Stage, Snapshot) \in Flight /\ JarFlight(Stage, Snapshot).rows = Snapshot
  BY <1>2, <1>3, ZenonT(30) DEF JarFlight, Flight
<1>5. /\ StateFlight(Stage, tabs) \in Flight
      /\ DOMAIN StateFlight(Stage, tabs).rows = {}
  <2>1. [j \in {} |-> NoRecords] \in [{} -> Row]
    BY ZenonT(30)
  <2>2. [j \in {} |-> NoRecords] \in UNION {[S -> Row] : S \in SUBSET Jars}
    BY <2>1, ZenonT(30)
  <2> QED  BY <2>2, <1>3, ZenonT(30) DEF StateFlight, Flight
<1> HIDE DEF StoreInv, Types
<1>6. Fresh(JarFlush) /\ Len(JarFlush) <= 1 /\ Len(JarFlush) \in Nat
  <2>1. CASE dirty = {}
    BY <2>1, SMTT(30) DEF JarFlush, Fresh
  <2>2. CASE dirty # {}
    BY <2>2, <1>1, <1>4, SMTT(30) DEF JarFlush, Fresh
  <2> QED  BY <2>1, <2>2, ZenonT(30)
<1>7. Fresh(StateFlush) /\ Len(StateFlush) = 1
  BY <1>5, SMTT(30) DEF StateFlush, Fresh
<1>8. Fresh(JarFlush \o StateFlush) /\ Len(JarFlush \o StateFlush) = Len(JarFlush) + 1
  <2>1. JarFlush \in Seq(Flight) /\ StateFlush \in Seq(Flight)
    BY <1>6, <1>7, ZenonT(30) DEF Fresh
  <2>2. /\ JarFlush \o StateFlush \in Seq(Flight)
        /\ Len(JarFlush \o StateFlush) = Len(JarFlush) + Len(StateFlush)
        /\ \A i \in DOMAIN (JarFlush \o StateFlush) :
              \/ \E k \in DOMAIN JarFlush : (JarFlush \o StateFlush)[i] = JarFlush[k]
              \/ \E k \in DOMAIN StateFlush : (JarFlush \o StateFlush)[i] = StateFlush[k]
    BY <2>1, Behind, ZenonT(30)
  <2> QED  BY <1>6, <1>7, <2>2, SMTT(30) DEF Fresh
<1> QED  BY <1>6, <1>7, <1>8, ZenonT(30)

\* A flush is taken: memory, the store and the history are as they were.
LEMMA FlushTaken ==
  ASSUME StoreInv, NEW s, Fresh(s), Len(flights) + Len(s) <= MaxFlights,
         flights' = flights \o s, dirty' \in {dirty, {}},
         db' \in {"none", "opening", "open"}, db = "open" => db' = "open",
         cookieFlushTimer' \in BOOLEAN, stateFlushTimer' \in BOOLEAN,
         UNCHANGED <<up, restore, sharedJars, tabs, disk, writes, blind, erased, lost>>, up
  PROVE  StoreInv'
<1> USE DEF disk
<1>1. Types'
  BY Behind, ZenonT(30) DEF StoreInv, Types, Fresh
<1>2. \A i \in DOMAIN flights' :
         \/ i \in DOMAIN flights /\ flights'[i] = flights[i]
         \/ /\ i > Len(flights)
            /\ \A j \in DOMAIN flights'[i].rows :
                   j \in dirty /\ flights'[i].rows[j] = Current(j)
  BY Behind, SMTT(30), Z3T(30) DEF StoreInv, Types, Fresh
<1>3. Waits'
  BY <1>2, ZenonT(30) DEF StoreInv, Waits, loaded
<1>4. InOrder'
  <2>1. /\ \A j \in Jars : stored'[j].asOf <= writes'
        /\ \A j : Current(j)' = Current(j) /\ Excused(j)' = Excused(j)
        /\ stored' = stored /\ (loaded' <=> loaded)
    BY ZenonT(30) DEF StoreInv, InOrder, Current, Excused, loaded
  <2>2. \A j : Follows(Excused(j), Current(j), Current(j))
    BY SMTT(30) DEF Follows, Current, StoreInv, Types
  <2>3. \A j \in dirty : loaded /\ Follows(Excused(j), stored[j], Current(j))
    BY ZenonT(30) DEF StoreInv, Types, Waits, InOrder
  <2>4. ASSUME NEW i \in DOMAIN flights', NEW j \in DOMAIN flights'[i].rows
        PROVE  /\ Follows(Excused(j), stored[j], flights'[i].rows[j])
               /\ Follows(Excused(j), flights'[i].rows[j], Current(j))
    BY <1>2, <2>2, <2>3, ZenonT(30) DEF StoreInv, InOrder
  <2>5. ASSUME NEW i \in DOMAIN flights', NEW j \in DOMAIN flights'[i].rows,
               NEW k \in DOMAIN flights', i < k, j \in DOMAIN flights'[k].rows
        PROVE  Follows(Excused(j), flights'[i].rows[j], flights'[k].rows[j])
    <3>1. CASE k \in DOMAIN flights /\ flights'[k] = flights[k]
      <4>1. i \in DOMAIN flights /\ flights'[i] = flights[i]
        <5>1. DOMAIN flights = 1..Len(flights) /\ Len(flights) \in Nat
          BY SMTT(30) DEF StoreInv, Types
        <5>2. i \in Nat
          BY <1>1, SMTT(30) DEF Types
        <5> QED  BY <1>2, <2>5, <3>1, <5>1, <5>2, SMTT(30)
      <4> QED  BY <2>5, <3>1, <4>1, ZenonT(30) DEF StoreInv, InOrder
    <3>2. CASE flights'[k].rows[j] = Current(j)
      BY <3>2, <2>4, ZenonT(30)
    <3> QED  BY <1>2, <2>5, <3>1, <3>2, ZenonT(30)
  <2>6. \A j \in Jars : loaded => Follows(Excused(j), stored[j], Current(j))
    BY ZenonT(30) DEF StoreInv, InOrder
  <2> QED  BY <2>1, <2>4, <2>5, <2>6, ZenonT(30) DEF InOrder
<1> QED  BY <1>1, <1>3, <1>4, ZenonT(30) DEF StoreInv

\* The oldest flush leaves, put into the store or not.
LEMMA FlightLeaves ==
  ASSUME StoreInv, up, restore # "read", flights # <<>>, flights' = Tail(flights),
         lost' \in SUBSET Jars,
         \/ stored' = RowsAfter({1}) /\ storedTabs' = TabsAfter({1})
         \/ UNCHANGED disk,
         UNCHANGED <<up, db, restore, sharedJars, dirty, cookieFlushTimer,
                     stateFlushTimer, tabs, writes, blind, erased>>
  PROVE  StoreInv'
<1>1. /\ flights' \in Seq(Flight) /\ Len(flights') = Len(flights) - 1
      /\ 1 \in DOMAIN flights /\ DOMAIN flights' = 1..Len(flights')
      /\ DOMAIN flights = 1..Len(flights) /\ Len(flights) \in Nat
      /\ \A i \in DOMAIN flights' : i + 1 \in DOMAIN flights /\ flights'[i] = flights[i + 1]
  BY Taken, SMTT(30) DEF StoreInv, Types
<1>2. /\ stored' \in [Jars -> Row] /\ storedTabs' \in SUBSET Tabs
      /\ \A j \in Jars :
            \/ stored'[j] = stored[j]
            \/ j \in DOMAIN flights[1].rows /\ stored'[j] = flights[1].rows[j]
  <2>1. CASE stored' = RowsAfter({1}) /\ storedTabs' = TabsAfter({1})
    BY <2>1, <1>1, PutRows, SMTT(30) DEF StoreInv
  <2>2. CASE UNCHANGED disk
    BY <2>2, ZenonT(30) DEF disk, StoreInv, Types
  <2> QED  BY <2>1, <2>2, ZenonT(30)
<1>3. Types'
  <2>1. Len(flights') <= MaxFlights
    BY <1>1, BoundsAssumption, SMTT(30) DEF StoreInv, Types
  <2> QED  BY <1>1, <1>2, <2>1, ZenonT(30) DEF StoreInv, Types
<1>4. Waits'
  BY <1>1, ZenonT(30) DEF StoreInv, Waits, loaded
<1>5. /\ \A j : Current(j)' = Current(j) /\ Excused(j)' = Excused(j)
      /\ (loaded' <=> loaded) /\ writes' = writes
  BY ZenonT(30) DEF Current, Excused, loaded
<1>6. \A i \in DOMAIN flights : DOMAIN flights[i].rows \in SUBSET Jars
  BY TypesImply, ZenonT(30) DEF StoreInv, TypeOK
<1>7. ASSUME NEW j \in Jars
      PROVE  /\ stored'[j].asOf <= writes
             /\ loaded => Follows(Excused(j), stored'[j], Current(j))
  <2>1. CASE stored'[j] = stored[j]
    BY <2>1, ZenonT(30) DEF StoreInv, InOrder
  <2>2. CASE j \in DOMAIN flights[1].rows /\ stored'[j] = flights[1].rows[j]
    <3>1. Follows(Excused(j), flights[1].rows[j], Current(j))
      BY <2>2, <1>1, ZenonT(30) DEF StoreInv, InOrder
    <3> QED  BY <2>2, <3>1, ZenonT(30) DEF Follows, Current
  <2> QED  BY <1>2, <2>1, <2>2, ZenonT(30)
<1>8. ASSUME NEW i \in DOMAIN flights', NEW j \in DOMAIN flights'[i].rows
      PROVE  /\ Follows(Excused(j), stored'[j], flights'[i].rows[j])
             /\ Follows(Excused(j), flights'[i].rows[j], Current(j))
             /\ \A k \in DOMAIN flights' : i < k /\ j \in DOMAIN flights'[k].rows
                   => Follows(Excused(j), flights'[i].rows[j], flights'[k].rows[j])
  <2>1. i + 1 \in DOMAIN flights /\ 1 < i + 1 /\ flights'[i] = flights[i + 1] /\ j \in Jars
    BY <1>1, <1>6, SMTT(30)
  <2>2. Follows(Excused(j), flights[i + 1].rows[j], Current(j))
    BY <2>1, ZenonT(30) DEF StoreInv, InOrder
  <2>3. Follows(Excused(j), stored'[j], flights[i + 1].rows[j])
    BY <2>1, <1>1, <1>2, ZenonT(30) DEF StoreInv, InOrder
  <2>4. ASSUME NEW k \in DOMAIN flights', i < k, j \in DOMAIN flights'[k].rows
        PROVE  Follows(Excused(j), flights'[i].rows[j], flights'[k].rows[j])
    <3>1. k + 1 \in DOMAIN flights /\ i + 1 < k + 1 /\ flights'[k] = flights[k + 1]
      BY <1>1, <2>4, SMTT(30)
    <3> QED  BY <2>1, <2>4, <3>1, ZenonT(30) DEF StoreInv, InOrder
  <2> QED  BY <2>1, <2>2, <2>3, <2>4, ZenonT(30)
<1>9. InOrder'
  BY <1>5, <1>7, <1>8, ZenonT(30) DEF InOrder
<1> QED  BY <1>3, <1>4, <1>9, ZenonT(30) DEF StoreInv

\* The worker starts, or a tab is created: no row moves.
LEMMA RowsKept ==
  ASSUME StoreInv, db' \in {"none", "opening", "open"}, db = "open" => db' = "open",
         stateFlushTimer' \in BOOLEAN, up' = TRUE, tabs' \in SUBSET Tabs,
         UNCHANGED <<restore, sharedJars, dirty, cookieFlushTimer, flights, disk, writes,
                     history>>
  PROVE  StoreInv'
<1> USE DEF disk, history
<1>1. Types'
  BY ZenonT(30) DEF StoreInv, Types
<1>2. Waits'
  BY ZenonT(30) DEF StoreInv, Waits, loaded
<1>3. InOrder'
  <2>1. /\ \A j : Current(j)' = Current(j) /\ Excused(j)' = Excused(j)
        /\ (loaded' <=> loaded) /\ stored' = stored /\ writes' = writes
        /\ flights' = flights
    BY ZenonT(30) DEF Current, Excused, loaded
  <2> QED  BY <2>1, ZenonT(30) DEF StoreInv, InOrder
<1> QED  BY <1>1, <1>2, <1>3, ZenonT(30) DEF StoreInv

\* The worker ends: some flushes are put, and memory is gone.
LEMMA EndKeeps ==
  ASSUME StoreInv, End
  PROVE  StoreInv'
<1>1. PICK kept \in SUBSET DOMAIN flights :
         stored' = RowsAfter(kept) /\ storedTabs' = TabsAfter(kept)
  BY ZenonT(30) DEF End
<1>2. /\ stored' \in [Jars -> Row] /\ storedTabs' \in SUBSET Tabs
      /\ \A j \in Jars :
            \/ stored'[j] = stored[j]
            \/ \E i \in kept : j \in DOMAIN flights[i].rows /\ stored'[j] = flights[i].rows[j]
  BY <1>1, PutRows, ZenonT(30) DEF StoreInv
<1>3. \A j \in Jars : stored'[j].asOf <= writes
  <2> TAKE j \in Jars
  <2>1. CASE stored'[j] = stored[j]
    BY <2>1, ZenonT(30) DEF StoreInv, InOrder
  <2>2. ASSUME NEW i \in kept, j \in DOMAIN flights[i].rows, stored'[j] = flights[i].rows[j]
        PROVE  stored'[j].asOf <= writes
    <3>1. Follows(Excused(j), flights[i].rows[j], Current(j))
      BY <2>2, ZenonT(30) DEF StoreInv, InOrder
    <3> QED  BY <2>2, <3>1, ZenonT(30) DEF Follows, Current
  <2> QED  BY <1>2, <2>1, <2>2, ZenonT(30)
<1>4. NoRecords \in Records
  BY BoundsAssumption, SMTT(30) DEF NoRecords, Records
<1>5. /\ flights' = <<>> /\ writes' = writes /\ restore' = "db"
      /\ flights' \in Seq(Flight) /\ Len(flights') = 0 /\ DOMAIN flights' = {}
  BY SMTT(30) DEF End, counters
<1>6. Types'
  <2>1. /\ up' \in BOOLEAN /\ db' = "none" /\ restore' = "db" /\ dirty' = {} /\ tabs' = {}
        /\ cookieFlushTimer' \in BOOLEAN /\ stateFlushTimer' \in BOOLEAN
        /\ blind' \in BOOLEAN /\ erased' = {} /\ lost' = {}
    BY ZenonT(30) DEF End
  <2>2. sharedJars' \in [Jars -> Records]
    BY <1>4, ZenonT(30) DEF End
  <2>3. writes' \in 0..MaxWrites /\ Len(flights') <= MaxFlights
    BY <1>5, BoundsAssumption, SMTT(30) DEF StoreInv, Types
  <2> QED  BY <1>2, <1>5, <2>1, <2>2, <2>3, ZenonT(30) DEF Types
<1>7. Waits'
  BY <1>5, ZenonT(30) DEF Waits, loaded, End
<1>8. InOrder'
  BY <1>3, <1>5, ZenonT(30) DEF InOrder, loaded
<1> QED  BY <1>6, <1>7, <1>8, ZenonT(30) DEF StoreInv

\* A write: memory is younger than every row there is.
LEMMA WriteKeeps ==
  ASSUME StoreInv, NEW j \in Jars, NEW c \in Cookies, SetCookie(j, c) \/ EraseCookie(j, c)
  PROVE  StoreInv'
<1>1. /\ up /\ loaded /\ writes' = writes + 1 /\ writes < MaxWrites
      /\ UNCHANGED <<up, db, restore, stateFlushTimer, tabs, flights, disk, blind>>
      /\ loaded'
  BY ZenonT(30) DEF SetCookie, EraseCookie, loaded
<1>2. /\ \/ dirty' = dirty \/ dirty' = dirty \cup {j}
      /\ cookieFlushTimer' \in {cookieFlushTimer, TRUE}
      /\ lost' \in {lost, lost \ {j}}
  BY ZenonT(30) DEF SetCookie, EraseCookie, markDirty
<1>3. /\ sharedJars' \in [Jars -> Records]
      /\ \A i \in Jars, a \in Cookies : <<i, a>> # <<j, c>> => sharedJars'[i][a] = sharedJars[i][a]
      /\ sharedJars'[j][c] # 0 \/ <<j, c>> \in erased'
  <2>1. CASE SetCookie(j, c)
    BY <2>1, BoundsAssumption, SMTT(30) DEF SetCookie, StoreInv, Types, Records
  <2>2. CASE EraseCookie(j, c)
    BY <2>2, BoundsAssumption, SMTT(30) DEF EraseCookie, StoreInv, Types, Records
  <2> QED  BY <2>1, <2>2, ZenonT(30)
<1>4. erased \subseteq erased' /\ erased' \in SUBSET (Jars \X Cookies)
  BY SMTT(30) DEF SetCookie, EraseCookie, StoreInv, Types
<1>5. Types'
  <2>1. writes' \in 0..MaxWrites
    BY <1>1, BoundsAssumption, SMTT(30) DEF StoreInv, Types
  <2>2. dirty' \in SUBSET Jars /\ lost' \in SUBSET Jars /\ cookieFlushTimer' \in BOOLEAN
    BY <1>2, ZenonT(30) DEF StoreInv, Types
  <2> QED  BY <1>1, <1>3, <1>4, <2>1, <2>2, ZenonT(30) DEF StoreInv, Types, disk
<1>6. Waits'
  BY <1>1, ZenonT(30) DEF StoreInv, Waits
<1>7. /\ flights' = flights /\ stored' = stored
      /\ \A i : Excused(i) \subseteq Excused(i)'
  BY <1>1, <1>4, ZenonT(30) DEF disk, Excused
<1>8. ASSUME NEW i \in Jars, NEW old \in Row, Follows(Excused(i), old, Current(i))
      PROVE  Follows(Excused(i)', old, Current(i)')
  <2>1. ASSUME NEW a \in Cookies \ Excused(i)', old.records[a] # 0
        PROVE  sharedJars'[i][a] # 0
    <3>1. a \in Cookies \ Excused(i) /\ <<i, a>> \notin erased'
      BY <1>7, <2>1, ZenonT(30) DEF Excused
    <3>2. sharedJars[i][a] # 0
      BY <1>8, <2>1, <3>1, ZenonT(30) DEF Follows, Current
    <3> QED  BY <1>3, <3>1, <3>2, ZenonT(30)
  <2>2. old.asOf <= writes'
    <3>1. old.asOf \in Nat /\ writes \in Nat
      BY BoundsAssumption, SMTT(30) DEF Row, StoreInv, Types
    <3>2. old.asOf <= writes
      BY <1>8, ZenonT(30) DEF Follows, Current
    <3> QED  BY <1>1, <3>1, <3>2, SMTT(30)
  <2>3. Current(i)'.records = sharedJars'[i] /\ Current(i)'.asOf = writes'
    BY ZenonT(30) DEF Current
  <2> QED  BY <2>1, <2>2, <2>3, ZenonT(30) DEF Follows
<1>9. ASSUME NEW i \in Jars
      PROVE  stored'[i].asOf <= writes' /\ Follows(Excused(i)', stored'[i], Current(i)')
  <2>1. stored[i] \in Row /\ Follows(Excused(i), stored[i], Current(i))
    BY <1>1, ZenonT(30) DEF StoreInv, Types, InOrder
  <2>2. Follows(Excused(i)', stored[i], Current(i)')
    BY <1>8, <2>1, ZenonT(30)
  <2> QED  BY <1>7, <2>2, ZenonT(30) DEF Follows, Current
<1>10. ASSUME NEW n \in DOMAIN flights, NEW i \in DOMAIN flights[n].rows
       PROVE  /\ Follows(Excused(i)', stored[i], flights[n].rows[i])
              /\ Follows(Excused(i)', flights[n].rows[i], Current(i)')
              /\ \A k \in DOMAIN flights : n < k /\ i \in DOMAIN flights[k].rows
                    => Follows(Excused(i)', flights[n].rows[i], flights[k].rows[i])
  <2>1. i \in Jars /\ flights[n].rows[i] \in Row
    BY TypesImply, ZenonT(30) DEF StoreInv, TypeOK
  <2>2. /\ Follows(Excused(i), stored[i], flights[n].rows[i])
        /\ Follows(Excused(i), flights[n].rows[i], Current(i))
        /\ \A k \in DOMAIN flights : n < k /\ i \in DOMAIN flights[k].rows
              => Follows(Excused(i), flights[n].rows[i], flights[k].rows[i])
    BY ZenonT(30) DEF StoreInv, InOrder
  <2> QED  BY <1>7, <1>8, <2>1, <2>2, ExcusedMore, ZenonT(30)
<1>11. InOrder'
  BY <1>7, <1>9, <1>10, ZenonT(30) DEF InOrder
<1> QED  BY <1>5, <1>6, <1>11, ZenonT(30) DEF StoreInv

\* The restore ends, read or failed, with the flushes that waited for the same
\* database.
LEMMA RestoreKeeps ==
  ASSUME StoreInv, RestoreRead \/ RestoreFailed
  PROVE  StoreInv'
<1>1. /\ up /\ up' /\ restore = "read" /\ restore' = "done" /\ loaded'
      /\ UNCHANGED <<db, dirty, cookieFlushTimer, stateFlushTimer, flights, disk, writes,
                     erased, lost>>
  BY SMTT(30) DEF RestoreRead, RestoreFailed, loaded, counters, history
<1>2. ~loaded /\ \A i \in DOMAIN flights : DOMAIN flights[i].rows = {}
  BY <1>1, ZenonT(30) DEF StoreInv, Waits, loaded
<1>3. /\ sharedJars' \in [Jars -> Records] /\ tabs' \in SUBSET Tabs /\ blind' \in BOOLEAN
      /\ \/ blind'
         \/ \A j \in Jars, c \in Cookies :
               stored[j].records[c] # 0 => sharedJars'[j][c] # 0
  <2>1. CASE RestoreRead
    <3>1. sharedJars' = [j \in Jars |-> merge(sharedJars[j], stored[j].records)]
      BY <2>1, ZenonT(30) DEF RestoreRead
    <3>2. ASSUME NEW j \in Jars
          PROVE  /\ merge(sharedJars[j], stored[j].records) \in Records
                 /\ \A c \in Cookies : stored[j].records[c] # 0
                       => merge(sharedJars[j], stored[j].records)[c] # 0
      BY SMTT(30) DEF merge, StoreInv, Types, Row, Records
    <3> QED  BY <2>1, <3>1, <3>2, ZenonT(30) DEF RestoreRead, StoreInv, Types, history
  <2>2. CASE RestoreFailed
    BY <2>2, ZenonT(30) DEF RestoreFailed, StoreInv, Types
  <2> QED  BY <2>1, <2>2, ZenonT(30)
<1>4. Types'
  BY <1>1, <1>3, ZenonT(30) DEF StoreInv, Types, disk
<1>5. Waits'
  BY <1>1, ZenonT(30) DEF StoreInv, Waits
<1>6. \A j \in Jars : Follows(Excused(j)', stored'[j], Current(j)')
  BY <1>1, <1>3, ZenonT(30) DEF Follows, Excused, Current, disk, StoreInv, InOrder
<1>7. InOrder'
  <2>1. stored' = stored /\ flights' = flights /\ writes' = writes
    BY <1>1, ZenonT(30) DEF disk
  <2> QED  BY <1>2, <1>6, <2>1, ZenonT(30) DEF InOrder, StoreInv
<1> QED  BY <1>4, <1>5, <1>7, ZenonT(30) DEF StoreInv

\* The database is open: the flushes that waited for it go on.
LEMMA DbOpenedKeeps ==
  ASSUME StoreInv, DbOpened
  PROVE  StoreInv'
<1>1. /\ up /\ up' /\ db' = "open" /\ restore' \in {"db", "read", "done"}
      /\ UNCHANGED <<sharedJars, dirty, cookieFlushTimer, stateFlushTimer, tabs, disk,
                     writes, blind, erased, lost>>
      /\ (loaded' <=> loaded)
  BY ZenonT(30) DEF DbOpened, loaded, counters, history, StoreInv, Types
<1>2. /\ flights' \in Seq(Flight) /\ Len(flights') = Len(flights)
      /\ DOMAIN flights' = DOMAIN flights
      /\ \A i \in DOMAIN flights : \/ flights'[i].rows = flights[i].rows
                                   \/ DOMAIN flights'[i].rows = {}
  <2>1. [j \in {} |-> NoRecords] \in UNION {[S -> Row] : S \in SUBSET Jars}
    <3>1. [j \in {} |-> NoRecords] \in [{} -> Row]
      BY ZenonT(30)
    <3> QED  BY <3>1, ZenonT(30)
  <2>2. /\ StateFlight("tx", tabs) \in Flight /\ DOMAIN StateFlight("tx", tabs).rows = {}
    BY <2>1, ZenonT(30) DEF StateFlight, Flight, StoreInv, Types
  <2>3. ASSUME NEW f \in Flight
        PROVE  [f EXCEPT !.at = "tx"] \in Flight /\ [f EXCEPT !.at = "tx"].rows = f.rows
    BY ZenonT(30) DEF Flight
  <2>4. flights \in Seq(Flight) /\ DOMAIN flights = 1..Len(flights) /\ Len(flights) \in Nat
    BY SMTT(30) DEF StoreInv, Types
  <2>5. flights' = [i \in 1..Len(flights) |->
                      IF flights[i].kind = "jars" THEN [flights[i] EXCEPT !.at = "tx"]
                      ELSE StateFlight("tx", tabs)]
    BY <2>4, ZenonT(30) DEF DbOpened
  <2>6. \A i \in 1..Len(flights) :
           /\ flights'[i] \in Flight
           /\ flights'[i].rows = flights[i].rows \/ DOMAIN flights'[i].rows = {}
    BY <2>2, <2>3, <2>4, <2>5, SMTT(30)
  <2>7. flights' \in [1..Len(flights) -> Flight]
    BY <2>5, <2>6, ZenonT(30)
  <2>8. flights' \in Seq(Flight) /\ Len(flights') = Len(flights)
    BY <2>4, <2>7, SMTT(30)
  <2> QED  BY <2>4, <2>6, <2>7, <2>8, ZenonT(30)
<1>3. Types'
  BY <1>1, <1>2, ZenonT(30) DEF StoreInv, Types, disk
<1>4. Waits'
  BY <1>1, <1>2, ZenonT(30) DEF StoreInv, Waits
<1>5. InOrder'
  <2>1. /\ \A j : Current(j)' = Current(j) /\ Excused(j)' = Excused(j)
        /\ stored' = stored /\ writes' = writes
    BY <1>1, ZenonT(30) DEF Current, Excused, disk
  <2> QED  BY <1>1, <1>2, <2>1, ZenonT(30) DEF StoreInv, InOrder
<1> QED  BY <1>3, <1>4, <1>5, ZenonT(30) DEF StoreInv

\* Opening it failed: the flushes that waited for it are gone.
LEMMA DbFailedKeeps ==
  ASSUME StoreInv, DbFailed
  PROVE  StoreInv'
<1>1. /\ up /\ up' /\ db = "opening" /\ db' = "none" /\ restore' = "done" /\ loaded'
      /\ flights' = <<>> /\ blind' = (blind \/ restore = "db")
      /\ UNCHANGED <<sharedJars, dirty, cookieFlushTimer, stateFlushTimer, tabs, disk,
                     writes, erased>>
  BY ZenonT(30) DEF DbFailed, loaded
<1>2. flights' \in Seq(Flight) /\ Len(flights') = 0 /\ DOMAIN flights' = {}
  BY <1>1, SMTT(30)
<1>3. lost' \in SUBSET Jars
  <2>1. \A i \in DOMAIN flights : DOMAIN flights[i].rows \in SUBSET Jars
    BY TypesImply, ZenonT(30) DEF StoreInv, TypeOK
  <2> QED  BY <2>1, SMTT(30) DEF DbFailed, JarsIn, StoreInv, Types
<1>4. Types'
  BY <1>1, <1>2, <1>3, BoundsAssumption, SMTT(30) DEF StoreInv, Types, disk
<1>5. Waits'
  BY <1>1, ZenonT(30) DEF Waits
<1>6. ASSUME NEW j \in Jars
      PROVE  Follows(Excused(j)', stored[j], Current(j)')
  <2>1. CASE blind'
    BY <1>1, <2>1, ZenonT(30) DEF Follows, Excused, Current, StoreInv, InOrder
  <2>2. CASE ~blind'
    <3>1. loaded /\ Excused(j)' = Excused(j) /\ Current(j)' = Current(j)
      BY <1>1, <2>2, ZenonT(30) DEF loaded, StoreInv, Types, Waits, Excused, Current
    <3> QED  BY <3>1, ZenonT(30) DEF StoreInv, InOrder
  <2> QED  BY <2>1, <2>2, ZenonT(30)
<1>7. InOrder'
  BY <1>1, <1>2, <1>6, ZenonT(30) DEF InOrder, StoreInv, disk
<1> QED  BY <1>4, <1>5, <1>7, ZenonT(30) DEF StoreInv

-----------------------------------------------------------------------------

\* Nothing is stored and nothing under way.
LEMMA StoreInvInit == Init => StoreInv
<1> SUFFICES ASSUME Init PROVE StoreInv
  BY ZenonT(30)
<1>1. NoRecords \in Records /\ [records |-> NoRecords, asOf |-> 0] \in Row
  BY BoundsAssumption, SMTT(30) DEF NoRecords, Records, Row
<1>2. Types
  <2>1. flights = <<>> /\ flights \in Seq(Flight) /\ Len(flights) <= MaxFlights
    BY BoundsAssumption, SMTT(30) DEF Init
  <2>2. sharedJars \in [Jars -> Records] /\ stored \in [Jars -> Row]
    BY <1>1, ZenonT(30) DEF Init
  <2>3. writes \in 0..MaxWrites
    BY BoundsAssumption, SMTT(30) DEF Init
  <2> QED  BY <2>1, <2>2, <2>3, ZenonT(30) DEF Init, Types
<1>3. Waits
  BY SMTT(30) DEF Init, Waits, loaded
<1>4. InOrder
  BY SMTT(30) DEF Init, InOrder, loaded
<1> QED  BY <1>2, <1>3, <1>4, ZenonT(30) DEF StoreInv

\* Every step keeps the order of the rows.
LEMMA StoreInvStep == StoreInv /\ [Next]_vars => StoreInv'
<1> SUFFICES ASSUME StoreInv, [Next]_vars PROVE StoreInv'
  BY ZenonT(30)
<1> USE DEF counters
<1>1. CASE Start
  <2>1. /\ up' = TRUE /\ db' = "opening" /\ db # "open"
        /\ UNCHANGED <<restore, sharedJars, dirty, cookieFlushTimer, stateFlushTimer, tabs,
                       flights, disk, writes, history>>
        /\ stateFlushTimer' \in BOOLEAN /\ tabs' \in SUBSET Tabs
    BY <1>1, ZenonT(30) DEF Start, StoreInv, Types, Waits
  <2> QED  BY <2>1, RowsKept, ZenonT(30)
<1>2. CASE End
  BY <1>2, EndKeeps, ZenonT(30)
<1>3. ASSUME NEW j \in Jars, NEW c \in Cookies, SetCookie(j, c) \/ EraseCookie(j, c)
      PROVE  StoreInv'
  BY <1>3, WriteKeeps, ZenonT(30)
<1>4. ASSUME NEW t \in Tabs, createTab(t) PROVE StoreInv'
  <2>1. /\ up' = TRUE /\ UNCHANGED <<db, restore, sharedJars, dirty, cookieFlushTimer,
                                    flights, disk, writes, history>>
        /\ stateFlushTimer' \in BOOLEAN /\ tabs' \in SUBSET Tabs
        /\ db' \in {"none", "opening", "open"}
    BY <1>4, ZenonT(30) DEF createTab, StoreInv, Types
  <2> QED  BY <2>1, RowsKept, ZenonT(30)
<1>5. CASE CookieTimer
  <2>1. Len(flights) + Len(JarFlush) <= MaxFlights
    BY <1>5, FlushesFresh, BoundsAssumption, SMTT(30) DEF CookieTimer, StoreInv, Types
  <2>2. db' \in {"none", "opening", "open"} /\ (db = "open" => db' = "open")
    BY <1>5, ZenonT(30) DEF CookieTimer, Opened, StoreInv, Types
  <2> QED  BY <1>5, <2>1, <2>2, FlushesFresh, FlushTaken, ZenonT(30) DEF CookieTimer, history, StoreInv, Types
<1>6. CASE StateTimer
  <2>1. Len(flights) + Len(StateFlush) <= MaxFlights
    BY <1>6, FlushesFresh, BoundsAssumption, SMTT(30), Z3T(30) DEF StateTimer, StoreInv, Types
  <2>2. db' \in {"none", "opening", "open"} /\ (db = "open" => db' = "open")
    BY <1>6, ZenonT(30) DEF StateTimer, Opened, StoreInv, Types
  <2> QED  BY <1>6, <2>1, <2>2, FlushesFresh, FlushTaken, ZenonT(30) DEF StateTimer, history, StoreInv, Types
<1>7. CASE FlushBoth
  <2>1. Len(flights) + Len(JarFlush \o StateFlush) <= MaxFlights
    BY <1>7, FlushesFresh, BoundsAssumption, SMTT(30), Z3T(30) DEF FlushBoth, StoreInv, Types
  <2>2. db' \in {"none", "opening", "open"} /\ (db = "open" => db' = "open")
    BY <1>7, ZenonT(30) DEF FlushBoth, Opened, StoreInv, Types
  <2>3. flights' = flights \o (JarFlush \o StateFlush)
    <3>1. flights' = (flights \o JarFlush) \o StateFlush
      BY <1>7, ZenonT(30) DEF FlushBoth
    <3>2. /\ flights \in Seq(Flight) /\ JarFlush \in Seq(Flight)
          /\ StateFlush \in Seq(Flight)
      BY FlushesFresh, ZenonT(30) DEF Fresh, StoreInv, Types
    <3> QED  BY <3>1, <3>2, SMTT(30), Z3T(30)
  <2> QED  BY <1>7, <2>1, <2>2, <2>3, FlushesFresh, FlushTaken, ZenonT(30) DEF FlushBoth, history, StoreInv, Types
<1>8. CASE DbOpened
  BY <1>8, DbOpenedKeeps, ZenonT(30)
<1>9. CASE DbFailed
  BY <1>9, DbFailedKeeps, ZenonT(30)
<1>10. CASE RestoreRead \/ RestoreFailed
  BY <1>10, RestoreKeeps, ZenonT(30)
<1>11. CASE TxCommit
  BY <1>11, FlightLeaves, ZenonT(30) DEF TxCommit, history, StoreInv, Types
<1>12. CASE TxFailed
  <2>1. lost' \in SUBSET Jars
    <3>1. /\ lost \in SUBSET Jars /\ 1 \in DOMAIN flights /\ Head(flights) = flights[1]
          /\ \A i \in DOMAIN flights : DOMAIN flights[i].rows \in SUBSET Jars
      BY <1>12, Taken, TypesImply, ZenonT(30) DEF TxFailed, StoreInv, Types, TypeOK
    <3>2. JarsIn(<<Head(flights)>>) \in SUBSET Jars
      BY <3>1, SMTT(30) DEF JarsIn
    <3> QED  BY <1>12, <3>1, <3>2, ZenonT(30) DEF TxFailed
  <2> QED  BY <1>12, <2>1, FlightLeaves, ZenonT(30) DEF TxFailed
<1>13. CASE UNCHANGED vars
  <2>1. /\ \A j : Current(j)' = Current(j) /\ Excused(j)' = Excused(j)
        /\ (loaded' <=> loaded)
    BY <1>13, ZenonT(30) DEF vars, memory, history, Current, Excused, loaded
  <2>2. Types' /\ Waits'
    BY <1>13, <2>1, ZenonT(30) DEF vars, memory, disk, history, StoreInv, Types, Waits
  <2>3. InOrder'
    BY <1>13, <2>1, ZenonT(30) DEF vars, memory, disk, StoreInv, InOrder
  <2> QED  BY <2>2, <2>3, ZenonT(30) DEF StoreInv
<1> QED  BY <1>1, <1>2, <1>3, <1>4, <1>5, <1>6, <1>7, <1>8, <1>9, <1>10, <1>11, <1>12, <1>13, ZenonT(30)
         DEF Next

\* The invariant always holds.
LEMMA StoreInvariance == Spec => []StoreInv
BY StoreInvInit, StoreInvStep, PTL DEF Spec

\* What a step puts into the store is what was there or the row of a flush.
LEMMA StoredFrom ==
  ASSUME StoreInv, [Next]_vars, NEW j \in Jars
  PROVE  \/ stored'[j] = stored[j]
         \/ \E i \in DOMAIN flights :
               j \in DOMAIN flights[i].rows /\ stored'[j] = flights[i].rows[j]
<1>1. CASE End
  <2>1. PICK kept \in SUBSET DOMAIN flights : stored' = RowsAfter(kept)
    BY <1>1, ZenonT(30) DEF End
  <2> QED  BY <2>1, PutRows, ZenonT(30) DEF StoreInv
<1>2. CASE TxCommit
  <2>1. 1 \in DOMAIN flights
    BY <1>2, Taken, ZenonT(30) DEF TxCommit, StoreInv, Types
  <2>2. stored' = RowsAfter({1})
    BY <1>2, ZenonT(30) DEF TxCommit
  <2> QED  BY <2>1, <2>2, PutRows, SMTT(30) DEF StoreInv
<1>3. CASE UNCHANGED stored
  BY <1>3, ZenonT(30)
<1> QED  BY <1>1, <1>2, <1>3, ZenonT(30) DEF Next, vars, disk, Start, SetCookie, EraseCookie, createTab,
            CookieTimer, StateTimer, FlushBoth, DbOpened, DbFailed, RestoreRead,
            RestoreFailed, TxFailed

\* A cookie that was erased comes back by a write.
LEMMA ErasedStays ==
  ASSUME StoreInv, [Next]_vars, NEW j \in Jars, NEW c \in Cookies, <<j, c>> \in erased,
         sharedJars[j][c] = 0, sharedJars'[j][c] # 0
  PROVE  writes' > writes
<1>1. ASSUME NEW i \in Jars, NEW a \in Cookies, SetCookie(i, a) \/ EraseCookie(i, a)
      PROVE  writes' > writes
  BY <1>1, BoundsAssumption, SMTT(30), Z3T(30) DEF SetCookie, EraseCookie, StoreInv, Types
<1>2. CASE RestoreRead
  BY <1>2, ZenonT(30) DEF RestoreRead, StoreInv, Waits, loaded
<1>3. CASE End
  BY <1>3, ZenonT(30) DEF End, NoRecords
<1>4. CASE UNCHANGED sharedJars
  BY <1>4, ZenonT(30)
<1> QED  BY <1>1, <1>2, <1>3, <1>4, ZenonT(30) DEF Next, vars, memory, Start, createTab, CookieTimer,
            StateTimer, FlushBoth, DbOpened, DbFailed, RestoreFailed, TxCommit, TxFailed

\* The mirror of the jars moves forward, for any jars, cookies and tabs, any
\* number of flushes under way and any crash of the worker: flushDirtyJarsToIDB
\* never puts an older row over a younger one, the restore undoes no erasure,
\* and a stored cookie is lost only by its erasure or by a failed restore.
THEOREM StoreForward == Spec => StoreMovesForward
<1>1. ASSUME StoreInv, StoreInv', [Next]_vars PROVE Forward
  <2>1. TypeOK'
    BY <1>1, TypesImply, PTL DEF StoreInv
  <2>2. ASSUME NEW j \in Jars, NEW c \in Cookies, <<j, c>> \in erased,
               sharedJars[j][c] = 0, sharedJars'[j][c] # 0
        PROVE  writes' > writes
    BY <1>1, <2>2, ErasedStays, ZenonT(30)
  <2>3. ASSUME NEW j \in Jars
        PROVE  /\ stored'[j].asOf >= stored[j].asOf
               /\ \A c \in Cookies : stored[j].records[c] # 0 /\ stored'[j].records[c] = 0
                      => blind \/ <<j, c>> \in erased
    <3>1. CASE stored'[j] = stored[j]
      <4>1. stored[j].asOf \in Nat
        BY <1>1, BoundsAssumption, SMTT(30) DEF StoreInv, Types, Row
      <4> QED  BY <3>1, <4>1, SMTT(30)
    <3>2. ASSUME NEW i \in DOMAIN flights, j \in DOMAIN flights[i].rows,
                 stored'[j] = flights[i].rows[j]
          PROVE  /\ stored'[j].asOf >= stored[j].asOf
                 /\ \A c \in Cookies : stored[j].records[c] # 0 /\ stored'[j].records[c] = 0
                        => blind \/ <<j, c>> \in erased
      <4>1. Follows(Excused(j), stored[j], stored'[j])
        BY <1>1, <3>2, ZenonT(30) DEF StoreInv, InOrder
      <4>2. stored[j].asOf \in Nat /\ stored'[j].asOf \in Nat
        BY <1>1, BoundsAssumption, SMTT(30), Z3T(30) DEF StoreInv, Types, Row
      <4> QED  BY <4>1, <4>2, ZenonT(30) DEF Follows, Excused
    <3> QED  BY <1>1, <3>1, <3>2, StoredFrom, ZenonT(30)
  <2> QED  BY <2>1, <2>2, <2>3, ZenonT(30) DEF Forward
<1>2. StoreInv /\ StoreInv' /\ [Next]_vars => [Forward]_vars
  BY <1>1, ZenonT(30)
<1> QED  BY <1>2, StoreInvariance, PTL DEF Spec, StoreMovesForward

-----------------------------------------------------------------------------
(* The documents' views: the inductive invariant.                          *)

Ids == V!Ids
Own(p) == V!Own(p)
Elems(s) == V!Range(s)

Request ==
  [st: {"idle", "waiting", "sent", "fetching", "answered"}, sync: BOOLEAN, wait: SUBSET Ids,
   carried: Seq(Ids), must: SUBSET Ids, delta: Seq(Ids)]
Batch == [changes: Seq(Ids), source: Pages \cup {Target}]

ViewTypes ==
  /\ made \in 0..MaxMade /\ author \in [Ids -> Pages \cup {Target}]
  /\ log \in Seq(Ids) /\ seen \subseteq Ids /\ batches \in Seq(Batch)
  /\ page \in [Pages -> {"none", "loading", "ready"}] /\ view \in [Pages -> 0..MaxMade]
  /\ applied \in [Pages -> SUBSET Ids] /\ missed \in [Pages -> SUBSET Ids]
  /\ outbox \in [Pages -> Seq(Ids)] /\ acks \in [Pages -> SUBSET Ids]
  /\ inFlight \in [Pages -> Seq(Ids)] /\ pushed \in [Pages -> Seq(Seq(Ids))]
  /\ req \in [Pages -> Request]

\* The jar has each write once, a page's with its id.
LogOK ==
  /\ V!IsInjective(log) /\ Elems(log) \subseteq 1..made
  /\ \A w \in Ids : w > made => author[w] = Target
  /\ seen \subseteq Elems(log)
  /\ \A w \in Elems(log) : author[w] # Target => w \in seen

\* A push that is due leaves out the page whose writes it has.
BatchesOK ==
  \A p \in Pages, i \in 1..Len(batches) :
    batches[i].source = p => Elems(batches[i].changes) \subseteq Own(p)

\* The writes of a page have reached the jar (known), or are in flight.
WritesOK(own, out, ack, flight, known) ==
  /\ Elems(out) \subseteq own /\ ack \subseteq own /\ ack \subseteq known
  /\ Elems(flight) \subseteq own /\ V!IsInjective(flight)
  /\ own \subseteq Elems(flight) \cup known

\* What its request must show has reached the jar, or travels with the request.
RequestOK(own, flight, known, q) ==
  /\ Elems(q.carried) \subseteq own /\ V!IsInjective(q.carried)
  /\ q.st = "waiting" => /\ q.must \subseteq q.wait \cup known
                         /\ q.wait \subseteq Elems(flight) \cup known
  /\ q.st = "sent" => q.must \subseteq Elems(q.carried) \cup known
  /\ q.st = "fetching" => q.must \subseteq known

PageOK(p) ==
  /\ WritesOK(Own(p), outbox[p], acks[p], inFlight[p], seen)
  /\ RequestOK(Own(p), inFlight[p], seen, req[p])

\* Page p has a change, or it is on its way there: in a push that is due (bs) or
\* one that was posted (ps).
Told(p, w, has, bs, ps) ==
  \/ w \in has
  \/ \E i \in 1..Len(bs) : bs[i].source # p /\ w \in Elems(bs[i].changes)
  \/ \E i \in 1..Len(ps) : w \in Elems(ps[i])
Has(p) == Own(p) \cup applied[p] \cup missed[p]
AllTold ==
  \A p \in Pages : page[p] # "none" =>
    \A w \in Elems(log) : Told(p, w, Has(p), batches, pushed[p])

ViewInv == ViewTypes /\ LogOK /\ BatchesOK /\ (\A p \in Pages : PageOK(p)) /\ AllTold

-----------------------------------------------------------------------------
(* Sequences of writes.                                                    *)

\* What a sequence has after an element, or another sequence, is added.
LEMMA ElemsAppend ==
  ASSUME NEW T, NEW s \in Seq(T), NEW e \in T
  PROVE  /\ Elems(Append(s, e)) = Elems(s) \cup {e} /\ Append(s, e) \in Seq(T)
         /\ V!IsInjective(s) /\ e \notin Elems(s) => V!IsInjective(Append(s, e))
<1>1. /\ Append(s, e) \in Seq(T) /\ Len(Append(s, e)) = Len(s) + 1 /\ Len(s) \in Nat
      /\ \A i \in 1..Len(s) : Append(s, e)[i] = s[i]
      /\ Append(s, e)[Len(s) + 1] = e
      /\ DOMAIN Append(s, e) = 1..(Len(s) + 1) /\ DOMAIN s = 1..Len(s)
  BY SMTT(30)
<1> HIDE DEF Append
<1>2. \A i \in 1..(Len(s) + 1) : i \in 1..Len(s) \/ i = Len(s) + 1
  BY <1>1, SMTT(30)
<1>3. 1..Len(s) \subseteq 1..(Len(s) + 1) /\ Len(s) + 1 \in 1..(Len(s) + 1)
  BY <1>1, SMTT(30)
<1>4. Elems(Append(s, e)) = Elems(s) \cup {e}
  BY <1>1, <1>2, <1>3, ZenonT(30) DEF Elems, V!Range
<1>5. V!IsInjective(s) /\ e \notin Elems(s) => V!IsInjective(Append(s, e))
  BY <1>1, <1>2, ZenonT(30) DEF Elems, V!Range, V!IsInjective
<1> QED BY <1>1, <1>4, <1>5, ZenonT(30)

\* What two sequences have, one after the other.
LEMMA ElemsConcat ==
  ASSUME NEW T, NEW s \in Seq(T), NEW t \in Seq(T)
  PROVE  /\ Elems(s \o t) = Elems(s) \cup Elems(t) /\ s \o t \in Seq(T)
         /\ V!IsInjective(s) /\ V!IsInjective(t) /\ Elems(s) \cap Elems(t) = {} => V!IsInjective(s \o t)
<1> DEFINE u == s \o t
<1>1. /\ u \in Seq(T) /\ Len(u) = Len(s) + Len(t) /\ Len(s) \in Nat /\ Len(t) \in Nat
      /\ \A i \in 1..Len(u) : u[i] = IF i <= Len(s) THEN s[i] ELSE t[i - Len(s)]
      /\ DOMAIN u = 1..Len(u) /\ DOMAIN s = 1..Len(s) /\ DOMAIN t = 1..Len(t)
  BY SMTT(30)
<1> HIDE DEF u
<1>2. \A i \in 1..Len(s) : i \in 1..Len(u) /\ u[i] = s[i]
  BY <1>1, SMTT(30), Z3T(30)
<1>3. \A j \in 1..Len(t) : j + Len(s) \in 1..Len(u) /\ u[j + Len(s)] = t[j]
  <2>1. ASSUME NEW j \in 1..Len(t)
        PROVE  j + Len(s) \in 1..Len(u) /\ ~(j + Len(s) <= Len(s)) /\ (j + Len(s)) - Len(s) = j
    BY <1>1, SMTT(30)
  <2> QED BY <1>1, <2>1, ZenonT(30)
<1>4. \A i \in 1..Len(u) : i \in 1..Len(s) \/ \E j \in 1..Len(t) : i = j + Len(s)
  <2>1. ASSUME NEW i \in 1..Len(u), i \notin 1..Len(s) PROVE i - Len(s) \in 1..Len(t) /\ i = (i - Len(s)) + Len(s)
    BY <1>1, <2>1, SMTT(30)
  <2> QED BY <2>1, ZenonT(30)
<1>5. Elems(u) = Elems(s) \cup Elems(t)
  <2>1. ASSUME NEW x \in Elems(u) PROVE x \in Elems(s) \cup Elems(t)
    <3>1. PICK i \in 1..Len(u) : x = u[i]
      BY <1>1, ZenonT(30) DEF Elems, V!Range
    <3>2. CASE i \in 1..Len(s)
      BY <1>1, <1>2, <3>1, <3>2, ZenonT(30) DEF Elems, V!Range
    <3>3. ASSUME NEW j \in 1..Len(t), i = j + Len(s) PROVE x \in Elems(t)
      BY <1>1, <1>3, <3>1, <3>3, ZenonT(30) DEF Elems, V!Range
    <3> QED BY <1>4, <3>2, <3>3, ZenonT(30)
  <2>2. ASSUME NEW x \in Elems(s) PROVE x \in Elems(u)
    <3>1. PICK i \in 1..Len(s) : x = s[i]
      BY <1>1, ZenonT(30) DEF Elems, V!Range
    <3>2. i \in DOMAIN u /\ x = u[i]
      BY <1>1, <1>2, <3>1, ZenonT(30)
    <3> QED BY <3>2, ZenonT(30) DEF Elems, V!Range
  <2>3. ASSUME NEW x \in Elems(t) PROVE x \in Elems(u)
    <3>1. PICK j \in 1..Len(t) : x = t[j]
      BY <1>1, ZenonT(30) DEF Elems, V!Range
    <3>2. j + Len(s) \in DOMAIN u /\ x = u[j + Len(s)]
      BY <1>1, <1>3, <3>1, ZenonT(30)
    <3> QED BY <3>2, ZenonT(30) DEF Elems, V!Range
  <2> QED BY <2>1, <2>2, <2>3, ZenonT(30)
<1>6. ASSUME V!IsInjective(s), V!IsInjective(t), Elems(s) \cap Elems(t) = {} PROVE V!IsInjective(u)
  <2> SUFFICES ASSUME NEW a \in 1..Len(u), NEW b \in 1..Len(u), u[a] = u[b] PROVE a = b
    BY <1>1, ZenonT(30) DEF V!IsInjective
  <2>1. \A i \in 1..Len(s), j \in 1..Len(t) : s[i] # t[j]
    BY <1>1, <1>6, ZenonT(30) DEF Elems, V!Range
  <2>2. CASE a \in 1..Len(s) /\ b \in 1..Len(s)
    BY <1>1, <1>2, <1>6, <2>2, ZenonT(30) DEF V!IsInjective
  <2>3. ASSUME NEW i \in 1..Len(t), NEW j \in 1..Len(t), a = i + Len(s), b = j + Len(s) PROVE a = b
    BY <1>1, <1>3, <1>6, <2>3, ZenonT(30) DEF V!IsInjective
  <2>4. ASSUME NEW i \in 1..Len(s), NEW j \in 1..Len(t), NEW k \in 1..Len(u), k = j + Len(s) PROVE u[i] # u[k]
    BY <1>2, <1>3, <2>1, <2>4, ZenonT(30)
  <2>5. CASE a \in 1..Len(s) /\ b \notin 1..Len(s)
    BY <1>4, <2>4, <2>5, ZenonT(30)
  <2>6. CASE a \notin 1..Len(s) /\ b \in 1..Len(s)
    BY <1>4, <2>4, <2>6, ZenonT(30)
  <2>7. CASE a \notin 1..Len(s) /\ b \notin 1..Len(s)
    BY <1>4, <2>3, <2>7, ZenonT(30)
  <2> QED BY <2>2, <2>5, <2>6, <2>7, ZenonT(30)
<1> QED BY <1>1, <1>5, <1>6, ZenonT(30) DEF u

\* The first element and the others.
LEMMA ElemsTail ==
  ASSUME NEW T, NEW s \in Seq(T), s # << >>
  PROVE  /\ Head(s) \in T /\ Tail(s) \in Seq(T) /\ Elems(s) = {Head(s)} \cup Elems(Tail(s))
         /\ Len(s) \in Nat \ {0} /\ Len(Tail(s)) = Len(s) - 1 /\ Head(s) = s[1]
         /\ \A i \in 1..Len(Tail(s)) : Tail(s)[i] = s[i + 1] /\ i + 1 \in 1..Len(s)
         /\ \A i \in 1..Len(s) : i # 1 => i - 1 \in 1..Len(Tail(s)) /\ s[i] = Tail(s)[i - 1]
<1>1. /\ Tail(s) \in Seq(T) /\ Len(Tail(s)) = Len(s) - 1 /\ Len(s) \in Nat \ {0} /\ Head(s) = s[1]
      /\ \A i \in 1..Len(Tail(s)) : Tail(s)[i] = s[i + 1]
      /\ DOMAIN Tail(s) = 1..Len(Tail(s)) /\ DOMAIN s = 1..Len(s) /\ s[1] \in T
  BY SMTT(30)
<1>2. \A i \in 1..Len(Tail(s)) : i + 1 \in 1..Len(s)
  BY <1>1, SMTT(30)
<1>3. \A i \in 1..Len(s) : i # 1 => i - 1 \in 1..Len(Tail(s)) /\ s[i] = Tail(s)[i - 1]
  <2>1. ASSUME NEW i \in 1..Len(s), i # 1 PROVE i - 1 \in 1..Len(Tail(s)) /\ (i - 1) + 1 = i
    BY <1>1, <2>1, SMTT(30)
  <2> QED BY <1>1, <2>1, ZenonT(30)
<1>4. 1 \in 1..Len(s)
  BY <1>1, SMTT(30)
<1>5. Elems(s) = {Head(s)} \cup Elems(Tail(s))
  <2>1. ASSUME NEW x \in Elems(s) PROVE x \in {Head(s)} \cup Elems(Tail(s))
    <3>1. PICK i \in 1..Len(s) : x = s[i]
      BY <1>1, ZenonT(30) DEF Elems, V!Range
    <3>2. i # 1 => x \in Elems(Tail(s))
      BY <1>1, <1>3, <3>1, ZenonT(30) DEF Elems, V!Range
    <3> QED BY <1>1, <3>1, <3>2, ZenonT(30)
  <2>2. ASSUME NEW x \in Elems(Tail(s)) PROVE x \in Elems(s)
    <3>1. PICK i \in 1..Len(Tail(s)) : x = Tail(s)[i]
      BY <1>1, ZenonT(30) DEF Elems, V!Range
    <3>2. i + 1 \in 1..Len(s) /\ x = s[i + 1]
      BY <1>1, <1>2, <3>1, ZenonT(30)
    <3> QED BY <1>1, <3>2, ZenonT(30) DEF Elems, V!Range
  <2>3. Head(s) \in Elems(s)
    BY <1>1, <1>4, ZenonT(30) DEF Elems, V!Range
  <2> QED BY <2>1, <2>2, <2>3, ZenonT(30)
<1> QED BY <1>1, <1>2, <1>3, <1>5, ZenonT(30)

\* A sequence of one element, or of none.
LEMMA ElemsFew ==
  ASSUME NEW w
  PROVE  /\ Elems(<< >>) = {} /\ V!IsInjective(<< >>)
         /\ Elems(<<w>>) = {w} /\ V!IsInjective(<<w>>)
<1>1. DOMAIN <<w>> = {1} /\ <<w>>[1] = w
  BY SMTT(30)
<1> QED BY <1>1, SMTT(30) DEF Elems, V!Range, V!IsInjective

\* The latest writes of a sequence.
LEMMA ElemsSub ==
  ASSUME NEW T, NEW s \in Seq(T), NEW m \in 1..(Len(s) + 1)
  PROVE  LET u == SubSeq(s, m, Len(s))
         IN  u \in Seq(T) /\ Elems(u) \subseteq Elems(s) /\ (V!IsInjective(s) => V!IsInjective(u))
<1> DEFINE u == SubSeq(s, m, Len(s))
<1>1. Len(s) \in Nat /\ DOMAIN s = 1..Len(s) /\ u = [i \in 1..(Len(s) + 1 - m) |-> s[i + m - 1]]
  BY SMTT(30)
<1>2. \A i \in 1..(Len(s) + 1 - m) : i + m - 1 \in 1..Len(s)
  BY <1>1, SMTT(30)
<1>3. \A i, j \in 1..(Len(s) + 1 - m) : i + m - 1 = j + m - 1 => i = j
  BY <1>1, SMTT(30)
<1> HIDE DEF u
<1>4. u \in Seq(T)
  <2>1. Len(s) + 1 - m \in Nat /\ \A i \in 1..Len(s) : s[i] \in T
    BY <1>1, SMTT(30)
  <2>2. u \in [1..(Len(s) + 1 - m) -> T]
    BY <1>1, <1>2, <2>1, ZenonT(30)
  <2> QED BY <2>1, <2>2, SMTT(30)
<1>5. DOMAIN u = 1..(Len(s) + 1 - m) /\ \A i \in DOMAIN u : u[i] = s[i + m - 1]
  BY <1>1, ZenonT(30)
<1>6. Elems(u) \subseteq Elems(s)
  BY <1>1, <1>2, <1>5, ZenonT(30) DEF Elems, V!Range
<1>7. V!IsInjective(s) => V!IsInjective(u)
  <2> SUFFICES ASSUME V!IsInjective(s), NEW a \in DOMAIN u, NEW b \in DOMAIN u, u[a] = u[b] PROVE a = b
    BY ZenonT(30) DEF V!IsInjective
  <2>1. /\ a + m - 1 \in DOMAIN s /\ b + m - 1 \in DOMAIN s /\ s[a + m - 1] = s[b + m - 1]
        /\ a + m - 1 = b + m - 1 => a = b
    BY <1>1, <1>2, <1>3, <1>5, ZenonT(30)
  <2> QED BY <2>1, ZenonT(30) DEF V!IsInjective
<1> QED BY <1>4, <1>6, <1>7, ZenonT(30) DEF u

\* Every set of naturals that is not empty has a least element.
LEMMA LeastElement ==
  ASSUME NEW S, S \subseteq Nat, S # {}
  PROVE  \E m \in S : \A y \in S : m <= y
<1>1. \E x \in S : \A y \in S : ~(<<y, x>> \in OpToRel(<, Nat))
  BY NatLessThanWellFounded, WFMin, ZenonT(30)
<1>2. PICK x \in S : \A y \in S : ~(<<y, x>> \in OpToRel(<, Nat))
  BY <1>1, ZenonT(30)
<1>3. ASSUME NEW y \in S PROVE x <= y
  <2>1. x \in Nat /\ y \in Nat /\ ~(y < x)
    BY <1>2, ZenonT(30) DEF OpToRel
  <2> QED BY <2>1, SMTT(30)
<1> QED BY <1>2, <1>3, ZenonT(30)

\* One round of the loop that without stands for.
Round(s, S, h, i) ==
  IF i = 0 THEN << >> ELSE IF s[i] \in S THEN h[i - 1] ELSE Append(h[i - 1], s[i])

\* The loop ends: its rounds form a function on every initial segment.
LEMMA RoundsExist ==
  ASSUME NEW s, NEW S, NEW m \in Nat
  PROVE  \E h : h = [i \in 0..m |-> Round(s, S, h, i)]
<1> DEFINE Runs(k) == \E h : h = [i \in 0..k |-> Round(s, S, h, i)]
<1> DEFINE Bad == {k \in Nat : ~Runs(k)}
<1>1. SUFFICES ASSUME Bad # {} PROVE FALSE
  <2>1. m \notin Bad => Runs(m)
    BY ZenonT(30)
  <2> QED BY <2>1, ZenonT(30)
<1>2. PICK k \in Bad : \A y \in Bad : k <= y
  BY <1>1, LeastElement, ZenonT(30)
<1>3. k # 0
  <2>1. Runs(0)
    <3> DEFINE g == [i \in 0..0 |-> << >>]
    <3>1. g = [i \in 0..0 |-> Round(s, S, g, i)]
      BY SMTT(30) DEF Round
    <3> QED BY <3>1, ZenonT(30)
  <2> QED BY <1>2, <2>1, ZenonT(30)
<1>4. k - 1 \in Nat /\ ~(k <= k - 1)
  BY <1>2, <1>3, SMTT(30)
<1>5. Runs(k - 1)
  <2> HIDE DEF Runs
  <2> QED BY <1>2, <1>4, ZenonT(30)
<1>6. PICK h : h = [i \in 0..(k - 1) |-> Round(s, S, h, i)]
  BY <1>5, ZenonT(30)
<1> DEFINE g == [i \in 0..k |-> IF i = k THEN Round(s, S, h, k) ELSE h[i]]
<1>7. ASSUME NEW i \in 0..k PROVE g[i] = Round(s, S, g, i)
  <2>1. i # 0 => i - 1 \in 0..(k - 1) /\ g[i - 1] = h[i - 1]
    BY <1>2, SMTT(30)
  <2>2. Round(s, S, g, i) = Round(s, S, h, i)
    BY <2>1, SMTT(30), Z3T(30) DEF Round
  <2>3. i # k => i \in 0..(k - 1)
    BY <1>2, SMTT(30)
  <2>4. i # k => g[i] = h[i] /\ h[i] = Round(s, S, h, i)
    BY <1>6, <2>3, ZenonT(30)
  <2>5. i = k => g[i] = Round(s, S, h, i)
    BY ZenonT(30)
  <2> QED BY <2>2, <2>4, <2>5, ZenonT(30)
<1>8. g = [i \in 0..k |-> Round(s, S, g, i)]
  <2> DEFINE e == [i \in 0..k |-> Round(s, S, g, i)]
  <2>1. \A i \in 0..k : g[i] = e[i]
    BY <1>7, ZenonT(30)
  <2> QED BY <2>1, ZenonT(30)
<1>9. Runs(k)
  BY <1>8, ZenonT(30)
<1> QED BY <1>2, <1>9, ZenonT(30)

\* without takes exactly the elements of S out.
LEMMA WithoutElems ==
  ASSUME NEW T, NEW s \in Seq(T), NEW S
  PROVE  /\ V!without(s, S) \in Seq(T) /\ Elems(V!without(s, S)) = Elems(s) \ S
         /\ V!IsInjective(s) => V!IsInjective(V!without(s, S))
<1> DEFINE kept == CHOOSE h : h = [i \in 0..Len(s) |-> Round(s, S, h, i)]
<1>1. Len(s) \in Nat /\ DOMAIN s = 1..Len(s) /\ \A i \in 1..Len(s) : s[i] \in T
  BY SMTT(30)
<1>2. kept = [i \in 0..Len(s) |-> Round(s, S, kept, i)]
  <2>1. \E h : h = [i \in 0..Len(s) |-> Round(s, S, h, i)]
    BY <1>1, RoundsExist, ZenonT(30)
  <2> QED BY <2>1, ZenonT(30)
<1>3. V!without(s, S) = kept[Len(s)]
  BY ZenonT(30) DEF V!without, Round
<1> HIDE DEF kept
<1>4. \A i \in 0..Len(s) : kept[i] = Round(s, S, kept, i)
  BY <1>2, ZenonT(30)
<1> DEFINE First(i) == {s[j] : j \in 1..i}
           Good(i) == /\ kept[i] \in Seq(T) /\ Elems(kept[i]) = First(i) \ S
                      /\ V!IsInjective(s) => V!IsInjective(kept[i])
<1>5. \A i \in 0..Len(s) : Good(i)
  <2> DEFINE Bad == {i \in Nat : i <= Len(s) /\ ~Good(i)}
  <2>1. SUFFICES ASSUME Bad # {} PROVE FALSE
    <3> HIDE DEF Good
    <3> QED BY <1>1, SMTT(30)
  <2>2. PICK k \in Bad : \A y \in Bad : k <= y
    BY <2>1, LeastElement, ZenonT(30)
  <2>3. k \in Nat /\ k \in 0..Len(s) /\ ~Good(k) /\ \A i \in Nat : i < k => Good(i)
    <3> HIDE DEF Good
    <3> QED BY <1>1, <2>2, SMTT(30)
  <2>4. k # 0
    <3>1. First(0) = {}
      BY SMTT(30)
    <3>2. kept[0] = << >>
      BY <1>1, <1>4, SMTT(30), Z3T(30) DEF Round
    <3>3. Good(0)
      <4>1. << >> \in Seq(T)
        BY SMTT(30)
      <4> QED BY <3>1, <3>2, <4>1, ElemsFew, ZenonT(30)
    <3> QED BY <2>3, <3>3, ZenonT(30)
  <2>5. k - 1 \in Nat /\ k - 1 < k /\ k \in 1..Len(s) /\ 1..k = 1..(k - 1) \cup {k} /\ k \notin 1..(k - 1)
        /\ 1..(k - 1) \subseteq 1..Len(s)
    BY <1>1, <2>3, <2>4, SMTT(30)
  <2>6. Good(k - 1)
    <3> HIDE DEF Good
    <3> QED BY <2>3, <2>5, ZenonT(30)
  <2>7. kept[k] = IF s[k] \in S THEN kept[k - 1] ELSE Append(kept[k - 1], s[k])
    BY <1>4, <2>3, <2>4, ZenonT(30) DEF Round
  <2>8. First(k) = First(k - 1) \cup {s[k]}
    BY <2>5, ZenonT(30)
  <2>9. V!IsInjective(s) => s[k] \notin First(k - 1)
    <3> SUFFICES ASSUME V!IsInjective(s), NEW i \in 1..(k - 1), s[i] = s[k] PROVE FALSE
      BY ZenonT(30)
    <3>1. i = k
      BY <1>1, <2>5, ZenonT(30) DEF V!IsInjective
    <3> QED BY <2>5, <3>1, ZenonT(30)
  <2> HIDE DEF First
  <2>10. CASE s[k] \in S
    BY <2>3, <2>6, <2>7, <2>8, <2>10, ZenonT(30)
  <2>11. CASE s[k] \notin S
    <3>1. s[k] \in T /\ kept[k - 1] \in Seq(T) /\ Elems(kept[k - 1]) = First(k - 1) \ S
      BY <1>1, <2>5, <2>6, ZenonT(30)
    <3>2. /\ Elems(kept[k]) = Elems(kept[k - 1]) \cup {s[k]} /\ kept[k] \in Seq(T)
          /\ V!IsInjective(kept[k - 1]) /\ s[k] \notin Elems(kept[k - 1]) => V!IsInjective(kept[k])
      <4>1. kept[k] = Append(kept[k - 1], s[k])
        BY <2>7, <2>11, ZenonT(30)
      <4>2. ASSUME NEW x \in Seq(T), NEW e \in T, NEW y, y = Append(x, e)
            PROVE  /\ Elems(y) = Elems(x) \cup {e} /\ y \in Seq(T)
                   /\ V!IsInjective(x) /\ e \notin Elems(x) => V!IsInjective(y)
        BY <4>2, ElemsAppend, SMTT(30)
      <4> HIDE DEF Good
      <4> QED BY <3>1, <4>1, <4>2, ZenonT(30)
    <3>3. Elems(kept[k]) = First(k) \ S
      BY <2>8, <2>11, <3>1, <3>2, ZenonT(30)
    <3>4. V!IsInjective(s) => V!IsInjective(kept[k])
      BY <2>6, <2>9, <3>1, <3>2, ZenonT(30)
    <3> QED BY <2>3, <3>2, <3>3, <3>4, ZenonT(30)
  <2> QED BY <2>10, <2>11, ZenonT(30)
<1>6. First(Len(s)) = Elems(s) /\ Len(s) \in 0..Len(s)
  BY <1>1, SMTT(30) DEF Elems, V!Range
<1> QED BY <1>3, <1>5, <1>6, ZenonT(30)

\* The last element.
LEMMA LastElem ==
  ASSUME NEW T, NEW s \in Seq(T), s # << >>
  PROVE  V!last(s) \in T /\ V!last(s) \in Elems(s)
<1>1. Len(s) \in DOMAIN s /\ s[Len(s)] \in T
  BY SMTT(30)
<1> QED BY <1>1, ZenonT(30) DEF V!last, Elems, V!Range

-----------------------------------------------------------------------------
(* What a step leaves of a page's state.                                   *)

\* Pages that a step does not touch, the jar having grown or not.
LEMMA PageKept ==
  ASSUME ViewInv, NEW p \in Pages, Own(p)' = Own(p), seen \subseteq seen',
         outbox'[p] = outbox[p], acks'[p] = acks[p], inFlight'[p] = inFlight[p], req'[p] = req[p]
  PROVE  PageOK(p)'
<1>1. PageOK(p)
  BY ZenonT(30) DEF ViewInv
<1>2. WritesOK(Own(p)', outbox'[p], acks'[p], inFlight'[p], seen')
  <2>1. WritesOK(Own(p), outbox[p], acks[p], inFlight[p], seen)
    BY <1>1, ZenonT(30) DEF PageOK
  <2> QED BY <2>1, ZenonT(30) DEF WritesOK
<1>3. RequestOK(Own(p)', inFlight'[p], seen', req'[p])
  <2>1. RequestOK(Own(p), inFlight[p], seen, req[p])
    BY <1>1, ZenonT(30) DEF PageOK
  <2> QED BY <2>1, ZenonT(30) DEF RequestOK
<1> QED BY <1>2, <1>3, ZenonT(30) DEF PageOK

\* What a page was told stays told when another push is due, or posted.
LEMMA ToldDue ==
  ASSUME NEW p, NEW w, NEW has, NEW bs \in Seq(Batch), NEW b \in Batch, NEW ps, Told(p, w, has, bs, ps)
  PROVE  Told(p, w, has, Append(bs, b), ps)
<1>1. \A i \in 1..Len(bs) : i \in 1..Len(Append(bs, b)) /\ Append(bs, b)[i] = bs[i]
  BY SMTT(30)
<1> QED BY <1>1, ZenonT(30) DEF Told

\* The writes a page has made, when none is added or the target adds one.
LEMMA OwnKept ==
  ASSUME ViewInv, author' = author, made' = made \/ (made' = made + 1 /\ made < MaxMade), NEW p \in Pages
  PROVE  Own(p)' = Own(p) /\ Own(p) \subseteq Ids /\ Own(p) \subseteq 1..made
<1>1. made \in Nat /\ MaxMade \in Nat /\ made <= MaxMade
  BY ViewAssumption, SMTT(30) DEF ViewInv, ViewTypes
<1>2. CASE made' = made
  BY <1>1, <1>2, SMTT(30) DEF Own, V!Own, Ids, V!Ids
<1>3. CASE made' = made + 1 /\ made < MaxMade
  <2>1. made + 1 \in Ids /\ made + 1 > made /\ 1..(made + 1) = 1..made \cup {made + 1} /\ 1..made \subseteq Ids
    BY <1>1, <1>3, SMTT(30) DEF Ids, V!Ids
  <2>2. author[made + 1] = Target
    BY <2>1, ZenonT(30) DEF ViewInv, LogOK
  <2>3. author[made + 1] # p
    BY <2>2, ViewAssumption, ZenonT(30)
  <2> QED BY <1>3, <2>1, <2>3, ZenonT(30) DEF Own, V!Own
<1> QED BY <1>2, <1>3, ZenonT(30)

-----------------------------------------------------------------------------
(* The worker's steps.                                                     *)

\* applyCookieWrites: writes of page p that were seen before are not applied
\* again, the others once, and every other page will hear of them.
LEMMA ApplyKeeps ==
  ASSUME ViewInv, NEW p \in Pages, NEW ws \in Seq(Ids), Elems(ws) \subseteq Own(p), V!IsInjective(ws),
         NEW source \in {p, Target}, V!applyCookieWrites(ws, source),
         UNCHANGED <<made, author, page, applied, missed, pushed>>
  PROVE  /\ log' \in Seq(Ids) /\ seen' = seen \cup Elems(ws) /\ seen' \subseteq Ids
         /\ batches' \in Seq(Batch) /\ LogOK' /\ BatchesOK' /\ AllTold'
<1> DEFINE new == V!fresh(ws)
<1>1. /\ log \in Seq(Ids) /\ seen \subseteq Ids /\ batches \in Seq(Batch) /\ pushed \in [Pages -> Seq(Seq(Ids))]
      /\ LogOK /\ BatchesOK /\ AllTold
  BY ZenonT(30) DEF ViewInv, ViewTypes
<1>2. \A x \in Pages : Own(x)' = Own(x) /\ Own(x) \subseteq Ids /\ Own(x) \subseteq 1..made
  BY OwnKept, ZenonT(30)
<1>3. new \in Seq(Ids) /\ Elems(new) = Elems(ws) \ seen /\ V!IsInjective(new)
  BY WithoutElems, ZenonT(30) DEF V!fresh
<1>4. /\ log' = log \o new /\ seen' = seen \cup Elems(ws)
      /\ batches' = IF new = << >> THEN batches ELSE Append(batches, [changes |-> new, source |-> source])
  BY ZenonT(30) DEF V!applyCookieWrites, Elems
<1> HIDE DEF new
<1>5. \A w \in Elems(new) : w \in Own(p) /\ author[w] # Target /\ w \notin seen
  BY <1>3, ViewAssumption, ZenonT(30) DEF Own, V!Own
<1>6. Elems(log) \cap Elems(new) = {}
  BY <1>1, <1>5, ZenonT(30) DEF LogOK
<1>7. V!IsInjective(log)
  BY <1>1, ZenonT(30) DEF LogOK
<1>8. log' \in Seq(Ids) /\ Elems(log') = Elems(log) \cup Elems(new) /\ V!IsInjective(log')
  BY <1>1, <1>3, <1>4, <1>6, <1>7, ElemsConcat, SMTT(30), Z3T(30)
<1>9. [changes |-> new, source |-> source] \in Batch
  BY <1>3, ZenonT(30) DEF Batch
<1>10. batches' \in Seq(Batch)
  BY <1>1, <1>4, <1>9, SMTT(30)
<1>11. LogOK'
  <2>1. Elems(log') \subseteq 1..made
    BY <1>1, <1>2, <1>5, <1>8, ZenonT(30) DEF LogOK
  <2>2. seen' \subseteq Elems(log')
    BY <1>1, <1>3, <1>4, <1>8, ZenonT(30) DEF LogOK
  <2>3. \A w \in Elems(log') : author[w] # Target => w \in seen'
    BY <1>1, <1>3, <1>4, <1>8, ZenonT(30) DEF LogOK
  <2>4. \A w \in Ids : w > made => author[w] = Target
    BY <1>1, ZenonT(30) DEF LogOK
  <2>5. made' = made /\ author' = author /\ Ids' = Ids /\ (Elems(log))' = Elems(log')
    BY ZenonT(30) DEF Ids, V!Ids, Elems, V!Range
  <2>6. (V!IsInjective(log))' = V!IsInjective(log')
    BY ZenonT(30) DEF V!IsInjective
  <2> QED BY <1>8, <2>1, <2>2, <2>3, <2>4, <2>5, <2>6, ZenonT(30) DEF LogOK
<1>12. BatchesOK'
  <2>1. CASE new = << >>
    BY <1>1, <1>2, <1>4, <2>1, ZenonT(30) DEF BatchesOK
  <2>2. CASE new # << >>
    <3>1. /\ \A i \in 1..Len(batches) : batches'[i] = batches[i]
          /\ \A i \in 1..Len(batches') : i \in 1..Len(batches) \/ batches'[i] = [changes |-> new, source |-> source]
      BY <1>1, <1>4, <1>9, <2>2, SMTT(30), Z3T(30)
    <3>2. Elems(new) \subseteq Own(p) /\ \A x \in Pages : source = x => x = p
      BY <1>5, ViewAssumption, ZenonT(30)
    <3>3. ASSUME NEW x \in Pages, NEW i \in 1..Len(batches'), batches'[i].source = x
          PROVE  Elems(batches'[i].changes) \subseteq Own(x)
      <4>1. CASE i \in 1..Len(batches)
        BY <1>1, <3>1, <3>3, <4>1, ZenonT(30) DEF BatchesOK
      <4>2. CASE batches'[i] = [changes |-> new, source |-> source]
        BY <3>2, <3>3, <4>2, SMTT(30), Z3T(30)
      <4> QED BY <3>1, <4>1, <4>2, ZenonT(30)
    <3> QED BY <1>2, <3>3, ZenonT(30) DEF BatchesOK
  <2> QED BY <2>1, <2>2, ZenonT(30)
<1>13. AllTold'
  <2> SUFFICES ASSUME NEW x \in Pages, page[x] # "none", NEW w \in Elems(log')
               PROVE  Told(x, w, Has(x)', batches', pushed'[x])
    BY ZenonT(30) DEF AllTold
  <2>1. Has(x)' = Has(x) /\ pushed'[x] = pushed[x] /\ pushed[x] \in Seq(Seq(Ids))
    BY <1>1, <1>2, ZenonT(30) DEF Has
  <2>3. CASE w \in Elems(log)
    <3>1. Told(x, w, Has(x), batches, pushed[x])
      BY <1>1, <2>3, ZenonT(30) DEF AllTold
    <3>2. Told(x, w, Has(x), Append(batches, [changes |-> new, source |-> source]), pushed[x])
      BY <1>1, <1>9, <3>1, ToldDue, ZenonT(30)
    <3> QED BY <1>4, <2>1, <3>1, <3>2, ZenonT(30)
  <2>4. CASE w \in Elems(new)
    <3>1. CASE source = x
      <4>1. x = p
        BY <3>1, ViewAssumption, ZenonT(30)
      <4> QED BY <1>5, <2>1, <2>4, <4>1, ZenonT(30) DEF Told, Has
    <3>2. CASE source # x
      <4>1. new # << >>
        BY <2>4, ElemsFew, ZenonT(30)
      <4>2. batches' = Append(batches, [changes |-> new, source |-> source])
        BY <1>4, <4>1, ZenonT(30)
      <4>3. /\ Len(batches') \in 1..Len(batches') /\ batches'[Len(batches')].source = source
            /\ batches'[Len(batches')].changes = new
        BY <1>1, <1>9, <4>2, SMTT(30), Z3T(30)
      <4> QED BY <2>4, <3>2, <4>3, ZenonT(30) DEF Told
    <3> QED BY <3>1, <3>2, ZenonT(30)
  <2> QED BY <1>8, <2>3, <2>4, ZenonT(30)
<1> QED BY <1>4, <1>8, <1>10, <1>11, <1>12, <1>13, <1>1, <1>2, ZenonT(30)

\* setCookieLine: a response sets a cookie, which every page will hear of.
LEMMA SetLineKeeps ==
  ASSUME ViewInv, V!setCookieLine(made + 1), UNCHANGED <<page, applied, missed, pushed>>
  PROVE  /\ made' \in 0..MaxMade /\ made + 1 \in Ids /\ log' \in Seq(Ids) /\ batches' \in Seq(Batch)
         /\ seen' = seen /\ author' = author /\ made' = made + 1 /\ made < MaxMade
         /\ LogOK' /\ BatchesOK' /\ AllTold'
<1> DEFINE w == made + 1
           new == [changes |-> <<w>>, source |-> Target]
<1>1. /\ log \in Seq(Ids) /\ seen \subseteq Ids /\ batches \in Seq(Batch) /\ pushed \in [Pages -> Seq(Seq(Ids))]
      /\ LogOK /\ BatchesOK /\ AllTold
  BY ZenonT(30) DEF ViewInv, ViewTypes
<1>2. made < MaxMade /\ made' = w /\ log' = Append(log, w) /\ batches' = Append(batches, new)
      /\ author' = author /\ seen' = seen
  BY ZenonT(30) DEF V!setCookieLine
<1>3. made \in Nat /\ MaxMade \in Nat
  BY ViewAssumption, SMTT(30) DEF ViewInv, ViewTypes
<1>4. w \in Ids /\ w \in 0..MaxMade /\ w > made /\ w \notin 1..made /\ 1..made \subseteq 1..w /\ w \in 1..w
      /\ \A x \in Ids : x > w => x > made
  BY <1>2, <1>3, SMTT(30) DEF Ids, V!Ids
<1>5. \A x \in Pages : Own(x)' = Own(x)
  BY <1>2, OwnKept, ZenonT(30)
<1>6. <<w>> \in Seq(Ids) /\ new \in Batch
  BY <1>4, SMTT(30) DEF Batch
<1> HIDE DEF w
<1>7. log' \in Seq(Ids) /\ Elems(log') = Elems(log) \cup {w} /\ V!IsInjective(log')
  <2>1. w \notin Elems(log) /\ V!IsInjective(log)
    BY <1>1, <1>4, ZenonT(30) DEF LogOK
  <2> QED BY <1>1, <1>2, <1>4, <2>1, ElemsAppend, SMTT(30), Z3T(30)
<1>8. Elems(new.changes) = {w} /\ new.source = Target
  BY ElemsFew, ZenonT(30)
<1> HIDE DEF new
<1>9. batches' \in Seq(Batch)
  BY <1>1, <1>2, <1>6, SMTT(30)
<1>10. LogOK'
  <2>1. Elems(log') \subseteq 1..w
    BY <1>1, <1>4, <1>7, ZenonT(30) DEF LogOK
  <2>2. author[w] = Target /\ \A x \in Ids : x > w => author[x] = Target
    BY <1>1, <1>4, ZenonT(30) DEF LogOK
  <2>3. seen \subseteq Elems(log') /\ \A x \in Elems(log') : author[x] # Target => x \in seen
    BY <1>1, <1>7, <2>2, ZenonT(30) DEF LogOK
  <2>4. Ids' = Ids /\ (Elems(log))' = Elems(log')
    BY ZenonT(30) DEF Ids, V!Ids, Elems, V!Range
  <2>5. (V!IsInjective(log))' = V!IsInjective(log')
    BY ZenonT(30) DEF V!IsInjective
  <2> QED BY <1>2, <1>7, <2>1, <2>2, <2>3, <2>4, <2>5, ZenonT(30) DEF LogOK
<1>11. BatchesOK'
  <2>1. /\ \A i \in 1..Len(batches) : batches'[i] = batches[i]
        /\ \A i \in 1..Len(batches') : i \in 1..Len(batches) \/ batches'[i] = new
    BY <1>1, <1>2, <1>6, SMTT(30)
  <2>2. ASSUME NEW x \in Pages, NEW i \in 1..Len(batches'), batches'[i].source = x
        PROVE  Elems(batches'[i].changes) \subseteq Own(x)
    <3>1. i \in 1..Len(batches)
      BY <1>8, <2>1, <2>2, ViewAssumption, ZenonT(30)
    <3> QED BY <1>1, <2>1, <2>2, <3>1, ZenonT(30) DEF BatchesOK
  <2> QED BY <1>5, <2>2, ZenonT(30) DEF BatchesOK
<1>12. AllTold'
  <2> SUFFICES ASSUME NEW x \in Pages, page[x] # "none", NEW v \in Elems(log')
               PROVE  Told(x, v, Has(x)', batches', pushed'[x])
    BY ZenonT(30) DEF AllTold
  <2>1. Has(x)' = Has(x) /\ pushed'[x] = pushed[x]
    BY <1>5, ZenonT(30) DEF Has
  <2>2. CASE v \in Elems(log)
    <3>1. Told(x, v, Has(x), batches, pushed[x])
      BY <1>1, <2>2, ZenonT(30) DEF AllTold
    <3>2. Told(x, v, Has(x), Append(batches, new), pushed[x])
      BY <1>1, <1>6, <3>1, ToldDue, ZenonT(30)
    <3> QED BY <1>2, <2>1, <3>2, ZenonT(30)
  <2>3. CASE v = w
    <3>1. Len(batches') \in 1..Len(batches') /\ batches'[Len(batches')] = new
      BY <1>1, <1>2, <1>6, SMTT(30)
    <3>2. x # Target
      BY ViewAssumption, ZenonT(30)
    <3> QED BY <1>8, <2>3, <3>1, <3>2, ZenonT(30) DEF Told
  <2> QED BY <1>7, <2>2, <2>3, ZenonT(30)
<1> QED BY <1>2, <1>4, <1>7, <1>9, <1>10, <1>11, <1>12, ZenonT(30) DEF w

\* What the invariant says of one page.
LEMMA PageTypes ==
  ASSUME ViewInv, NEW p \in Pages
  PROVE  /\ outbox[p] \in Seq(Ids) /\ acks[p] \in SUBSET Ids /\ inFlight[p] \in Seq(Ids)
         /\ pushed[p] \in Seq(Seq(Ids)) /\ req[p] \in Request /\ applied[p] \in SUBSET Ids
         /\ missed[p] \in SUBSET Ids /\ Own(p) \subseteq Ids
         /\ WritesOK(Own(p), outbox[p], acks[p], inFlight[p], seen)
         /\ RequestOK(Own(p), inFlight[p], seen, req[p])
<1>1. ViewTypes /\ PageOK(p)
  BY ZenonT(30) DEF ViewInv
<1>2. Own(p) \subseteq Ids
  <2>1. 1..made \subseteq Ids
    BY <1>1, ViewAssumption, SMTT(30) DEF ViewTypes, Ids, V!Ids
  <2> QED BY <2>1, ZenonT(30) DEF Own, V!Own
<1> QED BY <1>1, <1>2, ZenonT(30) DEF ViewTypes, PageOK

\* COOKIE_SET arrives.
LEMMA ReceiveCookieSetKeeps ==
  ASSUME ViewInv, NEW p \in Pages, V!ReceiveCookieSet(p)
  PROVE  ViewInv'
<1> DEFINE h == Head(outbox[p])
<1>1. /\ outbox[p] # << >> /\ V!applyCookieWrites(<<h>>, p)
      /\ outbox' = [outbox EXCEPT ![p] = Tail(@)] /\ acks' = [acks EXCEPT ![p] = @ \cup {h}]
      /\ UNCHANGED <<made, author, page, view, applied, inFlight, pushed, req, missed>>
  BY ZenonT(30) DEF V!ReceiveCookieSet, V!local
<1>2. ViewTypes
  BY ZenonT(30) DEF ViewInv
<1>3. h \in Ids /\ Tail(outbox[p]) \in Seq(Ids) /\ Elems(outbox[p]) = {h} \cup Elems(Tail(outbox[p]))
  BY <1>1, PageTypes, ElemsTail, ZenonT(30)
<1> HIDE DEF h
<1>4. WritesOK(Own(p), outbox[p], acks[p], inFlight[p], seen) /\ RequestOK(Own(p), inFlight[p], seen, req[p])
  BY PageTypes, ZenonT(30)
<1>5. <<h>> \in Seq(Ids) /\ Elems(<<h>>) = {h} /\ V!IsInjective(<<h>>)
  BY <1>3, ElemsFew, SMTT(30), Z3T(30)
<1>6. Elems(<<h>>) \subseteq Own(p)
  BY <1>3, <1>4, <1>5, ZenonT(30) DEF WritesOK
<1>7. /\ log' \in Seq(Ids) /\ seen' = seen \cup {h} /\ seen' \subseteq Ids
      /\ batches' \in Seq(Batch) /\ LogOK' /\ BatchesOK' /\ AllTold'
  BY <1>1, <1>5, <1>6, ApplyKeeps, ZenonT(30)
<1>8. outbox' \in [Pages -> Seq(Ids)] /\ acks' \in [Pages -> SUBSET Ids]
  BY <1>1, <1>2, <1>3, ZenonT(30) DEF ViewTypes
<1>9. ViewTypes'
  BY <1>1, <1>2, <1>7, <1>8, ZenonT(30) DEF ViewTypes, Ids, V!Ids, Batch, Request
<1>10. ASSUME NEW x \in Pages PROVE PageOK(x)'
  <2>1. Own(x)' = Own(x)
    BY <1>1, OwnKept, ZenonT(30)
  <2>2. CASE x # p
    <3>1. outbox'[x] = outbox[x] /\ acks'[x] = acks[x]
      BY <1>1, <1>2, <2>2, ZenonT(30) DEF ViewTypes
    <3> QED BY <1>1, <1>7, <2>1, <3>1, PageKept, ZenonT(30)
  <2>3. CASE x = p
    <3>1. outbox'[x] = Tail(outbox[p]) /\ acks'[x] = acks[p] \cup {h}
      BY <1>1, <1>2, <2>3, ZenonT(30) DEF ViewTypes
    <3>2. h \in Own(p)
      BY <1>5, <1>6, ZenonT(30)
    <3>3. WritesOK(Own(p), Tail(outbox[p]), acks[p] \cup {h}, inFlight[p], seen')
      BY <1>3, <1>4, <1>7, <3>2, ZenonT(30) DEF WritesOK
    <3>4. RequestOK(Own(p), inFlight[p], seen', req[p])
      BY <1>4, <1>7, ZenonT(30) DEF RequestOK
    <3> QED BY <1>1, <2>1, <2>3, <3>1, <3>3, <3>4, ZenonT(30) DEF PageOK
  <2> QED BY <2>2, <2>3, ZenonT(30)
<1> QED BY <1>7, <1>9, <1>10, ZenonT(30) DEF ViewInv

\* The worker takes a request up, with the writes it carries.
LEMMA TakeUpKeeps ==
  ASSUME ViewInv, NEW p \in Pages, V!TakeUp(p)
  PROVE  ViewInv'
<1> DEFINE q == req[p]
<1>1. /\ q.st = "sent" /\ V!applyCookieWrites(q.carried, Target)
      /\ req' = [req EXCEPT ![p] = [q EXCEPT !.st = "fetching", !.carried = << >>]]
      /\ UNCHANGED <<made, author, page, view, applied, inFlight, outbox, acks, pushed, missed>>
  BY ZenonT(30) DEF V!TakeUp, V!local, V!wires
<1>2. ViewTypes
  BY ZenonT(30) DEF ViewInv
<1>3. q \in Request /\ RequestOK(Own(p), inFlight[p], seen, q)
  BY PageTypes, ZenonT(30)
<1>4. q.carried \in Seq(Ids) /\ Elems(q.carried) \subseteq Own(p) /\ V!IsInjective(q.carried)
  BY <1>3, ZenonT(30) DEF Request, RequestOK
<1>5. /\ log' \in Seq(Ids) /\ seen' = seen \cup Elems(q.carried) /\ seen' \subseteq Ids
      /\ batches' \in Seq(Batch) /\ LogOK' /\ BatchesOK' /\ AllTold'
  BY <1>1, <1>4, ApplyKeeps, ZenonT(30)
<1> DEFINE r == [q EXCEPT !.st = "fetching", !.carried = << >>]
<1>6. r \in Request /\ r.st = "fetching" /\ r.carried = << >> /\ r.must = q.must
  <2>1. << >> \in Seq(Ids)
    BY SMTT(30)
  <2> HIDE DEF q
  <2> QED BY <1>3, <2>1, ZenonT(30) DEF Request
<1>7. RequestOK(Own(p), inFlight[p], seen', r)
  <2>1. q.must \subseteq seen'
    BY <1>1, <1>3, <1>5, ZenonT(30) DEF RequestOK
  <2> HIDE DEF r
  <2> QED BY <1>6, <2>1, ElemsFew, ZenonT(30) DEF RequestOK
<1> HIDE DEF r
<1>8. req' \in [Pages -> Request] /\ req'[p] = r /\ \A x \in Pages : x # p => req'[x] = req[x]
  BY <1>1, <1>2, <1>6, ZenonT(30) DEF ViewTypes, r
<1>9. ViewTypes'
  BY <1>1, <1>2, <1>5, <1>8, ZenonT(30) DEF ViewTypes, Ids, V!Ids, Batch, Request
<1>10. ASSUME NEW x \in Pages PROVE PageOK(x)'
  <2>1. Own(x)' = Own(x)
    BY <1>1, OwnKept, ZenonT(30)
  <2>2. CASE x # p
    BY <1>1, <1>5, <1>8, <2>1, <2>2, PageKept, ZenonT(30)
  <2>3. CASE x = p
    <3>1. WritesOK(Own(p), outbox[p], acks[p], inFlight[p], seen)
      BY PageTypes, ZenonT(30)
    <3>2. WritesOK(Own(p), outbox[p], acks[p], inFlight[p], seen')
      BY <1>5, <3>1, ZenonT(30) DEF WritesOK
    <3> QED BY <1>1, <1>7, <1>8, <2>1, <2>3, <3>2, ZenonT(30) DEF PageOK
  <2> QED BY <2>2, <2>3, ZenonT(30)
<1> QED BY <1>5, <1>9, <1>10, ZenonT(30) DEF ViewInv

\* A response sets a cookie, or does not.
LEMMA OtherResponseKeeps ==
  ASSUME ViewInv, V!OtherResponse
  PROVE  ViewInv'
<1>1. /\ V!setCookieLine(made + 1)
      /\ UNCHANGED <<page, view, applied, inFlight, outbox, acks, pushed, req, missed>>
  BY ZenonT(30) DEF V!OtherResponse, V!local, V!wires
<1>2. /\ made' \in 0..MaxMade /\ made + 1 \in Ids /\ log' \in Seq(Ids) /\ batches' \in Seq(Batch)
      /\ seen' = seen /\ author' = author /\ made' = made + 1 /\ made < MaxMade
      /\ LogOK' /\ BatchesOK' /\ AllTold'
  BY <1>1, SetLineKeeps, ZenonT(30)
<1>3. ViewTypes'
  BY <1>1, <1>2, ZenonT(30) DEF ViewInv, ViewTypes, Ids, V!Ids, Batch, Request
<1>4. ASSUME NEW x \in Pages PROVE PageOK(x)'
  <2>1. Own(x)' = Own(x)
    BY <1>2, OwnKept, ZenonT(30)
  <2> QED BY <1>1, <1>2, <2>1, PageKept, ZenonT(30)
<1> QED BY <1>2, <1>3, <1>4, ZenonT(30) DEF ViewInv

\* The jar and the pushes that are due, when a step leaves them alone.
LEMMA JarKept ==
  ASSUME ViewInv, UNCHANGED <<made, author, log, seen, batches>>
  PROVE  LogOK' /\ BatchesOK' /\ \A p \in Pages : Own(p)' = Own(p)
<1>1. LogOK /\ BatchesOK
  BY ZenonT(30) DEF ViewInv
<1>2. \A p \in Pages : Own(p)' = Own(p)
  BY OwnKept, ZenonT(30)
<1>3. BatchesOK'
  BY <1>1, <1>2, ZenonT(30) DEF BatchesOK
<1>4. LogOK'
  BY <1>1, ZenonT(30) DEF LogOK, Elems, V!Range, V!IsInjective, Ids, V!Ids
<1> QED BY <1>2, <1>3, <1>4, ZenonT(30)

\* The request of page p takes a step, and nothing else does.
LEMMA RequestStep ==
  ASSUME ViewInv, NEW p \in Pages, NEW q \in Request, RequestOK(Own(p), inFlight[p], seen, q),
         req' = [req EXCEPT ![p] = q],
         UNCHANGED <<made, author, log, seen, batches, page, view, applied, inFlight, outbox, acks, pushed, missed>>
  PROVE  ViewInv'
<1>1. ViewTypes /\ AllTold
  BY ZenonT(30) DEF ViewInv
<1>2. LogOK' /\ BatchesOK' /\ \A x \in Pages : Own(x)' = Own(x)
  BY JarKept, ZenonT(30)
<1>3. req' \in [Pages -> Request] /\ req'[p] = q /\ \A x \in Pages : x # p => req'[x] = req[x]
  BY <1>1, ZenonT(30) DEF ViewTypes
<1>4. ViewTypes'
  BY <1>1, <1>3, ZenonT(30) DEF ViewTypes, Ids, V!Ids, Batch, Request
<1>5. ASSUME NEW x \in Pages PROVE PageOK(x)'
  <2>1. CASE x # p
    BY <1>2, <1>3, <2>1, PageKept, ZenonT(30)
  <2>2. CASE x = p
    <3>1. WritesOK(Own(p), outbox[p], acks[p], inFlight[p], seen)
      BY PageTypes, ZenonT(30)
    <3> QED BY <1>2, <1>3, <2>2, <3>1, ZenonT(30) DEF PageOK
  <2> QED BY <2>1, <2>2, ZenonT(30)
<1>6. AllTold'
  <2>1. \A x \in Pages : Has(x)' = Has(x)
    BY <1>2, ZenonT(30) DEF Has
  <2> QED BY <1>1, <2>1, ZenonT(30) DEF AllTold, Elems, V!Range
<1> QED BY <1>2, <1>4, <1>5, <1>6, ZenonT(30) DEF ViewInv

\* The response to a page's own request.
LEMMA RespondKeeps ==
  ASSUME ViewInv, NEW p \in Pages, V!Respond(p)
  PROVE  ViewInv'
<1> DEFINE q == req[p]
           plain == [q EXCEPT !.st = "answered", !.must = {}]
           noted == [q EXCEPT !.st = "answered", !.must = {}, !.delta = <<made + 1>>]
<1>1. q \in Request /\ RequestOK(Own(p), inFlight[p], seen, q)
  BY PageTypes, ZenonT(30)
<1>2. UNCHANGED <<page, view, applied, inFlight, outbox, acks, pushed, missed>>
  BY ZenonT(30) DEF V!Respond, V!local, V!wires
<1>3. CASE req' = [req EXCEPT ![p] = plain] /\ UNCHANGED <<made, author, log, seen, batches>>
  <2> HIDE DEF q
  <2>1. plain \in Request /\ plain.st = "answered" /\ plain.carried = q.carried
    BY <1>1, ZenonT(30) DEF Request
  <2>2. RequestOK(Own(p), inFlight[p], seen, plain)
    <3> HIDE DEF plain
    <3> QED BY <1>1, <2>1, ZenonT(30) DEF RequestOK
  <2> HIDE DEF plain
  <2> QED BY <1>2, <1>3, <2>1, <2>2, RequestStep, ZenonT(30)
<1>4. CASE V!setCookieLine(made + 1) /\ req' = [req EXCEPT ![p] = noted]
  <2>1. /\ made' \in 0..MaxMade /\ made + 1 \in Ids /\ log' \in Seq(Ids) /\ batches' \in Seq(Batch)
        /\ seen' = seen /\ author' = author /\ made' = made + 1 /\ made < MaxMade
        /\ LogOK' /\ BatchesOK' /\ AllTold'
    BY <1>2, <1>4, SetLineKeeps, ZenonT(30)
  <2>2. <<made + 1>> \in Seq(Ids)
    BY <2>1, SMTT(30)
  <2> HIDE DEF q
  <2>3. noted \in Request /\ noted.st = "answered" /\ noted.carried = q.carried
    BY <1>1, <2>2, ZenonT(30) DEF Request
  <2> HIDE DEF noted
  <2>4. RequestOK(Own(p), inFlight[p], seen, noted)
    BY <1>1, <2>3, ZenonT(30) DEF RequestOK
  <2>5. req' \in [Pages -> Request] /\ req'[p] = noted /\ \A x \in Pages : x # p => req'[x] = req[x]
    BY <1>4, <2>3, ZenonT(30) DEF ViewInv, ViewTypes
  <2>6. ViewTypes'
    BY <1>2, <2>1, <2>5, ZenonT(30) DEF ViewInv, ViewTypes, Ids, V!Ids, Batch, Request
  <2>7. ASSUME NEW x \in Pages PROVE PageOK(x)'
    <3>1. Own(x)' = Own(x)
      BY <2>1, OwnKept, ZenonT(30)
    <3>2. CASE x # p
      BY <1>2, <2>1, <2>5, <3>1, <3>2, PageKept, ZenonT(30)
    <3>3. CASE x = p
      <4>1. WritesOK(Own(p), outbox[p], acks[p], inFlight[p], seen)
        BY PageTypes, ZenonT(30)
      <4> QED BY <1>2, <2>1, <2>4, <2>5, <3>1, <3>3, <4>1, ZenonT(30) DEF PageOK
    <3> QED BY <3>2, <3>3, ZenonT(30)
  <2> QED BY <2>1, <2>6, <2>7, ZenonT(30) DEF ViewInv
<1> QED BY <1>3, <1>4, ZenonT(30) DEF V!Respond, V!setCookieLine, V!worker

\* flushCookiePush: a push that was due is posted to the windows there are; a
\* document that still loads misses it.
LEMMA FlushKeeps ==
  ASSUME ViewInv, V!flushCookiePush
  PROVE  ViewInv'
<1> DEFINE b == Head(batches)
<1>1. /\ batches # << >> /\ batches' = Tail(batches)
      /\ pushed' = [p \in Pages |-> IF page[p] = "ready" /\ p # b.source THEN Append(pushed[p], b.changes) ELSE pushed[p]]
      /\ missed' = [p \in Pages |-> IF page[p] = "loading" THEN missed[p] \cup Elems(b.changes) ELSE missed[p]]
      /\ UNCHANGED <<made, author, log, seen, page, view, applied, inFlight, outbox, acks, req>>
  BY ZenonT(30) DEF V!flushCookiePush, V!local, Elems
<1>2. ViewTypes /\ LogOK /\ BatchesOK /\ AllTold
  BY ZenonT(30) DEF ViewInv
<1>3. batches \in Seq(Batch)
  BY <1>2, ZenonT(30) DEF ViewTypes
<1>4. /\ b \in Batch /\ b = batches[1] /\ batches' \in Seq(Batch)
      /\ \A i \in 1..Len(batches') : batches'[i] = batches[i + 1] /\ i + 1 \in 1..Len(batches)
      /\ \A i \in 1..Len(batches) : i # 1 => i - 1 \in 1..Len(batches') /\ batches[i] = batches'[i - 1]
  BY <1>1, <1>3, ElemsTail, ZenonT(30)
<1> HIDE DEF b
<1>5. b.changes \in Seq(Ids) /\ Elems(b.changes) \subseteq Ids
  <2>1. b.changes \in Seq(Ids)
    BY <1>4, ZenonT(30) DEF Batch
  <2> QED BY <2>1, SMTT(30), Z3T(30) DEF Elems, V!Range
<1>6. \A p \in Pages : Own(p)' = Own(p)
  BY <1>1, OwnKept, ZenonT(30)
<1>7. pushed' \in [Pages -> Seq(Seq(Ids))] /\ missed' \in [Pages -> SUBSET Ids]
  <2>1. ASSUME NEW p \in Pages PROVE pushed'[p] \in Seq(Seq(Ids)) /\ missed'[p] \in SUBSET Ids
    <3>1. pushed[p] \in Seq(Seq(Ids)) /\ missed[p] \in SUBSET Ids
      BY PageTypes, ZenonT(30)
    <3>2. Append(pushed[p], b.changes) \in Seq(Seq(Ids))
      BY <1>5, <3>1, SMTT(30), Z3T(30)
    <3> QED BY <1>1, <1>5, <3>1, <3>2, ZenonT(30)
  <2> QED BY <1>1, <2>1, ZenonT(30)
<1>8. ViewTypes'
  BY <1>1, <1>2, <1>4, <1>7, ZenonT(30) DEF ViewTypes, Ids, V!Ids, Batch, Request
<1>9. LogOK'
  BY <1>1, <1>2, ZenonT(30) DEF LogOK, Elems, V!Range, V!IsInjective, Ids, V!Ids
<1>10. BatchesOK'
  BY <1>2, <1>4, <1>6, ZenonT(30) DEF BatchesOK
<1>11. ASSUME NEW x \in Pages PROVE PageOK(x)'
  BY <1>1, <1>6, PageKept, ZenonT(30)
<1>12. AllTold'
  <2> SUFFICES ASSUME NEW x \in Pages, page[x] # "none", NEW w \in Elems(log)
               PROVE  Told(x, w, Has(x)', batches', pushed'[x])
    BY <1>1, ZenonT(30) DEF AllTold, Elems, V!Range
  <2>1. Told(x, w, Has(x), batches, pushed[x])
    BY <1>2, ZenonT(30) DEF AllTold
  <2>2. page[x] \in {"loading", "ready"}
    BY <1>2, ZenonT(30) DEF ViewTypes
  <2>3. Has(x) \subseteq Has(x)' /\ (page[x] = "loading" => Elems(b.changes) \subseteq Has(x)')
    BY <1>1, <1>6, ZenonT(30) DEF Has
  <2>4. pushed[x] \in Seq(Seq(Ids))
    BY PageTypes, ZenonT(30)
  <2>5. \A i \in 1..Len(pushed[x]) : i \in 1..Len(pushed'[x]) /\ pushed'[x][i] = pushed[x][i]
    BY <1>1, <1>5, <2>4, SMTT(30), Z3T(30)
  <2>6. page[x] = "ready" /\ b.source # x => /\ Len(pushed'[x]) \in 1..Len(pushed'[x])
                                             /\ pushed'[x][Len(pushed'[x])] = b.changes
    BY <1>1, <1>5, <2>4, SMTT(30), Z3T(30)
  <2>7. CASE w \in Has(x)
    BY <2>3, <2>7, ZenonT(30) DEF Told
  <2>8. ASSUME NEW i \in 1..Len(pushed[x]), w \in Elems(pushed[x][i]) PROVE Told(x, w, Has(x)', batches', pushed'[x])
    BY <2>5, <2>8, ZenonT(30) DEF Told
  <2>9. ASSUME NEW i \in 1..Len(batches), batches[i].source # x, w \in Elems(batches[i].changes)
        PROVE  Told(x, w, Has(x)', batches', pushed'[x])
    <3>1. CASE i # 1
      BY <1>4, <2>9, <3>1, ZenonT(30) DEF Told
    <3>2. CASE i = 1
      BY <1>4, <2>2, <2>3, <2>6, <2>9, <3>2, ZenonT(30) DEF Told
    <3> QED BY <3>1, <3>2, ZenonT(30)
  <2> QED BY <2>1, <2>7, <2>8, <2>9, ZenonT(30) DEF Told
<1> QED BY <1>8, <1>9, <1>10, <1>11, <1>12, ZenonT(30) DEF ViewInv

-----------------------------------------------------------------------------
(* The documents' steps.                                                   *)

\* A document is generated with a copy of the jar, or its window appears.
LEMMA LoadKeeps ==
  ASSUME ViewInv, NEW p \in Pages, V!Load(p) \/ V!Ready(p)
  PROVE  ViewInv'
<1>1. UNCHANGED <<made, author, log, seen, batches, applied, inFlight, outbox, acks, pushed, req>>
  BY ZenonT(30) DEF V!Load, V!Ready, V!worker, V!wires
<1>2. ViewTypes /\ AllTold
  BY ZenonT(30) DEF ViewInv
<1>3. LogOK' /\ BatchesOK' /\ \A x \in Pages : Own(x)' = Own(x)
  BY <1>1, JarKept, ZenonT(30)
<1>4. log \in Seq(Ids) /\ Elems(log) \subseteq Ids /\ Ids \subseteq 0..MaxMade /\ 0 \in 0..MaxMade
  <2>1. log \in Seq(Ids)
    BY <1>2, ZenonT(30) DEF ViewTypes
  <2>2. Ids \subseteq 0..MaxMade /\ 0 \in 0..MaxMade
    BY ViewAssumption, SMTT(30) DEF Ids, V!Ids
  <2> QED BY <2>1, <2>2, SMTT(30) DEF Elems, V!Range
<1>5. log # << >> => V!last(log) \in 0..MaxMade
  BY <1>4, LastElem, ZenonT(30)
<1>6. /\ page' \in [Pages -> {"none", "loading", "ready"}] /\ view' \in [Pages -> 0..MaxMade]
      /\ missed' \in [Pages -> SUBSET Ids]
  <2>1. CASE V!Load(p)
    <3>1. \E v \in 0..MaxMade : view' = [view EXCEPT ![p] = v]
      BY <1>4, <1>5, <2>1, ZenonT(30) DEF V!Load
    <3>2. page' = [page EXCEPT ![p] = "loading"] /\ missed' = [missed EXCEPT ![p] = Elems(log)]
      BY <2>1, ZenonT(30) DEF V!Load, Elems
    <3> QED BY <1>2, <1>4, <3>1, <3>2, ZenonT(30) DEF ViewTypes
  <2>2. CASE V!Ready(p)
    BY <1>2, <2>2, ZenonT(30) DEF V!Ready, ViewTypes
  <2> QED BY <2>1, <2>2, ZenonT(30)
<1>7. ViewTypes'
  BY <1>1, <1>2, <1>6, ZenonT(30) DEF ViewTypes, Ids, V!Ids, Batch, Request
<1>8. ASSUME NEW x \in Pages PROVE PageOK(x)'
  BY <1>1, <1>3, PageKept, ZenonT(30)
<1>9. AllTold'
  <2> SUFFICES ASSUME NEW x \in Pages, page'[x] # "none", NEW w \in Elems(log)
               PROVE  Told(x, w, Has(x)', batches, pushed[x])
    BY <1>1, ZenonT(30) DEF AllTold, Elems, V!Range
  <2>1. \/ page[x] # "none" /\ missed'[x] = missed[x]
        \/ missed'[x] = Elems(log)
    BY <1>2, ZenonT(30) DEF V!Load, V!Ready, ViewTypes, Elems
  <2>2. CASE page[x] # "none" /\ missed'[x] = missed[x]
    <3>1. Has(x)' = Has(x)
      BY <1>1, <1>3, <2>2, ZenonT(30) DEF Has
    <3> QED BY <1>2, <2>2, <3>1, ZenonT(30) DEF AllTold
  <2>3. CASE missed'[x] = Elems(log)
    BY <2>3, ZenonT(30) DEF Told, Has
  <2> QED BY <2>1, <2>2, <2>3, ZenonT(30)
<1> QED BY <1>3, <1>7, <1>8, <1>9, ZenonT(30) DEF ViewInv

\* document.cookie = line.
LEMMA WriteCookieKeeps ==
  ASSUME ViewInv, NEW p \in Pages, V!WriteCookie(p)
  PROVE  ViewInv'
<1> DEFINE w == made + 1
<1>1. /\ made < MaxMade /\ made' = w /\ author' = [author EXCEPT ![w] = p] /\ view' = [view EXCEPT ![p] = w]
      /\ outbox' = [outbox EXCEPT ![p] = Append(@, w)] /\ inFlight' = [inFlight EXCEPT ![p] = Append(@, w)]
      /\ UNCHANGED <<log, seen, batches, page, applied, acks, pushed, req, missed>>
  BY ZenonT(30) DEF V!WriteCookie, V!worker
<1>2. ViewTypes /\ LogOK /\ BatchesOK /\ AllTold
  BY ZenonT(30) DEF ViewInv
<1>3. made \in Nat /\ MaxMade \in Nat
  BY <1>2, ViewAssumption, SMTT(30) DEF ViewTypes
<1>4. w \in Ids /\ w \in 0..MaxMade /\ w \notin 1..made /\ 1..w = 1..made \cup {w} /\ 1..made \subseteq Ids
      /\ \A x \in Ids : x > w => x > made /\ x # w
  BY <1>1, <1>3, SMTT(30) DEF Ids, V!Ids
<1> HIDE DEF w
<1>5. author' \in [Ids -> Pages \cup {Target}] /\ author'[w] = p /\ \A x \in Ids : x # w => author'[x] = author[x]
  BY <1>1, <1>2, <1>4, ZenonT(30) DEF ViewTypes
<1>6. Own(p)' = Own(p) \cup {w} /\ \A x \in Pages : x # p => Own(x)' = Own(x)
  <2>1. \A x \in Pages : Own(x)' = {v \in 1..made \cup {w} : author'[v] = x} /\ Own(x) = {v \in 1..made : author[v] = x}
    BY <1>1, <1>4, ZenonT(30) DEF Own, V!Own
  <2>2. \A v \in 1..made : author'[v] = author[v]
    BY <1>4, <1>5, ZenonT(30)
  <2>3. ASSUME NEW x \in Pages, NEW v PROVE v \in Own(x)' <=> v \in Own(x) \/ (x = p /\ v = w)
    <3>1. v \in Own(x)' <=> (v \in 1..made \/ v = w) /\ author'[v] = x
      BY <2>1, ZenonT(30)
    <3>2. v \in Own(x) <=> v \in 1..made /\ author[v] = x
      BY <2>1, ZenonT(30)
    <3> QED BY <1>4, <1>5, <2>2, <3>1, <3>2, ZenonT(30)
  <2>4. ASSUME NEW x \in Pages, x # p PROVE Own(x)' = Own(x)
    BY <2>3, <2>4, ZenonT(30)
  <2> QED BY <2>3, <2>4, ZenonT(30)
<1>7. /\ outbox' \in [Pages -> Seq(Ids)] /\ inFlight' \in [Pages -> Seq(Ids)] /\ view' \in [Pages -> 0..MaxMade]
      /\ outbox'[p] = Append(outbox[p], w) /\ inFlight'[p] = Append(inFlight[p], w)
      /\ \A x \in Pages : x # p => outbox'[x] = outbox[x] /\ inFlight'[x] = inFlight[x]
  <2>1. Append(outbox[p], w) \in Seq(Ids) /\ Append(inFlight[p], w) \in Seq(Ids)
    BY <1>4, PageTypes, SMTT(30), Z3T(30)
  <2> QED BY <1>1, <1>2, <1>4, <2>1, ZenonT(30) DEF ViewTypes
<1>8. ViewTypes'
  BY <1>1, <1>2, <1>4, <1>5, <1>7, ZenonT(30) DEF ViewTypes, Ids, V!Ids, Batch, Request
<1>9. w \notin Elems(log) /\ w \notin Own(p)
  BY <1>2, <1>4, ZenonT(30) DEF LogOK, Own, V!Own
<1>10. LogOK'
  <2>1. V!IsInjective(log) /\ Elems(log) \subseteq 1..w /\ seen \subseteq Elems(log)
    BY <1>2, <1>4, ZenonT(30) DEF LogOK
  <2>2. \A x \in Ids : x > w => author'[x] = Target
    BY <1>2, <1>4, <1>5, ZenonT(30) DEF LogOK
  <2>3. \A x \in Elems(log) : author'[x] # Target => x \in seen
    <3>1. \A x \in Elems(log) : x \in Ids /\ x # w
      BY <1>2, <1>4, <1>9, ZenonT(30) DEF LogOK
    <3> QED BY <1>2, <1>5, <3>1, ZenonT(30) DEF LogOK
  <2>4. log' = log /\ seen' = seen /\ made' = w
    BY <1>1, <1>4, ZenonT(30)
  <2>5. V!IsInjective(log') /\ Elems(log') \subseteq 1..made' /\ seen' \subseteq Elems(log')
    BY <2>1, <2>4, ZenonT(30)
  <2>6. \A x \in Ids : x > made' => author'[x] = Target
    BY <2>2, <2>4, ZenonT(30)
  <2>7. \A x \in Elems(log') : author'[x] # Target => x \in seen'
    BY <2>3, <2>4, ZenonT(30)
  <2> QED BY <2>5, <2>6, <2>7, ZenonT(30) DEF LogOK, Ids, V!Ids
<1>11. \A x \in Pages : Own(x) \subseteq Own(x)'
  BY <1>6, ZenonT(30)
<1>12. BatchesOK'
  <2> SUFFICES ASSUME NEW x \in Pages, NEW i \in 1..Len(batches), batches[i].source = x
               PROVE  Elems(batches[i].changes) \subseteq Own(x)'
    BY <1>1, ZenonT(30) DEF BatchesOK
  <2> QED BY <1>2, <1>11, ZenonT(30) DEF BatchesOK
<1>13. ASSUME NEW x \in Pages PROVE PageOK(x)'
  <2>1. CASE x # p
    BY <1>1, <1>6, <1>7, <2>1, PageKept, ZenonT(30)
  <2>2. CASE x = p
    <3>1. outbox[p] \in Seq(Ids) /\ inFlight[p] \in Seq(Ids)
      BY PageTypes, ZenonT(30)
    <3>2. WritesOK(Own(p), outbox[p], acks[p], inFlight[p], seen) /\ RequestOK(Own(p), inFlight[p], seen, req[p])
      BY PageTypes, ZenonT(30)
    <3>3. /\ Elems(outbox'[p]) = Elems(outbox[p]) \cup {w}
          /\ Elems(inFlight'[p]) = Elems(inFlight[p]) \cup {w}
          /\ V!IsInjective(inFlight[p]) /\ w \notin Elems(inFlight[p]) => V!IsInjective(inFlight'[p])
      BY <1>4, <1>7, <3>1, ElemsAppend, SMTT(30), Z3T(30)
    <3>4. WritesOK(Own(p)', outbox'[p], acks[p], inFlight'[p], seen)
      BY <1>6, <1>9, <3>2, <3>3, ZenonT(30) DEF WritesOK
    <3>5. RequestOK(Own(p)', inFlight'[p], seen, req[p])
      BY <1>6, <3>2, <3>3, ZenonT(30) DEF RequestOK
    <3> QED BY <1>1, <2>2, <3>4, <3>5, ZenonT(30) DEF PageOK
  <2> QED BY <2>1, <2>2, ZenonT(30)
<1>14. AllTold'
  <2> SUFFICES ASSUME NEW x \in Pages, page[x] # "none", NEW v \in Elems(log)
               PROVE  Told(x, v, Has(x)', batches, pushed[x])
    BY <1>1, ZenonT(30) DEF AllTold, Elems, V!Range
  <2>1. Has(x) \subseteq Has(x)'
    BY <1>1, <1>11, ZenonT(30) DEF Has
  <2>2. Told(x, v, Has(x), batches, pushed[x])
    BY <1>2, ZenonT(30) DEF AllTold
  <2> QED BY <2>1, <2>2, ZenonT(30) DEF Told
<1> QED BY <1>8, <1>10, <1>12, <1>13, <1>14, ZenonT(30) DEF ViewInv

\* The reply to COOKIE_SET.
LEMMA AcknowledgedKeeps ==
  ASSUME ViewInv, NEW p \in Pages, V!Acknowledged(p)
  PROVE  ViewInv'
<1>1. PICK w \in acks[p] : /\ acks' = [acks EXCEPT ![p] = @ \ {w}]
                           /\ inFlight' = [inFlight EXCEPT ![p] = V!without(@, {w})]
  BY ZenonT(30) DEF V!Acknowledged
<1>2. UNCHANGED <<made, author, log, seen, batches, page, view, applied, outbox, pushed, req, missed>>
  BY ZenonT(30) DEF V!Acknowledged, V!worker
<1>3. ViewTypes /\ AllTold
  BY ZenonT(30) DEF ViewInv
<1>4. LogOK' /\ BatchesOK' /\ \A x \in Pages : Own(x)' = Own(x)
  BY <1>2, JarKept, ZenonT(30)
<1>5. inFlight[p] \in Seq(Ids) /\ acks[p] \in SUBSET Ids
  BY PageTypes, ZenonT(30)
<1> DEFINE flight == V!without(inFlight[p], {w})
<1>6. /\ flight \in Seq(Ids) /\ Elems(flight) = Elems(inFlight[p]) \ {w}
      /\ V!IsInjective(inFlight[p]) => V!IsInjective(flight)
  BY <1>5, WithoutElems, ZenonT(30)
<1>7. /\ acks' \in [Pages -> SUBSET Ids] /\ inFlight' \in [Pages -> Seq(Ids)]
      /\ acks'[p] = acks[p] \ {w} /\ inFlight'[p] = flight
      /\ \A x \in Pages : x # p => acks'[x] = acks[x] /\ inFlight'[x] = inFlight[x]
  <2> HIDE DEF flight
  <2>1. inFlight' = [inFlight EXCEPT ![p] = flight]
    BY <1>1, ZenonT(30) DEF flight
  <2> QED BY <1>1, <1>3, <1>5, <1>6, <2>1, SMTT(30), Z3T(30) DEF ViewTypes
<1> HIDE DEF flight
<1>8. ViewTypes'
  BY <1>2, <1>3, <1>7, ZenonT(30) DEF ViewTypes, Ids, V!Ids, Batch, Request
<1>9. ASSUME NEW x \in Pages PROVE PageOK(x)'
  <2>1. CASE x # p
    BY <1>2, <1>4, <1>7, <2>1, PageKept, ZenonT(30)
  <2>2. CASE x = p
    <3>1. WritesOK(Own(p), outbox[p], acks[p], inFlight[p], seen) /\ RequestOK(Own(p), inFlight[p], seen, req[p])
      BY PageTypes, ZenonT(30)
    <3>2. w \in seen
      BY <1>1, <3>1, ZenonT(30) DEF WritesOK
    <3>3. WritesOK(Own(p), outbox[p], acks[p] \ {w}, flight, seen)
      BY <1>6, <3>1, <3>2, ZenonT(30) DEF WritesOK
    <3>4. RequestOK(Own(p), flight, seen, req[p])
      BY <1>6, <3>1, <3>2, ZenonT(30) DEF RequestOK
    <3> QED BY <1>2, <1>4, <1>7, <2>2, <3>3, <3>4, ZenonT(30) DEF PageOK
  <2> QED BY <2>1, <2>2, ZenonT(30)
<1>10. AllTold'
  <2>1. \A x \in Pages : Has(x)' = Has(x)
    BY <1>2, <1>4, ZenonT(30) DEF Has
  <2> QED BY <1>2, <1>3, <2>1, ZenonT(30) DEF AllTold, Elems, V!Range
<1> QED BY <1>4, <1>8, <1>9, <1>10, ZenonT(30) DEF ViewInv

\* applyCookieChanges: page p has every change it was given, and takes none of
\* its own writes.
LEMMA ChangesTaken ==
  ASSUME ViewInv, NEW p \in Pages, NEW cs \in Seq(Ids), V!applyCookieChanges(p, cs),
         UNCHANGED <<made, author, missed>>
  PROVE  /\ applied' \in [Pages -> SUBSET Ids] /\ view' \in [Pages -> 0..MaxMade]
         /\ \A x \in Pages : Own(x)' = Own(x) /\ Has(x) \subseteq Has(x)'
         /\ Elems(cs) \subseteq Has(p)'
         /\ \A x \in Pages : view'[x] = view[x] \/ (x = p /\ view'[x] \notin Own(p))
<1> DEFINE new == V!news(p, cs)
<1>1. new \in Seq(Ids) /\ Elems(new) = Elems(cs) \ (Own(p) \cup applied[p])
  BY WithoutElems, ZenonT(30) DEF V!news, Own
<1>2. /\ applied' = [applied EXCEPT ![p] = @ \cup Elems(new)]
      /\ view' = [view EXCEPT ![p] = IF new = << >> THEN @ ELSE V!last(new)]
  BY ZenonT(30) DEF V!applyCookieChanges, Elems
<1> HIDE DEF new
<1>3. applied \in [Pages -> SUBSET Ids] /\ view \in [Pages -> 0..MaxMade]
  BY ZenonT(30) DEF ViewInv, ViewTypes
<1>4. Elems(new) \subseteq Ids /\ Ids \subseteq 0..MaxMade
  <2>1. Ids \subseteq 0..MaxMade
    BY ViewAssumption, SMTT(30) DEF Ids, V!Ids
  <2> QED BY <1>1, <2>1, SMTT(30), Z3T(30) DEF Elems, V!Range
<1>5. new # << >> => V!last(new) \in 0..MaxMade /\ V!last(new) \notin Own(p)
  BY <1>1, <1>4, LastElem, ZenonT(30)
<1>6. \A x \in Pages : Own(x)' = Own(x)
  BY OwnKept, ZenonT(30)
<1>7. applied' \in [Pages -> SUBSET Ids] /\ applied'[p] = applied[p] \cup Elems(new)
      /\ \A x \in Pages : x # p => applied'[x] = applied[x]
  BY <1>2, <1>3, <1>4, ZenonT(30)
<1>8. view' \in [Pages -> 0..MaxMade] /\ \A x \in Pages : view'[x] = view[x] \/ (x = p /\ view'[x] \notin Own(p))
  <2>1. CASE new = << >>
    BY <1>2, <1>3, <2>1, ZenonT(30)
  <2>2. CASE new # << >>
    <3>1. view' = [view EXCEPT ![p] = V!last(new)]
      BY <1>2, <2>2, ZenonT(30)
    <3> QED BY <1>3, <1>5, <2>2, <3>1, ZenonT(30)
  <2> QED BY <2>1, <2>2, ZenonT(30)
<1>9. \A x \in Pages : Has(x) \subseteq Has(x)'
  BY <1>6, <1>7, ZenonT(30) DEF Has
<1>10. Elems(cs) \subseteq Has(p)'
  BY <1>1, <1>6, <1>7, ZenonT(30) DEF Has
<1> QED BY <1>6, <1>7, <1>8, <1>9, <1>10, ZenonT(30)

\* A push arrives.
LEMMA ReceiveCookieChangeKeeps ==
  ASSUME ViewInv, NEW p \in Pages, V!ReceiveCookieChange(p)
  PROVE  ViewInv'
<1> DEFINE cs == Head(pushed[p])
<1>1. /\ pushed[p] # << >> /\ V!applyCookieChanges(p, cs) /\ pushed' = [pushed EXCEPT ![p] = Tail(@)]
      /\ UNCHANGED <<made, author, log, seen, batches, page, inFlight, outbox, acks, req, missed>>
  BY ZenonT(30) DEF V!ReceiveCookieChange, V!worker
<1>2. ViewTypes /\ AllTold
  BY ZenonT(30) DEF ViewInv
<1>3. LogOK' /\ BatchesOK' /\ \A x \in Pages : Own(x)' = Own(x)
  BY <1>1, JarKept, ZenonT(30)
<1>4. pushed[p] \in Seq(Seq(Ids))
  BY PageTypes, ZenonT(30)
<1>5. /\ cs \in Seq(Ids) /\ cs = pushed[p][1] /\ Tail(pushed[p]) \in Seq(Seq(Ids))
      /\ \A i \in 1..Len(pushed[p]) : i # 1 => i - 1 \in 1..Len(Tail(pushed[p])) /\ pushed[p][i] = Tail(pushed[p])[i - 1]
  BY <1>1, <1>4, ElemsTail, ZenonT(30)
<1> HIDE DEF cs
<1>6. /\ applied' \in [Pages -> SUBSET Ids] /\ view' \in [Pages -> 0..MaxMade]
      /\ \A x \in Pages : Has(x) \subseteq Has(x)'
      /\ Elems(cs) \subseteq Has(p)'
  BY <1>1, <1>5, ChangesTaken, ZenonT(30)
<1>7. /\ pushed' \in [Pages -> Seq(Seq(Ids))] /\ pushed'[p] = Tail(pushed[p])
      /\ \A x \in Pages : x # p => pushed'[x] = pushed[x]
  BY <1>1, <1>2, <1>5, ZenonT(30) DEF ViewTypes
<1>8. ViewTypes'
  BY <1>1, <1>2, <1>6, <1>7, ZenonT(30) DEF ViewTypes, Ids, V!Ids, Batch, Request
<1>9. ASSUME NEW x \in Pages PROVE PageOK(x)'
  BY <1>1, <1>3, PageKept, ZenonT(30)
<1>10. AllTold'
  <2> SUFFICES ASSUME NEW x \in Pages, page[x] # "none", NEW w \in Elems(log)
               PROVE  Told(x, w, Has(x)', batches, pushed'[x])
    BY <1>1, ZenonT(30) DEF AllTold, Elems, V!Range
  <2>1. Told(x, w, Has(x), batches, pushed[x])
    BY <1>2, ZenonT(30) DEF AllTold
  <2>2. CASE x # p
    BY <1>6, <1>7, <2>1, <2>2, ZenonT(30) DEF Told
  <2>3. CASE x = p
    <3>1. ASSUME NEW i \in 1..Len(pushed[p]), w \in Elems(pushed[p][i]) PROVE Told(p, w, Has(p)', batches, pushed'[p])
      <4>1. CASE i = 1
        BY <1>5, <1>6, <3>1, <4>1, ZenonT(30) DEF Told
      <4>2. CASE i # 1
        BY <1>5, <1>7, <3>1, <4>2, ZenonT(30) DEF Told
      <4> QED BY <4>1, <4>2, ZenonT(30)
    <3> QED BY <1>6, <2>1, <2>3, <3>1, ZenonT(30) DEF Told
  <2> QED BY <2>2, <2>3, ZenonT(30)
<1> QED BY <1>3, <1>8, <1>9, <1>10, ZenonT(30) DEF ViewInv

\* No request is under way.
LEMMA IdleRequest ==
  /\ V!Idle \in Request /\ V!Idle.st = "idle" /\ V!Idle.carried = << >>
  /\ \A p, flight, known : RequestOK(Own(p), flight, known, V!Idle)
<1>1. << >> \in Seq(Ids)
  BY SMTT(30)
<1>2. V!Idle \in Request /\ V!Idle.st = "idle" /\ V!Idle.carried = << >>
  BY <1>1, ZenonT(30) DEF V!Idle, Request
<1>3. Elems(<< >>) = {} /\ V!IsInjective(<< >>)
  BY ElemsFew, ZenonT(30)
<1> QED BY <1>2, <1>3, ZenonT(30) DEF RequestOK

\* The page gets the response.
LEMMA AnsweredKeeps ==
  ASSUME ViewInv, NEW p \in Pages, V!Answered(p)
  PROVE  ViewInv'
<1> DEFINE cs == req[p].delta
<1>1. /\ V!applyCookieChanges(p, cs) /\ req' = [req EXCEPT ![p] = V!Idle]
      /\ UNCHANGED <<made, author, log, seen, batches, page, inFlight, outbox, acks, pushed, missed>>
  BY ZenonT(30) DEF V!Answered, V!worker, V!wires
<1>2. ViewTypes /\ AllTold
  BY ZenonT(30) DEF ViewInv
<1>3. LogOK' /\ BatchesOK' /\ \A x \in Pages : Own(x)' = Own(x)
  BY <1>1, JarKept, ZenonT(30)
<1>4. cs \in Seq(Ids)
  <2>1. req[p] \in Request
    BY PageTypes, ZenonT(30)
  <2> QED BY <2>1, ZenonT(30) DEF Request
<1> HIDE DEF cs
<1>5. /\ applied' \in [Pages -> SUBSET Ids] /\ view' \in [Pages -> 0..MaxMade]
      /\ \A x \in Pages : Has(x) \subseteq Has(x)'
  BY <1>1, <1>4, ChangesTaken, ZenonT(30)
<1>6. req' \in [Pages -> Request] /\ req'[p] = V!Idle /\ \A x \in Pages : x # p => req'[x] = req[x]
  BY <1>1, <1>2, IdleRequest, ZenonT(30) DEF ViewTypes
<1>7. ViewTypes'
  BY <1>1, <1>2, <1>5, <1>6, ZenonT(30) DEF ViewTypes, Ids, V!Ids, Batch, Request
<1>8. ASSUME NEW x \in Pages PROVE PageOK(x)'
  <2>1. CASE x # p
    BY <1>1, <1>3, <1>6, <2>1, PageKept, ZenonT(30)
  <2>2. CASE x = p
    <3>1. WritesOK(Own(p), outbox[p], acks[p], inFlight[p], seen) /\ RequestOK(Own(p), inFlight[p], seen, V!Idle)
      BY PageTypes, IdleRequest, ZenonT(30)
    <3> QED BY <1>1, <1>3, <1>6, <2>2, <3>1, ZenonT(30) DEF PageOK
  <2> QED BY <2>1, <2>2, ZenonT(30)
<1>9. AllTold'
  <2> SUFFICES ASSUME NEW x \in Pages, page[x] # "none", NEW w \in Elems(log)
               PROVE  Told(x, w, Has(x)', batches, pushed[x])
    BY <1>1, ZenonT(30) DEF AllTold, Elems, V!Range
  <2>1. Told(x, w, Has(x), batches, pushed[x])
    BY <1>2, ZenonT(30) DEF AllTold
  <2> QED BY <1>5, <2>1, ZenonT(30) DEF Told
<1> QED BY <1>3, <1>7, <1>8, <1>9, ZenonT(30) DEF ViewInv

\* fetch starts: it waits for the writes in flight, and the others are known.
LEMMA FetchKeeps ==
  ASSUME ViewInv, NEW p \in Pages, V!Fetch(p)
  PROVE  ViewInv'
<1> DEFINE q == [V!Idle EXCEPT !.st = "waiting", !.must = Own(p), !.wait = Elems(inFlight[p])]
<1>1. /\ req' = [req EXCEPT ![p] = q]
      /\ UNCHANGED <<made, author, log, seen, batches, page, view, applied, inFlight, outbox, acks, pushed, missed>>
  BY ZenonT(30) DEF V!Fetch, V!worker, V!local, V!wires, Own, Elems
<1>2. /\ Own(p) \subseteq Ids /\ WritesOK(Own(p), outbox[p], acks[p], inFlight[p], seen)
  BY PageTypes, ZenonT(30)
<1>3. Elems(inFlight[p]) \subseteq Own(p) /\ Own(p) \subseteq Elems(inFlight[p]) \cup seen
  BY <1>2, ZenonT(30) DEF WritesOK
<1>4. /\ q \in Request /\ q.st = "waiting" /\ q.must = Own(p) /\ q.wait = Elems(inFlight[p])
      /\ q.carried = << >>
  <2>1. Elems(inFlight[p]) \subseteq Ids
    BY <1>2, <1>3, ZenonT(30)
  <2>2. V!Idle \in Request /\ V!Idle.carried = << >>
    BY IdleRequest, ZenonT(30)
  <2> HIDE DEF Own, Elems
  <2> QED BY <1>2, <2>1, <2>2, ZenonT(30) DEF Request
<1> HIDE DEF q
<1>5. Elems(<< >>) = {} /\ V!IsInjective(<< >>)
  BY ElemsFew, ZenonT(30)
<1>6. RequestOK(Own(p), inFlight[p], seen, q)
  BY <1>3, <1>4, <1>5, ZenonT(30) DEF RequestOK
<1> QED BY <1>1, <1>4, <1>6, RequestStep, ZenonT(30)

\* Its writes have settled.
LEMMA FetchSentKeeps ==
  ASSUME ViewInv, NEW p \in Pages, V!FetchSent(p)
  PROVE  ViewInv'
<1> DEFINE old == req[p]
           q == [old EXCEPT !.st = "sent", !.wait = {}]
<1>1. /\ req' = [req EXCEPT ![p] = q] /\ old.st = "waiting" /\ old.wait \cap Elems(inFlight[p]) = {}
      /\ UNCHANGED <<made, author, log, seen, batches, page, view, applied, inFlight, outbox, acks, pushed, missed>>
  BY ZenonT(30) DEF V!FetchSent, V!worker, V!local, V!wires, Elems
<1>2. old \in Request /\ RequestOK(Own(p), inFlight[p], seen, old)
  BY PageTypes, ZenonT(30)
<1> HIDE DEF old
<1>3. q \in Request /\ q.st = "sent" /\ q.must = old.must /\ q.carried = old.carried
  BY <1>2, ZenonT(30) DEF Request
<1> HIDE DEF q
<1>4. RequestOK(Own(p), inFlight[p], seen, q)
  BY <1>1, <1>2, <1>3, ZenonT(30) DEF RequestOK
<1> QED BY <1>1, <1>3, <1>4, RequestStep, ZenonT(30)

\* A synchronous request carries the latest of the writes in flight.
LEMMA SyncXHRKeeps ==
  ASSUME ViewInv, NEW p \in Pages, V!SyncXHR(p)
  PROVE  ViewInv'
<1> DEFINE ws == V!pendingCookieWrites(p)
           must == Own(p) \ (Elems(inFlight[p]) \ Elems(ws))
           q == [V!Idle EXCEPT !.st = "sent", !.sync = TRUE, !.carried = ws, !.must = must]
<1>1. /\ req' = [req EXCEPT ![p] = q]
      /\ UNCHANGED <<made, author, log, seen, batches, page, view, applied, inFlight, outbox, acks, pushed, missed>>
  BY ZenonT(30) DEF V!SyncXHR, V!worker, V!local, V!wires, Own, Elems
<1>2. /\ inFlight[p] \in Seq(Ids) /\ Own(p) \subseteq Ids
      /\ WritesOK(Own(p), outbox[p], acks[p], inFlight[p], seen)
  BY PageTypes, ZenonT(30)
<1>3. /\ ws \in Seq(Ids) /\ Elems(ws) \subseteq Elems(inFlight[p])
      /\ V!IsInjective(inFlight[p]) => V!IsInjective(ws)
  <2> DEFINE n == Len(inFlight[p])
             m == IF n > MaxCarried THEN n - MaxCarried + 1 ELSE 1
  <2>1. n \in Nat
    BY <1>2, SMTT(30)
  <2>2. m \in 1..(n + 1)
    <3> HIDE DEF n
    <3> QED BY <2>1, ViewAssumption, SMTT(30)
  <2>3. ws = SubSeq(inFlight[p], m, n)
    BY ZenonT(30) DEF V!pendingCookieWrites
  <2> HIDE DEF m
  <2> QED BY <1>2, <2>2, <2>3, ElemsSub, ZenonT(30)
<1> HIDE DEF ws
<1>4. must \subseteq Ids /\ must \subseteq Elems(ws) \cup seen
  BY <1>2, ZenonT(30) DEF WritesOK
<1> HIDE DEF must
<1>5. q \in Request /\ q.st = "sent" /\ q.must = must /\ q.carried = ws
  <2>1. V!Idle \in Request
    BY IdleRequest, ZenonT(30)
  <2> QED BY <1>3, <1>4, <2>1, ZenonT(30) DEF Request
<1> HIDE DEF q
<1>6. RequestOK(Own(p), inFlight[p], seen, q)
  BY <1>2, <1>3, <1>4, <1>5, ZenonT(30) DEF RequestOK, WritesOK
<1> QED BY <1>1, <1>5, <1>6, RequestStep, ZenonT(30)

-----------------------------------------------------------------------------
(* The views' theorems.                                                    *)

\* An empty jar, and pages that have written nothing.
LEMMA ViewStart == V!Init => ViewInv
<1> SUFFICES ASSUME V!Init PROVE ViewInv
  BY ZenonT(30)
<1>1. Elems(<< >>) = {} /\ V!IsInjective(<< >>)
  BY ElemsFew, ZenonT(30)
<1>2. << >> \in Seq(Ids) /\ << >> \in Seq(Batch) /\ << >> \in Seq(Seq(Ids)) /\ Len(<< >>) = 0
  BY SMTT(30)
<1>3. ViewTypes
  <2>1. made \in 0..MaxMade /\ 0 \in 0..MaxMade
    BY ViewAssumption, SMTT(30), Z3T(30) DEF V!Init
  <2>2. author \in [Ids -> Pages \cup {Target}] /\ log \in Seq(Ids) /\ seen \subseteq Ids /\ batches \in Seq(Batch)
    BY <1>2, ZenonT(30) DEF V!Init, Ids
  <2>3. page \in [Pages -> {"none", "loading", "ready"}]
    BY ZenonT(30) DEF V!Init
  <2>4. /\ view \in [Pages -> 0..MaxMade] /\ applied \in [Pages -> SUBSET Ids]
        /\ missed \in [Pages -> SUBSET Ids] /\ acks \in [Pages -> SUBSET Ids]
    BY <2>1, ZenonT(30) DEF V!Init
  <2>5. /\ outbox \in [Pages -> Seq(Ids)] /\ inFlight \in [Pages -> Seq(Ids)]
        /\ pushed \in [Pages -> Seq(Seq(Ids))] /\ req \in [Pages -> Request]
    BY <1>2, IdleRequest, ZenonT(30) DEF V!Init
  <2> QED BY <2>1, <2>2, <2>3, <2>4, <2>5, ZenonT(30) DEF ViewTypes
<1>4. LogOK
  BY <1>1, ZenonT(30) DEF V!Init, LogOK, Ids
<1>5. BatchesOK
  BY <1>2, SMTT(30) DEF V!Init, BatchesOK
<1>6. \A p \in Pages : Own(p) = {}
  BY SMTT(30) DEF V!Init, Own, V!Own
<1>7. ASSUME NEW p \in Pages PROVE PageOK(p)
  <2>1. outbox[p] = << >> /\ acks[p] = {} /\ inFlight[p] = << >> /\ seen = {} /\ req[p] = V!Idle
    BY ZenonT(30) DEF V!Init
  <2>2. WritesOK({}, << >>, {}, << >>, {})
    BY <1>1, ZenonT(30) DEF WritesOK
  <2> QED BY <1>6, <2>1, <2>2, IdleRequest, ZenonT(30) DEF PageOK
<1>8. AllTold
  BY <1>1, ZenonT(30) DEF V!Init, AllTold
<1> QED BY <1>3, <1>4, <1>5, <1>7, <1>8, ZenonT(30) DEF ViewInv

\* A step of anything else leaves the invariant as it is.
LEMMA ViewStutters ==
  ASSUME ViewInv, UNCHANGED V!vars
  PROVE  ViewInv'
<1>1. UNCHANGED <<made, author, log, seen, batches, page, view, applied, inFlight, outbox, acks, pushed, req, missed>>
  BY ZenonT(30) DEF V!vars, V!worker, V!local, V!wires
<1>2. ViewTypes'
  BY <1>1, ZenonT(30) DEF ViewInv, ViewTypes, Ids, V!Ids, Batch, Request
<1>3. LogOK' /\ BatchesOK' /\ \A x \in Pages : Own(x)' = Own(x)
  BY <1>1, JarKept, ZenonT(30)
<1>4. \A x \in Pages : PageOK(x)'
  BY <1>1, <1>3, PageKept, ZenonT(30)
<1>5. AllTold'
  <2>1. \A x \in Pages : Has(x)' = Has(x)
    BY <1>1, <1>3, ZenonT(30) DEF Has
  <2> QED BY <1>1, <2>1, ZenonT(30) DEF ViewInv, AllTold, Elems, V!Range
<1> QED BY <1>2, <1>3, <1>4, <1>5, ZenonT(30) DEF ViewInv

\* Every step of the worker and of the pages keeps the invariant.
LEMMA ViewSteps == ViewInv /\ [V!Next]_(V!vars) => ViewInv'
<1> SUFFICES ASSUME ViewInv, [V!Next]_(V!vars) PROVE ViewInv'
  BY ZenonT(30)
<1>1. CASE UNCHANGED V!vars
  BY <1>1, ViewStutters, ZenonT(30)
<1>2. CASE V!OtherResponse
  BY <1>2, OtherResponseKeeps, ZenonT(30)
<1>3. CASE V!flushCookiePush
  BY <1>3, FlushKeeps, ZenonT(30)
<1>4. ASSUME NEW p \in Pages,
             \/ V!ReceiveCookieSet(p) \/ V!Load(p) \/ V!Ready(p) \/ V!WriteCookie(p)
             \/ V!Acknowledged(p) \/ V!ReceiveCookieChange(p)
             \/ V!Fetch(p) \/ V!FetchSent(p) \/ V!SyncXHR(p) \/ V!TakeUp(p) \/ V!Respond(p) \/ V!Answered(p)
      PROVE  ViewInv'
  BY <1>4, ReceiveCookieSetKeeps, LoadKeeps, WriteCookieKeeps, AcknowledgedKeeps,
     ReceiveCookieChangeKeeps, FetchKeeps, FetchSentKeeps, SyncXHRKeeps, TakeUpKeeps,
     RespondKeeps, AnsweredKeeps, ZenonT(30)
<1> QED BY <1>1, <1>2, <1>3, <1>4, ZenonT(30) DEF V!Next

\* The invariant says what the properties do.
LEMMA ViewImplies == ViewInv => ViewsComplete
<1> SUFFICES ASSUME ViewInv PROVE ViewsComplete
  BY ZenonT(30)
<1>1. ViewTypes /\ LogOK /\ AllTold
  BY ZenonT(30) DEF ViewInv
<1>2. V!TypeOK
  <2>1. log \in Seq(1..made)
    <3>1. DOMAIN log = 1..Len(log) /\ Len(log) \in Nat /\ log = [i \in 1..Len(log) |-> log[i]]
      BY <1>1, SMTT(30), Z3T(30) DEF ViewTypes
    <3>2. \A i \in 1..Len(log) : log[i] \in 1..made
      BY <1>1, <3>1, ZenonT(30) DEF LogOK, Elems, V!Range
    <3> DEFINE T == 1..made
    <3>3. \A i \in 1..Len(log) : log[i] \in T
      BY <3>2, ZenonT(30)
    <3> HIDE DEF T
    <3>4. [i \in 1..Len(log) |-> log[i]] \in Seq(T)
      BY <3>1, <3>3, SMTT(30)
    <3> QED BY <3>1, <3>4, ZenonT(30) DEF T
  <2>2. ASSUME NEW p \in Pages
        PROVE  /\ applied[p] \in SUBSET Ids /\ acks[p] \subseteq Own(p)
               /\ Elems(outbox[p]) \subseteq Own(p) /\ Elems(inFlight[p]) \subseteq Own(p)
               /\ req[p].st \in {"idle", "waiting", "sent", "fetching", "answered"}
    <3>1. /\ applied[p] \in SUBSET Ids /\ req[p] \in Request
          /\ WritesOK(Own(p), outbox[p], acks[p], inFlight[p], seen)
      BY PageTypes, ZenonT(30)
    <3>2. req[p].st \in {"idle", "waiting", "sent", "fetching", "answered"}
      BY <3>1, ZenonT(30) DEF Request
    <3> QED BY <3>1, <3>2, ZenonT(30) DEF WritesOK
  <2>3. /\ made \in 0..MaxMade /\ author \in [Ids -> Pages \cup {Target}] /\ seen \in SUBSET Ids
        /\ page \in [Pages -> {"none", "loading", "ready"}] /\ view \in [Pages -> 0..MaxMade]
    BY <1>1, ZenonT(30) DEF ViewTypes
  <2> QED BY <2>1, <2>2, <2>3, ZenonT(30) DEF V!TypeOK, Ids, Own, Elems
<1>3. ASSUME NEW p \in Pages, req[p].st = "fetching" PROVE req[p].must \subseteq Elems(log)
  <2>1. RequestOK(Own(p), inFlight[p], seen, req[p])
    BY PageTypes, ZenonT(30)
  <2> QED BY <1>1, <1>3, <2>1, ZenonT(30) DEF RequestOK, LogOK
<1>4. ASSUME batches = << >>, NEW p \in Pages, pushed[p] = << >>, page[p] = "ready"
      PROVE  Elems(log) \subseteq Own(p) \cup applied[p] \cup missed[p]
  <2>1. 1..Len(batches) = {} /\ 1..Len(pushed[p]) = {} /\ page[p] # "none"
    BY <1>4, SMTT(30), Z3T(30)
  <2>2. \A w \in Elems(log) : Told(p, w, Has(p), batches, pushed[p])
    BY <1>1, <2>1, ZenonT(30) DEF AllTold
  <2> QED BY <2>1, <2>2, ZenonT(30) DEF Told, Has
<1>5. V!RequestSeesWrites
  BY <1>1, <1>2, <1>3, ZenonT(30) DEF V!RequestSeesWrites, LogOK, Elems
<1>6. V!NoChangeMissed
  BY <1>4, ZenonT(30) DEF V!NoChangeMissed, Elems, Own
<1> QED BY <1>5, <1>6, ZenonT(30) DEF ViewsComplete

\* With any pages and as many writes as cookieWriteIds holds, the Cookie header of a request
\* reflects every write the page made before it and the request could wait for
\* or carry, no write is applied twice, and when nothing is under way every
\* document has every change since it was generated but those posted before its
\* window existed (RequestSeesWrites and NoChangeMissed of CookieView).
THEOREM ViewsAreComplete == V!Spec => []ViewsComplete
<1>1. V!Spec => []ViewInv
  BY ViewStart, ViewSteps, PTL DEF V!Spec
<1> QED BY <1>1, ViewImplies, PTL

\* Only taking up changes, loading and writing alter a page's copy; what it takes
\* up is never its own.
LEMMA ViewMoves ==
  ASSUME ViewInv, V!Next, NEW p \in Pages
  PROVE  view'[p] # view[p] /\ page[p] = "ready" /\ view'[p] \in Own(p)' => made' > made
<1>1. made \in Nat /\ page \in [Pages -> {"none", "loading", "ready"}] /\ view \in [Pages -> 0..MaxMade]
  BY ViewAssumption, SMTT(30), Z3T(30) DEF ViewInv, ViewTypes
<1>2. CASE UNCHANGED view
  BY <1>2, ZenonT(30)
<1>3. ASSUME NEW x \in Pages, V!Load(x) PROVE view'[p] # view[p] => page[p] # "ready"
  <2>1. page[x] = "none" /\ (x # p => view'[p] = view[p])
    BY <1>1, <1>3, ZenonT(30) DEF V!Load
  <2> QED BY <2>1, ZenonT(30)
<1>4. ASSUME NEW x \in Pages, V!WriteCookie(x) PROVE made' > made
  BY <1>1, <1>4, SMTT(30), Z3T(30) DEF V!WriteCookie
<1>5. ASSUME NEW x \in Pages, NEW cs \in Seq(Ids), V!applyCookieChanges(x, cs), UNCHANGED <<made, author, missed>>
      PROVE  view'[p] = view[p] \/ view'[p] \notin Own(p)'
  BY <1>5, ChangesTaken, ZenonT(30)
<1>6. ASSUME NEW x \in Pages, V!ReceiveCookieChange(x)
      PROVE  view'[p] = view[p] \/ view'[p] \notin Own(p)'
  <2>1. Head(pushed[x]) \in Seq(Ids)
    <3>1. pushed[x] \in Seq(Seq(Ids))
      BY PageTypes, ZenonT(30)
    <3> QED BY <1>6, <3>1, SMTT(30) DEF V!ReceiveCookieChange
  <2> QED BY <1>5, <1>6, <2>1, ZenonT(30) DEF V!ReceiveCookieChange
<1>7. ASSUME NEW x \in Pages, V!Answered(x)
      PROVE  view'[p] = view[p] \/ view'[p] \notin Own(p)'
  <2>1. req[x].delta \in Seq(Ids)
    <3>1. req[x] \in Request
      BY PageTypes, ZenonT(30)
    <3> QED BY <3>1, ZenonT(30) DEF Request
  <2> QED BY <1>5, <1>7, <2>1, ZenonT(30) DEF V!Answered
<1>8. ASSUME V!OtherResponse \/ V!flushCookiePush PROVE UNCHANGED view
  BY <1>8, ZenonT(30) DEF V!OtherResponse, V!flushCookiePush, V!local
<1>9. ASSUME NEW x \in Pages,
             \/ V!ReceiveCookieSet(x) \/ V!Ready(x) \/ V!Acknowledged(x) \/ V!Fetch(x) \/ V!FetchSent(x)
             \/ V!SyncXHR(x) \/ V!TakeUp(x) \/ V!Respond(x)
      PROVE  UNCHANGED view
  BY <1>9, ZenonT(30) DEF V!ReceiveCookieSet, V!Ready, V!Acknowledged, V!Fetch, V!FetchSent, V!SyncXHR,
     V!TakeUp, V!Respond, V!local
<1> QED BY <1>2, <1>3, <1>4, <1>6, <1>7, <1>8, <1>9, ZenonT(30) DEF V!Next

\* A document's own write never comes back to it over a newer one: neither a push
\* nor the changes of a response give it a write of its own (applyCookieChanges).
THEOREM OwnWritesStand == V!Spec => OwnWriteStands
<1> DEFINE Stands == \A p \in Pages :
             view'[p] # view[p] /\ page[p] = "ready" /\ view'[p] \in Own(p)' => made' > made
<1>1. V!Spec => []ViewInv
  BY ViewStart, ViewSteps, PTL DEF V!Spec
<1>2. ViewInv /\ [V!Next]_(V!vars) => [Stands]_(V!vars)
  BY ViewMoves, ZenonT(30)
<1>3. V!Spec => [][Stands]_(V!vars)
  <2> HIDE DEF Stands
  <2> QED BY <1>1, <1>2, PTL DEF V!Spec
<1> QED BY <1>3, ZenonT(30) DEF OwnWriteStands, V!OwnWriteStands, Own

=============================================================================

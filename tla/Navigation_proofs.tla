------------------------- MODULE Navigation_proofs -------------------------
(***************************************************************************)
(* Proofs about navigation through the service worker (Navigation): for     *)
(* any windows, documents and lengths of use, however often the worker ends *)
(* and whatever the store misses, clients stay under their own tab, a form  *)
(* is sent once, frames stay inside their tab and the store loses nothing.  *)
(***************************************************************************)
EXTENDS Navigation, TLAPS

-----------------------------------------------------------------------------
(* The inductive invariant.                                                *)

Docs == Targets \cup {None}
Ids0 == 0..MaxIds
Tab == [active: Ids, top: Targets]
Entry == [tab: Ids, url: Targets, frame: BOOLEAN]
Route == [tab: Ids, entry: Ids, frame: BOOLEAN]
Context == [client: Clients, tab: Ids, entry: Ids]
Mem ==
  [tabs: [Ids -> Tab \cup {NoTab}], entries: [Ids -> Entry \cup {NoEntry}],
   routes: [Ids -> Route \cup {NoRoute}], clients: SUBSET Context]
Asking == {"nav", "frame", "submit"}      \* a page that waits for the answer to its message
Pages == Asking \cup {"page"}
Steps == Pages \cup {"closed", "launcher", "loading", "fetching", "error"}
Window ==
  [pc: Steps, k: Nat, route: Ids0, submit: Ids0, tab: Ids0, entry: Ids0, bound: BOOLEAN,
   to: [entry: Ids0, route: Ids0, dest: Windows \cup {None}]]
Fetch == [client: Clients, tab: Ids, entry: Ids, documentUrl: Targets, frame: BOOLEAN]

Types ==
  /\ mem \in Mem /\ db \in Mem /\ win \in [Windows -> Window] /\ fetches \subseteq Fetch
  /\ pending \in [Ids -> Ids0] /\ posted \in [Ids -> Nat] /\ share \in [Ids -> Docs]
  /\ worker \in {"down", "loading", "up"} /\ n \in Ids0 /\ ends \in Nat /\ blind \in BOOLEAN

\* What a memory knows hangs together.
Linked(m, x) == m.tabs[x.tab] # NoTab /\ m.entries[x.entry].tab = x.tab
Whole(m) ==
  /\ \A x \in m.clients : Linked(m, x)
  /\ \A r \in Ids : m.routes[r] # NoRoute => Linked(m, m.routes[r])

\* Nothing is in memory, and nothing is fetched, while the worker is not up.
Forgetful == worker # "up" => mem = Empty /\ fetches = {}

\* A window past the launcher has its route, which stands for a document; a
\* page has its tab and entry; a page that asks has a key for where it goes,
\* and only a link may go to the entry the page has.
WindowOK(w) ==
  /\ win[w].pc # "closed" => win[w].route \in Ids
  /\ win[w].route \in Ids => share[win[w].route] \in Targets
  /\ win[w].pc \in Pages => win[w].tab \in Ids /\ win[w].entry \in Ids
  /\ win[w].pc \in Asking =>
       /\ win[w].to.route \in Ids /\ share[win[w].to.route] \in Targets
       /\ win[w].to.dest \in Windows
       /\ \/ win[w].to.entry = win[w].to.route
          \/ win[w].pc = "nav" /\ win[w].to.entry = win[w].entry

\* A key that nothing but the page that drew it has seen.
Untouched(i) ==
  /\ mem.entries[i] = NoEntry /\ db.entries[i] = NoEntry
  /\ mem.routes[i] = NoRoute /\ db.routes[i] = NoRoute
  /\ pending[i] = 0 /\ posted[i] = 0
  /\ \A w \in Windows : win[w].route # i /\ win[w].entry # i
Asks(w, i) == win[w].pc \in Asking /\ win[w].to.route = i
Keys ==
  /\ \A i \in Ids : i > n => Untouched(i) /\ \A w \in Windows : ~Asks(w, i)
  /\ \A w \in Windows : \A i \in Ids : Asks(w, i) => Untouched(i)
  /\ \A v, w \in Windows : \A i \in Ids : Asks(v, i) /\ Asks(w, i) => v = w
  /\ \A v, w \in Windows : win[v].route = win[w].route /\ win[v].route # 0 => v = w

\* An entry is everywhere said to lie in the same tab.
Lies(i, t) ==
  \/ mem.entries[i].tab = t
  \/ db.entries[i].tab = t
  \/ \E w \in Windows : win[w].pc \in Pages /\ win[w].entry = i /\ win[w].tab = t
Homes == \A i, t, u \in Ids : Lies(i, t) /\ Lies(i, u) => t = u

\* A fetch is of a client that still waits for it or is gone, and of what
\* memory knows.
FetchOK(f) ==
  /\ Linked(mem, f)
  /\ f.client[2] <= win[f.client[1]].k
  /\ f.client[2] = win[f.client[1]].k => win[f.client[1]].pc = "fetching"
  /\ f.client[1] \in Frames => f.frame
FetchesOK ==
  /\ \A f \in fetches : FetchOK(f)
  /\ \A f, g \in fetches : f.client = g.client => f = g

\* What is known of a client, in memory or the store, is true of its window.
ContextOK(x) ==
  LET w == x.client[1]
  IN /\ x.client[2] <= win[w].k
     /\ x.client[2] = win[w].k =>
          /\ win[w].pc \notin {"closed", "launcher", "loading"}
          /\ win[w].pc \in Pages => x.tab = win[w].tab
          /\ \A f \in fetches : f.client = x.client => f.tab = x.tab
Contexts == \A x \in mem.clients \cup db.clients : ContextOK(x)

\* While no restore has failed: memory has what the store has, and a route the
\* launcher opens is in neither.
Grows(a, b) ==
  \A i \in Ids :
    /\ a.tabs[i] # NoTab => b.tabs[i] # NoTab
    /\ a.entries[i] # NoEntry => b.entries[i].tab = a.entries[i].tab
    /\ a.routes[i] # NoRoute => b.routes[i].tab = a.routes[i].tab
Unopened(w) ==
  win[w].pc = "launcher" => mem.routes[win[w].route] = NoRoute /\ db.routes[win[w].route] = NoRoute
Seeing ==
  ~blind =>
    /\ worker = "up" => Grows(db, mem)
    /\ \A w \in Windows : Unopened(w)

\* A submission waits only until it is sent.
Submissions == \A s \in Ids : posted[s] <= 1 /\ (pending[s] # 0 => posted[s] = 0)

\* In the worker's first life its memory knows every page and every frame.
Marked(c, e) == c[1] \in Frames => mem.entries[e].frame
FirstLife ==
  ends = 0 =>
    /\ worker = "up"
    /\ \A w \in Windows :
         /\ win[w].pc \in Pages => Linked(mem, win[w]) /\ Marked(Client(w), win[w].entry)
         /\ win[w].pc \in Pages \cup {"fetching"} => ContextOf(Client(w)) # {}
    /\ \A x \in mem.clients : Marked(x.client, x.entry)
    /\ \A f \in fetches : Marked(f.client, f.entry)

NavInv ==
  /\ Types /\ Whole(mem) /\ Whole(db) /\ Forgetful /\ (\A w \in Windows : WindowOK(w)) /\ Keys
  /\ Homes /\ FetchesOK /\ Contexts /\ Seeing /\ Submissions /\ FirstLife

-----------------------------------------------------------------------------
(* What is there, and what steps leave alone.                              *)

\* 0 stands for no tab and no entry.
LEMMA ZeroIsNoId == 0 \notin Ids
BY SMTT(30), Z3T(30) DEF Ids

\* The keys are among the values of a field that may be empty.
LEMMA IdsAreIds0 == Ids \subseteq Ids0
BY SMTT(30) DEF Ids, Ids0

\* A generation is at most itself.
LEMMA SelfLeq == \A k \in Nat : k <= k
BY SMTT(30)

\* An entry or a route that is there has a tab, and none has none.
LEMMA Present ==
  ASSUME NEW m \in Mem, NEW i \in Ids
  PROVE  /\ m.entries[i] # NoEntry <=> m.entries[i].tab \in Ids
         /\ m.entries[i] = NoEntry <=> m.entries[i].tab = 0
         /\ m.entries[i] # NoEntry => m.entries[i].url \in Targets
         /\ m.routes[i] # NoRoute <=> m.routes[i].tab \in Ids
         /\ m.routes[i] # NoRoute => m.routes[i] \in Route
         /\ m.tabs[i] # NoTab => m.tabs[i] \in Tab
<1>1. /\ m.entries[i] \in Entry \cup {NoEntry} /\ m.routes[i] \in Route \cup {NoRoute}
      /\ m.tabs[i] \in Tab \cup {NoTab}
  BY ZenonT(30) DEF Mem
<1>2. /\ m.entries[i] # NoEntry <=> m.entries[i].tab \in Ids
      /\ m.entries[i] = NoEntry <=> m.entries[i].tab = 0
      /\ m.entries[i] # NoEntry => m.entries[i].url \in Targets
  <2>1. \A y \in Entry : y.tab \in Ids /\ y.url \in Targets
    BY ZenonT(30) DEF Entry
  <2>2. NoEntry.tab = 0
    BY ZenonT(30) DEF NoEntry
  <2> QED BY <1>1, <2>1, <2>2, ZeroIsNoId, ZenonT(30)
<1>3. m.routes[i] # NoRoute <=> m.routes[i].tab \in Ids
  <2>1. \A y \in Route : y.tab \in Ids
    BY ZenonT(30) DEF Route
  <2>2. NoRoute.tab = 0
    BY ZenonT(30) DEF NoRoute
  <2> QED BY <1>1, <2>1, <2>2, ZeroIsNoId, ZenonT(30)
<1> QED BY <1>1, <1>2, <1>3, ZenonT(30)

\* m still has the tabs, the entries and the marks of memory.
Keeps(m) ==
  /\ m \in Mem
  /\ \A i \in Ids : mem.tabs[i] # NoTab => m.tabs[i] # NoTab
  /\ \A i \in Ids : mem.entries[i].frame => m.entries[i].frame
  /\ \A i \in Ids : mem.entries[i].tab # 0 => m.entries[i].tab = mem.entries[i].tab

\* A window stays the client it was, showing what it showed, or becomes a new
\* one; it waits for its document as long as that is fetched.
Goes(w) ==
  \/ win'[w].k > win[w].k
  \/ /\ win'[w].k = win[w].k
     /\ win'[w].pc \in Pages => win[w].pc \in Pages /\ win'[w].tab = win[w].tab
     /\ win'[w].pc \in {"closed", "launcher", "loading"} => win[w].pc \in {"closed", "launcher", "loading"}
     /\ win[w].pc = "fetching" =>
          win'[w].pc = "fetching" \/ \A f \in fetches' : f.client # <<w, win[w].k>>
\* A window shows or fetches only what it showed or fetched.
Steady(w) ==
  win'[w].pc \in Pages \cup {"fetching"} =>
    /\ win'[w].k = win[w].k
    /\ win'[w].pc \in Pages => win[w].pc \in Pages /\ win'[w].tab = win[w].tab /\ win'[w].entry = win[w].entry
    /\ win'[w].pc = "fetching" => win[w].pc = "fetching"

\* Clients are windows' navigations.
LEMMA ClientParts ==
  ASSUME NEW c \in Clients
  PROVE  c[1] \in Windows /\ c[2] \in Nat /\ c = <<c[1], c[2]>>
BY SMTT(30) DEF Clients

\* A window's counter.
LEMMA WindowType ==
  ASSUME NEW W \in [Windows -> Window], NEW w \in Windows
  PROVE  /\ W[w].k \in Nat /\ W[w].pc \in Steps /\ W[w].route \in Ids0 /\ W[w].submit \in Ids0
         /\ W[w].tab \in Ids0 /\ W[w].entry \in Ids0
         /\ W[w].to.entry \in Ids0 /\ W[w].to.route \in Ids0
BY ZenonT(30) DEF Window

\* Fetches, contexts and the first life's knowledge outlast a step that keeps
\* memory and moves windows on.
LEMMA ContextsKept ==
  ASSUME NavInv, win' \in [Windows -> Window], fetches' \subseteq fetches, \A w \in Windows : Goes(w),
         mem'.clients \cup db'.clients \subseteq mem.clients \cup db.clients
  PROVE  Contexts'
<1> SUFFICES ASSUME NEW x \in mem'.clients \cup db'.clients PROVE ContextOK(x)'
  BY ZenonT(30) DEF Contexts
<1>1. x \in Context /\ ContextOK(x)
  BY ZenonT(30) DEF NavInv, Types, Contexts, Mem
<1>2. x.client[1] \in Windows /\ x.client[2] \in Nat
  BY <1>1, ClientParts, ZenonT(30) DEF Context
<1>3. win[x.client[1]].k \in Nat /\ win'[x.client[1]].k \in Nat
  BY <1>2, WindowType, ZenonT(30) DEF NavInv, Types
<1>4. Goes(x.client[1])
  BY <1>2, ZenonT(30)
<1> QED BY <1>1, <1>2, <1>3, <1>4, SMTT(30), Z3T(30) DEF ContextOK, Goes

\* Fetches under way stay right while nothing is forgotten and windows only
\* go on.
LEMMA FetchesKept ==
  ASSUME NavInv, win' \in [Windows -> Window], fetches' \subseteq fetches, \A w \in Windows : Goes(w), Keeps(mem')
  PROVE  FetchesOK'
<1>1. ASSUME NEW f \in fetches' PROVE FetchOK(f)'
  <2>1. f \in Fetch /\ FetchOK(f)
    BY ZenonT(30) DEF NavInv, Types, FetchesOK
  <2>2. f.client[1] \in Windows /\ f.client[2] \in Nat /\ f.client = <<f.client[1], f.client[2]>>
    BY <2>1, ClientParts, ZenonT(30) DEF Fetch
  <2>3. win[f.client[1]].k \in Nat /\ win'[f.client[1]].k \in Nat
    BY <2>2, WindowType, ZenonT(30) DEF NavInv, Types
  <2>4. mem \in Mem
    BY ZenonT(30) DEF NavInv, Types
  <2>5. Goes(f.client[1])
    BY <2>2, ZenonT(30)
  <2>6. Linked(mem', f)
    BY <2>1, <2>4, ZeroIsNoId, ZenonT(30) DEF FetchOK, Linked, Keeps, Fetch
  <2>7. f.client[2] <= win'[f.client[1]].k
    BY <2>1, <2>2, <2>3, <2>5, SMTT(30), Z3T(30) DEF FetchOK, Goes
  <2>8. f.client[2] = win'[f.client[1]].k => win'[f.client[1]].pc = "fetching"
    BY <2>1, <2>2, <2>3, <2>5, SMTT(30), Z3T(30) DEF FetchOK, Goes
  <2> QED BY <2>1, <2>6, <2>7, <2>8, ZenonT(30) DEF FetchOK, Linked
<1>2. \A f, g \in fetches' : f.client = g.client => f = g
  BY ZenonT(30) DEF NavInv, FetchesOK
<1> QED BY <1>1, <1>2, ZenonT(30) DEF FetchesOK

\* A mark stays while nothing is forgotten.
LEMMA MarkedKept ==
  ASSUME NEW c, NEW e \in Ids, Marked(c, e), Keeps(mem')
  PROVE  Marked(c, e)'
BY ZenonT(30) DEF Marked, Keeps

\* Before the worker's first end, a step that forgets nothing and moves no
\* page leaves all pages known.
LEMMA FirstLifeKept ==
  ASSUME NavInv, ends' = ends, worker' = worker, fetches' \subseteq fetches, Keeps(mem'), mem'.clients = mem.clients,
         \A w \in Windows : Steady(w)
  PROVE  FirstLife'
<1> SUFFICES ASSUME ends = 0
             PROVE  /\ \A w \in Windows :
                         /\ win'[w].pc \in Pages => Linked(mem', win'[w]) /\ Marked(Client(w), win[w].entry)'
                         /\ win'[w].pc \in Pages \cup {"fetching"} => ContextOf(Client(w))' # {}
                    /\ \A x \in mem'.clients : Marked(x.client, x.entry)'
                    /\ \A f \in fetches' : Marked(f.client, f.entry)'
  BY ZenonT(30) DEF FirstLife, NavInv, Linked
<1>1. FirstLife /\ mem \in Mem /\ fetches \subseteq Fetch
  BY ZenonT(30) DEF NavInv, Types
<1>2. ASSUME NEW x \in mem'.clients PROVE Marked(x.client, x.entry)'
  <2>1. x.entry \in Ids /\ Marked(x.client, x.entry)
    BY <1>1, SMTT(30) DEF FirstLife, Mem, Context
  <2> QED BY <2>1, MarkedKept, ZenonT(30)
<1>3. ASSUME NEW f \in fetches' PROVE Marked(f.client, f.entry)'
  <2>1. f.entry \in Ids /\ Marked(f.client, f.entry)
    BY <1>1, ZenonT(30) DEF FirstLife, Fetch
  <2> QED BY <2>1, MarkedKept, ZenonT(30)
<1>4. ASSUME NEW w \in Windows, win'[w].pc \in Pages \cup {"fetching"} PROVE ContextOf(Client(w))' # {}
  <2>1. win'[w].k = win[w].k /\ win[w].pc \in Pages \cup {"fetching"}
    BY <1>4, ZenonT(30) DEF Steady
  <2>2. Client(w)' = Client(w)
    BY <2>1, ZenonT(30) DEF Client
  <2>3. ContextOf(Client(w)) # {}
    BY <1>1, <2>1, ZenonT(30) DEF FirstLife
  <2> QED BY <2>2, <2>3, ZenonT(30) DEF ContextOf
<1>5. ASSUME NEW w \in Windows, win'[w].pc \in Pages PROVE Linked(mem', win'[w]) /\ Marked(Client(w), win[w].entry)'
  <2>1. win'[w].k = win[w].k /\ win[w].pc \in Pages /\ win'[w].tab = win[w].tab /\ win'[w].entry = win[w].entry
    BY <1>5, ZenonT(30) DEF Steady
  <2>2. Linked(mem, win[w]) /\ Marked(Client(w), win[w].entry)
    BY <1>1, <2>1, ZenonT(30) DEF FirstLife
  <2>3. win[w].tab \in Ids /\ win[w].entry \in Ids
    BY <2>1, ZenonT(30) DEF NavInv, WindowOK
  <2>4. Linked(mem', win'[w])
    BY <2>1, <2>2, <2>3, ZeroIsNoId, ZenonT(30) DEF Linked, Keeps
  <2>5. Client(w)' = Client(w)
    BY <2>1, ZenonT(30) DEF Client
  <2>6. mem.entries[win[w].entry].frame => mem'.entries[win[w].entry].frame
    BY <2>3, ZenonT(30) DEF Keeps
  <2> QED BY <2>1, <2>2, <2>4, <2>5, <2>6, ZenonT(30) DEF Marked
<1> QED BY <1>2, <1>3, <1>4, <1>5, ZenonT(30)

\* Keys stay apart when a step touches only key, which nobody asks for
\* afterwards, and at most window v draws a new one.
LEMMA KeysKept ==
  ASSUME NavInv, NEW key, NEW v, n' \in Ids0, n' \in {n, n + 1},
         \A i \in Ids \ {key} : Untouched(i) => Untouched(i)',
         key \in Ids => key <= n' /\ \A w \in Windows : ~Asks(w, key)',
         \A w \in Windows, i \in Ids : Asks(w, i)' => Asks(w, i) \/ (w = v /\ i = n + 1 /\ n' = n + 1),
         \A x, y \in Windows : win'[x].route = win'[y].route /\ win'[x].route # 0 => x = y
  PROVE  Keys'
<1>1. Keys /\ n \in Nat /\ n' \in Nat /\ (n' = n + 1 => n + 1 \in Ids)
  BY ConstantsAssumption, SMTT(30) DEF NavInv, Types, Ids, Ids0
<1>2. ASSUME NEW i \in Ids, i > n' PROVE Untouched(i)' /\ \A w \in Windows : ~Asks(w, i)'
  <2>1. i \in Nat
    BY ConstantsAssumption, SMTT(30) DEF Ids
  <2>2. i > n /\ ~(i = n + 1 /\ n' = n + 1) /\ ~(i <= n')
    BY <1>1, <1>2, <2>1, SMTT(30)
  <2> QED BY <1>1, <2>2, ZenonT(30) DEF Keys
<1>3. ASSUME NEW w \in Windows, NEW i \in Ids, Asks(w, i)' PROVE Untouched(i)'
  <2>1. CASE Asks(w, i)
    BY <1>1, <1>3, <2>1, SMTT(30) DEF Keys
  <2>2. CASE i = n + 1 /\ n' = n + 1
    <3>1. i > n
      BY <1>1, <2>2, SMTT(30)
    <3> QED BY <1>1, <1>3, <3>1, ZenonT(30) DEF Keys
  <2> QED BY <1>3, <2>1, <2>2, ZenonT(30)
<1>4. \A x, y \in Windows : \A i \in Ids : Asks(x, i)' /\ Asks(y, i)' => x = y
  <2>1. \A w \in Windows : n' = n + 1 => ~Asks(w, n + 1)
    BY <1>1, SMTT(30) DEF Keys
  <2> QED BY <1>1, <2>1, SMTT(30) DEF Keys
<1> QED BY <1>2, <1>3, <1>4, ZenonT(30) DEF Keys

\* A key that is drawn is nobody's.
LEMMA FreshKey ==
  ASSUME NavInv, n < MaxIds
  PROVE  n + 1 \in Ids /\ n + 1 \in Ids0 /\ Untouched(n + 1) /\ \A w \in Windows : ~Asks(w, n + 1)
<1>1. n + 1 \in Ids /\ n + 1 \in Ids0 /\ n + 1 > n
  BY ConstantsAssumption, SMTT(30) DEF NavInv, Types, Ids, Ids0
<1> QED BY <1>1, ZenonT(30) DEF NavInv, Keys

\* One window changes.
LEMMA OneWindow ==
  ASSUME NavInv, NEW w \in Windows, NEW q \in Window, win' = [win EXCEPT ![w] = q]
  PROVE  /\ win' \in [Windows -> Window]
         /\ \A v \in Windows : win'[v] = IF v = w THEN q ELSE win[v]
BY ZenonT(30) DEF NavInv, Types

\* Windows move, and the worker, its memory and the store stay as they are.
LEMMA WindowsMove ==
  ASSUME NavInv, UNCHANGED <<mem, db, worker, fetches, ends>>, win' \in [Windows -> Window],
         \A w \in Windows : Goes(w) /\ Steady(w)
  PROVE  Whole(mem)' /\ Whole(db)' /\ Forgetful' /\ FetchesOK' /\ Contexts' /\ FirstLife'
<1>1. Keeps(mem')
  BY ZenonT(30) DEF NavInv, Types, Keeps
<1>2. Whole(mem)' /\ Whole(db)' /\ Forgetful'
  BY ZenonT(30) DEF NavInv, Whole, Linked, Forgetful
<1> QED BY <1>1, <1>2, FetchesKept, ContextsKept, FirstLifeKept, ZenonT(30)

-----------------------------------------------------------------------------
(* What users and pages start.                                             *)

\* The routes and the keys of windows stand for the same documents after one
\* key more is drawn.
LEMMA SharesKept ==
  ASSUME NavInv, n < MaxIds, NEW t, share' = [share EXCEPT ![n + 1] = t]
  PROVE  \A v \in Windows :
           /\ win[v].route \in Ids => share'[win[v].route] = share[win[v].route]
           /\ win[v].pc \in Asking => share'[win[v].to.route] = share[win[v].to.route]
<1>1. n + 1 \in Ids /\ Untouched(n + 1) /\ \A w \in Windows : ~Asks(w, n + 1)
  BY FreshKey, ZenonT(30)
<1> QED BY <1>1, SMTT(30) DEF NavInv, Types, Untouched, Asks

\* The launcher is given an address.
LEMMA OpenTargetStep ==
  ASSUME NavInv, NEW w \in Windows, NEW t \in Addresses, OpenTarget(w, t)
  PROVE  NavInv'
<1> DEFINE q == [win[w] EXCEPT !.pc = "launcher", !.route = n + 1]
<1>1. /\ n < MaxIds /\ n' = n + 1 /\ share' = [share EXCEPT ![n + 1] = t] /\ win[w].pc = "closed"
      /\ win' = [win EXCEPT ![w] = q] /\ UNCHANGED <<mem, pending, db, worker, fetches, ends, posted, blind>>
  BY ZenonT(30) DEF OpenTarget, Fresh
<1>2. n + 1 \in Ids /\ n + 1 \in Ids0 /\ Untouched(n + 1) /\ \A v \in Windows : ~Asks(v, n + 1)
  BY <1>1, FreshKey, ZenonT(30)
<1>3. q \in Window /\ q.pc = "launcher" /\ q.route = n + 1 /\ q.k = win[w].k /\ q.entry = win[w].entry
  BY <1>2, ZenonT(30) DEF NavInv, Types, Window, Steps, Pages
<1> HIDE DEF q
<1>4. win' \in [Windows -> Window] /\ \A v \in Windows : win'[v] = IF v = w THEN q ELSE win[v]
  BY <1>1, <1>3, OneWindow, ZenonT(30)
<1>5. t \in Targets
  BY ConstantsAssumption, ZenonT(30)
<1>6. Types'
  BY <1>1, <1>2, <1>4, <1>5, ZenonT(30) DEF NavInv, Types, Docs
<1>7. \A v \in Windows : WindowOK(v)'
  <2>1. share'[n + 1] \in Targets
    BY <1>1, <1>2, <1>5, ZenonT(30) DEF NavInv, Types
  <2> QED BY <1>1, <1>2, <1>3, <1>4, <2>1, SharesKept, SMTT(30), Z3T(30) DEF NavInv, WindowOK, Pages, Asking
<1>8. Keys'
  <2>1. \A v \in Windows, i \in Ids : Asks(v, i)' => Asks(v, i)
    BY <1>3, <1>4, ZenonT(30) DEF Asks, Asking
  <2>2. PICK key \in Ids : key = n + 1
    BY <1>2, ZenonT(30)
  <2>3. \A i \in Ids \ {key} : Untouched(i) => Untouched(i)'
    BY <1>1, <1>3, <1>4, <2>2, ZenonT(30) DEF Untouched
  <2>4. \A x, y \in Windows : win'[x].route = win'[y].route /\ win'[x].route # 0 => x = y
    BY <1>2, <1>3, <1>4, SMTT(30), Z3T(30) DEF Untouched, NavInv, Keys
  <2>5. key <= n' /\ \A v \in Windows : ~Asks(v, key)'
    BY <1>1, <1>2, <2>1, <2>2, SMTT(30) DEF Ids
  <2>6. n' \in Ids0 /\ n' \in {n, n + 1}
    BY <1>1, <1>2, ZenonT(30)
  <2> QED BY <2>1, <2>3, <2>4, <2>5, <2>6, KeysKept, ZenonT(30)
<1>9. Homes'
  <2>1. \A i, u \in Ids : Lies(i, u)' => Lies(i, u)
    BY <1>1, <1>3, <1>4, ZenonT(30) DEF Lies, Pages, Asking
  <2> QED BY <2>1, ZenonT(30) DEF NavInv, Homes
<1>10. \A v \in Windows : Goes(v) /\ Steady(v)
  BY <1>1, <1>3, <1>4, ZenonT(30) DEF Goes, Steady, Pages, Asking
<1>11. Whole(mem)' /\ Whole(db)' /\ Forgetful' /\ FetchesOK' /\ Contexts' /\ FirstLife'
  BY <1>1, <1>4, <1>10, WindowsMove, ZenonT(30)
<1>12. Seeing'
  BY <1>1, <1>2, <1>3, <1>4, ZenonT(30) DEF NavInv, Seeing, Unopened, Grows, Untouched
<1>13. Submissions'
  BY <1>1, ZenonT(30) DEF NavInv, Submissions
<1> QED BY <1>6, <1>7, <1>8, <1>9, <1>11, <1>12, <1>13, ZenonT(30) DEF NavInv

\* A page announces where it goes.
LEMMA AnnounceStep ==
  ASSUME NavInv, NEW w \in Windows, NEW t \in Addresses, NEW kind \in Asking, NEW d \in Windows,
         Announce(w, t, kind, d)
  PROVE  NavInv'
<1>1. /\ n < MaxIds /\ n' = n + 1 /\ share' = [share EXCEPT ![n + 1] = t] /\ win[w].pc = "page"
      /\ UNCHANGED <<mem, pending, db, worker, fetches, ends, posted, blind>>
  BY ZenonT(30) DEF Announce, Fresh
<1>2. PICK e \in {n + 1} \cup {x \in {win[w].entry} : kind = "nav"} :
        win' = [win EXCEPT ![w] = [win[w] EXCEPT !.pc = kind, !.to = [entry |-> e, route |-> n + 1, dest |-> d]]]
  BY ZenonT(30) DEF Announce
<1> DEFINE to == [entry |-> e, route |-> n + 1, dest |-> d]
           q == [win[w] EXCEPT !.pc = kind, !.to = to]
<1>3. n + 1 \in Ids /\ n + 1 \in Ids0 /\ Untouched(n + 1) /\ \A v \in Windows : ~Asks(v, n + 1)
  BY <1>1, FreshKey, ZenonT(30)
<1>4. e = n + 1 \/ (kind = "nav" /\ e = win[w].entry)
  BY <1>2, ZenonT(30)
<1>5. to \in [entry: Ids0, route: Ids0, dest: Windows \cup {None}] /\ to.entry = e /\ to.route = n + 1 /\ to.dest = d
  BY <1>3, <1>4, WindowType, ZenonT(30) DEF NavInv, Types
<1> HIDE DEF to
<1>6. /\ q \in Window /\ q.pc = kind /\ q.to = to /\ q.route = win[w].route /\ q.k = win[w].k
      /\ q.entry = win[w].entry /\ q.tab = win[w].tab
  BY <1>5, ZenonT(90) DEF NavInv, Types, Window, Steps, Pages
<1> HIDE DEF q
<1>7. win' \in [Windows -> Window] /\ \A v \in Windows : win'[v] = IF v = w THEN q ELSE win[v]
  BY <1>2, <1>6, OneWindow, ZenonT(30) DEF q, to
<1>8. t \in Targets
  BY ConstantsAssumption, ZenonT(30)
<1>9. Types'
  BY <1>1, <1>3, <1>7, <1>8, ZenonT(30) DEF NavInv, Types, Docs
<1>10. \A v \in Windows : WindowOK(v)'
  <2>1. share'[n + 1] \in Targets
    BY <1>1, <1>3, <1>8, ZenonT(30) DEF NavInv, Types
  <2>2. WindowOK(w)'
    <3>1. WindowOK(w) /\ win'[w] = q
      BY <1>7, ZenonT(30) DEF NavInv
    <3>2. win[w].route \in Ids => share'[win[w].route] = share[win[w].route]
      BY <1>1, SharesKept, ZenonT(30)
    <3>3. win[w].route \in Ids /\ win[w].tab \in Ids /\ win[w].entry \in Ids /\ share[win[w].route] \in Targets
      BY <1>1, <3>1, ZenonT(30) DEF WindowOK, Pages
    <3>4. q.to.route = n + 1 /\ q.to.entry = e /\ q.to.dest = d
      BY <1>5, <1>6, ZenonT(30)
    <3> QED BY <1>3, <1>4, <1>6, <2>1, <3>1, <3>2, <3>3, <3>4, ZenonT(30) DEF WindowOK
  <2>3. ASSUME NEW v \in Windows, v # w PROVE WindowOK(v)'
    <3>1. win'[v] = win[v]
      BY <1>7, <2>3, ZenonT(30)
    <3>2. /\ win[v].route \in Ids => share'[win[v].route] = share[win[v].route]
          /\ win[v].pc \in Asking => share'[win[v].to.route] = share[win[v].to.route]
      BY <1>1, SharesKept, ZenonT(30)
    <3>3. WindowOK(v)
      BY ZenonT(30) DEF NavInv
    <3> QED BY <3>1, <3>2, <3>3, ZenonT(30) DEF WindowOK
  <2> QED BY <2>2, <2>3, ZenonT(30)
<1>11. Keys'
  <2>1. \A v \in Windows, i \in Ids : Asks(v, i)' => Asks(v, i) \/ (v = w /\ i = n + 1 /\ n' = n + 1)
    BY <1>1, <1>5, <1>6, <1>7, ZenonT(30) DEF Asks
  <2>2. \A i \in Ids \ {0} : Untouched(i) => Untouched(i)'
    BY <1>1, <1>6, <1>7, ZenonT(30) DEF Untouched
  <2>3. \A x, y \in Windows : win'[x].route = win'[y].route /\ win'[x].route # 0 => x = y
    BY <1>6, <1>7, SMTT(30) DEF NavInv, Keys
  <2>4. n' \in Ids0 /\ n' \in {n, n + 1}
    BY <1>1, <1>3, ZenonT(30)
  <2> QED BY <2>1, <2>2, <2>3, <2>4, KeysKept, ZeroIsNoId, ZenonT(30)
<1>12. Homes'
  <2>1. \A i, u \in Ids : Lies(i, u)' => Lies(i, u)
    BY <1>1, <1>6, <1>7, SMTT(30) DEF Lies, Pages, Asking
  <2> QED BY <2>1, ZenonT(30) DEF NavInv, Homes
<1>13. \A v \in Windows : Goes(v) /\ Steady(v)
  BY <1>1, <1>6, <1>7, ZenonT(30) DEF Goes, Steady, Pages, Asking
<1>14. Whole(mem)' /\ Whole(db)' /\ Forgetful' /\ FetchesOK' /\ Contexts' /\ FirstLife'
  BY <1>1, <1>7, <1>13, WindowsMove, ZenonT(30)
<1>15. Seeing'
  BY <1>1, <1>6, <1>7, ZenonT(30) DEF NavInv, Seeing, Unopened, Grows, Asking
<1>16. Submissions'
  BY <1>1, ZenonT(30) DEF NavInv, Submissions
<1> QED BY <1>9, <1>10, <1>11, <1>12, <1>14, <1>15, <1>16, ZenonT(30) DEF NavInv

\* A window that goes somewhere is a new client, which shows nothing yet.
LEMMA GoingIs ==
  ASSUME NavInv, NEW w \in Windows, NEW r \in Ids0, NEW s \in Ids0
  PROVE  LET q == Going(w, r, s)
         IN /\ q \in Window /\ q.pc = "loading" /\ q.k = win[w].k + 1 /\ q.route = r
            /\ q.submit = s /\ q.entry = 0 /\ q.to = Nowhere
<1>1. win[w].k \in Nat /\ 0 \in Ids0
  BY WindowType, ConstantsAssumption, SMTT(30) DEF NavInv, Types, Ids0
<1>2. /\ Closed \in Window /\ Closed.entry = 0 /\ Closed.to = Nowhere
  BY <1>1, ZenonT(30) DEF Closed, Nowhere, Window, Steps
<1> DEFINE k == win[w].k + 1
           c == [Closed EXCEPT !.pc = "loading", !.k = k]
<1>3. c \in Window /\ c.pc = "loading" /\ c.k = k /\ c.entry = 0 /\ c.to = Nowhere
  <2>1. k \in Nat /\ "loading" \in Steps
    BY <1>1, SMTT(30) DEF Steps
  <2> HIDE DEF k
  <2> QED BY <1>2, <2>1, ZenonT(30) DEF Window
<1>4. Going(w, r, s) = [c EXCEPT !.route = r, !.submit = s]
  BY ZenonT(30) DEF Going
<1> HIDE DEF c
<1> QED BY <1>3, <1>4, ZenonT(30) DEF Window

\* A reload goes to the route again, with its submission.
LEMMA ReloadStep ==
  ASSUME NavInv, NEW w \in Windows, Reload(w)
  PROVE  NavInv'
<1> DEFINE q == Going(w, win[w].route, win[w].submit)
<1>1. /\ win[w].pc \in {"page", "error"} /\ win' = [win EXCEPT ![w] = q]
      /\ UNCHANGED <<mem, pending, db, worker, fetches, share, n, ends, posted, blind>>
  BY ZenonT(30) DEF Reload
<1>2. /\ q \in Window /\ q.pc = "loading" /\ q.k = win[w].k + 1 /\ q.route = win[w].route
      /\ q.entry = 0 /\ q.to = Nowhere
  BY GoingIs, WindowType, SMTT(30), Z3T(30) DEF NavInv, Types
<1> HIDE DEF q
<1>3. win' \in [Windows -> Window] /\ \A v \in Windows : win'[v] = IF v = w THEN q ELSE win[v]
  BY <1>1, <1>2, OneWindow, ZenonT(30)
<1>4. Types'
  BY <1>1, <1>3, ZenonT(30) DEF NavInv, Types
<1>5. \A v \in Windows : WindowOK(v)'
  BY <1>1, <1>2, <1>3, ZenonT(30) DEF NavInv, WindowOK, Pages, Asking
<1>6. Keys'
  <2>1. \A v \in Windows, i \in Ids : Asks(v, i)' => Asks(v, i)
    BY <1>2, <1>3, ZenonT(30) DEF Asks, Asking
  <2>2. \A i \in Ids \ {0} : Untouched(i) => Untouched(i)'
    BY <1>1, <1>2, <1>3, ZeroIsNoId, ZenonT(30) DEF Untouched
  <2>3. \A x, y \in Windows : win'[x].route = win'[y].route /\ win'[x].route # 0 => x = y
    BY <1>2, <1>3, SMTT(30) DEF NavInv, Keys
  <2>4. n' \in Ids0 /\ n' \in {n, n + 1}
    BY <1>1, ZenonT(30) DEF NavInv, Types
  <2> QED BY <2>1, <2>2, <2>3, <2>4, KeysKept, ZeroIsNoId, ZenonT(30)
<1>7. Homes'
  <2>1. \A i, u \in Ids : Lies(i, u)' => Lies(i, u)
    BY <1>1, <1>2, <1>3, ZenonT(30) DEF Lies, Pages, Asking
  <2> QED BY <2>1, ZenonT(30) DEF NavInv, Homes
<1>8. \A v \in Windows : Goes(v) /\ Steady(v)
  <2>1. win[w].k \in Nat
    BY WindowType, ZenonT(30) DEF NavInv, Types
  <2> QED BY <1>1, <1>2, <1>3, <2>1, SMTT(30) DEF Goes, Steady, Pages, Asking
<1>9. Whole(mem)' /\ Whole(db)' /\ Forgetful' /\ FetchesOK' /\ Contexts' /\ FirstLife'
  BY <1>1, <1>3, <1>8, WindowsMove, ZenonT(30)
<1>10. Seeing'
  BY <1>1, <1>2, <1>3, ZenonT(30) DEF NavInv, Seeing, Unopened, Grows
<1>11. Submissions'
  BY <1>1, ZenonT(30) DEF NavInv, Submissions
<1> QED BY <1>4, <1>5, <1>6, <1>7, <1>9, <1>10, <1>11, ZenonT(30) DEF NavInv

-----------------------------------------------------------------------------
(* The worker's life.                                                      *)

\* What concerns the windows alone stays, with them and what touches keys.
LEMMA WindowsStay ==
  ASSUME NavInv, UNCHANGED <<win, share, n>>, \A i \in Ids : Untouched(i) => Untouched(i)',
         \A i, u \in Ids : Lies(i, u)' => Lies(i, u)
  PROVE  (\A w \in Windows : WindowOK(w)') /\ Keys' /\ Homes'
<1>1. \A w \in Windows : WindowOK(w)'
  BY ZenonT(30) DEF NavInv, WindowOK
<1>2. Keys'
  <2>1. n' \in Ids0 /\ n' \in {n, n + 1} /\ \A v \in Windows, i \in Ids : Asks(v, i)' => Asks(v, i)
    BY ZenonT(30) DEF NavInv, Types, Asks
  <2>2. \A x, y \in Windows : win'[x].route = win'[y].route /\ win'[x].route # 0 => x = y
    BY ZenonT(30) DEF NavInv, Keys
  <2> QED BY <2>1, <2>2, ZeroIsNoId, KeysKept, ZenonT(30)
<1>3. Homes'
  BY ZenonT(30) DEF NavInv, Homes
<1> QED BY <1>1, <1>2, <1>3, ZenonT(30)

\* Windows that stay go nowhere.
LEMMA StayingGoes ==
  ASSUME win' = win
  PROVE  \A w \in Windows : Goes(w) /\ Steady(w)
BY ZenonT(30) DEF Goes, Steady

\* A submission expires.
LEMMA SubmissionExpiresStep ==
  ASSUME NavInv, NEW s \in Ids, SubmissionExpires(s)
  PROVE  NavInv'
<1>1. /\ pending' = [pending EXCEPT ![s] = 0]
      /\ UNCHANGED <<mem, db, worker, win, fetches, n, posted, share, ends, blind>>
  BY ZenonT(30) DEF SubmissionExpires, browser
<1>2. pending' \in [Ids -> Ids0] /\ \A i \in Ids : pending'[i] \in {0, pending[i]}
  <2>1. 0 \in Ids0 /\ pending \in [Ids -> Ids0]
    BY ConstantsAssumption, SMTT(30) DEF NavInv, Types, Ids0
  <2> QED BY <1>1, <2>1, ZenonT(30)
<1>3. Types'
  BY <1>1, <1>2, ZenonT(30) DEF NavInv, Types
<1>4. \A i \in Ids : Untouched(i) => Untouched(i)'
  BY <1>1, <1>2, ZenonT(30) DEF Untouched
<1>5. (\A w \in Windows : WindowOK(w)') /\ Keys' /\ Homes'
  <2>1. \A i, u \in Ids : Lies(i, u)' => Lies(i, u)
    BY <1>1, ZenonT(30) DEF Lies
  <2> QED BY <1>1, <1>4, <2>1, WindowsStay, ZenonT(30)
<1>6. Whole(mem)' /\ Whole(db)' /\ Forgetful' /\ FetchesOK' /\ Contexts' /\ FirstLife'
  <2>1. win' \in [Windows -> Window]
    BY <1>3, ZenonT(30) DEF Types
  <2> QED BY <1>1, <2>1, StayingGoes, WindowsMove, ZenonT(30)
<1>7. Seeing'
  BY <1>1, ZenonT(30) DEF NavInv, Seeing, Unopened, Grows
<1>8. Submissions'
  BY <1>1, <1>2, ZenonT(30) DEF NavInv, Submissions
<1> QED BY <1>3, <1>5, <1>6, <1>7, <1>8, ZenonT(30) DEF NavInv

\* A worker that is not up has ended once.
LEMMA DownHasEnded ==
  ASSUME NavInv, worker # "up"
  PROVE  ends # 0 /\ mem = Empty /\ fetches = {}
BY ZenonT(30) DEF NavInv, FirstLife, Forgetful

\* The browser starts the worker.
LEMMA WorkerStartsStep ==
  ASSUME NavInv, WorkerStarts
  PROVE  NavInv'
<1>1. /\ worker = "down" /\ worker' = "loading"
      /\ UNCHANGED <<mem, db, pending, win, fetches, n, posted, share, ends, blind>>
  BY ZenonT(30) DEF WorkerStarts, browser
<1>2. ends # 0 /\ mem = Empty /\ fetches = {}
  BY <1>1, DownHasEnded, ZenonT(30)
<1>3. Types'
  BY <1>1, ZenonT(30) DEF NavInv, Types
<1>4. (\A w \in Windows : WindowOK(w)') /\ Keys' /\ Homes'
  <2>1. \A i, u \in Ids : Lies(i, u)' => Lies(i, u)
    BY <1>1, ZenonT(30) DEF Lies
  <2>2. \A i \in Ids : Untouched(i) => Untouched(i)'
    BY <1>1, ZenonT(30) DEF Untouched
  <2> QED BY <1>1, <2>1, <2>2, WindowsStay, ZenonT(30)
<1>5. Whole(mem)' /\ Whole(db)'
  BY <1>1, ZenonT(30) DEF NavInv, Whole, Linked
<1>6. Forgetful' /\ FetchesOK' /\ FirstLife'
  BY <1>1, <1>2, ZenonT(30) DEF Forgetful, FetchesOK, FirstLife
<1>7. Contexts'
  <2>1. win' \in [Windows -> Window]
    BY <1>3, ZenonT(30) DEF Types
  <2> QED BY <1>1, <2>1, StayingGoes, ContextsKept, ZenonT(30)
<1>8. Seeing' /\ Submissions'
  BY <1>1, ZenonT(30) DEF NavInv, Seeing, Unopened, Submissions
<1> QED BY <1>3, <1>4, <1>5, <1>6, <1>7, <1>8, ZenonT(30) DEF NavInv

\* The worker takes over what the store has, or goes on with nothing.
LEMMA RestoreStep ==
  ASSUME NavInv, Restore
  PROVE  NavInv'
<1>1. /\ worker = "loading" /\ worker' = "up"
      /\ UNCHANGED <<db, pending, win, fetches, n, posted, share, ends>>
      /\ (mem' = db /\ blind' = blind) \/ (mem' = mem /\ blind' = TRUE)
  BY ZenonT(30) DEF Restore
<1>2. ends # 0 /\ mem = Empty /\ fetches = {}
  BY <1>1, DownHasEnded, ZenonT(30)
<1>3. Types'
  BY <1>1, ZenonT(30) DEF NavInv, Types
<1>4. (\A w \in Windows : WindowOK(w)') /\ Keys' /\ Homes'
  <2>1. \A i, u \in Ids : Lies(i, u)' => Lies(i, u)
    BY <1>1, ZenonT(30) DEF Lies
  <2>2. \A i \in Ids : Untouched(i) => Untouched(i)'
    BY <1>1, ZenonT(30) DEF Untouched
  <2> QED BY <1>1, <2>1, <2>2, WindowsStay, ZenonT(30)
<1>5. Whole(mem)' /\ Whole(db)'
  BY <1>1, ZenonT(30) DEF NavInv, Whole, Linked
<1>6. Forgetful' /\ FetchesOK' /\ FirstLife'
  BY <1>1, <1>2, ZenonT(30) DEF Forgetful, FetchesOK, FirstLife
<1>7. Contexts'
  <2>1. win' \in [Windows -> Window] /\ mem'.clients \cup db'.clients \subseteq mem.clients \cup db.clients
    BY <1>1, <1>3, ZenonT(30) DEF Types
  <2> QED BY <1>1, <2>1, StayingGoes, ContextsKept, ZenonT(30)
<1>8. Seeing' /\ Submissions'
  BY <1>1, ZenonT(30) DEF NavInv, Seeing, Unopened, Grows, Submissions
<1> QED BY <1>3, <1>4, <1>5, <1>6, <1>7, <1>8, ZenonT(30) DEF NavInv

\* What is stored is memory but for the marks of its routes.
LEMMA StoredIs ==
  ASSUME mem \in Mem
  PROVE  /\ stored \in Mem /\ stored.tabs = mem.tabs /\ stored.entries = mem.entries /\ stored.clients = mem.clients
         /\ \A r \in Ids : /\ stored.routes[r] = NoRoute <=> mem.routes[r] = NoRoute
                           /\ stored.routes[r].tab = mem.routes[r].tab
                           /\ stored.routes[r].entry = mem.routes[r].entry
<1> DEFINE take(r) == IF mem.routes[r] = NoRoute THEN NoRoute
                      ELSE [mem.routes[r] EXCEPT !.frame = @ \/ mem.entries[mem.routes[r].entry].frame]
           routes == [r \in Ids |-> take(r)]
<1>1. ASSUME NEW r \in Ids
      PROVE  /\ take(r) \in Route \cup {NoRoute}
             /\ take(r) = NoRoute <=> mem.routes[r] = NoRoute
             /\ take(r).tab = mem.routes[r].tab /\ take(r).entry = mem.routes[r].entry
  <2>1. CASE mem.routes[r] = NoRoute
    BY <2>1, ZenonT(30)
  <2>2. CASE mem.routes[r] # NoRoute
    <3>1. mem.routes[r] \in Route /\ mem.routes[r].tab \in Ids /\ mem.routes[r].entry \in Ids
      BY <2>2, Present, ZenonT(30) DEF Route
    <3> DEFINE b == mem.routes[r].frame \/ mem.entries[mem.routes[r].entry].frame
               q == [mem.routes[r] EXCEPT !.frame = b]
    <3>3. b \in BOOLEAN /\ take(r) = q
      BY <2>2, ZenonT(30)
    <3> HIDE DEF b
    <3>4. q \in Route /\ q.tab = mem.routes[r].tab /\ q.entry = mem.routes[r].entry
      BY <3>1, <3>3, ZenonT(30) DEF Route
    <3>5. NoRoute.tab = 0
      BY ZenonT(30) DEF NoRoute
    <3> QED BY <2>2, <3>1, <3>3, <3>4, <3>5, ZeroIsNoId, ZenonT(30)
  <2> QED BY <2>1, <2>2, ZenonT(30)
<1>2. stored = [mem EXCEPT !.routes = routes]
  BY ZenonT(30) DEF stored
<1> HIDE DEF take
<1>3. routes \in [Ids -> Route \cup {NoRoute}] /\ \A r \in Ids : routes[r] = take(r)
  BY <1>1, ZenonT(30)
<1> HIDE DEF routes
<1>4. stored \in Mem /\ stored.tabs = mem.tabs /\ stored.entries = mem.entries /\ stored.clients = mem.clients
      /\ stored.routes = routes
  BY <1>2, <1>3, ZenonT(30) DEF Mem
<1> QED BY <1>1, <1>3, <1>4, ZenonT(30)

\* The store takes over what memory has.
LEMMA FlushStep ==
  ASSUME NavInv, Flush
  PROVE  NavInv'
<1>1. /\ worker = "up" /\ db' = stored
      /\ UNCHANGED <<mem, pending, worker, win, fetches, n, posted, share, ends, blind>>
  BY ZenonT(30) DEF Flush, browser
<1>2. mem \in Mem
  BY ZenonT(30) DEF NavInv, Types
<1>3. /\ db' \in Mem /\ db'.tabs = mem.tabs /\ db'.entries = mem.entries /\ db'.clients = mem.clients
      /\ \A r \in Ids : /\ db'.routes[r] = NoRoute <=> mem.routes[r] = NoRoute
                        /\ db'.routes[r].tab = mem.routes[r].tab
                        /\ db'.routes[r].entry = mem.routes[r].entry
  BY <1>1, <1>2, StoredIs, ZenonT(30)
<1>4. Types'
  BY <1>1, <1>3, ZenonT(30) DEF NavInv, Types
<1>5. (\A w \in Windows : WindowOK(w)') /\ Keys' /\ Homes'
  <2>1. \A i, u \in Ids : Lies(i, u)' => Lies(i, u)
    BY <1>1, <1>3, ZenonT(30) DEF Lies
  <2>2. \A i \in Ids : Untouched(i) => Untouched(i)'
    BY <1>1, <1>3, ZenonT(30) DEF Untouched
  <2> QED BY <1>1, <2>1, <2>2, WindowsStay, ZenonT(30)
<1>6. Whole(mem)' /\ Whole(db)'
  <2>1. Whole(mem)
    BY ZenonT(30) DEF NavInv
  <2>2. Whole(mem)'
    BY <1>1, <2>1, ZenonT(30) DEF Whole, Linked
  <2>3. \A x : Linked(mem, x) => Linked(db', x)
    BY <1>3, ZenonT(30) DEF Linked
  <2>4. \A x \in db'.clients : Linked(db', x)
    BY <1>3, <2>1, <2>3, ZenonT(30) DEF Whole
  <2>5. ASSUME NEW r \in Ids, db'.routes[r] # NoRoute PROVE Linked(db', db'.routes[r])
    <3>1. mem.routes[r] # NoRoute /\ db'.routes[r].tab = mem.routes[r].tab /\ db'.routes[r].entry = mem.routes[r].entry
      BY <1>3, <2>5, ZenonT(30)
    <3>2. Linked(mem, mem.routes[r])
      BY <2>1, <3>1, ZenonT(30) DEF Whole
    <3> QED BY <1>3, <3>1, <3>2, ZenonT(30) DEF Linked
  <2> QED BY <2>2, <2>4, <2>5, ZenonT(30) DEF Whole
<1>7. win' \in [Windows -> Window] /\ Keeps(mem')
  BY <1>1, <1>2, <1>4, ZenonT(30) DEF Types, Keeps
<1>8. Forgetful' /\ FetchesOK' /\ FirstLife'
  BY <1>1, <1>7, StayingGoes, FetchesKept, FirstLifeKept, ZenonT(30) DEF Forgetful
<1>9. Contexts'
  BY <1>1, <1>3, <1>7, StayingGoes, ContextsKept, ZenonT(30)
<1>10. Seeing'
  <2>1. Grows(db, mem)'
    BY <1>1, <1>3, ZenonT(30) DEF Grows
  <2>2. \A w \in Windows : Unopened(w) => Unopened(w)'
    BY <1>1, <1>3, ZenonT(30) DEF NavInv, WindowOK, Unopened
  <2> QED BY <1>1, <2>1, <2>2, ZenonT(30) DEF NavInv, Seeing
<1>11. Submissions'
  BY <1>1, ZenonT(30) DEF NavInv, Submissions
<1> QED BY <1>4, <1>5, <1>6, <1>8, <1>9, <1>10, <1>11, ZenonT(30) DEF NavInv

\* A memory that knows nothing.
LEMMA EmptyIs ==
  /\ Empty \in Mem /\ Empty.clients = {} /\ Whole(Empty)
  /\ \A i \in Ids : Empty.entries[i] = NoEntry /\ Empty.routes[i] = NoRoute
<1>1. Empty \in Mem /\ Empty.clients = {}
  BY ZenonT(30) DEF Empty, Mem
<1>2. \A i \in Ids : Empty.entries[i] = NoEntry /\ Empty.routes[i] = NoRoute
  BY ZenonT(30) DEF Empty
<1> QED BY <1>1, <1>2, ZenonT(30) DEF Whole

\* What becomes of a window: nothing, an error page, a page that leaves for
\* where it was going, or one that stays.
Fails(w) ==
  /\ win[w].pc \in {"fetching", "launcher"} /\ win'[w].pc = "error"
  /\ win'[w].k = win[w].k /\ win'[w].route = win[w].route /\ win'[w].entry = win[w].entry /\ win'[w].tab = win[w].tab
Leaves(w) ==
  /\ win[w].pc = "nav" /\ win'[w].pc = "loading"
  /\ win'[w].k = win[w].k + 1 /\ win'[w].route = win[w].to.route /\ win'[w].entry = 0
Remains(w) ==
  /\ win[w].pc \in {"frame", "submit"} /\ win'[w].pc = "page"
  /\ win'[w].k = win[w].k /\ win'[w].route = win[w].route /\ win'[w].entry = win[w].entry /\ win'[w].tab = win[w].tab
Deserts(w) == (win'[w] = win[w] /\ win[w].pc # "fetching") \/ Fails(w) \/ Leaves(w) \/ Remains(w)

\* Deserted covers the cases.
LEMMA DesertedIs ==
  ASSUME NavInv, NEW lost, win' = [w \in Windows |-> Deserted(w, w \in lost)]
  PROVE  win' \in [Windows -> Window] /\ \A w \in Windows : Deserts(w)
<1>1. ASSUME NEW w \in Windows PROVE win'[w] \in Window /\ Deserts(w)
  <2>1. win[w] \in Window /\ win'[w] = Deserted(w, w \in lost)
    BY ZenonT(30) DEF NavInv, Types
  <2>2. CASE win[w].pc = "fetching" \/ (w \in lost /\ win[w].pc = "launcher")
    <3> DEFINE q == [win[w] EXCEPT !.pc = "error"]
    <3>1. Deserted(w, w \in lost) = q
      BY <2>2, ZenonT(30) DEF Deserted
    <3>2. q \in Window /\ q.pc = "error" /\ q.k = win[w].k /\ q.route = win[w].route
          /\ q.entry = win[w].entry /\ q.tab = win[w].tab
      BY <2>1, ZenonT(30) DEF Window, Steps
    <3> HIDE DEF q
    <3> QED BY <2>1, <2>2, <3>1, <3>2, ZenonT(30) DEF Deserts, Fails
  <2>3. CASE w \in lost /\ win[w].pc = "nav"
    <3> DEFINE q == Going(w, win[w].to.route, 0)
    <3>1. Deserted(w, w \in lost) = q
      BY <2>3, ZenonT(30) DEF Deserted
    <3>2. win[w].to.route \in Ids0 /\ 0 \in Ids0
      BY WindowType, ConstantsAssumption, SMTT(30), Z3T(30) DEF NavInv, Types, Ids0
    <3>3. q \in Window /\ q.pc = "loading" /\ q.k = win[w].k + 1 /\ q.route = win[w].to.route /\ q.entry = 0
      BY <3>2, GoingIs, SMTT(30)
    <3> HIDE DEF q
    <3> QED BY <2>1, <2>3, <3>1, <3>3, ZenonT(30) DEF Deserts, Leaves
  <2>4. CASE w \in lost /\ win[w].pc \in {"frame", "submit"}
    <3> DEFINE q == [win[w] EXCEPT !.pc = "page", !.to = Nowhere]
    <3>1. Deserted(w, w \in lost) = q
      BY <2>4, ZenonT(30) DEF Deserted
    <3>2. Nowhere \in [entry: Ids0, route: Ids0, dest: Windows \cup {None}]
      BY ConstantsAssumption, SMTT(30) DEF Nowhere, Ids0
    <3>3. q \in Window /\ q.pc = "page" /\ q.k = win[w].k /\ q.route = win[w].route
          /\ q.entry = win[w].entry /\ q.tab = win[w].tab
      BY <2>1, <3>2, ZenonT(30) DEF Window, Steps, Pages
    <3> HIDE DEF q
    <3> QED BY <2>1, <2>4, <3>1, <3>3, ZenonT(30) DEF Deserts, Remains
  <2>5. CASE /\ win[w].pc # "fetching"
             /\ w \in lost => win[w].pc \notin {"launcher", "nav", "frame", "submit"}
    <3>1. Deserted(w, w \in lost) = win[w]
      BY <2>5, ZenonT(30) DEF Deserted
    <3> QED BY <2>1, <2>5, <3>1, ZenonT(30) DEF Deserts
  <2> QED BY <2>2, <2>3, <2>4, <2>5, ZenonT(30)
<1>2. win' \in [Windows -> Window]
  BY <1>1, ZenonT(30)
<1> QED BY <1>1, <1>2, ZenonT(30)

\* The end of the worker keeps the invariant, whoever is told of it.
LEMMA WorkerEndsStep ==
  ASSUME NavInv, NEW lost, WorkerEnds(lost)
  PROVE  NavInv'
<1>1. /\ worker = "up" /\ worker' = "down" /\ ends' = ends + 1 /\ mem' = Empty
      /\ pending' = [i \in Ids |-> 0] /\ fetches' = {} /\ UNCHANGED <<db, share, n, posted, blind>>
  BY ZenonT(30) DEF WorkerEnds
<1>2. win' \in [Windows -> Window] /\ \A w \in Windows : Deserts(w)
  BY DesertedIs, ZenonT(30) DEF WorkerEnds
<1>3. \A w \in Windows, i \in Ids : Asks(w, i)' => Asks(w, i) /\ win'[w] = win[w]
  BY <1>2, ZenonT(30) DEF Deserts, Fails, Leaves, Remains, Asks, Asking
<1>4. \A w \in Windows : win'[w].entry \in {0, win[w].entry}
  BY <1>2, ZenonT(30) DEF Deserts, Fails, Leaves, Remains
<1>5. \A w \in Windows : \/ win'[w].route = win[w].route
                         \/ /\ win'[w].route \in Ids /\ Asks(w, win'[w].route)
                            /\ \A i \in Ids : ~Asks(w, i)'
  <2> SUFFICES ASSUME NEW w \in Windows, Leaves(w)
               PROVE  win'[w].route \in Ids /\ Asks(w, win'[w].route) /\ \A i \in Ids : ~Asks(w, i)'
    BY <1>2, ZenonT(30) DEF Deserts, Fails, Remains
  <2> QED BY ZenonT(30) DEF Leaves, Asks, Asking, NavInv, WindowOK
<1>6. Types'
  <2>1. ends' \in Nat /\ 0 \in Ids0
    BY <1>1, ConstantsAssumption, SMTT(30) DEF NavInv, Types, Ids0
  <2> QED BY <1>1, <1>2, <2>1, EmptyIs, ZenonT(30) DEF NavInv, Types
<1>7. \A w \in Windows : WindowOK(w)'
  <2> SUFFICES ASSUME NEW w \in Windows PROVE WindowOK(w)'
    BY ZenonT(30)
  <2>1. WindowOK(w)
    BY ZenonT(30) DEF NavInv
  <2>2. CASE win'[w] = win[w]
    BY <1>1, <2>1, <2>2, ZenonT(30) DEF WindowOK
  <2>3. CASE Fails(w)
    BY <1>1, <2>1, <2>3, ZenonT(30) DEF WindowOK, Fails, Pages, Asking
  <2>4. CASE Leaves(w)
    BY <1>1, <2>1, <2>4, ZenonT(30) DEF WindowOK, Leaves, Pages, Asking
  <2>5. CASE Remains(w)
    BY <1>1, <2>1, <2>5, ZenonT(30) DEF WindowOK, Remains, Pages, Asking
  <2> QED BY <1>2, <2>2, <2>3, <2>4, <2>5, ZenonT(30) DEF Deserts
<1>8. ASSUME NEW i \in Ids, Untouched(i), \A w \in Windows : win'[w].route # i PROVE Untouched(i)'
  <2>1. \A w \in Windows : win'[w].entry # i
    BY <1>4, <1>8, ZeroIsNoId, ZenonT(30) DEF Untouched
  <2>2. mem'.entries[i] = NoEntry /\ mem'.routes[i] = NoRoute /\ pending'[i] = 0
    BY <1>1, EmptyIs, ZenonT(30)
  <2> QED BY <1>1, <1>8, <2>1, <2>2, ZenonT(30) DEF Untouched
<1>9. Keys'
  <2>1. ASSUME NEW i \in Ids, i > n' PROVE Untouched(i)' /\ \A w \in Windows : ~Asks(w, i)'
    <3>1. Untouched(i) /\ \A w \in Windows : ~Asks(w, i)
      BY <1>1, <2>1, ZenonT(30) DEF NavInv, Keys
    <3>2. \A w \in Windows : win'[w].route # i
      BY <1>5, <3>1, ZenonT(30) DEF Untouched
    <3> QED BY <1>3, <1>8, <3>1, <3>2, ZenonT(30)
  <2>2. ASSUME NEW w \in Windows, NEW i \in Ids, Asks(w, i)' PROVE Untouched(i)'
    <3>1. Asks(w, i) /\ Untouched(i)
      BY <1>3, <2>2, ZenonT(30) DEF NavInv, Keys
    <3>2. ASSUME NEW v \in Windows, win'[v].route = i PROVE FALSE
      <4>1. Asks(v, i) /\ ~Asks(v, i)'
        BY <1>5, <3>1, <3>2, ZenonT(30) DEF Untouched
      <4>2. v = w
        BY <3>1, <4>1, ZenonT(30) DEF NavInv, Keys
      <4> QED BY <2>2, <4>1, <4>2, ZenonT(30)
    <3> QED BY <1>8, <3>1, <3>2, ZenonT(30)
  <2>3. \A v, w \in Windows : \A i \in Ids : Asks(v, i)' /\ Asks(w, i)' => v = w
    BY <1>3, ZenonT(30) DEF NavInv, Keys
  <2>4. ASSUME NEW v \in Windows, NEW w \in Windows, win'[v].route = win'[w].route, win'[v].route # 0 PROVE v = w
    <3>1. CASE win'[v].route = win[v].route /\ win'[w].route = win[w].route
      BY <2>4, <3>1, ZenonT(30) DEF NavInv, Keys
    <3>2. CASE win'[v].route \in Ids /\ Asks(v, win'[v].route)
      <4>1. PICK i \in Ids : i = win'[v].route
        BY <3>2, ZenonT(30)
      <4>2. Asks(v, i) /\ Untouched(i)
        BY <3>2, <4>1, ZenonT(30) DEF NavInv, Keys
      <4>3. Asks(w, i)
        BY <1>5, <2>4, <4>1, <4>2, ZenonT(30) DEF Untouched
      <4> QED BY <4>2, <4>3, ZenonT(30) DEF NavInv, Keys
    <3>3. CASE win'[w].route \in Ids /\ Asks(w, win'[w].route)
      <4>1. PICK i \in Ids : i = win'[w].route
        BY <3>3, ZenonT(30)
      <4>2. Asks(w, i) /\ Untouched(i)
        BY <3>3, <4>1, ZenonT(30) DEF NavInv, Keys
      <4>3. Asks(v, i)
        BY <1>5, <2>4, <4>1, <4>2, ZenonT(30) DEF Untouched
      <4> QED BY <4>2, <4>3, ZenonT(30) DEF NavInv, Keys
    <3> QED BY <1>5, <3>1, <3>2, <3>3, ZenonT(30)
  <2> QED BY <2>1, <2>2, <2>3, <2>4, ZenonT(30) DEF Keys
<1>10. Homes'
  <2>1. \A w \in Windows : win'[w].pc \in Pages =>
          win[w].pc \in Pages /\ win'[w].entry = win[w].entry /\ win'[w].tab = win[w].tab
    BY <1>2, ZenonT(30) DEF Deserts, Fails, Leaves, Remains, Pages, Asking
  <2>2. \A i, u \in Ids : mem'.entries[i].tab # u
    BY <1>1, EmptyIs, ZeroIsNoId, SMTT(30) DEF NoEntry
  <2>3. \A i, u \in Ids : Lies(i, u)' => Lies(i, u)
    BY <1>1, <2>1, <2>2, ZenonT(30) DEF Lies
  <2> QED BY <2>3, ZenonT(30) DEF NavInv, Homes
<1>11. Whole(mem)' /\ Whole(db)' /\ Forgetful' /\ FetchesOK'
  <2>1. Whole(mem')
    BY <1>1, EmptyIs, ZenonT(30)
  <2> QED BY <1>1, <2>1, ZenonT(30) DEF NavInv, Whole, Linked, Forgetful, FetchesOK
<1>12. Contexts'
  <2>1. ASSUME NEW w \in Windows PROVE Goes(w)
    <3>1. win[w].k \in Nat
      BY WindowType, ZenonT(30) DEF NavInv, Types
    <3> QED BY <1>1, <1>2, <3>1, SMTT(30) DEF Deserts, Fails, Leaves, Remains, Goes, Pages, Asking
  <2>2. mem'.clients \cup db'.clients \subseteq mem.clients \cup db.clients /\ fetches' \subseteq fetches
    BY <1>1, EmptyIs, ZenonT(30)
  <2> QED BY <1>2, <2>1, <2>2, ContextsKept, ZenonT(30)
<1>13. Seeing'
  <2>1. ASSUME NEW w \in Windows, win'[w].pc = "launcher", Unopened(w) PROVE Unopened(w)'
    <3>1. win'[w] = win[w] /\ win[w].route \in Ids
      BY <1>2, <2>1, ZenonT(30) DEF Deserts, Fails, Leaves, Remains, NavInv, WindowOK
    <3>2. mem'.routes[win[w].route] = NoRoute
      BY <1>1, <3>1, EmptyIs, ZenonT(30)
    <3> QED BY <1>1, <2>1, <3>1, <3>2, ZenonT(30) DEF Unopened
  <2> QED BY <1>1, <2>1, ZenonT(30) DEF NavInv, Seeing, Unopened
<1>14. Submissions'
  BY <1>1, ZenonT(30) DEF NavInv, Submissions
<1>15. FirstLife'
  <2>1. ends' # 0
    BY <1>1, SMTT(30) DEF NavInv, Types
  <2> QED BY <2>1, ZenonT(30) DEF FirstLife
<1> QED BY <1>6, <1>7, <1>9, <1>10, <1>11, <1>12, <1>13, <1>14, <1>15, ZenonT(30) DEF NavInv

-----------------------------------------------------------------------------
(* What fails.                                                             *)

\* A fetch is of an entry and a tab that memory has, and the worker is up.
LEMMA FetchFacts ==
  ASSUME NavInv, NEW f \in fetches
  PROVE  /\ f.tab \in Ids /\ f.entry \in Ids /\ mem.tabs[f.tab] # NoTab /\ mem.entries[f.entry].tab = f.tab
         /\ f.client[1] \in Windows /\ f.client = <<f.client[1], f.client[2]>> /\ worker = "up"
         /\ f \in Fetch
<1>1. f \in Fetch /\ FetchOK(f) /\ worker = "up"
  BY ZenonT(30) DEF NavInv, Types, FetchesOK, Forgetful
<1>2. f.client \in Clients /\ f.tab \in Ids /\ f.entry \in Ids
  BY <1>1, ZenonT(30) DEF Fetch
<1> QED BY <1>1, <1>2, ClientParts, ZenonT(30) DEF FetchOK, Linked

\* A fetch fails.
LEMMA DocumentFailsStep ==
  ASSUME NavInv, NEW f \in fetches, DocumentFails(f)
  PROVE  NavInv'
<1>1. /\ fetches' = fetches \ {f}
      /\ UNCHANGED <<mem, pending, db, worker, n, posted, share, ends, blind>>
  BY ZenonT(30) DEF DocumentFails, browser
<1>2. PICK w \in Windows : w = f.client[1] /\ f.client = <<w, f.client[2]>>
  BY FetchFacts, ZenonT(30)
<1>3. /\ win' \in [Windows -> Window]
      /\ \A v \in Windows : /\ win'[v].k = win[v].k /\ win'[v].route = win[v].route
                            /\ win'[v].entry = win[v].entry /\ win'[v].tab = win[v].tab
      /\ \A v \in Windows : win'[v] = win[v] \/ (v = w /\ Current(f) /\ win'[v].pc = "error")
  <2>1. win \in [Windows -> Window] /\ win[w] \in Window
    BY ZenonT(30) DEF NavInv, Types
  <2>2. CASE Current(f)
    <3> DEFINE q == [win[w] EXCEPT !.pc = "error"]
    <3>1. win' = [win EXCEPT ![w] = q]
      BY <1>2, <2>2, ZenonT(30) DEF DocumentFails
    <3>2. q \in Window /\ q.pc = "error" /\ q.k = win[w].k /\ q.route = win[w].route
          /\ q.entry = win[w].entry /\ q.tab = win[w].tab
      BY <2>1, ZenonT(30) DEF Window, Steps
    <3> HIDE DEF q
    <3>3. win' \in [Windows -> Window] /\ \A v \in Windows : win'[v] = IF v = w THEN q ELSE win[v]
      BY <3>1, <3>2, OneWindow, ZenonT(30)
    <3> QED BY <2>2, <3>2, <3>3, ZenonT(30)
  <2>3. CASE ~Current(f)
    BY <2>1, <2>3, ZenonT(30) DEF DocumentFails
  <2> QED BY <2>2, <2>3, ZenonT(30)
<1>4. \A v \in Windows : Goes(v) /\ Steady(v)
  <2>1. Current(f) => \A g \in fetches' : g.client # <<w, win[w].k>>
    BY <1>1, <1>2, ZenonT(30) DEF Current, NavInv, FetchesOK
  <2>2. Current(f) => win[w].pc = "fetching"
    BY <1>2, ZenonT(30) DEF Current
  <2> QED BY <1>3, <2>1, <2>2, ZenonT(30) DEF Goes, Steady, Pages, Asking
<1>5. Types'
  BY <1>1, <1>3, ZenonT(30) DEF NavInv, Types
<1>6. \A v \in Windows : WindowOK(v)'
  BY <1>1, <1>2, <1>3, SMTT(30), Z3T(30) DEF NavInv, WindowOK, Pages, Asking, Current
<1>7. Keys'
  <2>1. \A v \in Windows, i \in Ids : Asks(v, i)' => Asks(v, i)
    BY <1>3, ZenonT(30) DEF Asks, Asking
  <2>2. \A i \in Ids : Untouched(i) => Untouched(i)'
    BY <1>1, <1>3, ZenonT(30) DEF Untouched
  <2>3. \A x, y \in Windows : win'[x].route = win'[y].route /\ win'[x].route # 0 => x = y
    BY <1>3, SMTT(30) DEF NavInv, Keys
  <2>4. n' \in Ids0 /\ n' \in {n, n + 1}
    BY <1>1, ZenonT(30) DEF NavInv, Types
  <2> QED BY <2>1, <2>2, <2>3, <2>4, ZeroIsNoId, KeysKept, ZenonT(30)
<1>8. Homes'
  <2>1. \A i, u \in Ids : Lies(i, u)' => Lies(i, u)
    BY <1>1, <1>3, ZenonT(30) DEF Lies, Pages, Asking
  <2> QED BY <2>1, ZenonT(30) DEF NavInv, Homes
<1>9. Keeps(mem') /\ Whole(mem)' /\ Whole(db)' /\ Forgetful'
  BY <1>1, ZenonT(30) DEF NavInv, Types, Keeps, Whole, Linked, Forgetful
<1>10. FetchesOK' /\ Contexts' /\ FirstLife'
  BY <1>1, <1>3, <1>4, <1>9, FetchesKept, ContextsKept, FirstLifeKept, ZenonT(30)
<1>11. Seeing' /\ Submissions'
  BY <1>1, <1>3, ZenonT(30) DEF NavInv, Seeing, Unopened, Grows, Submissions
<1> QED BY <1>5, <1>6, <1>7, <1>8, <1>9, <1>10, <1>11, ZenonT(30) DEF NavInv

\* A request for a route memory does not have opens the launcher.
LEMMA UnknownStep ==
  ASSUME NavInv, NEW w \in Windows, ProxyDocument(w), mem.routes[win[w].route] = NoRoute
  PROVE  NavInv'
<1>1. /\ worker = "up" /\ win[w].pc = "loading" /\ mem' = [mem EXCEPT !.routes[win[w].route] = NoRoute]
      /\ win' = [win EXCEPT ![w] = [win[w] EXCEPT !.pc = "launcher"]]
      /\ UNCHANGED <<pending, posted, db, worker, fetches, n, share, ends, blind>>
  BY ZenonT(30) DEF ProxyDocument, browser
<1>2. PICK r \in Ids : r = win[w].route /\ mem.routes[r] = NoRoute
  BY <1>1, ZenonT(30) DEF NavInv, WindowOK
<1>3. mem \in Mem /\ db \in Mem /\ win[w] \in Window
  BY ZenonT(30) DEF NavInv, Types
<1>4. mem' = mem
  <2>1. /\ mem' \in Mem /\ mem'.routes = [mem.routes EXCEPT ![r] = NoRoute]
        /\ mem'.tabs = mem.tabs /\ mem'.entries = mem.entries /\ mem'.clients = mem.clients
    BY <1>1, <1>2, <1>3, ZenonT(30) DEF Mem
  <2>2. mem'.routes = mem.routes
    BY <1>2, <1>3, <2>1, SMTT(30) DEF Mem
  <2> QED BY <1>3, <2>1, <2>2, SMTT(30) DEF Mem
<1>5. /\ win' \in [Windows -> Window] /\ \A v \in Windows \ {w} : win'[v] = win[v]
      /\ win'[w].pc = "launcher" /\ win'[w].k = win[w].k /\ win'[w].route = win[w].route
      /\ win'[w].entry = win[w].entry /\ win'[w].tab = win[w].tab
  <2> DEFINE q == [win[w] EXCEPT !.pc = "launcher"]
  <2>1. q \in Window /\ q.pc = "launcher" /\ q.k = win[w].k /\ q.route = win[w].route
        /\ q.entry = win[w].entry /\ q.tab = win[w].tab
    BY <1>3, ZenonT(30) DEF Window, Steps
  <2>2. win' = [win EXCEPT ![w] = q]
    BY <1>1, ZenonT(30)
  <2> HIDE DEF q
  <2> QED BY <2>1, <2>2, OneWindow, ZenonT(30)
<1>6. Types'
  BY <1>1, <1>4, <1>5, ZenonT(30) DEF NavInv, Types
<1>7. \A v \in Windows : WindowOK(v)'
  BY <1>1, <1>5, ZenonT(30) DEF NavInv, WindowOK, Pages, Asking
<1>8. \A v \in Windows : win'[v].route = win[v].route /\ win'[v].entry = win[v].entry
  BY <1>5, ZenonT(30)
<1>9. Keys'
  <2>1. \A v \in Windows, i \in Ids : Asks(v, i)' => Asks(v, i)
    BY <1>5, ZenonT(30) DEF Asks, Asking
  <2>2. \A i \in Ids : Untouched(i) => Untouched(i)'
    BY <1>1, <1>4, <1>8, ZenonT(30) DEF Untouched
  <2>3. \A x, y \in Windows : win'[x].route = win'[y].route /\ win'[x].route # 0 => x = y
    BY <1>8, ZenonT(30) DEF NavInv, Keys
  <2>4. n' \in Ids0 /\ n' \in {n, n + 1}
    BY <1>1, ZenonT(30) DEF NavInv, Types
  <2> QED BY <2>1, <2>2, <2>3, <2>4, ZeroIsNoId, KeysKept, ZenonT(30)
<1>10. Homes'
  <2>1. \A i, u \in Ids : Lies(i, u)' => Lies(i, u)
    BY <1>1, <1>4, <1>5, ZenonT(30) DEF Lies, Pages, Asking
  <2> QED BY <2>1, ZenonT(30) DEF NavInv, Homes
<1>11. \A v \in Windows : Goes(v) /\ Steady(v)
  BY <1>1, <1>5, ZenonT(30) DEF Goes, Steady, Pages, Asking
<1>12. Whole(mem)' /\ Whole(db)' /\ Forgetful' /\ FetchesOK' /\ Contexts' /\ FirstLife'
  BY <1>1, <1>4, <1>5, <1>11, WindowsMove, ZenonT(30)
<1>13. Seeing'
  <2> SUFFICES ASSUME ~blind PROVE Grows(db, mem)' /\ \A v \in Windows : Unopened(v)'
    BY <1>1, ZenonT(30) DEF Seeing
  <2>1. Grows(db, mem) /\ \A v \in Windows : Unopened(v)
    BY <1>1, ZenonT(30) DEF NavInv, Seeing
  <2>2. db.routes[r] = NoRoute
    BY <1>2, <1>3, <2>1, Present, ZeroIsNoId, ZenonT(30) DEF Grows, NoRoute
  <2> QED BY <1>1, <1>2, <1>4, <1>5, <2>1, <2>2, SMTT(30) DEF Unopened, Grows
<1>14. Submissions'
  BY <1>1, ZenonT(30) DEF NavInv, Submissions
<1> QED BY <1>6, <1>7, <1>9, <1>10, <1>12, <1>13, <1>14, ZenonT(30) DEF NavInv

\* What holds of a page that waits for the answer to its message: the key it
\* drew is its own, and the entry it goes to is new or lies in its tab.
LEMMA AskingFacts ==
  ASSUME NavInv, NEW w \in Windows, win[w].pc \in Asking, NEW key, key = win[w].to.route
  PROVE  /\ key \in Ids /\ share[key] \in Targets /\ Untouched(key) /\ Asks(w, key) /\ key <= n
         /\ win[w].tab \in Ids /\ win[w].entry \in Ids /\ win[w].to.entry \in Ids /\ win[w].to.dest \in Windows
         /\ win[w].to.entry = key \/ (win[w].pc = "nav" /\ win[w].to.entry = win[w].entry)
         /\ mem.entries[win[w].to.entry].tab \in {0, win[w].tab}
         /\ Lies(win[w].to.entry, win[w].tab) \/ \A u \in Ids : ~Lies(win[w].to.entry, u)
<1>1. /\ key \in Ids /\ share[key] \in Targets /\ win[w].tab \in Ids /\ win[w].entry \in Ids
      /\ win[w].to.dest \in Windows
      /\ win[w].to.entry = key \/ (win[w].pc = "nav" /\ win[w].to.entry = win[w].entry)
  BY ZenonT(30) DEF NavInv, WindowOK, Pages
<1>2. Asks(w, key) /\ Untouched(key)
  BY <1>1, ZenonT(30) DEF NavInv, Keys, Asks
<1>3. \A u \in Ids : ~Lies(key, u)
  BY <1>1, <1>2, ZeroIsNoId, SMTT(30), Z3T(30) DEF Lies, Untouched, NoEntry
<1>4. mem.entries[key].tab = 0
  BY <1>2, SMTT(30), Z3T(30) DEF Untouched, NoEntry
<1>5. Lies(win[w].entry, win[w].tab)
  BY ZenonT(30) DEF Lies, Pages
<1>6. mem.entries[win[w].entry].tab \in {0, win[w].tab}
  <2>1. mem.entries[win[w].entry].tab \in Ids \cup {0}
    BY <1>1, Present, ZenonT(30) DEF NavInv, Types, NoEntry
  <2>2. mem.entries[win[w].entry].tab \in Ids => mem.entries[win[w].entry].tab = win[w].tab
    BY <1>1, <1>5, ZenonT(30) DEF NavInv, Homes, Lies
  <2> QED BY <2>1, <2>2, ZenonT(30)
<1>7. key <= n
  <2>1. key \in Nat /\ n \in Nat /\ ~(key > n)
    BY <1>1, <1>2, ConstantsAssumption, SMTT(30), Z3T(30) DEF NavInv, Types, Keys, Ids, Ids0
  <2> QED BY <2>1, SMTT(30)
<1> QED BY <1>1, <1>2, <1>3, <1>4, <1>5, <1>6, <1>7, ZenonT(30)

\* A page whose message is answered is what it was.
LEMMA StaysIs ==
  ASSUME NavInv, NEW w \in Windows
  PROVE  LET q == Stays(w)[w]
         IN /\ Stays(w) \in [Windows -> Window] /\ \A v \in Windows \ {w} : Stays(w)[v] = win[v]
            /\ q.pc = "page" /\ q.k = win[w].k /\ q.route = win[w].route
            /\ q.entry = win[w].entry /\ q.tab = win[w].tab
<1>1. win \in [Windows -> Window] /\ win[w] \in Window
  BY ZenonT(30) DEF NavInv, Types
<1>2. Nowhere \in [entry: Ids0, route: Ids0, dest: Windows \cup {None}]
  BY ConstantsAssumption, SMTT(30) DEF Nowhere, Ids0
<1> DEFINE q == [win[w] EXCEPT !.pc = "page", !.to = Nowhere]
<1>3. /\ q \in Window /\ q.pc = "page" /\ q.k = win[w].k /\ q.route = win[w].route
      /\ q.entry = win[w].entry /\ q.tab = win[w].tab
  BY <1>1, <1>2, ZenonT(30) DEF Window, Steps, Pages
<1>4. Stays(w) = [win EXCEPT ![w] = q]
  BY ZenonT(30) DEF Stays
<1> HIDE DEF q
<1> QED BY <1>1, <1>3, <1>4, ZenonT(30)

\* A message the worker refuses leaves everything as it was but the waiting.
LEMMA RefusedStep ==
  ASSUME NavInv, NEW w \in Windows, win[w].pc \in Asking, win' = Stays(w),
         UNCHANGED <<mem, db, worker, fetches, ends, share, n, pending, posted, blind>>
  PROVE  NavInv'
<1>1. /\ win' \in [Windows -> Window] /\ \A v \in Windows \ {w} : win'[v] = win[v]
      /\ win'[w].pc = "page" /\ win'[w].k = win[w].k /\ win'[w].route = win[w].route
      /\ win'[w].entry = win[w].entry /\ win'[w].tab = win[w].tab
  BY StaysIs, ZenonT(30)
<1>2. Types'
  BY <1>1, ZenonT(30) DEF NavInv, Types
<1>3. \A v \in Windows : WindowOK(v)'
  BY <1>1, SMTT(30), Z3T(30) DEF NavInv, WindowOK, Pages, Asking
<1>4. \A v \in Windows : win'[v].route = win[v].route /\ win'[v].entry = win[v].entry
  BY <1>1, ZenonT(30)
<1>5. Keys'
  <2>1. \A v \in Windows, i \in Ids : Asks(v, i)' => Asks(v, i)
    BY <1>1, ZenonT(30) DEF Asks, Asking
  <2>2. \A i \in Ids : Untouched(i) => Untouched(i)'
    BY <1>4, ZenonT(30) DEF Untouched
  <2>3. \A x, y \in Windows : win'[x].route = win'[y].route /\ win'[x].route # 0 => x = y
    BY <1>4, ZenonT(30) DEF NavInv, Keys
  <2>4. n' \in Ids0 /\ n' \in {n, n + 1}
    BY ZenonT(30) DEF NavInv, Types
  <2> QED BY <2>1, <2>2, <2>3, <2>4, ZeroIsNoId, KeysKept, ZenonT(30)
<1>6. Homes'
  <2>1. \A i, u \in Ids : Lies(i, u)' => Lies(i, u)
    BY <1>1, SMTT(30) DEF Lies, Pages
  <2> QED BY <2>1, ZenonT(30) DEF NavInv, Homes
<1>7. \A v \in Windows : Goes(v) /\ Steady(v)
  BY <1>1, ZenonT(30) DEF Goes, Steady, Pages, Asking
<1>8. Whole(mem)' /\ Whole(db)' /\ Forgetful' /\ FetchesOK' /\ Contexts' /\ FirstLife'
  BY <1>1, <1>7, WindowsMove, ZenonT(30)
<1>9. Seeing'
  BY <1>1, ZenonT(30) DEF NavInv, Seeing, Unopened, Grows
<1>10. Submissions'
  BY ZenonT(30) DEF NavInv, Submissions
<1> QED BY <1>2, <1>3, <1>5, <1>6, <1>8, <1>9, <1>10, ZenonT(30) DEF NavInv

-----------------------------------------------------------------------------
(* The first state, and steps that change nothing.                         *)

\* Nothing is open and nothing is known at first.
LEMMA InitInv == Init => NavInv
<1> SUFFICES ASSUME Init PROVE NavInv
  BY ZenonT(30)
<1>1. /\ mem = Empty /\ db = Empty /\ pending = [i \in Ids |-> 0] /\ worker = "up" /\ fetches = {}
      /\ win = [w \in Windows |-> Closed] /\ share = [i \in Ids |-> None]
      /\ n = 0 /\ ends = 0 /\ posted = [i \in Ids |-> 0] /\ blind = FALSE
  BY ZenonT(30) DEF Init
<1>2. Closed \in Window /\ Closed.pc = "closed" /\ Closed.route = 0 /\ Closed.entry = 0
  <2>1. 0 \in Ids0
    BY ConstantsAssumption, SMTT(30) DEF Ids0
  <2> QED BY <2>1, ZenonT(30) DEF Closed, Nowhere, Window, Steps
<1>3. win \in [Windows -> Window] /\ \A w \in Windows : win[w] = Closed
  BY <1>1, <1>2, ZenonT(30)
<1>4. Types
  <2>1. 0 \in Ids0
    BY ConstantsAssumption, SMTT(30) DEF Ids0
  <2> QED BY <1>1, <1>3, <2>1, EmptyIs, ZenonT(30) DEF Types, Docs
<1>5. \A w \in Windows : WindowOK(w)
  BY <1>2, <1>3, ZeroIsNoId, ZenonT(30) DEF WindowOK, Pages, Asking
<1>6. Keys
  <2>1. \A i \in Ids : Untouched(i)
    BY <1>1, <1>2, <1>3, EmptyIs, ZeroIsNoId, ZenonT(30) DEF Untouched
  <2>2. \A w \in Windows, i \in Ids : ~Asks(w, i)
    BY <1>2, <1>3, ZenonT(30) DEF Asks, Asking
  <2> QED BY <1>2, <1>3, <2>1, <2>2, ZenonT(30) DEF Keys
<1>7. Homes
  BY <1>1, <1>2, <1>3, EmptyIs, ZeroIsNoId, ZenonT(30) DEF Homes, Lies, NoEntry, Pages, Asking
<1>8. Whole(mem) /\ Whole(db) /\ Forgetful /\ FetchesOK /\ Contexts
  BY <1>1, EmptyIs, ZenonT(30) DEF Forgetful, FetchesOK, Contexts
<1>9. Seeing
  BY <1>1, <1>2, <1>3, EmptyIs, ZenonT(30) DEF Seeing, Grows, Unopened
<1>10. Submissions
  BY <1>1, SMTT(30) DEF Submissions
<1>11. FirstLife
  BY <1>1, <1>2, <1>3, EmptyIs, ZenonT(30) DEF FirstLife, Pages, Asking
<1> QED BY <1>4, <1>5, <1>6, <1>7, <1>8, <1>9, <1>10, <1>11, ZenonT(30) DEF NavInv

\* Nothing changes.
LEMMA StutterInv == NavInv /\ UNCHANGED vars => NavInv'
<1> SUFFICES ASSUME NavInv, UNCHANGED vars PROVE NavInv'
  BY ZenonT(30)
<1>1. UNCHANGED <<mem, pending, db, worker, win, fetches, share, n, ends, posted, blind>>
  BY ZenonT(30) DEF vars
<1>2. Types'
  BY <1>1, ZenonT(30) DEF NavInv, Types
<1>3. (\A w \in Windows : WindowOK(w)') /\ Keys' /\ Homes'
  <2>1. \A i \in Ids : Untouched(i) => Untouched(i)'
    BY <1>1, ZenonT(30) DEF Untouched
  <2>2. \A i, u \in Ids : Lies(i, u)' => Lies(i, u)
    BY <1>1, ZenonT(30) DEF Lies
  <2> QED BY <1>1, <2>1, <2>2, WindowsStay, ZenonT(30)
<1>4. Whole(mem)' /\ Whole(db)' /\ Forgetful' /\ FetchesOK' /\ Contexts' /\ FirstLife'
  <2>1. win' \in [Windows -> Window]
    BY <1>2, ZenonT(30) DEF Types
  <2> QED BY <1>1, <2>1, StayingGoes, WindowsMove, ZenonT(30)
<1>5. Seeing' /\ Submissions'
  BY <1>1, ZenonT(30) DEF NavInv, Seeing, Unopened, Grows, Submissions
<1> QED BY <1>2, <1>3, <1>4, <1>5, ZenonT(30) DEF NavInv

-----------------------------------------------------------------------------
(* What the operations make of memory.                                     *)

\* m is memory with entry e put into tab t, and perhaps another route r.
Puts(m, e, t, r) ==
  /\ m \in Mem
  /\ \A i \in Ids : mem.tabs[i] # NoTab => m.tabs[i] # NoTab
  /\ \A i \in Ids : mem.entries[i].frame => m.entries[i].frame
  /\ \A i \in Ids \ {e} : m.entries[i].tab = mem.entries[i].tab
  /\ mem.entries[e].tab \in {0, t} /\ m.entries[e].tab = t
  /\ \A i \in Ids \ {r} : m.routes[i] = mem.routes[i]

\* In m route r leads to entry e of tab t.
Leads(m, r, t, e) == m.routes[r].tab = t /\ m.routes[r].entry = e

\* An entry, the active entry of its tab, and a route to it are set.
Set(x, e, t, frame, a, r) ==
  [mem EXCEPT !.entries[e] = [tab |-> x, url |-> t, frame |-> frame],
              !.tabs[x].active = a,
              !.routes[r] = [tab |-> x, entry |-> e, frame |-> frame]]

\* Setting them puts the entry into its tab.
LEMMA EntryRouted ==
  ASSUME mem \in Mem, NEW x \in Ids, mem.tabs[x] # NoTab, NEW e \in Ids, NEW r \in Ids,
         NEW t \in Targets, NEW frame \in BOOLEAN, NEW a \in Ids,
         mem.entries[e].tab \in {0, x}, mem.entries[e].frame => frame
  PROVE  LET m == Set(x, e, t, frame, a, r)
         IN /\ Puts(m, e, x, r) /\ m.clients = mem.clients
            /\ Leads(m, r, x, e) /\ m.entries[e].frame = frame
            /\ a = mem.tabs[x].active => m.tabs = mem.tabs
<1> DEFINE b == [tab |-> x, url |-> t, frame |-> frame]
           c == [tab |-> x, entry |-> e, frame |-> frame]
           k == [mem EXCEPT !.entries[e] = b]
           j == [k EXCEPT !.tabs[x].active = a]
           m == [j EXCEPT !.routes[r] = c]
<1>1. b \in Entry /\ b.tab = x /\ b.frame = frame
  BY ZenonT(30) DEF Entry
<1>2. c \in Route /\ c.tab = x /\ c.entry = e
  BY ZenonT(30) DEF Route
<1> HIDE DEF b, c
<1>3. k \in Mem /\ k.entries = [mem.entries EXCEPT ![e] = b] /\ k.tabs = mem.tabs /\ k.routes = mem.routes /\ k.clients = mem.clients
  BY <1>1, ZenonT(30) DEF Mem
<1> HIDE DEF k
<1>4. j \in Mem /\ j.tabs = [mem.tabs EXCEPT ![x] = [active |-> a, top |-> mem.tabs[x].top]]
      /\ j.entries = k.entries /\ j.routes = mem.routes /\ j.clients = mem.clients
  <2>1. k.tabs[x] # NoTab
    BY <1>3, ZenonT(30)
  <2> QED BY <1>3, <2>1, SMTT(30), Z3T(30) DEF Mem, Tab
<1> HIDE DEF j
<1>5. m \in Mem /\ m.routes = [mem.routes EXCEPT ![r] = c] /\ m.tabs = j.tabs /\ m.entries = k.entries /\ m.clients = mem.clients
  BY <1>2, <1>4, ZenonT(30) DEF Mem
<1> HIDE DEF m
<1>6. mem.tabs \in [Ids -> Tab \cup {NoTab}] /\ mem.entries \in [Ids -> Entry \cup {NoEntry}]
      /\ mem.routes \in [Ids -> Route \cup {NoRoute}]
  BY ZenonT(30) DEF Mem
<1>7. m.tabs[x] # NoTab
  BY <1>4, <1>5, <1>6, ZeroIsNoId, SMTT(30) DEF NoTab
<1>8. a = mem.tabs[x].active => m.tabs = mem.tabs
  <2>1. mem.tabs[x] = [active |-> mem.tabs[x].active, top |-> mem.tabs[x].top]
    BY <1>6, ZenonT(30) DEF Tab
  <2> QED BY <1>4, <1>5, <1>6, <2>1, SMTT(30), Z3T(30)
<1>9. Puts(m, e, x, r)
  <2>1. \A i \in Ids : mem.tabs[i] # NoTab => m.tabs[i] # NoTab
    BY <1>4, <1>5, <1>6, <1>7, ZenonT(30)
  <2>2. \A i \in Ids : mem.entries[i].frame => m.entries[i].frame
    BY <1>1, <1>3, <1>5, <1>6, SMTT(30)
  <2>3. /\ \A i \in Ids \ {e} : m.entries[i].tab = mem.entries[i].tab
        /\ mem.entries[e].tab \in {0, x} /\ m.entries[e].tab = x
        /\ \A i \in Ids \ {r} : m.routes[i] = mem.routes[i]
    BY <1>1, <1>3, <1>5, <1>6, SMTT(30)
  <2> QED BY <1>5, <2>1, <2>2, <2>3, ZenonT(30) DEF Puts
<1>10. Leads(m, r, x, e) /\ m.entries[e].frame = frame
  BY <1>1, <1>2, <1>3, <1>5, <1>6, ZenonT(30) DEF Leads
<1>11. m = Set(x, e, t, frame, a, r)
  BY ZenonT(30) DEF m, j, k, b, c, Set
<1> QED BY <1>5, <1>8, <1>9, <1>10, <1>11, ZenonT(30)

\* HISTORY_UPDATE: a frame's leaves the tab alone.
LEMMA HistoryUpdatePuts ==
  ASSUME mem \in Mem, NEW w, NEW e \in Ids, NEW r \in Ids, NEW t \in Targets, win[w].tab \in Ids,
         mem.tabs[win[w].tab] # NoTab, mem.entries[e].tab \in {0, win[w].tab}
  PROVE  LET m == historyUpdate(w, e, r, t)
         IN /\ Puts(m, e, win[w].tab, r) /\ m.clients = mem.clients
            /\ Leads(m, r, win[w].tab, e)
            /\ m.entries[e].frame = isFrameUpdate(w, e)
            /\ isFrameUpdate(w, e) => m.tabs = mem.tabs
<1> DEFINE x == win[w].tab
           frame == isFrameUpdate(w, e)
           a == IF ~frame \/ mem.tabs[x].active = 0 THEN e ELSE mem.tabs[x].active
<1>1. frame \in BOOLEAN /\ (mem.entries[e].frame => frame)
  BY ZenonT(30) DEF isFrameUpdate
<1>2. mem.tabs[x].active \in Ids
  BY ZenonT(30) DEF Mem, Tab
<1>3. a \in Ids /\ (frame => a = mem.tabs[x].active)
  BY <1>2, ZeroIsNoId, ZenonT(30)
<1>4. historyUpdate(w, e, r, t) = Set(x, e, t, frame, a, r)
  BY ZenonT(30) DEF historyUpdate, Set
<1> HIDE DEF x, frame, a
<1>5. x \in Ids /\ mem.tabs[x] # NoTab /\ mem.entries[e].tab \in {0, x}
  BY ZenonT(30) DEF x
<1> DEFINE m == historyUpdate(w, e, r, t)
<1>6. /\ Puts(m, e, x, r) /\ m.clients = mem.clients
      /\ Leads(m, r, x, e) /\ m.entries[e].frame = frame
      /\ a = mem.tabs[x].active => m.tabs = mem.tabs
  BY <1>1, <1>3, <1>4, <1>5, EntryRouted, SMTT(30), Z3T(30)
<1> QED BY <1>3, <1>6, ZenonT(30) DEF x, frame

\* FRAME_ROUTE and SUBMIT_PREPARE: the entry is a new one.
LEMMA RoutedPuts ==
  ASSUME mem \in Mem, NEW w, win[w].tab \in Ids, mem.tabs[win[w].tab] # NoTab,
         win[w].to.entry \in Ids, win[w].to.route \in Ids, mem.entries[win[w].to.entry] = NoEntry,
         share[win[w].to.route] \in Targets, NEW frame \in BOOLEAN
  PROVE  LET m == routed(w, frame)
             to == win[w].to
         IN /\ Puts(m, to.entry, win[w].tab, to.route) /\ m.clients = mem.clients
            /\ Leads(m, to.route, win[w].tab, to.entry)
<1> DEFINE x == win[w].tab
           e == win[w].to.entry
           r == win[w].to.route
           t == share[r]
           a == IF frame THEN mem.tabs[x].active ELSE e
<1>1. mem.entries[e].tab = 0 /\ ~mem.entries[e].frame
  BY SMTT(30), Z3T(30) DEF NoEntry
<1>2. mem.tabs[x].active \in Ids
  BY ZenonT(30) DEF Mem, Tab
<1>3. a \in Ids
  BY <1>2, ZenonT(30)
<1>4. routed(w, frame) = Set(x, e, t, frame, a, r)
  BY ZenonT(30) DEF routed, Set
<1>5. x \in Ids /\ mem.tabs[x] # NoTab /\ e \in Ids /\ r \in Ids /\ t \in Targets
      /\ mem.entries[e].tab \in {0, x} /\ (mem.entries[e].frame => frame)
  BY <1>1, ZenonT(30)
<1> HIDE DEF x, e, r, t, a
<1> DEFINE m == Set(x, e, t, frame, a, r)
<1>6. Puts(m, e, x, r) /\ m.clients = mem.clients /\ Leads(m, r, x, e)
  BY <1>3, <1>5, EntryRouted, SMTT(30), Z3T(30)
<1> HIDE DEF m
<1> QED BY <1>4, <1>6, ZenonT(30) DEF x, e, r, m

\* What was linked stays linked, and memory stays whole.
LEMMA LinkedKept ==
  ASSUME mem \in Mem, NEW m, NEW e, NEW t, NEW r, Puts(m, e, t, r),
         NEW x, x.tab \in Ids, x.entry \in Ids, Linked(mem, x)
  PROVE  Linked(m, x)
BY ZeroIsNoId, ZenonT(30) DEF Puts, Linked

\* A memory that hangs together still does after an entry and its route were
\* put.
LEMMA PutsWhole ==
  ASSUME mem \in Mem, Whole(mem), NEW m, NEW e \in Ids, NEW t \in Ids, NEW r, Puts(m, e, t, r),
         m.tabs[t] # NoTab, r \in Ids => Leads(m, r, t, e) \/ m.routes[r] = NoRoute,
         \A x \in m.clients : x \in mem.clients \/ (x.tab = t /\ x.entry = e)
  PROVE  Whole(m)
<1>1. m.entries[e].tab = t
  BY ZenonT(30) DEF Puts
<1>2. ASSUME NEW x \in m.clients PROVE Linked(m, x)
  <2>1. CASE x \in mem.clients
    <3>1. x.tab \in Ids /\ x.entry \in Ids /\ Linked(mem, x)
      BY <2>1, ZenonT(30) DEF Mem, Context, Whole
    <3> QED BY <3>1, LinkedKept, ZenonT(30)
  <2> QED BY <1>1, <1>2, <2>1, ZenonT(30) DEF Linked
<1>3. ASSUME NEW i \in Ids, m.routes[i] # NoRoute PROVE Linked(m, m.routes[i])
  <2>1. CASE i = r
    BY <1>1, <1>3, <2>1, ZenonT(30) DEF Linked, Leads
  <2>2. CASE i # r
    <3>1. m.routes[i] = mem.routes[i]
      BY <2>2, ZenonT(30) DEF Puts
    <3>2. mem.routes[i] \in Route
      BY <1>3, <3>1, Present, ZenonT(30)
    <3>3. mem.routes[i].tab \in Ids /\ mem.routes[i].entry \in Ids
      BY <3>2, ZenonT(30) DEF Route
    <3> QED BY <1>3, <3>1, <3>3, LinkedKept, ZenonT(30) DEF Whole
  <2> QED BY <2>1, <2>2, ZenonT(30)
<1> QED BY <1>2, <1>3, ZenonT(30) DEF Whole

\* Putting an entry forgets nothing.
LEMMA PutsKeeps ==
  ASSUME NEW m, NEW e, NEW t, NEW r, Puts(m, e, t, r)
  PROVE  Keeps(m)
BY ZenonT(30) DEF Puts, Keeps

\* Entries stay in their tabs when at most entry e is newly said to lie in t,
\* which it did already or is new.
LEMMA HomesKept ==
  ASSUME Homes, NEW e, NEW t, Lies(e, t) \/ \A u \in Ids : ~Lies(e, u),
         \A i, u \in Ids : Lies(i, u)' => Lies(i, u) \/ (i = e /\ u = t)
  PROVE  Homes'
BY SMTT(30) DEF Homes

\* A step that puts e into t, and opens windows at most there.
LEMMA LiesKept ==
  ASSUME NEW e \in Ids, NEW t \in Ids, NEW r, Puts(mem', e, t, r), db' = db,
         \A w \in Windows : win'[w].pc \in Pages =>
            \/ win[w].pc \in Pages /\ win'[w].entry = win[w].entry /\ win'[w].tab = win[w].tab
            \/ win'[w].entry = e /\ win'[w].tab = t
  PROVE  \A i, u \in Ids : Lies(i, u)' => Lies(i, u) \/ (i = e /\ u = t)
BY ZenonT(30) DEF Lies, Puts

\* Memory still has what the store has.
LEMMA GrowsKept ==
  ASSUME db \in Mem, mem \in Mem, Grows(db, mem), NEW e, NEW t, NEW r, Puts(mem', e, t, r), db' = db,
         r \in Ids => db.routes[r] = NoRoute
  PROVE  Grows(db, mem)'
<1>1. ASSUME NEW i \in Ids, db.tabs[i] # NoTab PROVE mem'.tabs[i] # NoTab
  BY <1>1, ZenonT(30) DEF Grows, Puts
<1>2. ASSUME NEW i \in Ids, db.entries[i] # NoEntry PROVE mem'.entries[i].tab = db.entries[i].tab
  <2>1. db.entries[i].tab \in Ids
    BY <1>2, Present, ZenonT(30)
  <2>2. mem.entries[i].tab = db.entries[i].tab
    BY <1>2, ZenonT(30) DEF Grows
  <2>3. Keeps(mem')
    BY PutsKeeps, ZenonT(30)
  <2> QED BY <2>1, <2>2, <2>3, ZeroIsNoId, ZenonT(30) DEF Keeps
<1>3. ASSUME NEW i \in Ids, db.routes[i] # NoRoute PROVE mem'.routes[i].tab = db.routes[i].tab
  BY <1>3, ZenonT(30) DEF Grows, Puts
<1> QED BY <1>1, <1>2, <1>3, ZenonT(30) DEF Grows

-----------------------------------------------------------------------------
(* Pages' messages.                                                        *)

\* A handler puts entry e into tab t, routes r to it, and windows move.
LEMMA MemoryMoves ==
  ASSUME NavInv, worker = "up", UNCHANGED <<db, worker, ends>>, fetches' \subseteq fetches,
         win' \in [Windows -> Window], \A w \in Windows : Goes(w) /\ Steady(w),
         NEW e \in Ids, NEW t \in Ids, NEW r, Puts(mem', e, t, r), mem'.clients = mem.clients,
         mem'.tabs[t] # NoTab, r \in Ids => Leads(mem', r, t, e)
  PROVE  Whole(mem)' /\ Whole(db)' /\ Forgetful' /\ FetchesOK' /\ Contexts' /\ FirstLife'
<1>1. mem \in Mem /\ Whole(mem)
  BY ZenonT(30) DEF NavInv, Types
<1>2. Whole(mem')
  BY <1>1, PutsWhole, ZenonT(30)
<1>3. Whole(mem)' /\ Whole(db)' /\ Forgetful'
  BY <1>2, ZenonT(30) DEF NavInv, Whole, Linked, Forgetful
<1>4. Keeps(mem')
  BY PutsKeeps, ZenonT(30)
<1> QED BY <1>3, <1>4, FetchesKept, ContextsKept, FirstLifeKept, ZenonT(30)

\* OPEN_SHARE: a tab, its first entry, and the route to it.
Open(id, u, r) ==
  [mem EXCEPT !.tabs[id] = [active |-> id, top |-> u],
              !.entries[id] = [tab |-> id, url |-> u, frame |-> FALSE],
              !.routes[r] = [tab |-> id, entry |-> id, frame |-> FALSE]]
\* Opening touches the memory at the new tab, entry and route only.
LEMMA OpenPuts ==
  ASSUME mem \in Mem, NEW i \in Ids, mem.entries[i] = NoEntry, NEW u \in Targets, NEW r \in Ids
  PROVE  LET m == Open(i, u, r)
         IN Puts(m, i, i, r) /\ m.clients = mem.clients /\ Leads(m, r, i, i) /\ m.tabs[i] # NoTab
<1> DEFINE a == [active |-> i, top |-> u]
           b == [tab |-> i, url |-> u, frame |-> FALSE]
           c == [tab |-> i, entry |-> i, frame |-> FALSE]
           k == [mem EXCEPT !.tabs[i] = a]
           j == [k EXCEPT !.entries[i] = b]
           m == [j EXCEPT !.routes[r] = c]
<1>1. a \in Tab /\ a # NoTab
  BY ZeroIsNoId, ZenonT(30) DEF Tab, NoTab
<1>2. b \in Entry /\ b.tab = i
  BY ZenonT(30) DEF Entry
<1>3. c \in Route /\ c.tab = i /\ c.entry = i
  BY ZenonT(30) DEF Route
<1> HIDE DEF a, b, c
<1>4. k \in Mem /\ k.tabs = [mem.tabs EXCEPT ![i] = a] /\ k.entries = mem.entries /\ k.routes = mem.routes /\ k.clients = mem.clients
  BY <1>1, ZenonT(30) DEF Mem
<1> HIDE DEF k
<1>5. j \in Mem /\ j.entries = [mem.entries EXCEPT ![i] = b] /\ j.tabs = k.tabs /\ j.routes = mem.routes /\ j.clients = mem.clients
  BY <1>2, <1>4, ZenonT(30) DEF Mem
<1> HIDE DEF j
<1>6. m \in Mem /\ m.routes = [mem.routes EXCEPT ![r] = c] /\ m.tabs = k.tabs /\ m.entries = j.entries /\ m.clients = mem.clients
  BY <1>3, <1>5, ZenonT(30) DEF Mem
<1> HIDE DEF m
<1>7. mem.tabs \in [Ids -> Tab \cup {NoTab}] /\ mem.entries \in [Ids -> Entry \cup {NoEntry}]
      /\ mem.routes \in [Ids -> Route \cup {NoRoute}]
  BY ZenonT(30) DEF Mem
<1>8. mem.entries[i].tab = 0 /\ ~mem.entries[i].frame
  BY SMTT(30) DEF NoEntry
<1>9. Puts(m, i, i, r)
  <2>1. \A x \in Ids : mem.tabs[x] # NoTab => m.tabs[x] # NoTab
    BY <1>1, <1>4, <1>6, <1>7, ZenonT(30)
  <2>2. \A x \in Ids : mem.entries[x].frame => m.entries[x].frame
    BY <1>5, <1>6, <1>7, <1>8, ZenonT(30)
  <2>3. /\ \A x \in Ids \ {i} : m.entries[x].tab = mem.entries[x].tab
        /\ m.entries[i].tab = i
        /\ \A x \in Ids \ {r} : m.routes[x] = mem.routes[x]
    BY <1>2, <1>5, <1>6, <1>7, SMTT(30)
  <2> QED BY <1>6, <1>8, <2>1, <2>2, <2>3, ZenonT(30) DEF Puts
<1>10. Leads(m, r, i, i) /\ m.tabs[i] # NoTab
  BY <1>1, <1>3, <1>4, <1>6, <1>7, ZenonT(30) DEF Leads
<1>11. m = Open(i, u, r)
  BY ZenonT(30) DEF m, j, k, a, b, c, Open
<1> QED BY <1>6, <1>9, <1>10, <1>11, ZenonT(30)

\* OPEN_SHARE.
LEMMA OpenShareStep ==
  ASSUME NavInv, NEW w \in Windows, OpenShare(w)
  PROVE  NavInv'
<1>1. PICK key \in Ids : /\ key = n + 1 /\ n < MaxIds /\ Untouched(key) /\ \A v \in Windows : ~Asks(v, key)
  BY FreshKey, ZenonT(30) DEF OpenShare
<1>2. PICK r \in Ids : r = win[w].route /\ share[r] \in Targets
  BY ZenonT(30) DEF OpenShare, NavInv, WindowOK
<1> DEFINE q == Going(w, r, 0)
<1>3. /\ worker = "up" /\ win[w].pc = "launcher" /\ n' = key /\ win' = [win EXCEPT ![w] = q]
      /\ UNCHANGED <<pending, db, worker, fetches, posted, share, ends, blind>>
  BY <1>1, <1>2, ZenonT(30) DEF OpenShare, browser
<1>4. mem' = Open(key, share[r], r)
  BY <1>1, <1>2, ZenonT(30) DEF OpenShare, Open
<1>5. mem \in Mem /\ mem.entries[key] = NoEntry
  BY <1>1, ZenonT(30) DEF NavInv, Types, Untouched
<1>6. Puts(mem', key, key, r) /\ mem'.clients = mem.clients /\ Leads(mem', r, key, key) /\ mem'.tabs[key] # NoTab
  BY <1>2, <1>4, <1>5, OpenPuts, ZenonT(30)
<1>7. /\ q \in Window /\ q.pc = "loading" /\ q.k = win[w].k + 1 /\ q.route = r /\ q.entry = 0 /\ q.to = Nowhere
  <2>1. r \in Ids0 /\ 0 \in Ids0
    BY ConstantsAssumption, SMTT(30) DEF Ids, Ids0
  <2> QED BY <2>1, GoingIs, SMTT(30)
<1> HIDE DEF q
<1>8. win' \in [Windows -> Window] /\ \A v \in Windows : win'[v] = IF v = w THEN q ELSE win[v]
  BY <1>3, <1>7, OneWindow, ZenonT(30)
<1>9. n' \in Ids0 /\ n' = n + 1
  BY <1>1, <1>3, ConstantsAssumption, SMTT(30) DEF Ids, Ids0
<1>10. Types'
  BY <1>3, <1>6, <1>8, <1>9, ZenonT(30) DEF NavInv, Types, Puts
<1>11. \A v \in Windows : WindowOK(v)'
  BY <1>2, <1>3, <1>7, <1>8, SMTT(30), Z3T(30) DEF NavInv, WindowOK, Pages, Asking
<1>12. Keys'
  <2>1. \A v \in Windows, i \in Ids : Asks(v, i)' => Asks(v, i)
    BY <1>7, <1>8, ZenonT(30) DEF Asks, Asking
  <2>2. ASSUME NEW i \in Ids \ {key}, Untouched(i) PROVE Untouched(i)'
    <3>1. i # r
      BY <1>2, <2>2, ZenonT(30) DEF Untouched
    <3>2. mem'.entries[i] = NoEntry
      BY <1>5, <1>6, <2>2, Present, ZenonT(30) DEF Puts, Untouched, NoEntry
    <3>3. mem'.routes[i] = NoRoute
      BY <1>6, <2>2, <3>1, ZenonT(30) DEF Puts, Untouched
    <3> QED BY <1>3, <1>7, <1>8, <2>2, <3>1, <3>2, <3>3, ZeroIsNoId, ZenonT(30) DEF Untouched
  <2>3. \A x, y \in Windows : win'[x].route = win'[y].route /\ win'[x].route # 0 => x = y
    BY <1>2, <1>7, <1>8, SMTT(30), Z3T(30) DEF NavInv, Keys
  <2>4. key <= n' /\ \A v \in Windows : ~Asks(v, key)'
    BY <1>1, <1>3, <2>1, SMTT(30) DEF Ids
  <2> QED BY <1>9, <2>1, <2>2, <2>3, <2>4, KeysKept, ZenonT(30)
<1>13. Homes'
  <2>1. \A v \in Windows : win'[v].pc \in Pages =>
          win[v].pc \in Pages /\ win'[v].entry = win[v].entry /\ win'[v].tab = win[v].tab
    BY <1>7, <1>8, ZenonT(30) DEF Pages, Asking
  <2>2. \A i, u \in Ids : Lies(i, u)' => Lies(i, u) \/ (i = key /\ u = key)
    BY <1>3, <1>6, <2>1, LiesKept, SMTT(30), Z3T(30)
  <2>3. \A u \in Ids : ~Lies(key, u)
    BY <1>1, ZeroIsNoId, SMTT(30), Z3T(30) DEF Lies, Untouched, NoEntry
  <2> QED BY <2>2, <2>3, HomesKept, SMTT(30) DEF NavInv
<1>14. \A v \in Windows : Goes(v) /\ Steady(v)
  <2>1. win[w].k \in Nat
    BY WindowType, ZenonT(30) DEF NavInv, Types
  <2> QED BY <1>3, <1>7, <1>8, <2>1, SMTT(30), Z3T(30) DEF Goes, Steady, Pages, Asking
<1>15. Whole(mem)' /\ Whole(db)' /\ Forgetful' /\ FetchesOK' /\ Contexts' /\ FirstLife'
  BY <1>3, <1>6, <1>8, <1>14, MemoryMoves, ZenonT(30)
<1>16. Seeing'
  <2> SUFFICES ASSUME ~blind PROVE Grows(db, mem)' /\ \A v \in Windows : Unopened(v)'
    BY <1>3, ZenonT(30) DEF Seeing
  <2>1. db \in Mem /\ Grows(db, mem) /\ \A v \in Windows : Unopened(v)
    BY <1>3, ZenonT(30) DEF NavInv, Types, Seeing
  <2>2. db.routes[r] = NoRoute
    BY <1>2, <1>3, <2>1, ZenonT(30) DEF Unopened
  <2>3. Grows(db, mem)'
    BY <1>3, <1>5, <1>6, <2>1, <2>2, GrowsKept, ZenonT(30)
  <2>4. ASSUME NEW v \in Windows PROVE Unopened(v)'
    <3>1. CASE v = w
      BY <1>7, <1>8, <3>1, ZenonT(30) DEF Unopened
    <3>2. CASE v # w
      <4>1. win'[v] = win[v] /\ (win[v].pc = "launcher" => win[v].route \in Ids /\ win[v].route # r)
        BY <1>2, <1>8, <3>2, ZeroIsNoId, ZenonT(30) DEF NavInv, Keys, WindowOK
      <4> QED BY <1>3, <1>6, <2>1, <4>1, SMTT(30), Z3T(30) DEF Unopened, Puts
    <3> QED BY <3>1, <3>2, ZenonT(30)
  <2> QED BY <2>3, <2>4, ZenonT(30)
<1>17. Submissions'
  BY <1>3, ZenonT(30) DEF NavInv, Submissions
<1> QED BY <1>10, <1>11, <1>12, <1>13, <1>15, <1>16, <1>17, ZenonT(30) DEF NavInv

\* Window d goes to the key that page w drew, and w stays unless it is d.
Sent(w, d, key) ==
  /\ win' \in [Windows -> Window]
  /\ win'[d].pc = "loading" /\ win'[d].k = win[d].k + 1 /\ win'[d].route = key /\ win'[d].entry = 0
  /\ w # d => /\ win'[w].pc = "page" /\ win'[w].k = win[w].k /\ win'[w].route = win[w].route
              /\ win'[w].entry = win[w].entry /\ win'[w].tab = win[w].tab
  /\ \A v \in Windows \ {w, d} : win'[v] = win[v]

\* Memory and the submissions are as they were (the worker refused), or the
\* worker put entry e, which page w goes to, into the page's tab t, and the key
\* leads there; SUBMIT_PREPARE keeps the submission under the key.
Told(w, key, e, t) ==
  \/ mem' = mem /\ pending' = pending
  \/ /\ worker = "up" /\ e = win[w].to.entry /\ t = win[w].tab
     /\ Puts(mem', e, t, key) /\ mem'.clients = mem.clients /\ mem'.tabs[t] # NoTab /\ Leads(mem', key, t, e)
     /\ pending' = pending \/ pending' = [pending EXCEPT ![key] = t]

\* A page's window goes to the key the page drew, whatever the worker did.
LEMMA SentStep ==
  ASSUME NavInv, NEW w \in Windows, NEW d \in Windows, win[w].pc \in Asking, NEW key, key = win[w].to.route,
         Sent(w, d, key), UNCHANGED <<db, worker, fetches, ends, share, n, posted, blind>>,
         NEW e, NEW t, Told(w, key, e, t)
  PROVE  NavInv'
<1>1. key \in Ids /\ share[key] \in Targets /\ Untouched(key) /\ Asks(w, key) /\ key <= n
  BY AskingFacts, ZenonT(30)
<1>2. \A v \in Windows : win[v].k \in Nat /\ WindowOK(v)
  BY WindowType, ZenonT(30) DEF NavInv, Types
<1>3. \A v \in Windows : WindowOK(v)'
  <2>1. WindowOK(d)'
    BY <1>1, ZenonT(30) DEF Sent, WindowOK, Pages, Asking
  <2>2. w # d => WindowOK(w)'
    BY <1>2, ZenonT(30) DEF Sent, WindowOK, Pages, Asking
  <2>3. \A v \in Windows \ {w, d} : WindowOK(v)'
    BY <1>2, SMTT(30), Z3T(30) DEF Sent, WindowOK
  <2> QED BY <2>1, <2>2, <2>3, ZenonT(30)
<1>4. \A v \in Windows : Goes(v) /\ Steady(v)
  BY <1>2, SMTT(30), Z3T(30) DEF Sent, Goes, Steady, Pages, Asking
<1>5. \A v \in Windows, i \in Ids : Asks(v, i)' => Asks(v, i) /\ v # w
  BY ZenonT(30) DEF Sent, Asks, Asking
<1>6. \A v \in Windows : ~Asks(v, key)'
  <2>1. \A v \in Windows : Asks(v, key) /\ Asks(w, key) => v = w
    BY <1>1, ZenonT(30) DEF NavInv, Keys
  <2> QED BY <1>1, <1>5, <2>1, ZenonT(30)
<1>7. \A x, y \in Windows : win'[x].route = win'[y].route /\ win'[x].route # 0 => x = y
  <2>1. \A x \in Windows \ {d} : win'[x].route = win[x].route
    BY ZenonT(30) DEF Sent
  <2>2. win'[d].route = key /\ \A x \in Windows : win[x].route # key
    BY <1>1, ZenonT(30) DEF Sent, Untouched
  <2>3. \A x, y \in Windows : win[x].route = win[y].route /\ win[x].route # 0 => x = y
    BY ZenonT(30) DEF NavInv, Keys
  <2>4. ASSUME NEW x \in Windows, NEW y \in Windows, win'[x].route = win'[y].route, win'[x].route # 0
        PROVE  x = y
    <3>1. CASE x = d \/ y = d
      BY <2>1, <2>2, <2>4, <3>1, ZenonT(30)
    <3>2. CASE x # d /\ y # d
      <4>1. win[x].route = win[y].route /\ win[x].route # 0
        BY <2>1, <2>4, <3>2, ZenonT(30)
      <4> QED BY <2>3, <4>1, ZenonT(30)
    <3> QED BY <3>1, <3>2, ZenonT(30)
  <2> QED BY <2>4, ZenonT(30)
<1>8. \A i \in Ids \ {key} : Untouched(i) => \A v \in Windows : win'[v].route # i /\ win'[v].entry # i
  BY ZeroIsNoId, SMTT(30), Z3T(30) DEF Sent, Untouched
<1>9. \A v \in Windows : win'[v].pc \in Pages =>
        win[v].pc \in Pages /\ win'[v].entry = win[v].entry /\ win'[v].tab = win[v].tab
  BY ZenonT(30) DEF Sent, Pages, Asking
<1>10. \A v \in Windows : win'[v].pc = "launcher" => win'[v] = win[v] /\ win[v].route # key
  BY <1>1, ZenonT(30) DEF Sent, Untouched
<1>11. key <= n' /\ n' \in Ids0 /\ n' \in {n, n + 1}
  BY <1>1, ZenonT(30) DEF NavInv, Types
<1>12. CASE mem' = mem /\ pending' = pending
  <2>1. Types'
    BY <1>12, ZenonT(30) DEF NavInv, Types, Sent
  <2>2. Keys'
    <3>1. \A i \in Ids \ {key} : Untouched(i) => Untouched(i)'
      BY <1>8, <1>12, ZenonT(30) DEF Untouched
    <3> QED BY <1>5, <1>6, <1>7, <1>11, <3>1, KeysKept, ZenonT(30)
  <2>3. Homes'
    <3>1. \A i, u \in Ids : Lies(i, u)' => Lies(i, u)
      BY <1>9, <1>12, ZenonT(30) DEF Lies
    <3> QED BY <3>1, ZenonT(30) DEF NavInv, Homes
  <2>4. Whole(mem)' /\ Whole(db)' /\ Forgetful' /\ FetchesOK' /\ Contexts' /\ FirstLife'
    BY <1>4, <1>12, WindowsMove, ZenonT(30) DEF Sent
  <2>5. Seeing'
    BY <1>10, <1>12, ZenonT(30) DEF NavInv, Seeing, Unopened, Grows
  <2>6. Submissions'
    BY <1>12, ZenonT(30) DEF NavInv, Submissions
  <2> QED BY <1>3, <2>1, <2>2, <2>3, <2>4, <2>5, <2>6, ZenonT(30) DEF NavInv
<1>13. CASE ~(mem' = mem /\ pending' = pending)
  <2>1. /\ worker = "up" /\ Puts(mem', e, t, key) /\ mem'.clients = mem.clients /\ mem'.tabs[t] # NoTab
        /\ Leads(mem', key, t, e)
        /\ pending' = pending \/ pending' = [pending EXCEPT ![key] = t]
    BY <1>13, ZenonT(30) DEF Told
  <2>2. e \in Ids /\ t \in Ids /\ (e = key \/ e = win[w].entry) /\ (Lies(e, t) \/ \A u \in Ids : ~Lies(e, u))
    BY <1>13, AskingFacts, ZenonT(90) DEF Told
  <2>3. mem \in Mem /\ db \in Mem /\ pending \in [Ids -> Ids0] /\ t \in Ids0
    BY <2>2, IdsAreIds0, ZenonT(30) DEF NavInv, Types
  <2>4. Types'
    <3>1. pending' \in [Ids -> Ids0]
      BY <2>1, <2>3, ZenonT(30)
    <3> QED BY <2>1, <3>1, ZenonT(30) DEF NavInv, Types, Sent, Puts
  <2>5. Keys'
    <3>1. ASSUME NEW i \in Ids \ {key}, Untouched(i) PROVE Untouched(i)'
      <4>1. i # e
        BY <2>2, <3>1, ZenonT(30) DEF Untouched
      <4>2. mem'.entries[i] = NoEntry
        <5>1. mem'.entries[i].tab = mem.entries[i].tab /\ mem' \in Mem
          BY <2>1, <3>1, <4>1, ZenonT(30) DEF Puts
        <5>2. mem.entries[i].tab = 0
          BY <2>3, <3>1, Present, ZenonT(30) DEF Untouched
        <5> QED BY <3>1, <5>1, <5>2, Present, ZenonT(30)
      <4>3. mem'.routes[i] = NoRoute /\ pending'[i] = 0
        BY <2>1, <2>3, <3>1, ZenonT(30) DEF Puts, Untouched
      <4> QED BY <1>8, <3>1, <4>2, <4>3, ZenonT(30) DEF Untouched
    <3> QED BY <1>5, <1>6, <1>7, <1>11, <3>1, KeysKept, ZenonT(30)
  <2>6. Homes'
    <3>1. \A i, u \in Ids : Lies(i, u)' => Lies(i, u) \/ (i = e /\ u = t)
      BY <1>9, <2>1, <2>2, LiesKept, ZenonT(30)
    <3> QED BY <2>2, <3>1, HomesKept, ZenonT(90) DEF NavInv
  <2>7. Whole(mem)' /\ Whole(db)' /\ Forgetful' /\ FetchesOK' /\ Contexts' /\ FirstLife'
    BY <1>4, <2>1, <2>2, MemoryMoves, ZenonT(30) DEF Sent
  <2>8. Seeing'
    <3> SUFFICES ASSUME ~blind PROVE Grows(db, mem)' /\ \A v \in Windows : Unopened(v)'
      BY ZenonT(30) DEF Seeing
    <3>1. Grows(db, mem) /\ \A v \in Windows : Unopened(v)
      BY <2>1, ZenonT(30) DEF NavInv, Seeing
    <3>2. Grows(db, mem)'
      BY <1>1, <2>1, <2>2, <2>3, <3>1, GrowsKept, ZenonT(30) DEF Untouched
    <3>3. ASSUME NEW v \in Windows, win'[v].pc = "launcher" PROVE Unopened(v)'
      <4>1. win'[v] = win[v] /\ win[v].route # key /\ win[v].route \in Ids
        BY <1>10, <3>3, ZenonT(30) DEF NavInv, WindowOK
      <4>2. mem'.routes[win[v].route] = mem.routes[win[v].route]
        BY <2>1, <4>1, ZenonT(30) DEF Puts
      <4> QED BY <3>1, <3>3, <4>1, <4>2, ZenonT(30) DEF Unopened
    <3> QED BY <3>2, <3>3, ZenonT(30) DEF Unopened
  <2>9. Submissions'
    BY <1>1, <2>1, <2>3, ZenonT(30) DEF NavInv, Types, Submissions, Untouched
  <2> QED BY <1>3, <2>4, <2>5, <2>6, <2>7, <2>8, <2>9, ZenonT(30) DEF NavInv
<1> QED BY <1>12, <1>13, ZenonT(30)

\* HISTORY_UPDATE keeps the invariant, whether or not the worker takes it.
LEMMA HistoryUpdateStep ==
  ASSUME NavInv, NEW w \in Windows, HistoryUpdate(w)
  PROVE  NavInv'
<1>1. win[w].pc \in Asking /\ worker = "up" /\ UNCHANGED <<db, worker, fetches, ends, share, n, pending, posted, blind>>
  BY ZenonT(30) DEF HistoryUpdate, Asking, browser
<1>2. PICK key \in Ids : key = win[w].to.route
  BY <1>1, AskingFacts, ZenonT(30)
<1>3. Sent(w, w, key)
  <2> DEFINE q == Going(w, key, 0)
  <2>1. win' = [win EXCEPT ![w] = q]
    BY <1>2, ZenonT(30) DEF HistoryUpdate
  <2>2. /\ q \in Window /\ q.pc = "loading" /\ q.k = win[w].k + 1 /\ q.route = key /\ q.entry = 0
    <3>1. key \in Ids0 /\ 0 \in Ids0
      BY ConstantsAssumption, SMTT(30) DEF Ids, Ids0
    <3> QED BY <3>1, GoingIs, SMTT(30)
  <2> HIDE DEF q
  <2>3. win' \in [Windows -> Window] /\ \A v \in Windows : win'[v] = IF v = w THEN q ELSE win[v]
    BY <2>1, <2>2, OneWindow, ZenonT(30)
  <2> QED BY <2>2, <2>3, ZenonT(30) DEF Sent
<1>4. CASE ~runtimeTabForMessage(w)
  <2>1. mem' = mem
    BY <1>4, ZenonT(30) DEF HistoryUpdate
  <2>2. pending' = pending
    BY <1>1, ZenonT(30)
  <2> QED BY <1>1, <1>2, <1>3, <2>1, <2>2, SentStep, ZenonT(30) DEF Told
<1>5. CASE runtimeTabForMessage(w)
  <2>1. mem' = historyUpdate(w, win[w].to.entry, key, share[key])
    BY <1>2, <1>5, ZenonT(30) DEF HistoryUpdate
  <2>2. mem.tabs[win[w].tab] # NoTab
    BY <1>5, ZenonT(30) DEF runtimeTabForMessage
  <2>3. PICK e \in Ids, t \in Ids : e = win[w].to.entry /\ t = win[w].tab
    BY <1>1, <1>2, AskingFacts, ZenonT(30)
  <2>4. mem \in Mem /\ share[key] \in Targets /\ mem.entries[e].tab \in {0, t}
    BY <1>1, <1>2, <2>3, AskingFacts, ZenonT(30) DEF NavInv, Types
  <2>5. Puts(mem', e, t, key) /\ mem'.clients = mem.clients /\ Leads(mem', key, t, e)
    BY <2>1, <2>2, <2>3, <2>4, HistoryUpdatePuts, SMTT(30), Z3T(30)
  <2>6. mem'.tabs[t] # NoTab
    BY <2>2, <2>3, <2>5, ZenonT(30) DEF Puts
  <2> QED BY <1>1, <1>2, <1>3, <2>3, <2>5, <2>6, SentStep, ZenonT(30) DEF Told
<1> QED BY <1>4, <1>5, ZenonT(30)

\* A page stays and the window it means goes to its key.
LEMMA SentFromPage ==
  ASSUME NavInv, NEW w \in Windows, NEW d \in Windows, NEW key \in Ids, NEW s \in Ids0,
         win' = [Stays(w) EXCEPT ![d] = Going(d, key, s)]
  PROVE  Sent(w, d, key)
<1> DEFINE q == Going(d, key, s)
<1>1. /\ q \in Window /\ q.pc = "loading" /\ q.k = win[d].k + 1 /\ q.route = key /\ q.entry = 0
  <2>1. key \in Ids0
    BY ConstantsAssumption, SMTT(30) DEF Ids, Ids0
  <2> QED BY <2>1, GoingIs, SMTT(30)
<1> DEFINE W == Stays(w)
<1>2. /\ W \in [Windows -> Window] /\ \A v \in Windows \ {w} : W[v] = win[v]
      /\ W[w].pc = "page" /\ W[w].k = win[w].k /\ W[w].route = win[w].route
      /\ W[w].entry = win[w].entry /\ W[w].tab = win[w].tab
  BY StaysIs, ZenonT(30)
<1>3. win' = [W EXCEPT ![d] = q]
  BY ZenonT(30)
<1> HIDE DEF q, W
<1>4. win' \in [Windows -> Window] /\ \A v \in Windows : win'[v] = IF v = d THEN q ELSE W[v]
  BY <1>1, <1>2, <1>3, ZenonT(30)
<1> QED BY <1>1, <1>2, <1>4, ZenonT(30) DEF Sent

\* FRAME_ROUTE keeps the invariant.
LEMMA FrameRouteStep ==
  ASSUME NavInv, NEW w \in Windows, FrameRoute(w)
  PROVE  NavInv'
<1>1. win[w].pc = "frame" /\ win[w].pc \in Asking /\ worker = "up"
      /\ UNCHANGED <<db, worker, fetches, ends, share, n, pending, posted, blind>>
  BY ZenonT(30) DEF FrameRoute, Asking, browser
<1>2. CASE ~runtimeTabForMessage(w)
  <2>1. mem' = mem /\ win' = Stays(w)
    BY <1>2, ZenonT(30) DEF FrameRoute
  <2> QED BY <1>1, <2>1, RefusedStep, ZenonT(30)
<1>3. CASE runtimeTabForMessage(w)
  <2>1. PICK key \in Ids, t \in Ids, d \in Windows :
          /\ key = win[w].to.route /\ key = win[w].to.entry /\ t = win[w].tab /\ d = win[w].to.dest
          /\ Untouched(key) /\ share[key] \in Targets
    BY <1>1, AskingFacts, ZenonT(30)
  <2>2. mem' = routed(w, TRUE) /\ win' = [Stays(w) EXCEPT ![d] = Going(d, key, 0)]
    BY <1>3, <2>1, ZenonT(30) DEF FrameRoute
  <2>3. mem.tabs[t] # NoTab /\ mem \in Mem /\ mem.entries[key] = NoEntry
    BY <1>3, <2>1, ZenonT(30) DEF runtimeTabForMessage, NavInv, Types, Untouched
  <2>4. Puts(mem', key, t, key) /\ mem'.clients = mem.clients /\ Leads(mem', key, t, key)
    BY <2>1, <2>2, <2>3, RoutedPuts, ZenonT(30)
  <2>5. mem'.tabs[t] # NoTab
    BY <2>3, <2>4, ZenonT(30) DEF Puts
  <2>6. Sent(w, d, key)
    <3>1. 0 \in Ids0
      BY ConstantsAssumption, SMTT(30) DEF Ids0
    <3> QED BY <2>2, <3>1, SentFromPage, ZenonT(30)
  <2> QED BY <1>1, <2>1, <2>4, <2>5, <2>6, SentStep, ZenonT(30) DEF Told
<1> QED BY <1>2, <1>3, ZenonT(30)

\* SUBMIT_PREPARE keeps the invariant.
LEMMA SubmitPrepareStep ==
  ASSUME NavInv, NEW w \in Windows, SubmitPrepare(w)
  PROVE  NavInv'
<1>1. win[w].pc = "submit" /\ win[w].pc \in Asking /\ worker = "up"
      /\ UNCHANGED <<db, worker, fetches, ends, share, n, posted, blind>>
  BY ZenonT(30) DEF SubmitPrepare, Asking, browser
<1>2. CASE ~runtimeTabForMessage(w)
  <2>1. mem' = mem /\ pending' = pending /\ win' = Stays(w)
    BY <1>2, ZenonT(30) DEF SubmitPrepare
  <2> QED BY <1>1, <2>1, RefusedStep, ZenonT(30)
<1>3. CASE runtimeTabForMessage(w)
  <2>1. PICK key \in Ids, t \in Ids, d \in Windows :
          /\ key = win[w].to.route /\ key = win[w].to.entry /\ t = win[w].tab /\ d = win[w].to.dest
          /\ Untouched(key) /\ share[key] \in Targets
    BY <1>1, AskingFacts, ZenonT(30)
  <2>2. /\ mem' = routed(w, FALSE) /\ pending' = [pending EXCEPT ![key] = win[w].tab]
        /\ win' = [Stays(w) EXCEPT ![d] = Going(d, key, key)]
    BY <1>3, <2>1, ZenonT(30) DEF SubmitPrepare
  <2>3. mem.tabs[t] # NoTab /\ mem \in Mem /\ mem.entries[key] = NoEntry
    BY <1>3, <2>1, ZenonT(30) DEF runtimeTabForMessage, NavInv, Types, Untouched
  <2>4. Puts(mem', key, t, key) /\ mem'.clients = mem.clients /\ Leads(mem', key, t, key)
    BY <2>1, <2>2, <2>3, RoutedPuts, ZenonT(30)
  <2>5. mem'.tabs[t] # NoTab
    BY <2>3, <2>4, ZenonT(30) DEF Puts
  <2>6. Sent(w, d, key)
    <3>1. key \in Ids0
      BY ConstantsAssumption, SMTT(30) DEF Ids, Ids0
    <3> QED BY <2>2, <3>1, SentFromPage, ZenonT(30)
  <2> QED BY <1>1, <2>1, <2>2, <2>4, <2>5, <2>6, SentStep, ZenonT(30) DEF Told
<1> QED BY <1>2, <1>3, ZenonT(30)

-----------------------------------------------------------------------------
(* history.pushState.                                                      *)

\* A page has a new entry of its tab, of which memory may know, under a new key.
Pushed(w, key) ==
  /\ n < MaxIds /\ key = n + 1 /\ n' = key /\ worker = "up" /\ win[w].pc = "page"
  /\ UNCHANGED <<pending, db, worker, fetches, ends, posted, blind>>
  /\ win' \in [Windows -> Window] /\ \A v \in Windows \ {w} : win'[v] = win[v]
  /\ win'[w].pc = "page" /\ win'[w].k = win[w].k /\ win'[w].tab = win[w].tab /\ win'[w].entry = key
  /\ win'[w].route \in {win[w].route, key}
  /\ mem'.clients = mem.clients
  /\ \A i \in Ids \ {key} : mem'.entries[i].tab = mem.entries[i].tab /\ mem'.routes[i] = mem.routes[i]
  /\ mem'.entries[key].tab \in {0, win[w].tab}

\* What pushState leaves true whether or not the worker takes the update.
LEMMA PushedStep ==
  ASSUME NavInv, NEW w \in Windows, NEW key \in Ids, Pushed(w, key), Keeps(mem'), Whole(mem)', FirstLife',
         share' \in [Ids -> Docs], \A v \in Windows : WindowOK(v)'
  PROVE  NavInv'
<1>1. /\ Untouched(key) /\ \A v \in Windows : ~Asks(v, key)
  BY FreshKey, ZenonT(30) DEF Pushed
<1>2. mem \in Mem /\ db \in Mem /\ mem' \in Mem /\ n' \in Ids0 /\ n' = n + 1 /\ key <= n'
  BY ConstantsAssumption, SMTT(30), Z3T(30) DEF NavInv, Types, Keeps, Pushed, Ids, Ids0
<1>3. Types'
  BY <1>2, ZenonT(30) DEF NavInv, Types, Pushed
<1>4. Keys'
  <2>1. \A v \in Windows, i \in Ids : Asks(v, i)' => Asks(v, i)
    BY ZenonT(30) DEF Pushed, Asks, Asking
  <2>2. ASSUME NEW i \in Ids \ {key}, Untouched(i) PROVE Untouched(i)'
    <3>1. mem'.entries[i] = NoEntry /\ mem'.routes[i] = NoRoute
      BY <1>2, <2>2, Present, ZenonT(30) DEF Pushed, Untouched, NoEntry
    <3>2. \A v \in Windows : win'[v].route # i /\ win'[v].entry # i
      BY <2>2, ZenonT(30) DEF Pushed, Untouched
    <3> QED BY <2>2, <3>1, <3>2, ZenonT(30) DEF Pushed, Untouched
  <2>3. \A x, y \in Windows : win'[x].route = win'[y].route /\ win'[x].route # 0 => x = y
    <3>1. \A x, y \in Windows : win[x].route = win[y].route /\ win[x].route # 0 => x = y
      BY ZenonT(30) DEF NavInv, Keys
    <3>2. \A x \in Windows : win[x].route # key
      BY <1>1, ZenonT(30) DEF Untouched
    <3>3. \A x \in Windows : win'[x].route = win[x].route \/ (x = w /\ win'[x].route = key)
      BY ZenonT(30) DEF Pushed
    <3>4. ASSUME NEW x \in Windows, NEW y \in Windows, win'[x].route = win'[y].route, win'[x].route # 0
          PROVE  x = y
      BY <3>1, <3>2, <3>3, <3>4, ZenonT(30)
    <3> QED BY <3>4, ZenonT(30)
  <2>4. \A v \in Windows : ~Asks(v, key)'
    BY <1>1, <2>1, ZenonT(30)
  <2> QED BY <1>2, <2>1, <2>2, <2>3, <2>4, KeysKept, ZenonT(30)
<1>5. Homes'
  <2>1. PICK t \in Ids : t = win[w].tab
    BY ZenonT(30) DEF NavInv, WindowOK, Pushed, Pages
  <2>2. \A i, u \in Ids : Lies(i, u)' => Lies(i, u) \/ (i = key /\ u = t)
    BY <2>1, ZeroIsNoId, SMTT(30), Z3T(30) DEF Lies, Pushed, Pages, Asking
  <2>3. \A u \in Ids : ~Lies(key, u)
    BY <1>1, ZeroIsNoId, SMTT(30), Z3T(30) DEF Lies, Untouched, NoEntry
  <2> QED BY <2>2, <2>3, HomesKept, ZenonT(30) DEF NavInv
<1>6. Whole(db)' /\ Forgetful' /\ Submissions'
  BY ZenonT(30) DEF NavInv, Whole, Linked, Forgetful, Submissions, Pushed
<1>7. FetchesOK' /\ Contexts'
  <2>1. \A v \in Windows : Goes(v)
    BY ZenonT(30) DEF Pushed, Goes, Pages
  <2>2. win' \in [Windows -> Window] /\ fetches' \subseteq fetches
        /\ mem'.clients \cup db'.clients \subseteq mem.clients \cup db.clients
    BY ZenonT(30) DEF Pushed
  <2> QED BY <2>1, <2>2, FetchesKept, ContextsKept, ZenonT(30)
<1>8. Seeing'
  <2> SUFFICES ASSUME ~blind PROVE Grows(db, mem)' /\ \A v \in Windows : Unopened(v)'
    BY ZenonT(30) DEF Seeing, Pushed
  <2>1. Grows(db, mem) /\ \A v \in Windows : Unopened(v)
    BY ZenonT(30) DEF NavInv, Seeing, Pushed
  <2>2. Grows(db, mem)'
    <3>1. db.entries[key] = NoEntry /\ db.routes[key] = NoRoute
      BY <1>1, ZenonT(30) DEF Untouched
    <3>2. db' = db
      BY ZenonT(30) DEF Pushed
    <3> QED BY <2>1, <3>1, <3>2, SMTT(30), Z3T(30) DEF Grows, Pushed, Keeps
  <2>3. ASSUME NEW v \in Windows, win'[v].pc = "launcher" PROVE Unopened(v)'
    <3>1. win'[v] = win[v] /\ win[v].route \in Ids /\ win[v].route # key
      BY <1>1, <2>3, ZenonT(30) DEF NavInv, WindowOK, Pushed, Untouched
    <3>2. mem'.routes[win[v].route] = mem.routes[win[v].route] /\ db' = db
      BY <3>1, ZenonT(30) DEF Pushed
    <3> QED BY <2>1, <3>1, <3>2, ZenonT(30) DEF Unopened
  <2> QED BY <2>2, <2>3, ZenonT(30) DEF Unopened
<1> QED BY <1>3, <1>4, <1>5, <1>6, <1>7, <1>8, ZenonT(30) DEF NavInv

\* In the worker's first life it takes every page's pushState.
LEMMA FirstLifeTakes ==
  ASSUME NavInv, NEW w \in Windows, win[w].pc = "page", ends = 0
  PROVE  runtimeTabForMessage(w) /\ mem.entries[win[w].entry].url # None
<1>1. Linked(mem, win[w]) /\ win[w].tab \in Ids /\ win[w].entry \in Ids /\ mem \in Mem
  BY ZenonT(30) DEF NavInv, Types, FirstLife, WindowOK, Pages
<1>2. mem.entries[win[w].entry].url # None
  BY <1>1, Present, ConstantsAssumption, ZenonT(30) DEF Linked
<1>3. ASSUME NEW x \in ContextOf(Client(w)) PROVE x.tab = win[w].tab
  <2>1. x \in mem.clients /\ x.client[1] = w /\ x.client[2] = win[w].k
    BY SMTT(30) DEF ContextOf, Client
  <2> QED BY <2>1, ZenonT(30) DEF NavInv, Contexts, ContextOK, Pages
<1> QED BY <1>1, <1>2, <1>3, ZenonT(30) DEF runtimeTabForMessage, Linked

\* history.pushState keeps the invariant.
LEMMA PushStateStep ==
  ASSUME NavInv, NEW w \in Windows, PushState(w)
  PROVE  NavInv'
<1>1. /\ worker = "up" /\ win[w].pc = "page" /\ n < MaxIds /\ n' = n + 1
      /\ UNCHANGED <<pending, db, worker, fetches, ends, posted, blind>>
  BY ZenonT(30) DEF PushState
<1>2. PICK key \in Ids : key = n + 1 /\ Untouched(key)
  BY <1>1, FreshKey, ZenonT(30)
<1>3. win[w] \in Window /\ mem \in Mem /\ share \in [Ids -> Docs] /\ key \in Ids0 /\ 0 \in Ids0
  BY ConstantsAssumption, SMTT(30) DEF NavInv, Types, Ids, Ids0
<1>4. PICK e \in Ids, t \in Ids : e = win[w].entry /\ t = win[w].tab
  BY <1>1, ZenonT(30) DEF NavInv, WindowOK, Pages
<1>5. CASE ~(runtimeTabForMessage(w) /\ mem.entries[e].url # None)
  <2> DEFINE q == [win[w] EXCEPT !.entry = key]
  <2>1. win' = [win EXCEPT ![w] = q] /\ mem' = mem /\ share' = share
    BY <1>2, <1>4, <1>5, ZenonT(30) DEF PushState
  <2>2. q \in Window /\ q.pc = "page" /\ q.k = win[w].k /\ q.route = win[w].route /\ q.entry = key /\ q.tab = win[w].tab
    BY <1>1, <1>3, ZenonT(30) DEF Window
  <2> HIDE DEF q
  <2>3. win' \in [Windows -> Window] /\ \A v \in Windows : win'[v] = IF v = w THEN q ELSE win[v]
    BY <2>1, <2>2, OneWindow, ZenonT(30)
  <2>4. Pushed(w, key)
    BY <1>1, <1>2, <2>1, <2>2, <2>3, SMTT(30), Z3T(30) DEF Pushed, Untouched, NoEntry
  <2>5. Keeps(mem') /\ Whole(mem)'
    BY <1>3, <2>1, ZenonT(30) DEF Keeps, NavInv, Whole, Linked
  <2>6. FirstLife'
    BY <1>1, <1>4, <1>5, FirstLifeTakes, ZenonT(30) DEF FirstLife
  <2>7. \A v \in Windows : WindowOK(v)'
    <3>1. ASSUME NEW v \in Windows, v # w PROVE WindowOK(v)'
      BY <2>1, <2>3, <3>1, ZenonT(30) DEF NavInv, WindowOK
    <3>2. WindowOK(w)'
      BY <1>1, <1>4, <2>1, <2>2, <2>3, ZenonT(30) DEF NavInv, WindowOK, Asking
    <3> QED BY <3>1, <3>2, ZenonT(30)
  <2> QED BY <1>3, <2>1, <2>4, <2>5, <2>6, <2>7, PushedStep, ZenonT(30)
<1>6. CASE runtimeTabForMessage(w) /\ mem.entries[e].url # None
  <2>1. PICK url \in Targets : url = mem.entries[e].url
    BY <1>3, <1>6, Present, SMTT(30), Z3T(30) DEF NoEntry
  <2> DEFINE q == [win[w] EXCEPT !.entry = key, !.route = key, !.submit = 0]
  <2>2. win' = [win EXCEPT ![w] = q] /\ mem' = historyUpdate(w, key, key, url) /\ share' = [share EXCEPT ![key] = url]
    BY <1>2, <1>4, <1>6, <2>1, ZenonT(30) DEF PushState
  <2>3. q \in Window /\ q.pc = "page" /\ q.k = win[w].k /\ q.route = key /\ q.entry = key /\ q.tab = win[w].tab
    BY <1>1, <1>3, ZenonT(30) DEF Window
  <2> HIDE DEF q
  <2>4. win' \in [Windows -> Window] /\ \A v \in Windows : win'[v] = IF v = w THEN q ELSE win[v]
    BY <2>2, <2>3, OneWindow, ZenonT(30)
  <2>5. mem.tabs[t] # NoTab /\ mem.entries[key].tab = 0
    <3>1. mem.tabs[t] # NoTab
      BY <1>4, <1>6, ZenonT(30) DEF runtimeTabForMessage
    <3>2. mem.entries[key].tab = 0
      BY <1>2, <1>3, Present, ZenonT(30) DEF Untouched
    <3> QED BY <3>1, <3>2, ZenonT(30)
  <2>6. Puts(mem', key, t, key) /\ mem'.clients = mem.clients /\ Leads(mem', key, t, key)
        /\ mem'.entries[key].frame = isFrameUpdate(w, key)
    BY <1>3, <1>4, <2>2, <2>5, HistoryUpdatePuts, SMTT(30), Z3T(30)
  <2>7. Keeps(mem') /\ mem'.tabs[t] # NoTab
    BY <2>5, <2>6, PutsKeeps, ZenonT(30) DEF Puts
  <2>8. Pushed(w, key)
    BY <1>1, <1>2, <1>4, <2>3, <2>4, <2>6, ZenonT(30) DEF Pushed, Puts
  <2>9. Whole(mem)'
    <3>1. Whole(mem')
      BY <1>3, <2>6, <2>7, PutsWhole, ZenonT(30) DEF NavInv
    <3> QED BY <3>1, ZenonT(30) DEF Whole, Linked
  <2>10. share' \in [Ids -> Docs] /\ share'[key] \in Targets
    BY <1>3, <2>2, ZenonT(30) DEF Docs
  <2>11. \A v \in Windows : WindowOK(v)'
    <3>1. \A v \in Windows :
            /\ win[v].route \in Ids => share'[win[v].route] = share[win[v].route]
            /\ win[v].pc \in Asking => share'[win[v].to.route] = share[win[v].to.route]
      BY <1>1, <1>2, <2>2, SharesKept, ZenonT(30)
    <3>2. ASSUME NEW v \in Windows, v # w PROVE WindowOK(v)'
      BY <2>4, <3>1, <3>2, ZenonT(30) DEF NavInv, WindowOK
    <3>3. WindowOK(w)'
      BY <1>4, <2>3, <2>4, <2>10, ZenonT(30) DEF WindowOK, Asking
    <3> QED BY <3>2, <3>3, ZenonT(30)
  <2>12. FirstLife'
    <3> SUFFICES ASSUME ends = 0 PROVE FirstLife'
      BY <1>1, ZenonT(30) DEF FirstLife
    <3>1. FirstLife /\ worker' = "up"
      BY <1>1, ZenonT(30) DEF NavInv
    <3>2. ASSUME NEW v \in Windows, win'[v].pc \in Pages \cup {"fetching"} PROVE ContextOf(Client(v))' # {}
      <4>1. Client(v)' = Client(v) /\ win[v].pc \in Pages \cup {"fetching"}
        BY <1>1, <2>3, <2>4, <3>2, ZenonT(30) DEF Client, Pages
      <4>2. ContextOf(Client(v)) # {}
        BY <3>1, <4>1, ZenonT(30) DEF FirstLife
      <4> QED BY <2>6, <4>1, <4>2, ZenonT(30) DEF ContextOf
    <3>3. ASSUME NEW v \in Windows, v # w, win'[v].pc \in Pages
          PROVE  Linked(mem', win'[v]) /\ Marked(Client(v), win[v].entry)'
      <4>1. win'[v] = win[v]
        BY <2>4, <3>3, ZenonT(30)
      <4>2. Linked(mem, win[v]) /\ Marked(Client(v), win[v].entry) /\ win[v].tab \in Ids /\ win[v].entry \in Ids
        BY <3>1, <3>3, <4>1, ZenonT(30) DEF FirstLife, NavInv, WindowOK
      <4> QED BY <1>3, <2>6, <2>7, <4>1, <4>2, LinkedKept, ZenonT(30) DEF Marked, Client, Keeps
    <3>4. Linked(mem', win'[w]) /\ Marked(Client(w), win[w].entry)'
      <4>1. Linked(mem', win'[w])
        BY <1>4, <2>3, <2>4, <2>6, <2>7, ZenonT(30) DEF Linked, Puts
      <4>2. PICK x \in ContextOf(Client(w)) : TRUE
        BY <1>1, <3>1, ZenonT(30) DEF FirstLife, Pages
      <4>3. w \in Frames => mem.entries[x.entry].frame
        BY <3>1, <4>2, SMTT(30), Z3T(30) DEF FirstLife, Marked, ContextOf, Client
      <4>4. w \in Frames => isFrameUpdate(w, key)
        BY <4>2, <4>3, ZenonT(30) DEF isFrameUpdate
      <4> QED BY <2>3, <2>4, <2>6, <4>1, <4>4, ZenonT(30) DEF Marked, Client
    <3>5. \A x \in mem'.clients : Marked(x.client, x.entry)'
      <4>1. \A x \in mem.clients : x.entry \in Ids /\ Marked(x.client, x.entry)
        BY <1>3, <3>1, ZenonT(30) DEF FirstLife, Mem, Context
      <4> QED BY <2>6, <2>7, <4>1, MarkedKept, ZenonT(30)
    <3>6. \A g \in fetches' : Marked(g.client, g.entry)'
      <4>1. \A g \in fetches : g.entry \in Ids /\ Marked(g.client, g.entry)
        BY <3>1, FetchFacts, ZenonT(30) DEF FirstLife
      <4> QED BY <1>1, <2>7, <4>1, MarkedKept, ZenonT(30)
    <3> QED BY <3>1, <3>2, <3>3, <3>4, <3>5, <3>6, ZenonT(30) DEF FirstLife, Linked
  <2> QED BY <2>7, <2>8, <2>9, <2>10, <2>11, <2>12, PushedStep, ZenonT(30)
<1> QED BY <1>5, <1>6, ZenonT(30)

-----------------------------------------------------------------------------
(* A document arrives.                                                     *)

\* The end of transportFetchHop: the addresses of an entry and of its tab.
Address(e, u, t, v) == [mem EXCEPT !.entries[e].url = u, !.tabs[t].top = v]
\* So does addressing.
LEMMA AddressPuts ==
  ASSUME mem \in Mem, NEW e \in Ids, NEW t \in Ids, mem.tabs[t] # NoTab, mem.entries[e].tab = t,
         NEW u \in Targets, NEW v \in Targets
  PROVE  LET m == Address(e, u, t, v)
         IN /\ Puts(m, e, t, 0) /\ m.clients = mem.clients
            /\ v = mem.tabs[t].top => m.tabs = mem.tabs
<1> DEFINE y == mem.entries[e]
           b == [tab |-> y.tab, url |-> u, frame |-> y.frame]
           k == [mem EXCEPT !.entries[e].url = u]
           m == [k EXCEPT !.tabs[t].top = v]
<1>1. b.tab = t /\ b.frame = y.frame
  BY ZenonT(30)
<1>2. mem.entries[e] # NoEntry
  BY Present, ZenonT(30)
<1>3. k \in Mem /\ k.entries = [mem.entries EXCEPT ![e] = b] /\ k.tabs = mem.tabs /\ k.routes = mem.routes /\ k.clients = mem.clients
  BY <1>2, SMTT(30), Z3T(30) DEF Mem, Entry
<1> HIDE DEF k, b
<1>4. m \in Mem /\ m.tabs = [mem.tabs EXCEPT ![t] = [active |-> mem.tabs[t].active, top |-> v]]
      /\ m.entries = k.entries /\ m.routes = mem.routes /\ m.clients = mem.clients
  <2>1. k.tabs[t] # NoTab
    BY <1>3, ZenonT(30)
  <2> QED BY <1>3, <2>1, SMTT(30), Z3T(30) DEF Mem, Tab
<1> HIDE DEF m
<1>5. mem.tabs \in [Ids -> Tab \cup {NoTab}] /\ mem.entries \in [Ids -> Entry \cup {NoEntry}]
  BY ZenonT(30) DEF Mem
<1>6. m.tabs[t] # NoTab
  <2>1. mem.tabs[t].active \in Ids
    BY <1>5, ZenonT(30) DEF Tab
  <2> QED BY <1>4, <1>5, <2>1, ZeroIsNoId, SMTT(30), Z3T(30) DEF NoTab
<1>7. v = mem.tabs[t].top => m.tabs = mem.tabs
  <2>1. mem.tabs[t] = [active |-> mem.tabs[t].active, top |-> mem.tabs[t].top]
    BY <1>5, ZenonT(30) DEF Tab
  <2> QED BY <1>4, <1>5, <2>1, SMTT(30), Z3T(30)
<1>8. Puts(m, e, t, 0)
  <2>1. \A i \in Ids : mem.tabs[i] # NoTab => m.tabs[i] # NoTab
    BY <1>4, <1>5, <1>6, ZenonT(30)
  <2>2. \A i \in Ids : mem.entries[i].frame => m.entries[i].frame
    BY <1>1, <1>3, <1>4, <1>5, SMTT(30), Z3T(30)
  <2>3. /\ \A i \in Ids \ {e} : m.entries[i].tab = mem.entries[i].tab
        /\ m.entries[e].tab = t
        /\ \A i \in Ids \ {0} : m.routes[i] = mem.routes[i]
    BY <1>1, <1>3, <1>4, <1>5, SMTT(30), Z3T(30)
  <2> QED BY <1>4, <2>1, <2>2, <2>3, ZenonT(30) DEF Puts
<1>9. m = Address(e, u, t, v)
  BY ZenonT(30) DEF m, k, Address
<1> QED BY <1>4, <1>7, <1>8, <1>9, ZenonT(30)

\* The address of the last hop goes to the entry and, but for a frame, the tab.
LEMMA CommitPuts ==
  ASSUME NavInv, NEW f \in fetches, NEW u \in Targets
  PROVE  LET m == commit(f, u)
         IN /\ Puts(m, f.entry, f.tab, 0) /\ m.clients = mem.clients
            /\ f.frame => m.tabs = mem.tabs
<1>1. mem \in Mem /\ f.tab \in Ids /\ f.entry \in Ids /\ mem.tabs[f.tab] # NoTab /\ mem.entries[f.entry].tab = f.tab
  BY FetchFacts, ZenonT(30) DEF NavInv, Types
<1>2. mem.entries[f.entry].url \in Targets
  BY <1>1, Present, ZenonT(30)
<1>3. mem.tabs[f.tab].top \in Targets
  <2>1. \A y \in Tab : y.top \in Targets
    BY ZenonT(30) DEF Tab
  <2> QED BY <1>1, <2>1, Present, ZenonT(30)
<1> DEFINE a == IF mem.entries[f.entry].url = f.documentUrl THEN u ELSE mem.entries[f.entry].url
           b == IF f.frame THEN mem.tabs[f.tab].top ELSE u
<1>4. commit(f, u) = Address(f.entry, a, f.tab, b)
  BY ZenonT(30) DEF commit, Address
<1>5. a \in Targets /\ b \in Targets /\ (f.frame => b = mem.tabs[f.tab].top)
  BY <1>2, <1>3, ZenonT(30)
<1> HIDE DEF a, b
<1> QED BY <1>1, <1>4, <1>5, AddressPuts, SMTT(30), Z3T(30)

\* Only the window that waits for the document shows it.
Shows(w, f) ==
  /\ win[w].pc = "fetching" /\ win[w].k = f.client[2]
  /\ win'[w].pc = "page" /\ win'[w].k = win[w].k /\ win'[w].route = win[w].route
  /\ win'[w].entry = f.entry /\ win'[w].tab = f.tab

\* The windows after a document has arrived.
LEMMA ArrivesWindows ==
  ASSUME NavInv, NEW f \in fetches, NEW u \in Targets, DocumentArrives(f, u),
         NEW w \in Windows, w = f.client[1]
  PROVE  /\ win' \in [Windows -> Window]
         /\ \A v \in Windows : win'[v] = win[v] \/ (v = w /\ Shows(w, f))
<1>1. win \in [Windows -> Window] /\ win[w] \in Window
  BY ZenonT(30) DEF NavInv, Types
<1>2. CASE Current(f)
  <2> DEFINE q == [win[w] EXCEPT !.pc = "page", !.tab = f.tab, !.entry = f.entry]
  <2>1. win' = [win EXCEPT ![w] = q]
    BY <1>2, ZenonT(30) DEF DocumentArrives
  <2>2. f.tab \in Ids0 /\ f.entry \in Ids0
    BY FetchFacts, ConstantsAssumption, SMTT(30), Z3T(30) DEF Ids, Ids0
  <2>3. q \in Window /\ q.pc = "page" /\ q.k = win[w].k /\ q.route = win[w].route
        /\ q.entry = f.entry /\ q.tab = f.tab
    BY <1>1, <2>2, ZenonT(30) DEF Window, Steps, Pages
  <2> HIDE DEF q
  <2>4. win' \in [Windows -> Window] /\ \A v \in Windows : win'[v] = IF v = w THEN q ELSE win[v]
    BY <2>1, <2>3, OneWindow, ZenonT(30)
  <2> QED BY <1>2, <2>3, <2>4, ZenonT(30) DEF Shows, Current
<1>3. CASE ~Current(f)
  BY <1>1, <1>3, ZenonT(30) DEF DocumentArrives
<1> QED BY <1>2, <1>3, ZenonT(30)

\* A document arrives: its window becomes a page of the fetch's tab and entry.
LEMMA DocumentArrivesStep ==
  ASSUME NavInv, NEW f \in fetches, NEW u \in Targets, DocumentArrives(f, u)
  PROVE  NavInv'
<1>1. /\ fetches' = fetches \ {f} /\ mem' = commit(f, u)
      /\ UNCHANGED <<pending, db, worker, n, posted, share, ends, blind>>
  BY ZenonT(30) DEF DocumentArrives, browser
<1>2. PICK w \in Windows, e \in Ids, t \in Ids :
        /\ w = f.client[1] /\ f.client = <<w, f.client[2]>> /\ e = f.entry /\ t = f.tab
        /\ mem.tabs[t] # NoTab /\ mem.entries[e].tab = t /\ worker = "up"
  BY FetchFacts, ZenonT(30)
<1>3. /\ win' \in [Windows -> Window]
      /\ \A v \in Windows : win'[v] = win[v] \/ (v = w /\ Shows(w, f))
  BY <1>2, ArrivesWindows, ZenonT(30)
<1>4. mem \in Mem /\ db \in Mem /\ f \in Fetch
  BY FetchFacts, ZenonT(30) DEF NavInv, Types
<1>5. Puts(mem', e, t, 0) /\ mem'.clients = mem.clients
  BY <1>1, <1>2, CommitPuts, ZenonT(30)
<1>6. mem'.tabs[t] # NoTab /\ Keeps(mem')
  BY <1>2, <1>5, PutsKeeps, ZenonT(90) DEF Puts
<1>7. \A v \in Windows : win'[v].k = win[v].k /\ win'[v].route = win[v].route
  BY <1>3, ZenonT(30) DEF Shows
<1>8. \A v \in Windows : win'[v].pc \in Asking \cup {"closed", "launcher", "loading", "fetching"} => win'[v] = win[v]
  BY <1>3, ZenonT(30) DEF Shows, Asking
<1>9. Types'
  BY <1>1, <1>3, <1>5, ZenonT(30) DEF NavInv, Types, Puts
<1>10. \A v \in Windows : WindowOK(v)'
  <2> SUFFICES ASSUME NEW v \in Windows, v = w, Shows(w, f) PROVE WindowOK(v)'
    BY <1>1, <1>3, ZenonT(30) DEF NavInv, WindowOK
  <2>1. WindowOK(w) /\ share' = share
    BY <1>1, ZenonT(30) DEF NavInv
  <2>2. win'[w].route = win[w].route /\ win'[w].tab \in Ids /\ win'[w].entry \in Ids /\ win'[w].pc = "page"
        /\ win[w].pc # "closed"
    BY <1>2, ZenonT(30) DEF Shows
  <2>3. win'[w].pc \notin Asking
    BY <2>2, ZenonT(30) DEF Asking
  <2> QED BY <2>1, <2>2, <2>3, ZenonT(30) DEF WindowOK
<1>11. Keys'
  <2>1. \A v \in Windows, i \in Ids : Asks(v, i)' => Asks(v, i)
    BY <1>8, ZenonT(30) DEF Asks
  <2>2. ASSUME NEW i \in Ids, Untouched(i) PROVE Untouched(i)'
    <3>1. i # e
      <4>1. mem.entries[i].tab = 0
        BY <1>4, <2>2, Present, ZenonT(30) DEF Untouched
      <4> QED BY <1>2, <4>1, ZeroIsNoId, ZenonT(30)
    <3>2. mem'.entries[i] = NoEntry /\ mem'.routes[i] = NoRoute
      BY <1>4, <1>5, <2>2, <3>1, Present, ZeroIsNoId, ZenonT(30) DEF Puts, Untouched, NoEntry
    <3>3. \A v \in Windows : win'[v].route # i /\ win'[v].entry # i
      BY <1>2, <1>3, <1>7, <2>2, <3>1, ZenonT(30) DEF Untouched, Shows
    <3> QED BY <1>1, <2>2, <3>2, <3>3, ZenonT(30) DEF Untouched
  <2>3. \A x, y \in Windows : win'[x].route = win'[y].route /\ win'[x].route # 0 => x = y
    BY <1>7, ZenonT(30) DEF NavInv, Keys
  <2>4. n' \in Ids0 /\ n' \in {n, n + 1}
    BY <1>1, ZenonT(30) DEF NavInv, Types
  <2> QED BY <2>1, <2>2, <2>3, <2>4, ZeroIsNoId, KeysKept, ZenonT(30)
<1>12. Homes'
  <2>1. \A v \in Windows : win'[v].pc \in Pages =>
          \/ win[v].pc \in Pages /\ win'[v].entry = win[v].entry /\ win'[v].tab = win[v].tab
          \/ win'[v].entry = e /\ win'[v].tab = t
    BY <1>2, <1>3, ZenonT(30) DEF Shows
  <2>2. \A i, y \in Ids : Lies(i, y)' => Lies(i, y) \/ (i = e /\ y = t)
    BY <1>1, <1>5, <2>1, LiesKept, ZenonT(30)
  <2>3. Lies(e, t)
    BY <1>2, ZenonT(30) DEF Lies
  <2> QED BY <2>2, <2>3, HomesKept, ZenonT(30) DEF NavInv
<1>13. Whole(mem)' /\ Whole(db)' /\ Forgetful'
  <2>1. Whole(mem')
    BY <1>4, <1>5, <1>6, ZeroIsNoId, PutsWhole, ZenonT(30) DEF NavInv
  <2> QED BY <1>1, <1>2, <2>1, ZenonT(30) DEF NavInv, Whole, Linked, Forgetful
<1>14. FetchesOK'
  <2>1. ASSUME NEW g \in fetches' PROVE FetchOK(g)'
    <3>1. g \in fetches /\ g \in Fetch /\ FetchOK(g) /\ g.client[1] \in Windows /\ g.client = <<g.client[1], g.client[2]>>
      BY <1>1, FetchFacts, ZenonT(30) DEF NavInv, FetchesOK
    <3>2. Linked(mem', g)
      BY <1>4, <1>5, <3>1, LinkedKept, ZenonT(30) DEF FetchOK, Fetch
    <3>3. g.client # f.client
      BY <1>1, <3>1, ZenonT(30) DEF NavInv, FetchesOK
    <3>4. g.client[2] = win[g.client[1]].k => win'[g.client[1]] = win[g.client[1]]
      BY <1>2, <1>3, <3>1, <3>3, ZenonT(90) DEF Shows
    <3> QED BY <1>7, <3>1, <3>2, <3>4, ZenonT(30) DEF FetchOK, Linked
  <2>2. \A g, h \in fetches' : g.client = h.client => g = h
    BY <1>1, ZenonT(30) DEF NavInv, FetchesOK
  <2> QED BY <2>1, <2>2, ZenonT(30) DEF FetchesOK
<1>15. Contexts'
  <2> SUFFICES ASSUME NEW x \in mem.clients \cup db.clients PROVE ContextOK(x)'
    BY <1>1, <1>5, ZenonT(30) DEF Contexts
  <2>1. x \in Context /\ ContextOK(x)
    BY <1>4, ZenonT(30) DEF NavInv, Contexts, Mem
  <2>2. x.client[1] \in Windows /\ x.client = <<x.client[1], x.client[2]>>
    BY <2>1, ClientParts, ZenonT(30) DEF Context
  <2>3. CASE win'[x.client[1]] = win[x.client[1]]
    BY <1>1, <2>1, <2>3, ZenonT(30) DEF ContextOK
  <2>4. CASE x.client[1] = w /\ Shows(w, f)
    <3>1. x.client[2] = win[w].k => x.client = f.client /\ x.tab = f.tab
      BY <1>2, <2>1, <2>2, <2>4, ZenonT(30) DEF Shows, ContextOK
    <3>2. x.client[2] <= win[w].k
      BY <2>1, <2>4, ZenonT(30) DEF ContextOK
    <3> QED BY <1>1, <1>2, <2>4, <3>1, <3>2, <2>1, ZenonT(30) DEF Shows, ContextOK
  <2> QED BY <1>3, <2>2, <2>3, <2>4, ZenonT(30)
<1>16. FirstLife'
  <2> SUFFICES ASSUME ends = 0 PROVE FirstLife'
    BY <1>1, ZenonT(30) DEF FirstLife
  <2>1. FirstLife /\ worker' = "up"
    BY <1>1, <1>2, ZenonT(30) DEF NavInv
  <2>2. ASSUME NEW v \in Windows, win'[v].pc \in Pages \cup {"fetching"} PROVE ContextOf(Client(v))' # {}
    <3>1. Client(v)' = Client(v)
      BY <1>7, ZenonT(30) DEF Client
    <3>2. win[v].pc \in Pages \cup {"fetching"}
      BY <1>3, <2>2, ZenonT(30) DEF Shows
    <3>3. ContextOf(Client(v)) # {}
      BY <2>1, <3>2, ZenonT(30) DEF FirstLife
    <3> QED BY <1>5, <3>1, <3>3, ZenonT(30) DEF ContextOf
  <2>3. ASSUME NEW v \in Windows, win'[v].pc \in Pages PROVE Linked(mem', win'[v]) /\ Marked(Client(v), win[v].entry)'
    <3>1. CASE win'[v] = win[v]
      <4>1. Linked(mem, win[v]) /\ Marked(Client(v), win[v].entry) /\ win[v].tab \in Ids /\ win[v].entry \in Ids
        BY <2>1, <2>3, <3>1, ZenonT(30) DEF FirstLife, NavInv, WindowOK
      <4> QED BY <1>4, <1>5, <1>6, <3>1, <4>1, LinkedKept, ZenonT(30) DEF Marked, Client, Keeps
    <3>2. CASE v = w /\ Shows(w, f)
      <4>1. Marked(f.client, f.entry)
        BY <2>1, ZenonT(30) DEF FirstLife
      <4>2. w \in Frames => mem'.entries[e].frame
        BY <1>2, <1>6, <4>1, ZenonT(30) DEF Marked, Keeps
      <4> QED BY <1>2, <1>5, <1>6, <3>2, <4>2, ZenonT(90) DEF Shows, Linked, Puts, Marked, Client
    <3> QED BY <1>3, <3>1, <3>2, ZenonT(30)
  <2>4. \A x \in mem'.clients : Marked(x.client, x.entry)'
    <3>1. \A x \in mem.clients : x.entry \in Ids /\ Marked(x.client, x.entry)
      BY <1>4, <2>1, ZenonT(30) DEF FirstLife, Mem, Context
    <3> QED BY <1>5, <1>6, <3>1, MarkedKept, ZenonT(30)
  <2>5. \A g \in fetches' : Marked(g.client, g.entry)'
    <3>1. \A g \in fetches : g.entry \in Ids /\ Marked(g.client, g.entry)
      BY <2>1, FetchFacts, ZenonT(30) DEF FirstLife
    <3> QED BY <1>1, <1>6, <3>1, MarkedKept, ZenonT(30)
  <2> QED BY <2>1, <2>2, <2>3, <2>4, <2>5, ZenonT(30) DEF FirstLife, Linked
<1>17. Seeing'
  <2> SUFFICES ASSUME ~blind PROVE Grows(db, mem)' /\ \A v \in Windows : Unopened(v)'
    BY <1>1, ZenonT(30) DEF Seeing
  <2>1. Grows(db, mem) /\ \A v \in Windows : Unopened(v)
    BY <1>2, ZenonT(30) DEF NavInv, Seeing
  <2>2. Grows(db, mem)'
    BY <1>1, <1>4, <1>5, <2>1, ZeroIsNoId, GrowsKept, ZenonT(30)
  <2>3. ASSUME NEW v \in Windows, win'[v].pc = "launcher" PROVE Unopened(v)'
    <3>1. win'[v] = win[v] /\ win[v].route \in Ids
      BY <1>8, <2>3, ZenonT(30) DEF NavInv, WindowOK
    <3>2. win[v].route \in Ids \ {0}
      BY <3>1, ZeroIsNoId, ZenonT(30)
    <3>3. mem'.routes[win[v].route] = mem.routes[win[v].route]
      BY <1>1, <1>5, <3>2, ZenonT(30) DEF Puts
    <3> QED BY <1>1, <1>5, <2>1, <2>3, <3>1, <3>3, ZenonT(30) DEF Unopened
  <2> QED BY <2>2, <2>3, ZenonT(30) DEF Unopened
<1>18. Submissions'
  BY <1>1, ZenonT(30) DEF NavInv, Submissions
<1> QED BY <1>9, <1>10, <1>11, <1>12, <1>13, <1>14, <1>15, <1>16, <1>17, <1>18, ZenonT(30) DEF NavInv

-----------------------------------------------------------------------------
(* Clients are bound to what they show.                                    *)

\* In m client c is known under tab t and entry e, and the others as they were.
Binds(m, c, t, e) ==
  /\ \A x \in m.clients : (x \in mem.clients /\ x.client # c) \/ (x.client = c /\ x.tab = t /\ x.entry = e)
  /\ \A x \in mem.clients : x.client # c => x \in m.clients
  /\ \E x \in m.clients : x.client = c

\* bindClientContext changes nothing but what is known of the client.
LEMMA BindPuts ==
  ASSUME NEW m, NEW e \in Ids, NEW t \in Ids, Puts(m, e, t, 0), m.clients = mem.clients, NEW c \in Clients
  PROVE  LET k == bindClientContext(m, c, t, e)
         IN /\ Puts(k, e, t, 0) /\ Binds(k, c, t, e)
            /\ k.tabs = m.tabs /\ k.entries = m.entries
<1> DEFINE y == [client |-> c, tab |-> t, entry |-> e]
           C == {x \in m.clients : x.client # c} \cup {y}
           k == [m EXCEPT !.clients = C]
<1>1. m \in Mem /\ m.clients \subseteq Context
  BY ZenonT(30) DEF Puts, Mem
<1>2. y \in Context /\ y.client = c /\ y.tab = t /\ y.entry = e
  BY ZenonT(30) DEF Context
<1> HIDE DEF y
<1>3. C \in SUBSET Context
  BY <1>1, <1>2, ZenonT(30)
<1> HIDE DEF C
<1>4. k \in Mem /\ k.clients = C /\ k.tabs = m.tabs /\ k.entries = m.entries /\ k.routes = m.routes
  BY <1>1, <1>3, ZenonT(30) DEF Mem
<1>5. k = bindClientContext(m, c, t, e)
  BY ZenonT(30) DEF k, C, y, bindClientContext
<1> HIDE DEF k
<1>6. Puts(k, e, t, 0)
  BY <1>4, ZenonT(30) DEF Puts
<1>7. Binds(k, c, t, e)
  BY <1>2, <1>4, ZenonT(30) DEF Binds, C
<1> QED BY <1>4, <1>5, <1>6, <1>7, ZenonT(30)

\* A window's client is bound to an entry of memory, and its document may be
\* fetched.
LEMMA BoundStep ==
  ASSUME NavInv, worker = "up", UNCHANGED <<db, worker, n, share, ends, blind>>,
         NEW w \in Windows, NEW e \in Ids, NEW t \in Ids, mem.entries[e].tab = t, mem.tabs[t] # NoTab,
         Puts(mem', e, t, 0), Binds(mem', Client(w), t, e),
         win' \in [Windows -> Window], \A v \in Windows \ {w} : win'[v] = win[v],
         win'[w].k = win[w].k, win'[w].route = win[w].route, win'[w].entry = win[w].entry, win'[w].tab = win[w].tab,
         win[w].pc \in {"page", "loading"}, win'[w].pc \in {"page", "fetching", "error"},
         win[w].pc = "page" <=> win'[w].pc = "page", win[w].pc = "page" => t = win[w].tab,
         NEW g \in Fetch, g.client = Client(w), g.tab = t, g.entry = e, w \in Frames => g.frame,
         fetches' \subseteq fetches \cup {g}, g \in fetches' => win'[w].pc = "fetching",
         pending' \in [Ids -> Ids0], posted' \in [Ids -> Nat], Submissions',
         \A i \in Ids : Untouched(i) => pending'[i] = 0 /\ posted'[i] = 0,
         ends = 0 => Marked(Client(w), e)'
  PROVE  NavInv'
<1>1. mem \in Mem /\ db \in Mem /\ mem' \in Mem /\ mem'.tabs[t] # NoTab /\ Keeps(mem')
  <2>1. Keeps(mem')
    BY PutsKeeps, ZenonT(30)
  <2> QED BY <2>1, ZenonT(30) DEF NavInv, Types, Puts
<1>2. Client(w) \in Clients /\ Client(w)[1] = w /\ Client(w)[2] = win[w].k /\ win[w].k \in Nat
  BY WindowType, ZenonT(30) DEF NavInv, Types, Client, Clients
<1>3. \A v \in Windows : /\ win'[v].k = win[v].k /\ win'[v].route = win[v].route
                         /\ win'[v].entry = win[v].entry /\ win'[v].tab = win[v].tab
  BY ZenonT(30)
<1>4. \A f \in fetches : f.client # Client(w)
  <2> SUFFICES ASSUME NEW f \in fetches, f.client = Client(w) PROVE FALSE
    BY ZenonT(30)
  <2>1. FetchOK(f)
    BY ZenonT(30) DEF NavInv, FetchesOK
  <2>2. f.client[1] = w /\ f.client[2] = win[w].k
    BY <1>2, ZenonT(30)
  <2>3. win[w].pc = "fetching"
    BY <2>1, <2>2, ZenonT(30) DEF FetchOK
  <2> QED BY <2>3, ZenonT(30)
<1>5. Types'
  BY <1>1, ZenonT(30) DEF NavInv, Types
<1>6. \A v \in Windows : WindowOK(v)'
  <2>1. ASSUME NEW v \in Windows \ {w} PROVE WindowOK(v)'
    <3>1. WindowOK(v) /\ win'[v] = win[v] /\ share' = share
      BY <2>1, ZenonT(30) DEF NavInv
    <3> QED BY <3>1, ZenonT(30) DEF WindowOK
  <2>2. WindowOK(w)'
    <3>1. WindowOK(w) /\ win[w].pc # "closed"
      BY ZenonT(30) DEF NavInv
    <3>2. win'[w].pc \notin Asking /\ (win'[w].pc \in Pages => win[w].pc \in Pages)
      BY ZenonT(30) DEF Asking, Pages
    <3> QED BY <1>3, <3>1, <3>2, ZenonT(30) DEF WindowOK
  <2> QED BY <2>1, <2>2, ZenonT(30)
<1>7. Keys'
  <2>1. \A v \in Windows, i \in Ids : Asks(v, i)' => Asks(v, i)
    BY ZenonT(90) DEF Asks, Asking
  <2>2. ASSUME NEW i \in Ids, Untouched(i) PROVE Untouched(i)'
    <3>1. i # e
      <4>1. mem.entries[i].tab = 0
        BY <1>1, <2>2, Present, ZenonT(30) DEF Untouched
      <4> QED BY <4>1, ZeroIsNoId, ZenonT(30)
    <3>2. mem.entries[i] = NoEntry /\ mem.routes[i] = NoRoute
      BY <2>2, ZenonT(30) DEF Untouched
    <3>3. i \in Ids \ {e} /\ i \in Ids \ {0}
      BY <3>1, ZeroIsNoId, ZenonT(30)
    <3>4. mem'.entries[i].tab = mem.entries[i].tab /\ mem'.routes[i] = mem.routes[i]
      BY <3>3, ZenonT(30) DEF Puts
    <3>5. mem.entries[i].tab = 0
      BY <1>1, <3>2, Present, ZenonT(30)
    <3>6. mem'.entries[i] = NoEntry
      BY <1>1, <3>4, <3>5, Present, ZenonT(30)
    <3>7. \A v \in Windows : win'[v].route # i /\ win'[v].entry # i
      BY <2>2, ZenonT(30) DEF Untouched
    <3>8. db'.entries[i] = NoEntry /\ db'.routes[i] = NoRoute /\ pending'[i] = 0 /\ posted'[i] = 0
      BY <2>2, ZenonT(30) DEF Untouched
    <3> QED BY <3>2, <3>4, <3>6, <3>7, <3>8, ZenonT(30) DEF Untouched
  <2>3. \A x, y \in Windows : win'[x].route = win'[y].route /\ win'[x].route # 0 => x = y
    <3>1. \A x, y \in Windows : win[x].route = win[y].route /\ win[x].route # 0 => x = y
      BY ZenonT(30) DEF NavInv, Keys
    <3>2. ASSUME NEW x \in Windows, NEW y \in Windows, win'[x].route = win'[y].route, win'[x].route # 0
          PROVE  x = y
      <4>1. win'[x].route = win[x].route /\ win'[y].route = win[y].route
        BY <1>3, ZenonT(30)
      <4>2. win[x].route = win[y].route /\ win[x].route # 0
        BY <3>2, <4>1, ZenonT(30)
      <4> QED BY <3>1, <4>2, ZenonT(30)
    <3> QED BY <3>2, ZenonT(30)
  <2>4. n' \in Ids0 /\ n' \in {n, n + 1}
    BY ZenonT(30) DEF NavInv, Types
  <2> QED BY <2>1, <2>2, <2>3, <2>4, ZeroIsNoId, KeysKept, ZenonT(30)
<1>8. Homes'
  <2>1. \A v \in Windows : win'[v].pc \in Pages =>
          \/ win[v].pc \in Pages /\ win'[v].entry = win[v].entry /\ win'[v].tab = win[v].tab
          \/ win'[v].entry = e /\ win'[v].tab = t
    BY ZenonT(30) DEF Pages, Asking
  <2>2. \A i, u \in Ids : Lies(i, u)' => Lies(i, u) \/ (i = e /\ u = t)
    BY <2>1, LiesKept, ZenonT(90)
  <2>3. Lies(e, t)
    BY ZenonT(30) DEF Lies
  <2>4. Homes
    BY ZenonT(30) DEF NavInv
  <2> QED BY <2>2, <2>3, <2>4, ZenonT(90) DEF Homes
<1>9. Whole(mem)' /\ Whole(db)' /\ Forgetful'
  <2>1. \A x \in mem'.clients : x \in mem.clients \/ (x.tab = t /\ x.entry = e)
    BY ZenonT(30) DEF Binds
  <2>2. Whole(mem')
    BY <1>1, <2>1, ZeroIsNoId, PutsWhole, ZenonT(30) DEF NavInv
  <2> QED BY <2>2, ZenonT(30) DEF NavInv, Whole, Linked, Forgetful
<1>10. FetchesOK'
  <2>1. ASSUME NEW f \in fetches', f \in fetches PROVE FetchOK(f)'
    <3>1. f \in Fetch /\ FetchOK(f) /\ f.client[1] \in Windows /\ f.client = <<f.client[1], f.client[2]>>
      BY <2>1, FetchFacts, ZenonT(30) DEF NavInv, FetchesOK
    <3>2. Linked(mem', f)
      BY <1>1, <3>1, LinkedKept, ZenonT(30) DEF FetchOK, Fetch
    <3>3. f.client[2] = win[f.client[1]].k => win'[f.client[1]] = win[f.client[1]]
      BY <1>4, <2>1, <3>1, ZenonT(90) DEF Client
    <3> QED BY <1>3, <3>1, <3>2, <3>3, ZenonT(30) DEF FetchOK, Linked
  <2>2. ASSUME g \in fetches' PROVE FetchOK(g)'
    <3>1. Linked(mem', g)
      BY <1>1, ZenonT(30) DEF Linked, Puts
    <3>2. g.client[1] = w /\ g.client[2] = win[w].k /\ win'[w].pc = "fetching"
      BY <1>2, <2>2, ZenonT(30)
    <3>3. win[w].k <= win'[w].k
      BY <1>2, SelfLeq, ZenonT(30)
    <3> QED BY <3>1, <3>2, <3>3, ZenonT(30) DEF FetchOK, Linked
  <2>3. \A f, h \in fetches' : f.client = h.client => f = h
    <3>1. \A f, h \in fetches : f.client = h.client => f = h
      BY ZenonT(30) DEF NavInv, FetchesOK
    <3>2. ASSUME NEW f \in fetches', NEW h \in fetches', f.client = h.client PROVE f = h
      <4>1. CASE f = g
        BY <1>4, <3>2, <4>1, ZenonT(30)
      <4>2. CASE h = g
        BY <1>4, <3>2, <4>2, ZenonT(30)
      <4>3. CASE f # g /\ h # g
        BY <3>1, <3>2, <4>3, ZenonT(30)
      <4> QED BY <4>1, <4>2, <4>3, ZenonT(30)
    <3> QED BY <3>2, ZenonT(30)
  <2> QED BY <2>1, <2>2, <2>3, ZenonT(30) DEF FetchesOK
<1>11. Contexts'
  <2>1. ASSUME NEW x \in mem.clients \cup db.clients, x.client # Client(w) PROVE ContextOK(x)'
    <3>1. x \in Context /\ ContextOK(x)
      BY <1>1, ZenonT(30) DEF NavInv, Contexts, Mem
    <3>2. x.client[1] \in Windows /\ x.client = <<x.client[1], x.client[2]>>
      BY <3>1, ClientParts, ZenonT(30) DEF Context
    <3>3. x.client[2] = win[x.client[1]].k => win'[x.client[1]] = win[x.client[1]]
      BY <2>1, <3>2, ZenonT(30) DEF Client
    <3>4. \A f \in fetches' : f.client = x.client => f \in fetches
      BY <2>1, ZenonT(30)
    <3> QED BY <1>3, <3>1, <3>2, <3>3, <3>4, ZenonT(30) DEF ContextOK
  <2>2. ASSUME NEW x, x.client = Client(w), x.tab = t PROVE ContextOK(x)'
    <3>1. \A f \in fetches' : f.client = x.client => f.tab = x.tab
      BY <1>4, <2>2, ZenonT(30)
    <3>2. win'[w].pc \in Pages => x.tab = win'[w].tab
      BY <2>2, ZenonT(30) DEF Pages, Asking
    <3>3. x.client[1] = w /\ x.client[2] = win[w].k
      BY <1>2, <2>2, ZenonT(30)
    <3>4. win[w].k <= win'[w].k
      BY <1>2, SelfLeq, ZenonT(30)
    <3>5. win'[w].pc \notin {"closed", "launcher", "loading"}
      BY ZenonT(30)
    <3> QED BY <3>1, <3>2, <3>3, <3>4, <3>5, ZenonT(30) DEF ContextOK
  <2>3. ASSUME NEW x \in db.clients, x.client = Client(w) PROVE ContextOK(x)'
    <3>1. ContextOK(x)
      BY ZenonT(30) DEF NavInv, Contexts
    <3>2. x.client[1] = w /\ x.client[2] = win[w].k
      BY <1>2, <2>3, ZenonT(30)
    <3>3. win[w].pc = "page" /\ x.tab = win[w].tab
      BY <3>1, <3>2, ZenonT(30) DEF ContextOK, Pages
    <3> QED BY <2>2, <2>3, <3>3, ZenonT(30)
  <2> QED BY <2>1, <2>2, <2>3, ZenonT(30) DEF Contexts, Binds
<1>12. FirstLife'
  <2> SUFFICES ASSUME ends = 0 PROVE FirstLife'
    BY ZenonT(30) DEF FirstLife
  <2>1. FirstLife /\ worker' = "up" /\ Marked(Client(w), e)'
    BY ZenonT(30) DEF NavInv
  <2>2. ASSUME NEW v \in Windows, win'[v].pc \in Pages \cup {"fetching"} PROVE ContextOf(Client(v))' # {}
    <3>1. Client(v)' = Client(v)
      BY <1>3, ZenonT(30) DEF Client
    <3>2. CASE v = w
      BY <3>1, <3>2, ZenonT(30) DEF Binds, ContextOf
    <3>3. CASE v # w
      <4>1. PICK x \in mem.clients : x.client = Client(v)
        BY <2>1, <2>2, <3>3, ZenonT(30) DEF FirstLife, ContextOf
      <4>2. x.client # Client(w)
        <5>1. Client(v)[1] = v
          BY ZenonT(30) DEF Client
        <5> QED BY <1>2, <3>3, <4>1, <5>1, ZenonT(30)
      <4> QED BY <3>1, <4>1, <4>2, ZenonT(90) DEF Binds, ContextOf
    <3> QED BY <3>2, <3>3, ZenonT(30)
  <2>3. ASSUME NEW v \in Windows, win'[v].pc \in Pages PROVE Linked(mem', win'[v]) /\ Marked(Client(v), win[v].entry)'
    <3>1. win[v].pc \in Pages
      BY <2>3, ZenonT(30) DEF Pages, Asking
    <3>2. Linked(mem, win[v]) /\ Marked(Client(v), win[v].entry) /\ win[v].tab \in Ids /\ win[v].entry \in Ids
      BY <2>1, <3>1, ZenonT(30) DEF FirstLife, NavInv, WindowOK
    <3>3. Linked(mem', win[v])
      BY <1>1, <3>2, LinkedKept, ZenonT(30)
    <3> QED BY <1>1, <1>3, <3>2, <3>3, ZenonT(30) DEF Linked, Marked, Client, Keeps
  <2>4. ASSUME NEW x \in mem'.clients PROVE Marked(x.client, x.entry)'
    <3>1. CASE x \in mem.clients
      <4>1. x.entry \in Ids /\ Marked(x.client, x.entry)
        BY <1>1, <2>1, <3>1, ZenonT(30) DEF FirstLife, Mem, Context
      <4> QED BY <1>1, <4>1, MarkedKept, ZenonT(30)
    <3>2. CASE x.client = Client(w) /\ x.entry = e
      BY <1>2, <2>1, <3>2, <1>3, ZenonT(30) DEF Marked, Client
    <3> QED BY <3>1, <3>2, ZenonT(30) DEF Binds
  <2>5. ASSUME NEW f \in fetches' PROVE Marked(f.client, f.entry)'
    <3>1. CASE f \in fetches
      <4>1. f.entry \in Ids /\ Marked(f.client, f.entry)
        BY <2>1, <3>1, FetchFacts, ZenonT(30) DEF FirstLife
      <4> QED BY <1>1, <4>1, MarkedKept, ZenonT(30)
    <3>2. CASE f = g
      BY <1>2, <2>1, <3>2, <1>3, ZenonT(30) DEF Marked, Client
    <3> QED BY <3>1, <3>2, ZenonT(30)
  <2> QED BY <2>1, <2>2, <2>3, <2>4, <2>5, ZenonT(30) DEF FirstLife, Linked
<1>13. Seeing'
  <2> SUFFICES ASSUME ~blind PROVE Grows(db, mem)' /\ \A v \in Windows : Unopened(v)'
    BY ZenonT(30) DEF Seeing
  <2>1. Grows(db, mem) /\ \A v \in Windows : Unopened(v)
    BY ZenonT(30) DEF NavInv, Seeing
  <2>2. Grows(db, mem)'
    BY <1>1, <2>1, ZeroIsNoId, GrowsKept, ZenonT(90)
  <2>3. ASSUME NEW v \in Windows, win'[v].pc = "launcher" PROVE Unopened(v)'
    <3>1. win'[v] = win[v] /\ win[v].route \in Ids
      BY <2>3, ZenonT(30) DEF NavInv, WindowOK
    <3>2. win[v].route \in Ids \ {0}
      BY <3>1, ZeroIsNoId, ZenonT(30)
    <3>3. mem'.routes[win[v].route] = mem.routes[win[v].route]
      BY <3>2, ZenonT(30) DEF Puts
    <3> QED BY <2>1, <2>3, <3>1, <3>3, ZenonT(90) DEF Unopened
  <2> QED BY <2>2, <2>3, ZenonT(30) DEF Unopened
<1> QED BY <1>5, <1>6, <1>7, <1>8, <1>9, <1>10, <1>11, <1>12, <1>13, ZenonT(30) DEF NavInv

\* BIND_CLIENT: a page's client is known under the tab and entry it shows.
LEMMA BindClientStep ==
  ASSUME NavInv, NEW w \in Windows, BindClient(w)
  PROVE  NavInv'
<1>1. /\ worker = "up" /\ win[w].pc = "page" /\ runtimeTabForMessage(w) /\ mem.entries[win[w].entry] # NoEntry
      /\ UNCHANGED <<pending, db, worker, fetches, n, posted, share, ends, blind>>
  BY ZenonT(30) DEF BindClient, browser
<1>2. PICK e \in Ids, t \in Ids : e = win[w].entry /\ t = win[w].tab
  BY <1>1, ZenonT(30) DEF NavInv, WindowOK, Pages
<1>3. mem \in Mem /\ mem.tabs[t] # NoTab /\ mem.entries[e] # NoEntry
  BY <1>1, <1>2, ZenonT(30) DEF NavInv, Types, runtimeTabForMessage
<1>4. mem.entries[e].tab = t
  <2>1. mem.entries[e].tab \in Ids
    BY <1>3, Present, ZenonT(30)
  <2>2. Lies(e, mem.entries[e].tab) /\ Lies(e, t)
    BY <1>1, <1>2, ZenonT(30) DEF Lies, Pages
  <2> QED BY <2>1, <2>2, ZenonT(30) DEF NavInv, Homes
<1>5. Client(w) \in Clients
  BY WindowType, ZenonT(30) DEF NavInv, Types, Client, Clients
<1>6. Puts(mem', e, t, 0) /\ Binds(mem', Client(w), t, e) /\ mem'.entries = mem.entries
  <2>1. mem' = bindClientContext(mem, Client(w), t, e)
    BY <1>2, ZenonT(30) DEF BindClient
  <2>2. Puts(mem, e, t, 0)
    BY <1>3, <1>4, ZenonT(30) DEF Puts
  <2> QED BY <1>5, <2>1, <2>2, BindPuts, ZenonT(30)
<1>7. /\ win' \in [Windows -> Window] /\ \A v \in Windows \ {w} : win'[v] = win[v]
      /\ win'[w].pc = "page" /\ win'[w].k = win[w].k /\ win'[w].route = win[w].route
      /\ win'[w].entry = win[w].entry /\ win'[w].tab = win[w].tab
  <2> DEFINE q == [win[w] EXCEPT !.bound = TRUE]
  <2>1. win[w] \in Window
    BY ZenonT(30) DEF NavInv, Types
  <2>2. win' = [win EXCEPT ![w] = q]
    BY ZenonT(30) DEF BindClient
  <2>3. q \in Window /\ q.pc = "page" /\ q.k = win[w].k /\ q.route = win[w].route
        /\ q.entry = win[w].entry /\ q.tab = win[w].tab
    BY <1>1, <2>1, ZenonT(30) DEF Window
  <2> HIDE DEF q
  <2> QED BY <2>2, <2>3, OneWindow, ZenonT(30)
<1>8. PICK g \in Fetch : g.client = Client(w) /\ g.tab = t /\ g.entry = e /\ g.frame
  <2> DEFINE g == [client |-> Client(w), tab |-> t, entry |-> e, documentUrl |-> mem.entries[e].url, frame |-> TRUE]
  <2>1. mem.entries[e].url \in Targets
    BY <1>3, Present, ZenonT(30)
  <2>2. g \in Fetch /\ g.client = Client(w) /\ g.tab = t /\ g.entry = e /\ g.frame
    BY <1>5, <2>1, ZenonT(30) DEF Fetch
  <2> QED BY <2>2, ZenonT(30)
<1>9. g \notin fetches'
  <2> SUFFICES ASSUME g \in fetches PROVE FALSE
    BY <1>1, ZenonT(30)
  <2>1. g.client[2] = win[g.client[1]].k => win[g.client[1]].pc = "fetching"
    BY ZenonT(30) DEF NavInv, FetchesOK, FetchOK
  <2>2. g.client[1] = w /\ g.client[2] = win[w].k
    <3>1. Client(w)[1] = w /\ Client(w)[2] = win[w].k
      BY ZenonT(30) DEF Client
    <3> QED BY <1>8, <3>1, ZenonT(30)
  <2>3. win[w].pc = "fetching"
    BY <2>1, <2>2, ZenonT(30)
  <2> QED BY <1>1, <2>3, ZenonT(30)
<1>10. /\ pending' \in [Ids -> Ids0] /\ posted' \in [Ids -> Nat] /\ Submissions'
       /\ \A i \in Ids : Untouched(i) => pending'[i] = 0 /\ posted'[i] = 0
  BY <1>1, ZenonT(30) DEF NavInv, Types, Submissions, Untouched
<1>11. ends = 0 => Marked(Client(w), e)'
  BY <1>1, <1>2, <1>6, <1>7, ZenonT(30) DEF NavInv, FirstLife, Marked, Client, Pages
<1>12. fetches' \subseteq fetches \cup {g}
  BY <1>1, ZenonT(30)
<1> QED BY <1>1, <1>2, <1>3, <1>4, <1>6, <1>7, <1>8, <1>9, <1>10, <1>11, <1>12, BoundStep, ZenonT(30)

\* A route memory has leads to a tab and an entry it has.
LEMMA KnownRoute ==
  ASSUME NavInv, NEW r \in Ids, mem.routes[r] # NoRoute
  PROVE  LET x == mem.routes[r]
         IN /\ x.tab \in Ids /\ x.entry \in Ids /\ mem.tabs[x.tab] # NoTab
            /\ mem.entries[x.entry].tab = x.tab /\ mem.entries[x.entry] # NoEntry
            /\ mem.entries[x.entry].url \in Targets
<1>1. mem \in Mem /\ mem.routes[r] \in Route
  BY Present, ZenonT(30) DEF NavInv, Types
<1>2. mem.routes[r].tab \in Ids /\ mem.routes[r].entry \in Ids /\ Linked(mem, mem.routes[r])
  BY <1>1, ZenonT(30) DEF Route, NavInv, Whole
<1> QED BY <1>1, <1>2, Present, ZenonT(30) DEF Linked

\* proxyDocument: the entry of a request is marked, its tab may show it.
Mark(e, frame, t, a) == [mem EXCEPT !.entries[e].frame = frame, !.tabs[t].active = a]
\* Marking touches the memory at one entry and its tab only.
LEMMA MarkPuts ==
  ASSUME mem \in Mem, NEW e \in Ids, NEW t \in Ids, mem.tabs[t] # NoTab, mem.entries[e].tab = t,
         NEW frame \in BOOLEAN, mem.entries[e].frame => frame, NEW a \in Ids
  PROVE  LET m == Mark(e, frame, t, a)
         IN /\ Puts(m, e, t, 0) /\ m.clients = mem.clients /\ m.entries[e].frame = frame
            /\ a = mem.tabs[t].active => m.tabs = mem.tabs
<1> DEFINE y == mem.entries[e]
           b == [tab |-> y.tab, url |-> y.url, frame |-> frame]
           k == [mem EXCEPT !.entries[e].frame = frame]
           m == [k EXCEPT !.tabs[t].active = a]
<1>1. b.tab = t /\ b.frame = frame
  BY ZenonT(30)
<1>2. mem.entries[e] # NoEntry
  BY Present, ZenonT(30)
<1>3. k \in Mem /\ k.entries = [mem.entries EXCEPT ![e] = b] /\ k.tabs = mem.tabs /\ k.routes = mem.routes /\ k.clients = mem.clients
  BY <1>2, SMTT(30), Z3T(30) DEF Mem, Entry
<1> HIDE DEF k, b
<1>4. m \in Mem /\ m.tabs = [mem.tabs EXCEPT ![t] = [active |-> a, top |-> mem.tabs[t].top]]
      /\ m.entries = k.entries /\ m.routes = mem.routes /\ m.clients = mem.clients
  <2>1. k.tabs[t] # NoTab
    BY <1>3, ZenonT(30)
  <2> QED BY <1>3, <2>1, SMTT(30), Z3T(30) DEF Mem, Tab
<1> HIDE DEF m
<1>5. mem.tabs \in [Ids -> Tab \cup {NoTab}] /\ mem.entries \in [Ids -> Entry \cup {NoEntry}]
  BY ZenonT(30) DEF Mem
<1>6. m.tabs[t] # NoTab
  BY <1>4, <1>5, ZeroIsNoId, SMTT(30), Z3T(30) DEF NoTab
<1>7. a = mem.tabs[t].active => m.tabs = mem.tabs
  <2>1. mem.tabs[t] = [active |-> mem.tabs[t].active, top |-> mem.tabs[t].top]
    BY <1>5, ZenonT(30) DEF Tab
  <2> QED BY <1>4, <1>5, <2>1, SMTT(30), Z3T(30)
<1>8. Puts(m, e, t, 0)
  <2>1. \A i \in Ids : mem.tabs[i] # NoTab => m.tabs[i] # NoTab
    BY <1>4, <1>5, <1>6, ZenonT(30)
  <2>2. \A i \in Ids : mem.entries[i].frame => m.entries[i].frame
    BY <1>1, <1>3, <1>4, <1>5, SMTT(30), Z3T(30)
  <2>3. /\ \A i \in Ids \ {e} : m.entries[i].tab = mem.entries[i].tab
        /\ m.entries[e].tab = t
        /\ \A i \in Ids \ {0} : m.routes[i] = mem.routes[i]
    BY <1>1, <1>3, <1>4, <1>5, SMTT(30), Z3T(30)
  <2> QED BY <1>4, <2>1, <2>2, <2>3, ZenonT(30) DEF Puts
<1>9. m.entries[e].frame = frame
  BY <1>1, <1>3, <1>4, <1>5, ZenonT(30)
<1>10. m = Mark(e, frame, t, a)
  BY ZenonT(30) DEF m, k, Mark
<1> QED BY <1>4, <1>7, <1>8, <1>9, <1>10, ZenonT(30)

\* An entry is marked and a client bound to it.
LEMMA MarkedBound ==
  ASSUME mem \in Mem, NEW e \in Ids, NEW t \in Ids, mem.tabs[t] # NoTab, mem.entries[e].tab = t,
         NEW b \in BOOLEAN, mem.entries[e].frame => b, NEW a \in Ids, NEW c \in Clients,
         NEW k, k = bindClientContext(Mark(e, b, t, a), c, t, e)
  PROVE  /\ Puts(k, e, t, 0) /\ Binds(k, c, t, e)
         /\ b => k.entries[e].frame
         /\ a = mem.tabs[t].active => k.tabs = mem.tabs
<1>1. /\ Puts(Mark(e, b, t, a), e, t, 0) /\ Mark(e, b, t, a).clients = mem.clients
      /\ b => Mark(e, b, t, a).entries[e].frame
      /\ a = mem.tabs[t].active => Mark(e, b, t, a).tabs = mem.tabs
  BY MarkPuts, SMTT(30), Z3T(30)
<1>2. PICK m : m = Mark(e, b, t, a)
  BY ZenonT(30)
<1>3. Puts(m, e, t, 0) /\ m.clients = mem.clients /\ k = bindClientContext(m, c, t, e)
  BY <1>1, <1>2, ZenonT(30)
<1>4. Puts(k, e, t, 0) /\ Binds(k, c, t, e) /\ k.tabs = m.tabs /\ k.entries = m.entries
  BY <1>3, BindPuts, SMTT(30), Z3T(30)
<1> QED BY <1>1, <1>2, <1>4, ZenonT(30)

\* proxyDocument's effect on memory: the client is bound, and a frame's
\* request marks its entry and leaves the tab alone.
LEMMA ProxiedMemory ==
  ASSUME NavInv, NEW w \in Windows, ProxyDocument(w), NEW r \in Ids, r = win[w].route, mem.routes[r] # NoRoute
  PROVE  LET e == mem.routes[r].entry
             t == mem.routes[r].tab
         IN /\ Puts(mem', e, t, 0) /\ Binds(mem', Client(w), t, e)
            /\ w \in Frames => mem'.entries[e].frame /\ mem'.tabs = mem.tabs
<1>1. PICK e \in Ids, t \in Ids : e = mem.routes[r].entry /\ t = mem.routes[r].tab
  BY KnownRoute, ZenonT(30)
<1>2. mem \in Mem /\ mem.tabs[t] # NoTab /\ mem.entries[e].tab = t /\ mem.entries[e] # NoEntry
  BY <1>1, KnownRoute, ZenonT(30) DEF NavInv, Types
<1>3. Client(w) \in Clients
  BY WindowType, ZenonT(30) DEF NavInv, Types, Client, Clients
<1>4. mem.tabs[t].active \in Ids
  <2>1. \A y \in Tab : y.active \in Ids
    BY ZenonT(30) DEF Tab
  <2> QED BY <1>2, <2>1, Present, ZenonT(30)
<1> DEFINE isFrame == mem.routes[r].frame \/ mem.entries[e].frame \/ w \in Frames
           active == IF ~isFrame \/ mem.tabs[t].active = 0 THEN e ELSE mem.tabs[t].active
<1>5. mem' = bindClientContext(Mark(e, isFrame, t, active), Client(w), t, e)
  <2>1. mem' = bindClientContext(
                 [mem EXCEPT !.entries[e].frame = isFrame, !.tabs[t].active = IF ~isFrame \/ @ = 0 THEN e ELSE @],
                 Client(w), t, e)
    BY <1>1, <1>2, ZenonT(30) DEF ProxyDocument
  <2> QED BY <2>1, ZenonT(30) DEF Mark
<1>6. PICK b \in BOOLEAN, a \in Ids :
        /\ b = isFrame /\ a = active /\ (mem.entries[e].frame => b) /\ (w \in Frames => b)
        /\ (b => a = mem.tabs[t].active)
  BY <1>4, ZeroIsNoId, ZenonT(30)
<1> HIDE DEF isFrame, active
<1>7. mem' = bindClientContext(Mark(e, b, t, a), Client(w), t, e)
  BY <1>5, <1>6, ZenonT(30)
<1>8. /\ Puts(mem', e, t, 0) /\ Binds(mem', Client(w), t, e)
      /\ b => mem'.entries[e].frame
      /\ a = mem.tabs[t].active => mem'.tabs = mem.tabs
  <2>1. mem.entries[e].frame => b
    BY <1>6, ZenonT(30)
  <2> QED BY <1>2, <1>3, <1>7, <2>1, MarkedBound, SMTT(30), Z3T(30)
<1> QED BY <1>1, <1>6, <1>8, ZenonT(30)

\* A request for a route memory has is bound and, unless it is a form's that is
\* not there to be sent, fetched.
LEMMA KnownStep ==
  ASSUME NavInv, NEW w \in Windows, ProxyDocument(w), mem.routes[win[w].route] # NoRoute
  PROVE  NavInv'
<1>1. worker = "up" /\ win[w].pc = "loading" /\ UNCHANGED <<db, worker, n, share, ends, blind>>
  BY ZenonT(30) DEF ProxyDocument, browser
<1>2. PICK r \in Ids : r = win[w].route /\ mem.routes[r] # NoRoute
  BY <1>1, ZenonT(30) DEF NavInv, WindowOK
<1>3. PICK e \in Ids, t \in Ids, s \in Ids0 : e = mem.routes[r].entry /\ t = mem.routes[r].tab /\ s = win[w].submit
  BY <1>2, KnownRoute, WindowType, ZenonT(30) DEF NavInv, Types
<1>4. mem \in Mem /\ mem.tabs[t] # NoTab /\ mem.entries[e].tab = t /\ mem.entries[e] # NoEntry
      /\ mem.entries[e].url \in Targets
  BY <1>2, <1>3, KnownRoute, ZenonT(30) DEF NavInv, Types
<1>5. /\ Puts(mem', e, t, 0) /\ Binds(mem', Client(w), t, e)
      /\ w \in Frames => mem'.entries[e].frame /\ mem'.tabs = mem.tabs
  BY <1>2, <1>3, ProxiedMemory, ZenonT(30)
<1> DEFINE accepted == s = 0 \/ (s = r /\ pending[s] = t)
           isFrame == mem.routes[r].frame \/ mem.entries[e].frame \/ w \in Frames
           g == [client |-> Client(w), tab |-> t, entry |-> e, documentUrl |-> mem.entries[e].url, frame |-> isFrame]
           pc == IF accepted THEN "fetching" ELSE "error"
<1>6. /\ pending' = IF s # 0 THEN [pending EXCEPT ![s] = 0] ELSE pending
      /\ posted' = IF accepted /\ s # 0 THEN [posted EXCEPT ![s] = @ + 1] ELSE posted
      /\ fetches' = IF accepted THEN fetches \cup {g} ELSE fetches
      /\ win' = [win EXCEPT ![w] = [win[w] EXCEPT !.pc = pc]]
  BY <1>2, <1>3, <1>4, ZenonT(30) DEF ProxyDocument, spent
<1>7. /\ win' \in [Windows -> Window] /\ \A v \in Windows \ {w} : win'[v] = win[v]
      /\ win'[w].pc = pc /\ win'[w].k = win[w].k /\ win'[w].route = win[w].route
      /\ win'[w].entry = win[w].entry /\ win'[w].tab = win[w].tab
  <2> DEFINE q == [win[w] EXCEPT !.pc = pc]
  <2>1. win[w] \in Window /\ pc \in Steps
    BY ZenonT(30) DEF NavInv, Types, Steps
  <2> HIDE DEF pc
  <2>2. q \in Window /\ q.pc = pc /\ q.k = win[w].k /\ q.route = win[w].route
        /\ q.entry = win[w].entry /\ q.tab = win[w].tab
    BY <2>1, ZenonT(30) DEF Window
  <2>3. win' = [win EXCEPT ![w] = q]
    BY <1>6, ZenonT(30)
  <2> HIDE DEF q
  <2> QED BY <2>2, <2>3, OneWindow, ZenonT(30)
<1>8. g \in Fetch /\ g.client = Client(w) /\ g.tab = t /\ g.entry = e /\ (w \in Frames => g.frame)
  <2>1. Client(w) \in Clients
    BY WindowType, ZenonT(30) DEF NavInv, Types, Client, Clients
  <2>2. isFrame \in BOOLEAN /\ (w \in Frames => isFrame)
    BY ZenonT(30)
  <2> HIDE DEF isFrame
  <2> QED BY <1>4, <2>1, <2>2, ZenonT(30) DEF Fetch
<1>9. pending \in [Ids -> Ids0] /\ posted \in [Ids -> Nat] /\ 0 \in Ids0 /\ (s # 0 => s \in Ids) /\ t # 0
  BY ZeroIsNoId, ConstantsAssumption, SMTT(30), Z3T(30) DEF NavInv, Types, Ids, Ids0
<1>10. pending' \in [Ids -> Ids0] /\ posted' \in [Ids -> Nat]
  BY <1>6, <1>9, SMTT(30)
<1>11. Submissions'
  <2>1. \A i \in Ids : posted[i] <= 1 /\ (pending[i] # 0 => posted[i] = 0)
    BY ZenonT(30) DEF NavInv, Submissions
  <2>2. accepted /\ s # 0 => posted[s] = 0
    BY <1>9, <2>1, ZenonT(30)
  <2>3. \A i \in Ids : posted'[i] <= 1 /\ (pending'[i] # 0 => posted'[i] = 0)
    BY <1>6, <1>9, <2>1, <2>2, SMTT(30)
  <2> QED BY <2>3, ZenonT(30) DEF Submissions
<1>12. \A i \in Ids : Untouched(i) => pending'[i] = 0 /\ posted'[i] = 0
  BY <1>6, <1>9, ZenonT(30) DEF Untouched
<1>13. ends = 0 => Marked(Client(w), e)'
  BY <1>5, ZenonT(30) DEF Marked, Client
<1>14. g \notin fetches
  BY <1>1, <1>8, ZenonT(30) DEF NavInv, FetchesOK, FetchOK, Client
<1> HIDE DEF g
<1>15. fetches' \subseteq fetches \cup {g} /\ (g \in fetches' => win'[w].pc = "fetching")
  BY <1>6, <1>7, <1>14, ZenonT(30)
<1>16. win'[w].pc \in {"fetching", "error"}
  BY <1>7, ZenonT(30)
<1> HIDE DEF accepted, pc
<1> QED BY <1>1, <1>4, <1>5, <1>7, <1>8, <1>10, <1>11, <1>12, <1>13, <1>15, <1>16, BoundStep, ZenonT(90)

\* proxyDocument keeps the invariant.
LEMMA ProxyDocumentStep ==
  ASSUME NavInv, NEW w \in Windows, ProxyDocument(w)
  PROVE  NavInv'
BY KnownStep, UnknownStep, ZenonT(30)

-----------------------------------------------------------------------------
(* The theorems.                                                           *)

\* Every step keeps the invariant.
LEMMA NextInv == NavInv /\ [Next]_vars => NavInv'
<1> SUFFICES ASSUME NavInv, Next PROVE NavInv'
  BY StutterInv, ZenonT(30)
<1>1. ASSUME NEW w \in Windows, User(w) PROVE NavInv'
  <2>1. CASE Reload(w) \/ PushState(w)
    BY <2>1, ReloadStep, PushStateStep, ZenonT(30)
  <2>2. CASE \E t \in Addresses : OpenTarget(w, t)
    BY <2>2, OpenTargetStep, ConstantsAssumption, ZenonT(30)
  <2>3. CASE \E t \in Addresses, kind \in {"nav", "frame", "submit"}, d \in Windows : Announce(w, t, kind, d)
    BY <2>3, AnnounceStep, ZenonT(30) DEF Asking
  <2> QED BY <1>1, <2>1, <2>2, <2>3, ZenonT(30) DEF User
<1>2. ASSUME NEW w \in Windows, BindClient(w) PROVE NavInv'
  BY <1>2, BindClientStep, ZenonT(30)
<1>3. ASSUME NEW w \in Windows, Answered(w) PROVE NavInv'
  BY <1>3, OpenShareStep, HistoryUpdateStep, FrameRouteStep, SubmitPrepareStep, ProxyDocumentStep, ZenonT(30) DEF Answered
<1>4. ASSUME NEW f \in fetches, FetchEnds(f) PROVE NavInv'
  BY <1>4, DocumentFailsStep, DocumentArrivesStep, ZenonT(30) DEF FetchEnds
<1>5. ASSUME NEW s \in Ids, SubmissionExpires(s) PROVE NavInv'
  BY <1>5, SubmissionExpiresStep, ZenonT(30)
<1>6. CASE Starts
  BY <1>6, WorkerStartsStep, RestoreStep, ZenonT(30) DEF Starts
<1>7. CASE Flush
  BY <1>7, FlushStep, ZenonT(30)
<1>8. ASSUME NEW lost, WorkerEnds(lost) PROVE NavInv'
  BY <1>8, WorkerEndsStep, ZenonT(30)
<1> QED BY <1>1, <1>2, <1>3, <1>4, <1>5, <1>6, <1>7, <1>8, ZenonT(30) DEF Next

\* The invariant holds in every state, for any windows, frames, documents and
\* lengths of use.
THEOREM NavInvariance == Spec => []NavInv
<1>1. Init => NavInv
  BY InitInv, ZenonT(30)
<1>2. NavInv /\ [Next]_vars => NavInv'
  BY NextInv, ZenonT(30)
<1> QED BY <1>1, <1>2, PTL DEF Spec

\* A client the worker knows is known under the tab its page shows, however
\* often the worker ends and whether or not its restores succeed; and routes
\* and clients name a tab and an entry of that tab which are there
\* (runtimeTabForMessage, bindClientContext, loadAllStoredJars).
THEOREM ClientsUnderOwnTab == Spec => []OwnTab
<1>1. ASSUME NavInv PROVE OwnTab
  <2>1. TypeOK
    <3>1. ASSUME NEW w \in Windows
          PROVE  Client(w) \in Clients
                 /\ win[w].pc \in {"closed", "launcher", "nav", "frame", "submit", "loading", "fetching", "page", "error"}
      <4>1. win[w].k \in Nat /\ win[w].pc \in Steps
        BY <1>1, WindowType, ZenonT(30) DEF NavInv, Types
      <4> QED BY <4>1, ZenonT(30) DEF Client, Clients, Steps, Pages, Asking
    <3>2. \A f \in fetches : f.tab \in Ids /\ f.entry \in Ids /\ worker = "up"
      BY <1>1, FetchFacts, ZenonT(30)
    <3> QED BY <1>1, <3>1, <3>2, ZenonT(30) DEF TypeOK, NavInv, Types, Ids0
  <2>2. ASSUME NEW w \in Windows, win[w].pc = "page", NEW x \in ContextOf(Client(w)) PROVE x.tab = win[w].tab
    <3>1. x \in mem.clients /\ x.client[1] = w /\ x.client[2] = win[w].k
      BY SMTT(30), Z3T(30) DEF ContextOf, Client
    <3> QED BY <1>1, <2>2, <3>1, ZenonT(30) DEF NavInv, Contexts, ContextOK, Pages
  <2>3. ASSUME NEW m \in {mem, db}
        PROVE  LET routes == {m.routes[r] : r \in {i \in Ids : m.routes[i] # NoRoute}}
               IN \A x \in m.clients \cup routes : m.tabs[x.tab] # NoTab /\ m.entries[x.entry].tab = x.tab
    <3>1. Whole(m)
      BY <1>1, ZenonT(30) DEF NavInv
    <3> QED BY <3>1, SMTT(30), Z3T(30) DEF Whole, Linked
  <2> QED BY <2>1, <2>2, <2>3, ZenonT(30) DEF OwnTab
<1> QED BY <1>1, NavInvariance, PTL

\* A form's body is sent at most once (submittedDocument takes a submission out
\* of pendingSubmissions before it sends it, and its id is never drawn again).
THEOREM FormsSentOnce == Spec => []SubmittedOnce
<1>1. NavInv => SubmittedOnce
  BY ZenonT(30) DEF NavInv, Submissions, SubmittedOnce
<1> QED BY <1>1, NavInvariance, PTL

\* Only a flush changes the store, and what it stores memory has grown from
\* what the store had.
LEMMA StoreStep ==
  ASSUME NavInv, [Next]_vars, ~blind, NEW i \in Ids
  PROVE  /\ db.tabs[i] # NoTab => db'.tabs[i] # NoTab
         /\ db.entries[i] # NoEntry => db'.entries[i].tab = db.entries[i].tab
         /\ db.routes[i] # NoRoute => db'.routes[i].tab = db.routes[i].tab
<1>1. db' = db \/ Flush
  <2>1. ASSUME NEW w \in Windows, User(w) \/ BindClient(w) \/ Answered(w) PROVE db' = db
    BY <2>1, ZenonT(30) DEF User, Reload, PushState, OpenTarget, Announce, BindClient, Answered, OpenShare, HistoryUpdate,
                FrameRoute, SubmitPrepare, ProxyDocument
  <2>2. ASSUME NEW f \in fetches, FetchEnds(f) PROVE db' = db
    BY <2>2, ZenonT(30) DEF FetchEnds, DocumentFails, DocumentArrives
  <2>3. ASSUME NEW s \in Ids, SubmissionExpires(s) PROVE db' = db
    BY <2>3, ZenonT(30) DEF SubmissionExpires
  <2>4. CASE Starts
    BY <2>4, ZenonT(30) DEF Starts, WorkerStarts, Restore
  <2>5. ASSUME NEW lost, WorkerEnds(lost) PROVE db' = db
    BY <2>5, ZenonT(30) DEF WorkerEnds
  <2>6. CASE UNCHANGED vars
    BY <2>6, ZenonT(30) DEF vars
  <2> QED BY <2>1, <2>2, <2>3, <2>4, <2>5, <2>6, ZenonT(30) DEF Next
<1>2. CASE Flush
  <2>1. worker = "up" /\ db' = stored /\ mem \in Mem
    BY <1>2, ZenonT(30) DEF Flush, NavInv, Types
  <2>2. Grows(db, mem)
    BY <2>1, ZenonT(30) DEF NavInv, Seeing
  <2>3. db'.tabs = mem.tabs /\ db'.entries = mem.entries /\ db'.routes[i].tab = mem.routes[i].tab
    BY <2>1, StoredIs, ZenonT(30)
  <2> QED BY <2>2, <2>3, ZenonT(30) DEF Grows
<1> QED BY <1>1, <1>2, ZenonT(30)

\* Unless a restore failed, the store never loses a tab, an entry or a route's
\* tab (flushStateToIDB after loadAllStoredJars).
THEOREM StoreLosesNothing == Spec => StoreKeeps
<1> DEFINE A == ~blind => \A i \in Ids :
                  /\ db.tabs[i] # NoTab => db'.tabs[i] # NoTab
                  /\ db.entries[i] # NoEntry => db'.entries[i].tab = db.entries[i].tab
                  /\ db.routes[i] # NoRoute => db'.routes[i].tab = db.routes[i].tab
<1>1. NavInv /\ [Next]_vars => A
  BY StoreStep, ZenonT(30)
<1>2. Spec => [][A]_vars
  <2> HIDE DEF A
  <2> QED BY <1>1, NavInvariance, PTL DEF Spec
<1>3. StoreKeeps <=> [][A]_vars
  BY ZenonT(30) DEF StoreKeeps
<1> QED BY <1>2, <1>3, PTL

\* A HISTORY_UPDATE that is recognised as a frame's leaves the tabs alone.
LEMMA FrameKeepsTabs ==
  ASSUME mem \in Mem, NEW w, NEW e \in Ids, NEW r \in Ids, NEW t \in Targets, win[w].tab \in Ids,
         mem.tabs[win[w].tab] # NoTab, mem.entries[e].tab \in {0, win[w].tab}, isFrameUpdate(w, e)
  PROVE  historyUpdate(w, e, r, t).tabs = mem.tabs
BY HistoryUpdatePuts, SMTT(30), Z3T(30)

\* A HISTORY_UPDATE of a frame whose client's entry is marked, as it is in the
\* worker's first life, is recognised as a frame's.
LEMMA FrameRecognised ==
  ASSUME NavInv, NEW w \in Frames, NEW e,
         \E x \in ContextOf(Client(w)) : ends = 0 \/ mem.entries[x.entry].frame
  PROVE  isFrameUpdate(w, e)
<1>1. PICK x \in ContextOf(Client(w)) : ends = 0 \/ mem.entries[x.entry].frame
  BY ZenonT(30)
<1>2. ends = 0 => mem.entries[x.entry].frame
  <2>1. x \in mem.clients /\ x.client[1] = w
    <3>1. x \in mem.clients /\ x.client = Client(w)
      BY ZenonT(30) DEF ContextOf
    <3>2. Client(w)[1] = w
      BY ZenonT(30) DEF Client
    <3> QED BY <3>1, <3>2, ZenonT(30)
  <2> QED BY <2>1, ZenonT(30) DEF NavInv, FirstLife, Marked
<1> QED BY <1>1, <1>2, ZenonT(30) DEF isFrameUpdate

\* No action of a frame moves its tab.
LEMMA FrameStep ==
  ASSUME NavInv, [Next]_vars, NEW w \in Frames, NEW t \in Ids, StepOf(w), mem.tabs[t] # NoTab,
         win[w].pc \in {"nav", "page"} =>
           \E x \in ContextOf(Client(w)) : ends = 0 \/ mem.entries[x.entry].frame
  PROVE  mem'.tabs[t] = mem.tabs[t]
<1>1. /\ w \in Windows /\ mem \in Mem /\ win \in [Windows -> Window]
      /\ win'[w] # win[w] /\ win[w].pc \in {"nav", "page", "loading", "fetching"}
      /\ \A v \in Windows : v # w => win'[v] = win[v]
      /\ worker = "up" /\ worker' = "up"
  BY ConstantsAssumption, ZenonT(30) DEF StepOf, NavInv, Types
<1>2. ASSUME NEW v \in Windows, User(v) PROVE mem'.tabs[t] = mem.tabs[t]
  <2>1. CASE PushState(v)
    <3>1. CASE mem' = mem
      BY <3>1, ZenonT(30)
    <3>2. CASE mem' # mem
      <4>1. PICK key \in Ids : key = n + 1 /\ Untouched(key)
        BY <2>1, FreshKey, ZenonT(30) DEF PushState
      <4>2. win[v].pc = "page" /\ runtimeTabForMessage(v) /\ mem.entries[win[v].entry].url # None
            /\ mem' = historyUpdate(v, key, key, mem.entries[win[v].entry].url)
            /\ win' = [win EXCEPT ![v] = [win[v] EXCEPT !.entry = key, !.route = key, !.submit = 0]]
        BY <2>1, <3>2, <4>1, ZenonT(30) DEF PushState
      <4>3. v = w
        <5> DEFINE q == [win[v] EXCEPT !.entry = key, !.route = key, !.submit = 0]
        <5>1. win[v] \in Window
          BY <1>1, ZenonT(30)
        <5>2. q.entry = key
          BY <5>1, ZenonT(30) DEF Window
        <5>3. win'[v] = q
          BY <1>1, <4>2, ZenonT(30)
        <5> HIDE DEF q
        <5> QED BY <1>1, <4>1, <5>2, <5>3, ZenonT(30) DEF Untouched
      <4>4. isFrameUpdate(w, key)
        BY <4>2, <4>3, FrameRecognised, ZenonT(30)
      <4>5. PICK url \in Targets : url = mem.entries[win[w].entry].url
        <5>1. win[w].entry \in Ids
          BY <1>1, <4>2, <4>3, ZenonT(30) DEF NavInv, WindowOK, Pages
        <5> QED BY <1>1, <4>2, <4>3, <5>1, Present, SMTT(30), Z3T(30) DEF NoEntry
      <4>6. win[w].tab \in Ids /\ mem.tabs[win[w].tab] # NoTab /\ mem.entries[key].tab = 0
        <5>1. win[w].tab \in Ids
          BY <1>1, <4>2, <4>3, ZenonT(30) DEF NavInv, WindowOK, Pages
        <5>2. mem.tabs[win[w].tab] # NoTab
          BY <4>2, <4>3, ZenonT(30) DEF runtimeTabForMessage
        <5>3. mem.entries[key].tab = 0
          BY <1>1, <4>1, Present, ZenonT(30) DEF Untouched
        <5> QED BY <5>1, <5>2, <5>3, ZenonT(30)
      <4>7. historyUpdate(w, key, key, url).tabs = mem.tabs
        BY <1>1, <4>4, <4>6, FrameKeepsTabs, ZenonT(30)
      <4> QED BY <4>2, <4>3, <4>5, <4>7, ZenonT(30)
    <3> QED BY <3>1, <3>2, ZenonT(30)
  <2>2. CASE ~PushState(v)
    BY <1>2, <2>2, ZenonT(30) DEF User, Reload, OpenTarget, Announce
  <2> QED BY <2>1, <2>2, ZenonT(30)
<1>3. ASSUME NEW v \in Windows, BindClient(v) PROVE mem'.tabs[t] = mem.tabs[t]
  BY <1>1, <1>3, ZenonT(30) DEF BindClient, bindClientContext, Mem
<1>4. ASSUME NEW v \in Windows, OpenShare(v) PROVE mem'.tabs[t] = mem.tabs[t]
  <2>1. win[v].pc = "launcher" /\ win'[v] = Going(v, win[v].route, 0)
    BY <1>1, <1>4, ZenonT(30) DEF OpenShare
  <2>2. win'[v].pc = "loading"
    <3>1. win[v].route \in Ids0 /\ 0 \in Ids0
      <4>1. 0 \in Ids0
        BY ConstantsAssumption, SMTT(30), Z3T(30) DEF Ids0
      <4> QED BY <1>1, <4>1, WindowType, ZenonT(30)
    <3> QED BY <2>1, <3>1, GoingIs, SMTT(30), Z3T(30)
  <2> QED BY <1>1, <2>1, <2>2, ZenonT(30)
<1>5. ASSUME NEW v \in Windows, HistoryUpdate(v) PROVE mem'.tabs[t] = mem.tabs[t]
  <2>1. win[v].pc = "nav" /\ win[v].pc \in Asking /\ win'[v] = Going(v, win[v].to.route, 0)
    BY <1>1, <1>5, ZenonT(30) DEF HistoryUpdate, Asking
  <2>2. win'[v].pc = "loading"
    <3>1. win[v].to.route \in Ids0 /\ 0 \in Ids0
      <4>1. 0 \in Ids0
        BY ConstantsAssumption, SMTT(30) DEF Ids0
      <4> QED BY <1>1, <4>1, WindowType, ZenonT(30)
    <3> QED BY <2>1, <3>1, GoingIs, SMTT(30), Z3T(30)
  <2>3. v = w
    BY <1>1, <2>1, <2>2, ZenonT(30)
  <2>4. CASE ~runtimeTabForMessage(v)
    BY <1>5, <2>4, ZenonT(30) DEF HistoryUpdate
  <2>5. CASE runtimeTabForMessage(v)
    <3>1. PICK key \in Ids, e \in Ids : key = win[w].to.route /\ e = win[w].to.entry
      BY <1>1, <2>1, <2>3, AskingFacts, ZenonT(30)
    <3>2. mem' = historyUpdate(w, e, key, share[key])
      BY <1>5, <2>3, <2>5, <3>1, ZenonT(30) DEF HistoryUpdate
    <3>3. share[key] \in Targets /\ win[w].tab \in Ids /\ mem.entries[e].tab \in {0, win[w].tab}
      BY <1>1, <2>1, <2>3, <3>1, AskingFacts, ZenonT(30)
    <3>4. isFrameUpdate(w, e)
      BY <2>1, <2>3, FrameRecognised, ZenonT(30)
    <3>5. historyUpdate(w, e, key, share[key]).tabs = mem.tabs
      <4>1. mem.tabs[win[w].tab] # NoTab
        BY <2>3, <2>5, ZenonT(30) DEF runtimeTabForMessage
      <4>2. /\ mem \in Mem /\ win[w].tab \in Ids /\ share[key] \in Targets
            /\ mem.entries[e].tab \in {0, win[w].tab}
        BY <1>1, <3>3, ZenonT(30)
      <4> QED BY <3>4, <4>1, <4>2, FrameKeepsTabs, ZenonT(30)
    <3> QED BY <3>2, <3>5, ZenonT(30)
  <2> QED BY <2>4, <2>5, ZenonT(30)
<1>6. ASSUME NEW v \in Windows, FrameRoute(v) \/ SubmitPrepare(v) PROVE mem'.tabs[t] = mem.tabs[t]
  <2>1. win[v].pc \in {"frame", "submit"} /\ win[v].pc \in Asking
    BY <1>6, ZenonT(30) DEF FrameRoute, SubmitPrepare, Asking
  <2>2. CASE ~runtimeTabForMessage(v)
    BY <1>6, <2>2, ZenonT(30) DEF FrameRoute, SubmitPrepare
  <2>3. CASE runtimeTabForMessage(v)
    <3>1. PICK key \in Ids, d \in Windows, s \in Ids0 : win' = [Stays(v) EXCEPT ![d] = Going(d, key, s)]
      <4>1. win[v].to.route \in Ids /\ win[v].to.dest \in Windows /\ win[v].to.route \in Ids0 /\ 0 \in Ids0
        BY <2>1, AskingFacts, ConstantsAssumption, SMTT(30), Z3T(30) DEF Ids, Ids0
      <4> QED BY <1>6, <2>3, <4>1, ZenonT(90) DEF FrameRoute, SubmitPrepare
    <3>2. Sent(v, d, key)
      BY <3>1, SentFromPage, ZenonT(30)
    <3>3. win'[v].pc \in {"page", "loading"}
      BY <3>2, ZenonT(30) DEF Sent
    <3> QED BY <1>1, <2>1, <3>3, ZenonT(30)
  <2> QED BY <2>2, <2>3, ZenonT(30)
<1>7. ASSUME NEW v \in Windows, ProxyDocument(v) PROVE mem'.tabs[t] = mem.tabs[t]
  <2>1. PICK r \in Ids : r = win[v].route
    BY <1>7, ZenonT(30) DEF ProxyDocument, NavInv, WindowOK
  <2>2. CASE mem.routes[r] = NoRoute
    <3>1. mem' = [mem EXCEPT !.routes[r] = NoRoute]
      BY <1>7, <2>1, <2>2, ZenonT(30) DEF ProxyDocument
    <3> QED BY <1>1, <3>1, ZenonT(30) DEF Mem
  <2>3. CASE mem.routes[r] # NoRoute
    <3> DEFINE s == win[v].submit
               step == IF s = 0 \/ (s = r /\ pending[s] = mem.routes[r].tab) THEN "fetching" ELSE "error"
    <3>1. PICK pc : pc # "loading" /\ win[v].pc = "loading" /\ win' = [win EXCEPT ![v] = [win[v] EXCEPT !.pc = pc]]
      <4>1. mem.tabs[mem.routes[r].tab] # NoTab /\ mem.entries[mem.routes[r].entry] # NoEntry
        BY <2>3, KnownRoute, ZenonT(30)
      <4>2. win[v].pc = "loading" /\ win' = [win EXCEPT ![v] = [win[v] EXCEPT !.pc = step]]
        BY <1>7, <2>1, <2>3, <4>1, ZenonT(30) DEF ProxyDocument
      <4>3. step # "loading"
        BY ZenonT(30)
      <4> HIDE DEF step
      <4> QED BY <4>2, <4>3, ZenonT(30)
    <3>2. win'[v].pc = pc
      BY <1>1, <3>1, ZenonT(30) DEF Window
    <3>3. v = w
      BY <1>1, <3>1, <3>2, ZenonT(30)
    <3> QED BY <1>7, <2>1, <2>3, <3>3, ProxiedMemory, ZenonT(30)
  <2> QED BY <2>2, <2>3, ZenonT(30)
<1>8. ASSUME NEW f \in fetches, FetchEnds(f) PROVE mem'.tabs[t] = mem.tabs[t]
  <2>1. CASE DocumentFails(f)
    BY <2>1, ZenonT(30) DEF DocumentFails
  <2>2. ASSUME NEW u \in Targets, DocumentArrives(f, u) PROVE mem'.tabs[t] = mem.tabs[t]
    <3>1. f.client[1] = w
      BY <1>1, <2>2, ArrivesWindows, FetchFacts, SMTT(30), Z3T(30) DEF Shows
    <3>2. f.frame
      BY <3>1, ZenonT(30) DEF NavInv, FetchesOK, FetchOK
    <3>3. commit(f, u).tabs = mem.tabs
      BY <3>2, CommitPuts, ZenonT(30)
    <3> QED BY <2>2, <3>3, ZenonT(30) DEF DocumentArrives
  <2> QED BY <1>8, <2>1, <2>2, ZenonT(30) DEF FetchEnds
<1>9. ASSUME NEW s \in Ids, SubmissionExpires(s) PROVE mem'.tabs[t] = mem.tabs[t]
  BY <1>9, ZenonT(30) DEF SubmissionExpires
<1>10. CASE Starts \/ Flush \/ UNCHANGED vars
  BY <1>1, <1>10, ZenonT(30) DEF Starts, WorkerStarts, Restore, Flush, vars
<1>11. ASSUME NEW lost, WorkerEnds(lost) PROVE mem'.tabs[t] = mem.tabs[t]
  BY <1>1, <1>11, ZenonT(30) DEF WorkerEnds
<1> QED BY <1>2, <1>3, <1>4, <1>5, <1>6, <1>7, <1>8, <1>9, <1>10, <1>11, ZenonT(30) DEF Next, Answered

\* A frame the worker knows to be one never moves its tab's active entry or top
\* document (isFrameUpdate, proxyDocument, the end of transportFetchHop).
THEOREM FramesKeptInside == Spec => FramesStayInside
<1> DEFINE A == \A w \in Frames, t \in Ids :
                  /\ StepOf(w) /\ mem.tabs[t] # NoTab
                  /\ win[w].pc \in {"nav", "page"} =>
                       \E x \in ContextOf(Client(w)) : ends = 0 \/ mem.entries[x.entry].frame
                  => mem'.tabs[t] = mem.tabs[t]
<1>1. NavInv /\ [Next]_vars => A
  BY FrameStep, ZenonT(30)
<1>2. Spec => [][A]_vars
  <2> HIDE DEF A
  <2> QED BY <1>1, NavInvariance, PTL DEF Spec
<1>3. FramesStayInside <=> [][A]_vars
  BY ZenonT(30) DEF FramesStayInside
<1> QED BY <1>2, <1>3, PTL
=============================================================================

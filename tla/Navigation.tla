----------------------------- MODULE Navigation -----------------------------
(***************************************************************************)
(* Navigation through the service worker: web/sw.js keeps tabs, history     *)
(* entries, share routes and what each client shows in memory, mirrors them *)
(* to IndexedDB after a delay and restores them when the browser starts the *)
(* worker again; the launcher (web/index.html) opens a route the worker     *)
(* does not know; pages (web/membrane) announce where they go before they   *)
(* go there.  A URL is abstracted to a target; a window's k-th navigation   *)
(* is a client of its own.                                                  *)
(***************************************************************************)
EXTENDS Naturals, FiniteSets

CONSTANTS
  Windows, Frames,  \* browsing contexts; those that are frames of a page
  Targets, None,    \* documents; no document
  Addresses,        \* those users and pages go to
  MaxIds,           \* bound of tab ids, entry ids and route keys together
  MaxActs, MaxEnds  \* bounds of what the user does, and of how often the worker ends

ASSUME ConstantsAssumption ==
  /\ Frames \subseteq Windows /\ Addresses \subseteq Targets /\ None \notin Targets
  /\ MaxIds \in Nat /\ MaxActs \in Nat /\ MaxEnds \in Nat

VARIABLES
  mem,      \* tabs, their entries, shareRoutes and clientContext
  pending,  \* pendingSubmissions, by submit id: the tab, 0 for none
  db,       \* the two state records in IndexedDB
  worker,   \* "down", "loading" (cookieJarLoaded is false), "up"
  win,      \* the windows
  fetches,  \* document fetches under way in the worker
  share,    \* what each route key decrypts to
  n, acts, ends,
  posted,   \* history: how often each submission was sent to its target
  blind     \* history: a restore has failed

vars == <<mem, pending, db, worker, win, fetches, share, n, acts, ends, posted, blind>>
browser == <<share, acts, ends, blind>>

Ids == 1..MaxIds
Clients == Windows \X Nat
NoTab == [active |-> 0, top |-> None]
NoEntry == [tab |-> 0, url |-> None, frame |-> FALSE]
NoRoute == [tab |-> 0, entry |-> 0, frame |-> FALSE]
Empty == [tabs |-> [i \in Ids |-> NoTab], entries |-> [i \in Ids |-> NoEntry],
          routes |-> [i \in Ids |-> NoRoute], clients |-> {}]
Nowhere == [entry |-> 0, route |-> 0, dest |-> None]
Closed == [pc |-> "closed", k |-> 0, route |-> 0, submit |-> 0, tab |-> 0, entry |-> 0,
           bound |-> FALSE, to |-> Nowhere]

Client(w) == <<w, win[w].k>>
ContextOf(c) == {x \in mem.clients : x.client = c}
bindClientContext(m, c, t, e) ==
  [m EXCEPT !.clients = {x \in @ : x.client # c} \cup {[client |-> c, tab |-> t, entry |-> e]}]

(* runtimeTabForMessage: the tab is known, and the sender is not known to    *)
(* show another one.                                                        *)
runtimeTabForMessage(w) ==
  /\ mem.tabs[win[w].tab] # NoTab
  /\ \A x \in ContextOf(Client(w)) : x.tab = win[w].tab

(* The window goes to a route: a new client. *)
Going(w, r, s) == [Closed EXCEPT !.pc = "loading", !.k = win[w].k + 1, !.route = r, !.submit = s]
\* The page stays, its message answered.
Stays(w) == [win EXCEPT ![w] = [@ EXCEPT !.pc = "page", !.to = Nowhere]]

-----------------------------------------------------------------------------
(* What users and pages start. *)

Act == acts < MaxActs /\ acts' = acts + 1
Fresh(t) == n < MaxIds /\ n' = n + 1 /\ share' = [share EXCEPT ![n + 1] = t]

(* The launcher, given an address: registerShare asks the worker for a route. *)
OpenTarget(w, t) ==
  /\ Act /\ Fresh(t) /\ w \notin Frames /\ win[w].pc = "closed"
  /\ win' = [win EXCEPT ![w] = [@ EXCEPT !.pc = "launcher", !.route = n + 1]]
  /\ UNCHANGED <<mem, pending, db, worker, fetches, ends, posted, blind>>

(* activatedNavPath, FRAME_ROUTE and submitFormNavigation up to the message  *)
(* that announces the navigation of window d.                               *)
Announce(w, t, kind, d) ==
  /\ Act /\ Fresh(t) /\ win[w].pc = "page"
  /\ CASE kind = "nav" -> d = w
       [] kind = "frame" -> w \notin Frames /\ d \in Frames /\ win[d].pc = "closed"
       [] kind = "submit" -> d = w \/ (w \notin Frames /\ win[d].pc = "page")
  /\ \E e \in {n + 1} \cup {x \in {win[w].entry} : kind = "nav"} :
       win' = [win EXCEPT ![w] = [@ EXCEPT !.pc = kind,
                                           !.to = [entry |-> e, route |-> n + 1, dest |-> d]]]
  /\ UNCHANGED <<mem, pending, db, worker, fetches, ends, posted, blind>>

Reload(w) ==
  /\ Act /\ win[w].pc \in {"page", "error"}
  /\ win' = [win EXCEPT ![w] = Going(w, win[w].route, win[w].submit)]
  /\ UNCHANGED <<mem, pending, db, worker, fetches, share, n, ends, posted, blind>>

-----------------------------------------------------------------------------
(* The worker's handlers. *)

(* OPEN_SHARE: createTab and its first entry, and the route to it. *)
OpenShare(w) ==
  LET id == n + 1
      r == win[w].route
  IN /\ worker = "up" /\ win[w].pc = "launcher" /\ n < MaxIds
     /\ n' = id
     /\ mem' = [mem EXCEPT !.tabs[id] = [active |-> id, top |-> share[r]],
                           !.entries[id] = [tab |-> id, url |-> share[r], frame |-> FALSE],
                           !.routes[r] = [tab |-> id, entry |-> id, frame |-> FALSE]]
     /\ win' = [win EXCEPT ![w] = Going(w, r, 0)]
     /\ UNCHANGED <<pending, db, worker, fetches, posted>> /\ UNCHANGED browser

\* Mutant: only the entry it replaces tells.
isFrameUpdateByEntry(w, e) == mem.entries[e].frame

(* Whether a HISTORY_UPDATE is a frame's: by the entry it replaces, or by    *)
(* the one its sender is known to show.                                     *)
isFrameUpdate(w, e) ==
  mem.entries[e].frame \/ \E x \in ContextOf(Client(w)) : mem.entries[x.entry].frame

historyUpdate(w, e, r, t) ==
  LET tab == win[w].tab
      isFrame == isFrameUpdate(w, e)
  IN [mem EXCEPT !.entries[e] = [tab |-> tab, url |-> t, frame |-> isFrame],
                 !.tabs[tab].active = IF ~isFrame \/ @ = 0 THEN e ELSE @,
                 !.routes[r] = [tab |-> tab, entry |-> e, frame |-> isFrame]]

\* Mutant: a page whose update is refused goes nowhere.
HistoryUpdateWaits(w) ==
  LET to == win[w].to
  IN /\ worker = "up" /\ win[w].pc = "nav" /\ runtimeTabForMessage(w)
     /\ mem' = historyUpdate(w, to.entry, to.route, share[to.route])
     /\ win' = [win EXCEPT ![w] = Going(w, to.route, 0)]
     /\ UNCHANGED <<pending, db, worker, fetches, n, posted>> /\ UNCHANGED browser

(* A page leaves: HISTORY_UPDATE, then location.assign; when it is refused,  *)
(* the page goes to the same share URL unannounced.                         *)
HistoryUpdate(w) ==
  LET to == win[w].to
  IN /\ worker = "up" /\ win[w].pc = "nav"
     /\ mem' = IF runtimeTabForMessage(w)
               THEN historyUpdate(w, to.entry, to.route, share[to.route]) ELSE mem
     /\ win' = [win EXCEPT ![w] = Going(w, to.route, 0)]
     /\ UNCHANGED <<pending, db, worker, fetches, n, posted>> /\ UNCHANGED browser

(* commitVirtualHistory: pushState under the same document, and refreshVisibleShareRoute. *)
PushState(w) ==
  LET id == n + 1
      url == mem.entries[win[w].entry].url
  IN /\ Act /\ worker = "up" /\ win[w].pc = "page" /\ n < MaxIds
     /\ n' = id
     /\ IF runtimeTabForMessage(w) /\ url # None
        THEN /\ mem' = historyUpdate(w, id, id, url) /\ share' = [share EXCEPT ![id] = url]
             /\ win' = [win EXCEPT ![w] = [@ EXCEPT !.entry = id, !.route = id, !.submit = 0]]
        ELSE win' = [win EXCEPT ![w] = [@ EXCEPT !.entry = id]] /\ UNCHANGED <<mem, share>>
     /\ UNCHANGED <<pending, db, worker, fetches, ends, posted, blind>>

\* A route to a new entry of the page's tab.
routed(w, frame) ==
  LET to == win[w].to
      t == win[w].tab
  IN [mem EXCEPT !.entries[to.entry] = [tab |-> t, url |-> share[to.route], frame |-> frame],
                 !.tabs[t].active = IF frame THEN @ ELSE to.entry,
                 !.routes[to.route] = [tab |-> t, entry |-> to.entry, frame |-> frame]]

(* FRAME_ROUTE, then the frame's src. *)
FrameRoute(w) ==
  LET to == win[w].to
  IN /\ worker = "up" /\ win[w].pc = "frame"
     /\ IF runtimeTabForMessage(w)
        THEN /\ mem' = routed(w, TRUE)
             /\ win' = [Stays(w) EXCEPT ![to.dest] = Going(to.dest, to.route, 0)]
        ELSE win' = Stays(w) /\ UNCHANGED mem
     /\ UNCHANGED <<pending, db, worker, fetches, n, posted>> /\ UNCHANGED browser

(* SUBMIT_PREPARE, then the destination goes to the route with zp_submit. *)
SubmitPrepare(w) ==
  LET to == win[w].to
  IN /\ worker = "up" /\ win[w].pc = "submit"
     /\ IF runtimeTabForMessage(w)
        THEN /\ mem' = routed(w, FALSE)
             /\ pending' = [pending EXCEPT ![to.route] = win[w].tab]
             /\ win' = [Stays(w) EXCEPT ![to.dest] = Going(to.dest, to.route, to.route)]
        ELSE win' = Stays(w) /\ UNCHANGED <<mem, pending>>
     /\ UNCHANGED <<db, worker, fetches, n, posted>> /\ UNCHANGED browser

(* BIND_CLIENT, when the page boots; the page tries again while it is refused. *)
BindClient(w) ==
  /\ worker = "up" /\ win[w].pc = "page" /\ ~win[w].bound
  /\ runtimeTabForMessage(w) /\ mem.entries[win[w].entry] # NoEntry
  /\ mem' = bindClientContext(mem, Client(w), win[w].tab, win[w].entry)
  /\ win' = [win EXCEPT ![w] = [@ EXCEPT !.bound = TRUE]]
  /\ UNCHANGED <<pending, db, worker, fetches, n, posted>> /\ UNCHANGED browser

\* Mutant: a submission stays, for a reload to send again.
spentKept(s) == pending
\* submittedDocument takes the submission out before it sends it.
spent(s) == [pending EXCEPT ![s] = 0]

(* proxyDocument and submittedDocument, up to transportFetch. *)
ProxyDocument(w) ==
  LET r == win[w].route
      s == win[w].submit
      route == mem.routes[r]
      entry == mem.entries[route.entry]
      known == route # NoRoute /\ mem.tabs[route.tab] # NoTab /\ entry # NoEntry
      isFrame == route.frame \/ entry.frame \/ w \in Frames
      bound == bindClientContext(
                 [mem EXCEPT !.entries[route.entry].frame = isFrame,
                             !.tabs[route.tab].active =
                                IF ~isFrame \/ @ = 0 THEN route.entry ELSE @],
                 Client(w), route.tab, route.entry)
      accepted == s = 0 \/ (s = r /\ pending[s] = route.tab)
      fetch == [client |-> Client(w), tab |-> route.tab, entry |-> route.entry,
                documentUrl |-> entry.url, frame |-> isFrame]
  IN /\ worker = "up" /\ win[w].pc = "loading"
     /\ mem' = IF known THEN bound ELSE [mem EXCEPT !.routes[r] = NoRoute]
     /\ pending' = IF known /\ s # 0 THEN spent(s) ELSE pending
     /\ fetches' = IF known /\ accepted THEN fetches \cup {fetch} ELSE fetches
     /\ posted' = IF known /\ accepted /\ s # 0 THEN [posted EXCEPT ![s] = @ + 1] ELSE posted
     /\ win' = [win EXCEPT ![w] = [@ EXCEPT !.pc = IF ~known THEN "launcher"
                                                 ELSE IF accepted THEN "fetching" ELSE "error"]]
     /\ UNCHANGED <<db, worker, n>> /\ UNCHANGED browser

Current(f) == win[f.client[1]].k = f.client[2] /\ win[f.client[1]].pc = "fetching"

(* The end of transportFetchHop: the address of the last hop. *)
commit(f, u) ==
  [mem EXCEPT !.entries[f.entry].url = IF @ = f.documentUrl THEN u ELSE @,
              !.tabs[f.tab].top = IF f.frame THEN @ ELSE u]

(* The document arrives, after redirects to u; a window that has gone        *)
(* elsewhere does not see it.                                               *)
DocumentArrives(f, u) ==
  LET w == f.client[1]
  IN /\ f \in fetches
     /\ mem' = commit(f, u) /\ fetches' = fetches \ {f}
     /\ win' = IF Current(f)
               THEN [win EXCEPT ![w] = [@ EXCEPT !.pc = "page", !.tab = f.tab, !.entry = f.entry]]
               ELSE win
     /\ UNCHANGED <<pending, db, worker, n, posted>> /\ UNCHANGED browser

DocumentFails(f) ==
  /\ f \in fetches
  /\ fetches' = fetches \ {f}
  /\ win' = IF Current(f) THEN [win EXCEPT ![f.client[1]] = [@ EXCEPT !.pc = "error"]] ELSE win
  /\ UNCHANGED <<mem, pending, db, worker, n, posted>> /\ UNCHANGED browser

(* cleanupPendingSubmissions: SUBMISSION_TTL_MS has passed. *)
SubmissionExpires(s) ==
  /\ pending[s] # 0
  /\ pending' = [pending EXCEPT ![s] = 0]
  /\ UNCHANGED <<mem, db, worker, win, fetches, n, posted>> /\ UNCHANGED browser

-----------------------------------------------------------------------------
(* The worker's life. *)

\* Mutant: handlers do not wait for the restore.
WorkerStartsUnrestored ==
  /\ worker = "down" /\ worker' = "up"
  /\ UNCHANGED <<mem, pending, db, win, fetches, n, posted>> /\ UNCHANGED browser

WorkerStarts ==
  /\ worker = "down" /\ worker' = "loading"
  /\ UNCHANGED <<mem, pending, db, win, fetches, n, posted>> /\ UNCHANGED browser

(* loadAllStoredJars, which every handler awaits; on an error the worker     *)
(* goes on with nothing.                                                    *)
Restore ==
  /\ worker = "loading" /\ worker' = "up"
  /\ \/ mem' = db /\ UNCHANGED blind
     \/ UNCHANGED mem /\ blind' = TRUE
  /\ UNCHANGED <<pending, db, win, fetches, share, n, acts, ends, posted>>

\* Mutant: the tabs of the last flush with the routes of this one.
storedApart == [mem EXCEPT !.tabs = db.tabs]

(* serializeTabsState and serializeRoutesState; a route takes over that its  *)
(* entry has become a frame's.                                              *)
stored ==
  [mem EXCEPT !.routes = [r \in Ids |->
     LET route == mem.routes[r]
     IN IF route = NoRoute THEN NoRoute
        ELSE [route EXCEPT !.frame = @ \/ mem.entries[route.entry].frame]]]

(* flushStateToIDB, some time after a change: by stateFlushTimer, or, when   *)
(* that flush fails, by the interval.                                       *)
Flush ==
  /\ worker = "up" /\ db # stored
  /\ db' = stored
  /\ UNCHANGED <<mem, pending, worker, win, fetches, n, posted>> /\ UNCHANGED browser

\* What a window makes of the worker's end; lost: its reply will not come.
Deserted(w, lost) ==
  CASE win[w].pc = "fetching" \/ (lost /\ win[w].pc = "launcher") -> [win[w] EXCEPT !.pc = "error"]
    [] lost /\ win[w].pc = "nav" -> Going(w, win[w].to.route, 0)
    [] lost /\ win[w].pc \in {"frame", "submit"} -> [win[w] EXCEPT !.pc = "page", !.to = Nowhere]
    [] OTHER -> win[w]

(* The browser ends the worker: what it was answering fails, and of those    *)
(* that wait for a reply some are told so (lost).                           *)
WorkerEnds(lost) ==
  /\ worker = "up" /\ ends < MaxEnds
  /\ lost \subseteq {w \in Windows : win[w].pc \in {"launcher", "nav", "frame", "submit"}}
  /\ worker' = "down" /\ ends' = ends + 1
  /\ mem' = Empty /\ pending' = [i \in Ids |-> 0] /\ fetches' = {}
  /\ win' = [w \in Windows |-> Deserted(w, w \in lost)]
  /\ UNCHANGED <<db, share, n, acts, posted, blind>>

-----------------------------------------------------------------------------

Init ==
  /\ mem = Empty /\ db = Empty /\ pending = [i \in Ids |-> 0] /\ worker = "up"
  /\ win = [w \in Windows |-> Closed] /\ fetches = {} /\ share = [i \in Ids |-> None]
  /\ n = 0 /\ acts = 0 /\ ends = 0 /\ posted = [i \in Ids |-> 0] /\ blind = FALSE

Answered(w) ==
  OpenShare(w) \/ HistoryUpdate(w) \/ FrameRoute(w) \/ SubmitPrepare(w) \/ ProxyDocument(w)
FetchEnds(f) == DocumentFails(f) \/ \E u \in Targets : DocumentArrives(f, u)
Starts == WorkerStarts \/ Restore
User(w) ==
  \/ Reload(w) \/ PushState(w)
  \/ \E t \in Addresses : OpenTarget(w, t)
  \/ \E t \in Addresses, kind \in {"nav", "frame", "submit"}, d \in Windows : Announce(w, t, kind, d)

Next ==
  \/ \E w \in Windows : User(w) \/ BindClient(w) \/ Answered(w)
  \/ \E f \in fetches : FetchEnds(f)
  \/ \E s \in Ids : SubmissionExpires(s)
  \/ Starts \/ Flush
  \/ \E lost \in SUBSET Windows : WorkerEnds(lost)

(* An event starts the worker and is handled; a fetch ends, by the           *)
(* transport's deadline at the latest; the flush interval runs.             *)
Fairness ==
  /\ WF_vars(Starts) /\ WF_vars(Flush)
  /\ \A w \in Windows :
       /\ WF_vars(Answered(w)) /\ WF_vars(BindClient(w))
       /\ WF_vars(\E f \in fetches : f.client = Client(w) /\ FetchEnds(f))

Spec == Init /\ [][Next]_vars /\ Fairness

-----------------------------------------------------------------------------

TypeOK ==
  /\ worker \in {"down", "loading", "up"} /\ n \in 0..MaxIds
  /\ \A w \in Windows :
       /\ Client(w) \in Clients
       /\ win[w].pc \in {"closed", "launcher", "nav", "frame", "submit", "loading",
                         "fetching", "page", "error"}
  /\ \A f \in fetches : f.tab \in Ids /\ f.entry \in Ids /\ worker = "up"

(* A form's body is sent to its target at most once, whatever is reloaded,   *)
(* expires, is recovered by the launcher or lost with the worker.           *)
SubmittedOnce == \A s \in Ids : posted[s] <= 1

(* Whatever the worker has been through, a client it knows is known under    *)
(* the tab whose page it shows: its subresources and messages are never      *)
(* charged to another tab.  And what memory or the store knows hangs         *)
(* together: a route or a client names a tab and an entry that are there,    *)
(* the entry one of that tab's.                                              *)
OwnTab ==
  /\ TypeOK
  /\ \A w \in Windows :
       win[w].pc = "page" => \A x \in ContextOf(Client(w)) : x.tab = win[w].tab
  /\ \A m \in {mem, db} :
       LET routes == {m.routes[r] : r \in {i \in Ids : m.routes[i] # NoRoute}}
       IN \A x \in m.clients \cup routes :
            m.tabs[x.tab] # NoTab /\ m.entries[x.entry].tab = x.tab

\* A step of window w alone, of a kind that reaches the worker.
StepOf(w) ==
  /\ win[w] # win'[w] /\ win[w].pc \in {"nav", "page", "loading", "fetching"}
  /\ \A v \in Windows \ {w} : win[v] = win'[v]
  /\ worker = "up" /\ worker' = "up"

(* A frame the worker knows to be one never moves its tab: what it does      *)
(* changes neither the active entry nor the top document's origin of the     *)
(* tab.  While a frame loads, its request tells; later the entry of its      *)
(* client does, which is marked as a frame's as long as the worker lives (a  *)
(* worker that ends before the mark is stored forgets it).                   *)
FramesStayInside ==
  [][\A w \in Frames, t \in Ids :
       /\ StepOf(w) /\ mem.tabs[t] # NoTab
       /\ win[w].pc \in {"nav", "page"} =>
            \E x \in ContextOf(Client(w)) : ends = 0 \/ mem.entries[x.entry].frame
       => mem'.tabs[t] = mem.tabs[t]]_vars

(* Unless a restore failed, the store never loses a tab, an entry, or a      *)
(* route's tab.                                                              *)
StoreKeeps ==
  [][~blind => \A i \in Ids :
       /\ db.tabs[i] # NoTab => db'.tabs[i] # NoTab
       /\ db.entries[i] # NoEntry => db'.entries[i].tab = db.entries[i].tab
       /\ db.routes[i] # NoRoute => db'.routes[i].tab = db.routes[i].tab]_vars

(* Every navigation ends at a document or an error page, however the worker  *)
(* ends under it; and what the worker holds gets stored.                     *)
Reached ==
  /\ \A w \in Windows :
       win[w].pc \in {"launcher", "nav", "submit", "loading", "fetching"}
         ~> win[w].pc \in {"page", "error"}
  /\ (db # stored) ~> (db = stored)

=============================================================================

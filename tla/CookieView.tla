------------------------------ MODULE CookieView ------------------------------
(***************************************************************************)
(* A jar and the copies of it that documents keep: document.cookie writes  *)
(* with their write ids, acknowledgements, pushed changes, the cookies a   *)
(* response brings along, and the requests that must carry what the page   *)
(* wrote (web/membrane/11-cookies.js, 08-http.js; web/sw.js applyCookie-   *)
(* Write, queueCookiePush, flushCookiePush, handleSyncFetchJob).           *)
(*                                                                         *)
(* Messages of one document to the worker arrive in order, and so do the   *)
(* worker's pushes to it; acknowledgements (a port each), pushes and       *)
(* responses are not ordered among each other.  One cookie stands for all: *)
(* cookies do not interact.  Its value is the number of the write that set *)
(* it; an erasure is one more value.  The sets of 256 write ids and 512    *)
(* change ids forget nothing up to MaxWrites, which is at most 256.        *)
(***************************************************************************)
EXTENDS Naturals, Sequences, Functions

CONSTANTS
    Pages,      \* documents of the jar's site
    Present,    \* those that exist from the start
    Requesters, \* those that make requests
    MaxWrites,  \* bound on writes
    MaxCarried, \* MAX_CARRIED_COOKIE_WRITES
    Target      \* author of the writes in Set-Cookie headers

VARIABLES
    writes,     \* writes made so far
    author,     \* who made each
    log,        \* the jar: its writes in the order they were applied
    seen,       \* cookieWriteIds
    batches,    \* flushCookiePush calls that await clients.matchAll
    page,       \* "none", "loading", "ready"
    view,       \* documentCookieRecords of each page
    applied,    \* appliedCookieChanges
    outbox,     \* COOKIE_SET messages on their way to the worker
    acks,       \* replies on their way back
    inFlight,   \* cookieWritesInFlight, oldest first
    pushed,     \* COOKIE_CHANGE messages on their way to the page
    req,        \* the request of each page
    missed      \* history: changes posted while the page could not be told

worker == <<log, seen, batches>>
local == <<page, view, applied, inFlight>>
wires == <<outbox, acks, pushed>>
vars == <<writes, author, worker, local, wires, req, missed>>

Ids == 1..MaxWrites
Idle == [st |-> "idle", sync |-> FALSE, wait |-> {}, carried |-> <<>>,
         must |-> {}, delta |-> <<>>]

\* The elements of s that are not in S, in order.
without(s, S) ==
    LET kept[i \in 0..Len(s)] ==
            IF i = 0 THEN <<>>
            ELSE IF s[i] \in S THEN kept[i - 1] ELSE Append(kept[i - 1], s[i])
    IN  kept[Len(s)]
last(s) == s[Len(s)]

\* ownCookieWrites
Own(p) == {w \in 1..writes : author[w] = p}

TypeOK ==
    /\ writes \in 0..MaxWrites /\ author \in [Ids -> Pages \cup {Target}]
    /\ log \in Seq(1..writes) /\ seen \in SUBSET Ids
    /\ page \in [Pages -> {"none", "loading", "ready"}]
    /\ view \in [Pages -> 0..MaxWrites]
    /\ \A p \in Pages :
          /\ applied[p] \in SUBSET Ids /\ acks[p] \subseteq Own(p)
          /\ Range(outbox[p]) \subseteq Own(p) /\ Range(inFlight[p]) \subseteq Own(p)
          /\ req[p].st \in {"idle", "waiting", "sent", "fetching", "answered"}

Init ==
    /\ writes = 0 /\ author = [w \in Ids |-> Target]
    /\ log = <<>> /\ seen = {} /\ batches = <<>>
    /\ page = [p \in Pages |-> IF p \in Present THEN "ready" ELSE "none"]
    /\ view = [p \in Pages |-> 0]
    /\ applied = [p \in Pages |-> {}] /\ missed = [p \in Pages |-> {}]
    /\ outbox = [p \in Pages |-> <<>>] /\ acks = [p \in Pages |-> {}]
    /\ inFlight = [p \in Pages |-> <<>>] /\ pushed = [p \in Pages |-> <<>>]
    /\ req = [p \in Pages |-> Idle]

-----------------------------------------------------------------------------
(* The worker.                                                             *)

\* Mutant of fresh: write ids are not compared.
FreshAlways(ws) == ws

\* Writes not yet seen, in the order given: applyCookieWrite's early return.
fresh(ws) == without(ws, seen)

\* applyCookieWrite, setCookieLine and queueCookiePush for the writes ws of
\* one task, sent by the client source (Target when it is not known).
applyCookieWrites(ws, source) ==
    /\ log' = log \o fresh(ws)
    /\ seen' = seen \cup Range(ws)
    /\ batches' = IF fresh(ws) = <<>> THEN batches
                  ELSE Append(batches, [changes |-> fresh(ws), source |-> source])

\* COOKIE_SET in handleMessage.
ReceiveCookieSet(p) ==
    /\ outbox[p] # <<>>
    /\ applyCookieWrites(<<Head(outbox[p])>>, p)
    /\ outbox' = [outbox EXCEPT ![p] = Tail(@)]
    /\ acks' = [acks EXCEPT ![p] = @ \cup {Head(outbox[p])}]
    /\ UNCHANGED <<writes, author, local, pushed, req, missed>>

\* A response of the target sets the cookie: setCookieLine without a write id.
setCookieLine(w) ==
    /\ writes < MaxWrites /\ w = writes + 1
    /\ writes' = w
    /\ log' = Append(log, w)
    /\ batches' = Append(batches, [changes |-> <<w>>, source |-> Target])
    /\ UNCHANGED <<author, seen>>

\* A request that is not the runtime's (an image, a script, another site's).
OtherResponse ==
    /\ setCookieLine(writes + 1)
    /\ UNCHANGED <<local, wires, req, missed>>

\* Mutant of flushCookiePush: a page with a request under way is left to the
\* changes its response will bring.
FlushSkipsRequesters ==
    /\ batches # <<>>
    /\ LET b == Head(batches)
           told == {p \in Pages : page[p] = "ready" /\ p # b.source /\ req[p].st = "idle"}
       IN  /\ pushed' = [p \in Pages |->
                            IF p \in told THEN Append(pushed[p], b.changes) ELSE pushed[p]]
           /\ missed' = [p \in Pages |->
                            IF page[p] = "loading" THEN missed[p] \cup Range(b.changes)
                            ELSE missed[p]]
    /\ batches' = Tail(batches)
    /\ UNCHANGED <<writes, author, log, seen, local, outbox, acks, req>>

\* flushCookiePush after clients.matchAll: windows that exist get the changes
\* they did not make.  A document that still loads is not among them.
flushCookiePush ==
    /\ batches # <<>>
    /\ LET b == Head(batches)
           told == {p \in Pages : page[p] = "ready" /\ p # b.source}
       IN  /\ pushed' = [p \in Pages |->
                            IF p \in told THEN Append(pushed[p], b.changes) ELSE pushed[p]]
           /\ missed' = [p \in Pages |->
                            IF page[p] = "loading" THEN missed[p] \cup Range(b.changes)
                            ELSE missed[p]]
    /\ batches' = Tail(batches)
    /\ UNCHANGED <<writes, author, log, seen, local, outbox, acks, req>>

\* A document is generated with documentCookieFor as its first copy.
Load(p) ==
    /\ page[p] = "none"
    /\ page' = [page EXCEPT ![p] = "loading"]
    /\ view' = [view EXCEPT ![p] = IF log = <<>> THEN 0 ELSE last(log)]
    /\ missed' = [missed EXCEPT ![p] = Range(log)]
    /\ UNCHANGED <<writes, author, worker, applied, inFlight, wires, req>>

\* Its window becomes a client that matchAll returns.
Ready(p) ==
    /\ page[p] = "loading"
    /\ page' = [page EXCEPT ![p] = "ready"]
    /\ UNCHANGED <<writes, author, worker, view, applied, inFlight, wires, req, missed>>

-----------------------------------------------------------------------------
(* A document.  A synchronous request stops its event loop.                *)

Blocked(p) == req[p].sync /\ req[p].st # "idle"
Runs(p) == page[p] = "ready" /\ ~Blocked(p)

\* document.cookie = line: setDocumentCookie and sendCookieSet.
WriteCookie(p) ==
    /\ Runs(p) /\ writes < MaxWrites
    /\ writes' = writes + 1
    /\ author' = [author EXCEPT ![writes'] = p]
    /\ view' = [view EXCEPT ![p] = writes']
    /\ outbox' = [outbox EXCEPT ![p] = Append(@, writes')]
    /\ inFlight' = [inFlight EXCEPT ![p] = Append(@, writes')]
    /\ UNCHANGED <<worker, page, applied, acks, pushed, req, missed>>

\* The reply to COOKIE_SET settles the write.
Acknowledged(p) ==
    /\ Runs(p)
    /\ \E w \in acks[p] :
          /\ acks' = [acks EXCEPT ![p] = @ \ {w}]
          /\ inFlight' = [inFlight EXCEPT ![p] = without(@, {w})]
    /\ UNCHANGED <<writes, author, worker, page, view, applied, outbox, pushed, req, missed>>

\* Mutant of news: a document's own writes are taken from a push, too.
NewsOfAll(p, cs) == without(cs, applied[p])

\* Changes a document takes: neither its own writes nor those it had already.
news(p, cs) == without(cs, Own(p) \cup applied[p])

\* applyCookieChanges and storeCookieRecord.
applyCookieChanges(p, cs) ==
    /\ applied' = [applied EXCEPT ![p] = @ \cup Range(news(p, cs))]
    /\ view' = [view EXCEPT ![p] = IF news(p, cs) = <<>> THEN @ ELSE last(news(p, cs))]

\* onBridgeMessage
ReceiveCookieChange(p) ==
    /\ Runs(p) /\ pushed[p] # <<>>
    /\ applyCookieChanges(p, Head(pushed[p]))
    /\ pushed' = [pushed EXCEPT ![p] = Tail(@)]
    /\ UNCHANGED <<writes, author, worker, page, inFlight, outbox, acks, req, missed>>

-----------------------------------------------------------------------------
(* Requests of the document.                                               *)

\* fetch or asynchronous XHR: postRuntimeEnvelope awaits cookieWritesSettled.
Fetch(p) ==
    /\ Runs(p) /\ p \in Requesters /\ req[p].st = "idle"
    /\ req' = [req EXCEPT ![p] = [Idle EXCEPT !.st = "waiting", !.must = Own(p),
                                              !.wait = Range(inFlight[p])]]
    /\ UNCHANGED <<writes, author, worker, local, wires, missed>>

\* All of them have settled.
FetchSent(p) ==
    /\ Runs(p) /\ req[p].st = "waiting"
    /\ req[p].wait \cap Range(inFlight[p]) = {}
    /\ req' = [req EXCEPT ![p].st = "sent", ![p].wait = {}]
    /\ UNCHANGED <<writes, author, worker, local, wires, missed>>

\* pendingCookieWrites: the latest MaxCarried of the writes in flight.
pendingCookieWrites(p) ==
    LET n == Len(inFlight[p])
    IN  SubSeq(inFlight[p], IF n > MaxCarried THEN n - MaxCarried + 1 ELSE 1, n)

\* sendSyncThroughRelay up to the worker.
SyncXHR(p) ==
    /\ Runs(p) /\ p \in Requesters /\ req[p].st = "idle"
    /\ LET ws == pendingCookieWrites(p)
       IN  req' = [req EXCEPT ![p] =
                      [Idle EXCEPT !.st = "sent", !.sync = TRUE, !.carried = ws,
                                   !.must = Own(p) \ (Range(inFlight[p]) \ Range(ws))]]
    /\ UNCHANGED <<writes, author, worker, local, wires, missed>>

\* The worker takes the request up: handleSyncFetchJob applies the writes the
\* request carries; then transportFetchHop reads the jar for its Cookie header.
TakeUp(p) ==
    /\ req[p].st = "sent"
    /\ applyCookieWrites(req[p].carried, Target)
    /\ req' = [req EXCEPT ![p].st = "fetching", ![p].carried = <<>>]
    /\ UNCHANGED <<writes, author, local, wires, missed>>

\* The response, with or without a Set-Cookie, which noteForPage adds to it.
Respond(p) ==
    /\ req[p].st = "fetching"
    /\ \/ /\ req' = [req EXCEPT ![p].st = "answered", ![p].must = {}]
          /\ UNCHANGED <<writes, author, worker>>
       \/ /\ setCookieLine(writes + 1)
          /\ req' = [req EXCEPT ![p].st = "answered", ![p].must = {},
                                ![p].delta = <<writes'>>]
    /\ UNCHANGED <<local, wires, missed>>

\* The page gets it: the changes are applied before fetch or send returns.
Answered(p) ==
    /\ req[p].st = "answered" /\ page[p] = "ready"
    /\ applyCookieChanges(p, req[p].delta)
    /\ req' = [req EXCEPT ![p] = Idle]
    /\ UNCHANGED <<writes, author, worker, page, inFlight, wires, missed>>

Next ==
    \/ OtherResponse \/ flushCookiePush
    \/ \E p \in Pages :
          \/ ReceiveCookieSet(p) \/ Load(p) \/ Ready(p) \/ WriteCookie(p)
          \/ Acknowledged(p) \/ ReceiveCookieChange(p)
          \/ Fetch(p) \/ FetchSent(p) \/ SyncXHR(p) \/ TakeUp(p) \/ Respond(p) \/ Answered(p)

Spec == Init /\ [][Next]_vars

-----------------------------------------------------------------------------
(* Properties.                                                             *)

\* docs/errata.md:96: a fetch waits for the acknowledgement of the page's
\* cookie writes and a synchronous XHR carries them, so the Cookie header of a
\* request reflects every write the page made before it.
\* And a write that reaches the worker twice, in a COOKIE_SET message and with
\* a synchronous XHR, is applied once (applyCookieWrite, sw.js:3037): applied
\* again it would undo what came between.
RequestSeesWrites ==
    /\ TypeOK /\ IsInjective(log)
    /\ \A p \in Pages : req[p].st = "fetching" => req[p].must \subseteq Range(log)

\* When nothing is under way, every document knows every change of the jar made
\* since it was generated, its own or pushed, save those that were posted before
\* its window existed (flushCookiePush, sw.js:2831).
NoChangeMissed ==
    /\ batches = <<>>
    /\ \A p \in Pages : outbox[p] = <<>> /\ pushed[p] = <<>>
    => \A p \in Pages : page[p] = "ready"
          => Range(log) \subseteq Own(p) \cup applied[p] \cup missed[p]

\* A document's own write does not come back to it over a newer one: a push
\* with the id of an own write is ignored (ownCookieWrites, 11-cookies.js:96).
OwnWriteStands ==
    [][\A p \in Pages :
          view'[p] # view[p] /\ page[p] = "ready" /\ view'[p] \in Own(p)' => writes' > writes]_vars
=============================================================================

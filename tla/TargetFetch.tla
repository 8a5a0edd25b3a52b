----------------------------- MODULE TargetFetch -----------------------------
(***************************************************************************)
(* Requests the service worker sends to targets (web/sw.js): transportFetch *)
(* and transportFetchHop follow redirects by calling themselves, run CORS   *)
(* preflights against a cache all requests share, filter what the page may  *)
(* read, and reissue a navigation once when its response asks for client    *)
(* hints.  The browser sees every proxied response as same-origin, so this  *)
(* code is the only enforcement of CORS.  A URL is abstracted to its        *)
(* origin; the page's document lives at Doc.  Several requests of one tab   *)
(* are under way at once; the network answers anything.  The hosts the      *)
(* worker answers itself (its lists of stubs) are not among Origins.         *)
(***************************************************************************)
EXTENDS Naturals, Sequences, FiniteSets

CONSTANTS
  Reqs,            \* the requests
  Inputs,          \* what transportFetch may be called with, for each of them
  Origins, Doc,    \* target origins, and the page's own
  Methods,         \* HTTP methods
  MAX_REDIRECTS,   \* 20 in the code
  CACHE_CAP,       \* CORS_PREFLIGHT_CACHE_CAP
  Ages,            \* access-control-max-age values
  MaxTime          \* bound of the clock

VARIABLES
  f,          \* each request: its opt record, where it stands, what it became
  preflights, \* corsPreflightCache, in insertion order
  hints,      \* clientHintPrefs: origins that asked for the high-entropy hint
  now

vars == <<f, preflights, hints, now>>

Unsafe == {"auth", "x-own"}         \* header names that are not safelisted
Outcomes == {"basic", "cors", "opaque", "opaqueredirect", "error", "page"}

Idle == [pc |-> "idle"]
NoWire == [asked |-> TRUE, kept |-> TRUE]

\* The calls: a navigation has no mode.
Calls ==
  [kind: {"document", "element", "runtime"}, mode: {"", "cors", "no-cors", "same-origin"},
   credentials: {"omit", "same-origin", "include"}, redirect: {"follow", "manual", "error"},
   method: Methods, names: SUBSET Unsafe, url: Origins]

ASSUME ConstantsAssumption ==
  /\ Inputs \in [Reqs -> SUBSET Calls]
  /\ {"GET", "HEAD", "POST", "PUT"} \subseteq Methods /\ "*" \notin Methods
  /\ Doc \in Origins /\ Ages \subseteq Nat
  /\ MAX_REDIRECTS \in Nat /\ CACHE_CAP \in Nat \ {0} /\ MaxTime \in Nat

(***************************************************************************)
(* The rules of the Fetch standard the worker reimplements.                 *)
(***************************************************************************)

corsRequest(q) == q.kind \in {"runtime", "element"} /\ q.mode = "cors"
corsOrigin(q) == IF q.originTainted THEN "null" ELSE Doc
corsCredentials(q) == q.credentials = "include"
corsSafelistedMethod(m) == m \in {"GET", "HEAD", "POST"}
nonSimple(q) == ~corsSafelistedMethod(q.method) \/ q.names # {}

\* Mutant: credentials need no consent of their own.
corsCheckNoCredentials(a, origin, credentials) ==
  a.allow # "none" /\ (a.allow = "*" \/ a.allow = origin)

corsCheck(a, origin, credentials) ==
  /\ a.allow # "none"
  /\ \/ ~credentials /\ a.allow = "*"
     \/ a.allow = origin /\ (credentials => a.withCredentials)

corsPreflightAllows(entry, method, names, credentials) ==
  LET wildcard(list) == ~credentials /\ "*" \in list
  IN /\ corsSafelistedMethod(method) \/ wildcard(entry.methods) \/ method \in entry.methods
     /\ \A n \in names : n \in entry.headers \/ wildcard(entry.headers)

redirectMethod(status, method) ==
  IF \/ status = "302" /\ method = "POST"
     \/ status = "303" /\ method \notin {"GET", "HEAD"}
  THEN "GET" ELSE method

Tainted(q) == q.tainted \/ (corsRequest(q) /\ q.url # Doc)
NeedsCheck(q) == corsRequest(q) /\ q.tainted
NeedsPreflight(q) == NeedsCheck(q) /\ q.kind # "element" /\ nonSimple(q)

(***************************************************************************)
(* The preflight cache: a Map, so replacing an entry keeps its place, and   *)
(* a full cache drops its oldest entry whether or not the key is new.       *)
(***************************************************************************)

preflightKey(q) ==
  [origin |-> corsOrigin(q), url |-> q.url, credentials |-> corsCredentials(q)]
cachedAt(k) == {i \in DOMAIN preflights : preflights[i].key = k}

\* An entry covers the request.
covers(entry, q) ==
  /\ entry.expires > now
  /\ corsPreflightAllows(entry, q.method, q.names, corsCredentials(q))

Cached(q) == \E i \in cachedAt(preflightKey(q)) : covers(preflights[i], q)

CacheAfter(entry) ==
  LET kept == IF Len(preflights) >= CACHE_CAP THEN Tail(preflights) ELSE preflights
      at == {i \in DOMAIN kept : kept[i].key = entry.key}
  IN IF at = {} THEN Append(kept, entry) ELSE [kept EXCEPT ![CHOOSE i \in at : TRUE] = entry]

(***************************************************************************)
(* Steps.                                                                   *)
(***************************************************************************)

Ended(q, out, clean) ==
  [pc |-> "done", kind |-> q.kind, mode |-> q.mode, out |-> out, clean |-> clean]
Settle(r, out) == f' = [f EXCEPT ![r] = Ended(f[r], out, f[r].clean)]
Refused(q) == IF q.kind = "runtime" THEN "error" ELSE "page"

(* transportFetch: freeze the initiator's context and start the first hop. *)
Start(r, in) ==
  /\ f[r] = Idle
  /\ f' = [f EXCEPT ![r] =
             [kind |-> in.kind, mode |-> in.mode, credentials |-> in.credentials,
              redirect |-> in.redirect, method |-> in.method, names |-> in.names, url |-> in.url,
              pc |-> "hop", body |-> in.method \notin {"GET", "HEAD"},
              tainted |-> FALSE, originTainted |-> FALSE, depth |-> 0,
              criticalRestart |-> FALSE, began |-> 0, hint |-> FALSE,
              firstMethod |-> in.method, strayed |-> FALSE, clean |-> TRUE, wire |-> NoWire]]
  /\ UNCHANGED <<preflights, hints, now>>

(* transportFetch returns early: the address or the body is refused. *)
StartRefused(r, in) ==
  /\ f[r] = Idle
  /\ \E out \in {"page"} \cup {o \in {"error"} : in.method \notin {"GET", "HEAD"}} :
       f' = [f EXCEPT ![r] = Ended(in, out, TRUE)]
  /\ UNCHANGED <<preflights, hints, now>>

(* From the end of the preflight to kernelFetch.  As history, q.wire records *)
(* whether what servers granted (facts) and where the request has been      *)
(* permit it.                                                               *)
Send(r, q, facts) ==
  LET grants(list, x) == x \in list \/ "*" \in list
      asked == \E g \in facts :
                 /\ g.key = preflightKey(q) /\ g.expires > now
                 /\ corsSafelistedMethod(q.method) \/ grants(g.granted.methods, q.method)
                 /\ \A n \in q.names : grants(g.granted.headers, n)
      wire == [asked |-> NeedsPreflight(q) => asked,
               kept |-> /\ "auth" \in q.names => ~q.strayed
                        /\ q.body => q.method = q.firstMethod]
  IN f' = [f EXCEPT ![r] = [q EXCEPT !.pc = "sent", !.wire = wire,
                                     !.hint = q.kind = "document" /\ q.url \in hints]]

(* The start of transportFetchHop. *)
Hop(r) ==
  LET q == [f[r] EXCEPT !.tainted = Tainted(f[r])]
  IN /\ f[r].pc = "hop"
     /\ IF q.mode = "same-origin" /\ q.url # Doc THEN Settle(r, "error")
        ELSE IF NeedsPreflight(q) /\ ~Cached(q)
             THEN f' = [f EXCEPT ![r] = [q EXCEPT !.pc = "preflight", !.began = now]]
             ELSE Send(r, q, {preflights[i] : i \in DOMAIN preflights})
     /\ UNCHANGED <<preflights, hints, now>>

(* initKernel fails. *)
NoKernel(r) ==
  /\ f[r].pc = "hop" /\ ~(f[r].mode = "same-origin" /\ f[r].url # Doc)
  /\ Settle(r, "page")
  /\ UNCHANGED <<preflights, hints, now>>

(* runCORSPreflight, from the answer to its OPTIONS request. *)
PreflightAnswer(r, a) ==
  LET q == f[r]
      own(list) == IF corsCredentials(q) THEN list \ {"*"} ELSE list
      entry == [key |-> preflightKey(q), methods |-> a.methods, headers |-> a.headers,
                expires |-> q.began + a.age,
                granted |-> [methods |-> own(a.methods), headers |-> own(a.headers)]]
      allowed == /\ a.ok /\ corsCheck(a, corsOrigin(q), corsCredentials(q))
                 /\ corsPreflightAllows(entry, q.method, q.names, corsCredentials(q))
  IN /\ q.pc = "preflight"
     /\ IF allowed
        THEN /\ Send(r, q, {[entry EXCEPT !.expires = now + 1]})
             /\ preflights' = IF a.age > 0 THEN CacheAfter(entry) ELSE preflights
        ELSE Settle(r, "error") /\ UNCHANGED preflights
     /\ UNCHANGED <<hints, now>>

(* kernelFetch rejects, or withTransportDeadline fires. *)
TransportFails(r) ==
  /\ f[r].pc \in {"sent", "preflight"}
  /\ Settle(r, IF f[r].pc = "preflight" THEN "error" ELSE Refused(f[r]))
  /\ UNCHANGED <<preflights, hints, now>>

(* Accept-CH and Critical-CH of a top-level navigation's response. *)
HintsAfter(q, a) ==
  IF q.kind # "document" \/ a.acceptCH = "absent" THEN hints
  ELSE IF a.acceptCH = "hint" THEN hints \cup {q.url} ELSE hints \ {q.url}

\* Mutant: nothing remembers that the navigation was reissued.
RestartAlways(q, a) == q.kind = "document" /\ a.criticalCH /\ a.status = "200"

Restart(q, a) ==
  /\ q.kind = "document" /\ a.status = "200" /\ a.criticalCH /\ ~q.criticalRestart
  /\ q.url \in HintsAfter(q, a) /\ ~q.hint

(* The next hop of a redirect. *)
\* Mutant: Authorization and the body go wherever the redirect points.
NextHopKeepsAuth(q, a) ==
  [q EXCEPT !.pc = "hop", !.url = a.to, !.method = redirectMethod(a.status, q.method),
            !.depth = @ + 1, !.strayed = @ \/ a.to # q.url]

NextHop(q, a) ==
  LET method == redirectMethod(a.status, q.method)
  IN [q EXCEPT !.pc = "hop", !.url = a.to, !.method = method,
               !.body = q.body /\ method = q.method,
               !.names = IF a.to # q.url THEN @ \ {"auth"} ELSE @,
               !.depth = @ + 1,
               !.originTainted = @ \/ (corsRequest(q) /\ a.to # q.url /\ q.url # Doc),
               !.strayed = @ \/ a.to # q.url]

Type(q) ==
  IF q.kind = "document" THEN "page"
  ELSE IF q.mode = "no-cors" /\ q.url # Doc THEN "opaque"
  ELSE IF corsRequest(q) /\ q.tainted THEN "cors" ELSE "basic"

(* History: the server of this hop lets the page read what it answers. *)
Allows(q, a) ==
  q.tainted => /\ a.allow = corsOrigin(q) \/ (a.allow = "*" /\ ~corsCredentials(q))
               /\ corsCredentials(q) => a.withCredentials

(* What transportFetchHop makes of the kernel's answer; "follow" a redirect. *)
Verdict(q, a) ==
  IF NeedsCheck(q) /\ ~corsCheck(a, corsOrigin(q), corsCredentials(q)) THEN "error"
  ELSE IF a.status = "200" THEN Type(q)
  ELSE IF q.redirect = "error" THEN "error"
  ELSE IF q.redirect = "manual" THEN "opaqueredirect"
  ELSE IF q.depth >= MAX_REDIRECTS THEN Refused(q)
  ELSE IF \/ a.location = "malformed"
          \/ corsRequest(q) /\ a.to # Doc /\ a.location = "userinfo" THEN "error"
  ELSE "follow"

Answer(r, a) ==
  LET q == [f[r] EXCEPT !.clean = @ /\ Allows(f[r], a)]
      out == Verdict(q, a)
  IN /\ q.pc = "sent"
     /\ hints' = HintsAfter(q, a)
     /\ f' = [f EXCEPT ![r] =
                IF Restart(q, a) THEN [q EXCEPT !.pc = "hop", !.criticalRestart = TRUE]
                ELSE IF out = "follow" THEN NextHop(q, a) ELSE Ended(q, out, q.clean)]
     /\ UNCHANGED <<preflights, now>>

Tick == now < MaxTime /\ now' = now + 1 /\ UNCHANGED <<f, preflights, hints>>

Init ==
  /\ f = [r \in Reqs |-> Idle]
  /\ preflights = <<>> /\ hints = {} /\ now = 0

(* What the network may answer, by what the code looks at. *)
Redirects == {"302", "303", "307"}
Grants ==
  [allow: {Doc}, withCredentials: BOOLEAN] \cup [allow: {"none"}, withCredentials: {FALSE}]
    \cup [allow: {"*", "null"}, withCredentials: {TRUE}]
Plain == [status |-> "200", to |-> Doc, location |-> "plain", allow |-> "none",
          withCredentials |-> FALSE, acceptCH |-> "absent", criticalCH |-> FALSE]
MovedTo(s, o, l) == [Plain EXCEPT !.status = s, !.to = o, !.location = l]
Moves ==
  {MovedTo(s, o, "plain") : s \in Redirects, o \in Origins}
    \cup {MovedTo("302", o, l) : o \in Origins, l \in {"userinfo", "malformed"}}
Hinting(a, h, c) == [a EXCEPT !.acceptCH = h, !.criticalCH = c]
DocumentAnswers ==
  {Hinting(a, h, c) : a \in Moves \cup {Plain}, h \in {"absent", "none", "hint"}, c \in BOOLEAN}
Granting(a, g) == [a EXCEPT !.allow = g.allow, !.withCredentials = g.withCredentials]
PageAnswers == {Granting(a, g) : g \in Grants, a \in Moves \cup {Plain}}
AnswersTo(q) == IF q.kind = "document" THEN DocumentAnswers ELSE PageAnswers
PreflightRefusal == [ok |-> FALSE, allow |-> "none", withCredentials |-> FALSE,
                     methods |-> {}, headers |-> {}, age |-> 0]
PreflightAnswers ==
  {PreflightRefusal} \cup
  {[ok |-> TRUE, allow |-> g.allow, withCredentials |-> g.withCredentials,
    methods |-> l[1], headers |-> l[2], age |-> t] :
      g \in Grants, t \in Ages, l \in {<<{}, {}>>, <<{"PUT"}, Unsafe>>, <<{"*"}, {"*"}>>}}

Kernel(r) ==
  \/ f[r].pc = "sent" /\ \E a \in AnswersTo(f[r]) : Answer(r, a)
  \/ f[r].pc = "preflight" /\ \E a \in PreflightAnswers : PreflightAnswer(r, a)
  \/ TransportFails(r)

Next ==
  \/ \E r \in Reqs : \E in \in Inputs[r] :
       Start(r, in) \/ StartRefused(r, in)
  \/ \E r \in Reqs : Hop(r) \/ NoKernel(r) \/ Kernel(r)
  \/ Tick

(* The worker runs its tasks, and withTransportDeadline ends what the kernel *)
(* does not answer.                                                         *)
Fairness == \A r \in Reqs : WF_vars(Hop(r)) /\ WF_vars(Kernel(r))

Spec == Init /\ [][Next]_vars /\ Fairness

-----------------------------------------------------------------------------

TypeOK ==
  /\ \A r \in Reqs : f[r].pc \in {"idle", "hop", "preflight", "sent", "done"}
  /\ \A r \in Reqs : f[r].pc = "done" => f[r].out \in Outcomes
  /\ \A r \in Reqs : f[r].pc \notin {"idle", "done"} =>
       f[r].depth \in 0..MAX_REDIRECTS /\ f[r].url \in Origins
  /\ Len(preflights) <= CACHE_CAP /\ hints \subseteq Origins /\ now \in 0..MaxTime

(* What leaves for a target was permitted.  A page's request with a method   *)
(* or a header that is not safelisted goes to another origin (or on from one) *)
(* only when that address has granted it to this very Origin, in a preflight *)
(* of this hop or in one that is not out of date.  Authorization never        *)
(* reaches an origin other than the one it was set for, through any chain of  *)
(* redirects, and a body goes only with the method it was made for.           *)
RequestsPermitted ==
  TypeOK /\ \A r \in Reqs : f[r].pc = "sent" => f[r].wire.asked /\ f[r].wire.kept

(* A page reads the response of a CORS request only when every server that   *)
(* answered for another origin's request, the redirecting ones included,     *)
(* allowed the Origin it was sent, with credentials when they were included. *)
ReadableMeansAllowed ==
  \A r \in Reqs :
    f[r].pc = "done" /\ f[r].mode = "cors" /\ f[r].out \in {"basic", "cors"} => f[r].clean

\* Every fetch that was made has ended.
Settled == \A r \in Reqs : f[r].pc \in {"idle", "done"}

=============================================================================

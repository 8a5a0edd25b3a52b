--------------------------- MODULE SwFetch_proofs ---------------------------
(***************************************************************************)
(* Proofs about what the service worker does between a target and a page   *)
(* (TargetFetch): for any requests, origins, preflight answers, depth of   *)
(* redirects and size of the preflight cache, what is sent was permitted,  *)
(* and what a page reads was allowed.                                      *)
(*                                                                         *)
(* And about its rewriter and the rewriter's cache (Rewrite): for any       *)
(* sources, sizes, bounds and jobs under way, a page only gets text the     *)
(* rewriter has transformed, and the cache counts what it holds.            *)
(***************************************************************************)
EXTENDS SwFetch, WellFoundedInduction, TLAPS

-----------------------------------------------------------------------------
(* The inductive invariant.                                                *)

\* A request under way, and one that has ended.
Live ==
  [kind: {"document", "element", "runtime"}, mode: {"", "cors", "no-cors", "same-origin"},
   credentials: {"omit", "same-origin", "include"}, redirect: {"follow", "manual", "error"},
   method: Methods, names: SUBSET Unsafe, url: Origins,
   pc: {"hop", "preflight", "sent"}, body: BOOLEAN, tainted: BOOLEAN, originTainted: BOOLEAN,
   depth: 0..MAX_REDIRECTS, criticalRestart: BOOLEAN, began: 0..MaxTime, hint: BOOLEAN,
   firstMethod: Methods, strayed: BOOLEAN, clean: BOOLEAN,
   wire: [asked: BOOLEAN, kept: BOOLEAN]]
Done ==
  [pc: {"done"}, kind: {"document", "element", "runtime"}, mode: {"", "cors", "no-cors", "same-origin"},
   out: Outcomes, clean: BOOLEAN]

\* Authorization has not strayed, the body goes with its own method, only a
\* page's CORS request is tainted, every server has allowed it so far, and
\* what is on the wire was permitted.
Sound(q) ==
  /\ q.clean
  /\ "auth" \in q.names => ~q.strayed
  /\ q.body => q.method = q.firstMethod
  /\ q.tainted => corsRequest(q)
  /\ q.pc = "sent" => q.wire.asked /\ q.wire.kept

\* What an entry of the cache was granted.
Own(list, credentials) == IF credentials THEN list \ {"*"} ELSE list
Entries ==
  [key: [origin: Origins \cup {"null"}, url: Origins, credentials: BOOLEAN],
   methods: SUBSET (Methods \cup {"*"}), headers: SUBSET (Unsafe \cup {"*"}), expires: Nat,
   granted: [methods: SUBSET (Methods \cup {"*"}), headers: SUBSET (Unsafe \cup {"*"})]]
Exact(e) ==
  /\ e.granted.methods = Own(e.methods, e.key.credentials)
  /\ e.granted.headers = Own(e.headers, e.key.credentials)

CacheOK ==
  /\ preflights \in Seq(Entries) /\ Len(preflights) <= CACHE_CAP
  /\ \A i \in 1..Len(preflights) : Exact(preflights[i])

FetchInv ==
  /\ f \in [Reqs -> {Idle} \cup Done \cup Live]
  /\ \A r \in Reqs : f[r] \in Live => Sound(f[r])
  /\ \A r \in Reqs : f[r] \in Done /\ f[r].out \in {"basic", "cors"} => f[r].clean
  /\ CacheOK
  /\ hints \subseteq Origins /\ now \in 0..MaxTime

\* A state of a request that keeps the invariant.
Good(p) ==
  \/ p \in Live /\ Sound(p)
  \/ p \in Done /\ (p.out \in {"basic", "cors"} => p.clean)

-----------------------------------------------------------------------------
(* Steps of one request.                                                   *)

\* The states of a request are told apart by pc.
LEMMA Kinds ==
  ASSUME FetchInv, NEW r \in Reqs
  PROVE  /\ f[r].pc \in {"hop", "preflight", "sent"} => f[r] \in Live /\ Sound(f[r])
         /\ f[r].pc \in {"idle", "hop", "preflight", "sent", "done"}
         /\ f[r].pc = "done" => f[r] \in Done
<1>1. f[r] = Idle \/ f[r] \in Done \/ f[r] \in Live
  BY ZenonT(30) DEF FetchInv
<1>2. CASE f[r] = Idle
  BY <1>2, SMTT(30) DEF Idle
<1>3. CASE f[r] \in Done
  BY <1>3, ZenonT(30) DEF Done
<1>4. CASE f[r] \in Live
  <2>1. f[r].pc \in {"hop", "preflight", "sent"}
    BY <1>4, ZenonT(30) DEF Live
  <2> QED BY <1>4, <2>1, ZenonT(30) DEF FetchInv
<1> QED BY <1>1, <1>2, <1>3, <1>4, ZenonT(30)

\* A step of one request to a good state keeps the invariant.
LEMMA OneRequest ==
  ASSUME FetchInv, NEW r \in Reqs, NEW p, Good(p), f' = [f EXCEPT ![r] = p],
         CacheOK', hints' \subseteq Origins, now' = now
  PROVE  FetchInv'
<1>1. Live \cap Done = {} /\ Idle \notin Live /\ Idle \notin Done
  BY ZenonT(30) DEF Live, Done, Idle
<1>2. f' \in [Reqs -> {Idle} \cup Done \cup Live]
  BY ZenonT(30) DEF FetchInv, Good
<1>3. \A x \in Reqs : f'[x] = IF x = r THEN p ELSE f[x]
  BY ZenonT(30) DEF FetchInv
<1> QED BY <1>1, <1>2, <1>3, ZenonT(30) DEF FetchInv, Good

\* Settle: a request ends without a response a page may read.
LEMMA SettleGood ==
  ASSUME NEW q \in Live, Sound(q), NEW out \in Outcomes
  PROVE  Good(Ended(q, out, q.clean))
<1>1. /\ q.kind \in {"document", "element", "runtime"} /\ q.mode \in {"", "cors", "no-cors", "same-origin"}
      /\ q.clean \in BOOLEAN /\ q.clean
  BY ZenonT(30) DEF Live, Sound
<1>2. Ended(q, out, q.clean) \in Done
  BY <1>1, ZenonT(30) DEF Ended, Done
<1> QED BY <1>1, <1>2, ZenonT(30) DEF Ended, Good

\* transportFetch starts a request, or refuses it.
LEMMA StartStep ==
  ASSUME FetchInv, NEW r \in Reqs, NEW in \in Inputs[r], Start(r, in)
  PROVE  FetchInv'
<1> DEFINE p == [kind |-> in.kind, mode |-> in.mode, credentials |-> in.credentials,
                 redirect |-> in.redirect, method |-> in.method, names |-> in.names, url |-> in.url,
                 pc |-> "hop", body |-> in.method \notin {"GET", "HEAD"},
                 tainted |-> FALSE, originTainted |-> FALSE, depth |-> 0,
                 criticalRestart |-> FALSE, began |-> 0, hint |-> FALSE,
                 firstMethod |-> in.method, strayed |-> FALSE, clean |-> TRUE, wire |-> NoWire]
<1>1. in \in Calls
  BY ConstantsAssumption, ZenonT(30)
<1>2. 0 \in 0..MAX_REDIRECTS /\ 0 \in 0..MaxTime /\ NoWire \in [asked: BOOLEAN, kept: BOOLEAN]
  BY ConstantsAssumption, SMTT(30) DEF NoWire
<1>3. p \in Live
  <2>1. /\ in.kind \in {"document", "element", "runtime"} /\ in.mode \in {"", "cors", "no-cors", "same-origin"}
        /\ in.credentials \in {"omit", "same-origin", "include"} /\ in.redirect \in {"follow", "manual", "error"}
        /\ in.method \in Methods /\ in.names \in SUBSET Unsafe /\ in.url \in Origins
    BY <1>1, ZenonT(30) DEF Calls
  <2> QED BY <1>2, <2>1, ZenonT(90) DEF Live
<1>4. Sound(p)
  BY ZenonT(30) DEF Sound
<1>5. f' = [f EXCEPT ![r] = p] /\ UNCHANGED <<preflights, hints, now>>
  BY ZenonT(30) DEF Start
<1>6. Good(p)
  BY <1>3, <1>4, ZenonT(30) DEF Good
<1> HIDE DEF p
<1> QED BY <1>5, <1>6, OneRequest, ZenonT(30) DEF FetchInv, CacheOK

\* An address or a body that is refused ends at once.
LEMMA StartRefusedStep ==
  ASSUME FetchInv, NEW r \in Reqs, NEW in \in Inputs[r], StartRefused(r, in)
  PROVE  FetchInv'
<1>1. PICK out \in {"page", "error"} : f' = [f EXCEPT ![r] = Ended(in, out, TRUE)]
  BY ZenonT(30) DEF StartRefused
<1>2. in.kind \in {"document", "element", "runtime"} /\ in.mode \in {"", "cors", "no-cors", "same-origin"}
  <2>1. in \in Calls
    BY ConstantsAssumption, ZenonT(30)
  <2> QED BY <2>1, ZenonT(30) DEF Calls
<1>3. Good(Ended(in, out, TRUE))
  BY <1>2, ZenonT(30) DEF Good, Ended, Done, Outcomes
<1> QED BY <1>1, <1>3, OneRequest, ZenonT(30) DEF StartRefused, FetchInv, CacheOK

\* A refusal in a later step.
LEMMA SettleStep ==
  ASSUME FetchInv, NEW r \in Reqs, f[r] \in Live, NEW out \in Outcomes, Settle(r, out),
         UNCHANGED <<preflights, hints, now>>
  PROVE  FetchInv'
<1>1. Good(Ended(f[r], out, f[r].clean))
  BY SettleGood, ZenonT(30) DEF FetchInv
<1> QED BY <1>1, OneRequest, ZenonT(30) DEF Settle, FetchInv, CacheOK

\* Send: with a grant where one is needed, what goes on the wire is permitted.
LEMMA SendGood ==
  ASSUME NEW r, NEW q \in Live, q.clean, "auth" \in q.names => ~q.strayed,
         q.body => q.method = q.firstMethod, q.tainted => corsRequest(q), NEW facts, Send(r, q, facts),
         NeedsPreflight(q) =>
           \E g \in facts :
             /\ g.key = preflightKey(q) /\ g.expires > now
             /\ \/ corsSafelistedMethod(q.method)
                \/ q.method \in g.granted.methods \/ "*" \in g.granted.methods
             /\ \A x \in q.names : x \in g.granted.headers \/ "*" \in g.granted.headers
  PROVE  \E p : Good(p) /\ f' = [f EXCEPT ![r] = p]
<1>1. PICK wire \in [asked: BOOLEAN, kept: BOOLEAN], hint \in BOOLEAN :
        /\ f' = [f EXCEPT ![r] = [q EXCEPT !.pc = "sent", !.wire = wire, !.hint = hint]]
        /\ wire.asked /\ wire.kept
  <2> DEFINE asked == \E g \in facts :
                 /\ g.key = preflightKey(q) /\ g.expires > now
                 /\ corsSafelistedMethod(q.method) \/ (q.method \in g.granted.methods \/ "*" \in g.granted.methods)
                 /\ \A x \in q.names : x \in g.granted.headers \/ "*" \in g.granted.headers
             wire == [asked |-> NeedsPreflight(q) => asked,
                      kept |-> /\ "auth" \in q.names => ~q.strayed
                               /\ q.body => q.method = q.firstMethod]
             hint == q.kind = "document" /\ q.url \in hints
  <2>1. f' = [f EXCEPT ![r] = [q EXCEPT !.pc = "sent", !.wire = wire, !.hint = hint]]
    BY ZenonT(30) DEF Send
  <2>2. wire \in [asked: BOOLEAN, kept: BOOLEAN] /\ hint \in BOOLEAN
    BY ZenonT(30)
  <2>3. NeedsPreflight(q) => asked
    BY ZenonT(30)
  <2>4. wire.asked /\ wire.kept
    BY <2>3, ZenonT(30)
  <2> HIDE DEF asked, wire, hint
  <2> QED BY <2>1, <2>2, <2>4, ZenonT(30)
<1> DEFINE p == [q EXCEPT !.pc = "sent", !.wire = wire, !.hint = hint]
<1>2. p \in Live
  BY <1>1, ZenonT(30) DEF Live
<1>3. /\ p.clean = q.clean /\ p.names = q.names /\ p.strayed = q.strayed /\ p.body = q.body
      /\ p.method = q.method /\ p.firstMethod = q.firstMethod /\ p.tainted = q.tainted
      /\ p.kind = q.kind /\ p.mode = q.mode /\ p.wire = wire
  BY ZenonT(30) DEF Live
<1> HIDE DEF p
<1>4. Sound(p)
  BY <1>1, <1>3, ZenonT(30) DEF Sound, corsRequest
<1> QED BY <1>1, <1>2, <1>4, ZenonT(30) DEF Good, p

\* What corsPreflightAllows accepts, the server granted.
LEMMA AllowsGranted ==
  ASSUME NEW q \in Live, NEW e, Exact(e), e.key.credentials = corsCredentials(q),
         corsPreflightAllows(e, q.method, q.names, corsCredentials(q))
  PROVE  /\ \/ corsSafelistedMethod(q.method)
            \/ q.method \in e.granted.methods \/ "*" \in e.granted.methods
         /\ \A x \in q.names : x \in e.granted.headers \/ "*" \in e.granted.headers
<1>1. q.method # "*" /\ "*" \notin q.names
  BY ConstantsAssumption, ZenonT(30) DEF Live, Unsafe
<1> QED BY <1>1, ZenonT(30) DEF Exact, Own, corsPreflightAllows

\* A full cache drops its oldest entry, and a new one is as exact as the rest.
LEMMA CacheAfterOK ==
  ASSUME CacheOK, NEW e \in Entries, Exact(e), preflights' = CacheAfter(e)
  PROVE  CacheOK'
<1> DEFINE kept == IF Len(preflights) >= CACHE_CAP THEN Tail(preflights) ELSE preflights
           at == {i \in DOMAIN kept : kept[i].key = e.key}
<1>1. preflights \in Seq(Entries) /\ Len(preflights) \in Nat /\ Len(preflights) <= CACHE_CAP
  BY SMTT(30) DEF CacheOK
<1>2. /\ kept \in Seq(Entries) /\ Len(kept) \in Nat /\ Len(kept) + 1 <= CACHE_CAP
      /\ \A i \in 1..Len(kept) : Exact(kept[i])
  <2>1. CASE Len(preflights) >= CACHE_CAP
    <3>1. preflights # << >>
      BY <1>1, <2>1, ConstantsAssumption, SMTT(30)
    <3>2. /\ Tail(preflights) \in Seq(Entries) /\ Len(Tail(preflights)) = Len(preflights) - 1
          /\ \A i \in 1..Len(Tail(preflights)) : Tail(preflights)[i] = preflights[i + 1]
      BY <1>1, <3>1, SMTT(30)
    <3>3. Len(Tail(preflights)) \in Nat /\ Len(Tail(preflights)) + 1 <= CACHE_CAP
      BY <1>1, <3>1, <3>2, ConstantsAssumption, SMTT(30)
    <3>4. \A i \in 1..Len(Tail(preflights)) : i + 1 \in 1..Len(preflights)
      BY <1>1, <3>2, SMTT(30)
    <3>5. \A i \in 1..Len(Tail(preflights)) : Exact(Tail(preflights)[i])
      BY <3>2, <3>4, ZenonT(30) DEF CacheOK
    <3> QED BY <2>1, <3>2, <3>3, <3>5, ZenonT(30)
  <2>2. CASE ~(Len(preflights) >= CACHE_CAP)
    <3>1. Len(preflights) + 1 <= CACHE_CAP
      BY <1>1, <2>2, ConstantsAssumption, SMTT(30)
    <3> QED BY <1>1, <2>2, <3>1, ZenonT(30) DEF CacheOK
  <2> QED BY <2>1, <2>2, ZenonT(30)
<1>3. preflights' = IF at = {} THEN Append(kept, e) ELSE [kept EXCEPT ![CHOOSE i \in at : TRUE] = e]
  BY ZenonT(30) DEF CacheAfter
<1> HIDE DEF kept
<1>4. CASE at = {}
  <2>1. preflights' = Append(kept, e)
    BY <1>3, <1>4, ZenonT(30)
  <2>2. /\ Append(kept, e) \in Seq(Entries) /\ Len(Append(kept, e)) = Len(kept) + 1
        /\ \A i \in 1..(Len(kept) + 1) : Append(kept, e)[i] = IF i \in 1..Len(kept) THEN kept[i] ELSE e
    BY <1>2, SMTT(30)
  <2>3. \A i \in 1..Len(Append(kept, e)) : Exact(Append(kept, e)[i])
    BY <1>2, <2>2, ZenonT(30)
  <2>4. Len(Append(kept, e)) <= CACHE_CAP
    BY <1>2, <2>2, ZenonT(30)
  <2> QED BY <2>1, <2>2, <2>3, <2>4, ZenonT(30) DEF CacheOK
<1>5. CASE at # {}
  <2>1. PICK j \in 1..Len(kept) : preflights' = [kept EXCEPT ![j] = e]
    <3>1. (CHOOSE i \in at : TRUE) \in at
      BY <1>5, ZenonT(30)
    <3>2. at \subseteq 1..Len(kept)
      BY <1>2, SMTT(30)
    <3> HIDE DEF at
    <3> QED BY <1>3, <1>5, <3>1, <3>2, ZenonT(30)
  <2>2. /\ [kept EXCEPT ![j] = e] \in Seq(Entries) /\ Len([kept EXCEPT ![j] = e]) = Len(kept)
        /\ \A i \in 1..Len(kept) : [kept EXCEPT ![j] = e][i] = IF i = j THEN e ELSE kept[i]
    BY <1>2, SMTT(30)
  <2>3. Len(kept) <= CACHE_CAP
    BY <1>2, ConstantsAssumption, SMTT(30)
  <2> QED BY <1>2, <2>1, <2>2, <2>3, ZenonT(30) DEF CacheOK
<1> QED BY <1>4, <1>5, ZenonT(30)

\* The start of a hop: same-origin mode, a preflight, or straight to the wire.
LEMMA HopStep ==
  ASSUME FetchInv, NEW r \in Reqs, Hop(r)
  PROVE  FetchInv'
<1> DEFINE q == [f[r] EXCEPT !.tainted = Tainted(f[r])]
<1>1. f[r] \in Live /\ Sound(f[r]) /\ UNCHANGED <<preflights, hints, now>>
  BY Kinds, ZenonT(30) DEF Hop
<1>2. CacheOK' /\ hints' \subseteq Origins /\ now' = now
  BY <1>1, ZenonT(30) DEF FetchInv, CacheOK
<1>3. Tainted(f[r]) \in BOOLEAN
  BY <1>1, ZenonT(30) DEF Tainted, Live
<1>4. q \in Live
  BY <1>1, <1>3, ZenonT(30) DEF Live
<1>5. /\ q.clean = f[r].clean /\ q.names = f[r].names /\ q.strayed = f[r].strayed /\ q.body = f[r].body
      /\ q.method = f[r].method /\ q.firstMethod = f[r].firstMethod /\ q.tainted = Tainted(f[r])
      /\ q.kind = f[r].kind /\ q.mode = f[r].mode /\ q.pc = f[r].pc
  BY <1>1, ZenonT(30) DEF Live
<1>6. IF q.mode = "same-origin" /\ q.url # Doc THEN Settle(r, "error")
      ELSE IF NeedsPreflight(q) /\ ~Cached(q)
           THEN f' = [f EXCEPT ![r] = [q EXCEPT !.pc = "preflight", !.began = now]]
           ELSE Send(r, q, {preflights[j] : j \in DOMAIN preflights})
  BY ZenonT(30) DEF Hop
<1> HIDE DEF q
<1>7. /\ q.clean /\ ("auth" \in q.names => ~q.strayed) /\ (q.body => q.method = q.firstMethod)
      /\ (q.tainted => corsRequest(q))
  BY <1>1, <1>5, ZenonT(30) DEF Sound, Tainted, corsRequest
<1>8. CASE Settle(r, "error")
  BY <1>1, <1>8, SettleStep, ZenonT(30) DEF Outcomes
<1>9. CASE f' = [f EXCEPT ![r] = [q EXCEPT !.pc = "preflight", !.began = now]]
  <2> DEFINE p == [q EXCEPT !.pc = "preflight", !.began = now]
  <2>1. p \in Live
    BY <1>4, ZenonT(30) DEF Live, FetchInv
  <2>2. /\ p.clean = q.clean /\ p.names = q.names /\ p.strayed = q.strayed /\ p.body = q.body
        /\ p.method = q.method /\ p.firstMethod = q.firstMethod /\ p.tainted = q.tainted
        /\ p.kind = q.kind /\ p.mode = q.mode /\ p.pc = "preflight"
    BY <1>4, ZenonT(30) DEF Live
  <2> HIDE DEF p
  <2>3. Sound(p)
    BY <1>7, <2>2, ZenonT(30) DEF Sound, corsRequest
  <2>4. Good(p) /\ f' = [f EXCEPT ![r] = p]
    BY <1>9, <2>1, <2>3, ZenonT(30) DEF Good, p
  <2> QED BY <1>2, <2>4, OneRequest, ZenonT(30)
<1>10. CASE Send(r, q, {preflights[j] : j \in DOMAIN preflights}) /\ (NeedsPreflight(q) => Cached(q))
  <2>1. ASSUME NeedsPreflight(q)
        PROVE  \E g \in {preflights[j] : j \in DOMAIN preflights} :
                 /\ g.key = preflightKey(q) /\ g.expires > now
                 /\ \/ corsSafelistedMethod(q.method)
                    \/ q.method \in g.granted.methods \/ "*" \in g.granted.methods
                 /\ \A x \in q.names : x \in g.granted.headers \/ "*" \in g.granted.headers
    <3>1. PICK i \in DOMAIN preflights : preflights[i].key = preflightKey(q) /\ covers(preflights[i], q)
      BY <1>10, <2>1, ZenonT(30) DEF Cached, cachedAt
    <3>2. DOMAIN preflights = 1..Len(preflights)
      BY SMTT(30) DEF FetchInv, CacheOK
    <3>3. Exact(preflights[i]) /\ preflights[i] \in {preflights[j] : j \in DOMAIN preflights}
      BY <3>2, ZenonT(30) DEF FetchInv, CacheOK
    <3>4. preflights[i].key.credentials = corsCredentials(q)
      BY <3>1, SMTT(30) DEF preflightKey
    <3>5. preflights[i].expires > now /\ corsPreflightAllows(preflights[i], q.method, q.names, corsCredentials(q))
      BY <3>1, ZenonT(30) DEF covers
    <3> QED BY <1>4, <3>1, <3>3, <3>4, <3>5, AllowsGranted, ZenonT(30)
  <2>2. \E p : Good(p) /\ f' = [f EXCEPT ![r] = p]
    BY <1>4, <1>7, <1>10, <2>1, SendGood, ZenonT(30)
  <2> QED BY <1>2, <2>2, OneRequest, ZenonT(30)
<1> QED BY <1>6, <1>8, <1>9, <1>10, ZenonT(30)

\* The kernel is not there.
LEMMA NoKernelStep ==
  ASSUME FetchInv, NEW r \in Reqs, NoKernel(r)
  PROVE  FetchInv'
BY Kinds, SettleStep, ZenonT(30) DEF NoKernel, Outcomes

\* The kernel rejects, or the deadline fires.
LEMMA TransportFailsStep ==
  ASSUME FetchInv, NEW r \in Reqs, TransportFails(r)
  PROVE  FetchInv'
<1>1. f[r] \in Live /\ UNCHANGED <<preflights, hints, now>>
  BY Kinds, ZenonT(30) DEF TransportFails
<1>2. PICK out \in Outcomes : Settle(r, out)
  BY ZenonT(30) DEF TransportFails, Outcomes, Refused
<1> QED BY <1>1, <1>2, SettleStep, ZenonT(30)

\* The preflight's answer: refused, or the request goes out under this grant
\* and the cache keeps it.
LEMMA PreflightAnswerStep ==
  ASSUME FetchInv, NEW r \in Reqs, NEW a \in PreflightAnswers, PreflightAnswer(r, a)
  PROVE  FetchInv'
<1> DEFINE q == f[r]
           own(list) == IF corsCredentials(q) THEN list \ {"*"} ELSE list
           entry == [key |-> preflightKey(q), methods |-> a.methods, headers |-> a.headers,
                     expires |-> q.began + a.age,
                     granted |-> [methods |-> own(a.methods), headers |-> own(a.headers)]]
           allowed == /\ a.ok /\ corsCheck(a, corsOrigin(q), corsCredentials(q))
                      /\ corsPreflightAllows(entry, q.method, q.names, corsCredentials(q))
<1>1. q \in Live /\ Sound(q)
  BY Kinds, ZenonT(30) DEF PreflightAnswer
<1>2. /\ IF allowed
         THEN /\ Send(r, q, {[entry EXCEPT !.expires = now + 1]})
              /\ preflights' = IF a.age > 0 THEN CacheAfter(entry) ELSE preflights
         ELSE Settle(r, "error") /\ UNCHANGED preflights
      /\ UNCHANGED <<hints, now>>
  BY ZenonT(30) DEF PreflightAnswer
<1>3. a.methods \in SUBSET (Methods \cup {"*"}) /\ a.headers \in SUBSET (Unsafe \cup {"*"}) /\ a.age \in Nat
  <2>1. CASE a = PreflightRefusal
    BY <2>1, ZenonT(30) DEF PreflightRefusal
  <2>2. CASE a # PreflightRefusal
    <3>1. PICK g \in Grants, t \in Ages, l \in {<<{}, {}>>, <<{"PUT"}, Unsafe>>, <<{"*"}, {"*"}>>} :
            a = [ok |-> TRUE, allow |-> g.allow, withCredentials |-> g.withCredentials,
                 methods |-> l[1], headers |-> l[2], age |-> t]
      BY <2>2, SMTT(30) DEF PreflightAnswers
    <3>2. l[1] \in SUBSET (Methods \cup {"*"}) /\ l[2] \in SUBSET (Unsafe \cup {"*"})
      <4>1. /\ {} \in SUBSET Methods /\ {"PUT"} \in SUBSET Methods /\ {"*"} \in SUBSET (Methods \cup {"*"})
            /\ {} \in SUBSET Unsafe /\ Unsafe \in SUBSET Unsafe /\ {"*"} \in SUBSET (Unsafe \cup {"*"})
        BY ConstantsAssumption, ZenonT(30)
      <4>2. \/ l[1] = {} /\ l[2] = {}
            \/ l[1] = {"PUT"} /\ l[2] = Unsafe
            \/ l[1] = {"*"} /\ l[2] = {"*"}
        BY SMTT(30)
      <4> QED BY <4>1, <4>2, ZenonT(30)
    <3> QED BY <3>1, <3>2, ConstantsAssumption, ZenonT(30)
  <2> QED BY <2>1, <2>2, ZenonT(30)
<1>4. /\ preflightKey(q) \in [origin: Origins \cup {"null"}, url: Origins, credentials: BOOLEAN]
      /\ preflightKey(q).credentials = corsCredentials(q) /\ corsCredentials(q) \in BOOLEAN
  BY <1>1, ConstantsAssumption, ZenonT(30) DEF preflightKey, corsOrigin, corsCredentials, Live
<1>5. q.began \in Nat /\ now \in Nat
  <2>1. q.began \in 0..MaxTime /\ now \in 0..MaxTime
    BY <1>1, ZenonT(30) DEF Live, FetchInv
  <2> QED BY <2>1, ConstantsAssumption, SMTT(30)
<1> HIDE DEF q
<1>6. entry \in Entries /\ Exact(entry) /\ entry.key = preflightKey(q)
  <2>1. own(a.methods) \in SUBSET (Methods \cup {"*"}) /\ own(a.headers) \in SUBSET (Unsafe \cup {"*"})
    BY <1>3, ZenonT(30)
  <2>2. q.began + a.age \in Nat
    BY <1>3, <1>5, SMTT(30)
  <2>3. entry.granted.methods = own(a.methods) /\ entry.granted.headers = own(a.headers)
    BY ZenonT(30)
  <2>4. entry.key = preflightKey(q) /\ entry.methods = a.methods /\ entry.headers = a.headers
    BY ZenonT(30)
  <2>5. own(a.methods) = Own(a.methods, corsCredentials(q)) /\ own(a.headers) = Own(a.headers, corsCredentials(q))
    BY ZenonT(30) DEF Own
  <2>6. Exact(entry)
    BY <1>4, <2>3, <2>4, <2>5, ZenonT(30) DEF Exact
  <2>7. entry \in Entries
    <3> HIDE DEF own
    <3> QED BY <1>3, <1>4, <2>1, <2>2, ZenonT(30) DEF Entries
  <2> QED BY <2>4, <2>6, <2>7, ZenonT(30)
<1>7. CASE ~allowed
  BY <1>1, <1>2, <1>7, SettleStep, ZenonT(30) DEF Outcomes, q
<1>8. CASE allowed
  <2> DEFINE g == [entry EXCEPT !.expires = now + 1]
  <2>1. /\ g.key = preflightKey(q) /\ g.expires = now + 1 /\ g.granted = entry.granted
        /\ g.methods = entry.methods /\ g.headers = entry.headers
    BY ZenonT(30)
  <2>2. corsPreflightAllows(entry, q.method, q.names, corsCredentials(q))
    BY <1>8, ZenonT(30)
  <2>3. Send(r, q, {g}) /\ preflights' \in {CacheAfter(entry), preflights}
    BY <1>2, <1>8, ZenonT(30)
  <2> HIDE DEF entry, allowed
  <2>4. /\ \/ corsSafelistedMethod(q.method)
           \/ q.method \in entry.granted.methods \/ "*" \in entry.granted.methods
        /\ \A x \in q.names : x \in entry.granted.headers \/ "*" \in entry.granted.headers
    BY <1>1, <1>4, <1>6, <2>2, AllowsGranted, ZenonT(30)
  <2> HIDE DEF g
  <2>5. \E h \in {g} :
          /\ h.key = preflightKey(q) /\ h.expires > now
          /\ \/ corsSafelistedMethod(q.method)
             \/ q.method \in h.granted.methods \/ "*" \in h.granted.methods
          /\ \A x \in q.names : x \in h.granted.headers \/ "*" \in h.granted.headers
    <3>1. g.expires > now
      BY <1>5, <2>1, SMTT(30)
    <3> QED BY <2>1, <2>4, <3>1, ZenonT(30)
  <2>6. \E p : Good(p) /\ f' = [f EXCEPT ![r] = p]
    BY <1>1, <2>3, <2>5, SendGood, ZenonT(30) DEF Sound
  <2>7. CacheOK'
    <3>1. CASE preflights' = preflights
      BY <3>1, ZenonT(30) DEF FetchInv, CacheOK
    <3>2. CASE preflights' = CacheAfter(entry)
      BY <1>6, <3>2, CacheAfterOK, ZenonT(30) DEF FetchInv
    <3> QED BY <2>3, <3>1, <3>2, ZenonT(30)
  <2> QED BY <1>2, <2>6, <2>7, OneRequest, ZenonT(30) DEF FetchInv
<1> QED BY <1>7, <1>8, ZenonT(30)

\* What transportFetchHop decides: it follows a redirect only below the limit,
\* and neither follows nor delivers what a server it had to ask did not allow.
LEMMA VerdictFacts ==
  ASSUME NEW q, NEW a
  PROVE  /\ Verdict(q, a) \in Outcomes \cup {"follow"}
         /\ Verdict(q, a) = "follow" => ~(q.depth >= MAX_REDIRECTS)
         /\ Verdict(q, a) \in {"follow", "basic", "cors"} /\ NeedsCheck(q) =>
              corsCheck(a, corsOrigin(q), corsCredentials(q))
<1>1. Type(q) \in Outcomes /\ Refused(q) \in Outcomes /\ Refused(q) \notin {"follow", "basic", "cors"}
      /\ Type(q) # "follow" /\ {"error", "opaqueredirect"} \subseteq Outcomes
  BY ZenonT(30) DEF Type, Refused, Outcomes
<1> QED BY <1>1, ZenonT(30) DEF Verdict

\* What a target answers leads to one of the origins.
LEMMA AnswerType ==
  ASSUME NEW q, NEW a \in AnswersTo(q)
  PROVE  a.to \in Origins
<1> DEFINE Shape == [status: {"200"} \cup Redirects, to: Origins, location: {"plain", "userinfo", "malformed"},
                 allow: {"none"}, withCredentials: {FALSE}, acceptCH: {"absent"}, criticalCH: {FALSE}]
<1>1. Plain \in Shape
  BY ConstantsAssumption, ZenonT(30) DEF Plain
<1>2. Moves \subseteq Shape
  <2>1. ASSUME NEW x \in Redirects, NEW o \in Origins, NEW l \in {"plain", "userinfo", "malformed"}
        PROVE  MovedTo(x, o, l) \in Shape
    BY <1>1, ZenonT(30) DEF MovedTo
  <2>2. "302" \in Redirects
    BY ZenonT(30) DEF Redirects
  <2> HIDE DEF Shape
  <2> QED BY <2>1, <2>2, SMTT(30) DEF Moves
<1>3. CASE q.kind = "document"
  <2>1. PICK b \in Moves \cup {Plain}, h \in {"absent", "none", "hint"}, c \in BOOLEAN : a = Hinting(b, h, c)
    BY <1>3, SMTT(30) DEF AnswersTo, DocumentAnswers
  <2>2. b \in Shape
    BY <1>1, <1>2, ZenonT(30)
  <2>3. a.to = b.to /\ b.to \in Origins
    BY <2>1, <2>2, ZenonT(30) DEF Hinting
  <2> QED BY <2>3, ZenonT(30)
<1>4. CASE q.kind # "document"
  <2>1. PICK g \in Grants, b \in Moves \cup {Plain} : a = Granting(b, g)
    BY <1>4, SMTT(30) DEF AnswersTo, PageAnswers
  <2>2. b \in Shape
    BY <1>1, <1>2, ZenonT(30)
  <2>3. a.to = b.to /\ b.to \in Origins
    BY <2>1, <2>2, ZenonT(30) DEF Granting
  <2> QED BY <2>3, ZenonT(30)
<1> QED BY <1>3, <1>4, ZenonT(30)

\* The next hop: Authorization stays behind at another origin, and so does the
\* body when the method changes.
LEMMA NextHopGood ==
  ASSUME NEW q \in Live, Sound(q), q.depth < MAX_REDIRECTS, NEW a, a.to \in Origins
  PROVE  Good(NextHop(q, a))
<1> DEFINE method == redirectMethod(a.status, q.method)
           body == q.body /\ method = q.method
           names == IF a.to # q.url THEN q.names \ {"auth"} ELSE q.names
           depth == q.depth + 1
           originTainted == q.originTainted \/ (corsRequest(q) /\ a.to # q.url /\ q.url # Doc)
           strayed == q.strayed \/ a.to # q.url
           p == NextHop(q, a)
<1>1. p = [q EXCEPT !.pc = "hop", !.url = a.to, !.method = method, !.body = body, !.names = names,
                    !.depth = depth, !.originTainted = originTainted, !.strayed = strayed]
  BY ZenonT(30) DEF NextHop
<1>2. /\ method \in Methods /\ body \in BOOLEAN /\ names \in SUBSET Unsafe
      /\ originTainted \in BOOLEAN /\ strayed \in BOOLEAN
  BY ConstantsAssumption, ZenonT(30) DEF Live, redirectMethod
<1>3. depth \in 0..MAX_REDIRECTS
  <2>1. q.depth \in 0..MAX_REDIRECTS
    BY ZenonT(30) DEF Live
  <2> QED BY <2>1, ConstantsAssumption, SMTT(30)
<1>4. /\ "auth" \in names => ~strayed
      /\ body => method = q.firstMethod
  BY ZenonT(30) DEF Sound
<1> HIDE DEF method, body, names, depth, originTainted, strayed, p
<1>5. p \in Live
  <2> DEFINE h == [q EXCEPT !.pc = "hop", !.url = a.to, !.method = method, !.body = body]
  <2>1. h \in Live
    BY <1>2, ZenonT(30) DEF Live
  <2>2. p = [h EXCEPT !.names = names, !.depth = depth, !.originTainted = originTainted, !.strayed = strayed]
    BY <1>1, ZenonT(30)
  <2> HIDE DEF h
  <2> QED BY <1>2, <1>3, <2>1, <2>2, ZenonT(90) DEF Live
<1>6. /\ p.pc = "hop" /\ p.clean = q.clean /\ p.names = names /\ p.strayed = strayed /\ p.body = body
      /\ p.method = method /\ p.firstMethod = q.firstMethod /\ p.tainted = q.tainted
      /\ p.kind = q.kind /\ p.mode = q.mode
  BY <1>1, ZenonT(30) DEF Live
<1>7. Sound(p)
  BY <1>4, <1>6, ZenonT(30) DEF Sound, corsRequest
<1> QED BY <1>5, <1>7, ZenonT(30) DEF Good, p

\* The kernel's answer: the page reads it, a redirect is followed, or the
\* navigation is reissued with the hint its response asked for.
LEMMA AnswerStep ==
  ASSUME FetchInv, NEW r \in Reqs, NEW a \in AnswersTo(f[r]), Answer(r, a)
  PROVE  FetchInv'
<1> DEFINE q == [f[r] EXCEPT !.clean = @ /\ Allows(f[r], a)]
           out == Verdict(q, a)
<1>1. f[r] \in Live /\ Sound(f[r]) /\ f[r].pc = "sent"
  <2>1. f[r].pc = "sent"
    <3>1. q.pc = "sent"
      BY ZenonT(30) DEF Answer
    <3>2. f[r] = Idle \/ f[r] \in Done \/ f[r] \in Live
      BY ZenonT(30) DEF FetchInv
    <3>3. CASE f[r] = Idle
      BY <3>1, <3>3, ZenonT(30) DEF Idle
    <3>4. CASE f[r] \in Done
      BY <3>1, <3>4, ZenonT(30) DEF Done
    <3>5. CASE f[r] \in Live
      BY <3>1, <3>5, ZenonT(30) DEF Live
    <3> QED BY <3>2, <3>3, <3>4, <3>5, ZenonT(30)
  <2> QED BY <2>1, Kinds, ZenonT(30)
<1>2. /\ hints' = HintsAfter(q, a)
      /\ f' = [f EXCEPT ![r] = IF Restart(q, a) THEN [q EXCEPT !.pc = "hop", !.criticalRestart = TRUE]
                               ELSE IF out = "follow" THEN NextHop(q, a) ELSE Ended(q, out, q.clean)]
      /\ UNCHANGED <<preflights, now>>
  BY ZenonT(30) DEF Answer
<1>3. CacheOK' /\ now' = now
  BY <1>2, ZenonT(30) DEF FetchInv, CacheOK
<1>4. (f[r].clean /\ Allows(f[r], a)) \in BOOLEAN
  BY ZenonT(30)
<1>5. q \in Live
  BY <1>1, <1>4, ZenonT(30) DEF Live
<1>6. /\ q.clean = (f[r].clean /\ Allows(f[r], a)) /\ q.pc = f[r].pc
      /\ q.names = f[r].names /\ q.strayed = f[r].strayed /\ q.body = f[r].body
      /\ q.method = f[r].method /\ q.firstMethod = f[r].firstMethod /\ q.tainted = f[r].tainted
      /\ q.kind = f[r].kind /\ q.mode = f[r].mode /\ q.wire = f[r].wire
      /\ q.originTainted = f[r].originTainted /\ q.credentials = f[r].credentials
  BY <1>1, ZenonT(30) DEF Live
<1>7. a.to \in Origins
  BY AnswerType, ZenonT(30)
<1> HIDE DEF q
<1>8. hints' \subseteq Origins
  <2>1. q.url \in Origins
    BY <1>5, ZenonT(30) DEF Live
  <2> QED BY <1>2, <2>1, ZenonT(30) DEF HintsAfter, FetchInv
<1>9. q.clean => Sound(q)
  BY <1>1, <1>6, ZenonT(30) DEF Sound, corsRequest
<1>10. NeedsCheck(q) /\ corsCheck(a, corsOrigin(q), corsCredentials(q)) => q.clean
  BY <1>1, <1>6, ZenonT(30) DEF Sound, Allows, corsCheck, corsOrigin, corsCredentials
<1>11. ~NeedsCheck(q) => q.clean
  BY <1>1, <1>6, ZenonT(30) DEF Sound, Allows, NeedsCheck, corsRequest
<1>12. CASE Restart(q, a)
  <2> DEFINE p == [q EXCEPT !.pc = "hop", !.criticalRestart = TRUE]
  <2>1. f' = [f EXCEPT ![r] = p]
    BY <1>2, <1>12, ZenonT(30)
  <2>2. p \in Live
    BY <1>5, ZenonT(30) DEF Live
  <2>3. /\ p.clean = q.clean /\ p.names = q.names /\ p.strayed = q.strayed /\ p.body = q.body
        /\ p.method = q.method /\ p.firstMethod = q.firstMethod /\ p.tainted = q.tainted
        /\ p.kind = q.kind /\ p.mode = q.mode /\ p.pc = "hop"
    BY <1>5, ZenonT(30) DEF Live
  <2> HIDE DEF p
  <2>4. q.clean
    BY <1>11, <1>12, ZenonT(30) DEF Restart, NeedsCheck, corsRequest
  <2>5. Good(p)
    BY <1>9, <2>2, <2>3, <2>4, ZenonT(30) DEF Good, Sound, corsRequest
  <2> QED BY <1>3, <1>8, <2>1, <2>5, OneRequest, ZenonT(30)
<1>13. CASE ~Restart(q, a) /\ out = "follow"
  <2>1. q.clean /\ ~(q.depth >= MAX_REDIRECTS)
    BY <1>10, <1>11, <1>13, VerdictFacts, ZenonT(30)
  <2>2. q.depth < MAX_REDIRECTS
    <3>1. q.depth \in 0..MAX_REDIRECTS
      BY <1>5, ZenonT(30) DEF Live
    <3> QED BY <2>1, <3>1, ConstantsAssumption, SMTT(30)
  <2>3. Good(NextHop(q, a))
    BY <1>5, <1>7, <1>9, <2>1, <2>2, NextHopGood, ZenonT(30)
  <2>4. f' = [f EXCEPT ![r] = NextHop(q, a)]
    BY <1>2, <1>13, ZenonT(30)
  <2> QED BY <1>3, <1>8, <2>3, <2>4, OneRequest, ZenonT(30)
<1>14. CASE ~Restart(q, a) /\ out # "follow"
  <2>1. out \in Outcomes /\ (out \in {"basic", "cors"} => q.clean)
    BY <1>10, <1>11, <1>14, VerdictFacts, ZenonT(30)
  <2>2. f' = [f EXCEPT ![r] = Ended(q, out, q.clean)]
    BY <1>2, <1>14, ZenonT(30)
  <2> HIDE DEF out
  <2>3. /\ q.kind \in {"document", "element", "runtime"} /\ q.mode \in {"", "cors", "no-cors", "same-origin"}
        /\ q.clean \in BOOLEAN
    BY <1>5, ZenonT(30) DEF Live
  <2>4. Good(Ended(q, out, q.clean))
    BY <2>1, <2>3, ZenonT(30) DEF Good, Ended, Done
  <2> QED BY <1>3, <1>8, <2>2, <2>4, OneRequest, ZenonT(30)
<1> QED BY <1>12, <1>13, <1>14, ZenonT(30)

-----------------------------------------------------------------------------
(* The theorems.                                                           *)

\* Nothing has been asked of the worker.
LEMMA InitInv == Init => FetchInv
<1> SUFFICES ASSUME Init PROVE FetchInv
  BY ZenonT(30)
<1>1. Idle \notin Live /\ Idle \notin Done
  BY ZenonT(30) DEF Live, Done, Idle
<1>2. CacheOK
  BY ConstantsAssumption, SMTT(30) DEF Init, CacheOK
<1>3. now \in 0..MaxTime
  BY ConstantsAssumption, SMTT(30) DEF Init
<1> QED BY <1>1, <1>2, <1>3, ZenonT(30) DEF Init, FetchInv

\* Every step keeps the invariant.
LEMMA NextInv == FetchInv /\ [Next]_vars => FetchInv'
<1> SUFFICES ASSUME FetchInv, [Next]_vars PROVE FetchInv'
  BY ZenonT(30)
<1>1. ASSUME NEW r \in Reqs, NEW in \in Inputs[r], Start(r, in) PROVE FetchInv'
  BY <1>1, StartStep, ZenonT(30)
<1>2. ASSUME NEW r \in Reqs, NEW in \in Inputs[r], StartRefused(r, in) PROVE FetchInv'
  BY <1>2, StartRefusedStep, ZenonT(30)
<1>3. ASSUME NEW r \in Reqs, Hop(r) PROVE FetchInv'
  BY <1>3, HopStep, ZenonT(30)
<1>4. ASSUME NEW r \in Reqs, NoKernel(r) PROVE FetchInv'
  BY <1>4, NoKernelStep, ZenonT(30)
<1>5. ASSUME NEW r \in Reqs, Kernel(r) PROVE FetchInv'
  <2>1. ASSUME NEW a \in AnswersTo(f[r]), Answer(r, a) PROVE FetchInv'
    BY <2>1, AnswerStep, ZenonT(30)
  <2>2. ASSUME NEW a \in PreflightAnswers, PreflightAnswer(r, a) PROVE FetchInv'
    BY <2>2, PreflightAnswerStep, ZenonT(30)
  <2>3. CASE TransportFails(r)
    BY <2>3, TransportFailsStep, ZenonT(30)
  <2> QED BY <1>5, <2>1, <2>2, <2>3, ZenonT(30) DEF Kernel
<1>6. CASE Tick
  BY <1>6, ConstantsAssumption, SMTT(30) DEF Tick, FetchInv, CacheOK
<1>7. CASE UNCHANGED vars
  BY <1>7, ZenonT(30) DEF vars, FetchInv, CacheOK
<1> QED BY <1>1, <1>2, <1>3, <1>4, <1>5, <1>6, <1>7, ZenonT(30) DEF Next

\* The invariant holds of every behaviour.
THEOREM FetchInvariance == Spec => []FetchInv
<1> QED BY InitInv, NextInv, PTL DEF Spec

\* What transportFetch sends was permitted, whatever the page asks, the servers
\* answer and the other requests have put in the preflight cache: a method or
\* a header that is not safelisted was granted to this Origin by this address,
\* Authorization is still with the origin it was set for after any number of
\* redirects, and a body goes with its own method.
THEOREM SentWasPermitted == Spec => []RequestsPermitted
<1>1. FetchInv => RequestsPermitted
  <2> SUFFICES ASSUME FetchInv PROVE RequestsPermitted
    BY ZenonT(30)
  <2>1. ASSUME NEW r \in Reqs, f[r].pc = "sent" PROVE f[r].wire.asked /\ f[r].wire.kept
    BY <2>1, Kinds, ZenonT(30) DEF Sound
  <2>2. ASSUME NEW r \in Reqs, f[r].pc = "done" PROVE f[r].out \in Outcomes
    BY <2>2, Kinds, ZenonT(30) DEF Done
  <2>3. ASSUME NEW r \in Reqs, f[r].pc \notin {"idle", "done"}
        PROVE  f[r].depth \in 0..MAX_REDIRECTS /\ f[r].url \in Origins
    <3>1. f[r] \in Live
      BY <2>3, Kinds, ZenonT(30)
    <3> QED BY <3>1, ZenonT(30) DEF Live
  <2>4. TypeOK
    BY <2>2, <2>3, Kinds, ZenonT(30) DEF TypeOK, FetchInv, CacheOK
  <2> QED BY <2>1, <2>4, ZenonT(30) DEF RequestsPermitted
<1> QED BY <1>1, FetchInvariance, PTL

\* A page reads the answer to a CORS request only when every server along the
\* redirects allowed the Origin it was sent, corsCheck of each hop included.
THEOREM ReadWasAllowed == Spec => []ReadableMeansAllowed
<1>1. FetchInv => ReadableMeansAllowed
  BY Kinds, ZenonT(30) DEF FetchInv, ReadableMeansAllowed
<1> QED BY <1>1, FetchInvariance, PTL

-----------------------------------------------------------------------------
(* The rewriting of responses: what the entries of the cache weigh.          *)

\* What the cache holds.
CodeKey == [version: BOOLEAN, source: DOMAIN Size]
Code == [rewritten: {TRUE}, of: DOMAIN Size]
Held == [key: CodeKey, code: Code]

\* Every set of naturals that is not empty has a least element.
LEMMA LeastNat ==
  ASSUME NEW S, S \subseteq Nat, S # {}
  PROVE  \E m \in S : \A y \in S : m <= y
<1>1. \E x \in S : \A y \in S : ~(<<y, x>> \in OpToRel(<, Nat))
  BY NatLessThanWellFounded, WFMin, ZenonT(30)
<1>2. PICK x \in S : \A y \in S : ~(<<y, x>> \in OpToRel(<, Nat))
  BY <1>1, ZenonT(30)
<1>3. ASSUME NEW y \in S PROVE x <= y
  <2>1. x \in Nat /\ y \in Nat /\ ~(y < x)
    BY <1>2, ZenonT(30) DEF OpToRel
  <2> QED BY <2>1, SMTT(30)
<1> QED BY <1>2, <1>3, ZenonT(30)

\* The i-th step of UsedUpTo's sum.
Sum(c, h, i) == IF i = 0 THEN 0 ELSE h[i - 1] + Size[c[i].code.of]

\* The sums form a function on every initial segment.
LEMMA SumsExist ==
  ASSUME NEW c, NEW m \in Nat
  PROVE  \E h : h = [i \in 0..m |-> Sum(c, h, i)]
<1> DEFINE Summed(k) == \E h : h = [i \in 0..k |-> Sum(c, h, i)]
<1> DEFINE Bad == {k \in Nat : ~Summed(k)}
<1>1. SUFFICES ASSUME Bad # {} PROVE FALSE
  <2>1. m \notin Bad => Summed(m)
    BY ZenonT(30)
  <2> QED BY <2>1, ZenonT(30)
<1>2. PICK k \in Bad : \A y \in Bad : k <= y
  BY <1>1, LeastNat, ZenonT(30)
<1>3. k # 0
  <2>1. Summed(0)
    <3> DEFINE h == [i \in 0..0 |-> 0]
    <3>1. h = [i \in 0..0 |-> Sum(c, h, i)]
      BY SMTT(30) DEF Sum
    <3> QED BY <3>1, ZenonT(30)
  <2> QED BY <1>2, <2>1, ZenonT(30)
<1>4. k - 1 \in Nat /\ ~(k <= k - 1)
  BY <1>2, <1>3, SMTT(30)
<1>5. Summed(k - 1)
  <2> HIDE DEF Summed
  <2> QED BY <1>2, <1>4, ZenonT(30)
<1>6. PICK h : h = [i \in 0..(k - 1) |-> Sum(c, h, i)]
  BY <1>5, ZenonT(30)
<1> DEFINE g == [i \in 0..k |-> IF i = k THEN Sum(c, h, k) ELSE h[i]]
<1>7. ASSUME NEW i \in 0..k PROVE g[i] = Sum(c, g, i)
  <2>1. i # 0 => i - 1 \in 0..(k - 1) /\ g[i - 1] = h[i - 1]
    BY <1>2, SMTT(30)
  <2>2. Sum(c, g, i) = Sum(c, h, i)
    BY <2>1, SMTT(30), Z3T(30) DEF Sum
  <2>3. i # k => i \in 0..(k - 1)
    BY <1>2, SMTT(30)
  <2>4. i # k => g[i] = h[i] /\ h[i] = Sum(c, h, i)
    BY <1>6, <2>3, ZenonT(30)
  <2>5. i = k => g[i] = Sum(c, h, i)
    BY ZenonT(30)
  <2> QED BY <2>2, <2>4, <2>5, ZenonT(30)
<1>8. g = [i \in 0..k |-> Sum(c, g, i)]
  <2> DEFINE e == [i \in 0..k |-> Sum(c, g, i)]
  <2>1. \A i \in 0..k : g[i] = e[i]
    BY <1>7, ZenonT(30)
  <2> QED BY <2>1, ZenonT(30)
<1>9. Summed(k)
  BY <1>8, ZenonT(30)
<1> QED BY <1>2, <1>9, ZenonT(30)

\* UsedUpTo adds up the lengths of the entries' code, from the oldest on.
LEMMA UsedFacts ==
  ASSUME NEW c \in Seq(Held)
  PROVE  /\ R!UsedUpTo(c) \in [0..Len(c) -> Nat] /\ R!UsedUpTo(c)[0] = 0
         /\ \A i \in 1..Len(c) : /\ Size[c[i].code.of] \in Nat
                                 /\ R!UsedUpTo(c)[i] = R!UsedUpTo(c)[i - 1] + Size[c[i].code.of]
<1> DEFINE u == R!UsedUpTo(c)
<1>1. Len(c) \in Nat
  BY SMTT(30)
<1>2. u = [i \in 0..Len(c) |-> Sum(c, u, i)]
  <2>1. \E h : h = [i \in 0..Len(c) |-> Sum(c, h, i)]
    BY <1>1, SumsExist, ZenonT(30)
  <2>2. u = CHOOSE h : h = [i \in 0..Len(c) |-> Sum(c, h, i)]
    BY ZenonT(30) DEF R!UsedUpTo, Sum
  <2> QED BY <2>1, <2>2, ZenonT(30)
<1> HIDE DEF u
<1>3. \A i \in 0..Len(c) : u[i] = Sum(c, u, i)
  BY <1>2, ZenonT(30)
<1>4. \A i \in 1..Len(c) : Size[c[i].code.of] \in Nat
  <2>1. ASSUME NEW i \in 1..Len(c) PROVE Size[c[i].code.of] \in Nat
    <3>1. c[i] \in Held
      BY SMTT(30)
    <3> QED BY <3>1, RewriteAssumption, ZenonT(30) DEF Held, Code
  <2> QED BY <2>1, ZenonT(30)
<1>5. \A i \in 0..Len(c) : u[i] \in Nat
  <2> DEFINE Bad == {i \in Nat : i <= Len(c) /\ u[i] \notin Nat}
  <2>1. SUFFICES ASSUME Bad # {} PROVE FALSE
    BY <1>1, SMTT(30)
  <2>2. PICK k \in Bad : \A y \in Bad : k <= y
    BY <2>1, LeastNat, ZenonT(30)
  <2>3. k \in 0..Len(c) /\ u[k] \notin Nat
    BY <1>1, <2>2, SMTT(30)
  <2>4. k # 0
    BY <1>3, <2>3, ZenonT(30) DEF Sum
  <2>5. k \in 1..Len(c) /\ k - 1 \in Nat /\ k - 1 <= Len(c) /\ ~(k <= k - 1)
    BY <1>1, <2>3, <2>4, SMTT(30)
  <2>6. u[k - 1] \in Nat
    BY <2>2, <2>5, ZenonT(30)
  <2>7. u[k] = u[k - 1] + Size[c[k].code.of]
    BY <1>3, <2>3, <2>4, ZenonT(30) DEF Sum
  <2> QED BY <1>4, <2>3, <2>5, <2>6, <2>7, SMTT(30), Z3T(30)
<1>6. u \in [0..Len(c) -> Nat] /\ u[0] = 0
  BY <1>1, <1>2, <1>3, <1>5, SMTT(30), Z3T(30) DEF Sum
<1>7. \A i \in 1..Len(c) : u[i] = u[i - 1] + Size[c[i].code.of]
  BY <1>1, <1>3, SMTT(30) DEF Sum
<1> QED BY <1>4, <1>6, <1>7, ZenonT(30) DEF u

\* The n entries of c after the a-th are those of d after the b-th.
Matches(c, a, d, b, n) == \A j \in 1..n : c[a + j] = d[b + j]

\* Two sums that differ by as much still do when both grow by s.
LEMMA BothGrow ==
  ASSUME NEW ua \in Nat, NEW vb \in Nat, NEW um \in Nat, NEW vm \in Nat, NEW s \in Nat,
         um - ua = vm - vb
  PROVE  (um + s) - ua = (vm + s) - vb
BY SMTT(30)

\* Entries that stand in another place weigh what they weighed.
LEMMA UsedShift ==
  ASSUME NEW c \in Seq(Held), NEW d \in Seq(Held), NEW a \in Nat, NEW b \in Nat, NEW n \in Nat,
         a + n <= Len(c), b + n <= Len(d), Matches(c, a, d, b, n)
  PROVE  R!UsedUpTo(c)[a + n] - R!UsedUpTo(c)[a] = R!UsedUpTo(d)[b + n] - R!UsedUpTo(d)[b]
<1> DEFINE u == R!UsedUpTo(c)
           v == R!UsedUpTo(d)
<1>1. /\ \A i \in 0..Len(c) : u[i] \in Nat
      /\ \A i \in 1..Len(c) : Size[c[i].code.of] \in Nat /\ u[i] = u[i - 1] + Size[c[i].code.of]
  BY UsedFacts, ZenonT(30)
<1>2. /\ \A i \in 0..Len(d) : v[i] \in Nat
      /\ \A i \in 1..Len(d) : v[i] = v[i - 1] + Size[d[i].code.of]
  BY UsedFacts, ZenonT(30)
<1>3. Len(c) \in Nat /\ Len(d) \in Nat
  BY SMTT(30)
<1> DEFINE Bad == {m \in Nat : m <= n /\ u[a + m] - u[a] # v[b + m] - v[b]}
<1>4. SUFFICES ASSUME Bad # {} PROVE FALSE
  <2>1. n \notin Bad => u[a + n] - u[a] = v[b + n] - v[b]
    <3> HIDE DEF u, v
    <3> QED BY SMTT(30)
  <2> QED BY <2>1, ZenonT(30)
<1> HIDE DEF u, v
<1>5. PICK m \in Bad : \A y \in Bad : m <= y
  BY <1>4, LeastNat, ZenonT(30)
<1>6. m \in Nat /\ m <= n /\ u[a + m] - u[a] # v[b + m] - v[b]
  BY <1>5, ZenonT(30)
<1>7. /\ a \in 0..Len(c) /\ b \in 0..Len(d) /\ a + m \in 0..Len(c) /\ b + m \in 0..Len(d)
      /\ a + 0 = a /\ b + 0 = b
  BY <1>3, <1>6, SMTT(30), Z3T(30)
<1>8. m # 0
  BY <1>1, <1>2, <1>6, <1>7, SMTT(30), Z3T(30)
<1>9. /\ m - 1 \in Nat /\ m - 1 <= n /\ ~(m <= m - 1) /\ m \in 1..n
      /\ a + m \in 1..Len(c) /\ b + m \in 1..Len(d)
      /\ (a + m) - 1 = a + (m - 1) /\ (b + m) - 1 = b + (m - 1)
      /\ a + (m - 1) \in 0..Len(c) /\ b + (m - 1) \in 0..Len(d)
  BY <1>3, <1>6, <1>8, SMTT(30), Z3T(30)
<1>10. u[a + (m - 1)] - u[a] = v[b + (m - 1)] - v[b]
  BY <1>5, <1>9, ZenonT(30)
<1>11. /\ u[a + m] = u[a + (m - 1)] + Size[c[a + m].code.of] /\ Size[c[a + m].code.of] \in Nat
       /\ v[b + m] = v[b + (m - 1)] + Size[c[a + m].code.of]
  BY <1>1, <1>2, <1>9, ZenonT(30) DEF Matches
<1>12. u[a] \in Nat /\ v[b] \in Nat /\ u[a + (m - 1)] \in Nat /\ v[b + (m - 1)] \in Nat
  BY <1>1, <1>2, <1>7, <1>9, ZenonT(30)
<1>13. (u[a + (m - 1)] + Size[c[a + m].code.of]) - u[a] = (v[b + (m - 1)] + Size[c[a + m].code.of]) - v[b]
  <2> DEFINE ua == u[a]
             vb == v[b]
             um == u[a + (m - 1)]
             vm == v[b + (m - 1)]
             s == Size[c[a + m].code.of]
  <2>1. ua \in Nat /\ vb \in Nat /\ um \in Nat /\ vm \in Nat /\ s \in Nat /\ um - ua = vm - vb
    BY <1>10, <1>11, <1>12, ZenonT(30)
  <2> HIDE DEF ua, vb, um, vm, s
  <2>2. (um + s) - ua = (vm + s) - vb
    BY <2>1, BothGrow, SMTT(30)
  <2> QED BY <2>2, ZenonT(30) DEF ua, vb, um, vm, s
<1> QED BY <1>6, <1>11, <1>13, ZenonT(30)

\* A new entry adds its length.
LEMMA UsedAppend ==
  ASSUME NEW c \in Seq(Held), NEW e \in Held
  PROVE  /\ Append(c, e) \in Seq(Held) /\ R!Used(c) \in Nat
         /\ R!Used(Append(c, e)) = R!Used(c) + Size[e.code.of]
<1> DEFINE d == Append(c, e)
<1>1. /\ d \in Seq(Held) /\ Len(c) \in Nat /\ Len(d) = Len(c) + 1 /\ d[Len(c) + 1] = e
      /\ \A j \in 1..Len(c) : c[j] = d[j]
  BY SMTT(30)
<1> HIDE DEF d
<1>2. /\ R!UsedUpTo(c)[Len(c)] \in Nat /\ R!UsedUpTo(c)[0] = 0
  BY <1>1, UsedFacts, SMTT(30), Z3T(30)
<1>3. /\ R!UsedUpTo(d)[0] = 0 /\ R!UsedUpTo(d)[Len(c)] \in Nat
      /\ R!UsedUpTo(d)[Len(c) + 1] = R!UsedUpTo(d)[Len(c)] + Size[e.code.of]
  <2>1. Len(c) + 1 \in 1..Len(d) /\ (Len(c) + 1) - 1 = Len(c) /\ Len(c) \in 0..Len(d)
    BY <1>1, SMTT(30)
  <2> QED BY <1>1, <2>1, UsedFacts, ZenonT(30)
<1>4. R!UsedUpTo(c)[0 + Len(c)] - R!UsedUpTo(c)[0] = R!UsedUpTo(d)[0 + Len(c)] - R!UsedUpTo(d)[0]
  <2>1. 0 + Len(c) <= Len(c) /\ 0 + Len(c) <= Len(d) /\ Matches(c, 0, d, 0, Len(c))
    BY <1>1, SMTT(30) DEF Matches
  <2> QED BY <1>1, <2>1, UsedShift, SMTT(30)
<1>5. R!UsedUpTo(c)[Len(c)] = R!UsedUpTo(d)[Len(c)]
  <2>1. 0 + Len(c) = Len(c)
    BY <1>1, SMTT(30)
  <2> QED BY <1>2, <1>3, <1>4, <2>1, SMTT(30)
<1>6. R!Used(d) = R!Used(c) + Size[e.code.of] /\ R!Used(c) \in Nat
  BY <1>1, <1>2, <1>3, <1>5, ZenonT(30) DEF R!Used
<1> QED BY <1>1, <1>6, ZenonT(30) DEF d

\* A sum lacks the s it lacks from some point on.
LEMMA OneLess ==
  ASSUME NEW uz \in Nat, NEW vz \in Nat, NEW up \in Nat, NEW vp \in Nat, NEW uq \in Nat, NEW s \in Nat,
         uz - up = vz - vp, up = uq + s, uq = vp
  PROVE  vz = uz - s
BY SMTT(30)

\* d is c without its p-th entry.
Less(d, c, p) == \A i \in 1..Len(d) : d[i] = IF i < p THEN c[i] ELSE c[i + 1]

\* An entry that goes takes its length with it.
LEMMA UsedRemove ==
  ASSUME NEW c \in Seq(Held), NEW p \in 1..Len(c), NEW d \in Seq(Held), Len(d) = Len(c) - 1,
         Less(d, c, p)
  PROVE  R!Used(d) = R!Used(c) - Size[c[p].code.of]
<1> DEFINE u == R!UsedUpTo(c)
           v == R!UsedUpTo(d)
           r == Len(c) - p
<1>1. /\ Len(c) \in Nat /\ p \in Nat /\ p - 1 \in Nat /\ r \in Nat /\ Len(d) \in Nat
      /\ 0 + (p - 1) = p - 1 /\ p + r = Len(c) /\ (p - 1) + r = Len(d)
      /\ p - 1 <= Len(c) /\ p - 1 <= Len(d)
      /\ p - 1 \in 0..Len(c) /\ p - 1 \in 0..Len(d) /\ p \in 0..Len(c)
      /\ Len(c) \in 0..Len(c) /\ Len(d) \in 0..Len(d)
  BY SMTT(30)
<1>2. /\ u[p - 1] \in Nat /\ u[p] \in Nat /\ u[Len(c)] \in Nat /\ u[0] = 0
      /\ Size[c[p].code.of] \in Nat /\ u[p] = u[p - 1] + Size[c[p].code.of]
  BY <1>1, UsedFacts, ZenonT(30)
<1>3. v[p - 1] \in Nat /\ v[Len(d)] \in Nat /\ v[0] = 0
  BY <1>1, UsedFacts, ZenonT(30)
<1>4. u[0 + (p - 1)] - u[0] = v[0 + (p - 1)] - v[0]
  <2>1. ASSUME NEW j \in 1..(p - 1) PROVE c[0 + j] = d[0 + j]
    <3>1. 0 + j = j /\ j \in 1..Len(d) /\ j < p
      BY <1>1, SMTT(30)
    <3> QED BY <3>1, ZenonT(30) DEF Less
  <2>2. Matches(c, 0, d, 0, p - 1) /\ 0 \in Nat /\ 0 + (p - 1) <= Len(c) /\ 0 + (p - 1) <= Len(d)
    BY <1>1, <2>1, ZenonT(30) DEF Matches
  <2> HIDE DEF r
  <2> QED BY <1>1, <2>2, UsedShift, SMTT(30)
<1>5. u[p + r] - u[p] = v[(p - 1) + r] - v[p - 1]
  <2>1. ASSUME NEW j \in 1..r PROVE c[p + j] = d[(p - 1) + j]
    <3>1. (p - 1) + j \in 1..Len(d) /\ ~((p - 1) + j < p) /\ ((p - 1) + j) + 1 = p + j
      BY <1>1, SMTT(30)
    <3> QED BY <3>1, ZenonT(30) DEF Less
  <2>2. Matches(c, p, d, p - 1, r)
    BY <2>1, ZenonT(30) DEF Matches
  <2> HIDE DEF r
  <2> QED BY <1>1, <2>2, UsedShift, SMTT(30), Z3T(30)
<1> HIDE DEF u, v, r
<1>6. u[p - 1] = v[p - 1]
  BY <1>1, <1>2, <1>3, <1>4, SMTT(30), Z3T(30)
<1>7. u[Len(c)] - u[p] = v[Len(d)] - v[p - 1]
  BY <1>1, <1>5, ZenonT(30)
<1>8. v[Len(d)] = u[Len(c)] - Size[c[p].code.of]
  <2> DEFINE uz == u[Len(c)]
             vz == v[Len(d)]
             up == u[p]
             vp == v[p - 1]
             uq == u[p - 1]
             s == Size[c[p].code.of]
  <2>1. /\ uz \in Nat /\ vz \in Nat /\ up \in Nat /\ vp \in Nat /\ uq \in Nat /\ s \in Nat
        /\ uz - up = vz - vp /\ up = uq + s /\ uq = vp
    BY <1>2, <1>3, <1>6, <1>7, ZenonT(30)
  <2> HIDE DEF uz, vz, up, vp, uq, s
  <2>2. vz = uz - s
    BY <2>1, OneLess, SMTT(30)
  <2> QED BY <2>2, ZenonT(30) DEF uz, vz, s
<1> QED BY <1>8, ZenonT(30) DEF u, v, R!Used

-----------------------------------------------------------------------------
(* ... and what its operations leave.                                        *)

\* Each key once, with code made from its source.
WellKept(c) ==
  /\ \A i, j \in 1..Len(c) : c[i].key = c[j].key => i = j
  /\ \A i \in 1..Len(c) : c[i].code = R!CodeOf(c[i].key.source)
\* A cache within its limits, b its bytes.
Counted(c, b) ==
  /\ c \in Seq(Held) /\ WellKept(c)
  /\ b = R!Used(c) /\ b <= MAX_BYTES /\ Len(c) <= MAX_ENTRIES

\* A key of the cache has its place there.
LEMMA PositionFacts ==
  ASSUME cache \in Seq(Held), NEW k \in R!Keys
  PROVE  /\ R!Position(k) \in 1..Len(cache) /\ R!Entry(k) \in Held /\ R!Entry(k).key = k
         /\ R!Entry(k) = cache[R!Position(k)]
<1>1. \E i \in DOMAIN cache : cache[i].key = k
  BY ZenonT(30) DEF R!Keys
<1>2. R!Position(k) \in DOMAIN cache /\ cache[R!Position(k)].key = k
  BY <1>1, ZenonT(30) DEF R!Position
<1> QED BY <1>2, SMTT(30) DEF R!Entry

\* Map.delete: the other entries keep their order, and the bytes go.
LEMMA WithoutFacts ==
  ASSUME cache \in Seq(Held), WellKept(cache), NEW k
  PROVE  /\ R!Without(k) \in Seq(Held) /\ WellKept(R!Without(k))
         /\ Len(R!Without(k)) = Len(cache) - (IF k \in R!Keys THEN 1 ELSE 0)
         /\ \A i \in 1..Len(R!Without(k)) : R!Without(k)[i].key # k
         /\ R!Used(R!Without(k)) = R!Used(cache) - (IF k \in R!Keys THEN Size[R!Entry(k).code.of] ELSE 0)
<1> DEFINE w == R!Without(k)
<1>1. Len(cache) \in Nat /\ DOMAIN cache = 1..Len(cache) /\ R!Used(cache) \in Nat
  <2>1. Len(cache) \in 0..Len(cache)
    BY SMTT(30)
  <2> QED BY <2>1, UsedFacts, SMTT(30) DEF R!Used
<1>2. CASE k \notin R!Keys
  <2>1. w = cache
    BY <1>2, ZenonT(30) DEF R!Without
  <2>2. \A i \in 1..Len(cache) : cache[i].key # k
    BY <1>1, <1>2, ZenonT(30) DEF R!Keys
  <2> HIDE DEF w
  <2>3. /\ w \in Seq(Held) /\ WellKept(w) /\ Len(w) = Len(cache) - 0 /\ R!Used(w) = R!Used(cache) - 0
        /\ \A i \in 1..Len(w) : w[i].key # k
    BY <1>1, <2>1, <2>2, SMTT(30)
  <2> QED BY <1>2, <2>3, ZenonT(30) DEF w
<1>3. CASE k \in R!Keys
  <2> DEFINE p == R!Position(k)
  <2>1. p \in 1..Len(cache) /\ cache[p].key = k /\ R!Entry(k) = cache[p]
    BY <1>3, PositionFacts, ZenonT(30)
  <2>2. w = [i \in 1..(Len(cache) - 1) |-> IF i < p THEN cache[i] ELSE cache[i + 1]]
    BY <1>3, ZenonT(30) DEF R!Without
  <2> HIDE DEF w, p
  <2>3. Len(cache) - 1 \in Nat /\ p \in Nat
    BY <1>1, <2>1, SMTT(30)
  <2>4. ASSUME NEW i \in 1..(Len(cache) - 1)
        PROVE  i \in 1..Len(cache) /\ i + 1 \in 1..Len(cache) /\ i \in Nat /\ (IF i < p THEN cache[i] ELSE cache[i + 1]) \in Held
    BY <1>1, SMTT(30)
  <2>5. w \in Seq(Held) /\ Len(w) = Len(cache) - 1 /\ DOMAIN w = 1..(Len(cache) - 1)
    <3>1. w \in [1..(Len(cache) - 1) -> Held]
      BY <2>2, <2>4, ZenonT(30)
    <3> QED BY <2>3, <3>1, SMTT(30)
  <2>6. Less(w, cache, p)
    BY <2>2, <2>5, ZenonT(30) DEF Less
  <2>7. R!Used(w) = R!Used(cache) - Size[cache[p].code.of]
    BY <2>1, <2>5, <2>6, UsedRemove, ZenonT(30)
  <2> DEFINE At(i) == IF i < p THEN i ELSE i + 1
  <2>8. \A i \in 1..Len(w) : At(i) \in 1..Len(cache) /\ w[i] = cache[At(i)] /\ At(i) # p
    BY <2>1, <2>3, <2>4, <2>5, <2>6, SMTT(30), Z3T(30) DEF Less
  <2>9. \A i, j \in 1..Len(w) : At(i) = At(j) => i = j
    BY <2>3, <2>5, SMTT(30)
  <2> HIDE DEF At
  <2>10. ASSUME NEW i \in 1..Len(w) PROVE w[i].key # k /\ w[i].code = R!CodeOf(w[i].key.source)
    <3>1. At(i) \in 1..Len(cache) /\ w[i] = cache[At(i)] /\ At(i) # p
      BY <2>8, ZenonT(30)
    <3> QED BY <2>1, <3>1, ZenonT(30) DEF WellKept
  <2>11. ASSUME NEW i \in 1..Len(w), NEW j \in 1..Len(w), w[i].key = w[j].key PROVE i = j
    <3>1. /\ At(i) \in 1..Len(cache) /\ w[i] = cache[At(i)]
          /\ At(j) \in 1..Len(cache) /\ w[j] = cache[At(j)]
      BY <2>8, ZenonT(30)
    <3>2. At(i) = At(j)
      BY <2>11, <3>1, ZenonT(30) DEF WellKept
    <3> QED BY <2>9, <3>2, ZenonT(30)
  <2>12. WellKept(w) /\ \A i \in 1..Len(w) : w[i].key # k
    BY <2>10, <2>11, ZenonT(30) DEF WellKept
  <2> QED BY <1>3, <2>1, <2>5, <2>7, <2>12, ZenonT(30) DEF w
<1> QED BY <1>2, <1>3, ZenonT(30)

\* Map.set of a key that is not there.
LEMMA AppendSound ==
  ASSUME NEW c \in Seq(Held), WellKept(c), NEW e \in Held, \A i \in 1..Len(c) : c[i].key # e.key,
         e.code = R!CodeOf(e.key.source)
  PROVE  WellKept(Append(c, e))
<1> DEFINE d == Append(c, e)
<1>1. Len(c) \in Nat /\ Len(d) = Len(c) + 1 /\ \A i \in 1..Len(d) : d[i] = IF i = Len(c) + 1 THEN e ELSE c[i]
  BY SMTT(30)
<1> HIDE DEF d
<1>2. \A i \in 1..Len(d) : i # Len(c) + 1 => i \in 1..Len(c)
  BY <1>1, SMTT(30)
<1>3. ASSUME NEW i \in 1..Len(d), NEW j \in 1..Len(d), d[i].key = d[j].key PROVE i = j
  BY <1>1, <1>2, <1>3, ZenonT(30) DEF WellKept
<1>4. \A i \in 1..Len(d) : d[i].code = R!CodeOf(d[i].key.source)
  BY <1>1, <1>2, ZenonT(30) DEF WellKept
<1> QED BY <1>3, <1>4, ZenonT(30) DEF d, WellKept

\* A part of a sound cache is sound.
LEMMA PartSound ==
  ASSUME NEW c \in Seq(Held), WellKept(c), NEW m \in 0..Len(c)
  PROVE  LET d == SubSeq(c, m + 1, Len(c))
         IN d \in Seq(Held) /\ WellKept(d) /\ Len(d) = Len(c) - m /\ Matches(c, m, d, 0, Len(c) - m)
<1> DEFINE d == SubSeq(c, m + 1, Len(c))
<1>1. Len(c) \in Nat /\ m \in Nat /\ Len(c) - m \in Nat /\ m + 1 \in 1..(Len(c) + 1)
  BY SMTT(30)
<1>2. d \in Seq(Held) /\ Len(d) = Len(c) - m /\ \A i \in 1..(Len(c) - m) : d[i] = c[i + m]
  <2>1. Len(d) = Len(c) - m
    BY <1>1, SMTT(30)
  <2>2. ASSUME NEW i \in 1..(Len(c) - m) PROVE d[i] = c[i + m] /\ d[i] \in Held
    <3>1. i + m \in 1..Len(c) /\ (m + 1) + i - 1 = i + m
      BY <1>1, SMTT(30)
    <3> QED BY <1>1, <3>1, SMTT(30)
  <2>3. d \in Seq(Held)
    BY <1>1, SMTT(30)
  <2> QED BY <2>1, <2>2, <2>3, ZenonT(30)
<1> HIDE DEF d
<1>3. \A i \in 1..(Len(c) - m) : i + m \in 1..Len(c) /\ i + m = m + i /\ 0 + i = i
  BY <1>1, SMTT(30)
<1>4. Matches(c, m, d, 0, Len(c) - m)
  BY <1>2, <1>3, ZenonT(30) DEF Matches
<1>5. \A i, j \in 1..(Len(c) - m) : i + m = j + m => i = j
  BY <1>1, SMTT(30)
<1>6. WellKept(d)
  <2>1. ASSUME NEW i \in 1..(Len(c) - m), NEW j \in 1..(Len(c) - m), d[i].key = d[j].key PROVE i = j
    <3>1. d[i] = c[i + m] /\ d[j] = c[j + m] /\ i + m \in 1..Len(c) /\ j + m \in 1..Len(c)
      BY <1>2, <1>3, ZenonT(30)
    <3>2. i + m = j + m
      BY <2>1, <3>1, ZenonT(30) DEF WellKept
    <3> QED BY <1>5, <3>2, ZenonT(30)
  <2>2. ASSUME NEW i \in 1..(Len(c) - m) PROVE d[i].code = R!CodeOf(d[i].key.source)
    BY <1>2, <1>3, SMTT(30), Z3T(30) DEF WellKept
  <2> QED BY <1>2, <2>1, <2>2, ZenonT(30) DEF WellKept
<1> QED BY <1>2, <1>4, <1>6, ZenonT(30) DEF d

\* The loop of rewriteCacheSet: the oldest entries go until the limits hold,
\* and the bytes with them.
LEMMA EvictedFacts ==
  ASSUME NEW c \in Seq(Held), WellKept(c)
  PROVE  Counted(R!evicted(c, R!Used(c)).entries, R!evicted(c, R!Used(c)).size)
<1> DEFINE u == R!UsedUpTo(c)
           b == R!Used(c)
           Fits(j) == Len(c) - j <= MAX_ENTRIES /\ b - u[j] <= MAX_BYTES
           m == CHOOSE j \in 0..Len(c) : Fits(j) /\ \A h \in 0..(j - 1) : ~Fits(h)
           d == SubSeq(c, m + 1, Len(c))
<1>1. Len(c) \in Nat /\ Len(c) \in 0..Len(c) /\ \A j \in 0..Len(c) : u[j] \in Nat
  BY UsedFacts, SMTT(30), Z3T(30)
<1>2. b = u[Len(c)]
  BY ZenonT(30) DEF R!Used
<1>3. R!evicted(c, b) = [entries |-> d, size |-> b - u[m]]
  BY ZenonT(30) DEF R!evicted
<1> HIDE DEF u, b
<1>4. \E j \in 0..Len(c) : Fits(j) /\ \A h \in 0..(j - 1) : ~Fits(h)
  <2> DEFINE T == {j \in 0..Len(c) : Fits(j)}
  <2>1. Fits(Len(c))
    BY <1>1, <1>2, RewriteAssumption, SMTT(30)
  <2> HIDE DEF Fits
  <2>2. Len(c) \in T /\ T \subseteq Nat
    BY <1>1, <2>1, SMTT(30)
  <2>3. PICK j \in T : \A y \in T : j <= y
    BY <2>2, LeastNat, ZenonT(30)
  <2>4. j \in 0..Len(c) /\ Fits(j)
    BY <2>3, ZenonT(30)
  <2>5. ASSUME NEW h \in 0..(j - 1) PROVE ~Fits(h)
    <3>1. h \in 0..Len(c) /\ ~(j <= h)
      BY <1>1, <2>4, SMTT(30)
    <3> QED BY <2>3, <3>1, ZenonT(30)
  <2> QED BY <2>4, <2>5, ZenonT(30)
<1>5. m \in 0..Len(c) /\ Fits(m)
  <2> HIDE DEF Fits
  <2> QED BY <1>4, ZenonT(30)
<1> HIDE DEF m
<1>6. d \in Seq(Held) /\ WellKept(d) /\ Len(d) = Len(c) - m /\ Matches(c, m, d, 0, Len(c) - m)
  BY <1>5, PartSound, ZenonT(30)
<1> HIDE DEF d
<1>7. R!Used(d) = b - u[m]
  <2> DEFINE n == Len(c) - m
  <2>1. /\ m \in Nat /\ n \in Nat /\ 0 \in Nat /\ m + n = Len(c) /\ 0 + n = n /\ Len(d) = n /\ 0 + n <= Len(d) /\ m + n <= Len(c)
        /\ n \in 0..Len(d)
    BY <1>1, <1>5, <1>6, SMTT(30)
  <2> HIDE DEF n
  <2>2. Matches(c, m, d, 0, n)
    BY <1>6, ZenonT(30) DEF n
  <2>3. R!UsedUpTo(c)[m + n] - R!UsedUpTo(c)[m] = R!UsedUpTo(d)[0 + n] - R!UsedUpTo(d)[0]
    BY <1>6, <2>1, <2>2, UsedShift, SMTT(30)
  <2>4. R!UsedUpTo(d)[0] = 0 /\ R!UsedUpTo(d)[n] \in Nat
    BY <1>6, <2>1, UsedFacts, ZenonT(30)
  <2>5. R!Used(d) = R!UsedUpTo(d)[n]
    BY <2>1, ZenonT(30) DEF R!Used
  <2>6. u[Len(c)] - u[m] = R!UsedUpTo(d)[n] - 0
    BY <2>1, <2>3, <2>4, ZenonT(30) DEF u
  <2> QED BY <1>2, <2>4, <2>5, <2>6, SMTT(30)
<1>8. Counted(d, b - u[m])
  BY <1>5, <1>6, <1>7, ZenonT(30) DEF Counted
<1> QED BY <1>3, <1>8, SMTT(30) DEF b

\* rewriteCacheGet: the entry becomes the newest.
LEMMA GetKeeps ==
  ASSUME Counted(cache, bytes), NEW k \in R!Keys, R!rewriteCacheGet(k)
  PROVE  Counted(cache, bytes)'
<1> DEFINE w == R!Without(k)
           e == R!Entry(k)
<1>1. cache \in Seq(Held) /\ WellKept(cache) /\ bytes = R!Used(cache) /\ Len(cache) \in Nat
  BY SMTT(30) DEF Counted
<1>2. e \in Held /\ e.key = k /\ e.code = R!CodeOf(e.key.source) /\ Size[e.code.of] \in Nat
  <2>1. R!Position(k) \in 1..Len(cache) /\ e \in Held /\ e.key = k /\ e = cache[R!Position(k)]
    BY <1>1, PositionFacts, ZenonT(30)
  <2>2. Size[e.code.of] \in Nat
    BY <2>1, RewriteAssumption, ZenonT(30) DEF Held, Code
  <2> HIDE DEF e
  <2> QED BY <1>1, <2>1, <2>2, ZenonT(30) DEF WellKept
<1>3. /\ w \in Seq(Held) /\ WellKept(w) /\ Len(w) = Len(cache) - 1 /\ \A i \in 1..Len(w) : w[i].key # k
      /\ R!Used(w) = R!Used(cache) - Size[e.code.of]
  BY <1>1, WithoutFacts, ZenonT(30)
<1>4. cache' = Append(w, e) /\ bytes' = bytes
  BY ZenonT(30) DEF R!rewriteCacheGet
<1> HIDE DEF w, e
<1>5. /\ Append(w, e) \in Seq(Held) /\ R!Used(Append(w, e)) = R!Used(w) + Size[e.code.of]
      /\ R!Used(w) \in Nat /\ WellKept(Append(w, e))
  BY <1>2, <1>3, UsedAppend, AppendSound, ZenonT(30)
<1>6. Len(Append(w, e)) = Len(cache)
  BY <1>1, <1>3, SMTT(30)
<1>7. R!Used(cache) \in Nat
  <2>1. Len(cache) \in 0..Len(cache)
    BY <1>1, SMTT(30)
  <2> QED BY <1>1, <2>1, UsedFacts, ZenonT(30) DEF R!Used
<1>8. R!Used(Append(w, e)) = bytes
  BY <1>1, <1>2, <1>3, <1>5, <1>7, SMTT(30), Z3T(30)
<1> QED BY <1>1, <1>4, <1>5, <1>6, <1>8, ZenonT(30) DEF Counted, WellKept

\* rewriteCacheSet: the entry is replaced, counted, and others make room.
LEMMA SetKeeps ==
  ASSUME Counted(cache, bytes), NEW k \in CodeKey, R!rewriteCacheSet(k, R!CodeOf(k.source))
  PROVE  Counted(cache, bytes)'
<1> DEFINE w == R!Without(k)
           e == [key |-> k, code |-> R!CodeOf(k.source)]
           c == Append(w, e)
           size == Size[R!CodeOf(k.source).of]
           prev == IF k \in R!Keys THEN Size[R!Entry(k).code.of] ELSE 0
<1>1. cache \in Seq(Held) /\ WellKept(cache) /\ bytes = R!Used(cache) /\ R!Used(cache) \in Nat
  <2>1. cache \in Seq(Held) /\ WellKept(cache) /\ bytes = R!Used(cache) /\ Len(cache) \in 0..Len(cache)
    BY SMTT(30) DEF Counted
  <2> QED BY <2>1, UsedFacts, ZenonT(30) DEF R!Used
<1>2. CASE size > MAX_BYTES
  <2>1. cache' = cache /\ bytes' = bytes
    BY <1>2, ZenonT(30) DEF R!rewriteCacheSet
  <2> QED BY <2>1, ZenonT(30) DEF Counted, WellKept
<1>3. CASE ~(size > MAX_BYTES)
  <2>1. cache' = R!evicted(c, bytes - prev + size).entries /\ bytes' = R!evicted(c, bytes - prev + size).size
    BY <1>3, ZenonT(30) DEF R!rewriteCacheSet
  <2>2. e \in Held /\ e.key = k /\ e.code = R!CodeOf(e.key.source) /\ size = Size[e.code.of] /\ size \in Nat
    BY RewriteAssumption, ZenonT(30) DEF CodeKey, Held, Code, R!CodeOf
  <2>3. /\ w \in Seq(Held) /\ WellKept(w) /\ \A i \in 1..Len(w) : w[i].key # k
        /\ R!Used(w) = R!Used(cache) - prev
    BY <1>1, WithoutFacts, ZenonT(30)
  <2> HIDE DEF w, e, size, prev
  <2>4. c \in Seq(Held) /\ WellKept(c) /\ R!Used(c) = R!Used(w) + size /\ R!Used(w) \in Nat
    BY <2>2, <2>3, UsedAppend, AppendSound, ZenonT(30)
  <2> HIDE DEF c
  <2>5. R!Used(c) = bytes - prev + size
    BY <1>1, <2>3, <2>4, ZenonT(30)
  <2>6. Counted(cache', bytes')
    BY <2>1, <2>4, <2>5, EvictedFacts, ZenonT(30)
  <2> QED BY <2>6, ZenonT(30) DEF Counted, WellKept
<1> QED BY <1>2, <1>3, ZenonT(30)

-----------------------------------------------------------------------------
(* Documents.                                                                *)

DocPcs == {"waits", "try", "tryinit", "open", "peek", "pipe", "buffer", "drain", "transform", "init",
           "make", "done"}
Part == [chunk: Nat, rewritten: {TRUE}]
Document ==
  [pc: DocPcs, stream: BOOLEAN, charset: {"none", "utf-8", "other"}, read: 0..Chunks,
   held: Seq(Nat), out: Seq(Part), end: {"open", "closed", "passed", "refused", "errored"}]

\* What has been given is made of the first chunks.
InOrder(x) == \A i \in 1..Len(x.out) : x.out[i] = R!Made(i)
\* The chunks kept back come next.
Ahead(x) ==
  /\ Len(x.out) + Len(x.held) = x.read
  /\ \A i \in 1..Len(x.held) : x.held[i] = Len(x.out) + i
DocOK(x) ==
  /\ x \in Document /\ InOrder(x)
  /\ x.pc # "done" => x.end = "open" /\ Ahead(x)
  /\ x.pc \notin {"done", "pipe"} => x.out = << >>
  /\ x.pc \in {"waits", "try", "tryinit", "open", "peek"} => x.read = 0
  /\ x.pc \in {"transform", "init", "make"} => x.read = Chunks
  /\ x.end = "closed" => Len(x.out) = Chunks
  /\ x.end \in {"refused", "passed"} => x.out = << >>

\* The program counter alone moves on.
LEMMA PcKeeps ==
  ASSUME NEW x, DocOK(x), x.pc # "done", NEW pc \in DocPcs \ {"done"},
         pc \in {"waits", "try", "tryinit", "open", "peek"} => x.read = 0,
         pc \in {"transform", "init", "make"} => x.read = Chunks,
         pc # "pipe" => x.out = << >>
  PROVE  DocOK([x EXCEPT !.pc = pc])
<1> DEFINE y == [x EXCEPT !.pc = pc]
<1>1. /\ y \in Document /\ y.pc = pc /\ y.read = x.read /\ y.held = x.held /\ y.out = x.out
      /\ y.end = x.end
  BY ZenonT(30) DEF DocOK, Document, DocPcs
<1> HIDE DEF y
<1> QED BY <1>1, ZenonT(30) DEF DocOK, InOrder, Ahead, y

\* A response ends.
LEMMA EndKeeps ==
  ASSUME NEW x, DocOK(x), NEW end \in {"closed", "passed", "refused", "errored"},
         end = "closed" => Len(x.out) = Chunks, end \in {"refused", "passed"} => x.out = << >>
  PROVE  DocOK(R!Ended(x, end))
<1> DEFINE y == R!Ended(x, end)
<1>1. y \in Document /\ y.pc = "done" /\ y.out = x.out /\ y.end = end
  <2>1. << >> \in Seq(Nat) /\ x \in Document
    BY SMTT(30) DEF DocOK
  <2> QED BY <2>1, ZenonT(30) DEF Document, DocPcs, R!Ended
<1> HIDE DEF y
<1> QED BY <1>1, ZenonT(30) DEF DocOK, InOrder, y

\* One more chunk is read and kept back.
LEMMA TakeKeeps ==
  ASSUME NEW x, DocOK(x), x.pc # "done", x.read < Chunks, NEW pc \in {"buffer", "drain", "pipe"},
         x.out = << >>, NEW y, y = [x EXCEPT !.read = @ + 1, !.held = Append(@, x.read + 1), !.pc = pc]
  PROVE  DocOK(y)
<1>1. /\ x \in Document /\ x.read \in 0..Chunks /\ x.held \in Seq(Nat) /\ Ahead(x) /\ x.end = "open"
      /\ Len(x.out) = 0 /\ Len(x.held) = x.read /\ \A i \in 1..Len(x.held) : x.held[i] = i
  <2>1. /\ x \in Document /\ x.read \in 0..Chunks /\ x.held \in Seq(Nat) /\ Ahead(x) /\ x.end = "open"
        /\ Len(x.out) = 0
    BY ZenonT(30) DEF DocOK, Document
  <2>2. Len(x.held) \in Nat /\ \A i \in 1..Len(x.held) : 0 + i = i
    BY <2>1, SMTT(30)
  <2>3. Len(x.held) = x.read /\ \A i \in 1..Len(x.held) : x.held[i] = i
    BY <2>1, <2>2, SMTT(30) DEF Ahead
  <2> QED BY <2>1, <2>3, ZenonT(30)
<1>2. x.read + 1 \in 0..Chunks /\ x.read + 1 \in Nat /\ x.read \in Nat
  BY <1>1, RewriteAssumption, SMTT(30), Z3T(30)
<1>3. /\ Append(x.held, x.read + 1) \in Seq(Nat) /\ Len(Append(x.held, x.read + 1)) = x.read + 1
      /\ \A i \in 1..(x.read + 1) : Append(x.held, x.read + 1)[i] = i
  BY <1>1, <1>2, SMTT(30)
<1>4. /\ y \in Document /\ y.pc = pc /\ y.read = x.read + 1 /\ y.held = Append(x.held, x.read + 1)
      /\ y.out = << >> /\ y.end = "open"
  BY <1>1, <1>2, <1>3, ZenonT(30) DEF Document, DocPcs
<1>5. Ahead(y)
  <2>1. Len(y.out) = 0 /\ Len(y.held) = x.read + 1 /\ 0 + (x.read + 1) = x.read + 1
    BY <1>2, <1>3, <1>4, SMTT(30)
  <2>2. ASSUME NEW i \in 1..(x.read + 1) PROVE y.held[i] = 0 + i
    BY <1>2, <1>3, <1>4, SMTT(30), Z3T(30)
  <2> QED BY <1>4, <2>1, <2>2, ZenonT(30) DEF Ahead
<1>6. InOrder(y)
  BY <1>4, SMTT(30) DEF InOrder
<1> QED BY <1>4, <1>5, <1>6, ZenonT(30) DEF DocOK

\* transformHtml: all that was read, made.
LEMMA MakeKeeps ==
  ASSUME NEW x, DocOK(x), x.pc = "make", NEW y,
         y = [R!Ended(x, "closed") EXCEPT !.out = [i \in DOMAIN x.held |-> R!Made(x.held[i])]]
  PROVE  DocOK(y)
<1>1. x \in Document /\ Ahead(x) /\ x.out = << >> /\ x.read = Chunks /\ x.held \in Seq(Nat)
  BY ZenonT(30) DEF DocOK, Document
<1>2. Len(x.held) = Chunks /\ \A i \in 1..Chunks : x.held[i] = i
  <2>1. Len(x.held) \in Nat /\ Len(x.out) = 0 /\ \A i \in 1..Len(x.held) : 0 + i = i
    BY <1>1, SMTT(30)
  <2> QED BY <1>1, <2>1, SMTT(30) DEF Ahead
<1> DEFINE o == [i \in DOMAIN x.held |-> R!Made(x.held[i])]
<1>3. o \in Seq(Part) /\ Len(o) = Chunks /\ \A i \in 1..Chunks : o[i] = R!Made(i)
  <2>1. o = [i \in 1..Chunks |-> R!Made(i)]
    BY <1>1, <1>2, SMTT(30), Z3T(30)
  <2>2. \A i \in 1..Chunks : R!Made(i) \in Part
    BY RewriteAssumption, SMTT(30) DEF Part, R!Made
  <2>3. o \in [1..Chunks -> Part]
    BY <2>1, <2>2, ZenonT(30)
  <2> HIDE DEF o
  <2> QED BY <2>1, <2>3, RewriteAssumption, SMTT(30), Z3T(30)
<1> HIDE DEF o
<1>4. y \in Document /\ y.pc = "done" /\ y.out = o /\ y.end = "closed"
  <2>1. << >> \in Seq(Nat)
    BY SMTT(30)
  <2>2. y = [[x EXCEPT !.pc = "done", !.end = "closed", !.held = << >>] EXCEPT !.out = o]
    BY ZenonT(30) DEF R!Ended, o
  <2> QED BY <1>1, <1>3, <2>1, <2>2, ZenonT(30) DEF Document, DocPcs
<1> QED BY <1>3, <1>4, ZenonT(30) DEF DocOK, InOrder

\* HtmlTxn.write: the next chunk, made, is given to the page.
LEMMA WriteKeeps ==
  ASSUME NEW x, DocOK(x), x.pc = "pipe", NEW y \in Document, y.pc = "pipe", y.end = x.end,
         y.out = Append(x.out, R!Made(Len(x.out) + 1)), Ahead(y)
  PROVE  DocOK(y)
<1>1. x.out \in Seq(Part) /\ Len(x.out) \in Nat /\ InOrder(x) /\ x.end = "open"
  BY SMTT(30) DEF DocOK, Document
<1>2. \A i \in 1..(Len(x.out) + 1) : Append(x.out, R!Made(Len(x.out) + 1))[i] = R!Made(i)
  BY <1>1, SMTT(30) DEF InOrder
<1>3. Len(y.out) = Len(x.out) + 1
  BY <1>1, SMTT(30)
<1>4. InOrder(y)
  BY <1>2, <1>3, ZenonT(30) DEF InOrder
<1> QED BY <1>1, <1>4, ZenonT(30) DEF DocOK

DocsOK == doc \in [Docs -> Document] /\ \A d \in Docs : DocOK(doc[d])

\* A step of a document leaves the others, the scripts and the cache alone.
LEMMA StepKeeps ==
  ASSUME DocsOK, NEW d \in Docs, NEW x, DocOK(x), R!Step(d, x)
  PROVE  DocsOK' /\ UNCHANGED <<cache, bytes, script>>
<1>1. doc' = [doc EXCEPT ![d] = x] /\ UNCHANGED <<cache, bytes, script>> /\ x \in Document
  BY ZenonT(30) DEF R!Step, DocOK
<1>2. doc' \in [Docs -> Document] /\ \A e \in Docs : doc'[e] = IF e = d THEN x ELSE doc[e]
  BY <1>1, ZenonT(30) DEF DocsOK
<1>3. \A e \in Docs : DocOK(doc'[e])
  BY <1>2, ZenonT(30) DEF DocsOK
<1>4. DocsOK'
  BY <1>2, <1>3, ZenonT(30) DEF DocsOK, DocOK, InOrder, Ahead
<1> QED BY <1>1, <1>4, ZenonT(30)

\* Every step of a document.
LEMMA DocStepKeeps ==
  ASSUME DocsOK, NEW d \in Docs, R!DocStep(d)
  PROVE  DocsOK' /\ UNCHANGED <<cache, bytes, script>>
<1> DEFINE x == doc[d]
<1>1. DocOK(x) /\ x \in Document /\ x.pc \in DocPcs
  BY ZenonT(30) DEF DocsOK, DocOK, Document
<1>2. SUFFICES \E y : DocOK(y) /\ R!Step(d, y)
  BY StepKeeps, ZenonT(30)
<1>3. x.pc \notin {"done", "pipe"} => x.out = << >>
  BY <1>1, ZenonT(30) DEF DocOK
<1>4. CASE R!DocumentArrives(d)
  <2>1. x.pc = "waits"
    BY <1>4, ZenonT(30) DEF R!DocumentArrives
  <2>2. CASE R!Step(d, R!Ended(x, "passed"))
    BY <1>1, <1>3, <2>1, <2>2, EndKeeps, ZenonT(30)
  <2>3. ASSUME NEW stream \in BOOLEAN, NEW charset \in {"none", "utf-8", "other"}, NEW pc \in {"try", "buffer"},
               R!Step(d, [R!DocIdle EXCEPT !.pc = pc, !.stream = stream, !.charset = charset])
        PROVE  \E y : DocOK(y) /\ R!Step(d, y)
    <3> DEFINE y == [R!DocIdle EXCEPT !.pc = pc, !.stream = stream, !.charset = charset]
    <3>1. << >> \in Seq(Nat) /\ << >> \in Seq(Part) /\ 0 \in 0..Chunks /\ Len(<< >>) = 0
      BY RewriteAssumption, SMTT(30)
    <3>2. R!DocIdle \in Document
      BY <3>1, ZenonT(30) DEF Document, DocPcs, R!DocIdle
    <3>3. y \in Document
      BY <3>2, ZenonT(30) DEF Document, DocPcs
    <3>4. y.pc = pc /\ y.read = 0 /\ y.held = << >> /\ y.out = << >> /\ y.end = "open"
      BY ZenonT(30) DEF R!DocIdle
    <3> HIDE DEF y
    <3>5. DocOK(y)
      BY <3>1, <3>3, <3>4, SMTT(30) DEF DocOK, InOrder, Ahead
    <3> QED BY <2>3, <3>5, ZenonT(30) DEF y
  <2> QED BY <1>4, <2>2, <2>3, ZenonT(30) DEF R!DocumentArrives
<1>5. CASE R!AwaitBundle(d)
  <2>1. PICK pc \in {"open", "tryinit", "make", "init"} :
          /\ R!Step(d, [x EXCEPT !.pc = pc])
          /\ x.pc = "try" => pc \in {"open", "tryinit"}
          /\ x.pc # "try" => pc \in {"make", "init"} /\ x.pc = "transform"
          /\ x.pc \in {"try", "transform"}
    BY <1>5, ZenonT(30) DEF R!AwaitBundle
  <2>2. DocOK([x EXCEPT !.pc = pc])
    <3>1. /\ x.pc = "try" => x.read = 0
          /\ x.pc = "transform" => x.read = Chunks
      BY <1>1, ZenonT(30) DEF DocOK
    <3>2. pc \in DocPcs \ {"done"} /\ pc # "pipe"
      BY ZenonT(30) DEF DocPcs
    <3> HIDE DEF x
    <3> QED BY <1>1, <1>3, <2>1, <3>1, <3>2, PcKeeps, ZenonT(30)
  <2> QED BY <2>1, <2>2, ZenonT(30)
<1>6. CASE R!OpenStream(d)
  <2>1. PICK pc \in {"buffer", "peek", "pipe"} : x.pc = "open" /\ R!Step(d, [x EXCEPT !.pc = pc])
    BY <1>6, ZenonT(30) DEF R!OpenStream
  <2>2. DocOK([x EXCEPT !.pc = pc])
    <3>1. x.read = 0
      BY <1>1, <2>1, ZenonT(30) DEF DocOK
    <3>2. pc \in DocPcs \ {"done"} /\ pc \notin {"transform", "init", "make"}
      BY ZenonT(30) DEF DocPcs
    <3> HIDE DEF x
    <3> QED BY <1>1, <1>3, <2>1, <3>1, <3>2, PcKeeps, ZenonT(30)
  <2> QED BY <2>1, <2>2, ZenonT(30)
<1>7. CASE R!Peek(d)
  <2>1. PICK pc \in {"pipe", "drain"} :
          x.pc = "peek" /\ R!Step(d, [(IF R!More(d) THEN R!Taken(d) ELSE x) EXCEPT !.pc = pc])
    BY <1>7, ZenonT(30) DEF R!Peek
  <2>2. CASE R!More(d)
    <3> DEFINE y == [R!Taken(d) EXCEPT !.pc = pc]
    <3>1. y = [x EXCEPT !.read = @ + 1, !.held = Append(@, x.read + 1), !.pc = pc] /\ x.read < Chunks
      BY <1>1, <2>2, ZenonT(30) DEF R!Taken, R!More, Document
    <3>2. R!Step(d, y)
      BY <2>1, <2>2, ZenonT(30)
    <3> HIDE DEF x, y
    <3>3. DocOK(y)
      BY <1>1, <1>3, <2>1, <3>1, TakeKeeps, ZenonT(30)
    <3> QED BY <3>2, <3>3, ZenonT(30)
  <2>3. CASE ~R!More(d)
    <3>1. R!Step(d, [x EXCEPT !.pc = pc])
      BY <2>1, <2>3, ZenonT(30)
    <3>2. pc \in DocPcs \ {"done"} /\ pc \notin {"waits", "try", "tryinit", "open", "peek", "transform", "init", "make"}
      BY ZenonT(30) DEF DocPcs
    <3> HIDE DEF x
    <3>3. DocOK([x EXCEPT !.pc = pc])
      BY <1>1, <1>3, <2>1, <3>2, PcKeeps, ZenonT(30)
    <3> QED BY <3>1, <3>3, ZenonT(30)
  <2> QED BY <2>2, <2>3, ZenonT(30)
<1>8. CASE R!ReadChunk(d)
  <2>1. x.pc \in {"buffer", "drain"} /\ R!Step(d, IF R!More(d) THEN R!Taken(d) ELSE [x EXCEPT !.pc = "transform"])
    BY <1>8, ZenonT(30) DEF R!ReadChunk
  <2>2. CASE R!More(d)
    <3> DEFINE y == R!Taken(d)
               pc == x.pc
    <3>1. y = [x EXCEPT !.read = @ + 1, !.held = Append(@, x.read + 1), !.pc = pc] /\ x.read < Chunks
      BY <1>1, <2>2, ZenonT(30) DEF R!Taken, R!More, Document
    <3>2. R!Step(d, y)
      BY <2>1, <2>2, ZenonT(30)
    <3> HIDE DEF x, y
    <3>3. DocOK(y)
      BY <1>1, <1>3, <2>1, <3>1, TakeKeeps, ZenonT(30)
    <3> QED BY <3>2, <3>3, ZenonT(30)
  <2>3. CASE ~R!More(d)
    <3>1. R!Step(d, [x EXCEPT !.pc = "transform"])
      BY <2>1, <2>3, ZenonT(30)
    <3>2. "transform" \in DocPcs \ {"done"} /\ x.read = Chunks
      BY <1>1, <2>3, RewriteAssumption, SMTT(30), Z3T(30) DEF DocPcs, R!More, Document
    <3> HIDE DEF x
    <3>3. DocOK([x EXCEPT !.pc = "transform"])
      BY <1>1, <1>3, <2>1, <3>2, PcKeeps, ZenonT(30)
    <3> QED BY <3>1, <3>3, ZenonT(30)
  <2> QED BY <2>2, <2>3, ZenonT(30)
<1>9. CASE R!BodyFails(d)
  <2>1. x.pc \in {"buffer", "drain", "peek"} /\ R!Step(d, R!Ended(x, "refused"))
    BY <1>9, ZenonT(30) DEF R!BodyFails
  <2> QED BY <1>1, <1>3, <2>1, EndKeeps, ZenonT(30)
<1>10. CASE R!Transform(d)
  <2>1. x.pc = "make"
    BY <1>10, ZenonT(30) DEF R!Transform
  <2>2. CASE R!Step(d, R!Ended(x, "refused"))
    BY <1>1, <1>3, <2>1, <2>2, EndKeeps, ZenonT(30)
  <2>3. CASE R!Step(d, [R!Ended(x, "closed") EXCEPT !.out = [i \in DOMAIN x.held |-> R!Made(x.held[i])]])
    <3> DEFINE y == [R!Ended(x, "closed") EXCEPT !.out = [i \in DOMAIN x.held |-> R!Made(x.held[i])]]
    <3>1. DocOK(y)
      <4> HIDE DEF x
      <4> QED BY <1>1, <2>1, MakeKeeps, ZenonT(30)
    <3> QED BY <2>3, <3>1, ZenonT(30)
  <2> QED BY <1>10, <2>2, <2>3, ZenonT(30) DEF R!Transform
<1>11. CASE R!PipeChunk(d)
  <2>1. /\ x.pc = "pipe"
        /\ R!Step(d, IF x.held # << >>
                     THEN [x EXCEPT !.held = Tail(@), !.out = Append(@, R!Made(x.held[1]))]
                     ELSE IF R!More(d)
                     THEN [x EXCEPT !.read = @ + 1, !.out = Append(@, R!Made(x.read + 1))]
                     ELSE R!Ended(x, "closed"))
    BY <1>11, ZenonT(30) DEF R!PipeChunk
  <2>2. /\ x.held \in Seq(Nat) /\ x.out \in Seq(Part) /\ x.read \in 0..Chunks /\ Chunks \in Nat
        /\ Len(x.held) \in Nat /\ Len(x.out) \in Nat /\ Ahead(x)
    BY <1>1, <2>1, RewriteAssumption, SMTT(30), Z3T(30) DEF Document, DocOK
  <2>3. CASE x.held # << >>
    <3> DEFINE y == [x EXCEPT !.held = Tail(@), !.out = Append(@, R!Made(x.held[1]))]
    <3>1. /\ Tail(x.held) \in Seq(Nat) /\ Len(Tail(x.held)) = Len(x.held) - 1 /\ Len(x.held) > 0
          /\ \A i \in 1..(Len(x.held) - 1) : Tail(x.held)[i] = x.held[i + 1]
      BY <2>2, <2>3, SMTT(30), Z3T(30)
    <3>2. 1 \in 1..Len(x.held) /\ x.held[1] = Len(x.out) + 1 /\ R!Made(x.held[1]) \in Part
      BY <2>2, <3>1, SMTT(30), Z3T(30) DEF Ahead, Part, R!Made
    <3>3. /\ y \in Document /\ y.pc = "pipe" /\ y.end = x.end /\ y.held = Tail(x.held) /\ y.read = x.read
          /\ y.out = Append(x.out, R!Made(Len(x.out) + 1)) /\ Len(y.out) = Len(x.out) + 1
      <4>1. Append(x.out, R!Made(x.held[1])) \in Seq(Part) /\ Len(Append(x.out, R!Made(x.held[1]))) = Len(x.out) + 1
        BY <2>2, <3>2, SMTT(30)
      <4>2. /\ y \in Document /\ y.pc = "pipe" /\ y.end = x.end /\ y.held = Tail(x.held) /\ y.read = x.read
            /\ y.out = Append(x.out, R!Made(x.held[1]))
        <5> HIDE DEF x
        <5> QED BY <1>1, <2>1, <3>1, <4>1, ZenonT(30) DEF Document
      <4> QED BY <3>2, <4>1, <4>2, ZenonT(30)
    <3> HIDE DEF x, y
    <3>4. Ahead(y)
      <4>1. ASSUME NEW i \in 1..Len(y.held) PROVE y.held[i] = Len(y.out) + i
        <5>1. i \in 1..(Len(x.held) - 1) /\ i + 1 \in 1..Len(x.held) /\ Len(x.out) + (i + 1) = (Len(x.out) + 1) + i
          <6> DEFINE h == Len(x.held)
                     o == Len(x.out)
          <6>1. i \in 1..(h - 1) /\ h \in Nat /\ o \in Nat
            BY <2>2, <3>1, <3>3, ZenonT(30)
          <6> HIDE DEF h, o
          <6>2. i + 1 \in 1..h /\ o + (i + 1) = (o + 1) + i
            BY <6>1, SMTT(30)
          <6> QED BY <6>1, <6>2, ZenonT(30) DEF h, o
        <5>2. y.held[i] = x.held[i + 1] /\ x.held[i + 1] = Len(x.out) + (i + 1)
          BY <2>2, <3>1, <3>3, <5>1, ZenonT(30) DEF Ahead
        <5> QED BY <3>3, <5>1, <5>2, ZenonT(30)
      <4>2. Len(y.out) + Len(y.held) = y.read
        <5> DEFINE h == Len(x.held)
                   o == Len(x.out)
        <5>1. h \in Nat /\ o \in Nat /\ o + h = x.read /\ Len(y.out) = o + 1 /\ Len(y.held) = h - 1 /\ y.read = x.read
          BY <2>2, <3>1, <3>3, ZenonT(30) DEF Ahead
        <5> HIDE DEF h, o
        <5> QED BY <5>1, SMTT(30)
      <4> QED BY <4>1, <4>2, ZenonT(30) DEF Ahead
    <3>5. DocOK(y)
      BY <1>1, <2>1, <3>3, <3>4, WriteKeeps, ZenonT(30)
    <3>6. R!Step(d, y)
      BY <2>1, <2>3, ZenonT(30) DEF y
    <3> QED BY <3>5, <3>6, ZenonT(30)
  <2>4. CASE x.held = << >> /\ R!More(d)
    <3> DEFINE y == [x EXCEPT !.read = @ + 1, !.out = Append(@, R!Made(x.read + 1))]
    <3>1. x.read < Chunks /\ x.read = Len(x.out) /\ x.read + 1 \in 0..Chunks /\ R!Made(x.read + 1) \in Part
      BY <2>2, <2>4, SMTT(30), Z3T(30) DEF Ahead, Part, R!Made, R!More
    <3>2. /\ y \in Document /\ y.pc = "pipe" /\ y.end = x.end /\ y.held = << >> /\ y.read = x.read + 1
          /\ y.out = Append(x.out, R!Made(Len(x.out) + 1)) /\ Len(y.out) = Len(x.out) + 1
      <4>1. Append(x.out, R!Made(x.read + 1)) \in Seq(Part) /\ Len(Append(x.out, R!Made(x.read + 1))) = Len(x.out) + 1
        BY <2>2, <3>1, SMTT(30)
      <4>2. /\ y \in Document /\ y.pc = "pipe" /\ y.end = x.end /\ y.held = x.held /\ y.read = x.read + 1
            /\ y.out = Append(x.out, R!Made(x.read + 1))
        <5> HIDE DEF x
        <5> QED BY <1>1, <2>1, <3>1, <4>1, ZenonT(30) DEF Document
      <4> QED BY <2>4, <3>1, <4>1, <4>2, ZenonT(30)
    <3>3. R!Step(d, y)
      BY <2>1, <2>4, ZenonT(30)
    <3> HIDE DEF x, y
    <3>4. Ahead(y)
      BY <2>2, <3>1, <3>2, SMTT(30) DEF Ahead
    <3>5. DocOK(y)
      BY <1>1, <2>1, <3>2, <3>4, WriteKeeps, ZenonT(30)
    <3> QED BY <3>3, <3>5, ZenonT(30)
  <2>5. CASE x.held = << >> /\ ~R!More(d)
    <3>1. Len(x.out) = Chunks
      BY <2>2, <2>5, SMTT(30) DEF Ahead, R!More
    <3>2. R!Step(d, R!Ended(x, "closed"))
      BY <2>1, <2>5, ZenonT(30)
    <3> HIDE DEF x
    <3>3. DocOK(R!Ended(x, "closed"))
      BY <1>1, <3>1, EndKeeps, ZenonT(30)
    <3> QED BY <3>2, <3>3, ZenonT(30)
  <2> QED BY <2>3, <2>4, <2>5, ZenonT(30)
<1>12. CASE R!PipeFails(d)
  <2>1. R!Step(d, R!Ended(x, "errored"))
    BY <1>12, ZenonT(30) DEF R!PipeFails
  <2> QED BY <1>1, <2>1, EndKeeps, ZenonT(30)
<1> QED BY <1>4, <1>5, <1>6, <1>7, <1>8, <1>9, <1>10, <1>11, <1>12, ZenonT(30) DEF R!DocStep

-----------------------------------------------------------------------------
(* Scripts, the bundle, and the invariant.                                   *)

Waiting == [pc: {"waits"}]
Looking == [pc: {"digest", "init", "rewrite"}, key: CodeKey]
Answered == [pc: {"done"}, code: [rewritten: {TRUE}, of: DOMAIN Size \cup {"blocked"}]]
\* What a response's record says of its own source.
ScriptOK(r, x) ==
  \/ x \in Waiting
  \/ x \in Looking /\ x.key.source = Source[r]
  \/ x \in Answered /\ x.code \in {R!Blocked, R!CodeOf(Source[r])}
ScriptsOK ==
  /\ script \in [Scripts -> Waiting \cup Looking \cup Answered]
  /\ \A r \in Scripts : ScriptOK(r, script[r])

\* The inductive invariant.
RewriteInv ==
  /\ bundle \in {"none", "loading", "ready"}
  /\ ScriptsOK /\ DocsOK /\ Counted(cache, bytes)

\* A step of one script.
LEMMA ScriptKeeps ==
  ASSUME ScriptsOK, NEW r \in Scripts, NEW x, ScriptOK(r, x), script' = [script EXCEPT ![r] = x]
  PROVE  ScriptsOK'
<1>1. x \in Waiting \cup Looking \cup Answered
  BY ZenonT(30) DEF ScriptOK
<1>2. /\ script' \in [Scripts -> Waiting \cup Looking \cup Answered]
      /\ \A q \in Scripts : script'[q] = IF q = r THEN x ELSE script[q]
  BY <1>1, ZenonT(30) DEF ScriptsOK
<1>3. \A q \in Scripts : ScriptOK(q, script'[q])
  BY <1>2, ZenonT(30) DEF ScriptsOK
<1> QED BY <1>2, <1>3, ZenonT(30) DEF ScriptsOK, ScriptOK

\* An answer is a throw, or the response's own source rewritten.
LEMMA AnswerOK ==
  ASSUME NEW r \in Scripts, NEW code \in {R!Blocked, R!CodeOf(Source[r])}
  PROVE  ScriptOK(r, [pc |-> "done", code |-> code])
<1>1. code \in [rewritten: {TRUE}, of: DOMAIN Size \cup {"blocked"}]
  <2>1. Source[r] \in DOMAIN Size \cup {"blocked"} /\ "blocked" \in DOMAIN Size \cup {"blocked"}
    BY RewriteAssumption, ZenonT(30)
  <2>2. CASE code = R!Blocked
    BY <2>1, <2>2, ZenonT(30) DEF R!Blocked
  <2>3. CASE code = R!CodeOf(Source[r])
    BY <2>1, <2>3, ZenonT(30) DEF R!CodeOf
  <2> QED BY <2>2, <2>3, ZenonT(30)
<1> QED BY <1>1, ZenonT(30) DEF ScriptOK, Answered

\* The response is answered.
LEMMA DeliverKeeps ==
  ASSUME ScriptsOK, NEW r \in Scripts, NEW code \in {R!Blocked, R!CodeOf(Source[r])}, R!Deliver(r, code)
  PROVE  ScriptsOK'
<1> DEFINE x == [pc |-> "done", code |-> code]
<1>1. ScriptOK(r, x)
  BY AnswerOK, ZenonT(30)
<1>2. script' = [script EXCEPT ![r] = x]
  BY ZenonT(30) DEF R!Deliver
<1> HIDE DEF x
<1> QED BY <1>1, <1>2, ScriptKeeps, ZenonT(30)

\* Every step of a script.
LEMMA ScriptStepKeeps ==
  ASSUME RewriteInv, NEW r \in Scripts, R!ScriptStep(r)
  PROVE  RewriteInv'
<1>1. ScriptsOK /\ ScriptOK(r, script[r]) /\ Counted(cache, bytes) /\ bundle \in {"none", "loading", "ready"} /\ DocsOK
  BY ZenonT(30) DEF RewriteInv, ScriptsOK
<1>2. script[r].pc \in {"digest", "init", "rewrite"} =>
        script[r] \in Looking /\ script[r].key \in CodeKey /\ script[r].key.source = Source[r]
  BY <1>1, ZenonT(30) DEF ScriptOK, Waiting, Looking, Answered
<1>3. SUFFICES /\ ScriptsOK' /\ Counted(cache, bytes)' /\ bundle' \in {"none", "loading", "ready"}
               /\ doc' = doc
  BY <1>1, ZenonT(30) DEF RewriteInv, DocsOK, DocOK, InOrder, Ahead
<1>4. cache' = cache /\ bytes' = bytes => Counted(cache, bytes)'
  BY <1>1, ZenonT(30) DEF Counted, WellKept
<1>5. CASE R!ScriptArrives(r)
  <2>1. bundle' = bundle /\ cache' = cache /\ bytes' = bytes /\ doc' = doc
    BY <1>5, ZenonT(30) DEF R!ScriptArrives
  <2>2. CASE R!Deliver(r, R!Blocked)
    <3>1. R!Blocked \in {R!Blocked, R!CodeOf(Source[r])}
      BY ZenonT(30)
    <3>2. ScriptsOK'
      BY <1>1, <2>2, <3>1, DeliverKeeps, ZenonT(30)
    <3> QED BY <1>1, <1>4, <2>1, <3>2, ZenonT(30)
  <2>3. CASE script' = [script EXCEPT ![r] = [pc |-> "digest", key |-> R!CacheKey(Source[r], bundle = "ready")]]
    <3> DEFINE x == [pc |-> "digest", key |-> R!CacheKey(Source[r], bundle = "ready")]
    <3>1. (bundle = "ready") \in BOOLEAN /\ Source[r] \in DOMAIN Size
      BY RewriteAssumption, ZenonT(30)
    <3>2. ScriptOK(r, x)
      BY <3>1, ZenonT(30) DEF ScriptOK, Looking, CodeKey, R!CacheKey
    <3> HIDE DEF x
    <3>3. ScriptsOK'
      BY <1>1, <2>3, <3>2, ScriptKeeps, ZenonT(30) DEF x
    <3> QED BY <1>1, <1>4, <2>1, <3>3, ZenonT(30)
  <2> QED BY <1>5, <2>2, <2>3, ZenonT(30) DEF R!ScriptArrives
<1>6. CASE R!CacheHit(r)
  <2> DEFINE k == script[r].key
  <2>1. /\ script[r].pc = "digest" /\ k \in R!Keys /\ R!Deliver(r, R!Entry(k).code)
        /\ R!rewriteCacheGet(k) /\ bundle' = bundle /\ doc' = doc
    BY <1>6, ZenonT(30) DEF R!CacheHit
  <2>2. Counted(cache, bytes)'
    BY <1>1, <2>1, GetKeeps, ZenonT(30)
  <2>3. R!Entry(k).code = R!CodeOf(Source[r])
    <3>1. R!Entry(k) = cache[R!Position(k)] /\ R!Position(k) \in 1..Len(cache) /\ R!Entry(k).key = k
      BY <1>1, <2>1, PositionFacts, ZenonT(30) DEF Counted
    <3>2. k.source = Source[r]
      BY <1>2, <2>1, ZenonT(30)
    <3> HIDE DEF k
    <3> QED BY <1>1, <3>1, <3>2, ZenonT(30) DEF Counted, WellKept
  <2>4. ScriptsOK'
    BY <1>1, <2>1, <2>3, DeliverKeeps, ZenonT(30)
  <2> QED BY <1>1, <2>1, <2>2, <2>4, ZenonT(30)
<1>7. CASE R!CacheMiss(r)
  <2>1. PICK pc \in {"rewrite", "init"} :
          script[r].pc = "digest" /\ script' = [script EXCEPT ![r].pc = pc]
    BY <1>7, ZenonT(30) DEF R!CacheMiss
  <2>2. bundle' \in {"none", "loading", "ready"} /\ cache' = cache /\ bytes' = bytes /\ doc' = doc
    BY <1>1, <1>7, ZenonT(30) DEF R!CacheMiss
  <2> DEFINE x == [script[r] EXCEPT !.pc = pc]
  <2>3. ScriptOK(r, x)
    BY <1>2, <2>1, ZenonT(30) DEF ScriptOK, Looking
  <2>4. script' = [script EXCEPT ![r] = x]
    BY <2>1, ZenonT(30)
  <2> HIDE DEF x
  <2>5. ScriptsOK'
    BY <1>1, <2>3, <2>4, ScriptKeeps, ZenonT(30)
  <2> QED BY <1>4, <2>2, <2>5, ZenonT(30)
<1>8. CASE R!RewriteScript(r)
  <2>1. script[r].pc = "rewrite" /\ bundle' = bundle /\ doc' = doc
    BY <1>8, ZenonT(30) DEF R!RewriteScript
  <2>2. CASE R!Deliver(r, R!Blocked) /\ UNCHANGED <<cache, bytes>>
    <3>1. R!Blocked \in {R!Blocked, R!CodeOf(Source[r])}
      BY ZenonT(30)
    <3>2. ScriptsOK'
      BY <1>1, <2>2, <3>1, DeliverKeeps, ZenonT(30)
    <3> QED BY <1>1, <1>4, <2>1, <2>2, <3>2, ZenonT(30)
  <2>3. CASE R!Deliver(r, R!rewritten(r)) /\ R!rewriteCacheSet(script[r].key, R!rewritten(r))
    <3> DEFINE k == script[r].key
    <3>1. R!rewritten(r) = R!CodeOf(k.source) /\ R!rewritten(r) = R!CodeOf(Source[r]) /\ k \in CodeKey
      BY <1>2, <2>1, ZenonT(30) DEF R!rewritten
    <3>2. ScriptsOK'
      BY <1>1, <2>3, <3>1, DeliverKeeps, ZenonT(30)
    <3>3. R!rewriteCacheSet(k, R!CodeOf(k.source))
      BY <2>3, <3>1, ZenonT(30)
    <3>4. Counted(cache, bytes)'
      BY <1>1, <3>1, <3>3, SetKeeps, ZenonT(30)
    <3> QED BY <1>1, <2>1, <3>2, <3>4, ZenonT(30)
  <2> QED BY <1>8, <2>2, <2>3, ZenonT(30) DEF R!RewriteScript
<1> QED BY <1>5, <1>6, <1>7, <1>8, ZenonT(30) DEF R!ScriptStep

\* The bundle's load ends: who waits for it goes on, or fails.
LEMMA BundleKeeps ==
  ASSUME RewriteInv, R!BundleStep
  PROVE  RewriteInv'
<1>1. ScriptsOK /\ Counted(cache, bytes) /\ DocsOK
  BY ZenonT(30) DEF RewriteInv
<1>2. bundle' \in {"none", "ready"} /\ cache' = cache /\ bytes' = bytes
  BY ZenonT(30) DEF R!BundleStep, R!BundleLoads, R!BundleFails
<1>3. Counted(cache, bytes)'
  BY <1>1, <1>2, ZenonT(30) DEF Counted, WellKept
<1>4. ScriptsOK'
  <2> DEFINE Then(r) ==
        IF script[r].pc # "init" THEN {script[r]}
        ELSE {[script[r] EXCEPT !.pc = "rewrite"], [pc |-> "done", code |-> R!Blocked]}
  <2>1. PICK g : script' = [r \in Scripts |-> g[r]] /\ \A r \in Scripts : g[r] \in Then(r)
    <3>1. CASE R!BundleLoads
      <4> DEFINE g == [r \in Scripts |-> IF script[r].pc = "init" THEN [script[r] EXCEPT !.pc = "rewrite"] ELSE script[r]]
      <4>1. script' = g
        BY <3>1, ZenonT(30) DEF R!BundleLoads
      <4>2. ASSUME NEW r \in Scripts PROVE g[r] \in Then(r)
        BY ZenonT(30)
      <4> HIDE DEF Then
      <4> QED BY <4>1, <4>2, ZenonT(30)
    <3>2. CASE R!BundleFails
      <4> DEFINE g == [r \in Scripts |-> IF script[r].pc = "init" THEN [pc |-> "done", code |-> R!Blocked] ELSE script[r]]
      <4>1. script' = g
        BY <3>2, ZenonT(30) DEF R!BundleFails
      <4>2. ASSUME NEW r \in Scripts PROVE g[r] \in Then(r)
        BY ZenonT(30)
      <4> HIDE DEF Then
      <4> QED BY <4>1, <4>2, ZenonT(30)
    <3> QED BY <3>1, <3>2, ZenonT(30) DEF R!BundleStep
  <2>2. ASSUME NEW r \in Scripts PROVE ScriptOK(r, g[r])
    <3>1. ScriptOK(r, script[r]) /\ g[r] \in Then(r)
      BY <1>1, <2>1, ZenonT(30) DEF ScriptsOK
    <3>2. CASE script[r].pc # "init"
      BY <3>1, <3>2, ZenonT(30)
    <3>3. CASE script[r].pc = "init"
      <4>1. script[r] \in Looking /\ script[r].key.source = Source[r]
        BY <3>1, <3>3, ZenonT(30) DEF ScriptOK, Waiting, Looking, Answered
      <4>2. CASE g[r] = [script[r] EXCEPT !.pc = "rewrite"]
        BY <4>1, <4>2, ZenonT(30) DEF ScriptOK, Looking
      <4>3. CASE g[r] = [pc |-> "done", code |-> R!Blocked]
        <5>1. ScriptOK(r, [pc |-> "done", code |-> R!Blocked])
          BY AnswerOK, ZenonT(30)
        <5> QED BY <4>3, <5>1, ZenonT(30)
      <4> QED BY <3>1, <3>3, <4>2, <4>3, ZenonT(30)
    <3> QED BY <3>2, <3>3, ZenonT(30)
  <2>3. \A r \in Scripts : g[r] \in Waiting \cup Looking \cup Answered
    BY <2>2, ZenonT(30) DEF ScriptOK
  <2>4. script' \in [Scripts -> Waiting \cup Looking \cup Answered] /\ \A r \in Scripts : script'[r] = g[r]
    BY <2>1, <2>3, ZenonT(30)
  <2> HIDE DEF Then
  <2> QED BY <2>2, <2>4, ZenonT(30) DEF ScriptsOK, ScriptOK
<1>5. DocsOK'
  <2> DEFINE Then(d) ==
        IF doc[d].pc \notin {"tryinit", "init"} THEN {doc[d]}
        ELSE IF doc[d].pc = "tryinit" THEN {[doc[d] EXCEPT !.pc = "open"], [doc[d] EXCEPT !.pc = "buffer"]}
        ELSE {[doc[d] EXCEPT !.pc = "make"], R!Ended(doc[d], "refused")}
  <2>1. PICK g : doc' = [d \in Docs |-> g[d]] /\ \A d \in Docs : g[d] \in Then(d)
    <3>1. CASE R!BundleLoads
      <4> DEFINE g == [d \in Docs |-> [doc[d] EXCEPT
                         !.pc = CASE @ = "tryinit" -> "open" [] @ = "init" -> "make" [] OTHER -> @]]
      <4>1. doc' = g
        BY <3>1, ZenonT(30) DEF R!BundleLoads
      <4>2. ASSUME NEW d \in Docs PROVE g[d] \in Then(d)
        <5>1. doc[d] \in Document
          BY <1>1, ZenonT(30) DEF DocsOK
        <5>2. CASE doc[d].pc = "tryinit"
          BY <5>2, ZenonT(30)
        <5>3. CASE doc[d].pc = "init"
          BY <5>3, ZenonT(30)
        <5>4. CASE doc[d].pc \notin {"tryinit", "init"}
          <6>1. g[d] = [doc[d] EXCEPT !.pc = doc[d].pc]
            BY <5>4, ZenonT(30)
          <6>2. [doc[d] EXCEPT !.pc = doc[d].pc] = doc[d]
            BY <5>1, ZenonT(30) DEF Document
          <6> QED BY <5>4, <6>1, <6>2, ZenonT(30)
        <5> QED BY <5>2, <5>3, <5>4, ZenonT(30)
      <4> QED BY <4>1, <4>2, ZenonT(30)
    <3>2. CASE R!BundleFails
      <4> DEFINE g == [d \in Docs |-> CASE doc[d].pc = "tryinit" -> [doc[d] EXCEPT !.pc = "buffer"]
                                        [] doc[d].pc = "init" -> R!Ended(doc[d], "refused")
                                        [] OTHER -> doc[d]]
      <4>1. doc' = g
        BY <3>2, ZenonT(30) DEF R!BundleFails
      <4>2. ASSUME NEW d \in Docs PROVE g[d] \in Then(d)
        BY ZenonT(30)
      <4> QED BY <4>1, <4>2, ZenonT(30)
    <3> QED BY <3>1, <3>2, ZenonT(30) DEF R!BundleStep
  <2>2. ASSUME NEW d \in Docs PROVE DocOK(g[d])
    <3> DEFINE x == doc[d]
    <3>1. DocOK(x) /\ g[d] \in Then(d) /\ (x.pc \notin {"done", "pipe"} => x.out = << >>)
      BY <1>1, <2>1, ZenonT(30) DEF DocsOK, DocOK
    <3>2. CASE x.pc \notin {"tryinit", "init"}
      BY <3>1, <3>2, ZenonT(30)
    <3>3. CASE x.pc = "tryinit"
      <4>1. PICK pc \in {"open", "buffer"} : g[d] = [x EXCEPT !.pc = pc]
        BY <3>1, <3>3, ZenonT(30)
      <4>2. x.read = 0 /\ pc \in DocPcs \ {"done"} /\ pc \notin {"transform", "init", "make"}
        BY <3>1, <3>3, ZenonT(30) DEF DocOK, DocPcs
      <4> HIDE DEF x
      <4> QED BY <3>1, <3>3, <4>1, <4>2, PcKeeps, SMTT(30)
    <3>4. CASE x.pc = "init"
      <4>1. g[d] = [x EXCEPT !.pc = "make"] \/ g[d] = R!Ended(x, "refused")
        BY <3>1, <3>4, ZenonT(30)
      <4>2. x.read = Chunks /\ "make" \in DocPcs \ {"done"}
        BY <3>1, <3>4, ZenonT(30) DEF DocOK, DocPcs
      <4> HIDE DEF x
      <4>3. DocOK([x EXCEPT !.pc = "make"])
        BY <3>1, <3>4, <4>2, PcKeeps, ZenonT(30)
      <4>4. DocOK(R!Ended(x, "refused"))
        BY <3>1, <3>4, EndKeeps, ZenonT(30)
      <4> QED BY <4>1, <4>3, <4>4, ZenonT(30)
    <3> QED BY <3>2, <3>3, <3>4, ZenonT(30)
  <2>3. \A d \in Docs : g[d] \in Document
    BY <2>2, ZenonT(30) DEF DocOK
  <2>4. doc' \in [Docs -> Document] /\ \A d \in Docs : doc'[d] = g[d]
    BY <2>1, <2>3, ZenonT(30)
  <2> HIDE DEF Then
  <2>5. \A d \in Docs : DocOK(doc'[d])
    BY <2>2, <2>4, ZenonT(30)
  <2> QED BY <2>4, <2>5, ZenonT(30) DEF DocsOK, DocOK, InOrder, Ahead
<1> QED BY <1>2, <1>3, <1>4, <1>5, ZenonT(30) DEF RewriteInv

\* Every step keeps the invariant.
LEMMA RewriteStep == RewriteInv /\ [R!Next]_(R!vars) => RewriteInv'
<1> SUFFICES ASSUME RewriteInv, [R!Next]_(R!vars) PROVE RewriteInv'
  BY ZenonT(30)
<1>1. ASSUME NEW r \in Scripts, R!ScriptStep(r) PROVE RewriteInv'
  BY <1>1, ScriptStepKeeps, ZenonT(30)
<1>2. ASSUME NEW d \in Docs, R!DocStep(d) PROVE RewriteInv'
  <2>1. DocsOK' /\ cache' = cache /\ bytes' = bytes /\ script' = script
    BY <1>2, DocStepKeeps, ZenonT(30) DEF RewriteInv
  <2>2. bundle' \in {"none", "loading", "ready"}
    BY <1>2, ZenonT(30) DEF RewriteInv, R!DocStep, R!DocumentArrives, R!AwaitBundle, R!OpenStream, R!Peek, R!ReadChunk,
      R!BodyFails, R!Transform, R!PipeChunk, R!PipeFails
  <2> QED BY <2>1, <2>2, ZenonT(30) DEF RewriteInv, Counted, WellKept, ScriptsOK, ScriptOK
<1>3. CASE R!BundleStep
  BY <1>3, BundleKeeps, ZenonT(30)
<1>4. CASE UNCHANGED R!vars
  BY <1>4, ZenonT(30) DEF R!vars, RewriteInv, Counted, WellKept, ScriptsOK, ScriptOK, DocsOK, DocOK, InOrder, Ahead
<1> QED BY <1>1, <1>2, <1>3, <1>4, ZenonT(30) DEF R!Next

\* The invariant holds at the start.
LEMMA RewriteInit == R!Init => RewriteInv
<1> SUFFICES ASSUME R!Init PROVE RewriteInv
  BY ZenonT(30)
<1>1. /\ bundle = "none" /\ cache = << >> /\ bytes = 0
      /\ script = [r \in Scripts |-> [pc |-> "waits"]] /\ doc = [d \in Docs |-> R!DocIdle]
  BY ZenonT(30) DEF R!Init
<1>2. << >> \in Seq(Held) /\ << >> \in Seq(Nat) /\ << >> \in Seq(Part) /\ Len(<< >>) = 0 /\ 0 \in 0..Chunks
  BY RewriteAssumption, SMTT(30)
<1>3. R!Used(<< >>) = 0
  BY <1>2, UsedFacts, ZenonT(30) DEF R!Used
<1>4. Counted(cache, bytes)
  BY <1>1, <1>2, <1>3, RewriteAssumption, SMTT(30) DEF Counted, WellKept
<1>5. ScriptsOK
  BY <1>1, ZenonT(30) DEF ScriptsOK, ScriptOK, Waiting
<1>6. DocOK(R!DocIdle)
  <2>1. R!DocIdle \in Document
    BY <1>2, ZenonT(30) DEF Document, DocPcs, R!DocIdle
  <2> QED BY <1>2, <2>1, SMTT(30), Z3T(30) DEF DocOK, InOrder, Ahead, R!DocIdle
<1>7. DocsOK
  BY <1>1, <1>6, ZenonT(30) DEF DocsOK, DocOK
<1> QED BY <1>1, <1>4, <1>5, <1>7, ZenonT(30) DEF RewriteInv

\* Nothing runs that the rewriter has not made, for any responses, sources,
\* number of chunks, limits of the cache and fate of the bundle's loads: a
\* script carries its own source rewritten or throws, and a document that ends
\* cleanly is all of it, in order.
THEOREM RewrittenOnly == R!Spec => []OnlyRewritten
<1>1. RewriteInv => OnlyRewritten
  <2> SUFFICES ASSUME RewriteInv PROVE OnlyRewritten
    BY ZenonT(30)
  <2>1. R!TypeOK
    BY ZenonT(30) DEF RewriteInv, ScriptsOK, ScriptOK, Waiting, Looking, Answered, DocsOK, Document, R!TypeOK
  <2>2. ASSUME NEW r \in Scripts, script[r].pc = "done"
        PROVE  script[r].code \in {R!Blocked, R!CodeOf(Source[r])}
    BY <2>2, ZenonT(30) DEF RewriteInv, ScriptsOK, ScriptOK, Waiting, Looking, Answered
  <2>3. ASSUME NEW d \in Docs
        PROVE  /\ \A i \in DOMAIN doc[d].out : doc[d].out[i] = R!Made(i)
               /\ doc[d].end = "closed" => Len(doc[d].out) = Chunks
               /\ doc[d].end \in {"refused", "passed"} => doc[d].out = << >>
    BY SMTT(30), Z3T(30) DEF RewriteInv, DocsOK, DocOK, InOrder, Document
  <2> QED BY <2>1, <2>2, <2>3, ZenonT(30) DEF OnlyRewritten, R!OnlyRewritten
<1> QED BY <1>1, RewriteInit, RewriteStep, PTL DEF R!Spec

\* rewriteCacheBytes is the length of what the cache holds, for any limits and
\* lengths: replaced and evicted entries are taken off as they were counted.
THEOREM CacheCounted == R!Spec => []CacheExact
<1>1. RewriteInv => CacheExact
  <2> SUFFICES ASSUME RewriteInv PROVE CacheExact
    BY ZenonT(30)
  <2>1. Counted(cache, bytes) /\ DOMAIN cache = 1..Len(cache)
    BY SMTT(30) DEF RewriteInv, Counted
  <2> QED BY <2>1, ZenonT(30) DEF Counted, WellKept, CacheExact, R!CacheExact
<1> QED BY <1>1, RewriteInit, RewriteStep, PTL DEF R!Spec
=============================================================================

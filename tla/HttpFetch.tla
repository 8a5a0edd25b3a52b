------------------------------ MODULE HttpFetch ------------------------------
(***************************************************************************)
(* The kernel's HTTP fetch and its connections: transport/fetch.rs,        *)
(* pool.rs, http1.rs and the body streams of http2.rs.                     *)
(*                                                                         *)
(* A fetch tries the origin's HTTP/2 client, then an idle HTTP/1.1         *)
(* connection, then one it opens; the response body owns an HTTP/1.1       *)
(* connection until framing and decoding end.  Fetches interleave at       *)
(* awaits.  A fetch uses one connection at most of those it opens, so a    *)
(* connection is named by the fetch that opened it.  The far end of a      *)
(* connection may vanish at any time, idle or not: whatever awaits it then *)
(* fails.                                                                  *)
(***************************************************************************)
EXTENDS Naturals, Sequences, FiniteSets, SequencesExt

CONSTANTS
    Fetches,       \* fetches, each made once
    Origins,       \* (scheme, host, port)
    Isolations,    \* isolation keys
    OriginOf, IsolationOf,
    MAX_IDLE_PER_KEY, MAX_POOL_KEYS,
    NoConn         \* no connection

ASSUME ConstantsAssumption ==
    /\ OriginOf \in [Fetches -> Origins] /\ IsolationOf \in [Fetches -> Isolations]
    /\ MAX_IDLE_PER_KEY \in Nat \ {0} /\ MAX_POOL_KEYS \in Nat \ {0}
    /\ NoConn \notin Fetches

VARIABLES
    pc,         \* where each fetch, and then the body it returned, is
    conn,       \* the connection it uses, or its finished body has deposited
    reopened,   \* its dial has reopened the relay session
    retried,    \* its TLS handshake is being repeated without legacy suites
    keepalive,  \* the response permits another request on the connection
    coded,      \* the streamed body goes through a decoder
    POOL,       \* idle HTTP/1.1 connections of each key, the newest last
    HTTP2_POOL, \* the HTTP/2 client of each key
    unread      \* requests an HTTP/1.1 connection has still to deliver the
                \*   responses of, in order

bodyVars == <<keepalive, coded>>
dialVars == <<reopened, retried>>
poolVars == <<POOL, HTTP2_POOL>>
vars == <<pc, conn, dialVars, bodyVars, poolVars, unread>>

Keys == Origins \X Isolations
Conns == Fetches
ConnOrNone == Conns \cup {NoConn}

PoolKey(f) == <<OriginOf[f], IsolationOf[f]>>

\* A request sent and unanswered, or a buffered body being read.
Awaiting == {"h2reuse", "h2cold", "h1reuse", "h1cold", "h1reuseBody", "h1coldBody"}

\* The promise is resolved: a stream is read from the connection, or from the
\* decoder behind it.
Streaming == {"h1body", "h2body", "decoding"}

Ended == {"ok", "failed", "broken", "cancelled"}

\* States in which a fetch reads from an HTTP/1.1 connection.
OnHttp1 == {"h1reuse", "h1cold", "h1reuseBody", "h1coldBody", "h1body"}

TypeOK ==
    /\ pc \in [Fetches -> {"new", "dial"} \cup Awaiting \cup Streaming \cup Ended]
    /\ conn \in [Fetches -> ConnOrNone]
    /\ reopened \in [Fetches -> BOOLEAN] /\ retried \in [Fetches -> BOOLEAN]
    /\ keepalive \in [Fetches -> BOOLEAN] /\ coded \in [Fetches -> BOOLEAN]
    /\ POOL \in [Keys -> Seq(Conns)]
    /\ HTTP2_POOL \in [Keys -> ConnOrNone]
    /\ unread \in [Conns -> Seq(Fetches)]
    /\ \A k \in Keys : Len(POOL[k]) <= MAX_IDLE_PER_KEY
    /\ Cardinality({k \in Keys : POOL[k] # << >>}) <= MAX_POOL_KEYS
    /\ Cardinality({k \in Keys : HTTP2_POOL[k] # NoConn}) <= MAX_POOL_KEYS

Init ==
    /\ pc = [f \in Fetches |-> "new"]
    /\ conn = [f \in Fetches |-> NoConn]
    /\ reopened = [f \in Fetches |-> FALSE] /\ retried = [f \in Fetches |-> FALSE]
    /\ keepalive = [f \in Fetches |-> FALSE] /\ coded = [f \in Fetches |-> FALSE]
    /\ POOL = [k \in Keys |-> << >>]
    /\ HTTP2_POOL = [k \in Keys |-> NoConn]
    /\ unread = [c \in Conns |-> << >>]

-----------------------------------------------------------------------------
(* pool.rs                                                                 *)

\* Mutant of take: the connection is copied, not removed.
takeCopies(f) ==
    /\ POOL[PoolKey(f)] # << >>
    /\ conn' = [conn EXCEPT ![f] = Last(POOL[PoolKey(f)])]
    /\ POOL' = POOL

\* take(key): the most recently used idle connection.
take(f) ==
    /\ POOL[PoolKey(f)] # << >>
    /\ conn' = [conn EXCEPT ![f] = Last(POOL[PoolKey(f)])]
    /\ POOL' = [POOL EXCEPT ![PoolKey(f)] = Front(@)]

\* The maps one can be left with before key k is added to m.
Room(m, empty, k) ==
    LET used == {x \in Keys : m[x] # empty}
    IN IF k \notin used /\ Cardinality(used) >= MAX_POOL_KEYS
       THEN {[m EXCEPT ![x] = empty] : x \in used} ELSE {m}

\* put(key, conn): a new key over the cap evicts any other (HashMap order); a
\* full queue drops its oldest connection.
put(k, c) ==
    \E p \in Room(POOL, << >>, k) :
        POOL' = [p EXCEPT ![k] = Append(IF Len(@) >= MAX_IDLE_PER_KEY THEN Tail(@) ELSE @, c)]

\* put_http2(key, client): the new client wins over one that is there.
put_http2(k, c) ==
    \E p \in Room(HTTP2_POOL, NoConn, k) : HTTP2_POOL' = [p EXCEPT ![k] = c]

\* remove_http2(key): whatever client the key holds by now.
remove_http2(k) == HTTP2_POOL' = [HTTP2_POOL EXCEPT ![k] = NoConn]

\* The connection goes out of scope, and what was left on it with it.
DropConn(f) ==
    /\ conn' = [conn EXCEPT ![f] = NoConn]
    /\ unread' = [c \in Conns |-> IF c = conn[f] /\ pc[f] \in OnHttp1 THEN << >> ELSE unread[c]]

-----------------------------------------------------------------------------
(* fetch.rs: choosing a connection.                                        *)

\* A connection from the HTTP/1.1 pool, to whose far end the request may get,
\* or else a dial.
WarmOrDial(f) ==
    \/ /\ take(f)
       /\ pc' = [pc EXCEPT ![f] = "h1reuse"]
       /\ \/ unread' = [unread EXCEPT ![Last(POOL[PoolKey(f)])] = Append(@, f)]
          \/ unread' = unread
    \/ /\ POOL[PoolKey(f)] = << >>
       /\ pc' = [pc EXCEPT ![f] = "dial"]
       /\ conn' = [conn EXCEPT ![f] = NoConn]
       /\ UNCHANGED <<POOL, unread>>

\* fetch(): the origin's HTTP/2 client first.  is_alive is always true.
Start(f) ==
    /\ pc[f] = "new"
    /\ \/ /\ HTTP2_POOL[PoolKey(f)] # NoConn
          /\ pc' = [pc EXCEPT ![f] = "h2reuse"]
          /\ conn' = [conn EXCEPT ![f] = HTTP2_POOL[PoolKey(f)]]
          /\ UNCHANGED <<POOL, unread>>
       \/ HTTP2_POOL[PoolKey(f)] = NoConn /\ WarmOrDial(f)
    /\ UNCHANGED <<dialVars, bodyVars, HTTP2_POOL>>

\* The reused HTTP/2 client failed: evict, and go on to the next path.
H2ReuseFails(f) ==
    /\ pc[f] = "h2reuse"
    /\ remove_http2(PoolKey(f))
    /\ WarmOrDial(f)
    /\ UNCHANGED <<dialVars, bodyVars>>

\* The idle connection failed, up to the end of a buffered body: it is dropped.
H1ReuseFails(f) ==
    /\ pc[f] \in {"h1reuse", "h1reuseBody"}
    /\ pc' = [pc EXCEPT ![f] = "dial"]
    /\ DropConn(f)
    /\ keepalive' = [keepalive EXCEPT ![f] = FALSE]
    /\ UNCHANGED <<dialVars, coded, poolVars>>

-----------------------------------------------------------------------------
(* cold_request and open_fresh.                                            *)

\* Mutant of DialReopens: the session is reopened as often as it fails.
DialReopensAlways(f) ==
    /\ pc[f] = "dial"
    /\ reopened' = [reopened EXCEPT ![f] = ~ @]
    /\ POOL' = [k \in Keys |-> << >>]
    /\ HTTP2_POOL' = [k \in Keys |-> NoConn]
    /\ UNCHANGED <<pc, conn, retried, bodyVars, unread>>

\* RelayDialer could not open a stream: it empties both pools and opens a new
\* session, once for each dial.
DialReopens(f) ==
    /\ pc[f] = "dial" /\ ~reopened[f]
    /\ reopened' = [reopened EXCEPT ![f] = TRUE]
    /\ POOL' = [k \in Keys |-> << >>]
    /\ HTTP2_POOL' = [k \in Keys |-> NoConn]
    /\ UNCHANGED <<pc, conn, retried, bodyVars, unread>>

\* The server chose a suite the TLS stack cannot negotiate: dial again, once.
\* The host is remembered, which only changes the hello of later dials.
TlsRetries(f) ==
    /\ pc[f] = "dial" /\ ~retried[f]
    /\ retried' = [retried EXCEPT ![f] = TRUE]
    /\ reopened' = [reopened EXCEPT ![f] = FALSE]
    /\ UNCHANGED <<pc, conn, bodyVars, poolVars, unread>>

DialDone(f) ==
    /\ reopened' = [reopened EXCEPT ![f] = FALSE]
    /\ retried' = [retried EXCEPT ![f] = FALSE]

\* A dial, SOCKS, TLS or h2 handshake error rejects the fetch.
DialFails(f) ==
    /\ pc[f] = "dial"
    /\ pc' = [pc EXCEPT ![f] = "failed"]
    /\ DialDone(f)
    /\ UNCHANGED <<conn, bodyVars, poolVars, unread>>

\* ALPN chose h2: the client is cached before its first request is sent.
OpenHttp2(f) ==
    /\ pc[f] = "dial"
    /\ pc' = [pc EXCEPT ![f] = "h2cold"]
    /\ conn' = [conn EXCEPT ![f] = f]
    /\ DialDone(f)
    /\ put_http2(PoolKey(f), f)
    /\ UNCHANGED <<bodyVars, POOL, unread>>

\* Plain HTTP, or ALPN chose HTTP/1.1: the request is written.
OpenHttp1(f) ==
    /\ pc[f] = "dial"
    /\ pc' = [pc EXCEPT ![f] = "h1cold"]
    /\ conn' = [conn EXCEPT ![f] = f]
    /\ DialDone(f)
    /\ unread' = [unread EXCEPT ![f] = <<f>>]
    /\ UNCHANGED <<bodyVars, poolVars>>

\* The request on the fresh connection failed: no other attempt is made.  A
\* failed HTTP/2 client stays cached until a reusing fetch meets it.
ColdFails(f) ==
    /\ pc[f] \in {"h2cold", "h1cold", "h1coldBody"}
    /\ pc' = [pc EXCEPT ![f] = "failed"]
    /\ DropConn(f)
    /\ keepalive' = [keepalive EXCEPT ![f] = FALSE]
    /\ UNCHANGED <<dialVars, coded, poolVars>>

-----------------------------------------------------------------------------
(* Responses and bodies.                                                   *)

\* An HTTP/2 response: read to its end (buffered), or handed on as a stream.
Http2Answers(f) ==
    /\ pc[f] \in {"h2reuse", "h2cold"}
    /\ \/ /\ pc' = [pc EXCEPT ![f] = "ok"]
          /\ conn' = [conn EXCEPT ![f] = NoConn]
          /\ UNCHANGED coded
       \/ /\ pc' = [pc EXCEPT ![f] = "h2body"]
          /\ \E c \in BOOLEAN : coded' = [coded EXCEPT ![f] = c]
          /\ UNCHANGED conn
    /\ UNCHANGED <<dialVars, keepalive, poolVars, unread>>

\* http1::send_request has the final head of the first response on the wire.
\* The body is buffered (null, executable or in a coding that cannot be
\* streamed) or streamed.
Http1Head(f) ==
    /\ pc[f] \in {"h1reuse", "h1cold"} /\ unread[conn[f]] # << >>
    /\ \/ /\ pc' = [pc EXCEPT ![f] = IF @ = "h1reuse" THEN "h1reuseBody" ELSE "h1coldBody"]
          /\ UNCHANGED coded
       \/ /\ pc' = [pc EXCEPT ![f] = "h1body"]
          /\ \E c \in BOOLEAN : coded' = [coded EXCEPT ![f] = c]
    /\ \E ka \in BOOLEAN : keepalive' = [keepalive EXCEPT ![f] = ka]
    /\ UNCHANGED <<conn, dialVars, poolVars, unread>>

\* on_complete: a connection the reader has deposited goes back to the pool.
Complete(f, deposited) ==
    /\ pc' = [pc EXCEPT ![f] = "ok"]
    /\ conn' = [conn EXCEPT ![f] = NoConn]
    /\ keepalive' = [keepalive EXCEPT ![f] = FALSE]
    /\ coded' = [coded EXCEPT ![f] = FALSE]
    /\ IF deposited THEN put(PoolKey(f), conn[f]) ELSE POOL' = POOL

\* The last byte of an HTTP/1.1 body is read (BodyReader::finish).  What is not
\* decoded, or is decoded on the spot, completes; a decoded stream waits for
\* its decoder, with the connection deposited if it may be reused.
Http1BodyEnds(f) ==
    /\ pc[f] \in {"h1reuseBody", "h1coldBody", "h1body"}
    /\ unread' = [unread EXCEPT ![conn[f]] = Tail(@)]
    /\ \/ /\ coded[f]
          /\ pc' = [pc EXCEPT ![f] = "decoding"]
          /\ conn' = [conn EXCEPT ![f] = IF keepalive[f] THEN @ ELSE NoConn]
          /\ UNCHANGED <<bodyVars, POOL>>
       \/ ~coded[f] /\ Complete(f, keepalive[f])
    /\ UNCHANGED <<dialVars, HTTP2_POOL>>

\* An HTTP/2 body ends; its completion returns nothing.
Http2BodyEnds(f) ==
    /\ pc[f] = "h2body"
    /\ pc' = [pc EXCEPT ![f] = IF coded[f] THEN "decoding" ELSE "ok"]
    /\ conn' = [conn EXCEPT ![f] = NoConn]
    /\ UNCHANGED <<dialVars, bodyVars, poolVars, unread>>

\* The decoder accepts the trailer.
DecoderEnds(f) ==
    /\ pc[f] = "decoding"
    /\ Complete(f, conn[f] # NoConn)
    /\ UNCHANGED <<dialVars, HTTP2_POOL, unread>>

\* What owns the body is dropped before it completes, the connection with it.
Abandon(f, end) ==
    /\ pc[f] \in Streaming
    /\ pc' = [pc EXCEPT ![f] = end]
    /\ DropConn(f)
    /\ keepalive' = [keepalive EXCEPT ![f] = FALSE]
    /\ coded' = [coded EXCEPT ![f] = FALSE]
    /\ UNCHANGED <<dialVars, poolVars>>

\* Mutant of BodyFails: a failed decoder still returns the connection.
BodyFailsPools(f) ==
    \/ pc[f] # "decoding" /\ Abandon(f, "broken")
    \/ /\ pc[f] = "decoding"
       /\ pc' = [pc EXCEPT ![f] = "broken"]
       /\ conn' = [conn EXCEPT ![f] = NoConn]
       /\ IF conn[f] # NoConn THEN put(PoolKey(f), conn[f]) ELSE POOL' = POOL
       /\ UNCHANGED <<dialVars, bodyVars, HTTP2_POOL, unread>>

\* A streamed body fails: framing, length, transport or decoder.
BodyFails(f) == Abandon(f, "broken")

\* Mutant of Cancel: the connection is returned once the reader has gone.
CancelPools(f) ==
    \/ pc[f] # "h1body" /\ Abandon(f, "cancelled")
    \/ /\ pc[f] = "h1body"
       /\ pc' = [pc EXCEPT ![f] = "cancelled"]
       /\ conn' = [conn EXCEPT ![f] = NoConn]
       /\ IF keepalive[f] THEN put(PoolKey(f), conn[f]) ELSE POOL' = POOL
       /\ UNCHANGED <<dialVars, bodyVars, HTTP2_POOL, unread>>

\* The page cancels the stream: the pull in progress is aborted and everything
\* it owns is dropped.
Cancel(f) == Abandon(f, "cancelled")

-----------------------------------------------------------------------------
Attempt(f) ==
    \/ Start(f) \/ H2ReuseFails(f) \/ H1ReuseFails(f) \/ ColdFails(f)
    \/ DialReopens(f) \/ TlsRetries(f) \/ DialFails(f) \/ OpenHttp2(f) \/ OpenHttp1(f)
    \/ Http2Answers(f) \/ Http1Head(f)
    \/ pc[f] # "h1body" /\ Http1BodyEnds(f)

Body(f) ==
    \/ pc[f] = "h1body" /\ Http1BodyEnds(f)
    \/ Http2BodyEnds(f) \/ DecoderEnds(f) \/ BodyFails(f) \/ Cancel(f)

Next == \E f \in Fetches : Attempt(f) \/ Body(f)

Spec == Init /\ [][Next]_vars

\* What a fetch waits for (a dial, a write, a response) succeeds or fails; the
\* kernel sets no timer.  Nothing is assumed of the reader of a body.
FairSpec == Spec /\ \A f \in Fetches : WF_vars(Attempt(f))

-----------------------------------------------------------------------------
(* Properties.                                                             *)

Idle(c) == \E k \in Keys : \E i \in 1..Len(POOL[k]) : POOL[k][i] = c

\* An HTTP/1.1 connection has one owner: it is idle in one place of the pool,
\* or one fetch or body uses it ("a pull-driven body owns the connection").  It
\* serves only fetches of the origin and the isolation key it was opened for
\* (PoolKey: "scheme, host, port, isolation_key").
SingleOwner ==
    /\ TypeOK
    /\ \A f \in Fetches : conn[f] # NoConn =>
        OriginOf[conn[f]] = OriginOf[f] /\ IsolationOf[conn[f]] = IsolationOf[f]
    /\ \A c \in Conns :
        /\ \A k, l \in Keys : \A i \in 1..Len(POOL[k]), j \in 1..Len(POOL[l]) :
            POOL[k][i] = c /\ POOL[l][j] = c => k = l /\ i = j
        /\ \A f, g \in Fetches :
            /\ pc[f] \in OnHttp1 \cup {"decoding"} /\ conn[f] = c /\ conn[g] = c => f = g
            /\ Idle(c) => conn[f] # c

\* The first response an HTTP/1.1 connection delivers is that of the fetch
\* that reads it, never the rest of another's, and an idle one has none left
\* ("Put: only after complete body framing").
OwnAnswer ==
    /\ \A f \in Fetches : pc[f] \in OnHttp1 => unread[conn[f]] \in {<< >>, <<f>>}
    /\ \A c \in Conns : Idle(c) => unread[c] = << >>

\* SingleOwner and OwnAnswer: no two fetches share an HTTP/1.1 connection or
\* what is left on it.
OwnConnection == SingleOwner /\ OwnAnswer

\* A connection that failed is not offered again.  A fetch or a body that ends
\* in another way than success leaves its HTTP/1.1 connection out of the pool,
\* the one whose decoder failed after complete framing too ("Cancellation and
\* errors never return it to the pool"), and a client that failed a reusing
\* fetch leaves its pool ("Evict here so the cold path replaces the entry").
\* And a fetch is rejected only by a connection it opened itself, or by the
\* dial: a stale connection of either pool costs an attempt ("the caller opens
\* a fresh conn and retries"), not the request.
FailuresContained ==
    [][\A f \in Fetches :
        /\ pc[f] \notin Ended /\ pc'[f] \in Ended \ {"ok"} =>
            \A k \in Keys : \A i \in 1..Len(POOL'[k]) : POOL'[k][i] # conn[f]
        /\ pc[f] = "h2reuse" /\ pc'[f] \in {"h1reuse", "dial"} =>
            \A k \in Keys : HTTP2_POOL'[k] # conn[f]
        /\ pc[f] # "failed" /\ pc'[f] = "failed" => pc[f] = "dial" \/ conn[f] = f]_vars

\* Every fetch is answered or rejected: the chain of paths, the session's
\* reopening and the TLS retry come to an end.
FetchSettles == \A f \in Fetches : pc[f] # "new" ~> pc[f] \in Ended \cup Streaming
=============================================================================

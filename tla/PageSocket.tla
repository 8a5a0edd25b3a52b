----------------------------- MODULE PageSocket -----------------------------
(***************************************************************************)
(* The page's WebSocket: installWebSocket of web/membrane/08-http.js.  (The *)
(* class in web/worker-prelude.js follows the same protocol.)              *)
(*                                                                         *)
(* The Service Worker appears as what it promises, StreamPort; WsClient    *)
(* shows that it keeps the promise.  Messages take time in both            *)
(* directions, Blobs are read asynchronously, and the page calls send and  *)
(* close at any time, before the stream is there too.                      *)
(***************************************************************************)
EXTENDS Naturals, Sequences, FiniteSets

CONSTANTS
    MaxSends,  \* bound on send calls
    MaxPosts   \* bound on the worker's messages

VARIABLES
    readyState,     \* as the page sees it
    _closed,        \* finish has run
    attached,       \* _port is set
    _closeGuard,    \* "none", or what the armed timer will do
    bufferedAmount, \* in sends of one byte
    blobs,          \* send calls whose Blob is being read
    calls,          \* send calls made
    reply,          \* the answer to WS_OPEN
    port, ended,    \* StreamPort: what the worker has posted
    got,            \* how much of it has been received
    up,             \* messages on their way to the worker
    kernel,         \* bytes the worker has handed to the kernel, not yet sent
    events          \* history: events dispatched to the page

swVars == <<port, ended>>
vars == <<readyState, _closed, attached, _closeGuard, bufferedAmount, blobs, calls, reply,
          swVars, got, up, kernel, events>>

SW == INSTANCE StreamPort

TypeOK ==
    /\ readyState \in {"CONNECTING", "OPEN", "CLOSING", "CLOSED"}
    /\ _closed \in BOOLEAN /\ attached \in BOOLEAN
    /\ _closeGuard \in {"none", "fail", "abort"}
    /\ bufferedAmount \in 0..MaxSends
    /\ blobs \subseteq 1..MaxSends /\ calls \in 0..MaxSends
    /\ reply \in {"pending", "stream", "error", "handled"}
    /\ port \in Seq({"message", "error", "clean", "abnormal"}) /\ ended \in BOOLEAN
    /\ got \in 0..Len(port)
    /\ up \in Seq({"send", "close", "abort"})
    /\ kernel \in 0..MaxSends
    /\ events \in Seq({"open", "message", "error", "close"})

Init ==
    /\ readyState = "CONNECTING" /\ _closed = FALSE /\ attached = FALSE
    /\ _closeGuard = "none" /\ bufferedAmount = 0 /\ blobs = {} /\ calls = 0
    /\ reply = "pending" /\ SW!Init /\ got = 0
    /\ up = << >> /\ kernel = 0 /\ events = << >>

-----------------------------------------------------------------------------
(* Helpers of installWebSocket.                                            *)

\* finish: the close event, after the events in `before`.
finish(before) ==
    /\ _closed' = TRUE /\ readyState' = "CLOSED"
    /\ _closeGuard' = "none" /\ attached' = FALSE
    /\ events' = events \o before \o <<"close">>

\* abort: told to the worker if there is a port.
abort == up' = IF attached THEN Append(up, "abort") ELSE up

\* fail: nothing once closed.
fail ==
    IF _closed THEN UNCHANGED <<_closed, readyState, _closeGuard, attached, events, up>>
    ELSE abort /\ finish(<<"error">>)

-----------------------------------------------------------------------------
(* The answer to WS_OPEN.                                                  *)

SwOpens ==
    /\ reply = "pending" /\ ~ended
    /\ reply' = "stream"
    /\ UNCHANGED <<readyState, _closed, attached, _closeGuard, bufferedAmount, blobs, calls,
                   swVars, got, up, kernel, events>>

SwRefuses ==
    /\ reply = "pending"
    /\ reply' = "error" /\ SW!RefuseOpen
    /\ UNCHANGED <<readyState, _closed, attached, _closeGuard, bufferedAmount, blobs, calls,
                   got, up, kernel, events>>

\* The stream arrives; if close() came first it is aborted.
OpenReply ==
    /\ reply = "stream" /\ reply' = "handled"
    /\ IF _closed \/ readyState = "CLOSING"
       THEN up' = Append(up, "abort") /\ UNCHANGED <<attached, readyState, events>>
       ELSE /\ attached' = TRUE /\ readyState' = "OPEN"
            /\ events' = Append(events, "open") /\ UNCHANGED up
    /\ UNCHANGED <<_closed, _closeGuard, bufferedAmount, blobs, calls, swVars, got, kernel>>

OpenError ==
    /\ reply = "error" /\ reply' = "handled"
    /\ fail
    /\ UNCHANGED <<bufferedAmount, blobs, calls, swVars, got, kernel>>

-----------------------------------------------------------------------------
(* The worker, as StreamPort has it, and the kernel behind it.             *)

SwPosts ==
    /\ reply \in {"stream", "handled"} /\ Len(port) < MaxPosts
    /\ SW!Post
    /\ UNCHANGED <<readyState, _closed, attached, _closeGuard, bufferedAmount, blobs, calls,
                   reply, got, up, kernel, events>>

SwEnds ==
    /\ reply \in {"stream", "handled"}
    /\ SW!End /\ kernel' = 0
    /\ UNCHANGED <<readyState, _closed, attached, _closeGuard, bufferedAmount, blobs, calls,
                   reply, got, up, events>>

\* The worker reads a message; an abort ends the stream.
SwReads ==
    /\ up # << >>
    /\ up' = Tail(up)
    /\ IF ended THEN UNCHANGED <<swVars, kernel>>
       ELSE CASE Head(up) = "send" -> kernel' = kernel + 1 /\ UNCHANGED swVars
              [] Head(up) = "close" -> UNCHANGED <<swVars, kernel>>
              [] Head(up) = "abort" -> SW!End /\ kernel' = 0
    /\ UNCHANGED <<readyState, _closed, attached, _closeGuard, bufferedAmount, blobs, calls,
                   reply, got, events>>

\* The writer task hands a payload to the transport.  Nothing is posted.
KernelDrains ==
    /\ kernel > 0
    /\ kernel' = kernel - 1
    /\ UNCHANGED <<readyState, _closed, attached, _closeGuard, bufferedAmount, blobs, calls,
                   reply, swVars, got, up, events>>

-----------------------------------------------------------------------------
(* The page.                                                               *)

\* Mutant of Receive: a closing socket drops messages.
ReceiveOpenOnly ==
    /\ attached /\ got < Len(port)
    /\ got' = got + 1
    /\ CASE port[got + 1] = "message" ->
              /\ events' = IF readyState = "OPEN" THEN Append(events, "message") ELSE events
              /\ UNCHANGED <<_closed, readyState, _closeGuard, attached, up>>
         [] port[got + 1] = "error" -> fail
         [] OTHER -> finish(<< >>) /\ UNCHANGED up
    /\ UNCHANGED <<bufferedAmount, blobs, calls, reply, swVars, kernel>>

\* _port.onmessage.
Receive ==
    /\ attached /\ got < Len(port)
    /\ got' = got + 1
    /\ CASE port[got + 1] = "message" ->
              /\ events' = Append(events, "message")
              /\ UNCHANGED <<_closed, readyState, _closeGuard, attached, up>>
         [] port[got + 1] = "error" -> fail
         [] OTHER -> finish(<< >>) /\ UNCHANGED up
    /\ UNCHANGED <<bufferedAmount, blobs, calls, reply, swVars, kernel>>

\* send(data): posted at once, or after a Blob has been read; dropped, but
\* counted, once the socket is closing.
send(blob) ==
    /\ readyState # "CONNECTING" /\ calls < MaxSends
    /\ calls' = calls + 1
    /\ bufferedAmount' = bufferedAmount + 1
    /\ blobs' = IF readyState = "OPEN" /\ attached /\ blob THEN blobs \cup {calls + 1} ELSE blobs
    /\ up' = IF readyState = "OPEN" /\ attached /\ ~blob THEN Append(up, "send") ELSE up
    /\ UNCHANGED <<readyState, _closed, attached, _closeGuard, reply, swVars, got, kernel, events>>

\* A Blob has been read, in any order.
BlobRead ==
    /\ \E b \in blobs : blobs' = blobs \ {b}
    /\ IF readyState = "OPEN" /\ attached
       THEN up' = Append(up, "send") /\ UNCHANGED bufferedAmount
       ELSE bufferedAmount' = bufferedAmount - 1 /\ UNCHANGED up
    /\ UNCHANGED <<readyState, _closed, attached, _closeGuard, calls, reply, swVars, got, kernel, events>>

\* Reading it fails.
BlobFails ==
    /\ \E b \in blobs : blobs' = blobs \ {b}
    /\ fail
    /\ UNCHANGED <<bufferedAmount, calls, reply, swVars, got, kernel>>

\* Mutant of close: no guard while there is a port.
closeNoGuard ==
    /\ readyState \in {"CONNECTING", "OPEN"}
    /\ readyState' = "CLOSING"
    /\ IF attached THEN up' = Append(up, "close") /\ UNCHANGED _closeGuard
       ELSE _closeGuard' = "fail" /\ UNCHANGED up
    /\ UNCHANGED <<_closed, attached, bufferedAmount, blobs, calls, reply, swVars, got, kernel, events>>

\* close(): with a port, wait 30 s for the worker; without one, fail at once
\* but asynchronously.
close ==
    /\ readyState \in {"CONNECTING", "OPEN"}
    /\ readyState' = "CLOSING"
    /\ _closeGuard' = IF attached THEN "abort" ELSE "fail"
    /\ up' = IF attached THEN Append(up, "close") ELSE up
    /\ UNCHANGED <<_closed, attached, bufferedAmount, blobs, calls, reply, swVars, got, kernel, events>>

CloseGuard ==
    /\ _closeGuard # "none"
    /\ \/ _closeGuard = "fail" /\ fail
       \/ _closeGuard = "abort" /\ abort /\ finish(<< >>)
    /\ UNCHANGED <<bufferedAmount, blobs, calls, reply, swVars, got, kernel>>

Next ==
    \/ SwOpens \/ SwRefuses \/ OpenReply \/ OpenError
    \/ SwPosts \/ SwEnds \/ SwReads \/ KernelDrains
    \/ Receive \/ BlobRead \/ BlobFails \/ close \/ CloseGuard
    \/ \E blob \in BOOLEAN : send(blob)

Spec == Init /\ [][Next]_vars

\* Timers fire and messages arrive; the worker need not do anything.
Fairness == WF_vars(CloseGuard) /\ WF_vars(Receive) /\ WF_vars(OpenReply)
FairSpec == Spec /\ Fairness

-----------------------------------------------------------------------------
(* Properties.                                                             *)

Count(s, x) == Cardinality({i \in 1..Len(s) : s[i] = x})

\* The page sees open before any message, one close, nothing after it, and
\* readyState CLOSED exactly from then on, however the reply, the worker's
\* close, errors, Blob reads and the guard fall (finish and fail test _closed);
\* and when the worker reports a clean close, every message posted before it
\* has been dispatched ("so in-flight message events drain before entering
\* CLOSED").  A socket that has ended leaves no stream behind: the worker's has
\* ended or an abort is on its way ("abort the late kernel stream").
EventOrder ==
    /\ TypeOK
    /\ Count(events, "open") <= 1 /\ Count(events, "close") <= 1 /\ Count(events, "error") <= 1
    /\ \A i \in 1..Len(events) :
        /\ events[i] = "message" => \E j \in 1..(i - 1) : events[j] = "open"
        /\ events[i] = "open" => i = 1
        /\ events[i] = "close" => i = Len(events)
    /\ (readyState = "CLOSED") = (Count(events, "close") = 1)
    /\ (readyState = "OPEN") => events # << >>
    /\ got = Len(port) /\ got > 0 /\ port[got] = "clean" =>
        Count(events, "message") = Count(port, "message")
    /\ _closed /\ reply = "handled" /\ ~ended => \E i \in 1..Len(up) : up[i] = "abort"

\* close() ends in CLOSED even if the worker never answers.
CloseCompletes == readyState = "CLOSING" ~> readyState = "CLOSED"
=============================================================================

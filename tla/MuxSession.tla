----------------------------- MODULE MuxSession -----------------------------
(***************************************************************************)
(* The shared relay session of the WASM kernel (transport/yamux.rs) and    *)
(* the dialer that opens target streams on it (transport/dialer.rs).       *)
(*                                                                         *)
(* One WebSocket carries a yamux connection owned by a driver task.        *)
(* A MuxSession is a clone of the sender half of the driver's command      *)
(* channel; SESSION caches one clone for the process.  The kernel is       *)
(* single threaded, so steps interleave only where the code awaits:        *)
(* WsStream::open, the reply of open_stream, the SOCKS5 handshake, and the *)
(* driver's own polls.                                                     *)
(*                                                                         *)
(* A stream does not keep its session alive: only MuxSession clones do.    *)
(***************************************************************************)
EXTENDS Naturals, Sequences, FiniteSets

CONSTANTS
    Callers,    \* tasks that run RelayDialer::connect and use its stream
    Sessions,   \* identities of yamux sessions; a dead, unreferenced one is reused
    NoSession   \* no session (None)

ASSUME NoSessionAssumption == NoSession \notin Sessions

VARIABLES
    SESSION,    \* the thread_local cache: a session or NoSession
    driver,     \* the state of each session's driver task
    ws,         \* whether the session's WebSocket is up
    queue,      \* callers whose Cmd::Open the driver has not answered
                \*   (cmd_rx followed by the driver's pending deque)
    pc,         \* where each caller is
    attempt,    \* 1, or 2 from the reopen to the end of that open_stream
    handle,     \* the MuxSession clone the caller holds
    reply,      \* the oneshot reply the caller has not read yet
    stream,     \* the session of the caller's stream
    idle        \* sessions with an idle connection in the keep-alive pool

vars == <<SESSION, driver, ws, queue, pc, attempt, handle, reply, stream, idle>>

SessionOrNone == Sessions \cup {NoSession}

TypeOK ==
    /\ SESSION \in SessionOrNone
    /\ driver \in [Sessions -> {"gone", "running", "closing"}]
    /\ ws \in [Sessions -> {"up", "lost"}]
    /\ queue \in [Sessions -> Seq(Callers)]
    /\ pc \in [Callers -> {"idle", "dial", "open", "socks", "using"}]
    /\ attempt \in [Callers -> 1..2]
    /\ handle \in [Callers -> SessionOrNone]
    /\ reply \in [Callers -> {"none", "ok", "err"}]
    /\ stream \in [Callers -> SessionOrNone]
    /\ idle \in SUBSET Sessions

Init ==
    /\ SESSION = NoSession
    /\ driver = [s \in Sessions |-> "gone"]
    /\ ws = [s \in Sessions |-> "lost"]
    /\ queue = [s \in Sessions |-> << >>]
    /\ pc = [c \in Callers |-> "idle"]
    /\ attempt = [c \in Callers |-> 1]
    /\ handle = [c \in Callers |-> NoSession]
    /\ reply = [c \in Callers |-> "none"]
    /\ stream = [c \in Callers |-> NoSession]
    /\ idle = {}

-----------------------------------------------------------------------------
(* What the actions are built from.                                        *)

\* No clone of the session's sender is left: cmd_rx yields None.
NoSenders(s) == SESSION # s /\ \A c \in Callers : handle[c] # s

\* An identity a new session may take.
Unreferenced(s) ==
    /\ driver[s] = "gone" /\ NoSenders(s) /\ s \notin idle
    /\ \A c \in Callers : stream[c] # s

\* Whether bytes still flow on a stream of session s.
Flowing(s) == driver[s] = "running" /\ ws[s] = "up"

InQueue(c, s) == \E i \in 1..Len(queue[s]) : queue[s][i] = c

\* Mutant of FailQueue: the queue is discarded and nobody is told.
FailQueueSilently(s) ==
    /\ reply' = reply
    /\ queue' = [queue EXCEPT ![s] = << >>]

\* Every open the driver still holds is answered with an error, or its oneshot
\* is dropped with cmd_rx, which the caller sees as an error too.
FailQueue(s) ==
    /\ reply' = [c \in Callers |-> IF InQueue(c, s) THEN "err" ELSE reply[c]]
    /\ queue' = [queue EXCEPT ![s] = << >>]

\* Mutant of DriverExit: the exit does not invalidate the cache.
DriverExitKeepsCache(s) ==
    /\ FailQueue(s)
    /\ driver' = [driver EXCEPT ![s] = "gone"]
    /\ ws' = [ws EXCEPT ![s] = "lost"]
    /\ UNCHANGED <<SESSION, pc, attempt, handle, stream, idle>>

\* Drive returns: the connection and every stream on it are dropped, and
\* invalidate() clears the cache whatever it holds by now.
DriverExit(s) ==
    /\ FailQueue(s)
    /\ driver' = [driver EXCEPT ![s] = "gone"]
    /\ ws' = [ws EXCEPT ![s] = "lost"]
    /\ SESSION' = NoSession
    /\ UNCHANGED <<pc, attempt, handle, stream, idle>>

\* open_stream on session s up to its await: the command is queued while the
\* receiver exists and refused once the driver is gone.
OpenStream(c, s) ==
    /\ handle' = [handle EXCEPT ![c] = s]
    /\ pc' = [pc EXCEPT ![c] = "open"]
    /\ IF driver'[s] = "gone"
       THEN queue' = queue /\ reply' = [reply EXCEPT ![c] = "err"]
       ELSE queue' = [queue EXCEPT ![s] = Append(@, c)] /\ reply' = reply

\* The caller's futures end and drop what they hold.
Fail(c) ==
    /\ pc' = [pc EXCEPT ![c] = "idle"]
    /\ handle' = [handle EXCEPT ![c] = NoSession]
    /\ stream' = [stream EXCEPT ![c] = NoSession]
    /\ attempt' = [attempt EXCEPT ![c] = 1]

-----------------------------------------------------------------------------
(* RelayDialer::connect and the use of the stream it returns.              *)

\* connect(): get_or_open clones the cached session and opens a stream on it,
\* or starts to open a WebSocket.
Connect(c) ==
    /\ pc[c] = "idle"
    /\ driver' = driver
    /\ IF SESSION # NoSession
       THEN OpenStream(c, SESSION)
       ELSE pc' = [pc EXCEPT ![c] = "dial"] /\ UNCHANGED <<queue, handle, reply>>
    /\ UNCHANGED <<SESSION, ws, attempt, stream, idle>>

\* WsStream::open resolves: the driver is spawned and the cache is overwritten,
\* even if another caller has filled it during the await.
WsOpened(c) ==
    /\ pc[c] = "dial"
    /\ \E s \in Sessions :
        /\ Unreferenced(s)
        /\ driver' = [driver EXCEPT ![s] = "running"]
        /\ ws' = [ws EXCEPT ![s] = "up"]
        /\ SESSION' = s
        /\ OpenStream(c, s)
    /\ UNCHANGED <<attempt, stream, idle>>

\* WsStream::open fails: connect returns DialError::RelaySession.
WsOpenFailed(c) ==
    /\ pc[c] = "dial"
    /\ Fail(c)
    /\ UNCHANGED <<SESSION, driver, ws, queue, reply, idle>>

\* open_stream returned a stream.  On the reopen path the inner session handle
\* goes out of scope here; on the first path it lives until connect returns.
StreamOpened(c) ==
    /\ pc[c] = "open" /\ reply[c] = "ok"
    /\ pc' = [pc EXCEPT ![c] = "socks"]
    /\ stream' = [stream EXCEPT ![c] = handle[c]]
    /\ handle' = [handle EXCEPT ![c] = IF attempt[c] = 1 THEN @ ELSE NoSession]
    /\ attempt' = [attempt EXCEPT ![c] = 1]
    /\ reply' = [reply EXCEPT ![c] = "none"]
    /\ UNCHANGED <<SESSION, driver, ws, queue, idle>>

\* The first open_stream failed: invalidate(), pool::clear() and get_or_open
\* again, which finds the cache empty.  The first handle stays in scope, but its
\* session is gone (ErrorMeansGone), so the model forgets it.
Reopen(c) ==
    /\ pc[c] = "open" /\ reply[c] = "err" /\ attempt[c] = 1
    /\ SESSION' = NoSession
    /\ idle' = {}
    /\ pc' = [pc EXCEPT ![c] = "dial"]
    /\ attempt' = [attempt EXCEPT ![c] = 2]
    /\ handle' = [handle EXCEPT ![c] = NoSession]
    /\ reply' = [reply EXCEPT ![c] = "none"]
    /\ UNCHANGED <<driver, ws, queue, stream>>

\* The second open_stream failed: connect gives up.
ReopenFailed(c) ==
    /\ pc[c] = "open" /\ reply[c] = "err" /\ attempt[c] = 2
    /\ Fail(c)
    /\ reply' = [reply EXCEPT ![c] = "none"]
    /\ UNCHANGED <<SESSION, driver, ws, queue, idle>>

\* socks5::connect succeeded: connect returns the stream and drops its handle.
SocksOk(c) ==
    /\ pc[c] = "socks" /\ Flowing(stream[c])
    /\ pc' = [pc EXCEPT ![c] = "using"]
    /\ handle' = [handle EXCEPT ![c] = NoSession]
    /\ UNCHANGED <<SESSION, driver, ws, queue, attempt, reply, stream, idle>>

\* socks5::connect failed, refused by the relay or cut with the session.
SocksErr(c) ==
    /\ pc[c] = "socks"
    /\ Fail(c)
    /\ UNCHANGED <<SESSION, driver, ws, queue, reply, idle>>

\* fetch() takes an idle connection instead of dialing.
TakePooled(c) ==
    /\ pc[c] = "idle"
    /\ \E s \in idle :
        /\ stream' = [stream EXCEPT ![c] = s]
        /\ idle' = idle \ {s}
    /\ pc' = [pc EXCEPT ![c] = "using"]
    /\ UNCHANGED <<SESSION, driver, ws, queue, attempt, handle, reply>>

\* The exchange on the stream ends: the stream is dropped or, after a complete
\* response, put in the pool.
UseEnd(c) ==
    /\ pc[c] = "using"
    /\ \/ idle' = idle
       \/ Flowing(stream[c]) /\ idle' = idle \cup {stream[c]}
    /\ Fail(c)
    /\ UNCHANGED <<SESSION, driver, ws, queue, reply>>

-----------------------------------------------------------------------------
(* The driver task and its WebSocket.                                      *)

\* The WebSocket of a session ends or fails.
WsLost(s) ==
    /\ driver[s] # "gone" /\ ws[s] = "up"
    /\ ws' = [ws EXCEPT ![s] = "lost"]
    /\ UNCHANGED <<SESSION, driver, queue, pc, attempt, handle, reply, stream, idle>>

\* poll_new_outbound yields a stream for the first waiting open.
DriverServe(s) ==
    /\ Flowing(s) /\ queue[s] # << >>
    /\ reply' = [reply EXCEPT ![Head(queue[s])] = "ok"]
    /\ queue' = [queue EXCEPT ![s] = Tail(@)]
    /\ UNCHANGED <<SESSION, driver, ws, pc, attempt, handle, stream, idle>>

\* poll_new_outbound fails (the stream limit): the open is refused and the
\* driver ends as on EOF.
DriverOpenError(s) ==
    /\ Flowing(s) /\ queue[s] # << >>
    /\ DriverExit(s)

\* poll_next_inbound reports the end of the connection.  The command channel
\* is polled first, so a session nobody holds shuts down instead.
DriverEof(s) ==
    /\ driver[s] = "running" /\ ws[s] = "lost" /\ ~NoSenders(s)
    /\ DriverExit(s)

\* Mutant of DriverShutdown: the closed command channel is noticed only while
\* the WebSocket is up.
DriverShutdownIfUp(s) ==
    /\ Flowing(s) /\ NoSenders(s)
    /\ driver' = [driver EXCEPT ![s] = "closing"]
    /\ UNCHANGED <<SESSION, ws, queue, pc, attempt, handle, reply, stream, idle>>

\* Every sender is gone: the driver starts to close the connection, which cuts
\* the streams still open on it.
DriverShutdown(s) ==
    /\ driver[s] = "running" /\ NoSenders(s)
    /\ driver' = [driver EXCEPT ![s] = "closing"]
    /\ UNCHANGED <<SESSION, ws, queue, pc, attempt, handle, reply, stream, idle>>

\* poll_close has finished.
DriverClosed(s) ==
    /\ driver[s] = "closing"
    /\ DriverExit(s)

CallerStep(c) ==
    \/ Connect(c) \/ WsOpened(c) \/ WsOpenFailed(c) \/ StreamOpened(c)
    \/ Reopen(c) \/ ReopenFailed(c) \/ SocksOk(c) \/ SocksErr(c)
    \/ TakePooled(c) \/ UseEnd(c)

SessionStep(s) ==
    \/ WsLost(s) \/ DriverServe(s) \/ DriverOpenError(s) \/ DriverEof(s)
    \/ DriverShutdown(s) \/ DriverClosed(s)

Next ==
    \/ \E c \in Callers : CallerStep(c)
    \/ \E s \in Sessions : SessionStep(s)

Spec == Init /\ [][Next]_vars

\* A woken task runs: the driver's polls and the continuation of a caller whose
\* reply has arrived; the browser settles every WebSocket it was asked to open.
\* Nothing is assumed of the relay, the target or the use of a stream.
Fairness ==
    /\ \A s \in Sessions :
        /\ WF_vars(DriverServe(s) \/ DriverOpenError(s))
        /\ WF_vars(DriverEof(s))
        /\ WF_vars(DriverShutdown(s))
        /\ WF_vars(DriverClosed(s))
    /\ \A c \in Callers :
        /\ WF_vars(WsOpened(c) \/ WsOpenFailed(c))
        /\ WF_vars(StreamOpened(c) \/ Reopen(c) \/ ReopenFailed(c))

FairSpec == Spec /\ Fairness

-----------------------------------------------------------------------------
(* Properties.                                                             *)

\* The cache never offers a session whose driver has ended or is shutting
\* down, so open_stream on a cached session always reaches a driver
\* (yamux.rs: invalidate on every exit of drive).
CacheIsLive == SESSION # NoSession => driver[SESSION] = "running"

\* A caller that awaits open_stream's reply holds its session, and its open
\* is in that session's queue, before a driver that has not given up, or has
\* been answered: no oneshot is lost when a driver ends (drive's Eof drain).
OpenAccounted ==
    \A c \in Callers : pc[c] = "open" =>
        \/ reply[c] # "none"
        \/ handle[c] # NoSession /\ driver[handle[c]] = "running" /\ InQueue(c, handle[c])

\* open_stream reports an error only for a session that is gone for good, so
\* the dialer's reopen never abandons a session that still works.
ErrorMeansGone ==
    \A c \in Callers : pc[c] = "open" /\ reply[c] = "err" => driver[handle[c]] = "gone"

\* Every open_stream call returns (the reason drive drains its pending opens:
\* "so callers don't hang forever"), and a driver whose session is neither
\* cached nor held by a connect call does not stay behind: it closes its
\* WebSocket and ends.
SessionsSettle ==
    /\ \A c \in Callers : pc[c] = "open" ~> pc[c] # "open"
    /\ \A s \in Sessions :
        (driver[s] = "running" /\ NoSenders(s)) ~> (driver[s] = "gone")
=============================================================================

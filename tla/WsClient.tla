------------------------------ MODULE WsClient ------------------------------
(***************************************************************************)
(* A proxied WebSocket between the transport and the page's port: the      *)
(* kernel's client (transport/ws_client.rs: a reader task, a writer task   *)
(* and the WsClient object they share) and openRuntimeStream of web/sw.js, *)
(* which owns the client and talks to the page.                            *)
(*                                                                         *)
(* Everything runs on the Service Worker's thread; tasks interleave at     *)
(* awaits.  Callbacks between the two halves are synchronous: an action    *)
(* that closes the kernel's side carries out the worker's side too.        *)
(***************************************************************************)
EXTENDS Naturals, Sequences

CONSTANTS
    MaxLen,     \* longest payload
    MaxSends,   \* bound on the page's send messages
    MaxFrames   \* bound on the peer's frames

ASSUME BoundsAssumption == MaxLen \in Nat /\ MaxSends \in Nat /\ MaxFrames \in Nat

VARIABLES
    closed,        \* Shared.closed
    closeCode,     \* Shared.close_code: the peer's, or 1006
    handlers,      \* setHandlers has installed on_message, on_close, on_error
    queue,         \* WriterShared.queue
    closed_local,  \* WriterShared.closed_local
    peer_close,    \* WriterShared.peer_close is Some
    buffered,      \* WriterShared.buffered
    reader,        \* reader_task
    frag,          \* reader_task's frag_op is Some
    writer,        \* writer_task: which await it is in
    writing,       \* the frame it is writing
    phase,         \* openRuntimeStream: before, or after, the stream is set up
    done,          \* its done flag
    closeDeadline, \* its close timer is armed
    streams,       \* the stream is in the streams map
    port,          \* what has been posted to the page
    wire,          \* history: frames written to the peer
    peerClosed,    \* history: a valid Close frame was read
    asked,         \* history: the page asked for a close
    sends, frames  \* bounds

swVars == <<phase, done, closeDeadline, streams, port>>
kernelVars == <<closed, closeCode, handlers, queue, closed_local, peer_close, buffered,
                reader, frag, writer, writing>>
history == <<wire, peerClosed, asked, sends, frames>>
vars == <<kernelVars, swVars, history>>

Ops == {"data", "Pong", "Close"}
OutMsg == [op : Ops, len : 0..MaxLen]
NoMsg == [op |-> "none", len |-> 0]
ToPage == {"message", "error", "clean", "abnormal"}

TypeOK ==
    /\ closed \in BOOLEAN /\ closeCode \in {"clean", "abnormal"}
    /\ handlers \in BOOLEAN
    /\ queue \in Seq(OutMsg)
    /\ closed_local \in BOOLEAN /\ peer_close \in BOOLEAN
    /\ buffered \in 0..(MaxSends * MaxLen)
    /\ reader \in {"reading", "ended"} /\ frag \in BOOLEAN
    /\ writer \in {"polling", "writing", "closing", "ended"}
    /\ writing \in OutMsg \cup {NoMsg}
    /\ phase \in {"opening", "opened", "running", "refused"}
    /\ done \in BOOLEAN /\ closeDeadline \in BOOLEAN /\ streams \in BOOLEAN
    /\ port \in Seq(ToPage)
    /\ wire \in Seq(Ops)
    /\ peerClosed \in BOOLEAN /\ asked \in BOOLEAN
    /\ sends \in 0..MaxSends /\ frames \in 0..MaxFrames

Init ==
    /\ closed = FALSE /\ closeCode = "abnormal" /\ handlers = FALSE
    /\ queue = << >> /\ closed_local = FALSE /\ peer_close = FALSE /\ buffered = 0
    /\ reader = "ended" /\ frag = FALSE
    /\ writer = "ended" /\ writing = NoMsg
    /\ phase = "opening" /\ done = FALSE /\ closeDeadline = FALSE /\ streams = FALSE
    /\ port = << >>
    /\ wire = << >> /\ peerClosed = FALSE /\ asked = FALSE /\ sends = 0 /\ frames = 0

-----------------------------------------------------------------------------
(* The two ways down.                                                      *)

\* Mutant of finish: done is not looked at, and abort runs it again.
finishTwice(before, code) ==
    /\ done' = TRUE /\ closeDeadline' = FALSE /\ streams' = FALSE
    /\ port' = port \o before \o <<code, code>>
    /\ handlers' = FALSE

\* finish(code) of openRuntimeStream, after posting what `before` holds.
finish(before, code) ==
    /\ done' = TRUE /\ closeDeadline' = FALSE /\ streams' = FALSE
    /\ port' = port \o before \o <<code>>
    /\ handlers' = FALSE

\* surface_close: both tasks are aborted, the queue is dropped, and on_close,
\* if installed, runs finish.
surface_close(before, code) ==
    /\ closed' = TRUE /\ closeCode' = code
    /\ reader' = "ended" /\ writer' = "ended" /\ writing' = NoMsg
    /\ queue' = << >> /\ buffered' = 0
    /\ IF handlers
       THEN finish(before, code)
       ELSE UNCHANGED <<done, closeDeadline, streams, port, handlers>>

\* fail_connection: on_error first, then the close.
fail_connection == surface_close(<<"error">>, "abnormal")

\* abort() of openRuntimeStream with its port in place: WsClient::abort calls
\* finish through on_close; the second finish finds done set.
abort(before) == surface_close(before, "abnormal")

-----------------------------------------------------------------------------
(* openRuntimeStream.                                                      *)

\* kernelStream resolves: the tasks are already spawned.
Opened ==
    /\ phase = "opening"
    /\ phase' = "opened"
    /\ reader' = "reading" /\ writer' = "polling"
    /\ UNCHANGED <<closed, closeCode, handlers, queue, closed_local, peer_close, buffered,
                   frag, writing, done, closeDeadline, streams, port, history>>

\* The dial or the handshake fails.
OpenFails ==
    /\ phase = "opening"
    /\ phase' = "refused" /\ done' = TRUE
    /\ UNCHANGED <<kernelVars, closeDeadline, streams, port, history>>

\* Mutant of Setup: setHandlers does not report a close that came first.
SetupNoReplay ==
    /\ phase = "opened"
    /\ phase' = "running" /\ streams' = TRUE /\ handlers' = TRUE
    /\ UNCHANGED <<closed, closeCode, queue, closed_local, peer_close, buffered, reader, frag,
                   writer, writing, done, closeDeadline, port, history>>

\* The worker resumes, makes the port and installs the handlers.  A peer may
\* have closed before; setHandlers then reports it at once.
Setup ==
    /\ phase = "opened"
    /\ phase' = "running"
    /\ IF closed
       THEN finish(<< >>, closeCode)
       ELSE streams' = TRUE /\ handlers' = TRUE /\ UNCHANGED <<done, closeDeadline, port>>
    /\ UNCHANGED <<closed, closeCode, queue, closed_local, peer_close, buffered, reader, frag,
                   writer, writing, history>>

\* A subprotocol nobody asked for, or an exception later on: the client is
\* aborted, and told on the port if that was made.
SetupFails ==
    /\ phase = "opened"
    /\ phase' = "refused" /\ done' = TRUE
    /\ closed' = TRUE /\ closeCode' = IF closed THEN closeCode ELSE "abnormal"
    /\ reader' = "ended" /\ writer' = "ended" /\ writing' = NoMsg
    /\ queue' = << >> /\ buffered' = 0
    /\ port' = port \/ port' = Append(port, closeCode')
    /\ UNCHANGED <<handlers, closed_local, peer_close, frag, closeDeadline, streams, history>>

Running == phase = "running" /\ ~done

\* {type: 'send'}: WsClient::send queues the payload.  Once closed_local is set
\* it throws, and the worker posts an error and aborts.
PortSend(n) ==
    /\ Running /\ sends < MaxSends
    /\ sends' = sends + 1
    /\ \/ /\ ~closed_local
          /\ queue' = Append(queue, [op |-> "data", len |-> n])
          /\ buffered' = buffered + n
          /\ UNCHANGED <<closed, closeCode, handlers, reader, writer, writing, swVars>>
       \/ /\ closed_local
          /\ abort(<<"error">>)
          /\ UNCHANGED phase
    /\ UNCHANGED <<closed_local, peer_close, frag, wire, peerClosed, asked, frames>>

\* Mutant of PortClose: the deadline is armed only if this side closes first.
PortCloseUnguarded(n) ==
    /\ Running /\ ~closeDeadline
    /\ asked' = TRUE
    /\ closeDeadline' = ~closed_local
    /\ closed_local' = TRUE
    /\ queue' = IF closed_local THEN queue ELSE Append(queue, [op |-> "Close", len |-> n])
    /\ UNCHANGED <<closed, closeCode, handlers, peer_close, buffered, reader, frag, writer,
                   writing, phase, done, streams, port, wire, peerClosed, sends, frames>>

\* {type: 'close'} with a valid code: the deadline is armed, then
\* WsClient::close queues a Close frame unless one has been queued.
PortClose(n) ==
    /\ Running /\ ~closeDeadline
    /\ asked' = TRUE
    /\ closeDeadline' = TRUE
    /\ closed_local' = TRUE
    /\ queue' = IF closed_local THEN queue ELSE Append(queue, [op |-> "Close", len |-> n])
    /\ UNCHANGED <<closed, closeCode, handlers, peer_close, buffered, reader, frag, writer,
                   writing, phase, done, streams, port, wire, peerClosed, sends, frames>>

\* {type: 'close'} with a code or reason the kernel rejects.
PortCloseInvalid ==
    /\ Running /\ ~closeDeadline
    /\ asked' = TRUE
    /\ fail_connection
    /\ UNCHANGED <<closed_local, peer_close, frag, phase, wire, peerClosed, sends, frames>>

\* {type: 'abort'}, and the close deadline.
PortAbort ==
    /\ Running
    /\ abort(<< >>)
    /\ UNCHANGED <<closed_local, peer_close, frag, phase, history>>

Deadline ==
    /\ Running /\ closeDeadline
    /\ abort(<< >>)
    /\ UNCHANGED <<closed_local, peer_close, frag, phase, history>>

-----------------------------------------------------------------------------
(* reader_task: one frame of the peer, or the end of the transport.        *)

Reads == reader = "reading" /\ ~closed /\ frames < MaxFrames /\ frames' = frames + 1

ReaderKeeps == UNCHANGED <<closed, closeCode, handlers, reader, writer, writing, swVars,
                           queue, buffered>>

\* deliver_message: without a handler the message is dropped.
deliver_message ==
    /\ port' = IF handlers THEN Append(port, "message") ELSE port
    /\ UNCHANGED <<closed, closeCode, handlers, reader, writer, writing, queue, buffered,
                   phase, done, closeDeadline, streams>>

\* A Text or Binary frame, whole or the first fragment.
DataFrame(fin) ==
    /\ Reads
    /\ \/ frag /\ fail_connection /\ UNCHANGED <<frag, phase>>
       \/ ~frag /\ fin /\ deliver_message /\ UNCHANGED frag
       \/ ~frag /\ ~fin /\ frag' = TRUE /\ ReaderKeeps
    /\ UNCHANGED <<closed_local, peer_close, wire, peerClosed, asked, sends>>

Continuation(fin) ==
    /\ Reads
    /\ \/ ~frag /\ fail_connection /\ UNCHANGED <<frag, phase>>
       \/ frag /\ fin /\ frag' = FALSE /\ deliver_message
       \/ frag /\ ~fin /\ UNCHANGED frag /\ ReaderKeeps
    /\ UNCHANGED <<closed_local, peer_close, wire, peerClosed, asked, sends>>

\* A Ping is answered unless a Close has been queued.
Ping(n) ==
    /\ Reads
    /\ queue' = IF closed_local THEN queue ELSE Append(queue, [op |-> "Pong", len |-> n])
    /\ UNCHANGED <<closed, closeCode, handlers, closed_local, peer_close, buffered, reader,
                   frag, writer, writing, swVars, wire, peerClosed, asked, sends>>

\* queue.retain: the Close frames of a queue, in order.
closes(q) ==
    LET kept[i \in 0..Len(q)] ==
            IF i = 0 THEN << >>
            ELSE IF q[i].op = "Close" THEN Append(kept[i - 1], q[i]) ELSE kept[i - 1]
    IN kept[Len(q)]

\* A valid Close: queued data is dropped, a Close is kept or queued in answer,
\* and the reader ends.
PeerClose(n) ==
    /\ Reads
    /\ peerClosed' = TRUE
    /\ peer_close' = TRUE
    /\ reader' = "ended" /\ buffered' = 0
    /\ closed_local' = TRUE
    /\ queue' = IF closed_local THEN closes(queue)
                ELSE Append(closes(queue), [op |-> "Close", len |-> n])
    /\ UNCHANGED <<closed, closeCode, handlers, frag, writer, writing, swVars, wire, asked,
                   sends>>

\* The transport ends, or a frame is malformed, too long, not UTF-8, or a Close
\* with a bad payload.
ReadFails ==
    /\ reader = "reading" /\ ~closed
    /\ fail_connection
    /\ UNCHANGED <<closed_local, peer_close, frag, phase, history>>

-----------------------------------------------------------------------------
(* writer_task.                                                            *)

WriterKeeps == UNCHANGED <<closed, closeCode, handlers, closed_local, reader, frag, swVars,
                           peerClosed, asked, sends, frames>>

Saturating(a, b) == IF a > b THEN a - b ELSE 0

\* WriterPoll pops a message; bufferedAmount drops before the write is awaited.
WriterTakes ==
    /\ writer = "polling" /\ ~closed /\ queue # << >>
    /\ writing' = Head(queue) /\ queue' = Tail(queue)
    /\ buffered' = Saturating(buffered, Head(queue).len)
    /\ writer' = "writing"
    /\ UNCHANGED <<peer_close, wire>> /\ WriterKeeps

Written ==
    /\ writer = "writing"
    /\ wire' = Append(wire, writing.op)
    /\ writing' = NoMsg /\ writer' = "polling"
    /\ UNCHANGED <<queue, buffered, peer_close>> /\ WriterKeeps

WriteFails ==
    /\ writer = "writing"
    /\ fail_connection
    /\ UNCHANGED <<closed_local, peer_close, frag, phase, history>>

\* Mutant of WriterEnds: the peer's Close is looked at before the queue.
WriterEndsEarly ==
    /\ writer = "polling" /\ ~closed /\ peer_close
    /\ peer_close' = FALSE /\ writer' = "closing"
    /\ UNCHANGED <<queue, buffered, writing, wire>> /\ WriterKeeps

\* WriterPoll returns None: nothing is left to write and the peer has closed.
WriterEnds ==
    /\ writer = "polling" /\ ~closed /\ queue = << >> /\ peer_close
    /\ peer_close' = FALSE /\ writer' = "closing"
    /\ UNCHANGED <<queue, buffered, writing, wire>> /\ WriterKeeps

\* conn.close() returns.
TransportClosed ==
    /\ writer = "closing"
    /\ surface_close(<< >>, "clean")
    /\ UNCHANGED <<closed_local, peer_close, frag, phase, history>>

-----------------------------------------------------------------------------
WriterStep == WriterTakes \/ Written \/ WriteFails \/ WriterEnds \/ TransportClosed

Next ==
    \/ Opened \/ OpenFails \/ Setup \/ SetupFails
    \/ PortCloseInvalid \/ PortAbort \/ Deadline
    \/ \E n \in 0..MaxLen : PortSend(n) \/ PortClose(n) \/ Ping(n) \/ PeerClose(n)
    \/ \E fin \in BOOLEAN : DataFrame(fin) \/ Continuation(fin)
    \/ ReadFails
    \/ WriterStep

Spec == Init /\ [][Next]_vars

\* The worker's own continuation runs.  Nothing is assumed of the page, the
\* peer or the transport.
Fairness == WF_vars(Setup \/ SetupFails)
FairSpec == Spec /\ Fairness

-----------------------------------------------------------------------------
(* Properties.                                                             *)

\* The worker implements the port the page relies on: one close, nothing after
\* it, whichever of the peer, the page, the deadline and a failure comes first
\* (finish and surface_close each run once).
Port == INSTANCE StreamPort WITH ended <- done
PortContract == Port!Spec

\* The two halves end together: a client set up for a page is closed exactly
\* when the page has been told, and then no task, timer or map entry is left
\* ("so no task retains a transport half indefinitely").
EndsTogether ==
    /\ TypeOK
    /\ phase = "running" => done = closed
    /\ done => /\ reader = "ended" /\ writer = "ended" /\ queue = << >>
               /\ ~streams /\ ~closeDeadline /\ ~handlers

\* The peer is sent one Close at most and nothing after it; once its own Close
\* is read no queued data follows ("Do not send queued data after receiving
\* Close"); and a close is reported to the page as clean only if both Close
\* frames have crossed.
CloseIsLast ==
    /\ \A i \in 1..Len(wire) : wire[i] = "Close" => i = Len(wire) /\ writing = NoMsg /\ queue = << >>
    /\ writing.op = "Close" => queue = << >>
    /\ \A i \in 1..Len(queue) : queue[i].op = "Close" => i = Len(queue)
    /\ peerClosed => \A i \in 1..Len(queue) : queue[i].op = "Close"
    /\ (\E i \in 1..Len(port) : port[i] = "clean") =>
           peerClosed /\ wire # << >> /\ wire[Len(wire)] = "Close"

\* EndsTogether and CloseIsLast: the worker's end of a socket closes once, in
\* order, on both sides, and leaves nothing behind.
WorkerEndCloses == EndsTogether /\ CloseIsLast

\* A page that closes its socket is told of the end, whatever the peer and the
\* transport do, because its timer fires (the 30 s closeDeadline).
AskedIsTold == WF_vars(Deadline) => (asked ~> done)
=============================================================================

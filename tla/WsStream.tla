------------------------------ MODULE WsStream ------------------------------
(***************************************************************************)
(* transport/ws_stream.rs: a browser WebSocket seen as a byte stream.      *)
(*                                                                         *)
(* The browser's callbacks and the task that owns the stream run on one    *)
(* JavaScript thread, so a poll of the task is never interrupted; they     *)
(* meet in Inner.  The task first awaits OpenFuture, then reads and writes *)
(* (the yamux driver).  Bytes are numbered in the order the relay sent     *)
(* them; a frame is its first byte and its length.                         *)
(***************************************************************************)
EXTENDS Integers, Sequences

CONSTANTS
    Cap,        \* MAX_WS_BUFFER_BYTES
    MaxFrame,   \* longest frame the relay sends
    MaxBytes    \* bound on the bytes of a behaviour

VARIABLES
    sock,        \* the browser's WebSocket: its ready state
    callbacks,   \* the four closures: attached, detached, or freed while attached
    rx_buf,      \* Inner.rx_buf: frames not yet drained
    rx_bytes,    \* Inner.rx_bytes
    read_cursor, \* Inner.read_cursor
    closed,      \* Inner.closed
    error,       \* Inner.error is Some
    opened,      \* Inner.opened
    read_waker,  \* Inner.read_waker is Some
    open_waker,  \* Inner.open_waker is Some
    task,        \* the owning task
    received,    \* history: bytes accepted into rx_buf so far
    delivered,   \* history: bytes poll_read has returned
    overflowed,  \* history: the receive cap was exceeded
    errorTaken,  \* history: a poll of the open stream returned (took) an error
    freedCall    \* history: an event reached a freed closure

inner == <<rx_buf, rx_bytes, read_cursor, closed, error, opened, read_waker, open_waker>>
history == <<received, delivered, overflowed, errorTaken, freedCall>>
vars == <<sock, callbacks, inner, task, history>>

Frame == [first : Nat, len : 1..MaxFrame]

TypeOK ==
    /\ sock \in {"connecting", "open", "failing", "closed"}
    /\ callbacks \in {"attached", "detached", "freed"}
    /\ rx_buf \in Seq(Frame)
    /\ rx_bytes \in 0..Cap
    /\ read_cursor \in Nat
    /\ closed \in BOOLEAN /\ error \in BOOLEAN /\ opened \in BOOLEAN
    /\ read_waker \in BOOLEAN /\ open_waker \in BOOLEAN
    /\ task \in {"opening", "openParked", "ready", "running", "parked", "dropped"}
    /\ received \in Nat /\ delivered \in Nat
    /\ overflowed \in BOOLEAN /\ errorTaken \in BOOLEAN /\ freedCall \in BOOLEAN

\* Inner::new, and open() up to the first poll of OpenFuture.
Init ==
    /\ sock = "connecting" /\ callbacks = "attached"
    /\ rx_buf = << >> /\ rx_bytes = 0 /\ read_cursor = 0
    /\ closed = FALSE /\ error = FALSE /\ opened = FALSE
    /\ read_waker = FALSE /\ open_waker = FALSE
    /\ task = "opening"
    /\ received = 0 /\ delivered = 0
    /\ overflowed = FALSE /\ errorTaken = FALSE /\ freedCall = FALSE

-----------------------------------------------------------------------------
(* Callbacks.  None runs while the task is being polled.                   *)

has_buffered == rx_buf # << >>

wake_read ==
    /\ read_waker' = FALSE
    /\ task' = IF read_waker THEN "ready" ELSE task

\* Mutant of wake_both: nobody wakes the reader.
wake_bothOpenOnly ==
    /\ read_waker' = FALSE /\ open_waker' = FALSE
    /\ task' = IF open_waker THEN "opening" ELSE task

\* wake_read and wake_open: the task is parked on one waker at most.
wake_both ==
    /\ read_waker' = FALSE /\ open_waker' = FALSE
    /\ task' = IF read_waker THEN "ready" ELSE IF open_waker THEN "opening" ELSE task

Event == task # "running" /\ callbacks = "attached"

on_open ==
    /\ Event /\ sock = "connecting"
    /\ sock' = "open" /\ opened' = TRUE
    /\ open_waker' = FALSE
    /\ task' = IF open_waker THEN "opening" ELSE task
    /\ UNCHANGED <<callbacks, rx_buf, rx_bytes, read_cursor, closed, error, read_waker, history>>

\* A binary frame that fits is queued.
BinaryFrame(n) ==
    /\ Event /\ sock = "open" /\ ~closed /\ n <= Cap - rx_bytes
    /\ rx_bytes' = rx_bytes + n
    /\ rx_buf' = Append(rx_buf, [first |-> received + 1, len |-> n])
    /\ received' = received + n
    /\ wake_read
    /\ UNCHANGED <<sock, callbacks, read_cursor, closed, error, opened, open_waker,
                   delivered, overflowed, errorTaken, freedCall>>

\* A binary frame beyond the cap drops everything and ends the stream.
Overflow(n) ==
    /\ Event /\ sock = "open" /\ ~closed /\ n > Cap - rx_bytes
    /\ rx_buf' = << >> /\ rx_bytes' = 0 /\ read_cursor' = 0
    /\ closed' = TRUE /\ error' = TRUE
    /\ wake_both
    /\ overflowed' = TRUE
    /\ UNCHANGED <<sock, callbacks, opened, received, delivered, errorTaken, freedCall>>

\* A text frame, or one of any other type, only records an error.
TextFrame ==
    /\ Event /\ sock = "open"
    /\ error' = TRUE
    /\ wake_read
    /\ UNCHANGED <<sock, callbacks, rx_buf, rx_bytes, read_cursor, closed, opened,
                   open_waker, history>>

\* The connection, or its handshake, fails: an error event, then a close event.
on_error ==
    /\ Event /\ sock \in {"connecting", "open"}
    /\ sock' = "failing"
    /\ error' = TRUE /\ closed' = TRUE
    /\ wake_both
    /\ UNCHANGED <<callbacks, rx_buf, rx_bytes, read_cursor, opened, history>>

\* The close event.  It is clean with code 1000 or 1005, or records an error.
on_close(clean) ==
    /\ Event /\ sock \in {"open", "failing"}
    /\ sock = "failing" => ~clean
    /\ sock' = "closed"
    /\ closed' = TRUE
    /\ error' = (error \/ ~clean)
    /\ wake_both
    /\ UNCHANGED <<callbacks, rx_buf, rx_bytes, read_cursor, opened, history>>

\* An event whose closure has been freed without being detached.
FreedEvent ==
    /\ task # "running" /\ callbacks = "freed" /\ sock # "closed"
    /\ sock' = "closed"
    /\ freedCall' = TRUE
    /\ UNCHANGED <<callbacks, inner, task, received, delivered, overflowed, errorTaken>>

-----------------------------------------------------------------------------
(* The owning task.                                                        *)

\* OpenFuture::poll.  When it fails, open() returns and its closures go out of
\* scope; only Drop for WsStream detaches them.
OpenPoll ==
    /\ task = "opening"
    /\ \/ /\ error /\ error' = FALSE
          /\ task' = "dropped" /\ callbacks' = "freed"
          /\ UNCHANGED open_waker
       \/ /\ ~error /\ opened
          /\ task' = "ready"
          /\ UNCHANGED <<callbacks, error, open_waker>>
       \/ /\ ~error /\ ~opened
          /\ task' = "openParked" /\ open_waker' = TRUE
          /\ UNCHANGED <<callbacks, error>>
    /\ UNCHANGED <<sock, rx_buf, rx_bytes, read_cursor, closed, opened, read_waker, history>>

\* The executor polls the woken task.
Poll ==
    /\ task = "ready"
    /\ task' = "running"
    /\ UNCHANGED <<sock, callbacks, inner, history>>

\* Mutant of ReadData: the cursor survives the frame it was an offset in.
ReadDataKeepsCursor(n) ==
    /\ task = "running" /\ has_buffered
    /\ LET front == Head(rx_buf) IN
        /\ n <= front.len - read_cursor
        /\ IF read_cursor + n >= front.len
           THEN /\ rx_buf' = Tail(rx_buf)
                /\ rx_bytes' = rx_bytes - front.len
                /\ read_cursor' = IF Len(rx_buf) > 1 THEN read_cursor ELSE 0
           ELSE /\ read_cursor' = read_cursor + n
                /\ UNCHANGED <<rx_buf, rx_bytes>>
    /\ delivered' = delivered + n
    /\ UNCHANGED <<sock, callbacks, closed, error, opened, read_waker, open_waker, task,
                   received, overflowed, errorTaken, freedCall>>

\* poll_read returns the n bytes of the front frame that fit.
ReadData(n) ==
    /\ task = "running" /\ has_buffered
    /\ LET front == Head(rx_buf) IN
        /\ n <= front.len - read_cursor
        /\ IF read_cursor + n >= front.len
           THEN /\ rx_buf' = Tail(rx_buf)
                /\ rx_bytes' = rx_bytes - front.len
                /\ read_cursor' = 0
           ELSE /\ read_cursor' = read_cursor + n
                /\ UNCHANGED <<rx_buf, rx_bytes>>
    /\ delivered' = delivered + n
    /\ UNCHANGED <<sock, callbacks, closed, error, opened, read_waker, open_waker, task,
                   received, overflowed, errorTaken, freedCall>>

\* Mutant of ReadError: a recorded error goes before the queued frames.
ReadErrorFirst ==
    /\ task = "running" /\ error
    /\ error' = FALSE /\ errorTaken' = TRUE
    /\ UNCHANGED <<sock, callbacks, rx_buf, rx_bytes, read_cursor, closed, opened,
                   read_waker, open_waker, task, received, delivered, overflowed, freedCall>>

\* poll_read of an empty queue takes the error.
ReadError ==
    /\ task = "running" /\ ~has_buffered /\ error
    /\ error' = FALSE /\ errorTaken' = TRUE
    /\ UNCHANGED <<sock, callbacks, rx_buf, rx_bytes, read_cursor, closed, opened,
                   read_waker, open_waker, task, received, delivered, overflowed, freedCall>>

\* poll_read of an empty queue that is neither closed nor in error parks.
ReadParks ==
    /\ task = "running" /\ ~has_buffered /\ ~error /\ ~closed
    /\ read_waker' = TRUE /\ task' = "parked"
    /\ UNCHANGED <<sock, callbacks, rx_buf, rx_bytes, read_cursor, closed, error, opened,
                   open_waker, history>>

\* poll_write takes an error too; otherwise it sends, or fails on a closed
\* stream, and changes nothing here.
WriteError ==
    /\ task = "running" /\ error
    /\ error' = FALSE /\ errorTaken' = TRUE
    /\ UNCHANGED <<sock, callbacks, rx_buf, rx_bytes, read_cursor, closed, opened,
                   read_waker, open_waker, task, received, delivered, overflowed, freedCall>>

\* Mutant of EndTick: the driver returns Pending without looking at rx_buf.
EndTickParks ==
    /\ task = "running" /\ has_buffered
    /\ task' = "parked"
    /\ UNCHANGED <<sock, callbacks, inner, history>>

\* The driver ends its tick with frames left over (poll_next_inbound has taken
\* what it wants): has_buffered makes it wake itself.
EndTick ==
    /\ task = "running" /\ has_buffered
    /\ task' = "ready"
    /\ UNCHANGED <<sock, callbacks, inner, history>>

\* poll_close: the socket is told to close; its close event comes later.
poll_close ==
    /\ task = "running" /\ ~closed
    /\ closed' = TRUE
    /\ UNCHANGED <<sock, callbacks, rx_buf, rx_bytes, read_cursor, error, opened,
                   read_waker, open_waker, task, history>>

\* Drop for WsStream, when the driver returns after an error, EOF or close.
Drop ==
    /\ task = "running" /\ (closed \/ errorTaken)
    /\ callbacks' = "detached" /\ task' = "dropped"
    /\ UNCHANGED <<sock, inner, history>>

Next ==
    \/ on_open \/ TextFrame \/ on_error \/ FreedEvent
    \/ \E clean \in BOOLEAN : on_close(clean)
    \/ \E n \in 1..MaxFrame :
        received + n <= MaxBytes /\ (BinaryFrame(n) \/ Overflow(n))
    \/ OpenPoll \/ Poll \/ ReadError \/ ReadParks \/ WriteError \/ EndTick
    \/ \E n \in 1..MaxFrame : ReadData(n)
    \/ poll_close \/ Drop

Spec == Init /\ [][Next]_vars

\* The executor polls a woken task and a poll ends; the browser settles the
\* handshake.  The relay is never obliged to send.  A task that finds frames
\* reads again and again until the queue is empty.
Fairness ==
    /\ WF_vars(OpenPoll) /\ WF_vars(Poll)
    /\ WF_vars(on_open \/ on_error)
    /\ WF_vars(ReadError \/ ReadParks)
    /\ SF_vars(\E n \in 1..MaxFrame : ReadData(n))

FairSpec == Spec /\ Fairness

-----------------------------------------------------------------------------
(* Properties.                                                             *)

\* The next byte poll_read would return.
NextByte == IF has_buffered THEN Head(rx_buf).first + read_cursor ELSE received + 1

\* The queue holds exactly the bytes accepted and not yet read: the task reads
\* them in order, each once, whatever the frame boundaries and buffer sizes,
\* until the cap is exceeded (poll_read's cursor), and rx_bytes counts the
\* queued frames, so that the cap check of on_message checks the memory held.
QueueExact ==
    /\ TypeOK
    /\ overflowed \/ NextByte = delivered + 1
    /\ rx_bytes = IF has_buffered THEN received - Head(rx_buf).first + 1 ELSE 0

\* A task asleep in poll_read has its waker registered and nothing to wake up
\* for: no data, error or close is waiting (wake_read in every callback).
NoLostWakeup ==
    /\ task = "parked" => read_waker /\ ~has_buffered /\ ~error /\ ~closed
    /\ task = "openParked" => open_waker /\ ~opened /\ ~error

\* What the socket accepted is read in order, each byte once, and nobody sleeps
\* on it.
ReadInOrder == QueueExact /\ NoLostWakeup

\* poll_read takes an error only after it has delivered every accepted byte:
\* a close that arrives behind queued frames does not cut them off.
ErrorAfterData ==
    [][ReadError => overflowed \/ delivered = received]_vars
=============================================================================

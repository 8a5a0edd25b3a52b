------------------------------- MODULE H2Send --------------------------------
(***************************************************************************)
(* The sending half of a client connection of the h2 fork                  *)
(* (third_party-h2-fork/src/proto/streams: prioritize.rs, send.rs,         *)
(* counts.rs, stream.rs, streams.rs): how request frames wait for a stream *)
(* slot, for the connection's window and for the stream's window, and how  *)
(* resets and failures give all of it back.                                *)
(*                                                                         *)
(* Every call takes the lock of Inner, so an action is a whole call.  The  *)
(* connection task writes one frame per step: the codec may be full after  *)
(* each of them, which returns Pending and lets other calls in.  Sizes are *)
(* small numbers of bytes.  Responses carry no data here (H2Recv has it);  *)
(* frames for streams already forgotten are H2Recv's too.                  *)
(***************************************************************************)
EXTENDS H2State, Naturals, Sequences, SequencesExt, FiniteSets, FiniteSetsExt

CONSTANTS
    MaxStream,      \* streams are 1..MaxStream, opened in this order
    MaxBody,        \* bytes of a request body
    Sizes,          \* bytes of one send_data
    Ends,           \* whether a send_data may, or must, be the last
    MaxFrame,       \* the largest DATA frame the peer takes
    MaxWindow,      \* the largest window (MAX_WINDOW_SIZE)
    ConnWindow,     \* the connection's window at the start
    InitWindow,     \* the streams' window until the peer's first SETTINGS
    InitStreams,    \* the stream limit until then
    Windows,        \* values of SETTINGS_INITIAL_WINDOW_SIZE
    Limits,         \* values of SETTINGS_MAX_CONCURRENT_STREAMS
    MaxReset,       \* max_local_reset_streams
    MaxEvents       \* bound on what the peer does besides answering

ASSUME SendAssumption ==
    /\ MaxStream \in Nat \ {0} /\ MaxFrame \in Nat \ {0} /\ MaxBody \in Nat
    /\ MaxWindow \in Nat /\ ConnWindow \in 0..MaxWindow
    /\ InitWindow \in 0..MaxWindow /\ Windows \subseteq 0..MaxWindow
    /\ InitStreams \in Nat /\ Limits \subseteq Nat
    /\ Sizes \subseteq 0..MaxBody /\ Ends \subseteq BOOLEAN
    /\ MaxReset \in Nat /\ MaxEvents \in Nat

VARIABLES
    me,        \* Inner: streams, queues and counts of the connection
    events,    \* what the peer has done besides answering requests
    wire       \* history: what each stream has put on the wire

vars == <<me, events, wire>>
Streams == 1..MaxStream

\* A frame in a stream's queue.
HeadersFrame(eos) == [t |-> "HEADERS", n |-> 0, eos |-> eos]
DataFrame(n, eos) == [t |-> "DATA", n |-> n, eos |-> eos]
ResetFrame == [t |-> "RST_STREAM", n |-> 0, eos |-> FALSE]
NoFrame == [t |-> "-", n |-> 0, eos |-> FALSE]
Frames == [t: {"HEADERS", "DATA", "RST_STREAM"}, n: 0..MaxBody, eos: BOOLEAN]

\* A stream of the slab; linked: still found by its id.
Stream(life, state, window, refs, queue) ==
    [life |-> life, state |-> state, linked |-> life = "live", refs |-> refs,
     counted |-> FALSE, flow |-> [window |-> window, available |-> 0],
     requested |-> 0, buffered |-> 0, queue |-> queue]
Unborn == Stream("unborn", Idle, 0, 0, <<>>)
Gone == Stream("gone", Idle, 0, 0, <<>>)

\* in_flight_data_frame, with the part of the frame that is not written yet.
Nothing == [s |-> 0, rest |-> 0, eos |-> FALSE]
InFlight(s, rest, eos) == [s |-> s, rest |-> rest, eos |-> eos]
Dropped == [s |-> -1, rest |-> 0, eos |-> FALSE]

\* given: bytes the user has handed over; peer: how far the peer is.
Silent == [given |-> 0, opened |-> FALSE, bytes |-> 0, ended |-> FALSE,
           reset |-> FALSE, peer |-> "open"]

Init ==
    /\ me = [st |-> [s \in Streams |-> Unborn],
             flow |-> [window |-> ConnWindow, available |-> ConnWindow],
             pending_send |-> <<>>, pending_capacity |-> <<>>,
             pending_open |-> <<>>, reset_expired |-> <<>>, flying |-> Nothing,
             num |-> 0, max |-> InitStreams, init |-> InitWindow, resets |-> 0,
             error |-> "no", last |-> MaxStream, closed |-> FALSE,
             parked |-> TRUE]
    /\ events = 0
    /\ wire = [s \in Streams |-> Silent]

-----------------------------------------------------------------------------
(* store::Queue: a stream is in a queue at most once.                      *)

push(q, s) == IF s \in Range(q) THEN q ELSE Append(q, s)
push_front(q, s) == IF s \in Range(q) THEN q ELSE <<s>> \o q
is_send_ready(m, s) == s \notin Range(m.pending_open)

\* Stream::is_closed: closed, and every frame has left.
flushed(x) == is_closed(x.state) /\ x.queue = <<>> /\ x.buffered = 0
is_released(m, s) ==
    /\ flushed(m.st[s]) /\ m.st[s].refs = 0
    /\ \A q \in {m.pending_send, m.pending_capacity, m.pending_open,
                 m.reset_expired} : s \notin Range(q)

\* Counts::transition_after: forget a closed stream, give its slot back, and
\* take it from the slab once nothing refers to it.
transition_after(m, s) ==
    LET x == m.st[s]
        frees == flushed(x) /\ ~is_scheduled_reset(x.state) /\ x.counted
        y == [x EXCEPT !.linked = @ /\ ~(flushed(x) /\ s \notin Range(m.reset_expired)),
                       !.counted = @ /\ ~frees]
        n == [m EXCEPT !.st[s] = y, !.num = IF frees THEN @ - 1 ELSE @]
    IN IF is_released(n, s) THEN [n EXCEPT !.st[s] = Gone] ELSE n

wake(m) == [m EXCEPT !.parked = FALSE]

-----------------------------------------------------------------------------
(* Prioritize: capacity.                                                   *)

try_assign_capacity(m, s) ==
    LET x == m.st[s]
        additional == smaller(x.requested - as_size(x.flow.available),
                              as_size(x.flow.window) - as_size(x.flow.available))
        assign == smaller(as_size(m.flow.available), additional)
        f == assign_capacity(x.flow, assign)
        short == f.available < x.requested /\ has_unavailable(f)
        ready == x.buffered > 0 /\ is_send_ready(m, s)
    IN IF \/ ~is_send_ready(m, s)
          \/ additional = 0
          \/ ~is_send_streaming(x.state) /\ x.buffered = 0
       THEN m
       ELSE [m EXCEPT !.st[s].flow = f,
                      !.flow = claim_capacity(@, assign),
                      !.pending_capacity = IF short THEN push(@, s) ELSE @,
                      !.pending_send = IF ready THEN push(@, s) ELSE @]

\* One turn of the loop in assign_connection_capacity: the head of the queue
\* is served, or evicted when it no longer wants capacity.
serve(m, s) ==
    LET n == [m EXCEPT !.pending_capacity = Tail(@)]
        wants == is_send_streaming(m.st[s].state) \/ m.st[s].buffered > 0
    IN IF m.flow.available <= 0 THEN m
       ELSE IF wants THEN transition_after(try_assign_capacity(n, s), s)
       ELSE n

\* A stream comes back to the queue only when the connection has nothing left,
\* so the loop sees each stream once.
assign_connection_capacity(m, inc) ==
    FoldLeft(serve, [m EXCEPT !.flow = assign_capacity(@, inc)],
             m.pending_capacity)

\* Takes n bytes of assigned capacity back from a stream.
reclaim(m, s, n) ==
    IF n <= 0 THEN m
    ELSE assign_connection_capacity(
             [m EXCEPT !.st[s].flow = claim_capacity(@, n)], n)
reclaim_all_capacity(m, s) == reclaim(m, s, as_size(m.st[s].flow.available))
reclaim_reserved_capacity(m, s) ==
    reclaim(m, s, as_size(m.st[s].flow.available) - m.st[s].buffered)

\* reserve_capacity(0): what exceeds the buffered data is given back.
release_excess(m, s) ==
    LET x == m.st[s]
        n == [m EXCEPT !.st[s].requested = x.buffered]
    IN IF x.buffered < x.requested
       THEN reclaim(n, s, as_size(x.flow.available) - x.buffered) ELSE m

clear_queue(m, s) ==
    [m EXCEPT !.st[s].queue = <<>>, !.st[s].buffered = 0, !.st[s].requested = 0,
              !.flying = IF @.s = s THEN Dropped ELSE @]

\* Mutant: the connection task is not woken.
schedule_send_quietly(m, s) ==
    IF is_send_ready(m, s) THEN [m EXCEPT !.pending_send = push(@, s)] ELSE m
schedule_send(m, s) ==
    IF is_send_ready(m, s)
    THEN wake([m EXCEPT !.pending_send = push(@, s)]) ELSE m
queue_frame(m, s, f) == schedule_send([m EXCEPT !.st[s].queue = Append(@, f)], s)

-----------------------------------------------------------------------------
(* Resets and errors of one stream.                                        *)

enqueue_reset_expiration(m, s) ==
    IF \/ ~is_local_error(m.st[s].state)
       \/ s \in Range(m.reset_expired)
       \/ m.resets >= MaxReset
    THEN m
    ELSE [m EXCEPT !.reset_expired = Append(@, s), !.resets = @ + 1]

\* Send::send_reset: the stream's frames give way to RST_STREAM, unless its
\* HEADERS have yet to open the stream.
send_reset(m, s) ==
    LET x == m.st[s]
        n == [m EXCEPT !.st[s].state = Closed("local")]
        cleared == IF is_send_ready(m, s) THEN clear_queue(n, s) ELSE n
    IN IF is_reset(x.state) THEN m
       ELSE IF is_closed(x.state) /\ x.queue = <<>> THEN n
       ELSE reclaim_all_capacity(queue_frame(cleared, s, ResetFrame), s)

schedule_implicit_reset(m, s) ==
    IF is_closed(m.st[s].state) THEN m
    ELSE schedule_send(
             reclaim_reserved_capacity(
                 [m EXCEPT !.st[s].state = Closed("scheduled")], s), s)

\* Send::handle_error
\* Mutant: the window assigned to a failed stream is not given back.
handle_error_no_reclaim(m, s) == clear_queue(m, s)
handle_error(m, s) == reclaim_all_capacity(clear_queue(m, s), s)

\* reset_on_recv_stream_err: the peer's frame was wrong for this stream.
reset_on_recv_stream_err(m, s) == enqueue_reset_expiration(send_reset(m, s), s)

\* The turn of one stream in the loops of Inner::handle_error, recv_go_away and
\* recv_eof.
fail_stream(m, s, cause) ==
    LET n == [m EXCEPT !.st[s].state = fail(@, cause)]
    IN transition_after(handle_error(n, s), s)

\* The orders in which try_for_each may visit the streams (swap_remove moves
\* them about).
Orders(m) == SetToSeqs({s \in Streams : m.st[s].linked})

\* A connection error: every stream fails, and GOAWAY is on its way.
go_away_now(m, order) ==
    [FoldLeft(LAMBDA a, s : fail_stream(a, s, "local"), m, order)
        EXCEPT !.error = "fatal"]

-----------------------------------------------------------------------------
(* The user's side: the kernel's requests and the handles they hold.       *)

\* Streams::send_request: the HEADERS wait in pending_open for a slot.
send_request(s, eos) ==
    /\ me.error = "no" /\ ~me.closed
    /\ me.st[s].life = "unborn" /\ \A r \in 1..(s - 1) : me.st[r].life # "unborn"
    /\ me' = wake([me EXCEPT
                 !.st[s] = Stream("live", send_open(eos), me.init, 1,
                                  <<HeadersFrame(eos)>>),
                 !.pending_open = push(@, s)])
    /\ UNCHANGED <<events, wire>>

\* StreamRef::send_data, through Prioritize::send_data.
send_data(s, n, eos) ==
    LET x == me.st[s]
        asks == x.requested < x.buffered + n
        m1 == [me EXCEPT !.st[s].buffered = @ + n,
                         !.st[s].requested = IF asks THEN x.buffered + n ELSE @]
        m2 == IF asks THEN try_assign_capacity(m1, s) ELSE m1
        m3 == IF eos
              THEN release_excess([m2 EXCEPT !.st[s].state = send_close(@)], s)
              ELSE m2
        goes == m3.st[s].flow.available > 0 \/ m3.st[s].buffered = 0
        f == DataFrame(n, eos)
    IN /\ x.life = "live" /\ x.refs > 0 /\ is_send_streaming(x.state)
       /\ wire[s].given + n <= MaxBody
       /\ me' = transition_after(
                  IF goes THEN queue_frame(m3, s, f)
                  ELSE [m3 EXCEPT !.st[s].queue = Append(@, f)], s)
       /\ wire' = [wire EXCEPT ![s].given = @ + n]
       /\ UNCHANGED events

\* drop_stream_ref: the last handle cancels a stream that is not closed.  (The
\* request's two handles count as one: dropping the first changes nothing.)
drop_stream_ref(s) ==
    LET m1 == [me EXCEPT !.st[s].refs = @ - 1]
        last == m1.st[s].refs = 0
        m2 == IF last /\ flushed(m1.st[s]) THEN wake(m1) ELSE m1
        m3 == IF last /\ ~is_closed(m1.st[s].state)
              THEN enqueue_reset_expiration(schedule_implicit_reset(m2, s), s)
              ELSE m2
    IN /\ me.st[s].refs > 0
       /\ me' = transition_after(m3, s)
       /\ UNCHANGED <<events, wire>>

-----------------------------------------------------------------------------
(* The connection task reads a frame.                                      *)

Reads == me.error # "fatal" /\ ~me.closed
\* The peer speaks on streams it has seen opened; frames for streams that are
\* not in the store any more change nothing here.
Hears(s) == Reads /\ wire[s].opened /\ me.st[s].linked
Counted == events < MaxEvents /\ events' = events + 1

\* The head of a response, or trailers.
RecvHeaders(s, eos) ==
    LET x == me.st[s].state
    IN /\ Hears(s) /\ ~is_local_error(x)
       /\ is_recv_headers(x) \/ (is_recv_streaming(x) /\ eos)
       /\ me' = wake(transition_after(
                  [me EXCEPT !.st[s].state = recv_open(x, eos, FALSE)], s))
       /\ wire' = [wire EXCEPT ![s].peer = IF eos THEN "ended" ELSE @]
       /\ UNCHANGED events

\* A frame the stream's state or message does not allow.
RecvMalformed(s) ==
    /\ Hears(s) /\ ensure_recv_open(me.st[s].state) = "yes" /\ Counted
    /\ me' = wake(transition_after(reset_on_recv_stream_err(me, s), s))
    /\ UNCHANGED wire

RecvReset(s) ==
    LET queued == s \in Range(me.pending_send)
        n == [me EXCEPT !.st[s].state = recv_reset(@, queued)]
    IN /\ Hears(s) /\ Counted
       /\ me' = wake(transition_after(handle_error(n, s), s))
       /\ wire' = [wire EXCEPT ![s].peer = "reset"]

\* Send::recv_stream_window_update; the window may overflow.
widen(m, s, inc) ==
    LET x == m.st[s]
        n == [m EXCEPT !.st[s].flow = inc_window(@, inc)]
    IN IF is_send_closed(x.state) /\ x.buffered = 0 THEN m
       ELSE IF x.flow.window + inc > MaxWindow THEN send_reset(m, s)
       ELSE try_assign_capacity(n, s)
overflows(m, s, inc) ==
    /\ ~(is_send_closed(m.st[s].state) /\ m.st[s].buffered = 0)
    /\ m.st[s].flow.window + inc > MaxWindow

RecvWindowUpdate(s, inc) ==
    LET n == widen(me, s, inc)
    IN /\ Hears(s) /\ Counted
       /\ me' = wake(IF overflows(me, s, inc) THEN enqueue_reset_expiration(n, s)
                     ELSE n)
       /\ UNCHANGED wire

RecvConnectionWindowUpdate(inc) ==
    /\ Reads /\ Counted
    /\ \E order \in Orders(me) :
         me' = wake(IF me.flow.window + inc > MaxWindow
                    THEN go_away_now(me, order)
                    ELSE assign_connection_capacity(
                            [me EXCEPT !.flow = inc_window(@, inc)], inc))
    /\ UNCHANGED wire

\* Send::apply_remote_settings, a smaller window: capacity a stream may no
\* longer use goes back to the connection.
narrow(m, order, dec) ==
    LET skip(s) == is_send_closed(m.st[s].state) /\ m.st[s].buffered = 0
        size(s) == as_size(m.st[s].flow.window - dec)
        excess(s) == IF skip(s) THEN 0
                     ELSE as_size(as_size(m.st[s].flow.available) - size(s))
        st == [s \in Streams |->
                 IF s \notin Range(order) \/ skip(s) THEN m.st[s]
                 ELSE [m.st[s] EXCEPT !.flow = claim_capacity(
                          dec_send_window(@, dec), excess(s))]]
    IN assign_connection_capacity([m EXCEPT !.st = st],
           FoldLeft(LAMBDA a, s : a + excess(s), 0, order))

\* ... a larger one: the first stream that overflows ends the connection.
widen_all(m, order, inc) ==
    FoldLeft(LAMBDA a, s :
               IF a.error = "fatal" THEN a
               ELSE IF overflows(a, s, inc)
               THEN [widen(a, s, inc) EXCEPT !.error = "fatal"]
               ELSE widen(a, s, inc), m, order)

RecvSettings(w, max) ==
    /\ Reads /\ Counted
    /\ \E order \in Orders(me) :
         LET m == [me EXCEPT !.init = w, !.max = max]
             n == CASE w < me.init -> narrow(m, order, me.init - w)
                    [] w > me.init -> widen_all(m, order, w - me.init)
                    [] OTHER -> m
         IN me' = wake(IF n.error = "fatal" THEN go_away_now(n, order) ELSE n)
    /\ UNCHANGED wire

\* Inner::recv_go_away: the peer will not answer the streams above last.
RecvGoAway(last) ==
    /\ Reads /\ last <= me.last /\ Counted
    /\ \E order \in Orders(me) :
         me' = wake([FoldLeft(LAMBDA a, s : fail_stream(a, s, "remote"), me,
                              SelectSeq(order, LAMBDA s : s > last))
                       EXCEPT !.error = "goaway", !.last = last])
    /\ wire' = [s \in Streams |->
                 [wire[s] EXCEPT !.peer = IF s > last THEN "reset" ELSE @]]

-----------------------------------------------------------------------------
(* The connection task writes.                                             *)

\* clear_expired_reset_streams: the longest kept of the streams reset here.
\* Its count is given back when the stream has nothing left to send.
expire(m) ==
    LET s == Head(m.reset_expired)
    IN transition_after(
         [m EXCEPT !.reset_expired = Tail(@),
                   !.resets = IF flushed(m.st[s]) THEN @ - 1 ELSE @], s)
Expire ==
    /\ ~me.closed /\ ~me.parked /\ me.reset_expired # <<>>
    /\ me' = expire(me)
    /\ UNCHANGED <<events, wire>>

\* Mutant: one stream more than the peer allows.
pop_pending_open_late(m) ==
    LET s == Head(m.pending_open)
    IN IF m.pending_open = <<>> \/ m.num > m.max THEN m
       ELSE try_assign_capacity(
              [m EXCEPT !.pending_open = Tail(@), !.num = @ + 1,
                        !.st[s].counted = TRUE,
                        !.pending_send = push_front(@, s)], s)
pop_pending_open(m) ==
    LET s == Head(m.pending_open)
    IN IF m.pending_open = <<>> \/ m.num >= m.max THEN m
       ELSE try_assign_capacity(
              [m EXCEPT !.pending_open = Tail(@), !.num = @ + 1,
                        !.st[s].counted = TRUE,
                        !.pending_send = push_front(@, s)], s)

\* What a stream may send of its DATA frame f now; blocked: nothing, and the
\* frame stays where it is.
sendable(x, f) == smaller(smaller(f.n, MaxFrame), as_size(x.flow.available))
blocked(x, f) ==
    /\ f.t = "DATA" /\ f.n > 0
    /\ x.flow.available <= 0 \/ sendable(x, f) > as_size(x.flow.window)

\* The part of a DATA frame that is written: only the last has END_STREAM.
cut(f, len) == DataFrame(len, f.eos /\ len = f.n)

\* The stream's next frame leaves (a = [m, s, f], f the frame as written).
take_frame(m, s) ==
    LET x == m.st[s]
        f == Head(x.queue)
        len == sendable(x, f)
        m1 == [m EXCEPT !.st[s].queue = Tail(@)]
        m2 == [m1 EXCEPT
                 !.st[s].flow = send_data_window(@, len),
                 !.st[s].buffered = @ - len, !.st[s].requested = @ - len,
                 !.flow = send_data_window(assign_capacity(@, len), len),
                 !.flying = InFlight(s, f.n - len, f.eos)]
    IN IF x.queue = <<>>
       THEN [m |-> [m EXCEPT !.st[s].state = Closed("local")], s |-> s,
             f |-> ResetFrame]
       ELSE IF f.t = "DATA" THEN [m |-> m2, s |-> s, f |-> cut(f, len)]
       ELSE [m |-> m1, s |-> s, f |-> f]

\* One turn of the loop in pop_frame: the head of pending_send yields a frame,
\* is put aside blocked, or is found to have been cleared.
pop_stream(a, s) ==
    LET m == [a.m EXCEPT !.pending_send = Tail(@)]
        x == m.st[s]
        t == take_frame(m, s)
        more == t.m.st[s].queue # <<>> \/ is_scheduled_reset(t.m.st[s].state)
        n == [t.m EXCEPT !.pending_send = IF more THEN push(@, s) ELSE @]
    IN IF a.f # NoFrame THEN a
       ELSE IF x.queue = <<>> /\ ~is_scheduled_reset(x.state)
       THEN [a EXCEPT !.m = transition_after(m, s)]
       ELSE IF x.queue # <<>> /\ blocked(x, Head(x.queue)) THEN [a EXCEPT !.m = m]
       ELSE [t EXCEPT !.m = transition_after(n, s)]
pop_frame(m) ==
    FoldLeft(pop_stream, [m |-> m, s |-> 0, f |-> NoFrame], m.pending_send)

\* One turn of Prioritize::poll_complete with room in the codec; when nothing
\* is left the task leaves its waker and sleeps.
Write ==
    LET r == pop_frame(pop_pending_open(me))
    IN /\ ~me.closed /\ ~me.parked /\ me.flying = Nothing
       /\ me' = [r.m EXCEPT !.parked = r.f = NoFrame]
       /\ wire' = IF r.f = NoFrame THEN wire
                  ELSE [wire EXCEPT
                          ![r.s].opened = @ \/ r.f.t = "HEADERS",
                          ![r.s].bytes = @ + r.f.n,
                          ![r.s].ended = @ \/ r.f.eos,
                          ![r.s].reset = @ \/ r.f.t = "RST_STREAM"]
       /\ UNCHANGED events

\* reclaim_frame: the codec has written the DATA frame; what was cut off goes
\* back to the front of its stream, unless the stream was cleared meanwhile.
Reclaim ==
    LET s == me.flying.s
        m == [me EXCEPT !.flying = Nothing]
        n == [m EXCEPT !.st[s].queue =
                         <<DataFrame(me.flying.rest, me.flying.eos)>> \o @]
    IN /\ ~me.closed /\ me.flying # Nothing
       /\ me' = IF me.flying.rest = 0 THEN m
                ELSE IF n.st[s].flow.available > 0
                THEN [n EXCEPT !.pending_send = push(@, s)] ELSE n
       /\ UNCHANGED <<events, wire>>

-----------------------------------------------------------------------------
(* The end of the connection.                                              *)

\* Inner::recv_eof with the queues cleared, as the connection's drop does it.
clear_queues(m) ==
    LET m1 == FoldLeft(LAMBDA a, s : expire(a), m, m.reset_expired)
        m2 == FoldLeft(LAMBDA a, s :
                 transition_after([a EXCEPT !.pending_capacity = Tail(@)], s),
                 m1, m1.pending_capacity)
        m3 == FoldLeft(LAMBDA a, s :
                 transition_after(
                   [a EXCEPT !.pending_send = Tail(@),
                             !.st[s].state = IF is_scheduled_reset(@)
                                             THEN Closed("local") ELSE @], s),
                 m2, m2.pending_send)
    IN FoldLeft(LAMBDA a, s :
          transition_after([a EXCEPT !.pending_open = Tail(@)], s),
          m3, m3.pending_open)
recv_eof(m, order) ==
    [clear_queues(FoldLeft(LAMBDA a, s : fail_stream(a, s, "local"), m, order))
        EXCEPT !.closed = TRUE, !.error = "fatal", !.parked = TRUE,
               !.flying = Nothing]

\* The transport ends, or a connection error has been sent.
Eof ==
    /\ ~me.closed
    /\ IF me.error = "fatal" THEN UNCHANGED events ELSE Counted
    /\ \E order \in Orders(me) : me' = recv_eof(me, order)
    /\ UNCHANGED wire

\* Connection::poll: after the peer's GOAWAY the connection closes once no
\* stream holds a slot.
CloseIdle ==
    /\ ~me.closed /\ me.error = "goaway" /\ me.num = 0 /\ me.parked
    /\ \E order \in Orders(me) : me' = recv_eof(me, order)
    /\ UNCHANGED <<events, wire>>

-----------------------------------------------------------------------------
User(s) ==
    \/ \E eos \in BOOLEAN : send_request(s, eos)
    \/ \E n \in Sizes, eos \in Ends : send_data(s, n, eos)
    \/ drop_stream_ref(s)
Peer ==
    \/ \E s \in Streams :
         \/ \E eos \in BOOLEAN : RecvHeaders(s, eos)
         \/ RecvMalformed(s) \/ RecvReset(s) \/ RecvWindowUpdate(s, 1)
    \/ RecvConnectionWindowUpdate(1)
    \/ \E w \in Windows, n \in Limits : RecvSettings(w, n)
    \/ \E last \in 0..MaxStream : RecvGoAway(last)
Task == Expire \/ Write \/ Reclaim \/ CloseIdle
Next == (\E s \in Streams : User(s)) \/ Peer \/ Task \/ Eof

Spec == Init /\ [][Next]_vars

-----------------------------------------------------------------------------
TypeOK ==
    /\ me.st \in [Streams ->
         [life: {"unborn", "live", "gone"}, state: States, linked: BOOLEAN,
          refs: 0..1, counted: BOOLEAN,
          flow: [window: (-MaxWindow)..MaxWindow, available: 0..MaxWindow],
          requested: 0..MaxBody, buffered: 0..MaxBody, queue: Seq(Frames)]]
    /\ me.flow \in [window: 0..MaxWindow, available: 0..MaxWindow]
    /\ \A q \in {me.pending_send, me.pending_capacity, me.pending_open,
                 me.reset_expired} :
         q \in Seq({s \in Streams : me.st[s].life = "live"}) /\ IsInjective(q)
    /\ me.num \in 0..MaxStream /\ me.resets \in 0..MaxReset
    /\ events \in 0..MaxEvents

\* Window accounting.  The connection's window is exactly shared out: what the
\* connection keeps and what its streams were assigned add up to the window the
\* peer granted, through partial writes, cancelled requests, resets and smaller
\* windows, and no stream holds more than it asked for or may use.  (A stream
\* that took assigned capacity with it would shrink the connection for good.)
CapacityExact ==
    /\ TypeOK
    /\ me.flow.available
         + MapThenSumSet(LAMBDA s : me.st[s].flow.available, Streams)
       = me.flow.window
    /\ \A s \in Streams : LET x == me.st[s] IN
         x.flow.available <= smaller(x.requested, as_size(x.flow.window))

\* A stream wants capacity that its window, but not yet the connection, allows.
Wanting(s) ==
    LET x == me.st[s]
    IN /\ is_send_ready(me, s) /\ has_unavailable(x.flow)
       /\ x.flow.available < x.requested
\* A stream's next frame could be written now.
Sendable(s) ==
    LET x == me.st[s]
    IN /\ x.life = "live" /\ is_send_ready(me, s) /\ me.flying.s # s
       /\ x.queue # <<>> /\ ~blocked(x, Head(x.queue))

\* Nobody is forgotten.  A stream whose next frame could leave is in
\* pending_send; one short of capacity its window allows is in
\* pending_capacity, and then the connection really has none; and the
\* connection task sleeps only when no frame can leave, no DATA frame is out
\* and no stream with something to send can be opened.  (Whoever frees a slot or capacity on the
\* user's side must wake the task.)
NoStall ==
    ~me.closed =>
      /\ \A s \in Streams : Sendable(s) => s \in Range(me.pending_send)
      /\ \A s \in Streams : Wanting(s) =>
           s \in Range(me.pending_capacity) /\ me.flow.available = 0
      /\ me.parked =>
           /\ ~\E s \in Streams : Sendable(s)
           /\ me.flying = Nothing
           /\ \A s \in Range(me.pending_open) :
                me.num >= me.max \/ me.st[s].queue = <<>>

\* The peer sees a stream as open until both sides have ended it or one has
\* reset it.
OpenOnWire(s) ==
    /\ wire[s].opened /\ ~wire[s].reset /\ wire[s].peer # "reset"
    /\ ~(wire[s].ended /\ wire[s].peer = "ended")

\* What the peer sees of the requests is well formed.  Streams open in the
\* order of their ids, with HEADERS; END_STREAM follows the whole body, however
\* it was cut up; after RST_STREAM nothing follows, after END_STREAM only
\* RST_STREAM.  (After a GOAWAY, ResetAfterHeaders says what happens instead.)
\* A stream is opened only while fewer streams than the limit in force are open
\* from the peer's point of view, and no stream the peer still has open is
\* forgotten here.
FramesInOrder ==
    /\ [][\A s \in Streams : LET w == wire[s]  v == wire'[s] IN
         /\ v.opened /\ ~w.opened =>
              /\ \A r \in Streams : r > s => ~wire[r].opened
              /\ Cardinality({r \in Streams : OpenOnWire(r)}) < me.max
         /\ v.bytes > 0 \/ v.ended \/ (v.reset /\ me.error = "no") => v.opened
         /\ v.ended /\ ~w.ended => v.bytes = v.given
         /\ w.ended \/ w.reset => v.bytes = w.bytes
         /\ w.reset => v = [w EXCEPT !.peer = v.peer]]_wire
    /\ [](~me.closed /\ me.error # "fatal" =>
            \A s \in Streams : OpenOnWire(s) => me.st[s].life = "live")

\* What send.rs says of a reset: a stream is opened by its HEADERS before its
\* RST_STREAM goes out.
ResetAfterHeaders == \A s \in Streams : wire[s].reset => wire[s].opened

\* What counts.rs asserts when a connection goes away: no stream is counted any
\* more.
NoStreamsAtDrop == me.closed => me.num = 0
=============================================================================

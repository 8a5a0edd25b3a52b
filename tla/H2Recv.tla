------------------------------- MODULE H2Recv --------------------------------
(***************************************************************************)
(* The receiving half of a client connection of the h2 fork                *)
(* (third_party-h2-fork/src/proto/streams: recv.rs, streams.rs) and the    *)
(* way the kernel reads a response (kernel/transport/http2.rs): data in    *)
(* flight on two levels of windows, WINDOW_UPDATE, responses that are      *)
(* cancelled, reset or malformed, and frames for streams already           *)
(* forgotten.                                                              *)
(*                                                                         *)
(* Requests have no body and their HEADERS leave at once (H2Send has the   *)
(* sending half).  The peer keeps to the windows it knows; what it sends   *)
(* is read in order, so an action of the peer is the reading of its frame. *)
(* It falls silent some time after our RST_STREAM was written.             *)
(***************************************************************************)
EXTENDS H2State, Naturals, Sequences, SequencesExt, FiniteSets, FiniteSetsExt

CONSTANTS
    MaxStream,      \* streams are 1..MaxStream, opened in this order
    Bodies,         \* the requests whose SendStream is held while the answer is read
    Plain,          \* responses of a head and at most one frame, not padded
    Sizes,          \* payload bytes of a DATA frame
    Pads,           \* bytes of padding of a DATA frame
    Lengths,        \* values of Content-Length, when there is one
    MaxData,        \* bound on the bytes of a response
    DefaultWindow,  \* a stream's window before the peer has our SETTINGS
    InitWindow,     \* ... and after (initial_window_size)
    ConnDefault,    \* the connection's window at the start
    ConnTarget,     \* initial_connection_window_size
    MaxReset,       \* max_local_reset_streams
    MaxErrors,      \* max_local_error_resets
    MaxEvents       \* bound on interim heads, resets, late frames and mistakes

ASSUME RecvAssumption ==
    /\ MaxStream \in Nat \ {0} /\ Bodies \cup Plain \subseteq Nat /\ Sizes \subseteq Nat /\ Pads \subseteq Nat
    /\ Lengths \subseteq Nat /\ MaxData \in Nat
    /\ DefaultWindow \in Nat /\ InitWindow \in Nat /\ DefaultWindow <= InitWindow
    /\ ConnDefault \in Nat /\ ConnTarget \in Nat /\ ConnDefault <= ConnTarget
    /\ MaxReset \in Nat /\ MaxErrors \in Nat /\ MaxEvents \in Nat

VARIABLES
    me,        \* Inner: streams, queues and counts of the connection
    credit,    \* the peer's view of the connection's window
    peer,      \* the peer's view of each stream
    user,      \* what the kernel has seen of each response
    events     \* interim heads, resets, late frames and mistakes of the peer

vars == <<me, credit, peer, user, events>>
Ids == 1..MaxStream
\* An entry of the slab: a stream, or the one made again to refuse a late frame
\* for it.
echo(s) == s + MaxStream
Entries == 1..(2 * MaxStream)

\* An event in pending_recv.
Event(t, n) == [t |-> t, n |-> n]
Stream(life, state, window, handles) ==
    [life |-> life, state |-> state, linked |-> life = "live",
     handles |-> handles, flow |-> [window |-> window, available |-> window],
     in_flight |-> 0, pending_recv |-> <<>>, is_recv |-> TRUE, length |-> -1,
     rst |-> FALSE]
Unborn == Stream("unborn", Idle, 0, {})
Gone == Stream("gone", Idle, 0, {})

Unread == [head |-> FALSE, got |-> 0, end |-> "no"]

Init ==
    /\ me = [st |-> [e \in Entries |-> Unborn],
             \* set_target_connection_window has run in the handshake
             flow |-> [window |-> ConnDefault, available |-> ConnTarget],
             in_flight |-> 0, window_updates |-> <<>>, pending_send |-> <<>>,
             reset_expired |-> <<>>, resets |-> 0, errors |-> 0,
             init |-> DefaultWindow, error |-> "no", closed |-> FALSE,
             parked |-> FALSE]
    /\ credit = ConnDefault
    /\ peer = [s \in Ids |-> [at |-> "idle", win |-> 0, sent |-> 0]]
    /\ user = [s \in Ids |-> Unread]
    /\ events = 0

-----------------------------------------------------------------------------
push(q, e) == IF e \in Range(q) THEN q ELSE Append(q, e)
wake(m) == [m EXCEPT !.parked = FALSE]

\* Stream::is_closed, Stream::is_released and Counts::transition_after.
flushed(x) == is_closed(x.state) /\ ~x.rst
is_released(m, e) ==
    /\ flushed(m.st[e]) /\ m.st[e].handles = {}
    /\ \A q \in {m.window_updates, m.pending_send, m.reset_expired} :
         e \notin Range(q)
transition_after(m, e) ==
    LET unlinks == flushed(m.st[e]) /\ e \notin Range(m.reset_expired)
        n == [m EXCEPT !.st[e].linked = @ /\ ~unlinks]
    IN IF is_released(n, e) THEN [n EXCEPT !.st[e] = Gone] ELSE n

\* store::find_mut: the entry a stream id leads to, 0 for none.
find(m, s) ==
    CASE m.st[s].linked -> s
      [] ~m.st[s].linked /\ m.st[echo(s)].linked -> echo(s)
      [] OTHER -> 0

enqueue_reset_expiration(m, e) ==
    IF \/ ~is_local_error(m.st[e].state)
       \/ e \in Range(m.reset_expired)
       \/ m.resets >= MaxReset
    THEN m
    ELSE [m EXCEPT !.reset_expired = Append(@, e), !.resets = @ + 1]

\* Send::send_reset for a stream with nothing else to send.
send_reset(m, e) ==
    LET n == [m EXCEPT !.st[e].state = Closed("local")]
    IN CASE is_reset(m.st[e].state) -> m
         [] m.st[e].state = Closed("end") /\ ~m.st[e].rst -> n
         [] OTHER -> wake([n EXCEPT !.st[e].rst = TRUE,
                                    !.pending_send = push(@, e)])

\* A connection error: every stream fails and GOAWAY is on its way.
go_away(m) ==
    LET n == [m EXCEPT !.error = "fatal",
                !.st = [e \in Entries |->
                          IF m.st[e].linked
                          THEN [m.st[e] EXCEPT !.state = fail(@, "local"),
                                               !.rst = FALSE]
                          ELSE m.st[e]]]
    IN FoldLeft(transition_after, n,
                SetToSortSeq({e \in Entries : m.st[e].linked}, <))

\* A stream error, within the limit on errors of this kind.
reset_stream(m, e) ==
    IF m.errors >= MaxErrors THEN go_away(m)
    ELSE enqueue_reset_expiration(
           send_reset([m EXCEPT !.errors = @ + 1], e), e)

\* Inner::send_reset for an id the store does not know any more.
reset_forgotten(m, s) ==
    LET e == echo(s)
        n == [m EXCEPT !.st[e] = Stream("live", Idle, 0, {})]
    IN transition_after(reset_stream(n, e), e)

-----------------------------------------------------------------------------
(* Recv: capacity.                                                         *)

\* notify: a sleeping connection task is woken when an update is due.
\* Mutant: no wake-up when an update of the connection's window is due.
release_connection_quietly(m, n, notify) ==
    [m EXCEPT !.in_flight = @ - n, !.flow = assign_capacity(@, n)]
release_connection_capacity(m, n, notify) ==
    LET r == [m EXCEPT !.in_flight = @ - n, !.flow = assign_capacity(@, n)]
    IN IF notify /\ unclaimed_capacity(r.flow) > 0 THEN wake(r) ELSE r
release_capacity(m, e, n, notify) ==
    LET m1 == release_connection_capacity(m, n, notify)
        m2 == [m1 EXCEPT !.st[e].in_flight = @ - n,
                         !.st[e].flow = assign_capacity(@, n)]
        m3 == [m2 EXCEPT !.window_updates = push(@, e)]
    IN IF unclaimed_capacity(m2.st[e].flow) = 0 THEN m2
       ELSE IF notify THEN wake(m3) ELSE m3

consume_connection_window(m, sz) ==
    [m EXCEPT !.flow = send_data_window(@, sz), !.in_flight = @ + sz]
ignore_data(m, sz) ==
    release_connection_capacity(consume_connection_window(m, sz), sz, FALSE)

\* Recv::recv_data for a stream that is not ignored, the connection's window
\* consumed: what is wrong with the frame, if anything.
data_refused(x, n, sz, eos) ==
    \/ x.flow.window < sz
    \/ x.length >= 0 /\ (n > x.length \/ (eos /\ n # x.length))
\* ... and an acceptable frame.
accept_data(m, e, n, pad, eos) ==
    LET sz == n + pad
        x == m.st[e]
        m1 == [m EXCEPT !.st[e].length = IF @ >= 0 THEN @ - n ELSE @,
                        !.st[e].state = IF eos THEN recv_close(@) ELSE @]
        m2 == [m1 EXCEPT !.st[e].flow = send_data_window(@, sz),
                         !.st[e].in_flight = @ + sz]
        m3 == IF pad > 0 THEN release_capacity(m2, e, pad, FALSE) ELSE m2
    IN IF ~x.is_recv THEN release_connection_capacity(m1, sz, FALSE)
       ELSE [m3 EXCEPT !.st[e].pending_recv = Append(@, Event("data", n))]

\* Inner::recv_data
recv_data(m, s, n, pad, eos) ==
    LET e == find(m, s)
        sz == n + pad
        x == m.st[e]
        c == consume_connection_window(m, sz)
    IN IF sz > as_size(m.flow.window) THEN go_away(m)
       ELSE IF e = 0 THEN reset_forgotten(ignore_data(m, sz), s)
       ELSE IF is_local_error(x.state) THEN transition_after(ignore_data(m, sz), e)
       ELSE IF ~is_recv_streaming(x.state) THEN go_away(m)
       ELSE transition_after(
              IF data_refused(x, n, sz, eos)
              THEN reset_stream(release_connection_capacity(c, sz, FALSE), e)
              ELSE accept_data(c, e, n, pad, eos), e)

\* Recv::recv_headers and Recv::recv_trailers for a stream that is not ignored.
recv_open_headers(m, e, t, eos, length) ==
    LET n == [m EXCEPT !.st[e].state = recv_open(@, eos, t = "info"),
                       !.st[e].length = IF t = "head" THEN length ELSE @]
    IN IF eos /\ length > 0 THEN reset_stream(n, e)
       ELSE [n EXCEPT !.st[e].pending_recv = Append(@, Event(t, 0))]
recv_trailers(m, e) ==
    LET n == [m EXCEPT !.st[e].state = recv_close(@)]
    IN IF m.st[e].length > 0 THEN reset_stream(n, e)
       ELSE [n EXCEPT !.st[e].pending_recv = Append(@, Event("trailers", 0))]

\* Inner::recv_headers: t is "info" (1xx), "head" or "trailers".
recv_headers(m, s, t, eos, length) ==
    LET e == find(m, s)
    IN IF e = 0 THEN reset_forgotten(m, s)
       ELSE IF is_local_error(m.st[e].state) THEN m
       ELSE transition_after(
              IF t # "trailers" THEN recv_open_headers(m, e, t, eos, length)
              ELSE IF eos THEN recv_trailers(m, e) ELSE reset_stream(m, e), e)

\* Mutant: a reset closes the stream like its end.
recv_reset_as_end(m, s) ==
    LET e == find(m, s)
    IN IF e = 0 THEN m
       ELSE transition_after([m EXCEPT !.st[e].state = recv_close(@),
                                       !.st[e].rst = FALSE], e)
\* Inner::recv_reset
recv_reset_frame(m, s) ==
    LET e == find(m, s)
        queued == e \in Range(m.pending_send)
    IN IF e = 0 THEN m
       ELSE transition_after([m EXCEPT !.st[e].state = recv_reset(@, queued),
                                       !.st[e].rst = FALSE], e)

-----------------------------------------------------------------------------
(* The peer.  It answers a request with interim heads, a head, data and    *)
(* trailers, or resets it, until it has ended or has seen our reset.       *)

Reads == me.error = "no" /\ ~me.closed
Sends(s, at) == Reads /\ peer[s].at = at
Counted == events < MaxEvents /\ events' = events + 1

PeerHeaders(s, t, eos, length) ==
    /\ IF t = "trailers" THEN Sends(s, "body") ELSE Sends(s, "open")
    /\ t = "info" => ~eos
    /\ IF \/ t = "info" \/ (eos /\ length > 0) \/ (t = "trailers" /\ ~eos)
          \/ find(me, s) # s
       THEN Counted ELSE UNCHANGED events
    /\ me' = wake(recv_headers(me, s, t, eos, length))
    /\ peer' = [peer EXCEPT ![s].at = CASE eos -> "ended"
                                       [] t = "head" /\ ~eos -> "body"
                                       [] OTHER -> @,
                            ![s].win = IF eos THEN 0 ELSE @]
    /\ UNCHANGED <<credit, user>>

PeerData(s, n, pad, eos) ==
    /\ Sends(s, "body") /\ peer[s].sent + n <= MaxData
    /\ n + pad <= credit /\ n + pad <= peer[s].win
    /\ IF find(me, s) # s \/ data_refused(me.st[s], n, n + pad, eos) THEN Counted
       ELSE UNCHANGED events
    /\ me' = wake(recv_data(me, s, n, pad, eos))
    /\ credit' = credit - (n + pad)
    /\ peer' = [peer EXCEPT ![s].sent = @ + n,
                            ![s].win = IF eos THEN 0 ELSE @ - (n + pad),
                            ![s].at = IF eos THEN "ended" ELSE @]
    /\ UNCHANGED user

PeerReset(s) ==
    /\ Sends(s, "open") \/ Sends(s, "body")
    /\ Counted
    /\ me' = wake(recv_reset_frame(me, s))
    /\ peer' = [peer EXCEPT ![s].at = "reset", ![s].win = 0]
    /\ UNCHANGED <<credit, user>>

\* The peer acknowledges our SETTINGS (Recv::apply_local_settings).
SettingsAck ==
    LET inc == InitWindow - DefaultWindow
        grow(f) == assign_capacity(inc_window(f, inc), inc)
    IN /\ Reads /\ me.init = DefaultWindow /\ inc > 0
       /\ me' = wake([me EXCEPT !.init = InitWindow,
                        !.st = [e \in Entries |->
                                  IF me.st[e].linked
                                  THEN [me.st[e] EXCEPT !.flow = grow(@)]
                                  ELSE me.st[e]]])
       /\ peer' = [s \in Ids |-> IF peer[s].at \in {"open", "body"}
                                 THEN [peer[s] EXCEPT !.win = @ + inc]
                                 ELSE peer[s]]
       /\ UNCHANGED <<credit, user, events>>

\* The transport ends, or a connection error has been sent: Inner::recv_eof.
Eof ==
    LET n == go_away(me)
        m == FoldLeft(transition_after,
               [n EXCEPT !.window_updates = <<>>, !.pending_send = <<>>,
                  !.reset_expired = <<>>, !.resets = 0,
                  !.st = [e \in Entries |->
                            IF is_scheduled_reset(n.st[e].state)
                            THEN [n.st[e] EXCEPT !.state = Closed("local")]
                            ELSE n.st[e]]],
               SetToSortSeq({e \in Entries : n.st[e].life = "live"}, <))
    IN /\ ~me.closed
       /\ IF me.error = "fatal" THEN UNCHANGED events ELSE Counted
       /\ me' = [m EXCEPT !.closed = TRUE, !.parked = TRUE]
       /\ UNCHANGED <<credit, peer, user>>

-----------------------------------------------------------------------------
(* The kernel: http2.rs send_request and the body stream it returns.       *)

send_request(s) ==
    /\ me.error = "no" /\ ~me.closed
    /\ me.st[s].life = "unborn" /\ \A r \in 1..(s - 1) : me.st[r].life # "unborn"
    /\ me' = [me EXCEPT !.st[s] = Stream("live", send_open(TRUE), me.init,
                IF s \in Bodies THEN {"send", "recv"} ELSE {"recv"})]
    /\ peer' = [peer EXCEPT ![s].at = "open", ![s].win = me.init]
    /\ UNCHANGED <<credit, user, events>>

\* Recv::schedule_recv: what a poll returns when nothing is buffered.
schedule_recv(x) ==
    LET open == ensure_recv_open(x.state)
    IN CASE open = "yes" -> "no" [] open = "no" -> "clean" [] OTHER -> "error"
\* The next event is taken; data is released as soon as it is read.
take_event(m, s) ==
    LET v == Head(m.st[s].pending_recv)
        rest == [m EXCEPT !.st[s].pending_recv = Tail(@)]
    IN IF v.t = "data" THEN release_capacity(rest, s, v.n, TRUE) ELSE rest

\* poll_response, then poll_data for each chunk, then poll_trailers.
Poll(s) ==
    LET x == me.st[s]
        v == Head(x.pending_recv)
    IN /\ "recv" \in x.handles /\ user[s].end = "no"
       /\ \/ /\ x.pending_recv # <<>>
             /\ me' = take_event(me, s)
             /\ user' = [user EXCEPT ![s].head = @ \/ v.t = "head",
                                     ![s].got = @ + v.n,
                                     ![s].end = IF v.t = "trailers" THEN "clean"
                                                ELSE @]
          \/ /\ x.pending_recv = <<>> /\ schedule_recv(x) # "no"
             /\ user' = [user EXCEPT ![s].end = schedule_recv(x)]
             /\ UNCHANGED me
       /\ UNCHANGED <<credit, peer, events>>

\* What the last handle leaves: maybe_cancel and release_closed_capacity.
maybe_cancel(m, s) ==
    IF is_closed(m.st[s].state) THEN m
    ELSE enqueue_reset_expiration(
           wake([m EXCEPT !.st[s].state = Closed("scheduled"),
                          !.pending_send = push(@, s)]), s)
release_closed_capacity(m, s) ==
    LET held == m.st[s].in_flight
    IN IF held = 0 THEN m
       ELSE [release_connection_capacity(m, held, TRUE) EXCEPT
               !.st[s].in_flight = 0, !.st[s].pending_recv = <<>>]
\* drop_stream_ref; dropping a body (but not a response still awaited) also
\* clears what was received and refuses the rest.
clear_recv_buffer(m, s) ==
    [m EXCEPT !.st[s].is_recv = FALSE, !.st[s].pending_recv = <<>>]
drop_handle(s, h) ==
    LET m1 == IF h = "recv" /\ user[s].head THEN clear_recv_buffer(me, s) ELSE me
        m2 == [m1 EXCEPT !.st[s].handles = @ \ {h}]
        m3 == IF flushed(m2.st[s]) THEN wake(m2) ELSE m2
        m4 == IF m2.st[s].handles = {}
              THEN release_closed_capacity(maybe_cancel(m3, s), s) ELSE m2
    IN /\ h \in me.st[s].handles
       /\ me' = transition_after(m4, s)
       /\ user' = IF h = "recv" THEN [user EXCEPT ![s] = Unread] ELSE user
       /\ UNCHANGED <<credit, peer, events>>

-----------------------------------------------------------------------------
(* The connection task: poll_complete writes every frame that is due (the  *)
(* transport takes these small frames at once), then the task sleeps.      *)

send_connection_window_update(m) ==
    [m EXCEPT !.flow = inc_window(@, unclaimed_capacity(m.flow))]

update(m, e) ==
    IF is_recv_streaming(m.st[e].state) THEN unclaimed_capacity(m.st[e].flow)
    ELSE 0
\* Mutant: the update is sent but not recorded.
send_stream_window_update_only(m, e) ==
    transition_after([m EXCEPT !.window_updates = Tail(@)], e)
send_stream_window_update(m, e) ==
    transition_after([m EXCEPT !.window_updates = Tail(@),
                               !.st[e].flow = inc_window(@, update(m, e))], e)

\* Prioritize::pop_frame: RST_STREAM, when it was queued or scheduled.
pop_frame(m, e) ==
    transition_after([m EXCEPT !.pending_send = Tail(@), !.st[e].rst = FALSE,
                               !.st[e].state = IF is_scheduled_reset(@)
                                               THEN Closed("local") ELSE @], e)

poll_complete ==
    LET m1 == send_connection_window_update(me)
        m2 == FoldLeft(send_stream_window_update, m1, m1.window_updates)
        m3 == FoldLeft(pop_frame, m2, m2.pending_send)
    IN /\ ~me.closed /\ ~me.parked
       /\ me' = [m3 EXCEPT !.parked = TRUE]
       /\ credit' = credit + unclaimed_capacity(me.flow)
       /\ peer' = [s \in Ids |->
                     IF s \in Range(me.window_updates)
                     THEN [peer[s] EXCEPT !.win = @ + update(me, s)]
                     ELSE peer[s]]
       /\ UNCHANGED <<user, events>>

\* clear_expired_reset_streams
Expire ==
    LET e == Head(me.reset_expired)
        n == [me EXCEPT !.reset_expired = Tail(@),
                        !.resets = IF flushed(me.st[e]) THEN @ - 1 ELSE @]
    IN /\ ~me.closed /\ me.reset_expired # <<>>
       /\ me' = transition_after(n, e)
       /\ UNCHANGED <<credit, peer, user, events>>

-----------------------------------------------------------------------------
Peer(s) ==
    \/ \E t \in {"info", "head", "trailers"}, eos \in BOOLEAN :
         \E length \in IF t = "head" THEN Lengths \cup {-1} ELSE {-1} :
           /\ s \in Plain => t = "head" /\ length = -1
           /\ PeerHeaders(s, t, eos, length)
    \/ \E n \in Sizes, pad \in Pads, eos \in BOOLEAN :
         (s \in Plain => pad = 0 /\ eos) /\ PeerData(s, n, pad, eos)
    \/ PeerReset(s)
Kernel(s) ==
    send_request(s) \/ Poll(s) \/ \E h \in {"send", "recv"} : drop_handle(s, h)
Task == poll_complete \/ Expire
Next == (\E s \in Ids : Peer(s) \/ Kernel(s)) \/ SettingsAck \/ Task \/ Eof

Spec == Init /\ [][Next]_vars

-----------------------------------------------------------------------------
\* The shape of the state.
TypeOK ==
    /\ \A e \in Entries :
         LET x == me.st[e]
         IN /\ x.life \in {"unborn", "live", "gone"} /\ x.state \in States
            /\ x.handles \subseteq {"send", "recv"} /\ x.in_flight \in Nat
    /\ Range(me.pending_send) \cup Range(me.window_updates)
         \cup Range(me.reset_expired) \subseteq {e \in Entries : me.st[e].life = "live"}
    /\ me.in_flight \in Nat /\ me.resets \in 0..MaxReset
    /\ credit \in Nat /\ events \in 0..MaxEvents
    /\ \A s \in Ids : peer[s].win \in Nat /\ user[s].end \in {"no", "clean", "error"}

held(S) == MapThenSumSet(LAMBDA e : me.st[e].in_flight, S)
\* No byte of window is lost or counted twice, whatever the order in which data
\* arrives, is refused, read, cancelled or ignored (recv_data, ignore_data,
\* release_capacity, release_closed_capacity): until the connection fails, what
\* the connection may still grant plus what is in flight is its target, what
\* is in flight is what the streams hold, and every stream that is received
\* grants and holds exactly the initial window.
\* And the two ends agree: what the peer believes it may send is what this end
\* still accepts, so data sent within the windows never meets a
\* FLOW_CONTROL_ERROR (the window checks of consume_connection_window and
\* recv_data), also when SETTINGS and window updates cross.
WindowExact ==
    me.error = "no" /\ ~me.closed =>
      /\ TypeOK
      /\ credit = me.flow.window
      /\ me.flow.available + me.in_flight = ConnTarget
      /\ me.in_flight = held(Entries)
      /\ \A s \in Ids :
           me.st[s].linked /\ is_recv_streaming(me.st[s].state) =>
             /\ me.st[s].flow.available + me.st[s].in_flight = me.init
             /\ IF me.st[s].is_recv THEN peer[s].win = me.st[s].flow.window
                ELSE peer[s].win <= me.st[s].flow.window

\* A response is never starved: once the connection task sleeps and the kernel
\* has read all that arrived, the peer may send more on the connection and on
\* every stream still being received, and no update or reset is left unsent (a
\* WINDOW_UPDATE withheld without a wake-up would hang every later response).
NeverStarved ==
    me.parked /\ me.error = "no" /\ ~me.closed =>
      /\ me.pending_send = <<>> /\ me.window_updates = <<>>
      /\ (\A e \in Entries : me.st[e].in_flight = 0) => credit > 0
      /\ \A s \in Ids :
           LET x == me.st[s]
           IN is_recv_streaming(x.state) /\ x.is_recv /\ x.in_flight = 0
                => peer[s].win > 0

\* A response the kernel saw end without an error is whole: the peer ended it,
\* every byte it sent was read, in spite of resets, refused frames and a
\* connection that failed meanwhile (poll_data, poll_trailers,
\* State::ensure_recv_open).
CleanEndWhole ==
    \A s \in Ids : user[s].end = "clean" =>
      peer[s].at = "ended" /\ user[s].got = peer[s].sent
=============================================================================

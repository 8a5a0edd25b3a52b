------------------------------- MODULE H2State -------------------------------
(***************************************************************************)
(* The state of one HTTP/2 stream and the arithmetic of a flow-control     *)
(* window, as a client of the h2 fork keeps them                           *)
(* (third_party-h2-fork/src/proto/streams/state.rs, flow_control.rs).      *)
(*                                                                         *)
(* A client opens its streams itself and the kernel turns server push off, *)
(* so the reserved states and the arms that serve a server are left out.   *)
(***************************************************************************)
EXTENDS Integers

\* Inner: the local and the remote half of a stream are "awaiting" their
\* headers, "streaming" or shut ("-"); a closed stream has a cause.
Inner(k, local, remote, cause) ==
    [k |-> k, local |-> local, remote |-> remote, cause |-> cause]
Idle == Inner("idle", "-", "-", "-")
Open(local, remote) == Inner("open", local, remote, "-")
HalfClosedLocal(remote) == Inner("halfClosedLocal", "-", remote, "-")
HalfClosedRemote(local) == Inner("halfClosedRemote", local, "-", "-")
Closed(cause) == Inner("closed", "-", "-", cause)

Halves == {"awaiting", "streaming"}
\* "end": both sides ended; "local", "remote": an error of this or of the
\* other side; "scheduled": a reset is to follow the frames still queued.
Causes == {"end", "local", "remote", "scheduled"}
States == {Idle} \cup {Open(l, r) : l, r \in Halves}
            \cup {HalfClosedLocal(r) : r \in Halves}
            \cup {HalfClosedRemote(l) : l \in Halves}
            \cup {Closed(c) : c \in Causes}

is_closed(s) == s.k = "closed"
is_scheduled_reset(s) == s = Closed("scheduled")
is_local_error(s) == s.cause \in {"local", "scheduled"}
is_reset(s) == is_closed(s) /\ s.cause # "end"
is_send_streaming(s) == s.local = "streaming"
is_send_closed(s) == s.k \in {"closed", "halfClosedLocal"}
is_recv_headers(s) == s.k = "idle" \/ s.remote = "awaiting"
is_recv_streaming(s) == s.remote = "streaming"
\* Whether more frames may be received; an error state has no answer but it.
ensure_recv_open(s) ==
    CASE is_reset(s) -> "error"
      [] s = Closed("end") \/ s.k = "halfClosedRemote" -> "no"
      [] OTHER -> "yes"

\* The request's HEADERS are queued.
send_open(eos) ==
    IF eos THEN HalfClosedLocal("awaiting") ELSE Open("streaming", "awaiting")

\* The last frame of the request is queued.
send_close(s) ==
    IF s.k = "open" THEN HalfClosedLocal(s.remote) ELSE Closed("end")

\* The remote half ends, by HEADERS, DATA or trailers.
recv_close(s) ==
    IF s.k = "open" THEN HalfClosedRemote(s.local) ELSE Closed("end")

\* Response HEADERS arrive; informational ones leave the half waiting.
recv_open(s, eos, informational) ==
    IF eos THEN recv_close(s)
    ELSE [s EXCEPT !.remote = IF informational THEN "awaiting" ELSE "streaming"]

\* RST_STREAM arrives; queued: the stream is in the pending send queue.
recv_reset(s, queued) ==
    IF is_closed(s) /\ ~queued THEN s ELSE Closed("remote")

\* The connection fails.
fail(s, cause) == IF is_closed(s) THEN s ELSE Closed(cause)

-----------------------------------------------------------------------------
(* Flow control: the window the peers agree on and the part of it that is  *)
(* available.                                                              *)

as_size(w) == IF w < 0 THEN 0 ELSE w
smaller(a, b) == IF a < b THEN a ELSE b
has_unavailable(f) == f.window >= 0 /\ f.window > f.available
assign_capacity(f, n) == [f EXCEPT !.available = @ + n]
claim_capacity(f, n) == [f EXCEPT !.available = @ - n]
inc_window(f, n) == [f EXCEPT !.window = @ + n]
dec_send_window(f, n) == [f EXCEPT !.window = @ - n]
send_data_window(f, n) == [window |-> f.window - n, available |-> f.available - n]
\* The increment of the WINDOW_UPDATE to send, 0 for none.
unclaimed_capacity(f) ==
    IF f.window >= f.available \/ f.available - f.window < f.window \div 2
    THEN 0 ELSE f.available - f.window
=============================================================================

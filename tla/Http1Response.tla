--------------------------- MODULE Http1Response ----------------------------
(* How a response is read off an HTTP/1.1 connection                         *)
(* (kernel/transport/http1.rs over zp-transport-codec/src/http1.rs): interim *)
(* heads are skipped, the final head selects the framing, and a pull-driven  *)
(* reader hands out the body as its bytes arrive.  The connection delivers   *)
(* the bytes of `wire` in pieces of any size, ends early or fails.           *)
(*                                                                           *)
(* A byte is a token: CR, LF, a space, ";", the digits, and "z" for every    *)
(* other byte.  The lines of a response head, up to the CRLFCRLF that ends   *)
(* it, are one token, a name of DOMAIN HeadOf.                               *)
EXTENDS Integers, Sequences, SequencesExt, FiniteSetsExt

CONSTANTS
    Wires,          \* the token sequences a server may send
    HeadOf,         \* what a head says: [status, te, cl, conn, http11]
    READ,           \* the size of the scratch buffer
    MAX_HEAD_BYTES,
    MAX_CHUNK_LINE,
    body_cap        \* usize::MAX in the code

VARIABLES r

Digits == [d \in {"0", "1", "2"} |-> CASE d = "0" -> 0 [] d = "1" -> 1 [] d = "2" -> 2]
Blank == {"SP", "CR", "LF"}
CRLF == <<"CR", "LF">>
From(b, i) == SubSeq(b, i, Len(b))

-----------------------------------------------------------------------------
(* The head *)

\* The length of the head at the start of b, 0 while it is incomplete.
find_crlf2(b) ==
    LET at == {i \in 1 .. Len(b) - 3 : SubSeq(b, i, i + 3) = CRLF \o CRLF}
    IN  IF at = {} THEN 0 ELSE Min(at) + 3

no_body_status(status) == status \in 100 .. 199 \cup {204, 304}

header_terminal_chunked(h) == h.te # << >> /\ Last(h.te) = "chunked"

\* The value of Content-Length: -1 without one; -2 for an unreadable value
\* (written -2 in cl) or for two that differ, which is an error.
header_content_length(h) ==
    CASE h.cl = << >> -> -1
      [] h.cl # << >> /\ -2 \notin Range(h.cl) /\ Range(h.cl) = {h.cl[1]} -> h.cl[1]
      [] OTHER -> -2

response_keepalive(status, h) ==
    /\ "close" \notin h.conn
    /\ header_terminal_chunked(h) \/ h.cl # << >> \/ no_body_status(status)

null_body(s, h) == s.method = "HEAD" \/ no_body_status(h.status)

\* Transfer codings other than chunked alone are refused.
framing(s, h) ==
    CASE null_body(s, h) -> "fixed"
      [] ~null_body(s, h) /\ h.te # << >> -> IF h.te = <<"chunked">> THEN "chunked" ELSE "refused"
      [] ~null_body(s, h) /\ h.te = << >> ->
            CASE header_content_length(h) = -1 -> "eof"
              [] header_content_length(h) = -2 -> "refused"
              [] OTHER -> "fixed"

length(s, h) == IF framing(s, h) # "fixed" \/ null_body(s, h) THEN 0 ELSE header_content_length(h)

keepalive(s, h) ==
    /\ framing(s, h) # "eof"
    /\ response_keepalive(IF null_body(s, h) THEN 204 ELSE h.status, h)
    /\ ~s.close
    /\ h.http11 \/ "keep-alive" \in h.conn

-----------------------------------------------------------------------------
(* The chunked decoder *)

NewDecoder == [state |-> "WaitingForSize", remaining |-> 0, input |-> << >>,
               body |-> << >>, received |-> 0, at |-> "NeedMore"]

\* The size a chunk's line names, -1 when it names none.
parse_chunk_size_line(line) ==
    LET semi == {i \in DOMAIN line : line[i] = ";"}
        field == IF semi = {} THEN line ELSE SubSeq(line, 1, Min(semi) - 1)
        ink == {i \in DOMAIN field : field[i] \notin Blank}
        head == IF ink = {} THEN << >> ELSE SubSeq(field, Min(ink), Max(ink))
    IN  IF head = << >> \/ ~(Range(head) \subseteq DOMAIN Digits) THEN -1
        ELSE FoldLeft(LAMBDA n, d : 16 * n + Digits[d], 0, head)

crlfs(b) == {i \in 1 .. Len(b) - 1 : SubSeq(b, i, i + 1) = CRLF}

\* ReadingBody takes what there is of the chunk.
data_step(d) ==
    LET take == Min({d.remaining, Len(d.input)})
    IN  IF d.input = << >> THEN [d EXCEPT !.at = "NeedMore"]
        ELSE [d EXCEPT !.at = "Progress", !.body = @ \o SubSeq(d.input, 1, take),
                       !.input = From(@, take + 1), !.remaining = @ - take,
                       !.state = IF take = d.remaining THEN "WaitingForCrlfAfterBody" ELSE @]

\* Mutant of crlf_step: one byte of the terminator is enough to look.
crlf_step_early(d) ==
    CASE d.input = << >> -> [d EXCEPT !.at = "NeedMore"]
      [] d.input # << >> /\ IsPrefix(CRLF, d.input) ->
            [d EXCEPT !.at = "Progress", !.input = From(@, 3), !.state = "WaitingForSize"]
      [] OTHER -> [d EXCEPT !.at = "error"]

crlf_step(d) ==
    CASE Len(d.input) < 2 -> [d EXCEPT !.at = "NeedMore"]
      [] Len(d.input) >= 2 /\ IsPrefix(CRLF, d.input) ->
            [d EXCEPT !.at = "Progress", !.input = From(@, 3), !.state = "WaitingForSize"]
      [] OTHER -> [d EXCEPT !.at = "error"]

\* A line, once its CRLF is there, is a chunk's size or a trailer.
line_step(d) ==
    LET ends == crlfs(d.input)
        len == IF ends = {} THEN Len(d.input) ELSE Min(ends) - 1
        size == parse_chunk_size_line(SubSeq(d.input, 1, len))
        rest == [d EXCEPT !.at = "Progress", !.input = From(@, len + 3)]
    IN  CASE len > MAX_CHUNK_LINE -> [d EXCEPT !.at = "error"]
          [] len <= MAX_CHUNK_LINE /\ ends = {} -> [d EXCEPT !.at = "NeedMore"]
          [] len <= MAX_CHUNK_LINE /\ ends # {} /\ d.state = "WaitingForSize" ->
                CASE size = 0 -> [rest EXCEPT !.state = "DrainingTrailers"]
                  [] size \in 1 .. body_cap - d.received ->
                        [rest EXCEPT !.state = "ReadingBody", !.remaining = size,
                                     !.received = @ + size]
                  [] OTHER -> [d EXCEPT !.at = "error"]
          [] len <= MAX_CHUNK_LINE /\ ends # {} /\ d.state = "DrainingTrailers" ->
                IF len = 0 THEN [rest EXCEPT !.at = "Done", !.state = "Done"] ELSE rest

step(d) ==
    CASE d.state \in {"WaitingForSize", "DrainingTrailers"} -> line_step(d)
      [] d.state = "ReadingBody" -> data_step(d)
      [] d.state = "WaitingForCrlfAfterBody" -> crlf_step(d)
      [] d.state = "Done" -> [d EXCEPT !.at = "Done"]

RECURSIVE step_until_blocked(_)
step_until_blocked(d) ==
    LET e == step(d) IN IF e.at = "Progress" THEN step_until_blocked(e) ELSE e

-----------------------------------------------------------------------------
(* The body's reader.  Its phase: "head" and "read" are parked in a read of  *)
(* the connection, "pull" waits for the consumer, "done" and "error" have    *)
(* ended; pooled is a connection deposited in `completed`.                   *)

Fail(s) == [s EXCEPT !.phase = "error"]
Chunk(s, c) == [s EXCEPT !.phase = "pull", !.out = @ \o c, !.input = << >>]

finish(s) == [s EXCEPT !.phase = "done", !.pooled = s.keepalive]

next_chunked(s) ==
    LET d == step_until_blocked([s.dec EXCEPT !.input = @ \o s.input])
        t == [s EXCEPT !.input = << >>, !.dec = [d EXCEPT !.body = << >>]]
        beyond == d.state = "Done" /\ d.input # << >>
    IN  CASE d.at = "error" \/ beyond -> Fail(s)
          [] d.at # "error" /\ ~beyond /\ d.body # << >> -> Chunk(t, d.body)
          [] d.at = "Done" /\ ~beyond /\ d.body = << >> -> finish(t)
          [] d.at = "NeedMore" /\ d.body = << >> -> [t EXCEPT !.phase = "read"]

next_fixed(s) ==
    CASE Len(s.input) > s.left -> Fail(s)
      [] Len(s.input) \in 1 .. s.left -> Chunk([s EXCEPT !.left = @ - Len(s.input)], s.input)
      [] s.input = << >> /\ s.left = 0 -> finish(s)
      [] s.input = << >> /\ s.left > 0 -> [s EXCEPT !.phase = "read"]

next_eof(s) == IF s.input # << >> THEN Chunk(s, s.input) ELSE [s EXCEPT !.phase = "read"]

\* One pass of next_chunk's loop: it returns, or parks in a read.
next_chunk(s) ==
    CASE s.framing = "fixed" -> next_fixed(s)
      [] s.framing = "chunked" -> next_chunked(s)
      [] s.framing = "eof" -> next_eof(s)

\* The final head opens the body, which is then pulled; what came with the
\* head stays in the reader's input.
open_body(s, h) ==
    IF framing(s, h) = "refused" \/ h.status = 101 THEN Fail(s)
    ELSE [s EXCEPT !.phase = "pull", !.framing = framing(s, h), !.left = length(s, h),
                   !.keepalive = keepalive(s, h)]

interim(h) == h.status \in 100 .. 199 /\ h.status # 101

\* send_request's loop over the heads in the input.
RECURSIVE read_head(_)
read_head(s) ==
    LET end == find_crlf2(s.input)
        rest == [s EXCEPT !.input = From(@, end + 1)]
        h == HeadOf[s.input[1]]
    IN  CASE end = 0 -> IF Len(s.input) > MAX_HEAD_BYTES THEN Fail(s) ELSE s
          [] end > MAX_HEAD_BYTES -> Fail(s)
          [] end \in 1 .. MAX_HEAD_BYTES ->
                IF s.input[1] \notin DOMAIN HeadOf THEN Fail(s)   \* parse_response_head
                ELSE IF interim(h) THEN read_head(rest) ELSE open_body(rest, h)

-----------------------------------------------------------------------------
Fresh(w, m, c) ==
    [wire |-> w, pos |-> 0, method |-> m, close |-> c, input |-> << >>, phase |-> "head",
     framing |-> "none", left |-> 0, dec |-> NewDecoder, keepalive |-> FALSE,
     out |-> << >>, pooled |-> FALSE, fault |-> FALSE]

Init == \E w \in Wires, m \in {"GET", "HEAD"}, c \in BOOLEAN : r = Fresh(w, m, c)

limit == IF r.phase = "read" /\ r.framing = "fixed" THEN Min({r.left, READ}) ELSE READ

\* The read the reader is parked in returns n bytes.
Read(n) ==
    /\ r.phase \in {"head", "read"}
    /\ n \in 1 .. Min({limit, Len(r.wire) - r.pos})
    /\ LET s == [r EXCEPT !.pos = @ + n, !.input = @ \o SubSeq(r.wire, r.pos + 1, r.pos + n)]
       IN  r' = IF r.phase = "head" THEN read_head(s) ELSE next_chunk(s)

\* The consumer asks for the next chunk.
Pull == r.phase = "pull" /\ r' = next_chunk(r)

\* The connection ends, perhaps before the server has sent everything.
Eof ==
    /\ r.phase \in {"head", "read"}
    /\ LET s == [r EXCEPT !.fault = r.pos < Len(r.wire)]
       IN  r' = IF r.phase = "read" /\ r.framing = "eof" THEN finish(s) ELSE Fail(s)

ReadFails == r.phase \in {"head", "read"} /\ r' = Fail([r EXCEPT !.fault = TRUE])

Next == (\E n \in 1 .. READ : Read(n)) \/ Pull \/ Eof \/ ReadFails

Spec == Init /\ [][Next]_r

-----------------------------------------------------------------------------
(* What the bytes mean, read off the whole message instead of piece by piece *)

IsLine(b) == crlfs(b) = {Len(b) - 1}

\* The trailer section: lines of at most max bytes, the last one empty.
RECURSIVE Trailers(_, _)
Trailers(b, max) ==
    \/ b = CRLF
    \/ \E i \in 3 .. Min({max + 2, Len(b)}) : IsLine(SubSeq(b, 1, i)) /\ Trailers(From(b, i + 1), max)

\* The contents b is a chunked encoding of (none or one), with no line longer
\* than max.
RECURSIVE Decodings(_, _)
Decodings(b, max) ==
    UNION {LET n == parse_chunk_size_line(SubSeq(b, 1, i - 2))
               end == i + n + 2
           IN  CASE n = 0 -> IF Trailers(From(b, i + 1), max) THEN {<< >>} ELSE {}
                 [] n > 0 /\ end <= Len(b) /\ SubSeq(b, end - 1, end) = CRLF ->
                        {SubSeq(b, i + 1, i + n) \o d : d \in Decodings(From(b, end + 1), max)}
                 [] OTHER -> {} :
           i \in {j \in 2 .. Min({max + 2, Len(b)}) : IsLine(SubSeq(b, 1, j))}}

\* The bodies for which w is exactly one response to the request of s.
RECURSIVE Whole(_, _, _)
Whole(s, w, max) ==
    LET end == find_crlf2(w)
        h == HeadOf[w[1]]
        b == From(w, end + 1)
    IN  IF end \notin 1 .. MAX_HEAD_BYTES \/ w[1] \notin DOMAIN HeadOf THEN {}
        ELSE IF h.status \in 100 .. 199 \ {101} THEN Whole(s, b, max)
        ELSE CASE h.status = 101 \/ framing(s, h) = "refused" -> {}
               [] h.status # 101 /\ framing(s, h) = "fixed" -> {d \in {b} : Len(d) = length(s, h)}
               [] h.status # 101 /\ framing(s, h) = "chunked" ->
                      {d \in Decodings(b, max) : Len(d) <= body_cap}
               [] h.status # 101 /\ framing(s, h) = "eof" -> {b}

Taken == SubSeq(r.wire, 1, r.pos)
Tokens == DOMAIN Digits \cup Blank \cup {";", "z"}

TypeOK ==
    /\ r.pos \in 0 .. Len(r.wire) /\ r.left \in Nat /\ r.dec.received \in 0 .. body_cap
    /\ r.phase \in {"head", "read", "pull", "done", "error"}
    /\ r.framing \in {"none", "fixed", "chunked", "eof"}
    /\ r.out \in Seq(Tokens) /\ r.pooled \in BOOLEAN

\* However the connection cuts the bytes up: a body that ends without an error
\* is the content of exactly the bytes taken off the connection; a whole
\* response is never refused, unless a line of it reaches MAX_CHUNK_LINE; and
\* once its last byte is there, the reader does not wait for another.  A
\* connection kept for the next request stands at an end the response itself
\* marks: no further byte could belong to it, and neither side asked to close.
ResponseExact ==
    /\ TypeOK
    /\ r.phase = "done" => r.out \in Whole(r, Taken, MAX_CHUNK_LINE)
    /\ r.phase = "error" /\ ~r.fault => Whole(r, r.wire, MAX_CHUNK_LINE - 1) = {}
    /\ r.phase = "read" /\ r.framing # "eof" => Whole(r, Taken, MAX_CHUNK_LINE) = {}
    /\ r.pooled =>
        /\ r.phase = "done" /\ ~r.close
        /\ \A t \in Tokens : Whole(r, Append(Taken, t), MAX_CHUNK_LINE) = {}
        /\ \A i \in 1 .. r.pos :
               r.wire[i] \in DOMAIN HeadOf => "close" \notin HeadOf[r.wire[i]].conn
=============================================================================

----------------------------- MODULE MCHttpFetch -----------------------------
(* Small instances of HttpFetch (fetches of one origin, the last under       *)
(* another isolation key) and, side by side, of Http1Response: a behaviour   *)
(* is one of the pool of connections or of the reading of one response.      *)
EXTENDS HttpFetch

CONSTANTS f1, f2, f3
VARIABLES part, r

OneOrigin == [f \in Fetches |-> "a"]
LastApart == [f \in Fetches |-> IF f = f3 THEN "two" ELSE "one"]

-----------------------------------------------------------------------------
Plain == [status |-> 200, te |-> << >>, cl |-> << >>, conn |-> {}, http11 |-> TRUE]
HeadOf == [
    hints |-> [Plain EXCEPT !.status = 103],
    upgrade |-> [Plain EXCEPT !.status = 101],
    empty |-> [Plain EXCEPT !.status = 204],
    unframed |-> Plain,
    two |-> [Plain EXCEPT !.cl = <<2, 2>>],
    conflict |-> [Plain EXCEPT !.cl = <<1, 2>>],
    unreadable |-> [Plain EXCEPT !.cl = <<-2>>],
    closing |-> [Plain EXCEPT !.cl = <<1>>, !.conn = {"close"}],
    old |-> [Plain EXCEPT !.cl = <<1>>, !.http11 = FALSE],
    oldKept |-> [Plain EXCEPT !.cl = <<1>>, !.http11 = FALSE, !.conn = {"keep-alive"}],
    chunked |-> [Plain EXCEPT !.te = <<"chunked">>, !.cl = <<1>>],
    gzipped |-> [Plain EXCEPT !.te = <<"gzip", "chunked">>]]

Cat(ss) == FlattenSeq(ss)
Nl == <<"CR", "LF">>
Lead(n) == <<n>> \o Nl \o Nl

\* Encodings of up to two chunks, among whose data are the bytes that frame
\* them, with extensions and a trailer; and each short one with a byte lost,
\* changed or added.
Data == {<<"z">>, <<"CR", "LF">>, <<"0", "CR">>}
Chunks == {Cat(<<IF Len(d) = 1 THEN <<"1">> ELSE <<"2">>, x, Nl, d, Nl>>) :
              d \in Data, x \in {<< >>, <<"SP", ";">>}}
Tails == {Cat(<<<<"0">>, Nl, t, Nl>>) : t \in {<< >>, <<"z">> \o Nl}}
Short == Tails \cup {c \o t : c \in Chunks, t \in Tails}
Long == {Cat(<<c, d, t>>) : c \in Chunks, d \in Chunks, t \in Tails}
Lost(b) == {RemoveAt(b, i) : i \in DOMAIN b}
Changed(b) == {[b EXCEPT ![i] = t] : i \in DOMAIN b, t \in {"0", "1", ";", "CR", "LF", "z"}}
Added(b) == {InsertAt(b, i, t) : i \in 1 .. Len(b) + 1, t \in {"0", "CR", "z"}}
ChunkedWires ==
    {Lead("chunked") \o b : b \in Long \cup UNION {Lost(b) \cup Changed(b) \cup Added(b) : b \in Short}}
OtherWires ==
    {Cat(<<i, Lead(n), b>>) : i \in {<< >>, Lead("hints"), <<"z">> \o Lead("hints")},
        n \in DOMAIN HeadOf \ {"hints", "chunked"}, b \in {<< >>, <<"z">>, <<"z", "0">>, <<"z", "CR", "LF">>}}
    \cup {<<n, "z">> \o Nl \o Nl : n \in DOMAIN HeadOf} \cup {<<n, "CR", "LF", "z", "z", "z">> : n \in DOMAIN HeadOf}
Wires == ChunkedWires \cup OtherWires

MAX_HEAD_BYTES == 5
MAX_CHUNK_LINE == 3
body_cap == 3
READ == 4
R == INSTANCE Http1Response

-----------------------------------------------------------------------------
HttpInit ==
    /\ Init
    /\ \/ part = "response" /\ R!Init
       \/ part = "pool" /\ r = R!Fresh(<< >>, "GET", FALSE)
HttpNext ==
    /\ UNCHANGED part
    /\ \/ part = "pool" /\ Next /\ UNCHANGED r
       \/ part = "response" /\ R!Next /\ UNCHANGED vars
HttpSpec ==
    /\ HttpInit /\ [][HttpNext]_<<part, vars, r>>
    /\ \A f \in Fetches : WF_vars(part = "pool" /\ Attempt(f))

\* Http1Response!ResponseExact.
ResponseExact == R!ResponseExact
=============================================================================

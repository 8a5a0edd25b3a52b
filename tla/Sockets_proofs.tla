--------------------------- MODULE Sockets_proofs ---------------------------
(***************************************************************************)
(* Proofs about both ends of a proxied WebSocket.  The worker's (WsClient): *)
(* for payloads, sends and frames of any bound, the port keeps the contract *)
(* of StreamPort, and the two halves close together, in order.  The page's  *)
(* (PageSocket): for any number of sends and posts, the page sees its       *)
(* events in order.                                                         *)
(***************************************************************************)
EXTENDS Sockets, FiniteSetTheorems, WellFoundedInduction, TLAPS

-----------------------------------------------------------------------------
(* The strengthening.                                                      *)

\* The peer has been sent a Close, as the last frame.
CloseSent == wire # << >> /\ wire[Len(wire)] = "Close"

\* The handlers are installed exactly while the page's stream runs.
PhaseOK ==
    /\ handlers = Running
    /\ (streams => Running) /\ (closeDeadline => Running)
    /\ phase \in {"opening", "opened"} => ~done /\ port = << >>
    /\ phase = "opening" => /\ ~closed /\ ~closed_local /\ ~peerClosed /\ queue = << >>
                            /\ reader = "ended" /\ writer = "ended"
    /\ closed => reader = "ended" /\ writer = "ended" /\ queue = << >>

\* What the writer holds, and how much is buffered.
WriterOK ==
    /\ (writer = "writing" => writing \in OutMsg) /\ (writer # "writing" => writing = NoMsg)
    /\ buffered <= sends * MaxLen

\* A Close is queued once, and stays in sight until it was written.
CloseQueued ==
    /\ \A i \in 1..Len(queue) : queue[i].op = "Close" => closed_local
    /\ writing.op = "Close" => closed_local
    /\ \A i \in 1..Len(wire) : wire[i] = "Close" => closed_local
    /\ closed_local /\ ~closed =>
           (queue # << >> /\ queue[Len(queue)].op = "Close") \/ writing.op = "Close" \/ CloseSent

\* A clean end has both Close frames behind it.
CleanEnd ==
    /\ peer_close => peerClosed
    /\ peerClosed => closed_local /\ reader = "ended"
    /\ writer = "closing" \/ closeCode = "clean" => peerClosed /\ CloseSent

\* The inductive invariant.
SocketInv == EndsTogether /\ CloseIsLast /\ PhaseOK /\ WriterOK /\ CloseQueued /\ CleanEnd

-----------------------------------------------------------------------------
(* queue.retain.                                                           *)

\* Every set of naturals that is not empty has a least element.
LEMMA LeastElement ==
    ASSUME NEW T \in SUBSET Nat, T # {}
    PROVE  \E x \in T : \A y \in T : x <= y
<1> DEFINE R == {ss \in Nat \X Nat : ss[1] < ss[2]}
<1>1. IsWellFoundedOn(R, Nat)
  BY NatLessThanWellFounded, ZenonT(30) DEF OpToRel
<1>2. \A x, y \in Nat : y < x => <<y, x>> \in R
  BY ZenonT(30)
<1> HIDE DEF R
<1>3. PICK x \in T : \A y \in T : ~(<<y, x>> \in R)
  BY <1>1, WFMin, ZenonT(30)
<1>4. \A y \in T : ~(y < x)
  BY <1>2, <1>3, ZenonT(30)
<1> QED BY <1>4, SMTT(30), Z3T(30)

\* One round of the loop that closes stands for.
Round(q, f, i) ==
    IF i = 0 THEN << >>
    ELSE IF q[i].op = "Close" THEN Append(f[i - 1], q[i]) ELSE f[i - 1]

\* The loop ends: its rounds form a function on every initial segment.
LEMMA RoundsExist ==
    ASSUME NEW q, NEW m \in Nat
    PROVE  \E f : f = [i \in 0..m |-> Round(q, f, i)]
<1> DEFINE Good(k) == \E f : f = [i \in 0..k |-> Round(q, f, i)]
<1> DEFINE Bad == {k \in Nat : ~Good(k)}
<1>1. SUFFICES ASSUME Bad # {} PROVE FALSE
  <2>1. m \notin Bad => Good(m)
    BY ZenonT(30)
  <2> QED BY <2>1, ZenonT(30)
<1>2. PICK k \in Bad : \A y \in Bad : k <= y
  BY <1>1, LeastElement, ZenonT(30)
<1>3. k # 0
  <2>1. Good(0)
    <3> DEFINE f == [i \in 0..0 |-> << >>]
    <3>1. f = [i \in 0..0 |-> Round(q, f, i)]
      BY SMTT(30) DEF Round
    <3> QED BY <3>1, ZenonT(30)
  <2> QED BY <1>2, <2>1, ZenonT(30)
<1>4. k - 1 \in Nat /\ ~(k <= k - 1)
  BY <1>2, <1>3, SMTT(30)
<1>5. Good(k - 1)
  <2> HIDE DEF Good
  <2> QED BY <1>2, <1>4, ZenonT(30)
<1>6. PICK f : f = [i \in 0..(k - 1) |-> Round(q, f, i)]
  BY <1>5, ZenonT(30)
<1> DEFINE g == [i \in 0..k |-> IF i = k THEN Round(q, f, k) ELSE f[i]]
<1>7. \A i \in 0..k : g[i] = Round(q, g, i)
  <2>1. SUFFICES ASSUME NEW i \in 0..k PROVE g[i] = Round(q, g, i)
    BY ZenonT(30)
  <2>2. i # 0 => i - 1 \in 0..(k - 1) /\ g[i - 1] = f[i - 1]
    BY <1>2, SMTT(30)
  <2>3. Round(q, g, i) = Round(q, f, i)
    BY <2>2, SMTT(30) DEF Round
  <2>4. i # k => i \in 0..(k - 1)
    BY <1>2, SMTT(30)
  <2>5. i # k => g[i] = f[i] /\ f[i] = Round(q, f, i)
    BY <1>6, <2>4, ZenonT(30)
  <2>6. i = k => g[i] = Round(q, f, i)
    BY ZenonT(30)
  <2> QED BY <2>3, <2>5, <2>6, ZenonT(30)
<1>8. g = [i \in 0..k |-> Round(q, g, i)]
  <2> DEFINE h == [i \in 0..k |-> Round(q, g, i)]
  <2>1. \A i \in 0..k : g[i] = h[i]
    BY <1>7, ZenonT(30)
  <2> QED BY <2>1, ZenonT(30)
<1>9. Good(k)
  BY <1>8, ZenonT(30)
<1> QED BY <1>2, <1>9, ZenonT(30)

\* In a queue whose last message alone may be a Close, it keeps that message.
LEMMA ClosesFacts ==
    ASSUME NEW q \in Seq(OutMsg), \A i \in 1..Len(q) : q[i].op = "Close" => i = Len(q)
    PROVE  closes(q) = IF q # << >> /\ q[Len(q)].op = "Close" THEN <<q[Len(q)]>> ELSE << >>
<1> DEFINE kept == CHOOSE f : f = [i \in 0..Len(q) |-> Round(q, f, i)]
<1>1. Len(q) \in Nat /\ (q = << >> <=> Len(q) = 0)
  BY SMTT(30)
<1>2. kept = [i \in 0..Len(q) |-> Round(q, kept, i)]
  <2>1. \E f : f = [i \in 0..Len(q) |-> Round(q, f, i)]
    BY <1>1, RoundsExist, ZenonT(30)
  <2> QED BY <2>1, ZenonT(30)
<1>3. closes(q) = kept[Len(q)]
  BY ZenonT(30) DEF closes, Round
<1> HIDE DEF kept
<1>4. \A i \in 0..Len(q) : kept[i] = Round(q, kept, i)
  BY <1>2, ZenonT(30)
<1>5. \A i \in 0..Len(q) : i < Len(q) => kept[i] = << >>
  <2> DEFINE Bad == {i \in Nat : i < Len(q) /\ kept[i] # << >>}
  <2>1. SUFFICES ASSUME Bad # {} PROVE FALSE
    BY <1>1, SMTT(30)
  <2>2. PICK k \in Bad : \A y \in Bad : k <= y
    BY <2>1, LeastElement, ZenonT(30)
  <2>3. k \in Nat /\ k < Len(q) /\ kept[k] # << >> /\ k \in 0..Len(q)
    BY <1>1, <2>2, SMTT(30)
  <2>4. k # 0
    BY <1>4, <2>3, ZenonT(30) DEF Round
  <2>5. k - 1 \in Nat /\ k - 1 < Len(q) /\ ~(k <= k - 1) /\ k \in 1..Len(q) /\ k # Len(q)
    BY <1>1, <2>3, <2>4, SMTT(30)
  <2>6. kept[k - 1] = << >>
    BY <2>2, <2>5, ZenonT(30)
  <2>7. q[k].op # "Close"
    BY <2>5, ZenonT(30)
  <2>8. kept[k] = kept[k - 1]
    BY <1>4, <2>3, <2>4, <2>7, ZenonT(30) DEF Round
  <2> QED BY <2>3, <2>6, <2>8, ZenonT(30)
<1>6. CASE q = << >>
  BY <1>1, <1>3, <1>4, <1>6, SMTT(30) DEF Round
<1>7. CASE q # << >>
  <2>1. Len(q) # 0 /\ Len(q) \in 0..Len(q) /\ Len(q) - 1 \in 0..Len(q) /\ Len(q) - 1 < Len(q)
    BY <1>1, <1>7, SMTT(30)
  <2>2. kept[Len(q) - 1] = << >>
    BY <1>5, <2>1, ZenonT(30)
  <2>3. kept[Len(q)] = IF q[Len(q)].op = "Close" THEN Append(<< >>, q[Len(q)]) ELSE << >>
    BY <1>4, <2>1, <2>2, ZenonT(30) DEF Round
  <2> QED BY <1>3, <1>7, <2>3, SMTT(30)
<1> QED BY <1>6, <1>7, ZenonT(30)

-----------------------------------------------------------------------------
(* The steps.                                                              *)

\* What a queue is without its front.
LEMMA TailFacts ==
    ASSUME NEW T, NEW q \in Seq(T), q # << >>
    PROVE  /\ q[1] \in T /\ Head(q) = q[1] /\ Len(q) \in Nat /\ Len(q) > 0
           /\ Tail(q) \in Seq(T) /\ Len(Tail(q)) = Len(q) - 1
           /\ \A i \in 1..(Len(q) - 1) : Tail(q)[i] = q[i + 1]
           /\ Tail(q) = << >> <=> Len(q) = 1
<1>1. Len(q) \in Nat /\ Len(q) > 0
  BY SMTT(30)
<1>2. q[1] \in T /\ Head(q) = q[1]
  BY SMTT(30)
<1>3. Tail(q) \in Seq(T) /\ Len(Tail(q)) = Len(q) - 1
  BY SMTT(30)
<1>4. \A i \in 1..(Len(q) - 1) : Tail(q)[i] = q[i + 1]
  BY SMTT(30)
<1>5. Tail(q) = << >> <=> Len(Tail(q)) = 0
  BY <1>3, SMTT(30), Z3T(30)
<1>6. Tail(q) = << >> <=> Len(q) = 1
  BY <1>1, <1>3, <1>5, SMTT(30)
<1> QED BY <1>1, <1>2, <1>3, <1>4, <1>6, ZenonT(30)

\* The bound on what is buffered.
LEMMA Products ==
    /\ \A a, b \in Nat : a * b \in Nat
    /\ \A a, b, n \in Nat : n <= b => a * b + n <= (a + 1) * b
    /\ \A a, b, c \in Nat : a <= c => a * b <= c * b
<1>1. \A a, b \in Nat : a * b \in Nat
  BY SMTT(30)
<1>2. \A a, b, n \in Nat : n <= b => a * b + n <= (a + 1) * b
  BY SMTT(30)
<1>3. \A a, b, c \in Nat : a <= c => a * b <= c * b
  BY SMTT(30)
<1> QED BY <1>1, <1>2, <1>3, ZenonT(30)

\* What is posted at the end of a stream.
LEMMA PortEnds ==
    ASSUME NEW p \in Seq(ToPage), NEW before \in {<< >>, <<"error">>},
           NEW code \in {"clean", "abnormal"}
    PROVE  LET e == p \o before \o <<code>> IN
           /\ e \in Seq(ToPage)
           /\ \A i \in 1..Len(e) : e[i] = "clean" =>
                code = "clean" \/ \E j \in 1..Len(p) : p[j] = "clean"
           /\ before = << >> => e = Append(p, code)
           /\ before = <<"error">> => e = p \o <<"error", code>>
<1>1. CASE before = << >>
  <2>1. p \o before \o <<code>> = Append(p, code)
    BY <1>1, SMTT(30)
  <2>2. code \in ToPage
    BY ZenonT(30) DEF ToPage
  <2>3. Append(p, code) \in Seq(ToPage) /\ Len(Append(p, code)) = Len(p) + 1
        /\ (\A i \in 1..Len(p) : Append(p, code)[i] = p[i])
        /\ Append(p, code)[Len(p) + 1] = code /\ Len(p) \in Nat
    BY <2>2, SMTT(30)
  <2>4. \A i \in 1..(Len(p) + 1) : i \in 1..Len(p) \/ i = Len(p) + 1
    BY <2>3, SMTT(30)
  <2> QED BY <1>1, <2>1, <2>3, <2>4, ZenonT(30)
<1>2. CASE before = <<"error">>
  <2> DEFINE e == p \o <<"error", code>>
  <2>1. p \o before \o <<code>> = e
    BY <1>2, SMTT(30), Z3T(30)
  <2>2. "error" \in ToPage /\ code \in ToPage
    BY ZenonT(30) DEF ToPage
  <2>3. e \in Seq(ToPage) /\ Len(e) = Len(p) + 2 /\ Len(p) \in Nat
        /\ (\A i \in 1..Len(p) : e[i] = p[i]) /\ e[Len(p) + 1] = "error" /\ e[Len(p) + 2] = code
    BY <2>2, SMTT(30)
  <2>4. \A i \in 1..(Len(p) + 2) : i \in 1..Len(p) \/ i = Len(p) + 1 \/ i = Len(p) + 2
    BY <2>3, SMTT(30)
  <2> HIDE DEF e
  <2>5. \A i \in 1..Len(e) : e[i] = "clean" => code = "clean" \/ \E j \in 1..Len(p) : p[j] = "clean"
    BY <2>3, <2>4, ZenonT(30)
  <2> QED BY <1>2, <2>1, <2>3, <2>5, ZenonT(30) DEF e
<1> QED BY <1>1, <1>2, ZenonT(30)

\* Every way down: the tasks, the queue and, for a page that listens, the port
\* end together; only a writer that has closed the transport reports it clean.
LEMMA SurfaceCloseStep ==
    ASSUME SocketInv, NEW before \in {<< >>, <<"error">>}, NEW code \in {"clean", "abnormal"},
           surface_close(before, code), phase # "opening", ~closed,
           code = "clean" => writer = "closing",
           UNCHANGED <<closed_local, peer_close, frag, phase, wire, peerClosed>>,
           sends' \in 0..MaxSends, sends <= sends', frames' \in 0..MaxFrames, asked' \in BOOLEAN
    PROVE  SocketInv'
<1> USE DEF SocketInv, EndsTogether
<1>1. /\ closed' = TRUE /\ closeCode' = code /\ reader' = "ended" /\ writer' = "ended"
      /\ writing' = NoMsg /\ queue' = << >> /\ buffered' = 0
  BY ZenonT(30) DEF surface_close
<1>2. TypeOK /\ port \in Seq(ToPage) /\ done \in BOOLEAN /\ handlers \in BOOLEAN
      /\ handlers = Running
  BY ZenonT(30) DEF TypeOK, PhaseOK
<1>3. /\ handlers' = FALSE /\ streams' = FALSE /\ closeDeadline' = FALSE /\ done' \in BOOLEAN
      /\ phase = "running" => done' = TRUE
      /\ phase = "opened" => done' = FALSE /\ port' = << >>
      /\ port' \in Seq(ToPage)
      /\ \A i \in 1..Len(port') : port'[i] = "clean" =>
             code = "clean" \/ \E j \in 1..Len(port) : port[j] = "clean"
  <2>1. CASE handlers
    <3>1. /\ done' = TRUE /\ closeDeadline' = FALSE /\ streams' = FALSE /\ handlers' = FALSE
          /\ port' = port \o before \o <<code>>
      BY <2>1, ZenonT(30) DEF surface_close, finish
    <3>2. phase = "running"
      BY <1>2, <2>1, ZenonT(30) DEF Running
    <3>3. /\ port' \in Seq(ToPage)
          /\ \A i \in 1..Len(port') : port'[i] = "clean" =>
                 code = "clean" \/ \E j \in 1..Len(port) : port[j] = "clean"
      BY <1>2, <3>1, PortEnds, ZenonT(30)
    <3> QED BY <3>1, <3>2, <3>3, ZenonT(30)
  <2>2. CASE ~handlers
    <3>1. UNCHANGED <<done, closeDeadline, streams, port, handlers>>
      BY <2>2, ZenonT(30) DEF surface_close
    <3>2. streams = FALSE /\ closeDeadline = FALSE /\ handlers = FALSE
      BY <1>2, <2>2, ZenonT(30) DEF PhaseOK, TypeOK
    <3>3. phase = "running" => done = TRUE
      BY <1>2, <2>2, ZenonT(30) DEF Running
    <3>4. phase = "opened" => done = FALSE /\ port = << >>
      BY <1>2, ZenonT(30) DEF PhaseOK
    <3> QED BY <1>2, <3>1, <3>2, <3>3, <3>4, ZenonT(30)
  <2> QED BY <2>1, <2>2, ZenonT(30)
<1>4. TypeOK'
  <2>1. queue' \in Seq(OutMsg) /\ writing' \in OutMsg \cup {NoMsg}
    BY <1>1, SMTT(30)
  <2>2. buffered' \in 0..(MaxSends * MaxLen)
    BY <1>1, BoundsAssumption, Products, SMTT(30)
  <2> QED BY <1>1, <1>2, <1>3, <2>1, <2>2, ZenonT(30) DEF TypeOK
<1>5. EndsTogether'
  BY <1>1, <1>3, <1>4, ZenonT(30)
<1>6. PhaseOK'
  BY <1>1, <1>2, <1>3, ZenonT(30) DEF PhaseOK, Running
<1>7. WriterOK'
  <2>1. sends' * MaxLen \in Nat
    <3>1. sends' \in Nat /\ MaxLen \in Nat
      BY BoundsAssumption, SMTT(30)
    <3> QED BY <3>1, Products, ZenonT(30)
  <2> QED BY <1>1, <2>1, SMTT(30) DEF WriterOK
<1>8. (code = "clean" \/ \E j \in 1..Len(port) : port[j] = "clean") => peerClosed /\ CloseSent
  BY ZenonT(30) DEF CleanEnd, CloseIsLast, CloseSent
<1>9. Len(queue') = 0 /\ writing'.op # "Close" /\ writing' = NoMsg
  BY <1>1, ZenonT(30) DEF NoMsg
<1>10. CloseIsLast'
  BY <1>1, <1>3, <1>8, <1>9, SMTT(30), Z3T(30) DEF CloseIsLast, CloseSent
<1>11. CloseQueued'
  BY <1>1, <1>9, SMTT(30) DEF CloseQueued
<1>12. CleanEnd'
  BY <1>1, <1>8, ZenonT(30) DEF CleanEnd, CloseSent
<1> QED BY <1>5, <1>6, <1>7, <1>10, <1>11, <1>12, ZenonT(30)

\* A message handed to the page, or kept from it, changes the port alone.
LEMMA DeliverStep ==
    ASSUME SocketInv, deliver_message, frag' \in BOOLEAN, frames' \in 0..MaxFrames,
           UNCHANGED <<closed_local, peer_close, wire, peerClosed, asked, sends>>
    PROVE  SocketInv'
<1> USE DEF SocketInv, EndsTogether, deliver_message
<1>1. port \in Seq(ToPage) /\ "message" \in ToPage
  BY ZenonT(30) DEF TypeOK, ToPage
<1>2. /\ port' \in Seq(ToPage)
      /\ \A i \in 1..Len(port') : port'[i] = "clean" => \E j \in 1..Len(port) : port[j] = "clean"
  <2>1. CASE handlers
    <3>1. port' = Append(port, "message")
      BY <2>1, ZenonT(30)
    <3>2. port' \in Seq(ToPage) /\ Len(port') = Len(port) + 1 /\ Len(port) \in Nat
          /\ (\A i \in 1..Len(port) : port'[i] = port[i]) /\ port'[Len(port) + 1] = "message"
      BY <1>1, <3>1, SMTT(30)
    <3> QED BY <3>2, SMTT(30)
  <2>2. CASE ~handlers
    BY <1>1, <2>2, ZenonT(30)
  <2> QED BY <2>1, <2>2, ZenonT(30)
<1>3. TypeOK'
  BY <1>2, SMTT(30) DEF TypeOK
<1>4. EndsTogether'
  BY <1>3, ZenonT(30)
<1>5. PhaseOK'
  BY ZenonT(30) DEF PhaseOK, Running
<1>6. WriterOK' /\ CloseQueued' /\ CleanEnd'
  BY ZenonT(30) DEF WriterOK, CloseQueued, CleanEnd, CloseSent
<1>7. CloseIsLast'
  BY <1>2, ZenonT(30) DEF CloseIsLast
<1> QED BY <1>4, <1>5, <1>6, <1>7, ZenonT(30)

\* A fragment is kept in the reader.
LEMMA FragmentStep ==
    ASSUME SocketInv, ReaderKeeps, frag' \in BOOLEAN, frames' \in 0..MaxFrames,
           UNCHANGED <<closed_local, peer_close, wire, peerClosed, asked, sends>>
    PROVE  SocketInv'
<1> USE DEF SocketInv, EndsTogether, ReaderKeeps, swVars
<1>1. EndsTogether'
  BY SMTT(30) DEF TypeOK
<1>2. PhaseOK'
  BY ZenonT(30) DEF PhaseOK, Running
<1>3. WriterOK' /\ CloseQueued' /\ CleanEnd'
  BY ZenonT(30) DEF WriterOK, CloseQueued, CleanEnd, CloseSent
<1>4. CloseIsLast'
  BY ZenonT(30) DEF CloseIsLast
<1> QED BY <1>1, <1>2, <1>3, <1>4, ZenonT(30)

\* kernelStream resolves.
LEMMA OpenedStep ==
    ASSUME SocketInv, Opened
    PROVE  SocketInv'
<1> USE DEF SocketInv, EndsTogether, Opened, history
<1>1. EndsTogether'
  BY ZenonT(30) DEF TypeOK, PhaseOK
<1>2. PhaseOK'
  BY ZenonT(30) DEF PhaseOK, Running
<1>3. WriterOK' /\ CloseQueued'
  BY ZenonT(30) DEF WriterOK, CloseQueued, CloseSent, PhaseOK
<1>4. CleanEnd'
  BY ZenonT(30) DEF PhaseOK, CleanEnd, CloseSent
<1>5. CloseIsLast'
  BY ZenonT(30) DEF CloseIsLast
<1> QED BY <1>1, <1>2, <1>3, <1>4, <1>5, ZenonT(30)

\* The dial fails before there is a port.
LEMMA OpenFailsStep ==
    ASSUME SocketInv, OpenFails
    PROVE  SocketInv'
<1> USE DEF SocketInv, EndsTogether, OpenFails, history, kernelVars
<1>1. EndsTogether'
  BY ZenonT(30) DEF TypeOK, PhaseOK, Running
<1>2. PhaseOK'
  BY ZenonT(30) DEF PhaseOK, Running, TypeOK
<1>3. WriterOK' /\ CloseQueued' /\ CleanEnd'
  BY ZenonT(30) DEF WriterOK, CloseQueued, CleanEnd, CloseSent
<1>4. CloseIsLast'
  BY ZenonT(30) DEF CloseIsLast
<1> QED BY <1>1, <1>2, <1>3, <1>4, ZenonT(30)

\* A clean code is known only when both Close frames have crossed.
LEMMA CleanKnown ==
    ASSUME SocketInv, NEW code \in {"clean", "abnormal"}, code = "clean" => closeCode = "clean",
           UNCHANGED <<wire, peerClosed>>, Len(queue') = 0 \/ UNCHANGED queue,
           writing' = NoMsg \/ UNCHANGED writing, queue = << >> => queue' = << >>,
           \A i \in 1..Len(port') : port'[i] = "clean" =>
               code = "clean" \/ \E j \in 1..Len(port) : port[j] = "clean"
    PROVE  CloseIsLast'
<1>1. (code = "clean" \/ \E j \in 1..Len(port) : port[j] = "clean") => peerClosed /\ CloseSent
  BY ZenonT(30) DEF SocketInv, CleanEnd, CloseIsLast, CloseSent
<1>2. NoMsg.op # "Close"
  BY ZenonT(30) DEF NoMsg
<1> QED BY <1>1, <1>2, SMTT(30), Z3T(30) DEF SocketInv, CloseIsLast, CloseSent

\* The port is made: the page listens from now on, or is told of a close that
\* came first.
LEMMA SetupStep ==
    ASSUME SocketInv, Setup
    PROVE  SocketInv'
<1> USE DEF SocketInv
<1>1. /\ phase = "opened" /\ phase' = "running" /\ TypeOK
      /\ port = << >> /\ port \in Seq(ToPage) /\ done = FALSE /\ closeCode \in {"clean", "abnormal"}
      /\ closed \in BOOLEAN /\ streams = FALSE /\ closeDeadline = FALSE /\ handlers = FALSE
  BY ZenonT(30) DEF Setup, PhaseOK, Running, EndsTogether, TypeOK
<1>2. UNCHANGED <<closed, closeCode, queue, closed_local, peer_close, buffered, reader, frag,
                  writer, writing, wire, peerClosed, asked, sends, frames>>
  BY ZenonT(30) DEF Setup, history
<1>3. WriterOK' /\ CloseQueued' /\ CleanEnd'
  BY <1>2, ZenonT(30) DEF WriterOK, CloseQueued, CleanEnd, CloseSent
<1>4. CASE closed
  <2>1. done' = TRUE /\ closeDeadline' = FALSE /\ streams' = FALSE /\ handlers' = FALSE
    BY <1>4, ZenonT(30) DEF Setup, finish
  <2>2. /\ port' \in Seq(ToPage)
        /\ \A i \in 1..Len(port') : port'[i] = "clean" =>
               closeCode = "clean" \/ \E j \in 1..Len(port) : port[j] = "clean"
    <3>1. port' = port \o << >> \o <<closeCode>>
      BY <1>4, ZenonT(30) DEF Setup, finish
    <3> QED BY <1>1, <3>1, PortEnds, ZenonT(30)
  <2>3. reader = "ended" /\ writer = "ended" /\ queue = << >>
    BY <1>4, ZenonT(30) DEF PhaseOK
  <2>4. TypeOK'
    <3>1. port' \in Seq(ToPage)
      BY <2>2, ZenonT(30)
    <3> QED BY <1>1, <1>2, <2>1, <3>1, ZenonT(90) DEF TypeOK
  <2>5. EndsTogether'
    BY <1>1, <1>2, <1>4, <2>1, <2>3, <2>4, ZenonT(30) DEF EndsTogether
  <2>6. PhaseOK'
    BY <1>1, <1>2, <2>1, <2>3, ZenonT(30) DEF PhaseOK, Running
  <2>7. CloseIsLast'
    BY <1>1, <1>2, <2>2, CleanKnown, ZenonT(30)
  <2> QED BY <1>3, <2>5, <2>6, <2>7, ZenonT(30)
<1>5. CASE ~closed
  <2>1. streams' = TRUE /\ handlers' = TRUE /\ UNCHANGED <<done, closeDeadline, port>>
    BY <1>5, ZenonT(30) DEF Setup
  <2>2. TypeOK'
    BY <1>1, <1>2, <2>1, SMTT(30) DEF TypeOK
  <2>3. EndsTogether'
    BY <1>1, <1>2, <1>5, <2>1, <2>2, ZenonT(30) DEF EndsTogether
  <2>4. PhaseOK'
    BY <1>1, <1>2, <1>5, <2>1, ZenonT(30) DEF PhaseOK, Running
  <2>5. CloseIsLast'
    BY <1>2, <2>1, ZenonT(30) DEF CloseIsLast
  <2> QED BY <1>3, <2>3, <2>4, <2>5, ZenonT(30)
<1> QED BY <1>4, <1>5, ZenonT(30)

\* The client is aborted before the page listens.
LEMMA SetupFailsStep ==
    ASSUME SocketInv, SetupFails
    PROVE  SocketInv'
<1> USE DEF SocketInv
<1>1. /\ phase = "opened" /\ phase' = "refused" /\ TypeOK /\ done' = TRUE
      /\ port = << >> /\ port \in Seq(ToPage) /\ closeCode \in {"clean", "abnormal"}
      /\ streams = FALSE /\ closeDeadline = FALSE /\ handlers = FALSE
  BY ZenonT(30) DEF SetupFails, PhaseOK, Running, EndsTogether, TypeOK
<1>2. /\ closed' = TRUE /\ reader' = "ended" /\ writer' = "ended" /\ writing' = NoMsg
      /\ queue' = << >> /\ buffered' = 0
      /\ UNCHANGED <<handlers, closed_local, peer_close, frag, closeDeadline, streams,
                     wire, peerClosed, asked, sends, frames>>
  BY ZenonT(30) DEF SetupFails, history
<1>3. closeCode' \in {"clean", "abnormal"} /\ (closeCode' = "clean" => closeCode = "clean")
  BY <1>1, ZenonT(30) DEF SetupFails
<1>4. /\ port' \in Seq(ToPage)
      /\ \A i \in 1..Len(port') : port'[i] = "clean" =>
             closeCode' = "clean" \/ \E j \in 1..Len(port) : port[j] = "clean"
  <2>1. CASE port' = port
    BY <1>1, <2>1, ZenonT(30)
  <2>2. CASE port' = Append(port, closeCode')
    <3>1. port' = port \o << >> \o <<closeCode'>>
      BY <1>1, <1>3, <2>2, PortEnds, ZenonT(30)
    <3> QED BY <1>1, <1>3, <3>1, PortEnds, ZenonT(30)
  <2> QED BY <2>1, <2>2, ZenonT(30) DEF SetupFails
<1>5. TypeOK'
  <2>1. queue' \in Seq(OutMsg) /\ writing' \in OutMsg \cup {NoMsg}
    BY <1>2, SMTT(30)
  <2>2. buffered' \in 0..(MaxSends * MaxLen)
    BY <1>2, BoundsAssumption, Products, SMTT(30)
  <2> QED BY <1>1, <1>2, <1>3, <1>4, <2>1, <2>2, ZenonT(30) DEF TypeOK
<1>6. EndsTogether'
  BY <1>1, <1>2, <1>5, ZenonT(30) DEF EndsTogether
<1>7. PhaseOK'
  BY <1>1, <1>2, ZenonT(30) DEF PhaseOK, Running
<1>8. WriterOK'
  <2>1. sends' * MaxLen \in Nat
    <3>1. sends' \in Nat /\ MaxLen \in Nat
      BY <1>1, <1>2, BoundsAssumption, SMTT(30) DEF TypeOK
    <3> QED BY <3>1, Products, ZenonT(30)
  <2> QED BY <1>2, <2>1, SMTT(30) DEF WriterOK
<1>9. Len(queue') = 0 /\ writing'.op # "Close"
  BY <1>2, ZenonT(30) DEF NoMsg
<1>10. CloseIsLast'
  BY <1>2, <1>3, <1>4, <1>9, CleanKnown, ZenonT(30)
<1>11. CloseQueued' /\ CleanEnd'
  BY <1>2, <1>3, <1>9, SMTT(30) DEF CloseQueued, CleanEnd, CloseSent
<1> QED BY <1>6, <1>7, <1>8, <1>10, <1>11, ZenonT(30)

\* While this side has not closed, nothing it queued or wrote is a Close, and
\* the message queued now may be the first.
LEMMA QueueAppend ==
    ASSUME SocketInv, closed_local = FALSE, NEW m \in OutMsg, queue' = Append(queue, m),
           UNCHANGED <<wire, writing, port, peerClosed, closed>>,
           closed_local' = (m.op = "Close")
    PROVE  queue' \in Seq(OutMsg) /\ CloseIsLast' /\ CloseQueued'
<1> USE DEF SocketInv
<1>1. queue \in Seq(OutMsg)
  BY ZenonT(30) DEF EndsTogether, TypeOK
<1>2. /\ queue' \in Seq(OutMsg) /\ Len(queue') = Len(queue) + 1 /\ Len(queue) \in Nat
      /\ \A i \in 1..Len(queue) : queue'[i] = queue[i]
      /\ queue'[Len(queue')] = m /\ queue' # << >>
  BY <1>1, SMTT(30)
<1>3. /\ \A i \in 1..Len(queue) : queue[i].op # "Close"
      /\ writing.op # "Close" /\ ~peerClosed
      /\ \A i \in 1..Len(wire) : wire[i] # "Close"
  BY ZenonT(30) DEF CloseQueued, CleanEnd
<1>4. \A i \in 1..Len(queue') : queue'[i].op = "Close" => i = Len(queue') /\ m.op = "Close"
  BY <1>2, <1>3, SMTT(30)
<1>5. CloseIsLast'
  BY <1>3, <1>4, ZenonT(30) DEF CloseIsLast
<1>6. CloseQueued'
  BY <1>2, <1>3, <1>4, ZenonT(30) DEF CloseQueued
<1> QED BY <1>2, <1>5, <1>6, ZenonT(30)

\* What the page sends is buffered, within the bound.
LEMMA PortSendStep ==
    ASSUME SocketInv, NEW n \in 0..MaxLen, PortSend(n)
    PROVE  SocketInv'
<1> USE DEF SocketInv
<1>1. /\ TypeOK /\ phase = "running" /\ done = FALSE /\ closed = FALSE
      /\ sends \in 0..MaxSends /\ sends < MaxSends /\ sends' = sends + 1 /\ asked \in BOOLEAN
      /\ frames \in 0..MaxFrames /\ UNCHANGED <<closed_local, peer_close, frag, wire, peerClosed, asked, frames>>
  BY ZenonT(30) DEF PortSend, Running, EndsTogether, TypeOK
<1>2. sends' \in 0..MaxSends /\ sends <= sends' /\ sends \in Nat /\ n \in Nat /\ n <= MaxLen /\ MaxLen \in Nat /\ MaxSends \in Nat
  BY <1>1, BoundsAssumption, SMTT(30)
<1>3. CASE /\ ~closed_local /\ queue' = Append(queue, [op |-> "data", len |-> n])
           /\ buffered' = buffered + n
           /\ UNCHANGED <<closed, closeCode, handlers, reader, writer, writing, swVars>>
  <2> DEFINE m == [op |-> "data", len |-> n]
  <2>1. m \in OutMsg /\ m.op # "Close" /\ queue' = Append(queue, m)
    BY <1>3, ZenonT(30) DEF OutMsg, Ops
  <2>2. closed_local = FALSE /\ closed_local' = FALSE
    BY <1>1, <1>3, ZenonT(30) DEF TypeOK
  <2> HIDE DEF m
  <2>3. UNCHANGED <<phase, done, closeDeadline, streams, port>>
    BY <1>3, ZenonT(30) DEF swVars
  <2>4. queue' \in Seq(OutMsg) /\ CloseIsLast' /\ CloseQueued'
    BY <1>1, <1>3, <2>1, <2>2, <2>3, QueueAppend, ZenonT(30)
  <2>5. buffered' <= sends' * MaxLen /\ buffered' \in 0..(MaxSends * MaxLen)
    <3>1. buffered \in Nat /\ buffered <= sends * MaxLen
      BY <1>1, <1>2, Products, SMTT(30) DEF WriterOK, TypeOK
    <3>2. sends * MaxLen + n <= (sends + 1) * MaxLen
      BY <1>2, Products, ZenonT(30)
    <3>3. sends' * MaxLen <= MaxSends * MaxLen /\ sends' \in Nat
      BY <1>1, <1>2, Products, SMTT(30), Z3T(30)
    <3>4. sends * MaxLen \in Nat /\ sends' * MaxLen \in Nat /\ MaxSends * MaxLen \in Nat
      BY <1>2, <3>3, Products, ZenonT(30)
    <3>5. sends' * MaxLen = (sends + 1) * MaxLen
      BY <1>1, ZenonT(30)
    <3>6. buffered' = buffered + n /\ n \in Nat
      BY <1>2, <1>3, ZenonT(30)
    <3> QED BY <3>1, <3>2, <3>3, <3>4, <3>5, <3>6, SMTT(30)
  <2>6. TypeOK'
    BY <1>1, <1>2, <1>3, <2>3, <2>4, <2>5, SMTT(30), Z3T(30) DEF TypeOK
  <2>7. EndsTogether'
    BY <1>1, <1>3, <2>3, <2>6, ZenonT(30) DEF EndsTogether
  <2>8. PhaseOK'
    BY <1>1, <1>3, <2>3, ZenonT(30) DEF PhaseOK, Running
  <2>9. WriterOK' /\ CleanEnd'
    BY <1>1, <1>3, <2>5, ZenonT(30) DEF WriterOK, CleanEnd, CloseSent
  <2> QED BY <2>4, <2>7, <2>8, <2>9, ZenonT(30)
<1>4. CASE closed_local /\ abort(<<"error">>) /\ UNCHANGED phase
  BY <1>1, <1>2, <1>4, SurfaceCloseStep, ZenonT(30) DEF abort
<1> QED BY <1>3, <1>4, ZenonT(30) DEF PortSend

\* A Close is queued once.
LEMMA PortCloseStep ==
    ASSUME SocketInv, NEW n \in 0..MaxLen, PortClose(n)
    PROVE  SocketInv'
<1> USE DEF SocketInv
<1>1. /\ TypeOK /\ phase = "running" /\ done = FALSE /\ closed = FALSE /\ closed_local \in BOOLEAN
      /\ asked' = TRUE /\ closeDeadline' = TRUE /\ closed_local' = TRUE
      /\ UNCHANGED <<closed, closeCode, handlers, peer_close, buffered, reader, frag, writer,
                     writing, phase, done, streams, port, wire, peerClosed, sends, frames>>
  BY ZenonT(30) DEF PortClose, Running, EndsTogether, TypeOK
<1>2. queue' \in Seq(OutMsg) /\ CloseIsLast' /\ CloseQueued'
  <2>1. CASE closed_local
    <3>1. UNCHANGED <<queue, closed_local>>
      BY <1>1, <2>1, ZenonT(30) DEF PortClose
    <3> QED BY <1>1, <3>1, SMTT(30), Z3T(30) DEF TypeOK, CloseIsLast, CloseQueued, CloseSent
  <2>2. CASE ~closed_local
    <3> DEFINE m == [op |-> "Close", len |-> n]
    <3>1. m \in OutMsg /\ m.op = "Close" /\ queue' = Append(queue, m)
      BY <2>2, ZenonT(30) DEF OutMsg, Ops, PortClose
    <3> HIDE DEF m
    <3> QED BY <1>1, <2>2, <3>1, QueueAppend, ZenonT(30)
  <2> QED BY <2>1, <2>2, ZenonT(30)
<1>3. EndsTogether'
  <2>1. TypeOK'
    BY <1>1, <1>2, SMTT(30), Z3T(30) DEF TypeOK
  <2> QED BY <1>1, <2>1, ZenonT(30) DEF EndsTogether
<1>4. PhaseOK'
  BY <1>1, ZenonT(30) DEF PhaseOK, Running
<1>5. WriterOK' /\ CleanEnd'
  BY <1>1, ZenonT(30) DEF WriterOK, CleanEnd, CloseSent
<1> QED BY <1>2, <1>3, <1>4, <1>5, ZenonT(30)

\* A Pong is queued only in front of a Close.
LEMMA PingStep ==
    ASSUME SocketInv, NEW n \in 0..MaxLen, Ping(n)
    PROVE  SocketInv'
<1> USE DEF SocketInv
<1>1. /\ TypeOK /\ reader = "reading" /\ closed = FALSE /\ closed_local \in BOOLEAN
      /\ frames' \in 0..MaxFrames
      /\ UNCHANGED <<closed, closeCode, handlers, closed_local, peer_close, buffered, reader,
                     frag, writer, writing, phase, done, closeDeadline, streams, port,
                     wire, peerClosed, asked, sends>>
  BY BoundsAssumption, SMTT(30), Z3T(30) DEF Ping, Reads, EndsTogether, TypeOK, swVars
<1>2. queue' \in Seq(OutMsg) /\ CloseIsLast' /\ CloseQueued'
  <2>1. CASE closed_local
    <3>1. UNCHANGED <<queue, closed_local>>
      BY <1>1, <2>1, ZenonT(30) DEF Ping
    <3> QED BY <1>1, <3>1, SMTT(30), Z3T(30) DEF TypeOK, CloseIsLast, CloseQueued, CloseSent
  <2>2. CASE ~closed_local
    <3> DEFINE m == [op |-> "Pong", len |-> n]
    <3>1. m \in OutMsg /\ m.op # "Close" /\ queue' = Append(queue, m)
      BY <2>2, ZenonT(30) DEF OutMsg, Ops, Ping
    <3> HIDE DEF m
    <3>2. closed_local = FALSE /\ closed_local' = FALSE
      BY <1>1, <2>2, ZenonT(30)
    <3> QED BY <1>1, <3>1, <3>2, QueueAppend, ZenonT(30)
  <2> QED BY <2>1, <2>2, ZenonT(30)
<1>3. EndsTogether'
  <2>1. TypeOK'
    BY <1>1, <1>2, SMTT(30) DEF TypeOK
  <2> QED BY <1>1, <2>1, ZenonT(30) DEF EndsTogether
<1>4. PhaseOK'
  BY <1>1, ZenonT(30) DEF PhaseOK, Running
<1>5. WriterOK' /\ CleanEnd'
  BY <1>1, ZenonT(30) DEF WriterOK, CleanEnd, CloseSent
<1> QED BY <1>2, <1>3, <1>4, <1>5, ZenonT(30)

\* The peer's Close leaves one Close in the queue, or none if it was taken.
LEMMA PeerCloseStep ==
    ASSUME SocketInv, NEW n \in 0..MaxLen, PeerClose(n)
    PROVE  SocketInv'
<1> USE DEF SocketInv
<1>1. /\ TypeOK /\ reader = "reading" /\ closed = FALSE /\ closed_local \in BOOLEAN /\ ~done
      /\ frames' \in 0..MaxFrames /\ queue \in Seq(OutMsg) /\ phase # "opening"
      /\ peerClosed' = TRUE /\ peer_close' = TRUE /\ reader' = "ended" /\ buffered' = 0
      /\ closed_local' = TRUE
      /\ UNCHANGED <<closed, closeCode, handlers, frag, writer, writing, phase, done,
                     closeDeadline, streams, port, wire, asked, sends>>
  BY BoundsAssumption, SMTT(30), Z3T(30) DEF PeerClose, Reads, EndsTogether, TypeOK, swVars, PhaseOK
<1> DEFINE c == [op |-> "Close", len |-> n]
<1>2. c \in OutMsg /\ c.op = "Close"
  BY ZenonT(30) DEF OutMsg, Ops
<1>3. closes(queue) = IF queue # << >> /\ queue[Len(queue)].op = "Close"
                      THEN <<queue[Len(queue)]>> ELSE << >>
  BY <1>1, ClosesFacts, ZenonT(30) DEF CloseIsLast
<1>4. queue' = IF closed_local THEN closes(queue) ELSE Append(closes(queue), c)
  BY ZenonT(30) DEF PeerClose
<1> HIDE DEF c
<1>5. /\ queue' \in {<< >>} \cup {<<m>> : m \in {x \in OutMsg : x.op = "Close"}}
      /\ queue = << >> /\ closed_local => queue' = << >>
      /\ ~closed_local => queue' = <<c>>
      /\ closed_local /\ queue # << >> /\ queue[Len(queue)].op = "Close" => queue' # << >>
  <2>1. CASE closed_local /\ queue # << >> /\ queue[Len(queue)].op = "Close"
    <3>1. queue[Len(queue)] \in OutMsg
      BY <1>1, <2>1, SMTT(30)
    <3> QED BY <1>3, <1>4, <2>1, <3>1, SMTT(30)
  <2>2. CASE closed_local /\ ~(queue # << >> /\ queue[Len(queue)].op = "Close")
    BY <1>3, <1>4, <2>2, ZenonT(30)
  <2>3. CASE ~closed_local
    <3>1. ~(queue # << >> /\ queue[Len(queue)].op = "Close")
      <4>1. queue # << >> => Len(queue) \in 1..Len(queue)
        BY <1>1, SMTT(30), Z3T(30)
      <4> QED BY <2>3, <4>1, ZenonT(30) DEF CloseQueued
    <3>2. queue' = Append(<< >>, c)
      BY <1>3, <1>4, <2>3, <3>1, ZenonT(30)
    <3> QED BY <1>2, <2>3, <3>2, SMTT(30)
  <2> QED BY <2>1, <2>2, <2>3, ZenonT(30)
<1>6. /\ queue' \in Seq(OutMsg)
      /\ \A i \in 1..Len(queue') : queue'[i].op = "Close" /\ i = Len(queue')
      /\ queue' # << >> => queue'[Len(queue')].op = "Close"
  <2>1. CASE queue' = << >>
    BY <2>1, SMTT(30)
  <2>2. ASSUME NEW m \in OutMsg, m.op = "Close", queue' = <<m>>
        PROVE  /\ queue' \in Seq(OutMsg)
               /\ \A i \in 1..Len(queue') : queue'[i].op = "Close" /\ i = Len(queue')
               /\ queue'[Len(queue')].op = "Close"
    BY <2>2, SMTT(30)
  <2> QED BY <1>5, <2>1, <2>2, ZenonT(30)
<1>7. ~closed_local => queue' # << >>
  BY <1>5, SMTT(30), Z3T(30)
<1>8. CloseIsLast'
  <2>1. ASSUME NEW i \in 1..Len(wire), wire[i] = "Close"
        PROVE  i = Len(wire) /\ writing = NoMsg /\ queue' = << >>
    BY <1>5, <2>1, ZenonT(30) DEF CloseIsLast, CloseQueued
  <2>2. writing.op = "Close" => queue' = << >>
    BY <1>5, ZenonT(30) DEF CloseIsLast, CloseQueued
  <2>3. (\E i \in 1..Len(port) : port[i] = "clean") => CloseSent
    BY ZenonT(30) DEF CloseIsLast, CloseSent
  <2> QED BY <1>1, <1>6, <2>1, <2>2, <2>3, ZenonT(30) DEF CloseIsLast, CloseSent
<1>9. CloseQueued'
  <2>1. (queue' # << >> /\ queue'[Len(queue')].op = "Close") \/ writing.op = "Close" \/ CloseSent
    <3>1. CASE closed_local
      BY <1>1, <1>5, <1>6, <3>1, ZenonT(30) DEF CloseQueued
    <3>2. CASE ~closed_local
      BY <1>6, <1>7, <3>2, ZenonT(30)
    <3> QED BY <3>1, <3>2, ZenonT(30)
  <2> QED BY <1>1, <2>1, ZenonT(30) DEF CloseQueued, CloseSent
<1>10. EndsTogether'
  <2>1. buffered' \in 0..(MaxSends * MaxLen)
    BY <1>1, BoundsAssumption, Products, SMTT(30)
  <2>2. TypeOK'
    BY <1>1, <1>6, <2>1, SMTT(30), Z3T(30) DEF TypeOK
  <2> QED BY <1>1, <2>2, ZenonT(30) DEF EndsTogether
<1>11. PhaseOK'
  BY <1>1, ZenonT(30) DEF PhaseOK, Running
<1>12. WriterOK'
  <2>1. sends' * MaxLen \in Nat
    <3>1. sends' \in Nat /\ MaxLen \in Nat
      BY <1>1, BoundsAssumption, SMTT(30), Z3T(30) DEF TypeOK
    <3> QED BY <3>1, Products, ZenonT(30)
  <2> QED BY <1>1, <2>1, SMTT(30), Z3T(30) DEF WriterOK
<1>13. CleanEnd'
  BY <1>1, ZenonT(30) DEF CleanEnd, CloseSent
<1> QED BY <1>8, <1>9, <1>10, <1>11, <1>12, <1>13, ZenonT(30)

\* The writer takes the front of the queue.
LEMMA WriterTakesStep ==
    ASSUME SocketInv, WriterTakes
    PROVE  SocketInv'
<1> USE DEF SocketInv
<1>1. /\ TypeOK /\ writer = "polling" /\ closed = FALSE /\ queue # << >> /\ queue \in Seq(OutMsg)
      /\ writing' = Head(queue) /\ queue' = Tail(queue) /\ writer' = "writing" /\ writing = NoMsg
      /\ UNCHANGED <<peer_close, wire, closed, closeCode, handlers, closed_local, reader, frag,
                     phase, done, closeDeadline, streams, port, peerClosed, asked, sends, frames>>
  BY ZenonT(30) DEF WriterTakes, WriterKeeps, EndsTogether, TypeOK, swVars, WriterOK
<1>2. /\ queue[1] \in OutMsg /\ writing' = queue[1] /\ Len(queue) \in Nat /\ Len(queue) > 0
      /\ queue' \in Seq(OutMsg) /\ Len(queue') = Len(queue) - 1
      /\ \A i \in 1..Len(queue') : queue'[i] = queue[i + 1]
      /\ queue' = << >> <=> Len(queue) = 1
  BY <1>1, TailFacts, SMTT(30), Z3T(30)
<1>3. 1 \in 1..Len(queue) /\ Len(queue) \in 1..Len(queue)
      /\ \A i \in 1..Len(queue') : i + 1 \in 1..Len(queue) /\ (i + 1 = Len(queue) => i = Len(queue'))
  BY <1>2, SMTT(30)
<1>4. \A i \in 1..Len(wire) : wire[i] # "Close"
  BY <1>1, ZenonT(30) DEF CloseIsLast
<1>5. ~CloseSent
  <2>1. wire \in Seq(Ops)
    BY <1>1, ZenonT(30) DEF TypeOK
  <2>2. wire # << >> => Len(wire) \in 1..Len(wire)
    BY <2>1, SMTT(30)
  <2> QED BY <1>4, <2>2, ZenonT(30) DEF CloseSent
<1>6. writing'.op = "Close" => queue' = << >>
  <2>1. queue[1].op = "Close" => 1 = Len(queue)
    BY <1>3, ZenonT(30) DEF CloseIsLast
  <2> QED BY <1>2, <2>1, ZenonT(30)
<1>7. \A i \in 1..Len(queue') : queue'[i].op = "Close" => i = Len(queue')
  BY <1>2, <1>3, ZenonT(30) DEF CloseIsLast
<1>8. CloseIsLast'
  <2>1. peerClosed => \A i \in 1..Len(queue') : queue'[i].op = "Close"
    BY <1>2, <1>3, SMTT(30), Z3T(30) DEF CloseIsLast
  <2>2. ~(\E i \in 1..Len(port) : port[i] = "clean")
    BY <1>5, ZenonT(30) DEF CloseIsLast, CloseSent
  <2> QED BY <1>1, <1>4, <1>6, <1>7, <2>1, <2>2, ZenonT(30) DEF CloseIsLast
<1>9. CloseQueued'
  <2>1. closed_local => queue[Len(queue)].op = "Close"
    BY <1>1, <1>5, ZenonT(30) DEF CloseQueued, NoMsg
  <2>2. queue' # << >> => Len(queue') \in 1..Len(queue') /\ queue'[Len(queue')] = queue[Len(queue)]
    BY <1>2, SMTT(30), Z3T(30)
  <2>3. queue' = << >> => writing' = queue[Len(queue)]
    BY <1>2, ZenonT(30)
  <2>4. \A i \in 1..Len(queue) : queue[i].op = "Close" => closed_local
    BY ZenonT(30) DEF CloseQueued
  <2>5. \A i \in 1..Len(queue') : queue'[i].op = "Close" => closed_local
    BY <1>2, <1>3, <2>4, ZenonT(30)
  <2>6. writing'.op = "Close" => closed_local
    BY <1>2, <1>3, <2>4, ZenonT(30)
  <2> QED BY <1>1, <1>4, <2>1, <2>2, <2>3, <2>5, <2>6, ZenonT(30) DEF CloseQueued
<1>10. buffered' \in Nat /\ buffered' <= buffered /\ buffered \in Nat /\ buffered <= MaxSends * MaxLen
  <2>1. buffered \in 0..(MaxSends * MaxLen) /\ MaxSends * MaxLen \in Nat
    BY <1>1, BoundsAssumption, Products, ZenonT(30) DEF TypeOK
  <2>2. queue[1].len \in Nat /\ buffered' = Saturating(buffered, queue[1].len)
    BY <1>1, <1>2, BoundsAssumption, SMTT(30), Z3T(30) DEF WriterTakes, OutMsg
  <2> QED BY <2>1, <2>2, SMTT(30) DEF Saturating
<1>11. EndsTogether'
  <2>1. buffered' \in 0..(MaxSends * MaxLen)
    <3>1. MaxSends * MaxLen \in Nat
      BY BoundsAssumption, Products, ZenonT(30)
    <3> QED BY <1>10, <3>1, SMTT(30)
  <2>2. TypeOK'
    BY <1>1, <1>2, <2>1, SMTT(30), Z3T(30) DEF TypeOK
  <2> QED BY <1>1, <2>2, ZenonT(30) DEF EndsTogether
<1>12. PhaseOK'
  BY <1>1, ZenonT(30) DEF PhaseOK, Running
<1>13. WriterOK'
  <2>1. sends * MaxLen \in Nat
    <3>1. sends \in Nat /\ MaxLen \in Nat
      BY <1>1, BoundsAssumption, SMTT(30), Z3T(30) DEF TypeOK
    <3> QED BY <3>1, Products, ZenonT(30)
  <2>2. buffered <= sends * MaxLen
    BY ZenonT(30) DEF WriterOK
  <2>3. buffered' <= sends' * MaxLen
    BY <1>1, <1>10, <2>1, <2>2, SMTT(30), Z3T(30)
  <2> QED BY <1>1, <1>2, <2>3, ZenonT(30) DEF WriterOK
<1>14. CleanEnd'
  BY <1>1, ZenonT(30) DEF CleanEnd, CloseSent
<1> QED BY <1>8, <1>9, <1>11, <1>12, <1>13, <1>14, ZenonT(30)

\* The frame is on the wire; after a Close nothing is left to write.
LEMMA WrittenStep ==
    ASSUME SocketInv, Written
    PROVE  SocketInv'
<1> USE DEF SocketInv
<1>1. /\ TypeOK /\ writer = "writing" /\ writing \in OutMsg /\ wire \in Seq(Ops)
      /\ wire' = Append(wire, writing.op) /\ writing' = NoMsg /\ writer' = "polling"
      /\ UNCHANGED <<queue, buffered, peer_close, closed, closeCode, handlers, closed_local,
                     reader, frag, phase, done, closeDeadline, streams, port,
                     peerClosed, asked, sends, frames>>
  BY ZenonT(30) DEF Written, WriterKeeps, EndsTogether, TypeOK, swVars, WriterOK
<1>2. writing.op \in Ops /\ writing # NoMsg /\ NoMsg.op # "Close"
  BY <1>1, SMTT(30), Z3T(30) DEF OutMsg, NoMsg, Ops
<1>3. \A i \in 1..Len(wire) : wire[i] # "Close"
  BY <1>2, ZenonT(30) DEF CloseIsLast
<1>4. /\ wire' \in Seq(Ops) /\ Len(wire') = Len(wire) + 1 /\ Len(wire) \in Nat /\ wire' # << >>
      /\ (\A i \in 1..Len(wire) : wire'[i] = wire[i]) /\ wire'[Len(wire')] = writing.op
  BY <1>1, <1>2, SMTT(30), Z3T(30)
<1>5. ~CloseSent
  <2>1. wire # << >> => Len(wire) \in 1..Len(wire)
    BY <1>1, SMTT(30)
  <2> QED BY <1>3, <2>1, ZenonT(30) DEF CloseSent
<1>6. \A i \in 1..Len(wire') : wire'[i] = "Close" => i = Len(wire') /\ writing.op = "Close"
  BY <1>3, <1>4, SMTT(30)
<1>7. CloseIsLast'
  <2>1. ~(\E i \in 1..Len(port) : port[i] = "clean")
    BY <1>5, ZenonT(30) DEF CloseIsLast, CloseSent
  <2> QED BY <1>1, <1>2, <1>6, <2>1, ZenonT(30) DEF CloseIsLast
<1>8. CloseQueued'
  <2>1. writing.op = "Close" => CloseSent'
    BY <1>4, ZenonT(30) DEF CloseSent
  <2>2. \A i \in 1..Len(wire') : wire'[i] = "Close" => closed_local
    BY <1>6, ZenonT(30) DEF CloseQueued
  <2> QED BY <1>1, <1>2, <1>5, <2>1, <2>2, ZenonT(30) DEF CloseQueued
<1>9. EndsTogether'
  <2>1. TypeOK'
    BY <1>1, <1>4, SMTT(30), Z3T(30) DEF TypeOK
  <2> QED BY <1>1, <2>1, ZenonT(30) DEF EndsTogether
<1>10. PhaseOK'
  BY <1>1, ZenonT(30) DEF PhaseOK, Running
<1>11. WriterOK'
  BY <1>1, ZenonT(30) DEF WriterOK
<1>12. CleanEnd'
  BY <1>1, <1>5, ZenonT(30) DEF CleanEnd
<1> QED BY <1>7, <1>8, <1>9, <1>10, <1>11, <1>12, ZenonT(30)

\* The writer ends with both Close frames behind it.
LEMMA WriterEndsStep ==
    ASSUME SocketInv, WriterEnds
    PROVE  SocketInv'
<1> USE DEF SocketInv
<1>1. /\ TypeOK /\ writer = "polling" /\ closed = FALSE /\ queue = << >> /\ peer_close
      /\ writing = NoMsg /\ peer_close' = FALSE /\ writer' = "closing"
      /\ UNCHANGED <<queue, buffered, writing, wire, closed, closeCode, handlers, closed_local,
                     reader, frag, phase, done, closeDeadline, streams, port,
                     peerClosed, asked, sends, frames>>
  BY ZenonT(30) DEF WriterEnds, WriterKeeps, EndsTogether, TypeOK, swVars, WriterOK
<1>2. peerClosed /\ CloseSent
  BY <1>1, ZenonT(30) DEF CleanEnd, CloseQueued, NoMsg
<1>3. EndsTogether'
  <2>1. /\ peer_close' \in BOOLEAN /\ writer' \in {"polling", "writing", "closing", "ended"}
        /\ UNCHANGED <<queue, buffered, writing, wire, closed, closeCode, handlers, closed_local,
                       reader, frag, phase, done, closeDeadline, streams, port,
                       peerClosed, asked, sends, frames>>
    BY <1>1, ZenonT(30)
  <2>2. TypeOK'
    BY <1>1, <2>1, SMTT(30), Z3T(30) DEF TypeOK
  <2> QED BY <1>1, <2>2, ZenonT(30) DEF EndsTogether
<1>4. PhaseOK'
  BY <1>1, ZenonT(30) DEF PhaseOK, Running
<1>5. WriterOK' /\ CloseIsLast' /\ CloseQueued'
  BY <1>1, ZenonT(30) DEF WriterOK, CloseIsLast, CloseQueued, CloseSent
<1>6. CleanEnd'
  BY <1>1, <1>2, ZenonT(30) DEF CleanEnd, CloseSent
<1> QED BY <1>3, <1>4, <1>5, <1>6, ZenonT(30)

\* The steps that end the connection.
LEMMA EndingStep ==
    ASSUME SocketInv,
           PortCloseInvalid \/ PortAbort \/ Deadline \/ ReadFails \/ WriteFails \/ TransportClosed
    PROVE  SocketInv'
<1> USE DEF SocketInv
<1>1. TypeOK /\ sends \in 0..MaxSends /\ sends <= sends /\ frames \in 0..MaxFrames /\ asked \in BOOLEAN
  BY BoundsAssumption, SMTT(30), Z3T(30) DEF EndsTogether, TypeOK
<1>2. Running => phase # "opening" /\ ~closed
  BY ZenonT(30) DEF Running, EndsTogether
<1>3. reader = "reading" \/ writer \in {"writing", "closing"} => phase # "opening" /\ ~closed
  BY ZenonT(30) DEF PhaseOK
<1>4. CASE PortCloseInvalid
  BY <1>1, <1>2, <1>4, SurfaceCloseStep, ZenonT(30) DEF PortCloseInvalid, fail_connection
<1>5. CASE PortAbort
  BY <1>1, <1>2, <1>5, SurfaceCloseStep, ZenonT(30) DEF PortAbort, abort, history
<1>6. CASE Deadline
  BY <1>1, <1>2, <1>6, SurfaceCloseStep, ZenonT(30) DEF Deadline, abort, history
<1>7. CASE ReadFails
  BY <1>1, <1>3, <1>7, SurfaceCloseStep, ZenonT(30) DEF ReadFails, fail_connection, history
<1>8. CASE WriteFails
  BY <1>1, <1>3, <1>8, SurfaceCloseStep, ZenonT(30) DEF WriteFails, fail_connection, history
<1>9. CASE TransportClosed
  BY <1>1, <1>3, <1>9, SurfaceCloseStep, ZenonT(30) DEF TransportClosed, history
<1> QED BY <1>4, <1>5, <1>6, <1>7, <1>8, <1>9, ZenonT(30)

\* A frame of data.
LEMMA ReaderStep ==
    ASSUME SocketInv, NEW fin \in BOOLEAN, DataFrame(fin) \/ Continuation(fin)
    PROVE  SocketInv'
<1>1. /\ TypeOK /\ reader = "reading" /\ ~closed /\ frames' \in 0..MaxFrames /\ phase # "opening"
      /\ sends \in 0..MaxSends /\ sends <= sends /\ asked \in BOOLEAN /\ frag \in BOOLEAN
      /\ UNCHANGED <<closed_local, peer_close, wire, peerClosed, asked, sends>>
  BY BoundsAssumption, SMTT(30), Z3T(30) DEF SocketInv, DataFrame, Continuation, Reads, EndsTogether, TypeOK, PhaseOK
<1>2. CASE fail_connection /\ UNCHANGED <<frag, phase>>
  BY <1>1, <1>2, SurfaceCloseStep, ZenonT(30) DEF fail_connection
<1>3. CASE deliver_message /\ frag' \in BOOLEAN
  BY <1>1, <1>3, DeliverStep, ZenonT(30)
<1>4. CASE ReaderKeeps /\ frag' \in BOOLEAN
  BY <1>1, <1>4, FragmentStep, ZenonT(30)
<1> QED BY <1>1, <1>2, <1>3, <1>4, ZenonT(30) DEF DataFrame, Continuation

\* No port, no task: the state openRuntimeStream starts in.
LEMMA SocketInitInv ==
    ASSUME Init
    PROVE  SocketInv
<1> USE DEF Init
<1>1. queue \in Seq(OutMsg) /\ port \in Seq(ToPage) /\ wire \in Seq(Ops)
  BY SMTT(30)
<1>2. buffered \in 0..(MaxSends * MaxLen) /\ sends \in 0..MaxSends /\ frames \in 0..MaxFrames
      /\ buffered <= sends * MaxLen
  BY BoundsAssumption, Products, SMTT(30)
<1>3. Len(queue) = 0 /\ Len(wire) = 0 /\ Len(port) = 0
  BY ZenonT(30)
<1>4. TypeOK
  BY <1>1, <1>2, ZenonT(30) DEF TypeOK
<1>5. EndsTogether /\ PhaseOK
  BY <1>4, ZenonT(30) DEF EndsTogether, PhaseOK, Running
<1>6. CloseIsLast /\ CloseQueued /\ CleanEnd
  BY <1>3, SMTT(30) DEF CloseIsLast, CloseQueued, CleanEnd, NoMsg
<1>7. WriterOK
  BY <1>2, ZenonT(30) DEF WriterOK
<1> QED BY <1>5, <1>6, <1>7, ZenonT(30) DEF SocketInv

\* Every step of the page, the peer, the tasks and the timer keeps it.
LEMMA SocketNextInv ==
    ASSUME SocketInv, [Next]_vars
    PROVE  SocketInv'
<1>1. CASE Next
  BY <1>1, OpenedStep, OpenFailsStep, SetupStep, SetupFailsStep, EndingStep, PortSendStep,
     PortCloseStep, PingStep, PeerCloseStep, ReaderStep, WriterTakesStep, WrittenStep,
     WriterEndsStep, ZenonT(30) DEF Next, WriterStep
<1>2. CASE UNCHANGED vars
  <2> USE <1>2 DEF vars, kernelVars, swVars, history
  <2>1. EndsTogether'
    BY SMTT(30), Z3T(30) DEF SocketInv, EndsTogether, TypeOK
  <2>2. PhaseOK' /\ WriterOK'
    BY ZenonT(30) DEF SocketInv, PhaseOK, Running, WriterOK
  <2>3. CloseIsLast' /\ CloseQueued' /\ CleanEnd'
    BY ZenonT(30) DEF SocketInv, CloseIsLast, CloseQueued, CleanEnd, CloseSent
  <2> QED BY <2>1, <2>2, <2>3, ZenonT(30) DEF SocketInv
<1> QED BY <1>1, <1>2, ZenonT(30)

-----------------------------------------------------------------------------
(* What the page relies on.                                                *)

\* For any payloads, sends and frames: a client set up for a page is closed
\* exactly when the page was told, nothing is left then, one Close at most is
\* written and nothing after it, and a clean close has both Close frames behind
\* it (surface_close, WriterPoll and reader_task of ws_client.rs).
THEOREM WorkerEnds == Spec => []WorkerEndCloses
<1>1. Init => SocketInv
  BY SocketInitInv, ZenonT(30)
<1>2. SocketInv /\ [Next]_vars => SocketInv'
  BY SocketNextInv, ZenonT(30)
<1>3. SocketInv => WorkerEndCloses
  BY ZenonT(30) DEF SocketInv, WorkerEndCloses
<1> QED BY <1>1, <1>2, <1>3, PTL DEF Spec

\* Closing is the end of the port's contract, or nothing the page sees.
LEMMA SurfacePort ==
    ASSUME SocketInv, NEW before \in {<< >>, <<"error">>}, NEW code \in {"clean", "abnormal"},
           before = <<"error">> => code = "abnormal", surface_close(before, code)
    PROVE  Port!End \/ UNCHANGED <<port, done>>
<1>1. CASE handlers
  <2>1. done' = TRUE /\ port' = port \o before \o <<code>>
    BY <1>1, ZenonT(30) DEF surface_close, finish
  <2>2. ~done /\ port \in Seq(ToPage)
    BY <1>1, ZenonT(30) DEF SocketInv, PhaseOK, Running, EndsTogether, TypeOK
  <2>3. /\ before = << >> => port' = Append(port, code)
        /\ before = <<"error">> => port' = port \o <<"error", code>>
    BY <2>1, <2>2, PortEnds, ZenonT(30)
  <2>4. (\E last \in {"clean", "abnormal"} : port' = Append(port, last))
        \/ port' = port \o <<"error", "abnormal">>
    BY <2>3, ZenonT(30)
  <2> QED BY <2>1, <2>2, <2>4, ZenonT(30) DEF Port!End
<1>2. CASE ~handlers
  BY <1>2, ZenonT(30) DEF surface_close
<1> QED BY <1>1, <1>2, ZenonT(30)

\* A delivered message is one of the contract's.
LEMMA DeliverPort ==
    ASSUME SocketInv, deliver_message
    PROVE  Port!Post \/ UNCHANGED <<port, done>>
<1>1. CASE handlers
  <2>1. ~done
    BY <1>1, ZenonT(30) DEF SocketInv, PhaseOK, Running
  <2> QED BY <1>1, <2>1, ZenonT(30) DEF deliver_message, Port!Post
<1>2. CASE ~handlers
  BY <1>2, ZenonT(30) DEF deliver_message
<1> QED BY <1>1, <1>2, ZenonT(30)

\* Setting up, or failing to, ends the contract or leaves it alone.
LEMMA SetupPort ==
    ASSUME SocketInv, Opened \/ OpenFails \/ Setup \/ SetupFails
    PROVE  Port!End \/ Port!RefuseOpen \/ UNCHANGED <<port, done>>
<1>1. phase \in {"opening", "opened"} => ~done /\ port = << >> /\ port \in Seq(ToPage)
  BY ZenonT(30) DEF SocketInv, PhaseOK, EndsTogether, TypeOK
<1>2. closeCode \in {"clean", "abnormal"}
  BY ZenonT(30) DEF SocketInv, EndsTogether, TypeOK
<1>3. CASE Opened
  BY <1>3, ZenonT(30) DEF Opened
<1>4. CASE OpenFails
  BY <1>1, <1>4, ZenonT(30) DEF OpenFails, Port!RefuseOpen
<1>5. CASE Setup
  <2>1. CASE closed
    <3>1. done' = TRUE /\ port' = port \o << >> \o <<closeCode>> /\ phase = "opened"
      BY <1>5, <2>1, ZenonT(30) DEF Setup, finish
    <3>2. port' = Append(port, closeCode)
      BY <1>1, <1>2, <3>1, PortEnds, ZenonT(30)
    <3> QED BY <1>1, <1>2, <3>1, <3>2, ZenonT(30) DEF Port!End
  <2>2. CASE ~closed
    BY <1>5, <2>2, ZenonT(30) DEF Setup
  <2> QED BY <2>1, <2>2, ZenonT(30)
<1>6. CASE SetupFails
  <2>1. done' = TRUE /\ phase = "opened" /\ closeCode' \in {"clean", "abnormal"}
        /\ (port' = port \/ port' = Append(port, closeCode'))
    BY <1>2, <1>6, ZenonT(30) DEF SetupFails
  <2> QED BY <1>1, <2>1, ZenonT(30) DEF Port!End, Port!RefuseOpen
<1> QED BY <1>3, <1>4, <1>5, <1>6, ZenonT(30)

\* The other steps leave the port alone.
LEMMA QuietPort ==
    ASSUME NEW n, PortClose(n) \/ Ping(n) \/ PeerClose(n) \/ WriterTakes \/ Written \/ WriterEnds
    PROVE  UNCHANGED <<port, done>>
  BY ZenonT(30) DEF PortClose, Ping, PeerClose, WriterTakes, Written, WriterEnds, WriterKeeps, swVars

\* Every step of the worker's end is a step of the contract, or none.
LEMMA PortStep ==
    ASSUME SocketInv, [Next]_vars
    PROVE  [Port!Next]_<<port, done>>
<1> USE DEF Port!Next
<1>1. CASE Opened \/ OpenFails \/ Setup \/ SetupFails
  BY <1>1, SetupPort, ZenonT(30)
<1>2. CASE PortCloseInvalid \/ PortAbort \/ Deadline \/ ReadFails \/ WriteFails \/ TransportClosed
  BY <1>2, SurfacePort, ZenonT(30) DEF PortCloseInvalid, PortAbort, Deadline, ReadFails, WriteFails,
                           TransportClosed, fail_connection, abort
<1>3. ASSUME NEW n \in 0..MaxLen, PortSend(n) PROVE [Port!Next]_<<port, done>>
  <2>1. CASE UNCHANGED swVars
    BY <2>1, ZenonT(30) DEF swVars
  <2>2. CASE abort(<<"error">>)
    BY <2>2, SurfacePort, ZenonT(30) DEF abort
  <2> QED BY <1>3, <2>1, <2>2, ZenonT(30) DEF PortSend
<1>4. ASSUME NEW n \in 0..MaxLen, PortClose(n) \/ Ping(n) \/ PeerClose(n)
      PROVE  [Port!Next]_<<port, done>>
  BY <1>4, QuietPort, ZenonT(30)
<1>5. ASSUME NEW fin \in BOOLEAN, DataFrame(fin) \/ Continuation(fin)
      PROVE  [Port!Next]_<<port, done>>
  <2>1. CASE fail_connection
    BY <2>1, SurfacePort, ZenonT(30) DEF fail_connection
  <2>2. CASE deliver_message
    BY <2>2, DeliverPort, ZenonT(30)
  <2>3. CASE ReaderKeeps
    BY <2>3, ZenonT(30) DEF ReaderKeeps, swVars
  <2> QED BY <1>5, <2>1, <2>2, <2>3, ZenonT(30) DEF DataFrame, Continuation
<1>6. CASE WriterTakes \/ Written \/ WriterEnds
  BY <1>6, QuietPort, ZenonT(30)
<1>7. CASE UNCHANGED vars
  BY <1>7, ZenonT(30) DEF vars, swVars
<1> QED BY <1>1, <1>2, <1>3, <1>4, <1>5, <1>6, <1>7, ZenonT(30) DEF Next, WriterStep

\* The worker's end implements StreamPort: whatever the peer, the page, the
\* deadline and the transport do, the page gets messages, perhaps an error, one
\* close, and nothing after it.
THEOREM PortKept == Spec => PortContract
<1>1. Init => SocketInv
  BY SocketInitInv, ZenonT(30)
<1>2. SocketInv /\ [Next]_vars => SocketInv'
  BY SocketNextInv, ZenonT(30)
<1>3. Init => Port!Init
  BY ZenonT(30) DEF Init, Port!Init
<1>4. SocketInv /\ [Next]_vars => [Port!Next]_<<port, done>>
  BY PortStep, ZenonT(30)
<1> QED BY <1>1, <1>2, <1>3, <1>4, PTL DEF Spec, PortContract, Port!Spec

-----------------------------------------------------------------------------
(* The page's end.                                                         *)

\* Where x stands in s.
Places(s, x) == {i \in 1..Len(s) : s[i] = x}

\* Count is the number of those places.
LEMMA CountPlaces ==
    ASSUME NEW S, NEW s \in Seq(S), NEW x
    PROVE  /\ P!Count(s, x) = Cardinality(Places(s, x))
           /\ IsFiniteSet(Places(s, x)) /\ P!Count(s, x) \in Nat
<1>1. P!Count(s, x) = Cardinality(Places(s, x))
  BY ZenonT(30) DEF P!Count, Places, P!Cardinality, Cardinality
<1>2. IsFiniteSet(1..Len(s))
  BY FS_Interval, SMTT(30)
<1>3. Places(s, x) \in SUBSET (1..Len(s))
  BY ZenonT(30) DEF Places
<1> QED BY <1>1, <1>2, <1>3, FS_Subset, FS_CardinalityType, ZenonT(30)

\* One more element counts once.
LEMMA CountAppend ==
    ASSUME NEW S, NEW s \in Seq(S), NEW e \in S, NEW x
    PROVE  P!Count(Append(s, e), x) = P!Count(s, x) + IF e = x THEN 1 ELSE 0
<1>1. Places(Append(s, e), x) = IF e = x THEN Places(s, x) \cup {Len(s) + 1} ELSE Places(s, x)
  BY SMTT(30), Z3T(30) DEF Places
<1>2. Len(s) + 1 \notin Places(s, x)
  BY SMTT(30) DEF Places
<1>3. Append(s, e) \in Seq(S)
  BY SMTT(30)
<1>4. /\ P!Count(Append(s, e), x) = Cardinality(Places(Append(s, e), x))
      /\ P!Count(s, x) = Cardinality(Places(s, x))
      /\ IsFiniteSet(Places(s, x)) /\ P!Count(s, x) \in Nat
  BY <1>3, CountPlaces, ZenonT(30)
<1>5. Cardinality(Places(s, x) \cup {Len(s) + 1}) = Cardinality(Places(s, x)) + 1
  BY <1>2, <1>4, FS_AddElement, ZenonT(30)
<1> QED BY <1>1, <1>4, <1>5, SMTT(30)

\* The first element taken away counted once.
LEMMA CountTail ==
    ASSUME NEW S, NEW s \in Seq(S), s # << >>, NEW x
    PROVE  P!Count(Tail(s), x) = P!Count(s, x) - IF Head(s) = x THEN 1 ELSE 0
<1> DEFINE R == Places(s, x) \ {1}
           f == [i \in Places(Tail(s), x) |-> i + 1]
<1>1. Tail(s) \in Seq(S) /\ Len(Tail(s)) = Len(s) - 1 /\ Head(s) = s[1] /\ Len(s) \in Nat \ {0}
      /\ \A i \in 1..(Len(s) - 1) : Tail(s)[i] = s[i + 1]
  BY SMTT(30)
<1>2. f \in Bijection(Places(Tail(s), x), R)
  <2>1. f \in [Places(Tail(s), x) -> R]
    BY <1>1, SMTT(30) DEF Places
  <2>2. \A i, k \in Places(Tail(s), x) : f[i] = f[k] => i = k
    BY <1>1, SMTT(30) DEF Places
  <2>3. ASSUME NEW k \in R PROVE \E i \in Places(Tail(s), x) : f[i] = k
    <3>1. k - 1 \in Places(Tail(s), x)
      BY <1>1, SMTT(30) DEF Places
    <3>2. f[k - 1] = k
      BY <3>1, SMTT(30) DEF Places
    <3> QED BY <3>1, <3>2, ZenonT(30)
  <2> HIDE DEF f, R
  <2> QED BY <2>1, <2>2, <2>3, ZenonT(30) DEF Bijection, Injection, Surjection, IsInjective
<1>3. IsFiniteSet(Places(Tail(s), x))
  BY <1>1, CountPlaces, ZenonT(30)
<1>4. Cardinality(R) = Cardinality(Places(Tail(s), x))
  BY <1>2, <1>3, FS_Bijection, ZenonT(30) DEF ExistsBijection
<1>5. Cardinality(R) = Cardinality(Places(s, x)) - IF s[1] = x THEN 1 ELSE 0
  <2>1. 1 \in Places(s, x) <=> s[1] = x
    BY <1>1, SMTT(30) DEF Places
  <2>2. IsFiniteSet(Places(s, x)) /\ Cardinality(Places(s, x)) \in Nat
    BY CountPlaces, ZenonT(30)
  <2>3. Cardinality(R) = IF 1 \in Places(s, x) THEN Cardinality(Places(s, x)) - 1
                         ELSE Cardinality(Places(s, x))
    BY <2>2, FS_RemoveElement, ZenonT(30)
  <2> HIDE DEF R
  <2> QED BY <2>1, <2>2, <2>3, SMTT(30)
<1> QED BY <1>1, <1>4, <1>5, CountPlaces, ZenonT(30)

\* Once attached: an open, and a message for each that was received.
Streaming ==
    /\ ~_closed /\ reply = "handled" /\ Len(events) = got + 1 /\ events[1] = "open"
    /\ \A i \in 2..Len(events) : events[i] = "message"
    /\ \A i \in 1..got : posted[i] = "message"

\* Once closed: the close is the last event, an error stands in front of it.
Finished ==
    /\ ~attached /\ events # << >> /\ events[Len(events)] = "close"
    /\ \A i \in 1..(Len(events) - 1) :
           /\ events[i] # "close" /\ (events[i] = "open" => i = 1)
           /\ events[i] = "error" => i = Len(events) - 1
           /\ events[i] = "message" => i # 1 /\ events[1] = "open"

\* What was dispatched when the worker's clean close was received.
Drained ==
    got > 0 /\ posted[got] = "clean" =>
        /\ _closed /\ Len(events) = got + 1 /\ events[1] = "open"
        /\ \A i \in 2..got : events[i] = "message"
        /\ \A i \in 1..(got - 1) : posted[i] = "message"

\* Every send call is in one place at most: a Blob that is being read, on its
\* way to the worker, in the kernel.
Budget ==
    /\ IsFiniteSet(blobs) /\ blobs \subseteq 1..calls
    /\ Cardinality(blobs) <= bufferedAmount /\ bufferedAmount <= calls
    /\ Cardinality(blobs) + kernel + P!Count(up, "send") <= calls

\* The events and the state they belong to.
Shape ==
    /\ _closed <=> readyState = "CLOSED"
    /\ readyState = "OPEN" => attached
    /\ _closeGuard # "none" => readyState = "CLOSING"
    /\ reply # "handled" => got = 0 /\ ~attached
    /\ attached => Streaming
    /\ _closed => Finished
    /\ ~_closed /\ ~attached => events = << >>
    /\ Drained

\* The stream behind the socket.
Behind ==
    /\ reply = "error" => ended
    /\ \A i \in 1..Len(posted) : posted[i] # "message" => ended
    /\ reply = "handled" /\ ~attached /\ ~ended => \E i \in 1..Len(up) : up[i] = "abort"

\* The inductive invariant of the page's end.
PageInv == P!TypeOK /\ Budget /\ Shape /\ Behind

\* The invariant says what EventOrder says.
LEMMA PageInvImplies == PageInv => EventOrder
<1> SUFFICES ASSUME PageInv PROVE EventOrder
  BY ZenonT(30)
<1>1. events \in Seq({"open", "message", "error", "close"}) /\ Len(events) \in Nat
      /\ posted \in Seq({"message", "error", "clean", "abnormal"}) /\ got \in 0..Len(posted)
  BY SMTT(30), Z3T(30) DEF PageInv, P!TypeOK
<1>2. \/ events = << >> /\ ~_closed /\ ~attached
      \/ attached /\ Streaming
      \/ _closed /\ Finished
  BY ZenonT(30) DEF PageInv, Shape
<1>3. ASSUME NEW i \in 1..Len(events)
      PROVE  /\ events[i] = "open" => i = 1
             /\ events[i] = "close" => i = Len(events) /\ _closed
             /\ events[i] = "error" => i = Len(events) - 1
             /\ events[i] = "message" => i # 1 /\ events[1] = "open"
  <2>1. CASE attached /\ Streaming
    BY <1>1, <2>1, SMTT(30), Z3T(30) DEF Streaming
  <2>2. CASE _closed /\ Finished
    BY <1>1, <2>2, SMTT(30), Z3T(30) DEF Finished
  <2> QED BY <1>1, <1>2, <2>1, <2>2, SMTT(30)
<1>4. ASSUME NEW x, NEW n, \A i \in 1..Len(events) : events[i] = x => i = n
      PROVE  P!Count(events, x) <= 1
  <2>1. Places(events, x) \in SUBSET {n}
    BY <1>4, ZenonT(30) DEF Places
  <2>2. Cardinality(Places(events, x)) <= 1
    <3>1. IsFiniteSet({n}) /\ Cardinality({n}) = 1
      BY FS_Singleton, ZenonT(30)
    <3>2. Cardinality(Places(events, x)) <= Cardinality({n})
      BY <2>1, <3>1, FS_Subset, ZenonT(30)
    <3> QED BY <3>1, <3>2, ZenonT(30)
  <2> QED BY <1>1, <2>2, CountPlaces, ZenonT(30)
<1>5. P!Count(events, "open") <= 1 /\ P!Count(events, "close") <= 1 /\ P!Count(events, "error") <= 1
  <2>1. P!Count(events, "open") <= 1
    BY <1>3, <1>4, ZenonT(30)
  <2>2. P!Count(events, "close") <= 1
    <3>1. \A i \in 1..Len(events) : events[i] = "close" => i = Len(events)
      BY <1>3, ZenonT(30)
    <3> QED BY <1>4, <3>1, ZenonT(30)
  <2>3. P!Count(events, "error") <= 1
    BY <1>3, <1>4, ZenonT(30)
  <2> QED BY <2>1, <2>2, <2>3, ZenonT(30)
<1>6. (readyState = "CLOSED") = (P!Count(events, "close") = 1)
  <2>1. CASE _closed
    <3>1. Places(events, "close") = {Len(events)}
      BY <1>1, <1>2, <1>3, <2>1, SMTT(30), Z3T(30) DEF Places, Finished, Streaming
    <3>2. P!Count(events, "close") = 1
      <4>1. Cardinality({Len(events)}) = 1
        BY FS_Singleton, ZenonT(30)
      <4> QED BY <1>1, <3>1, <4>1, CountPlaces, ZenonT(30)
    <3> QED BY <2>1, <3>2, ZenonT(30) DEF PageInv, Shape
  <2>2. CASE ~_closed
    <3>1. Places(events, "close") = {}
      BY <1>3, <2>2, ZenonT(30) DEF Places
    <3>2. P!Count(events, "close") = 0
      BY <1>1, <3>1, CountPlaces, FS_EmptySet, ZenonT(30)
    <3> QED BY <2>2, <3>2, SMTT(30) DEF PageInv, Shape
  <2> QED BY <2>1, <2>2, ZenonT(30)
<1>7. ASSUME got = Len(posted), got > 0, posted[got] = "clean"
      PROVE  P!Count(events, "message") = P!Count(posted, "message")
  <2>1. /\ _closed /\ Len(events) = got + 1 /\ events[1] = "open"
        /\ \A i \in 2..got : events[i] = "message"
        /\ \A i \in 1..(got - 1) : posted[i] = "message"
    BY <1>7, ZenonT(30) DEF PageInv, Shape, Drained
  <2>2. events[got + 1] = "close"
    BY <1>2, <2>1, ZenonT(30) DEF Finished, Streaming
  <2>3. Places(events, "message") = 2..got
    BY <1>1, <2>1, <2>2, SMTT(30) DEF Places
  <2>4. Places(posted, "message") = 1..(got - 1)
    BY <1>1, <1>7, <2>1, SMTT(30) DEF Places
  <2>5. Cardinality(2..got) = got - 1 /\ Cardinality(1..(got - 1)) = got - 1
    <3>1. got \in Int /\ got - 1 \in Int /\ 1 \in Int /\ 2 \in Int /\ got >= 1
      BY <1>1, <1>7, SMTT(30)
    <3>2. Cardinality(2..got) = IF 2 > got THEN 0 ELSE got - 2 + 1
      BY <3>1, FS_Interval, ZenonT(30)
    <3>3. Cardinality(1..(got - 1)) = IF 1 > got - 1 THEN 0 ELSE (got - 1) - 1 + 1
      BY <3>1, FS_Interval, ZenonT(30)
    <3> QED BY <3>1, <3>2, <3>3, SMTT(30)
  <2> QED BY <1>1, <2>3, <2>4, <2>5, CountPlaces, ZenonT(30)
<1>8. \A i \in 1..Len(events) : events[i] = "message" => \E j \in 1..(i - 1) : events[j] = "open"
  <2> SUFFICES ASSUME NEW i \in 1..Len(events), events[i] = "message"
               PROVE  \E j \in 1..(i - 1) : events[j] = "open"
    BY ZenonT(30)
  <2>1. 1 \in 1..(i - 1) /\ events[1] = "open"
    BY <1>1, <1>3, SMTT(30)
  <2> QED BY <2>1, ZenonT(30)
<1>9. readyState = "OPEN" => events # << >>
  BY <1>1, SMTT(30), Z3T(30) DEF PageInv, Shape, Streaming, P!TypeOK
<1>10. _closed /\ reply = "handled" /\ ~ended => \E i \in 1..Len(up) : up[i] = "abort"
  BY ZenonT(30) DEF PageInv, Behind, Shape, Finished
<1> QED BY <1>3, <1>5, <1>6, <1>7, <1>8, <1>9, <1>10, ZenonT(30) DEF EventOrder, P!EventOrder, PageInv

-----------------------------------------------------------------------------

\* finish, after an error or not: the events end with the close.
LEMMA FinishShape ==
    ASSUME PageInv, ~_closed, NEW before \in {<< >>, <<"error">>}, P!finish(before),
           reply' \in {reply, "handled"}, posted' = posted,
           \/ got' = got
           \/ got' = got + 1 /\ attached /\ (posted[got'] = "clean" => before = << >>)
    PROVE  Shape' /\ events' \in Seq({"open", "message", "error", "close"})
<1>1. events \in Seq({"open", "message", "error", "close"}) /\ Len(events) \in Nat /\ got \in Nat
  BY SMTT(30), Z3T(30) DEF PageInv, P!TypeOK
<1>2. /\ _closed' = TRUE /\ readyState' = "CLOSED" /\ _closeGuard' = "none" /\ attached' = FALSE
      /\ events' = events \o before \o <<"close">>
  BY ZenonT(30) DEF P!finish
<1>3. \/ events = << >> /\ ~attached
      \/ attached /\ Streaming
  BY ZenonT(30) DEF PageInv, Shape
<1>4. events' \in Seq({"open", "message", "error", "close"})
  <2>1. CASE before = << >>
    BY <1>1, <1>2, <2>1, SMTT(30), Z3T(30)
  <2>2. CASE before = <<"error">>
    BY <1>1, <1>2, <2>2, SMTT(30)
  <2> QED BY <2>1, <2>2, ZenonT(30)
<1>5. /\ events'[Len(events')] = "close"
      /\ \A i \in 1..Len(events) : events'[i] = events[i]
      /\ \/ before = << >> /\ Len(events') = Len(events) + 1
         \/ /\ before = <<"error">> /\ Len(events') = Len(events) + 2
            /\ events'[Len(events) + 1] = "error"
  <2>1. CASE before = << >>
    <3>1. events' = Append(events, "close")
      BY <1>1, <1>2, <2>1, SMTT(30)
    <3> QED BY <1>1, <2>1, <3>1, SMTT(30), Z3T(30)
  <2>2. CASE before = <<"error">>
    <3>1. events' = Append(Append(events, "error"), "close")
      BY <1>1, <1>2, <2>2, SMTT(30), Z3T(30)
    <3> QED BY <1>1, <2>2, <3>1, SMTT(30), Z3T(30)
  <2> QED BY <2>1, <2>2, ZenonT(30)
<1>6. Finished'
  <2>1. ASSUME NEW i \in 1..(Len(events') - 1)
        PROVE  /\ events'[i] # "close" /\ (events'[i] = "open" => i = 1)
               /\ events'[i] = "error" => i = Len(events') - 1
               /\ events'[i] = "message" => i # 1 /\ events'[1] = "open"
    <3>1. \/ i \in 1..Len(events)
          \/ Len(events') = Len(events) + 2 /\ i = Len(events) + 1
      <4>1. Len(events') = Len(events) + 1 \/ Len(events') = Len(events) + 2
        BY <1>5, ZenonT(30)
      <4>2. Len(events) \in Nat
        BY <1>1, ZenonT(30)
      <4> QED BY <4>1, <4>2, SMTT(30)
    <3>2. CASE i \in 1..Len(events)
      <4>1. events'[i] = events[i] /\ events'[1] = events[1] /\ Len(events) >= 1
        BY <1>1, <1>5, <3>2, SMTT(30)
      <4>2. Streaming
        BY <1>3, <4>1, <1>1, SMTT(30)
      <4> QED BY <1>1, <3>2, <4>1, <4>2, SMTT(30) DEF Streaming
    <3>3. CASE Len(events') = Len(events) + 2 /\ i = Len(events) + 1
      BY <1>1, <1>5, <3>3, SMTT(30)
    <3> QED BY <3>1, <3>2, <3>3, ZenonT(30)
  <2>2. events' # << >>
    BY <1>1, <1>5, SMTT(30)
  <2> QED BY <1>2, <1>5, <2>1, <2>2, ZenonT(30) DEF Finished
<1>7. Drained'
  <2>1. CASE got' = got
    <3>1. ~(got > 0 /\ posted[got] = "clean")
      BY ZenonT(30) DEF PageInv, Shape, Drained
    <3> QED BY <2>1, <3>1, ZenonT(30) DEF Drained
  <2>2. ASSUME got' = got + 1, attached, posted[got'] = "clean"
        PROVE  Drained'
    <3>1. Streaming /\ before = << >>
      BY <1>1, <1>3, <2>2, SMTT(30)
    <3>2. Len(events') = got' + 1 /\ events'[1] = "open"
      BY <1>1, <1>5, <2>2, <3>1, SMTT(30), Z3T(30) DEF Streaming
    <3>3. \A i \in 2..got' : events'[i] = "message"
      BY <1>1, <1>5, <2>2, <3>1, SMTT(30), Z3T(30) DEF Streaming
    <3>4. \A i \in 1..(got' - 1) : posted'[i] = "message"
      BY <1>1, <2>2, <3>1, SMTT(30) DEF Streaming
    <3> QED BY <1>2, <3>2, <3>3, <3>4, ZenonT(30) DEF Drained
  <2> QED BY <2>1, <2>2, ZenonT(30) DEF Drained
<1>8. reply' # "handled" => got' = 0
  BY ZenonT(30) DEF PageInv, Shape, Streaming
<1> QED BY <1>2, <1>4, <1>6, <1>7, <1>8, ZenonT(30) DEF Shape

\* fail leaves a closed socket alone and finishes any other with an error.
LEMMA FailShape ==
    ASSUME PageInv, P!fail, reply' \in {reply, "handled"}, posted' = posted,
           \/ got' = got
           \/ got' = got + 1 /\ attached /\ posted[got'] # "clean"
    PROVE  /\ Shape' /\ events' \in Seq({"open", "message", "error", "close"})
           /\ attached' = FALSE /\ _closed' = TRUE
           /\ up' = IF attached THEN Append(up, "abort") ELSE up
<1>1. CASE _closed
  <2>1. ~attached /\ got' = got /\ events \in Seq({"open", "message", "error", "close"})
    BY <1>1, ZenonT(30) DEF PageInv, Shape, Finished, P!TypeOK
  <2>2. UNCHANGED <<_closed, readyState, _closeGuard, attached, events, up>>
    BY <1>1, ZenonT(30) DEF P!fail
  <2>3. Finished' /\ Drained'
    BY <1>1, <2>1, <2>2, ZenonT(30) DEF PageInv, Shape, Finished, Drained
  <2> QED BY <1>1, <2>1, <2>2, <2>3, SMTT(30), Z3T(30) DEF PageInv, Shape
<1>2. CASE ~_closed
  <2>1. P!abort /\ P!finish(<<"error">>)
    BY <1>2, ZenonT(30) DEF P!fail
  <2> QED BY <1>2, <2>1, FinishShape, ZenonT(30) DEF P!abort, P!finish
<1> QED BY <1>1, <1>2, ZenonT(30)

\* A message to the worker: which sends and aborts are on their way.
LEMMA UpAppend ==
    ASSUME PageInv, NEW m \in {"send", "close", "abort"}, up' = Append(up, m)
    PROVE  /\ up' \in Seq({"send", "close", "abort"})
           /\ P!Count(up', "send") = P!Count(up, "send") + IF m = "send" THEN 1 ELSE 0
           /\ P!Count(up, "send") \in Nat
           /\ (\E i \in 1..Len(up) : up[i] = "abort") => \E i \in 1..Len(up') : up'[i] = "abort"
           /\ m = "abort" => \E i \in 1..Len(up') : up'[i] = "abort"
<1>1. up \in Seq({"send", "close", "abort"})
  BY ZenonT(30) DEF PageInv, P!TypeOK
<1>2. Len(up') = Len(up) + 1 /\ up'[Len(up) + 1] = m /\ \A i \in 1..Len(up) : up'[i] = up[i]
  BY <1>1, SMTT(30)
<1>3. Len(up) \in Nat /\ up' \in Seq({"send", "close", "abort"})
  BY <1>1, SMTT(30)
<1> QED BY <1>1, <1>2, <1>3, CountAppend, CountPlaces, SMTT(30), Z3T(30)

\* Steps that leave the page's own state alone, but for the messages to the
\* worker and the sends it counts.
LEMMA ShapeKept ==
    ASSUME Shape, UNCHANGED <<_closed, readyState, _closeGuard, attached, events, got, posted, reply>>
    PROVE  Shape'
<1>1. (Streaming <=> Streaming') /\ (Finished <=> Finished') /\ (Drained <=> Drained')
  BY ZenonT(30) DEF Streaming, Finished, Drained
<1> QED BY <1>1, ZenonT(30) DEF Shape

\* The worker posts, or ends the stream: what was posted stays.
LEMMA PortGrows ==
    ASSUME PageInv, P!SW!Post \/ P!SW!End
    PROVE  /\ posted' \in Seq({"message", "error", "clean", "abnormal"})
           /\ ended' \in BOOLEAN /\ (ended => ended')
           /\ Len(posted') \in Nat /\ Len(posted) \in Nat /\ Len(posted) <= Len(posted')
           /\ \A i \in 1..Len(posted) : posted'[i] = posted[i]
           /\ \A i \in 1..Len(posted') : posted'[i] # "message" => ended'
<1>1. posted \in Seq({"message", "error", "clean", "abnormal"}) /\ ended \in BOOLEAN
  BY ZenonT(30) DEF PageInv, P!TypeOK
<1>2. \A i \in 1..Len(posted) : posted[i] # "message" => ended
  BY ZenonT(30) DEF PageInv, Behind
<1>3. CASE P!SW!Post
  BY <1>1, <1>2, <1>3, SMTT(30), Z3T(30) DEF P!SW!Post
<1>4. CASE P!SW!End
  <2>1. ended' = TRUE /\ ~ended
    BY <1>4, ZenonT(30) DEF P!SW!End
  <2>2. CASE posted' = posted \o <<"error", "abnormal">>
    BY <1>1, <2>1, <2>2, SMTT(30), Z3T(30)
  <2>3. ASSUME NEW last \in {"clean", "abnormal"}, posted' = Append(posted, last)
        PROVE  /\ posted' \in Seq({"message", "error", "clean", "abnormal"})
               /\ Len(posted') \in Nat /\ Len(posted) \in Nat /\ Len(posted) <= Len(posted')
               /\ \A i \in 1..Len(posted) : posted'[i] = posted[i]
    BY <1>1, <2>3, SMTT(30), Z3T(30)
  <2> QED BY <1>4, <2>1, <2>2, <2>3, ZenonT(30) DEF P!SW!End
<1> QED BY <1>3, <1>4, ZenonT(30)

\* ... and so does the shape of the events.
LEMMA GrowsShape ==
    ASSUME PageInv, P!SW!Post \/ P!SW!End,
           UNCHANGED <<_closed, readyState, _closeGuard, attached, events, got, reply>>
    PROVE  Shape'
<1>1. got \in 0..Len(posted)
  BY ZenonT(30) DEF PageInv, P!TypeOK
<1>2. (got > 0 => posted'[got] = posted[got]) /\ \A i \in 1..got : posted'[i] = posted[i]
  BY <1>1, PortGrows, SMTT(30), Z3T(30)
<1>3. (Streaming => Streaming') /\ (Finished => Finished')
  BY <1>2, ZenonT(30) DEF Streaming, Finished
<1>4. Drained'
  BY <1>1, <1>2, SMTT(30), Z3T(30) DEF Drained, PageInv, Shape
<1> QED BY <1>3, <1>4, ZenonT(30) DEF PageInv, Shape

\* A step changes the numbers of sends only as Budget allows: none is made up.
LEMMA BudgetKept ==
    ASSUME PageInv, UNCHANGED <<blobs, calls, bufferedAmount>>, kernel' \in Nat,
           P!Count(up', "send") \in Nat,
           kernel' + P!Count(up', "send") <= kernel + P!Count(up, "send")
    PROVE  Budget' /\ kernel' \in 0..PageSends
<1>1. /\ Cardinality(blobs) \in Nat /\ P!Count(up, "send") \in Nat /\ kernel \in Nat
      /\ calls \in 0..PageSends
  BY FS_CardinalityType, CountPlaces, SMTT(30), Z3T(30) DEF PageInv, Budget, P!TypeOK
<1>2. Cardinality(blobs) + kernel + P!Count(up, "send") <= calls
  BY ZenonT(30) DEF PageInv, Budget
<1>3. Cardinality(blobs) + kernel' + P!Count(up', "send") <= calls /\ kernel' <= calls
  BY <1>1, <1>2, SMTT(30), Z3T(30)
<1> QED BY <1>1, <1>3, PageAssumption, SMTT(30), Z3T(30) DEF PageInv, Budget

-----------------------------------------------------------------------------

\* The answer to WS_OPEN, sent and received.
LEMMA ReplyStep ==
    ASSUME PageInv, P!SwOpens \/ P!SwRefuses \/ P!OpenReply
    PROVE  PageInv'
<1>1. CASE P!SwOpens \/ P!SwRefuses
  <2>1. /\ UNCHANGED <<readyState, _closed, attached, _closeGuard, bufferedAmount, blobs, calls,
                       posted, got, up, kernel, events>>
        /\ reply = "pending" /\ reply' \in {"stream", "error"}
        /\ ended' \in BOOLEAN /\ (reply' = "error" => ended') /\ (ended => ended')
    BY <1>1, ZenonT(30) DEF P!SwOpens, P!SwRefuses, P!SW!RefuseOpen, P!swVars, PageInv, P!TypeOK
  <2>2. P!TypeOK' /\ Budget'
    BY <2>1, ZenonT(30) DEF PageInv, P!TypeOK, Budget
  <2>3. Shape'
    <3>1. (Finished => Finished') /\ Drained' /\ ~attached /\ got = 0
      BY <2>1, ZenonT(30) DEF PageInv, Shape, Finished, Drained
    <3> QED BY <2>1, <3>1, ZenonT(30) DEF PageInv, Shape
  <2>4. Behind'
    BY <2>1, ZenonT(30) DEF PageInv, Behind
  <2> QED BY <2>2, <2>3, <2>4, ZenonT(30) DEF PageInv
<1>2. CASE P!OpenReply
  <2>1. /\ UNCHANGED <<_closed, _closeGuard, bufferedAmount, blobs, calls, posted, ended, got, kernel>>
        /\ reply = "stream" /\ reply' = "handled" /\ ~attached /\ got = 0
    BY <1>2, ZenonT(30) DEF P!OpenReply, P!swVars, PageInv, Shape
  <2>2. CASE _closed \/ readyState = "CLOSING"
    <3>1. up' = Append(up, "abort") /\ UNCHANGED <<attached, readyState, events>>
      BY <1>2, <2>2, ZenonT(30) DEF P!OpenReply
    <3>2. P!TypeOK'
      BY <2>1, <3>1, UpAppend, ZenonT(30) DEF PageInv, P!TypeOK
    <3>3. Budget'
      BY <2>1, <3>1, UpAppend, BudgetKept, SMTT(30), Z3T(30) DEF PageInv, P!TypeOK
    <3>4. Shape'
      <4>1. (Finished => Finished') /\ Drained'
        BY <2>1, <3>1, ZenonT(30) DEF PageInv, Shape, Finished, Drained
      <4> QED BY <2>1, <3>1, <4>1, ZenonT(30) DEF PageInv, Shape
    <3>5. Behind'
      BY <2>1, <3>1, UpAppend, ZenonT(30) DEF PageInv, Behind
    <3> QED BY <3>2, <3>3, <3>4, <3>5, ZenonT(30) DEF PageInv
  <2>3. CASE ~(_closed \/ readyState = "CLOSING")
    <3>1. /\ attached' = TRUE /\ readyState' = "OPEN" /\ events' = Append(events, "open")
          /\ up' = up
      BY <1>2, <2>3, ZenonT(30) DEF P!OpenReply
    <3>2. events = << >> /\ readyState # "CLOSED" /\ _closeGuard = "none"
      BY <2>1, <2>3, ZenonT(30) DEF PageInv, Shape
    <3>3. events' = <<"open">> /\ Len(events') = 1 /\ events'[1] = "open"
          /\ events' \in Seq({"open", "message", "error", "close"})
      BY <3>1, <3>2, SMTT(30)
    <3>4. P!TypeOK' /\ Budget'
      BY <2>1, <3>1, <3>3, ZenonT(30) DEF PageInv, P!TypeOK, Budget
    <3>5. Streaming' /\ Drained'
      BY <2>1, <2>3, <3>3, SMTT(30) DEF Streaming, Drained
    <3>6. Shape'
      BY <2>1, <2>3, <3>1, <3>2, <3>5, ZenonT(30) DEF PageInv, Shape
    <3>7. Behind'
      BY <2>1, <3>1, ZenonT(30) DEF PageInv, Behind
    <3> QED BY <3>4, <3>6, <3>7, ZenonT(30) DEF PageInv
  <2> QED BY <2>2, <2>3, ZenonT(30)
<1> QED BY <1>1, <1>2, ZenonT(30)

\* The worker posts or ends the stream of its own accord, and the kernel drains.
LEMMA WorkerStep ==
    ASSUME PageInv, P!SwPosts \/ P!SwEnds \/ P!KernelDrains
    PROVE  PageInv'
<1>1. CASE P!KernelDrains
  <2>1. /\ UNCHANGED <<readyState, _closed, attached, _closeGuard, bufferedAmount, blobs, calls,
                       reply, posted, ended, got, up, events>>
        /\ kernel > 0 /\ kernel' = kernel - 1
    BY <1>1, ZenonT(30) DEF P!KernelDrains, P!swVars
  <2>2. P!Count(up, "send") \in Nat /\ kernel \in Nat
    BY CountPlaces, SMTT(30), Z3T(30) DEF PageInv, P!TypeOK
  <2>3. Budget' /\ kernel' \in 0..PageSends
    BY <2>1, <2>2, BudgetKept, SMTT(30), Z3T(30)
  <2>4. P!TypeOK' /\ Shape' /\ Behind'
    BY <2>1, <2>3, ShapeKept, ZenonT(30) DEF PageInv, P!TypeOK, Behind
  <2> QED BY <2>3, <2>4, ZenonT(30) DEF PageInv
<1>2. CASE P!SwPosts \/ P!SwEnds
  <2>1. /\ UNCHANGED <<readyState, _closed, attached, _closeGuard, bufferedAmount, blobs, calls,
                       reply, got, up, events>>
        /\ P!SW!Post \/ P!SW!End
        /\ reply \in {"stream", "handled"}
        /\ kernel' \in {kernel, 0}
    BY <1>2, ZenonT(30) DEF P!SwPosts, P!SwEnds
  <2>2. P!Count(up, "send") \in Nat /\ kernel \in Nat
    BY CountPlaces, SMTT(30) DEF PageInv, P!TypeOK
  <2>3. Budget' /\ kernel' \in 0..PageSends
    BY <2>1, <2>2, BudgetKept, SMTT(30), Z3T(30)
  <2>4. got' \in 0..Len(posted')
    BY <2>1, PortGrows, SMTT(30), Z3T(30) DEF PageInv, P!TypeOK
  <2>5. P!TypeOK'
    BY <2>1, <2>3, <2>4, PortGrows, ZenonT(30) DEF PageInv, P!TypeOK
  <2>6. Shape'
    BY <2>1, GrowsShape, ZenonT(30)
  <2>7. Behind'
    BY <2>1, PortGrows, ZenonT(30) DEF PageInv, Behind
  <2> QED BY <2>3, <2>5, <2>6, <2>7, ZenonT(30) DEF PageInv
<1> QED BY <1>1, <1>2, ZenonT(30)

\* The worker reads a message from the page.
LEMMA ReadStep ==
    ASSUME PageInv, P!SwReads
    PROVE  PageInv'
<1>1. /\ UNCHANGED <<readyState, _closed, attached, _closeGuard, bufferedAmount, blobs, calls,
                     reply, got, events>>
      /\ up # << >> /\ up' = Tail(up)
  BY ZenonT(30) DEF P!SwReads
<1>2. up \in Seq({"send", "close", "abort"}) /\ kernel \in Nat
  BY SMTT(30), Z3T(30) DEF PageInv, P!TypeOK
<1>3. /\ up' \in Seq({"send", "close", "abort"}) /\ Len(up) \in Nat \ {0}
      /\ Len(up') = Len(up) - 1 /\ Head(up) = up[1] /\ Head(up) \in {"send", "close", "abort"}
      /\ \A i \in 1..(Len(up) - 1) : up'[i] = up[i + 1]
  BY <1>1, <1>2, SMTT(30), Z3T(30)
<1>4. /\ P!Count(up', "send") = P!Count(up, "send") - IF Head(up) = "send" THEN 1 ELSE 0
      /\ P!Count(up', "send") \in Nat /\ P!Count(up, "send") \in Nat
  BY <1>1, <1>2, <1>3, CountTail, CountPlaces, ZenonT(30)
<1>5. ASSUME NEW i \in 1..Len(up), up[i] = "abort", Head(up) # "abort"
      PROVE  \E k \in 1..Len(up') : up'[k] = "abort"
  <2>1. i - 1 \in 1..Len(up') /\ up'[i - 1] = up[i]
    BY <1>3, <1>5, SMTT(30), Z3T(30)
  <2> QED BY <1>5, <2>1, ZenonT(30)
<1>6. \/ /\ UNCHANGED <<posted, ended>> /\ kernel' \in Nat
         /\ kernel' <= kernel + IF Head(up) = "send" THEN 1 ELSE 0
         /\ ended \/ Head(up) # "abort"
      \/ P!SW!End /\ kernel' = 0
  <2>1. CASE ended
    BY <1>2, <2>1, SMTT(30) DEF P!SwReads, P!swVars
  <2>2. CASE ~ended
    <3>1. CASE Head(up) = "send"
      <4>1. kernel' = kernel + 1 /\ UNCHANGED P!swVars
        BY <2>2, <3>1, ZenonT(30) DEF P!SwReads
      <4> QED BY <1>2, <3>1, <4>1, SMTT(30) DEF P!swVars
    <3>2. CASE Head(up) = "close"
      <4>1. UNCHANGED <<P!swVars, kernel>>
        BY <2>2, <3>2, ZenonT(30) DEF P!SwReads
      <4> QED BY <1>2, <3>2, <4>1, SMTT(30), Z3T(30) DEF P!swVars
    <3>3. CASE Head(up) = "abort"
      BY <2>2, <3>3, ZenonT(30) DEF P!SwReads
    <3> QED BY <1>3, <3>1, <3>2, <3>3, ZenonT(30)
  <2> QED BY <2>1, <2>2, ZenonT(30)
<1>7. Budget' /\ kernel' \in 0..PageSends
  BY <1>1, <1>2, <1>4, <1>6, BudgetKept, SMTT(30), Z3T(30)
<1>8. CASE /\ UNCHANGED <<posted, ended>>
           /\ ended \/ Head(up) # "abort"
  <2>1. P!TypeOK'
    BY <1>1, <1>3, <1>7, <1>8, ZenonT(30) DEF PageInv, P!TypeOK
  <2>2. Shape'
    BY <1>1, <1>8, ShapeKept, ZenonT(30) DEF PageInv
  <2>3. Behind'
    BY <1>1, <1>5, <1>8, ZenonT(30) DEF PageInv, Behind
  <2> QED BY <1>7, <2>1, <2>2, <2>3, ZenonT(30) DEF PageInv
<1>9. CASE P!SW!End
  <2>1. ended' /\ got' \in 0..Len(posted')
    BY <1>1, <1>9, PortGrows, SMTT(30), Z3T(30) DEF PageInv, P!TypeOK, P!SW!End
  <2>2. P!TypeOK'
    BY <1>1, <1>3, <1>7, <1>9, <2>1, PortGrows, ZenonT(30) DEF PageInv, P!TypeOK
  <2>3. Shape'
    BY <1>1, <1>9, GrowsShape, ZenonT(30)
  <2>4. Behind'
    BY <2>1, ZenonT(30) DEF Behind
  <2> QED BY <1>7, <2>2, <2>3, <2>4, ZenonT(30) DEF PageInv
<1> QED BY <1>6, <1>8, <1>9, ZenonT(30)

\* The socket ends by finish or fail: the stream is told, or has ended itself.
LEMMA EndStep ==
    ASSUME PageInv, Shape', events' \in Seq({"open", "message", "error", "close"}),
           _closed' = TRUE, attached' = FALSE, readyState' \in {"CLOSED"}, _closeGuard' = "none",
           blobs' \subseteq blobs, Cardinality(blobs') <= Cardinality(blobs), IsFiniteSet(blobs'),
           UNCHANGED <<bufferedAmount, calls, posted, ended, kernel>>,
           got' \in 0..Len(posted), reply' \in {reply, "handled"},
           reply # "handled" /\ reply' = "handled" => ended,
           \/ up' = IF attached THEN Append(up, "abort") ELSE up
           \/ up' = up /\ ended
    PROVE  PageInv'
<1>1. CASE up' = Append(up, "abort")
  <2>1. Budget'
    <3>1. P!Count(up', "send") = P!Count(up, "send")
      BY <1>1, UpAppend, SMTT(30), Z3T(30)
    <3>2. /\ Cardinality(blobs) \in Nat /\ Cardinality(blobs') \in Nat /\ kernel \in Nat
          /\ P!Count(up, "send") \in Nat /\ calls \in Nat /\ bufferedAmount \in Nat
      BY <1>1, UpAppend, FS_CardinalityType, SMTT(30), Z3T(30) DEF PageInv, Budget, P!TypeOK
    <3>3. blobs' \subseteq 1..calls' /\ IsFiniteSet(blobs')
      BY ZenonT(30) DEF PageInv, Budget
    <3>4. /\ Cardinality(blobs') <= bufferedAmount' /\ bufferedAmount' <= calls'
          /\ Cardinality(blobs') + kernel' + P!Count(up', "send") <= calls'
      BY <3>1, <3>2, SMTT(30), Z3T(30) DEF PageInv, Budget
    <3> QED BY <3>3, <3>4, ZenonT(30) DEF Budget
  <2>2. P!TypeOK'
    BY <1>1, UpAppend, ZenonT(30) DEF PageInv, P!TypeOK
  <2>3. Behind'
    BY <1>1, UpAppend, ZenonT(30) DEF PageInv, Behind
  <2> QED BY <2>1, <2>2, <2>3, ZenonT(30) DEF PageInv
<1>2. CASE up' = up /\ (ended \/ ~attached)
  <2>1. Budget'
    <3>1. /\ Cardinality(blobs) \in Nat /\ Cardinality(blobs') \in Nat /\ kernel \in Nat
          /\ P!Count(up, "send") \in Nat /\ calls \in Nat /\ bufferedAmount \in Nat
      BY CountPlaces, FS_CardinalityType, SMTT(30), Z3T(30) DEF PageInv, Budget, P!TypeOK
    <3>2. blobs' \subseteq 1..calls' /\ IsFiniteSet(blobs')
      BY <1>2, ZenonT(30) DEF PageInv, Budget
    <3>3. /\ Cardinality(blobs') <= bufferedAmount' /\ bufferedAmount' <= calls'
          /\ Cardinality(blobs') + kernel' + P!Count(up', "send") <= calls'
      BY <1>2, <3>1, SMTT(30), Z3T(30) DEF PageInv, Budget
    <3> QED BY <3>2, <3>3, ZenonT(30) DEF Budget
  <2>2. P!TypeOK'
    BY <1>2, ZenonT(30) DEF PageInv, P!TypeOK
  <2>3. Behind'
    BY <1>2, ZenonT(30) DEF PageInv, Behind
  <2> QED BY <2>1, <2>2, <2>3, ZenonT(30) DEF PageInv
<1> QED BY <1>1, <1>2, ZenonT(30)

\* The port's messages reach the page.
LEMMA ReceiveStep ==
    ASSUME PageInv, P!Receive
    PROVE  PageInv'
<1>1. /\ attached /\ got < Len(posted) /\ got' = got + 1
      /\ UNCHANGED <<bufferedAmount, blobs, calls, reply, posted, ended, kernel>>
  BY ZenonT(30) DEF P!Receive, P!swVars
<1>2. /\ got \in Nat /\ Len(posted) \in Nat /\ got + 1 \in 1..Len(posted) /\ got' \in 0..Len(posted)
      /\ posted[got + 1] \in {"message", "error", "clean", "abnormal"}
  BY <1>1, SMTT(30), Z3T(30) DEF PageInv, P!TypeOK
<1>3. CASE posted[got + 1] = "message"
  <2>1. /\ events' = Append(events, "message")
        /\ UNCHANGED <<_closed, readyState, _closeGuard, attached, up>>
    BY <1>3, ZenonT(30) DEF P!Receive
  <2>2. events \in Seq({"open", "message", "error", "close"}) /\ Len(events) \in Nat
    BY SMTT(30), Z3T(30) DEF PageInv, P!TypeOK
  <2>3. Streaming
    BY <1>1, ZenonT(30) DEF PageInv, Shape
  <2>4. /\ events' \in Seq({"open", "message", "error", "close"})
        /\ Len(events') = Len(events) + 1 /\ events'[Len(events) + 1] = "message"
        /\ \A i \in 1..Len(events) : events'[i] = events[i]
    BY <2>1, <2>2, SMTT(30)
  <2>5. Streaming'
    <3>1. ~_closed' /\ reply' = "handled" /\ Len(events') = got' + 1 /\ events'[1] = "open"
      BY <1>1, <1>2, <2>1, <2>2, <2>3, <2>4, SMTT(30), Z3T(30) DEF Streaming
    <3>2. \A i \in 2..Len(events') : events'[i] = "message"
      BY <2>2, <2>3, <2>4, SMTT(30), Z3T(30) DEF Streaming
    <3>3. \A i \in 1..got' : posted'[i] = "message"
      BY <1>1, <1>2, <1>3, <2>3, SMTT(30), Z3T(30) DEF Streaming
    <3> QED BY <3>1, <3>2, <3>3, ZenonT(30) DEF Streaming
  <2>6. Drained'
    BY <1>1, <1>3, ZenonT(30) DEF Drained
  <2>7. Shape'
    BY <1>1, <2>1, <2>3, <2>5, <2>6, ZenonT(30) DEF PageInv, Shape, Streaming
  <2>8. P!TypeOK' /\ Budget' /\ Behind'
    BY <1>1, <1>2, <2>1, <2>4, ZenonT(30) DEF PageInv, P!TypeOK, Budget, Behind
  <2> QED BY <2>7, <2>8, ZenonT(30) DEF PageInv
<1>4. CASE posted[got + 1] # "message"
  <2>1. /\ ended /\ ~_closed /\ IsFiniteSet(blobs) /\ Cardinality(blobs) \in Nat
    BY <1>1, <1>2, <1>4, FS_CardinalityType, ZenonT(30) DEF PageInv, Behind, Shape, Streaming, Budget
  <2>a. /\ blobs' \subseteq blobs /\ IsFiniteSet(blobs') /\ Cardinality(blobs') <= Cardinality(blobs)
        /\ reply' \in {reply, "handled"} /\ ~(reply # "handled" /\ reply' = "handled")
    BY <1>1, <2>1, SMTT(30), Z3T(30)
  <2>2. CASE posted[got + 1] = "error"
    <3>1. P!fail
      BY <1>4, <2>2, ZenonT(30) DEF P!Receive
    <3>2. /\ Shape' /\ events' \in Seq({"open", "message", "error", "close"})
          /\ attached' = FALSE /\ _closed' = TRUE
          /\ up' = IF attached THEN Append(up, "abort") ELSE up
      BY <1>1, <2>2, <3>1, FailShape, ZenonT(30)
    <3>3. readyState' = "CLOSED" /\ _closeGuard' = "none"
      BY <3>2, ZenonT(30) DEF Shape, P!TypeOK
    <3> QED BY <1>1, <1>2, <2>1, <2>a, <3>2, <3>3, EndStep, ZenonT(30)
  <2>3. CASE posted[got + 1] # "error"
    <3>1. P!finish(<< >>) /\ up' = up
      BY <1>4, <2>3, ZenonT(30) DEF P!Receive
    <3>2. Shape' /\ events' \in Seq({"open", "message", "error", "close"})
      BY <1>1, <2>1, <3>1, FinishShape, ZenonT(30)
    <3>3. attached' = FALSE /\ _closed' = TRUE /\ readyState' = "CLOSED" /\ _closeGuard' = "none"
      BY <3>1, ZenonT(30) DEF P!finish
    <3> QED BY <1>1, <1>2, <2>1, <2>a, <3>1, <3>2, <3>3, EndStep, ZenonT(30)
  <2> QED BY <2>2, <2>3, ZenonT(30)
<1> QED BY <1>3, <1>4, ZenonT(30)

\* What fail does, and what it leaves, when the rest of the step is known.
LEMMA FailStep ==
    ASSUME PageInv, P!fail,
           blobs' \subseteq blobs, UNCHANGED <<bufferedAmount, calls, posted, ended, got, kernel>>,
           reply' \in {reply, "handled"}, reply # "handled" /\ reply' = "handled" => ended
    PROVE  PageInv'
<1>1. /\ Shape' /\ events' \in Seq({"open", "message", "error", "close"})
      /\ attached' = FALSE /\ _closed' = TRUE
      /\ up' = IF attached THEN Append(up, "abort") ELSE up
  BY FailShape, ZenonT(30)
<1>2. readyState' = "CLOSED" /\ _closeGuard' = "none"
  BY <1>1, ZenonT(30) DEF Shape
<1>3. IsFiniteSet(blobs') /\ Cardinality(blobs') <= Cardinality(blobs)
  BY FS_Subset, ZenonT(30) DEF PageInv, Budget
<1>4. got' \in 0..Len(posted)
  BY ZenonT(30) DEF PageInv, P!TypeOK
<1> QED BY <1>1, <1>2, <1>3, <1>4, EndStep, ZenonT(30)

\* The page's calls and Blob reads.
LEMMA SendStep ==
    ASSUME PageInv, NEW blob \in BOOLEAN, P!send(blob)
    PROVE  PageInv'
<1>1. /\ calls < PageSends /\ calls' = calls + 1 /\ bufferedAmount' = bufferedAmount + 1
      /\ UNCHANGED <<readyState, _closed, attached, _closeGuard, reply, posted, ended, got, kernel,
                     events>>
  BY ZenonT(30) DEF P!send, P!swVars
<1>2. /\ calls \in Nat /\ bufferedAmount \in Nat /\ kernel \in Nat /\ P!Count(up, "send") \in Nat
      /\ Cardinality(blobs) \in Nat /\ IsFiniteSet(blobs) /\ blobs \subseteq 1..calls
      /\ Cardinality(blobs) <= bufferedAmount /\ bufferedAmount <= calls
      /\ Cardinality(blobs) + kernel + P!Count(up, "send") <= calls
  BY CountPlaces, FS_CardinalityType, SMTT(30), Z3T(30) DEF PageInv, P!TypeOK, Budget
<1>3. \/ blobs' = blobs /\ up' = Append(up, "send")
      \/ blobs' = blobs \cup {calls + 1} /\ up' = up
      \/ blobs' = blobs /\ up' = up
  BY ZenonT(30) DEF P!send
<1>4. /\ IsFiniteSet(blobs') /\ Cardinality(blobs') \in Nat
      /\ \/ blobs' = blobs /\ up' = Append(up, "send")
         \/ Cardinality(blobs') = Cardinality(blobs) + 1 /\ up' = up
         \/ blobs' = blobs /\ up' = up
  <2>1. calls + 1 \notin blobs
    BY <1>2, SMTT(30), Z3T(30)
  <2>2. CASE blobs' = blobs \cup {calls + 1} /\ up' = up
    <3>1. IsFiniteSet(blobs') /\ Cardinality(blobs') = Cardinality(blobs) + 1
      BY <1>2, <2>1, <2>2, FS_AddElement, ZenonT(30)
    <3> QED BY <1>2, <2>2, <3>1, SMTT(30), Z3T(30)
  <2> QED BY <1>2, <1>3, <2>2, ZenonT(30)
<1>5. /\ up' \in Seq({"send", "close", "abort"}) /\ P!Count(up', "send") \in Nat
      /\ P!Count(up', "send") <= P!Count(up, "send") + 1
      /\ up' = up => P!Count(up', "send") = P!Count(up, "send")
      /\ (\E i \in 1..Len(up) : up[i] = "abort") => \E i \in 1..Len(up') : up'[i] = "abort"
  <2>1. CASE up' = Append(up, "send")
    BY <1>2, <2>1, UpAppend, SMTT(30), Z3T(30)
  <2>2. CASE up' = up
    BY <1>2, <2>2, SMTT(30), Z3T(30) DEF PageInv, P!TypeOK
  <2> QED BY <1>3, <2>1, <2>2, ZenonT(30)
<1>6. Budget'
  <2>1. blobs' \subseteq 1..calls'
    <3>1. 1..calls \subseteq 1..calls' /\ calls + 1 \in 1..calls'
      BY <1>1, <1>2, SMTT(30), Z3T(30)
    <3> QED BY <1>2, <1>3, <3>1, ZenonT(30)
  <2>2. /\ Cardinality(blobs') <= bufferedAmount' /\ bufferedAmount' <= calls'
        /\ Cardinality(blobs') + kernel' + P!Count(up', "send") <= calls'
    <3>1. CASE blobs' = blobs
      BY <1>1, <1>2, <1>5, <3>1, SMTT(30), Z3T(30)
    <3>2. CASE Cardinality(blobs') = Cardinality(blobs) + 1 /\ up' = up
      BY <1>1, <1>2, <1>5, <3>2, SMTT(30), Z3T(30)
    <3> QED BY <1>4, <3>1, <3>2, ZenonT(30)
  <2> QED BY <1>4, <2>1, <2>2, ZenonT(30) DEF Budget
<1>7. P!TypeOK'
  <2>1. calls' \in 0..PageSends /\ bufferedAmount' \in 0..PageSends /\ blobs' \subseteq 1..PageSends
    BY <1>1, <1>2, <1>6, PageAssumption, SMTT(30), Z3T(30) DEF Budget
  <2> QED BY <1>1, <1>5, <2>1, ZenonT(30) DEF PageInv, P!TypeOK
<1>8. Shape'
  BY <1>1, ShapeKept, ZenonT(30) DEF PageInv
<1>9. Behind'
  BY <1>1, <1>5, ZenonT(30) DEF PageInv, Behind
<1> QED BY <1>6, <1>7, <1>8, <1>9, ZenonT(30) DEF PageInv

\* A Blob has been read.
LEMMA BlobStep ==
    ASSUME PageInv, P!BlobRead
    PROVE  PageInv'
<1>1. PICK b \in blobs : blobs' = blobs \ {b}
  BY ZenonT(30) DEF P!BlobRead
<1>2. /\ UNCHANGED <<readyState, _closed, attached, _closeGuard, calls, reply, posted, ended, got,
                     kernel, events>>
      /\ \/ up' = Append(up, "send") /\ bufferedAmount' = bufferedAmount
         \/ bufferedAmount' = bufferedAmount - 1 /\ up' = up
  BY ZenonT(30) DEF P!BlobRead, P!swVars
<1>3. /\ calls \in Nat /\ bufferedAmount \in Nat /\ kernel \in Nat /\ P!Count(up, "send") \in Nat
      /\ Cardinality(blobs) \in Nat /\ IsFiniteSet(blobs) /\ blobs \subseteq 1..calls
      /\ Cardinality(blobs) <= bufferedAmount /\ bufferedAmount <= calls /\ calls \in 0..PageSends
      /\ Cardinality(blobs) + kernel + P!Count(up, "send") <= calls
  BY CountPlaces, FS_CardinalityType, SMTT(30), Z3T(30) DEF PageInv, P!TypeOK, Budget
<1>4. /\ IsFiniteSet(blobs') /\ Cardinality(blobs') = Cardinality(blobs) - 1
      /\ Cardinality(blobs') \in Nat
  <2>1. IsFiniteSet(blobs') /\ Cardinality(blobs') = Cardinality(blobs) - 1
    BY <1>1, <1>3, FS_RemoveElement, ZenonT(30)
  <2> QED BY <2>1, FS_CardinalityType, ZenonT(30)
<1>5. /\ up' \in Seq({"send", "close", "abort"}) /\ P!Count(up', "send") \in Nat
      /\ P!Count(up', "send") <= P!Count(up, "send") + 1
      /\ (\E i \in 1..Len(up) : up[i] = "abort") => \E i \in 1..Len(up') : up'[i] = "abort"
  <2>1. CASE up' = Append(up, "send")
    BY <1>3, <2>1, UpAppend, SMTT(30), Z3T(30)
  <2>2. CASE up' = up
    BY <1>3, <2>2, SMTT(30), Z3T(30) DEF PageInv, P!TypeOK
  <2> QED BY <1>2, <2>1, <2>2, ZenonT(30)
<1>6. Budget' /\ bufferedAmount' \in 0..PageSends
  <2>1. blobs' \subseteq 1..calls'
    BY <1>1, <1>2, <1>3, ZenonT(30)
  <2>2. /\ Cardinality(blobs') <= bufferedAmount' /\ bufferedAmount' <= calls'
        /\ bufferedAmount' \in 0..PageSends
    <3>1. bufferedAmount' = bufferedAmount \/ bufferedAmount' = bufferedAmount - 1
      BY <1>2, ZenonT(30)
    <3>2. calls' = calls
      BY <1>2, ZenonT(30)
    <3> QED BY <1>3, <1>4, <3>1, <3>2, PageAssumption, SMTT(30), Z3T(30)
  <2>3. Cardinality(blobs') + kernel' + P!Count(up', "send") <= calls'
    <3>1. kernel' = kernel /\ calls' = calls
      BY <1>2, ZenonT(30)
    <3> QED BY <1>3, <1>4, <1>5, <3>1, SMTT(30), Z3T(30)
  <2> QED BY <1>4, <2>1, <2>2, <2>3, ZenonT(30) DEF Budget
<1>7. P!TypeOK'
  BY <1>1, <1>2, <1>5, <1>6, ZenonT(30) DEF PageInv, P!TypeOK
<1>8. Shape'
  BY <1>2, ShapeKept, ZenonT(30) DEF PageInv
<1>9. Behind'
  BY <1>2, <1>5, ZenonT(30) DEF PageInv, Behind
<1> QED BY <1>6, <1>7, <1>8, <1>9, ZenonT(30) DEF PageInv

\* close, its guard, and the steps that fail.
LEMMA CloseStep ==
    ASSUME PageInv, P!close \/ P!CloseGuard \/ P!BlobFails \/ P!OpenError
    PROVE  PageInv'
<1>1. CASE P!close
  <2>1. /\ readyState \in {"CONNECTING", "OPEN"} /\ readyState' = "CLOSING"
        /\ _closeGuard' \in {"abort", "fail"}
        /\ up' = Append(up, "close") \/ up' = up
        /\ UNCHANGED <<_closed, attached, bufferedAmount, blobs, calls, reply, posted, ended, got,
                       kernel, events>>
    BY <1>1, ZenonT(30) DEF P!close, P!swVars
  <2>2. P!Count(up, "send") \in Nat /\ kernel \in Nat
    BY CountPlaces, SMTT(30), Z3T(30) DEF PageInv, P!TypeOK
  <2>3. /\ up' \in Seq({"send", "close", "abort"}) /\ P!Count(up', "send") = P!Count(up, "send")
        /\ (\E i \in 1..Len(up) : up[i] = "abort") => \E i \in 1..Len(up') : up'[i] = "abort"
    <3>1. CASE up' = Append(up, "close")
      BY <2>2, <3>1, UpAppend, SMTT(30), Z3T(30)
    <3>2. CASE up' = up
      BY <3>2, ZenonT(30) DEF PageInv, P!TypeOK
    <3> QED BY <2>1, <3>1, <3>2, ZenonT(30)
  <2>4. Budget'
    BY <2>1, <2>2, <2>3, BudgetKept, SMTT(30), Z3T(30)
  <2>5. P!TypeOK'
    BY <2>1, <2>3, ZenonT(30) DEF PageInv, P!TypeOK
  <2>6. Shape'
    <3>1. (Streaming <=> Streaming') /\ (Finished <=> Finished') /\ (Drained <=> Drained') /\ ~_closed
      BY <2>1, ZenonT(30) DEF PageInv, Shape, Streaming, Finished, Drained
    <3> QED BY <2>1, <3>1, ZenonT(30) DEF PageInv, Shape
  <2>7. Behind'
    BY <2>1, <2>3, ZenonT(30) DEF PageInv, Behind
  <2> QED BY <2>4, <2>5, <2>6, <2>7, ZenonT(30) DEF PageInv
<1>2. CASE P!CloseGuard
  <2>1. /\ _closeGuard # "none" /\ ~_closed
        /\ UNCHANGED <<bufferedAmount, blobs, calls, reply, posted, ended, got, kernel>>
    BY <1>2, ZenonT(30) DEF P!CloseGuard, P!swVars, PageInv, Shape
  <2>2. CASE P!fail
    BY <2>1, <2>2, FailStep, ZenonT(30)
  <2>3. CASE P!abort /\ P!finish(<< >>)
    <3>1. Shape' /\ events' \in Seq({"open", "message", "error", "close"})
      BY <2>1, <2>3, FinishShape, ZenonT(30)
    <3>2. /\ attached' = FALSE /\ _closed' = TRUE /\ readyState' = "CLOSED" /\ _closeGuard' = "none"
          /\ up' = IF attached THEN Append(up, "abort") ELSE up
      BY <2>3, ZenonT(30) DEF P!finish, P!abort
    <3>3. /\ blobs' \subseteq blobs /\ IsFiniteSet(blobs') /\ Cardinality(blobs') <= Cardinality(blobs)
          /\ reply' \in {reply, "handled"} /\ ~(reply # "handled" /\ reply' = "handled")
      BY <2>1, FS_Subset, ZenonT(30) DEF PageInv, Budget
    <3>4. got' \in 0..Len(posted)
      BY <2>1, ZenonT(30) DEF PageInv, P!TypeOK
    <3> QED BY <2>1, <3>1, <3>2, <3>3, <3>4, EndStep, ZenonT(30)
  <2> QED BY <1>2, <2>2, <2>3, ZenonT(30) DEF P!CloseGuard
<1>3. CASE P!BlobFails
  <2>1. /\ P!fail /\ blobs' \subseteq blobs
        /\ UNCHANGED <<bufferedAmount, calls, reply, posted, ended, got, kernel>>
    BY <1>3, ZenonT(30) DEF P!BlobFails, P!swVars
  <2> QED BY <2>1, FailStep, ZenonT(30)
<1>4. CASE P!OpenError
  <2>1. /\ P!fail /\ reply = "error" /\ reply' = "handled"
        /\ UNCHANGED <<bufferedAmount, blobs, calls, posted, ended, got, kernel>>
    BY <1>4, ZenonT(30) DEF P!OpenError, P!swVars
  <2>2. ended
    BY <2>1, ZenonT(30) DEF PageInv, Behind
  <2> QED BY <2>1, <2>2, FailStep, ZenonT(30)
<1> QED BY <1>1, <1>2, <1>3, <1>4, ZenonT(30)

-----------------------------------------------------------------------------

\* A socket that was just made.
LEMMA PageInitInv == P!Init => PageInv
<1> SUFFICES ASSUME P!Init PROVE PageInv
  BY ZenonT(30)
<1>1. /\ up = << >> /\ events = << >> /\ posted = << >> /\ blobs = {} /\ calls = 0 /\ kernel = 0
      /\ got = 0 /\ bufferedAmount = 0
  BY ZenonT(30) DEF P!Init, P!SW!Init
<1>2. P!TypeOK
  <2>1. /\ posted \in Seq({"message", "error", "clean", "abnormal"}) /\ got \in 0..Len(posted)
        /\ up \in Seq({"send", "close", "abort"})
        /\ events \in Seq({"open", "message", "error", "close"})
    BY <1>1, SMTT(30)
  <2>2. /\ bufferedAmount \in 0..PageSends /\ calls \in 0..PageSends /\ kernel \in 0..PageSends
        /\ blobs \subseteq 1..PageSends
    BY <1>1, PageAssumption, SMTT(30), Z3T(30)
  <2> QED BY <2>1, <2>2, ZenonT(30) DEF P!Init, P!SW!Init, P!TypeOK
<1>3. Budget
  <2>1. P!Count(up, "send") = 0
    <3>1. Places(up, "send") = {}
      BY <1>1, SMTT(30) DEF Places
    <3> QED BY <1>2, <3>1, CountPlaces, FS_EmptySet, ZenonT(30) DEF P!TypeOK
  <2>2. IsFiniteSet(blobs) /\ Cardinality(blobs) = 0
    BY <1>1, FS_EmptySet, ZenonT(30)
  <2> QED BY <1>1, <2>1, <2>2, SMTT(30), Z3T(30) DEF Budget
<1>4. Shape
  BY <1>1, SMTT(30), Z3T(30) DEF P!Init, Shape, Drained
<1>5. Behind
  BY <1>1, SMTT(30), Z3T(30) DEF P!Init, Behind
<1> QED BY <1>2, <1>3, <1>4, <1>5, ZenonT(30) DEF PageInv

\* Every step of the page, of its worker and of the kernel keeps the invariant.
LEMMA PageNextInv == PageInv /\ [P!Next]_P!vars => PageInv'
<1> SUFFICES ASSUME PageInv, [P!Next]_P!vars PROVE PageInv'
  BY ZenonT(30)
<1>1. CASE P!SwOpens \/ P!SwRefuses \/ P!OpenReply
  BY <1>1, ReplyStep, ZenonT(30)
<1>2. CASE P!SwPosts \/ P!SwEnds \/ P!KernelDrains
  BY <1>2, WorkerStep, ZenonT(30)
<1>3. CASE P!SwReads
  BY <1>3, ReadStep, ZenonT(30)
<1>4. CASE P!Receive
  BY <1>4, ReceiveStep, ZenonT(30)
<1>5. CASE P!BlobRead
  BY <1>5, BlobStep, ZenonT(30)
<1>6. CASE P!close \/ P!CloseGuard \/ P!BlobFails \/ P!OpenError
  BY <1>6, CloseStep, ZenonT(30)
<1>7. ASSUME NEW blob \in BOOLEAN, P!send(blob) PROVE PageInv'
  BY <1>7, SendStep, ZenonT(30)
<1>8. CASE UNCHANGED P!vars
  <2>1. UNCHANGED <<readyState, _closed, attached, _closeGuard, bufferedAmount, blobs, calls, reply,
                    posted, ended, got, up, kernel, events>>
    BY <1>8, ZenonT(30) DEF P!vars, P!swVars
  <2>2. P!TypeOK' /\ Budget' /\ Behind'
    BY <2>1, ZenonT(30) DEF PageInv, P!TypeOK, Budget, Behind
  <2> QED BY <2>1, <2>2, ShapeKept, ZenonT(30) DEF PageInv
<1> QED BY <1>1, <1>2, <1>3, <1>4, <1>5, <1>6, <1>7, <1>8, ZenonT(30) DEF P!Next

\* The page sees its events in order and loses none before a clean close, for
\* any number of sends and posts, however the answer to WS_OPEN, the worker's
\* messages, Blob reads, close() and its guard fall (installWebSocket); and no
\* stream stays open behind a socket that has ended.
THEOREM PageEventOrder == P!Spec => []EventOrder
<1>1. P!Spec => []PageInv
  BY PageInitInv, PageNextInv, PTL DEF P!Spec
<1> QED BY <1>1, PageInvImplies, PTL
=============================================================================

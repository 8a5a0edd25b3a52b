-------------------------- MODULE RelayLink_proofs --------------------------
(***************************************************************************)
(* Proofs about the kernel's link to the relay.  MuxSession: for any       *)
(* callers and sessions, the cache never holds a dead session and no       *)
(* open_stream call is forgotten.  WsStream: for any receive cap and any   *)
(* frames, the bytes of the socket are read in order, each once, before an *)
(* error is, and no wake-up is lost.                                       *)
(***************************************************************************)
EXTENDS RelayLink, Integers, TLAPS

-----------------------------------------------------------------------------
(* The strengthening.  The three safety properties are not inductive: they *)
(* need to know who is in a queue and that nobody is there twice.          *)

\* A caller stands in the queue of the session it holds, once, while it awaits
\* its reply; a driver that has ended leaves no queue behind.
QueueExact ==
    \A s \in Sessions :
        /\ driver[s] = "gone" => queue[s] = << >>
        /\ \A i \in 1..Len(queue[s]) :
            /\ pc[queue[s][i]] = "open"
            /\ handle[queue[s][i]] = s
            /\ reply[queue[s][i]] = "none"
        /\ \A i, j \in 1..Len(queue[s]) : queue[s][i] = queue[s][j] => i = j

\* A reply is unread only by a caller that awaits one, and that caller holds a
\* session.
ReplyExpected ==
    \A c \in Callers :
        /\ reply[c] # "none" => pc[c] = "open"
        /\ pc[c] = "open" => handle[c] \in Sessions

\* A caller past open_stream has a stream.
StreamKnown == \A c \in Callers : pc[c] \in {"socks", "using"} => stream[c] \in Sessions

\* The inductive invariant.
Inv ==
    /\ TypeOK /\ QueueExact /\ ReplyExpected /\ StreamKnown
    /\ CacheIsLive /\ OpenAccounted /\ ErrorMeansGone

-----------------------------------------------------------------------------
(* The two queue operations, element by element.                           *)

LEMMA AppendFacts ==
    ASSUME NEW S, NEW q \in Seq(S), NEW x \in S
    PROVE  /\ Append(q, x) \in Seq(S)
           /\ Len(Append(q, x)) = Len(q) + 1
           /\ \A i \in 1..Len(q) : Append(q, x)[i] = q[i]
           /\ Append(q, x)[Len(q) + 1] = x
  OBVIOUS

\* A new element at the end leaves a sequence without repetition.
LEMMA AppendInjective ==
    ASSUME NEW S, NEW q \in Seq(S), NEW x \in S,
           \A i \in 1..Len(q) : q[i] # x,
           \A i, j \in 1..Len(q) : q[i] = q[j] => i = j
    PROVE  \A i, j \in 1..Len(Append(q, x)) : Append(q, x)[i] = Append(q, x)[j] => i = j
<1> DEFINE n == Len(q)
           r == Append(q, x)
<1>1. /\ n \in Nat /\ Len(r) = n + 1 /\ r[n + 1] = x
      /\ \A i \in 1..n : r[i] = q[i]
  BY AppendFacts
<1>2. \A i \in 1..n : r[i] # r[n + 1]
  BY <1>1
<1> HIDE DEF r, n
<1>3. \A i \in 1..Len(r) : i \in 1..n \/ i = n + 1
  BY <1>1
<1>4. ASSUME NEW i \in 1..Len(r), NEW j \in 1..Len(r), r[i] = r[j] PROVE i = j
  <2>1. CASE i \in 1..n /\ j \in 1..n
    BY <2>1, <1>1, <1>4 DEF n
  <2>2. CASE i = n + 1 \/ j = n + 1
    BY <2>2, <1>2, <1>3, <1>4
  <2> QED BY <2>1, <2>2, <1>3
<1> QED BY <1>4 DEF r

\* What is left of a queue whose head is taken.
LEMMA TailFacts ==
    ASSUME NEW S, NEW q \in Seq(S), q # << >>
    PROVE  /\ Head(q) \in S
           /\ Head(q) = q[1]
           /\ Len(q) \in Nat /\ Len(q) >= 1
           /\ Tail(q) \in Seq(S)
           /\ Len(Tail(q)) = Len(q) - 1
           /\ \A i \in 1..Len(Tail(q)) : Tail(q)[i] = q[i + 1]
  OBVIOUS

-----------------------------------------------------------------------------
(* Steps shared by several actions.                                        *)

\* The variables OpenStream changes keep their types.
LEMMA OpenStreamTypes ==
    ASSUME TypeOK, NEW c \in Callers, NEW s \in Sessions, OpenStream(c, s)
    PROVE  /\ pc' \in [Callers -> {"idle", "dial", "open", "socks", "using"}]
           /\ handle' \in [Callers -> SessionOrNone]
           /\ reply' \in [Callers -> {"none", "ok", "err"}]
           /\ queue' \in [Sessions -> Seq(Callers)]
<1>1. /\ pc' = [pc EXCEPT ![c] = "open"]
      /\ handle' = [handle EXCEPT ![c] = s]
      /\ reply' \in {reply, [reply EXCEPT ![c] = "err"]}
      /\ queue' \in {queue, [queue EXCEPT ![s] = Append(queue[s], c)]}
  BY DEF OpenStream
<1>2. Append(queue[s], c) \in Seq(Callers)
  BY AppendFacts DEF TypeOK
<1> HIDE DEF SessionOrNone
<1>3. s \in SessionOrNone
  BY DEF SessionOrNone
<1> QED BY <1>1, <1>2, <1>3 DEF TypeOK

\* A caller outside every queue joins the queue of a running session.  The
\* session is the cached one, or a new one nobody refers to yet.
LEMMA OpenStreamStep ==
    ASSUME Inv, TypeOK', NEW c \in Callers, NEW s \in Sessions, OpenStream(c, s),
           pc[c] \in {"idle", "dial"}, driver'[s] = "running",
           \A r \in Sessions : r # s => driver'[r] = driver[r],
           \A b \in Callers : handle[b] = s => driver[s] = "running",
           SESSION' = s, stream' = stream
    PROVE  Inv'
<1> USE DEF Inv
<1>1. /\ pc' = [pc EXCEPT ![c] = "open"]
      /\ handle' = [handle EXCEPT ![c] = s]
      /\ reply' = reply
      /\ queue' = [queue EXCEPT ![s] = Append(queue[s], c)]
  BY DEF OpenStream
<1>2. reply[c] = "none"
  BY DEF ReplyExpected, TypeOK
<1>3. \A r \in Sessions : \A i \in 1..Len(queue[r]) : queue[r][i] \in Callers /\ queue[r][i] # c
  BY DEF QueueExact, TypeOK
<1>4. \A r \in Sessions : r # s => queue'[r] = queue[r]
  BY <1>1 DEF TypeOK
<1>5. /\ queue'[s] \in Seq(Callers) /\ Len(queue'[s]) = Len(queue[s]) + 1
      /\ Len(queue[s]) \in Nat
      /\ \A i \in 1..Len(queue[s]) : queue'[s][i] = queue[s][i]
      /\ queue'[s][Len(queue[s]) + 1] = c
  BY <1>1, AppendFacts DEF TypeOK
<1>6. QueueExact'
  <2> SUFFICES ASSUME NEW r \in Sessions
               PROVE  /\ driver'[r] = "gone" => queue'[r] = << >>
                      /\ \A i \in 1..Len(queue'[r]) :
                          /\ pc'[queue'[r][i]] = "open"
                          /\ handle'[queue'[r][i]] = r
                          /\ reply'[queue'[r][i]] = "none"
                      /\ \A i, j \in 1..Len(queue'[r]) : queue'[r][i] = queue'[r][j] => i = j
    BY DEF QueueExact
  <2>1. CASE r # s
    BY <2>1, <1>1, <1>3, <1>4 DEF QueueExact, TypeOK
  <2>2. CASE r = s
    <3>1. \A i \in 1..Len(queue'[s]) : i \in 1..Len(queue[s]) \/ i = Len(queue[s]) + 1
      BY <1>5
    <3>2. \A i \in 1..Len(queue'[s]) :
            /\ pc'[queue'[s][i]] = "open"
            /\ handle'[queue'[s][i]] = s
            /\ reply'[queue'[s][i]] = "none"
      BY <3>1, <1>1, <1>2, <1>3, <1>5 DEF QueueExact, TypeOK
    <3>3. \A i, j \in 1..Len(queue'[s]) : queue'[s][i] = queue'[s][j] => i = j
      <4>1. \A i, j \in 1..Len(queue[s]) : queue[s][i] = queue[s][j] => i = j
        BY DEF QueueExact
      <4>2. \A i \in 1..Len(queue[s]) : queue[s][i] # c
        BY <1>3
      <4>3. queue'[s] = Append(queue[s], c) /\ queue[s] \in Seq(Callers)
        BY <1>1 DEF TypeOK
      <4> HIDE DEF Inv
      <4> QED BY <4>1, <4>2, <4>3, AppendInjective
    <3> QED BY <2>2, <3>2, <3>3
  <2> QED BY <2>1, <2>2
<1>7. ReplyExpected' /\ StreamKnown' /\ CacheIsLive'
  BY <1>1 DEF ReplyExpected, StreamKnown, CacheIsLive, TypeOK
<1>8. OpenAccounted'
  <2> SUFFICES ASSUME NEW b \in Callers, pc'[b] = "open", reply'[b] = "none"
               PROVE  /\ handle'[b] # NoSession /\ driver'[handle'[b]] = "running"
                      /\ \E i \in 1..Len(queue'[handle'[b]]) : queue'[handle'[b]][i] = b
    BY DEF OpenAccounted, InQueue
  <2>1. CASE b = c
    <3>1. Len(queue[s]) + 1 \in 1..Len(queue'[s])
      BY <1>5
    <3> QED BY <2>1, <3>1, <1>1, <1>5, NoSessionAssumption, SMTT(30), Z3T(30) DEF TypeOK
  <2>2. CASE b # c
    <3>1. handle'[b] = handle[b] /\ pc[b] = "open" /\ reply[b] = "none"
      BY <2>2, <1>1 DEF TypeOK
    <3>2. handle[b] \in Sessions /\ driver[handle[b]] = "running" /\ InQueue(b, handle[b])
      BY <3>1 DEF OpenAccounted, ReplyExpected
    <3>3. \E i \in 1..Len(queue'[handle[b]]) : queue'[handle[b]][i] = b
      BY <3>2, <1>4, <1>5 DEF InQueue
    <3> QED BY <3>1, <3>2, <3>3, NoSessionAssumption
  <2> QED BY <2>1, <2>2
<1>9. ErrorMeansGone'
  BY <1>1, <1>2 DEF ErrorMeansGone, ReplyExpected, TypeOK
<1> QED BY <1>6, <1>7, <1>8, <1>9

\* A driver that ends answers everybody in its queue with an error.
LEMMA DriverExitStep ==
    ASSUME Inv, NEW s \in Sessions, DriverExit(s)
    PROVE  Inv'
<1> USE DEF Inv
<1>1. /\ driver' = [driver EXCEPT ![s] = "gone"]
      /\ queue' = [queue EXCEPT ![s] = << >>]
      /\ SESSION' = NoSession
      /\ reply' = [c \in Callers |-> IF InQueue(c, s) THEN "err" ELSE reply[c]]
      /\ ws' = [ws EXCEPT ![s] = "lost"]
      /\ UNCHANGED <<pc, attempt, handle, stream, idle>>
  BY DEF DriverExit, FailQueue
<1>2. TypeOK'
  BY <1>1 DEF TypeOK, SessionOrNone
<1>3. \A c \in Callers : InQueue(c, s) => pc[c] = "open" /\ handle[c] = s /\ reply[c] = "none"
  BY DEF InQueue, QueueExact
<1>4. QueueExact'
  <2> SUFFICES ASSUME NEW r \in Sessions
               PROVE  /\ driver'[r] = "gone" => queue'[r] = << >>
                      /\ \A i \in 1..Len(queue'[r]) :
                          /\ pc'[queue'[r][i]] = "open"
                          /\ handle'[queue'[r][i]] = r
                          /\ reply'[queue'[r][i]] = "none"
                      /\ \A i, j \in 1..Len(queue'[r]) : queue'[r][i] = queue'[r][j] => i = j
    BY DEF QueueExact
  <2>1. CASE r = s
    BY <2>1, <1>1 DEF TypeOK
  <2>2. CASE r # s
    <3>1. queue'[r] = queue[r] /\ driver'[r] = driver[r]
      BY <2>2, <1>1 DEF TypeOK
    <3>2. ASSUME NEW i \in 1..Len(queue[r]) PROVE reply'[queue[r][i]] = "none"
      <4>1. queue[r][i] \in Callers /\ handle[queue[r][i]] = r /\ reply[queue[r][i]] = "none"
        BY DEF QueueExact, TypeOK
      <4> QED BY <4>1, <2>2, <1>1, <1>3
    <3> QED BY <3>1, <3>2, <1>1 DEF QueueExact
  <2> QED BY <2>1, <2>2
<1>5. ReplyExpected' /\ StreamKnown'
  BY <1>1, <1>3 DEF ReplyExpected, StreamKnown
<1>6. CacheIsLive'
  BY <1>1 DEF CacheIsLive
<1>7. OpenAccounted'
  <2> SUFFICES ASSUME NEW b \in Callers, pc'[b] = "open", reply'[b] = "none"
               PROVE  /\ handle'[b] # NoSession /\ driver'[handle'[b]] = "running"
                      /\ \E i \in 1..Len(queue'[handle'[b]]) : queue'[handle'[b]][i] = b
    BY DEF OpenAccounted, InQueue
  <2>1. ~InQueue(b, s) /\ pc[b] = "open" /\ reply[b] = "none" /\ handle'[b] = handle[b]
    BY <1>1
  <2>2. handle[b] \in Sessions /\ driver[handle[b]] = "running" /\ InQueue(b, handle[b])
    BY <2>1 DEF OpenAccounted, ReplyExpected
  <2>3. handle[b] # s /\ queue'[handle[b]] = queue[handle[b]] /\ driver'[handle[b]] = "running"
    BY <2>1, <2>2, <1>1 DEF TypeOK
  <2> QED BY <2>1, <2>2, <2>3, NoSessionAssumption DEF InQueue
<1>8. ErrorMeansGone'
  BY <1>1, <1>3 DEF ErrorMeansGone, ReplyExpected, TypeOK
<1> QED BY <1>2, <1>4, <1>5, <1>6, <1>7, <1>8

\* A step that leaves queues, replies and drivers alone and lets go of nothing
\* that a waiting caller holds.
LEMMA QuietStep ==
    ASSUME Inv, TypeOK', UNCHANGED <<driver, queue>>,
           SESSION' \in {SESSION, NoSession},
           NEW c \in Callers,
           \A b \in Callers : b # c => /\ pc'[b] = pc[b] /\ handle'[b] = handle[b]
                                       /\ reply'[b] = reply[b] /\ stream'[b] = stream[b],
           pc'[c] # "open", reply'[c] = "none",
           pc'[c] \in {"socks", "using"} => stream'[c] \in Sessions,
           pc[c] # "open" \/ reply[c] # "none"
    PROVE  Inv'
<1> USE DEF Inv
<1>1. \A r \in Sessions : \A i \in 1..Len(queue[r]) : queue[r][i] \in Callers /\ queue[r][i] # c
  BY DEF QueueExact, TypeOK
<1>2. QueueExact'
  BY <1>1 DEF QueueExact
<1>3. ReplyExpected' /\ StreamKnown' /\ CacheIsLive' /\ ErrorMeansGone'
  BY DEF ReplyExpected, StreamKnown, CacheIsLive, ErrorMeansGone
<1>4. OpenAccounted'
  BY DEF OpenAccounted, InQueue
<1> QED BY <1>2, <1>3, <1>4

-----------------------------------------------------------------------------
(* The theorems.                                                           *)

\* Every step of a caller or of a driver preserves the invariant.
LEMMA NextStep ==
    ASSUME Inv, [Next]_vars
    PROVE  Inv'
<1> USE DEF Inv
<1>1. ASSUME NEW c \in Callers, Connect(c) PROVE Inv'
  <2>1. CASE SESSION # NoSession
    <3>1. SESSION \in Sessions /\ driver[SESSION] = "running"
      BY <2>1 DEF CacheIsLive, TypeOK, SessionOrNone
    <3>2. OpenStream(c, SESSION) /\ UNCHANGED <<driver, SESSION, ws, attempt, stream, idle>>
      BY <1>1, <2>1 DEF Connect
    <3>3. TypeOK'
      BY <3>1, <3>2, OpenStreamTypes DEF TypeOK
    <3> QED BY <3>1, <3>2, <3>3, <1>1, OpenStreamStep DEF Connect
  <2>2. CASE SESSION = NoSession
    <3>1. /\ pc' = [pc EXCEPT ![c] = "dial"]
          /\ UNCHANGED <<SESSION, driver, ws, queue, attempt, handle, reply, stream, idle>>
      BY <1>1, <2>2 DEF Connect
    <3>2. TypeOK'
      BY <3>1 DEF TypeOK, SessionOrNone
    <3>3. pc[c] = "idle" /\ pc'[c] = "dial" /\ reply'[c] = "none"
      BY <3>1, <1>1 DEF Connect, TypeOK, ReplyExpected
    <3>4. \A b \in Callers : b # c => /\ pc'[b] = pc[b] /\ handle'[b] = handle[b]
                                      /\ reply'[b] = reply[b] /\ stream'[b] = stream[b]
      BY <3>1 DEF TypeOK
    <3> HIDE DEF Inv
    <3> QED BY <3>1, <3>2, <3>3, <3>4, QuietStep
  <2> QED BY <2>1, <2>2, SMTT(30)
<1>2. ASSUME NEW c \in Callers, WsOpened(c) PROVE Inv'
  <2>1. PICK s \in Sessions :
          /\ Unreferenced(s)
          /\ driver' = [driver EXCEPT ![s] = "running"]
          /\ ws' = [ws EXCEPT ![s] = "up"]
          /\ SESSION' = s
          /\ OpenStream(c, s)
    BY <1>2 DEF WsOpened
  <2>2. TypeOK'
    <3>1. driver' \in [Sessions -> {"gone", "running", "closing"}] /\ ws' \in [Sessions -> {"up", "lost"}]
      BY <2>1 DEF TypeOK
    <3>2. UNCHANGED <<attempt, stream, idle>>
      BY <1>2 DEF WsOpened
    <3> QED BY <2>1, <3>1, <3>2, OpenStreamTypes DEF TypeOK, SessionOrNone
  <2>3. driver'[s] = "running" /\ \A r \in Sessions : r # s => driver'[r] = driver[r]
    BY <2>1 DEF TypeOK
  <2>4. \A b \in Callers : handle[b] # s
    BY <2>1 DEF Unreferenced, NoSenders
  <2> QED BY <2>1, <2>2, <2>3, <2>4, <1>2, OpenStreamStep DEF WsOpened
<1>3. ASSUME NEW c \in Callers,
             \/ WsOpenFailed(c) \/ StreamOpened(c) \/ Reopen(c) \/ ReopenFailed(c)
             \/ SocksOk(c) \/ SocksErr(c) \/ TakePooled(c) \/ UseEnd(c)
      PROVE Inv'
  <2> USE DEF WsOpenFailed, StreamOpened, Reopen, ReopenFailed, SocksOk, SocksErr,
              TakePooled, UseEnd, Fail
  <2>1. TypeOK'
    <3> NoSession \in SessionOrNone /\ \A x \in Sessions : x \in SessionOrNone
      BY DEF SessionOrNone
    <3>1. CASE WsOpenFailed(c)
      BY <3>1 DEF TypeOK
    <3>7. CASE ReopenFailed(c)
      BY <3>7 DEF TypeOK
    <3>2. CASE StreamOpened(c)
      BY <3>2 DEF TypeOK
    <3>3. CASE Reopen(c)
      BY <3>3 DEF TypeOK
    <3>4. CASE SocksOk(c)
      BY <3>4 DEF TypeOK
    <3>8. CASE SocksErr(c)
      BY <3>8 DEF TypeOK
    <3>5. CASE TakePooled(c)
      BY <3>5 DEF TypeOK
    <3>6. CASE UseEnd(c)
      <4>1. idle' \in SUBSET Sessions
        BY <3>6, SMTT(30) DEF TypeOK, StreamKnown
      <4> QED BY <3>6, <4>1 DEF TypeOK
    <3> QED BY <1>3, <3>1, <3>2, <3>3, <3>4, <3>5, <3>6, <3>7, <3>8
  <2>2. /\ UNCHANGED <<driver, queue>>
        /\ SESSION' \in {SESSION, NoSession}
    BY <1>3, SMTT(30), Z3T(30)
  <2>3. \A b \in Callers : b # c => /\ pc'[b] = pc[b] /\ handle'[b] = handle[b]
                                    /\ reply'[b] = reply[b] /\ stream'[b] = stream[b]
    BY <1>3, SMTT(30), Z3T(30) DEF TypeOK
  <2>4. pc'[c] # "open" /\ reply'[c] = "none" /\ (pc[c] # "open" \/ reply[c] # "none")
    BY <1>3, SMTT(30), Z3T(30) DEF TypeOK, ReplyExpected
  <2>5. pc'[c] \in {"socks", "using"} => stream'[c] \in Sessions
    <3>1. CASE StreamOpened(c)
      BY <3>1 DEF TypeOK, ReplyExpected
    <3>2. CASE TakePooled(c)
      BY <3>2 DEF TypeOK
    <3>3. CASE SocksOk(c)
      BY <3>3 DEF TypeOK, StreamKnown
    <3>4. CASE \/ WsOpenFailed(c) \/ Reopen(c) \/ ReopenFailed(c) \/ SocksErr(c) \/ UseEnd(c)
      BY <3>4, SMTT(30), Z3T(30) DEF TypeOK
    <3> QED BY <1>3, <3>1, <3>2, <3>3, <3>4
  <2> QED BY <2>1, <2>2, <2>3, <2>4, <2>5, QuietStep
<1>4. ASSUME NEW s \in Sessions, WsLost(s) PROVE Inv'
  BY <1>4 DEF WsLost, TypeOK, QueueExact, ReplyExpected, StreamKnown, CacheIsLive,
              OpenAccounted, ErrorMeansGone, InQueue
<1>5. ASSUME NEW s \in Sessions, DriverServe(s) PROVE Inv'
  <2> DEFINE h == Head(queue[s])
  <2>1. /\ reply' = [reply EXCEPT ![h] = "ok"]
        /\ queue' = [queue EXCEPT ![s] = Tail(queue[s])]
        /\ UNCHANGED <<SESSION, driver, ws, pc, attempt, handle, stream, idle>>
        /\ queue[s] # << >> /\ driver[s] = "running"
    BY <1>5 DEF DriverServe, Flowing
  <2>2. queue[s] \in Seq(Callers)
    BY DEF TypeOK
  <2>3. /\ h \in Callers /\ h = queue[s][1]
        /\ Len(queue[s]) \in Nat /\ Len(queue[s]) >= 1
        /\ Tail(queue[s]) \in Seq(Callers)
        /\ Len(Tail(queue[s])) = Len(queue[s]) - 1
        /\ \A i \in 1..Len(Tail(queue[s])) : Tail(queue[s])[i] = queue[s][i + 1]
    BY <2>1, <2>2, TailFacts
  <2> HIDE DEF h
  <2>4. pc[h] = "open" /\ handle[h] = s /\ reply[h] = "none"
    BY <2>3 DEF QueueExact
  <2>5. TypeOK'
    BY <2>1, <2>3 DEF TypeOK
  <2>6. QueueExact'
    <3> SUFFICES ASSUME NEW r \in Sessions
                 PROVE  /\ driver'[r] = "gone" => queue'[r] = << >>
                        /\ \A i \in 1..Len(queue'[r]) :
                            /\ pc'[queue'[r][i]] = "open"
                            /\ handle'[queue'[r][i]] = r
                            /\ reply'[queue'[r][i]] = "none"
                        /\ \A i, j \in 1..Len(queue'[r]) : queue'[r][i] = queue'[r][j] => i = j
      BY SMTT(30), Z3T(30) DEF QueueExact
    <3>1. CASE r = s
      <4>1. queue'[s] = Tail(queue[s])
        BY <2>1 DEF TypeOK
      <4>2. \A i \in 1..Len(queue'[s]) :
              /\ i + 1 \in 1..Len(queue[s]) /\ queue'[s][i] = queue[s][i + 1]
              /\ queue[s][i + 1] # h
        BY <4>1, <2>3 DEF QueueExact
      <4>3. \A i \in 1..Len(queue[s]) : queue[s][i] \in Callers
        BY <2>2
      <4>4. \A i \in 1..Len(queue'[s]) :
              /\ pc[queue'[s][i]] = "open" /\ handle[queue'[s][i]] = s /\ reply[queue'[s][i]] = "none"
              /\ queue'[s][i] \in Callers /\ queue'[s][i] # h
        <5>1. \A i \in 1..Len(queue[s]) :
                pc[queue[s][i]] = "open" /\ handle[queue[s][i]] = s /\ reply[queue[s][i]] = "none"
          BY DEF QueueExact
        <5>2. ASSUME NEW i \in 1..Len(queue'[s])
              PROVE  /\ pc[queue'[s][i]] = "open" /\ handle[queue'[s][i]] = s
                     /\ reply[queue'[s][i]] = "none"
                     /\ queue'[s][i] \in Callers /\ queue'[s][i] # h
          <6>1. /\ i + 1 \in 1..Len(queue[s]) /\ queue'[s][i] = queue[s][i + 1]
                /\ queue[s][i + 1] # h
            BY <4>2
          <6> HIDE DEF Inv
          <6> QED BY <6>1, <4>3, <5>1
        <5> QED BY <5>2
      <4>5. \A i \in 1..Len(queue'[s]) : reply'[queue'[s][i]] = "none"
        BY <4>4, <2>1 DEF TypeOK
      <4>6. \A i, j \in 1..Len(queue'[s]) : queue'[s][i] = queue'[s][j] => i = j
        <5>1. ASSUME NEW i \in 1..Len(queue'[s]), NEW j \in 1..Len(queue'[s]),
                     queue'[s][i] = queue'[s][j]
              PROVE  i = j
          <6>1. /\ i + 1 \in 1..Len(queue[s]) /\ j + 1 \in 1..Len(queue[s])
                /\ queue[s][i + 1] = queue[s][j + 1]
            BY <5>1, <4>2
          <6>2. i + 1 = j + 1
            BY <6>1 DEF QueueExact
          <6> QED BY <6>2, SMTT(30)
        <5> QED BY <5>1
      <4>7. driver'[s] # "gone"
        BY <2>1
      <4>8. \A i \in 1..Len(queue'[s]) : pc'[queue'[s][i]] = "open" /\ handle'[queue'[s][i]] = s
        BY <4>4, <2>1
      <4> QED BY <3>1, <4>5, <4>6, <4>7, <4>8
    <3>2. CASE r # s
      <4>1. queue'[r] = queue[r]
        BY <3>2, <2>1 DEF TypeOK
      <4>2. \A i \in 1..Len(queue[r]) : queue[r][i] \in Callers /\ queue[r][i] # h
        BY <3>2, <2>4 DEF QueueExact, TypeOK
      <4> QED BY <4>1, <4>2, <2>1 DEF QueueExact, TypeOK
    <3> QED BY <3>1, <3>2
  <2>7. ReplyExpected' /\ StreamKnown' /\ CacheIsLive' /\ ErrorMeansGone'
    BY <2>1, <2>3, <2>4 DEF ReplyExpected, StreamKnown, CacheIsLive, ErrorMeansGone, TypeOK
  <2>8. OpenAccounted'
    <3> SUFFICES ASSUME NEW b \in Callers, pc'[b] = "open", reply'[b] = "none"
                 PROVE  /\ handle'[b] # NoSession /\ driver'[handle'[b]] = "running"
                        /\ \E i \in 1..Len(queue'[handle'[b]]) : queue'[handle'[b]][i] = b
      BY DEF OpenAccounted, InQueue
    <3>1. b # h /\ pc[b] = "open" /\ reply[b] = "none" /\ handle'[b] = handle[b]
      BY <2>1, <2>3, SMTT(30) DEF TypeOK
    <3>2. /\ handle[b] \in Sessions /\ driver[handle[b]] = "running"
          /\ \E i \in 1..Len(queue[handle[b]]) : queue[handle[b]][i] = b
      BY <3>1 DEF OpenAccounted, ReplyExpected, InQueue
    <3>3. CASE handle[b] # s
      BY <3>1, <3>2, <3>3, <2>1, NoSessionAssumption, SMTT(30), Z3T(30) DEF TypeOK
    <3>4. CASE handle[b] = s
      <4>1. PICK i \in 1..Len(queue[s]) : queue[s][i] = b
        BY <3>2, <3>4
      <4>2. i - 1 \in 1..Len(Tail(queue[s])) /\ Tail(queue[s])[i - 1] = b
        BY <4>1, <3>1, <2>3
      <4>3. queue'[s] = Tail(queue[s])
        BY <2>1 DEF TypeOK
      <4> QED BY <4>2, <4>3, <3>1, <3>2, <3>4, <2>1, NoSessionAssumption
    <3> QED BY <3>3, <3>4
  <2> QED BY <2>5, <2>6, <2>7, <2>8, SMTT(30)
<1>6. ASSUME NEW s \in Sessions, DriverOpenError(s) \/ DriverEof(s) \/ DriverClosed(s)
      PROVE Inv'
  BY <1>6, DriverExitStep DEF DriverOpenError, DriverEof, DriverClosed
<1>7. ASSUME NEW s \in Sessions, DriverShutdown(s) PROVE Inv'
  <2>1. /\ driver' = [driver EXCEPT ![s] = "closing"] /\ driver[s] = "running"
        /\ SESSION # s /\ \A c \in Callers : handle[c] # s
        /\ UNCHANGED <<SESSION, ws, queue, pc, attempt, handle, reply, stream, idle>>
    BY <1>7 DEF DriverShutdown, NoSenders
  <2>2. TypeOK'
    BY <2>1, SMTT(30) DEF TypeOK
  <2>3. QueueExact' /\ ReplyExpected' /\ StreamKnown' /\ ErrorMeansGone'
    BY <2>1 DEF QueueExact, ReplyExpected, StreamKnown, ErrorMeansGone, TypeOK
  <2>4. CacheIsLive'
    BY <2>1 DEF CacheIsLive, TypeOK, SessionOrNone
  <2>5. OpenAccounted'
    BY <2>1, SMTT(30), Z3T(30) DEF OpenAccounted, InQueue, ReplyExpected, TypeOK
  <2> QED BY <2>2, <2>3, <2>4, <2>5
<1>8. ASSUME UNCHANGED vars PROVE Inv'
  BY <1>8 DEF vars, TypeOK, QueueExact, ReplyExpected, StreamKnown, CacheIsLive,
              OpenAccounted, ErrorMeansGone, InQueue
<1> QED
  BY <1>1, <1>2, <1>3, <1>4, <1>5, <1>6, <1>7, <1>8 DEF Next, CallerStep, SessionStep

\* The invariant holds in every reachable state.
THEOREM Invariance == Spec => []Inv
<1>1. Init => Inv
  BY DEF Init, Inv, TypeOK, QueueExact, ReplyExpected, StreamKnown, CacheIsLive,
         OpenAccounted, ErrorMeansGone, SessionOrNone
<1> QED BY <1>1, NextStep, PTL DEF Spec

\* The variables of the session cache, the drivers and the callers keep their
\* types (yamux.rs, dialer.rs).
THEOREM TypeCorrect == Spec => []TypeOK
  BY Invariance, PTL DEF Inv

\* get_or_open never hands out a session whose driver has ended: every exit of
\* drive clears the cache, and only a running driver's session enters it.
THEOREM CacheLive == Spec => []CacheIsLive
  BY Invariance, PTL DEF Inv

\* No open_stream call is forgotten, however drivers end: a caller that waits
\* is in the queue of a running driver or has its answer.
THEOREM NoOpenForgotten == Spec => []OpenAccounted
  BY Invariance, PTL DEF Inv

\* The dialer reopens only after a session that is gone.
THEOREM ReopenJustified == Spec => []ErrorMeansGone
  BY Invariance, PTL DEF Inv

-----------------------------------------------------------------------------
(* The WebSocket beneath the session.                                      *)

\* The queued frames follow each other without a gap up to the last byte
\* accepted, and the cursor is an offset in the first of them.
FramesContiguous ==
    /\ \A i \in 1..Len(rx_buf) :
        /\ rx_buf[i].first + rx_buf[i].len <= received + 1
        /\ i < Len(rx_buf) => rx_buf[i + 1].first = rx_buf[i].first + rx_buf[i].len
        /\ i = Len(rx_buf) => rx_buf[i].first + rx_buf[i].len = received + 1
    /\ IF K!has_buffered THEN read_cursor < rx_buf[1].len ELSE read_cursor = 0

\* Nothing is queued after the cap was exceeded, for the stream is closed.
OverflowEnds == overflowed => closed /\ ~K!has_buffered

\* A waker belongs to the sleeping task, and an open socket has been reported.
WakersOwned ==
    /\ read_waker => task = "parked"
    /\ open_waker => task = "openParked"
    /\ sock = "open" => opened

\* The inductive invariant.
StreamInv == K!ReadInOrder /\ FramesContiguous /\ OverflowEnds /\ WakersOwned

\* The step leaves the queue, and what was counted of it, alone.
QueueSame ==
    /\ UNCHANGED <<rx_buf, rx_bytes, read_cursor, received, delivered, overflowed>>
    /\ closed => closed'

\* A step that leaves the queue alone and keeps the wakers honest.
LEMMA QueueKept ==
    ASSUME StreamInv, K!TypeOK', K!NoLostWakeup', WakersOwned', QueueSame
    PROVE  StreamInv'
<1> USE DEF QueueSame
<1>1. K!QueueExact'
  BY DEF StreamInv, K!ReadInOrder, K!QueueExact, K!NextByte, K!has_buffered
<1>2. FramesContiguous'
  BY DEF StreamInv, FramesContiguous, K!has_buffered
<1>3. OverflowEnds'
  BY DEF StreamInv, OverflowEnds, K!has_buffered
<1> QED BY <1>1, <1>2, <1>3 DEF StreamInv, K!ReadInOrder

\* The browser's callbacks that queue nothing.
LEMMA CallbackStep ==
    ASSUME StreamInv,
           K!on_open \/ K!TextFrame \/ K!on_error \/ K!FreedEvent \/ \E clean \in BOOLEAN : K!on_close(clean)
    PROVE  StreamInv'
<1> USE DEF StreamInv, K!ReadInOrder, K!QueueExact, K!Event, K!wake_read, K!wake_both,
            K!has_buffered, K!inner, K!history
<1>1. CASE K!on_open
  <2>1. K!TypeOK'
    BY <1>1 DEF K!on_open, K!TypeOK
  <2>2. K!NoLostWakeup' /\ WakersOwned'
    BY <1>1 DEF K!on_open, K!TypeOK, K!NoLostWakeup, WakersOwned
  <2>3. QueueSame
    BY <1>1 DEF K!on_open, QueueSame
  <2> QED BY <2>1, <2>2, <2>3, QueueKept
<1>2. CASE K!TextFrame
  <2>1. K!TypeOK'
    BY <1>2 DEF K!TextFrame, K!TypeOK
  <2>2. K!NoLostWakeup' /\ WakersOwned'
    BY <1>2 DEF K!TextFrame, K!TypeOK, K!NoLostWakeup, WakersOwned
  <2>3. QueueSame
    BY <1>2 DEF K!TextFrame, QueueSame
  <2> QED BY <2>1, <2>2, <2>3, QueueKept
<1>3. CASE K!on_error
  <2>1. K!TypeOK'
    BY <1>3 DEF K!on_error, K!TypeOK
  <2>2. K!NoLostWakeup' /\ WakersOwned'
    BY <1>3 DEF K!on_error, K!TypeOK, K!NoLostWakeup, WakersOwned
  <2>3. QueueSame
    BY <1>3 DEF K!on_error, QueueSame
  <2> QED BY <2>1, <2>2, <2>3, QueueKept
<1>4. CASE K!FreedEvent
  <2>1. K!TypeOK'
    BY <1>4 DEF K!FreedEvent, K!TypeOK
  <2>2. K!NoLostWakeup' /\ WakersOwned'
    BY <1>4 DEF K!FreedEvent, K!TypeOK, K!NoLostWakeup, WakersOwned
  <2>3. QueueSame
    BY <1>4 DEF K!FreedEvent, QueueSame
  <2> QED BY <2>1, <2>2, <2>3, QueueKept
<1>5. ASSUME NEW clean \in BOOLEAN, K!on_close(clean) PROVE StreamInv'
  <2>1. K!TypeOK'
    BY <1>5 DEF K!on_close, K!TypeOK
  <2>2. K!NoLostWakeup' /\ WakersOwned'
    BY <1>5 DEF K!on_close, K!TypeOK, K!NoLostWakeup, WakersOwned
  <2>3. QueueSame
    BY <1>5 DEF K!on_close, QueueSame
  <2> QED BY <2>1, <2>2, <2>3, QueueKept
<1> QED BY <1>1, <1>2, <1>3, <1>4, <1>5

\* The steps of the task that read no byte.
LEMMA TaskStep ==
    ASSUME StreamInv,
           K!OpenPoll \/ K!Poll \/ K!ReadError \/ K!ReadParks \/ K!WriteError \/ K!EndTick \/ K!poll_close \/ K!Drop
    PROVE  StreamInv'
<1> USE DEF StreamInv, K!ReadInOrder, K!QueueExact, K!has_buffered, K!inner, K!history
<1>1. CASE K!OpenPoll
  <2>1. K!TypeOK'
    <3>1. error' \in BOOLEAN /\ open_waker' \in BOOLEAN
      BY <1>1 DEF K!OpenPoll, K!TypeOK
    <3>2. task' \in {"opening", "openParked", "ready", "running", "parked", "dropped"}
          /\ callbacks' \in {"attached", "detached", "freed"}
      BY <1>1 DEF K!OpenPoll, K!TypeOK
    <3> QED BY <1>1, <3>1, <3>2, SMTT(30), Z3T(30) DEF K!OpenPoll, K!TypeOK
  <2>2. K!NoLostWakeup' /\ WakersOwned'
    BY <1>1 DEF K!OpenPoll, K!TypeOK, K!NoLostWakeup, WakersOwned
  <2>3. QueueSame
    BY <1>1 DEF K!OpenPoll, QueueSame
  <2> QED BY <2>1, <2>2, <2>3, QueueKept
<1>2. CASE K!Poll
  <2>1. K!TypeOK'
    BY <1>2 DEF K!Poll, K!TypeOK
  <2>2. K!NoLostWakeup' /\ WakersOwned'
    BY <1>2 DEF K!Poll, K!TypeOK, K!NoLostWakeup, WakersOwned
  <2>3. QueueSame
    BY <1>2 DEF K!Poll, QueueSame
  <2> QED BY <2>1, <2>2, <2>3, QueueKept
<1>3. CASE K!ReadError
  <2>1. K!TypeOK'
    BY <1>3 DEF K!ReadError, K!TypeOK
  <2>2. K!NoLostWakeup' /\ WakersOwned'
    BY <1>3 DEF K!ReadError, K!TypeOK, K!NoLostWakeup, WakersOwned
  <2>3. QueueSame
    BY <1>3 DEF K!ReadError, QueueSame
  <2> QED BY <2>1, <2>2, <2>3, QueueKept
<1>4. CASE K!ReadParks
  <2>1. K!TypeOK'
    BY <1>4 DEF K!ReadParks, K!TypeOK
  <2>2. K!NoLostWakeup' /\ WakersOwned'
    BY <1>4 DEF K!ReadParks, K!TypeOK, K!NoLostWakeup, WakersOwned
  <2>3. QueueSame
    BY <1>4 DEF K!ReadParks, QueueSame
  <2> QED BY <2>1, <2>2, <2>3, QueueKept
<1>5. CASE K!WriteError
  <2>1. K!TypeOK'
    BY <1>5 DEF K!WriteError, K!TypeOK
  <2>2. K!NoLostWakeup' /\ WakersOwned'
    BY <1>5 DEF K!WriteError, K!TypeOK, K!NoLostWakeup, WakersOwned
  <2>3. QueueSame
    BY <1>5 DEF K!WriteError, QueueSame
  <2> QED BY <2>1, <2>2, <2>3, QueueKept
<1>6. CASE K!EndTick
  <2>1. K!TypeOK'
    BY <1>6 DEF K!EndTick, K!TypeOK
  <2>2. K!NoLostWakeup' /\ WakersOwned'
    BY <1>6 DEF K!EndTick, K!TypeOK, K!NoLostWakeup, WakersOwned
  <2>3. QueueSame
    BY <1>6 DEF K!EndTick, QueueSame
  <2> QED BY <2>1, <2>2, <2>3, QueueKept
<1>7. CASE K!poll_close
  <2>1. K!TypeOK'
    BY <1>7 DEF K!poll_close, K!TypeOK
  <2>2. K!NoLostWakeup' /\ WakersOwned'
    BY <1>7 DEF K!poll_close, K!TypeOK, K!NoLostWakeup, WakersOwned
  <2>3. QueueSame
    BY <1>7, SMTT(30), Z3T(30) DEF K!poll_close, QueueSame
  <2> QED BY <2>1, <2>2, <2>3, QueueKept
<1>8. CASE K!Drop
  <2>1. K!TypeOK'
    BY <1>8 DEF K!Drop, K!TypeOK
  <2>2. K!NoLostWakeup' /\ WakersOwned'
    BY <1>8 DEF K!Drop, K!TypeOK, K!NoLostWakeup, WakersOwned
  <2>3. QueueSame
    BY <1>8 DEF K!Drop, QueueSame
  <2> QED BY <2>1, <2>2, <2>3, QueueKept
<1> QED BY <1>1, <1>2, <1>3, <1>4, <1>5, <1>6, <1>7, <1>8

\* The queue is a sequence of frames of at least one byte.
LEMMA QueuedFrames ==
    ASSUME K!TypeOK
    PROVE  /\ rx_buf \in Seq(K!Frame) /\ Len(rx_buf) \in Nat
           /\ K!has_buffered <=> Len(rx_buf) > 0
           /\ K!has_buffered => Head(rx_buf) = rx_buf[1]
           /\ \A i \in 1..Len(rx_buf) :
                /\ rx_buf[i] \in K!Frame /\ rx_buf[i].first \in Nat
                /\ rx_buf[i].len \in Nat /\ rx_buf[i].len > 0
           /\ received \in Nat /\ delivered \in Nat /\ read_cursor \in Nat
           /\ rx_bytes \in Nat /\ rx_bytes <= Cap /\ Cap \in Nat
<1>1. rx_buf \in Seq(K!Frame)
  BY DEF K!TypeOK
<1>2. \A i \in 1..Len(rx_buf) : rx_buf[i] \in K!Frame
  BY <1>1
<1>3. \A f \in K!Frame : f.first \in Nat /\ f.len \in Nat /\ f.len > 0
  BY SizesAssumption DEF K!Frame
<1>4. received \in Nat /\ delivered \in Nat /\ read_cursor \in Nat /\ rx_bytes \in 0..Cap /\ Cap \in Nat
  BY SizesAssumption DEF K!TypeOK
<1> QED BY <1>1, <1>2, <1>3, <1>4 DEF K!has_buffered

\* A frame that fits goes to the end of the queue.
LEMMA BinaryFrameStep ==
    ASSUME StreamInv, NEW n \in 1..MaxFrame, K!BinaryFrame(n)
    PROVE  StreamInv'
<1> DEFINE f == [first |-> received + 1, len |-> n]
<1>0. K!TypeOK
  BY DEF StreamInv, K!ReadInOrder, K!QueueExact
<1>1. n \in Nat /\ f \in K!Frame
  BY <1>0, QueuedFrames, SizesAssumption DEF K!Frame
<1>2. /\ rx_buf' = Append(rx_buf, f) /\ rx_bytes' = rx_bytes + n /\ received' = received + n
      /\ n <= Cap - rx_bytes /\ UNCHANGED <<delivered, overflowed, closed, read_cursor>> /\ ~closed
  BY DEF K!BinaryFrame
<1>3. /\ rx_buf' \in Seq(K!Frame) /\ Len(rx_buf') = Len(rx_buf) + 1
      /\ \A i \in 1..Len(rx_buf) : rx_buf'[i] = rx_buf[i]
      /\ rx_buf'[Len(rx_buf) + 1] = f
  <2>1. rx_buf \in Seq(K!Frame) /\ f \in K!Frame /\ rx_buf' = Append(rx_buf, f)
    BY <1>0, <1>1, <1>2, QueuedFrames
  <2> HIDE DEF f
  <2> QED BY <2>1, AppendFacts
<1>4. f.first = received + 1 /\ f.len = n
  OBVIOUS
<1>11. received \in Nat /\ rx_bytes \in Nat /\ Len(rx_buf) \in Nat /\ n \in Nat
  BY <1>0, <1>1, QueuedFrames
<1> HIDE DEF f
<1>5. K!has_buffered' /\ Head(rx_buf') = rx_buf'[1]
  BY <1>0, <1>3, QueuedFrames DEF K!has_buffered
<1>6. FramesContiguous'
  <2>1. ASSUME NEW i \in 1..Len(rx_buf')
        PROVE  /\ rx_buf'[i].first + rx_buf'[i].len <= received' + 1
               /\ i < Len(rx_buf') => rx_buf'[i + 1].first = rx_buf'[i].first + rx_buf'[i].len
               /\ i = Len(rx_buf') => rx_buf'[i].first + rx_buf'[i].len = received' + 1
    <3>1. CASE i = Len(rx_buf')
      <4>1. rx_buf'[i].first = received + 1 /\ rx_buf'[i].len = n
        BY <1>3, <1>4, <3>1, SMTT(30)
      <4> QED BY <1>1, <1>2, <3>1, <4>1, <1>11
    <3>2. CASE i < Len(rx_buf')
      <4>1. i \in 1..Len(rx_buf) /\ rx_buf'[i] = rx_buf[i] /\ rx_buf[i].first \in Nat /\ rx_buf[i].len \in Nat
        BY <1>0, <1>3, <3>2, QueuedFrames, SMTT(30), Z3T(30)
      <4>2. /\ rx_buf[i].first + rx_buf[i].len <= received + 1
            /\ i < Len(rx_buf) => rx_buf[i + 1].first = rx_buf[i].first + rx_buf[i].len
            /\ i = Len(rx_buf) => rx_buf[i].first + rx_buf[i].len = received + 1
        BY <4>1 DEF StreamInv, FramesContiguous
      <4>3. i < Len(rx_buf) => rx_buf'[i + 1] = rx_buf[i + 1]
        BY <1>3, <1>11
      <4>4. i = Len(rx_buf) => rx_buf'[i + 1].first = received + 1
        BY <1>3, <1>4
      <4> QED BY <1>2, <1>3, <1>11, <3>2, <4>1, <4>2, <4>3, <4>4, SMTT(30), Z3T(30)
    <3> QED BY <1>0, <1>3, <3>1, <3>2, QueuedFrames, SMTT(30), Z3T(30)
  <2>2. read_cursor' < rx_buf'[1].len
    <3>1. CASE K!has_buffered
      BY <1>0, <1>2, <1>3, <3>1, QueuedFrames, SMTT(30), Z3T(30) DEF StreamInv, FramesContiguous
    <3>2. CASE ~K!has_buffered
      BY <1>0, <1>1, <1>2, <1>3, <1>4, <3>2, QueuedFrames, SMTT(30), Z3T(30) DEF StreamInv, FramesContiguous
    <3> QED BY <3>1, <3>2, SMTT(30)
  <2> QED BY <1>5, <2>1, <2>2, SMTT(30), Z3T(30) DEF FramesContiguous
<1>7. K!NoLostWakeup' /\ WakersOwned'
  BY <1>0, SMTT(30), Z3T(30) DEF K!BinaryFrame, K!wake_read, K!TypeOK, K!NoLostWakeup, WakersOwned, StreamInv, K!ReadInOrder, K!Event
<1>8. K!TypeOK'
  <2>1. rx_bytes' \in 0..Cap /\ received' \in Nat
    BY <1>0, <1>1, <1>2, QueuedFrames, SMTT(30), Z3T(30)
  <2>2. task' \in {"opening", "openParked", "ready", "running", "parked", "dropped"} /\ read_waker' \in BOOLEAN
    BY <1>0 DEF K!TypeOK, K!BinaryFrame, K!wake_read
  <2> QED BY <1>0, <1>3, <2>1, <2>2 DEF K!BinaryFrame, K!TypeOK
<1>9. K!QueueExact'
  <2>1. K!NextByte' = K!NextByte /\ rx_bytes' = received' - rx_buf'[1].first + 1
    <3>1. CASE K!has_buffered
      <4>1. rx_bytes = received - rx_buf[1].first + 1 /\ K!NextByte = rx_buf[1].first + read_cursor
        BY <1>0, <3>1, QueuedFrames DEF K!NextByte, StreamInv, K!ReadInOrder, K!QueueExact
      <4>2. rx_buf'[1] = rx_buf[1] /\ rx_buf[1].first \in Nat
        BY <1>0, <1>3, <3>1, QueuedFrames, SMTT(30), Z3T(30)
      <4>3. K!NextByte' = rx_buf[1].first + read_cursor
        BY <1>2, <1>5, <4>2 DEF K!NextByte
      <4>4. /\ rx_bytes' = rx_bytes + n /\ received' = received + n
            /\ received \in Nat /\ rx_bytes \in Nat /\ n \in Nat
        BY <1>2, <1>11
      <4>5. rx_bytes' = received' - rx_buf[1].first + 1
        BY <4>1, <4>2, <4>4, SMTT(30), Z3T(30)
      <4> QED BY <4>1, <4>2, <4>3, <4>5
    <3>2. CASE ~K!has_buffered
      BY <1>0, <1>1, <1>2, <1>3, <1>4, <1>5, <3>2, QueuedFrames, SMTT(30), Z3T(30)
         DEF K!NextByte, StreamInv, K!ReadInOrder, K!QueueExact, FramesContiguous
    <3> QED BY <3>1, <3>2
  <2> QED BY <1>2, <1>5, <1>8, <2>1 DEF StreamInv, K!ReadInOrder, K!QueueExact
<1>10. OverflowEnds'
  BY <1>2 DEF OverflowEnds, StreamInv
<1> QED BY <1>6, <1>7, <1>8, <1>9, <1>10 DEF StreamInv, K!ReadInOrder

\* A frame beyond the cap empties the queue for good.
LEMMA OverflowStep ==
    ASSUME StreamInv, NEW n \in 1..MaxFrame, K!Overflow(n)
    PROVE  StreamInv'
<1>1. K!TypeOK'
  <2>1. rx_buf' \in Seq(K!Frame) /\ rx_bytes' \in 0..Cap /\ read_cursor' \in Nat
    BY SizesAssumption DEF K!Overflow
  <2>2. task' \in {"opening", "openParked", "ready", "running", "parked", "dropped"}
        /\ read_waker' \in BOOLEAN /\ open_waker' \in BOOLEAN
    BY DEF StreamInv, K!ReadInOrder, K!QueueExact, K!TypeOK, K!Overflow, K!wake_both
  <2> QED BY <2>1, <2>2 DEF StreamInv, K!ReadInOrder, K!QueueExact, K!TypeOK, K!Overflow
<1>2. K!NoLostWakeup' /\ WakersOwned'
  BY DEF StreamInv, K!ReadInOrder, K!NoLostWakeup, WakersOwned, K!Overflow, K!wake_both, K!Event, K!has_buffered, K!TypeOK, K!QueueExact
<1>3. rx_buf' = << >> /\ rx_bytes' = 0 /\ read_cursor' = 0 /\ overflowed' /\ closed' /\ Len(rx_buf') = 0
  BY DEF K!Overflow
<1>4. ~K!has_buffered'
  BY <1>3 DEF K!has_buffered
<1>5. FramesContiguous'
  BY <1>3, <1>4 DEF FramesContiguous
<1>6. K!QueueExact' /\ OverflowEnds'
  BY <1>1, <1>3, <1>4 DEF K!QueueExact, OverflowEnds
<1> QED BY <1>1, <1>2, <1>5, <1>6, SMTT(30) DEF StreamInv, K!ReadInOrder

\* poll_read moves the cursor inside the front frame, or to the next one.
LEMMA ReadDataStep ==
    ASSUME StreamInv, NEW n \in 1..MaxFrame, K!ReadData(n)
    PROVE  StreamInv'
<1>1. K!TypeOK /\ n \in Nat /\ n > 0
  BY SizesAssumption DEF StreamInv, K!ReadInOrder, K!QueueExact
<1>2. /\ K!has_buffered /\ delivered' = delivered + n /\ UNCHANGED <<received, overflowed, closed, task>>
      /\ n <= rx_buf[1].len - read_cursor /\ task = "running"
  BY <1>1, QueuedFrames, SMTT(30), Z3T(30) DEF K!ReadData
<1>3. rx_buf \in Seq(K!Frame) /\ Len(rx_buf) > 0 /\ Len(rx_buf) \in Nat /\ Head(rx_buf) = rx_buf[1]
  BY <1>1, <1>2, QueuedFrames
<1>4. \A i \in 1..Len(rx_buf) : rx_buf[i] \in K!Frame /\ rx_buf[i].first \in Nat /\ rx_buf[i].len \in Nat
  BY <1>1, QueuedFrames, SMTT(30), Z3T(30)
<1>10. /\ rx_buf[1].first \in Nat /\ rx_buf[1].len \in Nat
       /\ received \in Nat /\ delivered \in Nat /\ read_cursor \in Nat
       /\ rx_bytes \in Nat /\ rx_bytes <= Cap /\ Cap \in Nat
       /\ n \in Nat /\ delivered' = delivered + n /\ received' = received
  BY <1>1, <1>2, <1>3, <1>4, QueuedFrames, SMTT(30), Z3T(30)
<1>5. ~overflowed /\ ~overflowed'
  BY <1>2 DEF StreamInv, OverflowEnds
<1>6. OverflowEnds'
  BY <1>5, SMTT(30) DEF OverflowEnds
<1>7. K!NoLostWakeup' /\ WakersOwned'
  BY <1>2 DEF K!NoLostWakeup, WakersOwned, K!ReadData, StreamInv, K!ReadInOrder
<1>8. CASE read_cursor + n < rx_buf[1].len
  <2>1. read_cursor' = read_cursor + n /\ UNCHANGED <<rx_buf, rx_bytes>>
    BY <1>3, <1>10, <1>8, SMTT(30), Z3T(30) DEF K!ReadData
  <2>2. K!TypeOK'
    BY <1>1, <1>2, <2>1, SMTT(30), Z3T(30) DEF K!TypeOK, K!ReadData
  <2>3. FramesContiguous'
    BY <1>2, <1>8, <2>1 DEF FramesContiguous, StreamInv, K!has_buffered
  <2>4. K!QueueExact'
    <3>1. K!NextByte = rx_buf[1].first + read_cursor /\ K!NextByte' = rx_buf[1].first + read_cursor'
      BY <1>2, <1>3, <2>1, SMTT(30), Z3T(30) DEF K!NextByte, K!has_buffered
    <3>2. K!NextByte = delivered + 1 /\ rx_bytes = received - rx_buf[1].first + 1
      BY <1>2, <1>3, <1>5, SMTT(30), Z3T(30) DEF K!QueueExact, StreamInv, K!ReadInOrder
    <3>3. K!NextByte' = delivered' + 1
      BY <1>10, <2>1, <3>1, <3>2, SMTT(30), Z3T(30)
    <3>4. rx_bytes' = received' - Head(rx_buf').first + 1 /\ K!has_buffered'
      BY <1>2, <1>3, <2>1, <3>2 DEF K!has_buffered
    <3> QED BY <2>2, <3>3, <3>4, SMTT(30) DEF K!QueueExact
  <2> QED BY <1>6, <1>7, <2>2, <2>3, <2>4, SMTT(30) DEF StreamInv, K!ReadInOrder
<1>9. CASE read_cursor + n >= rx_buf[1].len
  <2>1. rx_buf' = Tail(rx_buf) /\ rx_bytes' = rx_bytes - rx_buf[1].len /\ read_cursor' = 0
    BY <1>3, <1>10, <1>9 DEF K!ReadData
  <2>10. rx_bytes' = rx_bytes - rx_buf[1].len /\ read_cursor' = 0
    BY <2>1
  <2>2. /\ rx_buf' \in Seq(K!Frame) /\ Len(rx_buf') = Len(rx_buf) - 1
        /\ \A i \in 1..Len(rx_buf') : rx_buf'[i] = rx_buf[i + 1]
    BY <1>1, <1>3, <2>1
  <2>3. K!has_buffered' <=> Len(rx_buf') > 0
    BY <2>2 DEF K!has_buffered
  <2>4. K!has_buffered' => Head(rx_buf') = rx_buf'[1] /\ rx_buf'[1] = rx_buf[2] /\ rx_buf[2] \in K!Frame
    BY <1>3, <1>4, <2>2, <2>3, SMTT(30), Z3T(30)
  <2>5. FramesContiguous'
    <3>1. \A i \in 1..Len(rx_buf') : i + 1 \in 1..Len(rx_buf) /\ (i < Len(rx_buf') <=> i + 1 < Len(rx_buf))
                                     /\ (i = Len(rx_buf') <=> i + 1 = Len(rx_buf))
      BY <1>3, <2>2
    <3>2. K!has_buffered' => 0 < rx_buf'[1].len
      BY <2>4 DEF K!Frame
    <3>3. ASSUME NEW i \in 1..Len(rx_buf')
          PROVE  /\ rx_buf'[i].first + rx_buf'[i].len <= received' + 1
                 /\ i < Len(rx_buf') => rx_buf'[i + 1].first = rx_buf'[i].first + rx_buf'[i].len
                 /\ i = Len(rx_buf') => rx_buf'[i].first + rx_buf'[i].len = received' + 1
      <4> DEFINE j == i + 1
      <4>1. j \in 1..Len(rx_buf) /\ rx_buf'[i] = rx_buf[j] /\ (i < Len(rx_buf') <=> j < Len(rx_buf))
            /\ (i = Len(rx_buf') <=> j = Len(rx_buf))
        BY <3>1, <2>2
      <4>2. i < Len(rx_buf') => rx_buf'[i + 1] = rx_buf[j + 1]
        BY <1>3, <2>2, SMTT(30), Z3T(30)
      <4> HIDE DEF j
      <4> QED BY <1>2, <4>1, <4>2 DEF StreamInv, FramesContiguous
    <3> QED BY <2>1, <3>2, <3>3 DEF FramesContiguous
  <2>6. /\ read_cursor + n = rx_buf[1].len
        /\ rx_buf[1].first + rx_buf[1].len <= received + 1
        /\ Len(rx_buf) = 1 => rx_buf[1].first + rx_buf[1].len = received + 1
        /\ Len(rx_buf) > 1 => rx_buf[2].first = rx_buf[1].first + rx_buf[1].len
    <3>1. 1 \in 1..Len(rx_buf)
      BY <1>3
    <3>2. /\ rx_buf[1].first + rx_buf[1].len <= received + 1
          /\ 1 = Len(rx_buf) => rx_buf[1].first + rx_buf[1].len = received + 1
          /\ 1 < Len(rx_buf) => rx_buf[1 + 1].first = rx_buf[1].first + rx_buf[1].len
      BY <3>1, ZenonT(30) DEF StreamInv, FramesContiguous
    <3>3. read_cursor < rx_buf[1].len
      BY <1>2 DEF StreamInv, FramesContiguous
    <3>4. n <= rx_buf[1].len - read_cursor
      BY <1>2
    <3>5. read_cursor + n = rx_buf[1].len
      BY <1>9, <1>10, <3>3, <3>4, SMTT(30), Z3T(30)
    <3> QED BY <3>2, <3>5
  <2>7. rx_bytes = received - rx_buf[1].first + 1 /\ rx_buf[1].first + read_cursor = delivered + 1
    BY <1>2, <1>3, <1>5 DEF StreamInv, K!ReadInOrder, K!QueueExact, K!NextByte
  <2>11. read_cursor + n = rx_buf[1].len /\ rx_buf[1].first + rx_buf[1].len <= received + 1
    BY <2>6, SMTT(30), Z3T(30)
  <2>8. K!TypeOK'
    <3>1. rx_bytes' \in 0..Cap
      BY <1>10, <2>7, <2>10, <2>11, SMTT(30), Z3T(30)
    <3>2. rx_buf' \in Seq(K!Frame) /\ read_cursor' \in Nat /\ received' \in Nat /\ delivered' \in Nat
      BY <1>10, <2>2, <2>10
    <3> QED BY <1>1, <3>1, <3>2, SMTT(30), Z3T(30) DEF K!TypeOK, K!ReadData
  <2>9. K!QueueExact'
    <3>1. CASE Len(rx_buf) = 1
      <4>1. ~K!has_buffered'
        BY <2>2, <2>3, <3>1, SMTT(30), Z3T(30)
      <4>2. rx_bytes' = 0 /\ received' + 1 = delivered' + 1
        BY <1>10, <2>10, <2>6, <2>7, <3>1, SMTT(30), Z3T(30)
      <4> QED BY <2>8, <4>1, <4>2 DEF K!QueueExact, K!NextByte
    <3>2. CASE Len(rx_buf) > 1
      <4>1. K!has_buffered' /\ Head(rx_buf').first = rx_buf[1].first + rx_buf[1].len
        BY <1>3, <2>2, <2>3, <2>4, <2>6, <3>2, SMTT(30), Z3T(30)
      <4>2. K!NextByte' = delivered' + 1
        BY <1>10, <2>7, <2>10, <2>11, <4>1, SMTT(30), Z3T(30) DEF K!NextByte
      <4>3. rx_bytes' = received' - Head(rx_buf').first + 1
        BY <1>10, <2>7, <2>10, <2>11, <4>1
      <4> QED BY <2>8, <4>1, <4>2, <4>3, SMTT(30), Z3T(30) DEF K!QueueExact
    <3>3. Len(rx_buf) = 1 \/ Len(rx_buf) > 1
      <4>1. \A k \in Nat : k > 0 => k = 1 \/ k > 1
        OBVIOUS
      <4> QED BY <1>3, <4>1, ZenonT(30)
    <3> QED BY <3>1, <3>2, <3>3
  <2> QED BY <1>6, <1>7, <2>5, <2>8, <2>9, SMTT(30) DEF StreamInv, K!ReadInOrder
<1> QED BY <1>8, <1>9, <1>10

-----------------------------------------------------------------------------
(* The invariant of the stream.                                            *)

\* It holds when open() creates the stream.
LEMMA StreamInitInv ==
    ASSUME K!Init
    PROVE  StreamInv
<1>0. rx_buf \in Seq(K!Frame)
  BY DEF K!Init
<1>1. K!TypeOK
  <2>1. /\ rx_bytes \in 0..Cap /\ read_cursor \in Nat /\ received \in Nat /\ delivered \in Nat
    BY SizesAssumption DEF K!Init
  <2>2. /\ sock \in {"connecting", "open", "failing", "closed"}
        /\ callbacks \in {"attached", "detached", "freed"}
        /\ task \in {"opening", "openParked", "ready", "running", "parked", "dropped"}
    BY DEF K!Init
  <2>3. /\ closed \in BOOLEAN /\ error \in BOOLEAN /\ opened \in BOOLEAN
        /\ read_waker \in BOOLEAN /\ open_waker \in BOOLEAN
        /\ overflowed \in BOOLEAN /\ errorTaken \in BOOLEAN /\ freedCall \in BOOLEAN
    BY DEF K!Init
  <2> QED BY <1>0, <2>1, <2>2, <2>3 DEF K!TypeOK
<1>4. K!NoLostWakeup /\ WakersOwned
  BY DEF K!Init, K!NoLostWakeup, WakersOwned
<1>2. ~K!has_buffered /\ Len(rx_buf) = 0
  BY DEF K!Init, K!has_buffered
<1>3. K!QueueExact /\ FramesContiguous /\ OverflowEnds
  BY <1>1, <1>2 DEF K!Init, K!QueueExact, K!NextByte, FramesContiguous, OverflowEnds
<1> QED BY <1>3, <1>4 DEF StreamInv, K!ReadInOrder

\* Every callback and every step of the task keeps it.
LEMMA StreamNextInv ==
    ASSUME StreamInv, [K!Next]_K!vars
    PROVE  StreamInv'
<1>1. CASE K!Next
  BY <1>1, CallbackStep, TaskStep, BinaryFrameStep, OverflowStep, ReadDataStep DEF K!Next
<1>2. CASE UNCHANGED K!vars
  <2> USE <1>2 DEF K!vars, K!inner, K!history
  <2>1. K!TypeOK'
    BY DEF StreamInv, K!ReadInOrder, K!QueueExact, K!TypeOK
  <2>2. K!NoLostWakeup' /\ WakersOwned'
    BY DEF StreamInv, K!ReadInOrder, K!NoLostWakeup, WakersOwned, K!has_buffered
  <2> QED BY <2>1, <2>2, QueueKept DEF QueueSame
<1> QED BY <1>1, <1>2

\* For any receive cap and frame length: rx_buf holds exactly the bytes
\* accepted and not yet read, rx_bytes counts them, and a sleeping task has its
\* waker registered and nothing to wake up for.
THEOREM StreamReadInOrder == K!Spec => []ReadInOrder
<1>1. K!Init => StreamInv
  BY StreamInitInv
<1>2. StreamInv /\ [K!Next]_K!vars => StreamInv'
  BY StreamNextInv
<1>3. StreamInv => ReadInOrder
  BY DEF StreamInv, ReadInOrder
<1> QED BY <1>1, <1>2, <1>3, PTL DEF K!Spec

\* poll_read takes a recorded error only when every accepted byte was read or
\* the cap was exceeded.
THEOREM StreamErrorAfterData == K!Spec => ErrorAfterData
<1>1. K!Init => StreamInv
  BY StreamInitInv
<1>2. StreamInv /\ [K!Next]_K!vars => StreamInv'
  BY StreamNextInv
<1>3. StreamInv /\ [K!Next]_K!vars => [K!ReadError => overflowed \/ delivered = received]_K!vars
  BY DEF StreamInv, K!ReadInOrder, K!QueueExact, K!TypeOK, K!NextByte, K!ReadError
<1> QED BY <1>1, <1>2, <1>3, PTL DEF K!Spec, K!ErrorAfterData, ErrorAfterData

=============================================================================

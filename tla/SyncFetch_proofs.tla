-------------------------- MODULE SyncFetch_proofs --------------------------
(***************************************************************************)
(* Proofs about SyncFetch: for any pages, ids, hosts and polls, a job is   *)
(* held under its own id and host and no longer than its page waits, and a *)
(* page whose id is its own gets its own result or none.                   *)
(***************************************************************************)
EXTENDS SyncFetch, TLAPS

-----------------------------------------------------------------------------
(* The strengthening.                                                      *)

\* What waits in a host's channel was put there by a page of that host.
QueueScoped ==
    \A h \in Hosts : \A i \in 1..Len(queue[h]) : HostOf[queue[h][i]] = h

\* A job that has a result is registered no more, and a page that has not been
\* enqueued has none.
TakenOnce ==
    /\ \A r \in Requests : result[r] # NoRequest => jobs[IdOf[r]] # r
    /\ \A r \in Requests : page[r] = "new" => result[r] = NoRequest

\* The inductive invariant.
Inv == TypeOK /\ NoLeak /\ ScopedByHost /\ QueueScoped /\ TakenOnce /\ OwnIdServed

-----------------------------------------------------------------------------
(* The two channel operations, element by element.                         *)

LEMMA AppendFacts ==
    ASSUME NEW S, NEW q \in Seq(S), NEW x \in S
    PROVE  /\ Append(q, x) \in Seq(S)
           /\ Len(q) \in Nat /\ Len(Append(q, x)) = Len(q) + 1
           /\ \A i \in 1..Len(Append(q, x)) : Append(q, x)[i] = IF i <= Len(q) THEN q[i] ELSE x
  OBVIOUS

\* What is left of a queue whose head is taken.
LEMMA TailFacts ==
    ASSUME NEW S, NEW q \in Seq(S), q # << >>
    PROVE  /\ Head(q) \in S
           /\ Len(q) \in Nat /\ Len(q) >= 1 /\ Head(q) = q[1]
           /\ Tail(q) \in Seq(S)
           /\ Len(Tail(q)) = Len(q) - 1
           /\ \A i \in 1..Len(Tail(q)) : Tail(q)[i] = q[i + 1]
  OBVIOUS

-----------------------------------------------------------------------------
(* A step that moves only what it says keeps the rest of the invariant.    *)

\* A step that leaves the registered jobs, the results and the pages alone, and
\* hands jobs on within their host.
LEMMA HandsOn ==
    ASSUME Inv, TypeOK', UNCHANGED <<jobs, page, result>>,
           QueueScoped',
           \A h \in Hosts : \A r \in work'[h] : HostOf[r] = h,
           \A p \in Pollers : \A i \in 1..Len(batch'[p]) : HostOf[batch'[p][i]] = PollHost[p]
    PROVE  Inv'
  BY DEF Inv, NoLeak, ScopedByHost, TakenOnce, OwnIdServed

-----------------------------------------------------------------------------
(* One lemma per action.                                                   *)

\* A page that is refused.
LEMMA RefuseStep ==
    ASSUME Inv, NEW r \in Requests, NEW why \in Answers, page[r] = "new", Refuse(r, why),
           UNCHANGED <<hubClosed, result, poll, batch, client, work, troubled>>
    PROVE  Inv'
<1> USE DEF Inv
<1>1. /\ page' = [page EXCEPT ![r] = "done"]
      /\ answer' = [answer EXCEPT ![r] = why]
      /\ UNCHANGED <<jobs, queue>>
  BY DEF Refuse
<1>2. TypeOK'
  BY <1>1 DEF TypeOK
<1>3. NoLeak'
  BY <1>1, <1>2 DEF NoLeak, TypeOK
<1>4. ScopedByHost' /\ QueueScoped'
  BY <1>1 DEF ScopedByHost, QueueScoped
<1>5. TakenOnce' /\ OwnIdServed'
  BY <1>1 DEF TakenOnce, OwnIdServed, TypeOK
<1> QED BY <1>2, <1>3, <1>4, <1>5

\* A job is registered under its id and queued for its host.
LEMMA EnqueueStep ==
    ASSUME Inv, NEW r \in Requests, enqueue(r)
    PROVE  Inv'
<1> USE DEF Inv
<1>1. CASE \E why \in {"full", "duplicate"} : Refuse(r, why)
  BY <1>1, RefuseStep DEF enqueue, Answers
<1>2. CASE /\ jobs[IdOf[r]] = NoRequest /\ Len(queue[HostOf[r]]) < QueueCap
           /\ queue' = [queue EXCEPT ![HostOf[r]] = Append(@, r)]
           /\ jobs' = [jobs EXCEPT ![IdOf[r]] = r]
           /\ page' = [page EXCEPT ![r] = "parked"]
           /\ UNCHANGED answer
  <2> DEFINE h == HostOf[r]
  <2>1. h \in Hosts /\ IdOf[r] \in Ids /\ page[r] = "new"
        /\ UNCHANGED <<hubClosed, result, poll, batch, client, work, troubled>>
    BY ConstantsAssumption DEF enqueue
  <2>2. /\ queue'[h] \in Seq(Requests) /\ Len(queue[h]) \in Nat
        /\ Len(queue'[h]) = Len(queue[h]) + 1
        /\ \A i \in 1..Len(queue'[h]) : queue'[h][i] = IF i <= Len(queue[h]) THEN queue[h][i] ELSE r
        /\ \A g \in Hosts \ {h} : queue'[g] = queue[g]
    BY <1>2, <2>1, AppendFacts, SMTT(30), Z3T(30) DEF TypeOK
  <2>3. TypeOK'
    <3>1. queue' \in [Hosts -> Seq(Requests)] /\ \A g \in Hosts : Len(queue'[g]) <= QueueCap
      BY <1>2, <2>1, <2>2, ConstantsAssumption DEF TypeOK
    <3> QED BY <1>2, <2>1, <3>1 DEF TypeOK
  <2>4. NoLeak'
    BY <1>2, <2>1, <2>3, ConstantsAssumption DEF NoLeak, TypeOK
  <2>5. QueueScoped'
    <3>1. ASSUME NEW i \in 1..Len(queue'[h]) PROVE HostOf[queue'[h][i]] = h
      <4>1. CASE i <= Len(queue[h])
        BY <4>1, <2>1, <2>2, SMTT(30), Z3T(30) DEF QueueScoped
      <4>2. CASE ~(i <= Len(queue[h]))
        BY <4>2, <2>2
      <4> QED BY <4>1, <4>2
    <3>2. ASSUME NEW g \in Hosts \ {h}, NEW i \in 1..Len(queue'[g]) PROVE HostOf[queue'[g][i]] = g
      BY <2>2 DEF QueueScoped
    <3> QED BY <3>1, <3>2 DEF QueueScoped
  <2>6. ScopedByHost'
    BY <2>1 DEF ScopedByHost
  <2>7. TakenOnce' /\ OwnIdServed'
    BY <1>2, <2>1, ConstantsAssumption DEF TakenOnce, OwnIdServed, TypeOK
  <2> QED BY <2>3, <2>4, <2>5, <2>6, <2>7
<1> QED BY <1>1, <1>2 DEF enqueue

\* The handler answers with the result: its job was taken when that was posted.
LEMMA ReceiveResultStep ==
    ASSUME Inv, NEW r \in Requests, ReceiveResult(r)
    PROVE  Inv'
<1> USE DEF Inv
<1>1. /\ page[r] = "parked" /\ result[r] # NoRequest
      /\ page' = [page EXCEPT ![r] = "done"]
      /\ answer' = [answer EXCEPT ![r] = "result"]
      /\ UNCHANGED <<hubClosed, jobs, queue, result, poll, batch, client, work, troubled>>
  BY DEF ReceiveResult
<1>2. TypeOK'
  BY <1>1 DEF TypeOK, Answers
<1>3. NoLeak'
  BY <1>1, <1>2, ConstantsAssumption DEF NoLeak, TakenOnce, TypeOK
<1>4. ScopedByHost' /\ QueueScoped'
  BY <1>1 DEF ScopedByHost, QueueScoped
<1>5. TakenOnce' /\ OwnIdServed'
  BY <1>1 DEF TakenOnce, OwnIdServed, TypeOK
<1> QED BY <1>2, <1>3, <1>4, <1>5

\* A parked page gives up: its timer fires, its client goes away or the hub
\* shuts down.
LEMMA ExpireStep ==
    ASSUME Inv, NEW r \in Requests, NEW why \in Answers, Expire(r, why)
    PROVE  Inv'
<1> USE DEF Inv
<1>1. /\ page[r] = "parked"
      /\ page' = [page EXCEPT ![r] = "expiring"]
      /\ answer' = [answer EXCEPT ![r] = why]
      /\ troubled' \in BOOLEAN
      /\ UNCHANGED <<hubClosed, jobs, queue, result, poll, batch, client, work>>
  BY DEF Expire
<1>2. TypeOK'
  BY <1>1 DEF TypeOK
<1>3. NoLeak'
  BY <1>1, <1>2 DEF NoLeak, TypeOK
<1>4. ScopedByHost' /\ QueueScoped'
  BY <1>1 DEF ScopedByHost, QueueScoped
<1>5. TakenOnce' /\ OwnIdServed'
  BY <1>1 DEF TakenOnce, OwnIdServed, TypeOK
<1> QED BY <1>2, <1>3, <1>4, <1>5

\* The handler that gives up takes out whatever its id names, another page's
\* job too: that page then waits for its timer, but leaks nothing.
LEMMA TakeStep ==
    ASSUME Inv, NEW r \in Requests, take(r)
    PROVE  Inv'
<1> USE DEF Inv
<1>1. /\ page[r] = "expiring" /\ IdOf[r] \in Ids
      /\ jobs' = [jobs EXCEPT ![IdOf[r]] = NoRequest]
      /\ page' = [page EXCEPT ![r] = "done"]
      /\ UNCHANGED <<hubClosed, queue, result, answer, poll, batch, client, work, troubled>>
  BY ConstantsAssumption DEF take
<1>2. TypeOK'
  BY <1>1 DEF TypeOK
<1>3. NoLeak'
  BY <1>1, <1>2 DEF NoLeak, TypeOK
<1>4. ScopedByHost' /\ QueueScoped'
  BY <1>1 DEF ScopedByHost, QueueScoped
<1>5. TakenOnce'
  BY <1>1, ConstantsAssumption DEF TakenOnce, TypeOK
<1>6. OwnIdServed'
  BY <1>1, ConstantsAssumption, SMTT(30) DEF OwnIdServed, TypeOK
<1> QED BY <1>2, <1>3, <1>4, <1>5, <1>6

\* A poll handler moves the head of its host's channel to its batch.
LEMMA PollReceiveStep ==
    ASSUME Inv, NEW p \in Pollers, PollReceive(p)
    PROVE  Inv'
<1> USE DEF Inv
<1> DEFINE h == PollHost[p]
<1>1. /\ h \in Hosts /\ Len(batch[p]) < PollBatch /\ queue[h] # << >>
      /\ poll' = [poll EXCEPT ![p] = "draining"]
      /\ batch' = [batch EXCEPT ![p] = Append(batch[p], Head(queue[h]))]
      /\ queue' = [queue EXCEPT ![h] = Tail(queue[h])]
      /\ UNCHANGED <<hubClosed, jobs, page, result, answer, client, work, troubled>>
  BY ConstantsAssumption DEF PollReceive
<1>2. /\ Head(queue[h]) \in Requests
      /\ Len(queue[h]) \in Nat /\ Len(queue[h]) >= 1 /\ Head(queue[h]) = queue[h][1]
      /\ queue'[h] \in Seq(Requests)
      /\ Len(queue'[h]) = Len(queue[h]) - 1
      /\ \A i \in 1..Len(queue'[h]) : queue'[h][i] = queue[h][i + 1]
      /\ \A g \in Hosts \ {h} : queue'[g] = queue[g]
  BY <1>1, TailFacts DEF TypeOK
<1>3. /\ batch'[p] \in Seq(Requests) /\ Len(batch[p]) \in Nat
      /\ Len(batch'[p]) = Len(batch[p]) + 1
      /\ \A i \in 1..Len(batch'[p]) :
            batch'[p][i] = IF i <= Len(batch[p]) THEN batch[p][i] ELSE queue[h][1]
      /\ \A q \in Pollers \ {p} : batch'[q] = batch[q]
  BY <1>1, <1>2, AppendFacts DEF TypeOK
<1>4. TypeOK'
  <2>1. queue' \in [Hosts -> Seq(Requests)] /\ \A g \in Hosts : Len(queue'[g]) <= QueueCap
    BY <1>1, <1>2, ConstantsAssumption DEF TypeOK
  <2>2. batch' \in [Pollers -> Seq(Requests)] /\ \A q \in Pollers : Len(batch'[q]) <= PollBatch
    BY <1>1, <1>3, ConstantsAssumption DEF TypeOK
  <2> QED BY <1>1, <2>1, <2>2 DEF TypeOK
<1>5. QueueScoped'
  <2>1. \A i \in 1..Len(queue'[h]) : HostOf[queue'[h][i]] = h
    BY <1>1, <1>2 DEF QueueScoped
  <2>2. \A g \in Hosts \ {h} : \A i \in 1..Len(queue'[g]) : HostOf[queue'[g][i]] = g
    BY <1>2 DEF QueueScoped
  <2> QED BY <2>1, <2>2 DEF QueueScoped
<1>6. ASSUME NEW q \in Pollers, NEW i \in 1..Len(batch'[q]) PROVE HostOf[batch'[q][i]] = PollHost[q]
  <2>1. CASE q # p
    BY <2>1, <1>3 DEF ScopedByHost
  <2>2. CASE q = p /\ i <= Len(batch[p])
    BY <2>2, <1>3, SMTT(30) DEF ScopedByHost
  <2>3. CASE q = p /\ ~(i <= Len(batch[p]))
    BY <2>3, <1>1, <1>2, <1>3 DEF QueueScoped
  <2> QED BY <2>1, <2>2, <2>3
<1>7. \A g \in Hosts : \A r \in work'[g] : HostOf[r] = g
  BY <1>1 DEF ScopedByHost
<1> QED BY <1>1, <1>4, <1>5, <1>6, <1>7, HandsOn

\* The batch goes to the worker that polled, of the poll's host.
LEMMA PollRespondStep ==
    ASSUME Inv, NEW p \in Pollers, PollRespond(p)
    PROVE  Inv'
<1> USE DEF Inv
<1> DEFINE h == PollHost[p]
           given == {batch[p][i] : i \in 1..Len(batch[p])}
<1>1. /\ h \in Hosts
      /\ poll' = [poll EXCEPT ![p] = "idle"]
      /\ batch' = [batch EXCEPT ![p] = << >>]
      /\ client' = [client EXCEPT ![p] = FALSE]
      /\ work' = [work EXCEPT ![h] = IF client[p] THEN work[h] \cup given ELSE work[h]]
      /\ UNCHANGED <<hubClosed, jobs, queue, page, result, answer, troubled>>
  BY ConstantsAssumption DEF PollRespond
<1>2. given \subseteq Requests /\ \A r \in given : HostOf[r] = h
  BY DEF ScopedByHost, TypeOK
<1> HIDE DEF given
<1>3. batch' \in [Pollers -> Seq(Requests)] /\ \A q \in Pollers : Len(batch'[q]) <= PollBatch
  BY <1>1, ConstantsAssumption DEF TypeOK
<1>4. work' \in [Hosts -> SUBSET Requests] /\ \A g \in Hosts : \A r \in work'[g] : HostOf[r] = g
  BY <1>1, <1>2 DEF TypeOK, ScopedByHost
<1>5. TypeOK'
  BY <1>1, <1>3, <1>4 DEF TypeOK
<1>6. QueueScoped'
  BY <1>1 DEF QueueScoped
<1>7. \A q \in Pollers : \A i \in 1..Len(batch'[q]) : HostOf[batch'[q][i]] = PollHost[q]
  BY <1>1, SMTT(30) DEF ScopedByHost, TypeOK
<1> QED BY <1>1, <1>4, <1>5, <1>6, <1>7, HandsOn, SMTT(30)

\* The other steps of a poll hand nothing on.
LEMMA PollOtherStep ==
    ASSUME Inv, NEW p \in Pollers, PollStart(p) \/ PollEnd(p) \/ PollBreaks(p)
    PROVE  Inv'
<1> USE DEF Inv
<1>1. /\ poll' \in [Pollers -> {"idle", "waiting", "draining"}]
      /\ client' \in [Pollers -> BOOLEAN]
      /\ troubled' \in BOOLEAN
      /\ UNCHANGED <<hubClosed, jobs, queue, page, result, answer, batch, work>>
  BY DEF PollStart, PollEnd, PollBreaks, TypeOK
<1>2. TypeOK' /\ QueueScoped'
  BY <1>1 DEF TypeOK, QueueScoped
<1> QED BY <1>1, <1>2, HandsOn DEF ScopedByHost

\* A posted result goes to the job its id names, if that is of the worker's
\* host, and takes it out.
LEMMA PostResultStep ==
    ASSUME Inv, NEW h \in Hosts, NEW r \in Requests, PostResult(h, r)
    PROVE  Inv'
<1> USE DEF Inv
<1> DEFINE j == jobs[IdOf[r]]
<1>1. /\ r \in work[h] /\ HostOf[r] = h /\ IdOf[r] \in Ids
      /\ work' = [work EXCEPT ![h] = work[h] \ {r}]
      /\ UNCHANGED <<hubClosed, queue, page, answer, poll, batch, client, troubled>>
  BY ConstantsAssumption DEF PostResult, ScopedByHost
<1>2. QueueScoped'
  BY <1>1 DEF QueueScoped
<1>3. \A g \in Hosts : \A s \in work'[g] : HostOf[s] = g
  BY <1>1, SMTT(30) DEF ScopedByHost, TypeOK
<1>4. \A p \in Pollers : \A i \in 1..Len(batch'[p]) : HostOf[batch'[p][i]] = PollHost[p]
  BY <1>1 DEF ScopedByHost
<1>5. CASE /\ j # NoRequest /\ HostOf[j] = h
           /\ result' = [result EXCEPT ![j] = r]
           /\ jobs' = [jobs EXCEPT ![IdOf[r]] = NoRequest]
  <2>1. j \in Requests /\ IdOf[j] = IdOf[r] /\ page[j] \in {"parked", "expiring"}
    BY <1>1, <1>5, SMTT(30) DEF NoLeak, TypeOK
  <2>2. TypeOK'
    BY <1>1, <1>5, <2>1, SMTT(30), Z3T(30) DEF TypeOK
  <2>3. NoLeak'
    BY <1>1, <1>5, <2>2, SMTT(30), Z3T(30) DEF NoLeak, TypeOK
  <2>4. ScopedByHost'
    BY <1>1, <1>3, <1>4, <1>5, <2>1 DEF ScopedByHost, TypeOK
  <2>5. TakenOnce'
    BY <1>1, <1>5, <2>1, ConstantsAssumption DEF TakenOnce, TypeOK
  <2>6. OwnIdServed'
    BY <1>1, <1>5, <2>1, ConstantsAssumption DEF OwnIdServed, TypeOK
  <2> QED BY <1>2, <2>2, <2>3, <2>4, <2>5, <2>6, SMTT(30)
<1>6. CASE UNCHANGED <<result, jobs>>
  <2>1. TypeOK'
    BY <1>1, <1>6, SMTT(30) DEF TypeOK
  <2> QED BY <1>1, <1>2, <1>3, <1>4, <1>6, <2>1, HandsOn
<1> QED BY <1>5, <1>6 DEF PostResult

\* A worker that loses a post, or dies, performs fewer jobs.
LEMMA WorkerLosesStep ==
    ASSUME Inv, NEW h \in Hosts, WorkerDies(h) \/ \E r \in Requests : LosePost(h, r)
    PROVE  Inv'
<1> USE DEF Inv
<1>1. /\ \E left \in SUBSET work[h] : work' = [work EXCEPT ![h] = left]
      /\ client' \in [Pollers -> BOOLEAN]
      /\ troubled' = TRUE
      /\ UNCHANGED <<hubClosed, jobs, queue, page, result, answer, poll, batch>>
  BY DEF WorkerDies, LosePost, TypeOK
<1>2. TypeOK' /\ QueueScoped'
  BY <1>1 DEF TypeOK, QueueScoped
<1>3. \A g \in Hosts : \A r \in work'[g] : HostOf[r] = g
  BY <1>1 DEF ScopedByHost, TypeOK
<1> QED BY <1>1, <1>2, <1>3, HandsOn DEF ScopedByHost

-----------------------------------------------------------------------------
(* The invariant.                                                          *)

LEMMA InitInv == Init => Inv
<1> SUFFICES ASSUME Init PROVE Inv
  OBVIOUS
<1> USE ConstantsAssumption DEF Init
<1>1. TypeOK
  <2>1. /\ queue \in [Hosts -> Seq(Requests)] /\ \A h \in Hosts : Len(queue[h]) <= QueueCap
        /\ batch \in [Pollers -> Seq(Requests)] /\ \A p \in Pollers : Len(batch[p]) <= PollBatch
    OBVIOUS
  <2> QED BY <2>1 DEF TypeOK, Answers
<1>2. NoLeak
  BY <1>1 DEF NoLeak
<1>3. ScopedByHost /\ QueueScoped
  BY DEF ScopedByHost, QueueScoped
<1>4. TakenOnce /\ OwnIdServed
  BY DEF TakenOnce, OwnIdServed
<1> QED BY <1>1, <1>2, <1>3, <1>4 DEF Inv

\* Every step of the rendezvous keeps the inductive invariant.
LEMMA NextInv == Inv /\ [Next]_vars => Inv'
<1> SUFFICES ASSUME Inv, [Next]_vars PROVE Inv'
  BY SMTT(30)
<1>1. ASSUME Close PROVE Inv'
  <2>1. TypeOK' /\ QueueScoped'
    BY <1>1 DEF Close, Inv, TypeOK, QueueScoped
  <2> QED BY <1>1, <2>1, HandsOn, SMTT(30), Z3T(30) DEF Close, Inv, ScopedByHost
<1>2. ASSUME NEW r \in Requests, HandlerStep(r) \/ Timeout(r) \/ PageLeaves(r) PROVE Inv'
  BY <1>2, EnqueueStep, ReceiveResultStep, ExpireStep, TakeStep
  DEF HandlerStep, HubCloses, Timeout, PageLeaves, Answers
<1>3. ASSUME NEW p \in Pollers, PollStep(p) \/ PollBreaks(p) PROVE Inv'
  BY <1>3, PollReceiveStep, PollRespondStep, PollOtherStep DEF PollStep
<1>4. ASSUME NEW h \in Hosts, WorkerDies(h) PROVE Inv'
  BY <1>4, WorkerLosesStep
<1>5. ASSUME NEW h \in Hosts, NEW r \in Requests, PostResult(h, r) \/ LosePost(h, r) PROVE Inv'
  BY <1>5, PostResultStep, WorkerLosesStep, SMTT(30)
<1>6. CASE UNCHANGED vars
  BY <1>6 DEF vars, Inv, TypeOK, NoLeak, ScopedByHost, QueueScoped, TakenOnce, OwnIdServed
<1> QED BY <1>1, <1>2, <1>3, <1>4, <1>5, <1>6 DEF Next

\* The inductive invariant holds, for any constants.
LEMMA InvHolds == Spec => []Inv
  BY InitInv, NextInv, PTL DEF Spec

\* hub.jobs holds a job only under its id and while its page waits, and jobs
\* and results stay with the page's host, however handlers, polls, posts,
\* losses and worker deaths interleave.
THEOREM JobsHeldByOwner == Spec => []JobsOwned
<1>1. Inv => JobsOwned
  BY DEF Inv, JobsOwned
<1> QED BY <1>1, InvHolds, PTL

\* The safety half of CalmPageServed: a parked page whose id nobody else uses
\* stays registered until its result is in its channel, and can receive no
\* other page's.
THEOREM OwnIdAnswered == Spec => []OwnIdServed
<1>1. Inv => OwnIdServed
  BY DEF Inv
<1> QED BY <1>1, InvHolds, PTL
=============================================================================

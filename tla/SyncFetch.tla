------------------------------ MODULE SyncFetch ------------------------------
(***************************************************************************)
(* The synchronous-XHR rendezvous: internal/httphost/syncfetch.go and the  *)
(* polling loop of web/sw.js.                                              *)
(*                                                                         *)
(* A page request parks in handleSyncFetch (a goroutine of the Go host).   *)
(* The Service Worker of the page's host long-polls for jobs, performs     *)
(* them and posts the results.  Goroutines interleave between lock         *)
(* sections and selects; the worker may be killed at any time, a response  *)
(* or a post may be lost, a request may time out while its result is on    *)
(* the way.  The id of a request is chosen by the page: a URL with its id  *)
(* may be requested again (relayifyCSSFetchURLs writes ids into CSS).      *)
(***************************************************************************)
EXTENDS Naturals, Sequences, FiniteSets

CONSTANTS
    Requests,   \* requests pages make, each once
    Ids,        \* request ids (rid)
    Hosts,      \* origin hosts, each with a Service Worker of its own
    Pollers,    \* poll requests: two of one host when a dead worker's lingers
    IdOf,       \* the id of a request
    HostOf,     \* the host of a request's page
    PollHost,   \* the host of a poll
    QueueCap,   \* syncFetchQueueCap
    PollBatch,  \* syncFetchPollBatch
    NoRequest   \* no job, no result

ASSUME ConstantsAssumption ==
    /\ IdOf \in [Requests -> Ids]
    /\ HostOf \in [Requests -> Hosts]
    /\ PollHost \in [Pollers -> Hosts]
    /\ QueueCap \in Nat \ {0} /\ PollBatch \in Nat \ {0}
    /\ NoRequest \notin Requests

VARIABLES
    hubClosed,  \* hub.closed is closed
    jobs,       \* hub.jobs: the job registered under an id
    queue,      \* hub.queues: the channel of each host
    page,       \* where each request's handler is
    result,     \* each job's result channel: the job whose fetch it carries
    answer,     \* what the page was answered
    poll,       \* where each poll handler is
    batch,      \* the jobs a poll handler has received
    client,     \* whether the worker that sent the poll is still there
    work,       \* jobs the host's current worker is performing
    troubled    \* history: something has timed out, been lost or been killed

vars == <<hubClosed, jobs, queue, page, result, answer, poll, batch, client, work, troubled>>

Answers == {"none", "result", "timeout", "closed", "gone", "duplicate", "full"}

TypeOK ==
    /\ hubClosed \in BOOLEAN
    /\ jobs \in [Ids -> Requests \cup {NoRequest}]
    /\ queue \in [Hosts -> Seq(Requests)]
    /\ page \in [Requests -> {"new", "parked", "expiring", "done"}]
    /\ result \in [Requests -> Requests \cup {NoRequest}]
    /\ answer \in [Requests -> Answers]
    /\ poll \in [Pollers -> {"idle", "waiting", "draining"}]
    /\ batch \in [Pollers -> Seq(Requests)]
    /\ client \in [Pollers -> BOOLEAN]
    /\ work \in [Hosts -> SUBSET Requests]
    /\ troubled \in BOOLEAN
    /\ \A h \in Hosts : Len(queue[h]) <= QueueCap
    /\ \A p \in Pollers : Len(batch[p]) <= PollBatch

Init ==
    /\ hubClosed = FALSE
    /\ jobs = [i \in Ids |-> NoRequest]
    /\ queue = [h \in Hosts |-> << >>]
    /\ page = [r \in Requests |-> "new"]
    /\ result = [r \in Requests |-> NoRequest]
    /\ answer = [r \in Requests |-> "none"]
    /\ poll = [p \in Pollers |-> "idle"]
    /\ batch = [p \in Pollers |-> << >>]
    /\ client = [p \in Pollers |-> FALSE]
    /\ work = [h \in Hosts |-> {}]
    /\ troubled = FALSE

Registered == {i \in Ids : jobs[i] # NoRequest}

-----------------------------------------------------------------------------
(* handleSyncFetch.                                                        *)

Refuse(r, why) ==
    /\ page' = [page EXCEPT ![r] = "done"]
    /\ answer' = [answer EXCEPT ![r] = why]
    /\ UNCHANGED <<jobs, queue>>

\* enqueue, under the lock, and the handler's answers when it fails.
enqueue(r) ==
    /\ page[r] = "new"
    /\ \/ hubClosed /\ Refuse(r, "full")
       \/ ~hubClosed /\ jobs[IdOf[r]] # NoRequest /\ Refuse(r, "duplicate")
       \/ /\ ~hubClosed /\ jobs[IdOf[r]] = NoRequest
          /\ Cardinality(Registered) >= QueueCap \/ Len(queue[HostOf[r]]) >= QueueCap
          /\ Refuse(r, "full")
       \/ /\ ~hubClosed /\ jobs[IdOf[r]] = NoRequest
          /\ Cardinality(Registered) < QueueCap /\ Len(queue[HostOf[r]]) < QueueCap
          /\ queue' = [queue EXCEPT ![HostOf[r]] = Append(@, r)]
          /\ jobs' = [jobs EXCEPT ![IdOf[r]] = r]
          /\ page' = [page EXCEPT ![r] = "parked"]
          /\ UNCHANGED answer
    /\ UNCHANGED <<hubClosed, result, poll, batch, client, work, troubled>>

\* The select receives a result.
ReceiveResult(r) ==
    /\ page[r] = "parked" /\ result[r] # NoRequest
    /\ page' = [page EXCEPT ![r] = "done"]
    /\ answer' = [answer EXCEPT ![r] = "result"]
    /\ UNCHANGED <<hubClosed, jobs, queue, result, poll, batch, client, work, troubled>>

\* The select takes another branch, even if a result is ready too.
Expire(r, why) ==
    /\ page[r] = "parked"
    /\ page' = [page EXCEPT ![r] = "expiring"]
    /\ answer' = [answer EXCEPT ![r] = why]
    /\ troubled' = (troubled \/ why # "closed")
    /\ UNCHANGED <<hubClosed, jobs, queue, result, poll, batch, client, work>>

\* Mutant of HubCloses: only a job no worker has taken is released.
HubClosesQueued(r) ==
    /\ hubClosed
    /\ \E i \in 1..Len(queue[HostOf[r]]) : queue[HostOf[r]][i] = r
    /\ Expire(r, "closed")

Timeout(r) == Expire(r, "timeout")
HubCloses(r) == hubClosed /\ Expire(r, "closed")
PageLeaves(r) == Expire(r, "gone")

\* Mutant of take: the handler answers without taking its job out.
takeNothing(r) ==
    /\ page[r] = "expiring"
    /\ page' = [page EXCEPT ![r] = "done"]
    /\ UNCHANGED <<hubClosed, jobs, queue, result, answer, poll, batch, client, work, troubled>>

\* take(job.ID): whatever job is registered under the id goes.
take(r) ==
    /\ page[r] = "expiring"
    /\ jobs' = [jobs EXCEPT ![IdOf[r]] = NoRequest]
    /\ page' = [page EXCEPT ![r] = "done"]
    /\ UNCHANGED <<hubClosed, queue, result, answer, poll, batch, client, work, troubled>>

-----------------------------------------------------------------------------
(* handleSyncFetchPoll, and the loop in sw.js that calls it.               *)

\* syncFetchRelayLoop sends one poll at a time.
PollStart(p) ==
    /\ poll[p] = "idle"
    /\ \A q \in Pollers : PollHost[q] = PollHost[p] => ~client[q]
    /\ poll' = [poll EXCEPT ![p] = "waiting"]
    /\ client' = [client EXCEPT ![p] = TRUE]
    /\ UNCHANGED <<hubClosed, jobs, queue, page, result, answer, batch, work, troubled>>

\* Mutant of PollReceive: the job a full batch has no room for is dropped.
PollReceiveOneMore(p) ==
    /\ poll[p] \in {"waiting", "draining"}
    /\ queue[PollHost[p]] # << >>
    /\ poll' = [poll EXCEPT ![p] = "draining"]
    /\ batch' = [batch EXCEPT ![p] = IF Len(@) < PollBatch THEN Append(@, Head(queue[PollHost[p]])) ELSE @]
    /\ queue' = [queue EXCEPT ![PollHost[p]] = Tail(@)]
    /\ UNCHANGED <<hubClosed, jobs, page, result, answer, client, work, troubled>>

\* The handler receives a job, the first one or another of the drain, even if
\* the worker that polls has gone.
PollReceive(p) ==
    /\ poll[p] \in {"waiting", "draining"} /\ Len(batch[p]) < PollBatch
    /\ queue[PollHost[p]] # << >>
    /\ poll' = [poll EXCEPT ![p] = "draining"]
    /\ batch' = [batch EXCEPT ![p] = Append(@, Head(queue[PollHost[p]]))]
    /\ queue' = [queue EXCEPT ![PollHost[p]] = Tail(@)]
    /\ UNCHANGED <<hubClosed, jobs, page, result, answer, client, work, troubled>>

\* The batch is full or the queue is empty: the response is written, and a
\* worker that is still there starts a handleSyncFetchJob for each job.
PollRespond(p) ==
    /\ poll[p] = "draining"
    /\ Len(batch[p]) = PollBatch \/ queue[PollHost[p]] = << >>
    /\ poll' = [poll EXCEPT ![p] = "idle"]
    /\ batch' = [batch EXCEPT ![p] = << >>]
    /\ client' = [client EXCEPT ![p] = FALSE]
    /\ work' = [work EXCEPT ![PollHost[p]] =
                    IF client[p] THEN @ \cup {batch[p][i] : i \in 1..Len(batch[p])} ELSE @]
    /\ UNCHANGED <<hubClosed, jobs, queue, page, result, answer, troubled>>

\* The poll times out, the hub closes, or the worker is gone.
PollEnd(p) ==
    /\ poll[p] = "waiting"
    /\ poll' = [poll EXCEPT ![p] = "idle"]
    /\ client' = [client EXCEPT ![p] = FALSE]
    /\ UNCHANGED <<hubClosed, jobs, queue, page, result, answer, batch, work, troubled>>

\* The connection of a poll breaks: the loop waits a second and polls again,
\* while the handler may still be receiving jobs.
PollBreaks(p) ==
    /\ client[p]
    /\ client' = [client EXCEPT ![p] = FALSE]
    /\ troubled' = TRUE
    /\ UNCHANGED <<hubClosed, jobs, queue, page, result, answer, poll, batch, work>>

-----------------------------------------------------------------------------
(* handleSyncFetchJob in the worker, and handleSyncFetchResult.            *)

\* Mutant of PostResult: any host's worker may answer.
PostResultAnyHost(h, r) ==
    /\ r \in work[h]
    /\ work' = [work EXCEPT ![h] = @ \ {r}]
    /\ IF jobs[IdOf[r]] # NoRequest
       THEN /\ result' = [result EXCEPT ![jobs[IdOf[r]]] = r]
            /\ jobs' = [jobs EXCEPT ![IdOf[r]] = NoRequest]
       ELSE UNCHANGED <<result, jobs>>
    /\ UNCHANGED <<hubClosed, queue, page, answer, poll, batch, client, troubled>>

\* The worker posts a result or an error.  takeFor hands out the job registered
\* under the id if it is of this host; the result goes to its channel, which
\* has room (a job is taken once).  A result nobody waits for is dropped.  The
\* send follows the lock section; only the job's own select could tell.
PostResult(h, r) ==
    /\ r \in work[h]
    /\ work' = [work EXCEPT ![h] = @ \ {r}]
    /\ IF jobs[IdOf[r]] # NoRequest /\ HostOf[jobs[IdOf[r]]] = h
       THEN /\ result' = [result EXCEPT ![jobs[IdOf[r]]] = r]
            /\ jobs' = [jobs EXCEPT ![IdOf[r]] = NoRequest]
       ELSE UNCHANGED <<result, jobs>>
    /\ UNCHANGED <<hubClosed, queue, page, answer, poll, batch, client, troubled>>

\* The post fails; handleSyncFetchJob gives up.
LosePost(h, r) ==
    /\ r \in work[h]
    /\ work' = [work EXCEPT ![h] = @ \ {r}]
    /\ troubled' = TRUE
    /\ UNCHANGED <<hubClosed, jobs, queue, page, result, answer, poll, batch, client>>

\* The browser kills the worker: its fetches end, except for posts already on
\* their way, and its poll has no reader.
WorkerDies(h) ==
    /\ work[h] # {} \/ \E p \in Pollers : PollHost[p] = h /\ client[p]
    /\ \E posted \in SUBSET work[h] : work' = [work EXCEPT ![h] = posted]
    /\ client' = [p \in Pollers |-> client[p] /\ PollHost[p] # h]
    /\ troubled' = TRUE
    /\ UNCHANGED <<hubClosed, jobs, queue, page, result, answer, poll, batch>>

\* Server.Close closes the hub.
Close ==
    /\ ~hubClosed
    /\ hubClosed' = TRUE
    /\ UNCHANGED <<jobs, queue, page, result, answer, poll, batch, client, work, troubled>>

-----------------------------------------------------------------------------
HandlerStep(r) == enqueue(r) \/ ReceiveResult(r) \/ HubCloses(r) \/ take(r)

PollStep(p) == PollStart(p) \/ PollReceive(p) \/ PollRespond(p) \/ PollEnd(p)

Next ==
    \/ Close
    \/ \E r \in Requests : HandlerStep(r) \/ Timeout(r) \/ PageLeaves(r)
    \/ \E p \in Pollers : PollStep(p) \/ PollBreaks(p)
    \/ \E h \in Hosts : WorkerDies(h)
    \/ \E h \in Hosts, r \in Requests : PostResult(h, r) \/ LosePost(h, r)

Spec == Init /\ [][Next]_vars

\* A goroutine whose select can proceed does.  Nothing is assumed of its timer,
\* the page, the worker or the network.
FairSpec ==
    /\ Spec
    /\ \A r \in Requests :
        WF_vars(ReceiveResult(r) \/ HubCloses(r)) /\ WF_vars(take(r))

TimersFire == \A r \in Requests : WF_vars(ReceiveResult(r) \/ HubCloses(r) \/ Timeout(r))

\* The worker performs its jobs, polls, and a poll that ends does not keep
\* missing the jobs in the queue.
WorkerRuns ==
    /\ \A h \in Hosts, r \in Requests : WF_vars(PostResult(h, r))
    /\ \A p \in Pollers :
        WF_vars(PollStart(p)) /\ SF_vars(PollReceive(p)) /\ WF_vars(PollRespond(p))

-----------------------------------------------------------------------------
(* Properties.                                                             *)

\* hub.jobs holds no job whose page has been answered: every way out of
\* handleSyncFetch's select removes the entry, so ids do not leak.
NoLeak ==
    /\ TypeOK
    /\ \A i \in Ids : jobs[i] # NoRequest =>
        IdOf[jobs[i]] = i /\ page[jobs[i]] \in {"parked", "expiring"}

\* A job reaches only a worker of its page's host, and a page gets only a
\* result that such a worker made under its own id ("only that host's worker
\* may answer it", syncfetch_test.go).
ScopedByHost ==
    /\ \A h \in Hosts : \A r \in work[h] : HostOf[r] = h
    /\ \A p \in Pollers : \A i \in 1..Len(batch[p]) : HostOf[batch[p][i]] = PollHost[p]
    /\ \A r \in Requests : result[r] # NoRequest =>
        HostOf[result[r]] = HostOf[r] /\ IdOf[result[r]] = IdOf[r]

\* NoLeak and ScopedByHost: who holds a job holds it under the right id and
\* host, and no longer than its page waits.
JobsOwned == NoLeak /\ ScopedByHost

\* Every request is answered: by its timer, whatever becomes of the worker
\* (syncFetchWait), and without it once Close has run ("unblock parked
\* sync-fetch requests").
EveryPageAnswered ==
    \A r \in Requests :
        /\ TimersFire => (page[r] = "parked" ~> page[r] = "done")
        /\ (page[r] = "parked" /\ hubClosed) ~> page[r] = "done"

\* A page with an id of its own can still be answered while it is parked, and
\* only with its own result: its job is registered until that is in its channel.
OwnIdServed ==
    \A r \in Requests : (\A s \in Requests \ {r} : IdOf[s] # IdOf[r]) =>
        /\ page[r] = "parked" => jobs[IdOf[r]] = r \/ result[r] # NoRequest
        /\ result[r] \in {NoRequest, r}

\* While nothing fails a parked request gets its result, unless the host shuts
\* down: the queue, the batches and the polls lose no job between them.  And
\* whatever fails, OwnIdServed.
CalmPageServed ==
    /\ []OwnIdServed
    /\ WorkerRuns => \A r \in Requests :
        page[r] = "parked" ~> (answer[r] = "result" \/ hubClosed \/ troubled)
=============================================================================

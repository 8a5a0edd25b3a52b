----------------------------- MODULE RelayServer -----------------------------
(***************************************************************************)
(* The Go relay, internal/httphost/host.go: /zp/ws-pipe sessions, the      *)
(* streams they carry, the bridges to the targets, and Server.Close.       *)
(*                                                                         *)
(* Every handler, bridge and copy loop is a goroutine; they meet in the    *)
(* server's mutex, the session's semaphore and the connections they close. *)
(* The request's context ends only when its handler returns (the           *)
(* connection is hijacked and no BaseContext is set), so a session's       *)
(* context is done exactly when its handler is "gone", and acceptStreams   *)
(* itself never sees it done.                                              *)
(***************************************************************************)
EXTENDS Naturals, FiniteSets

CONSTANTS
    Sessions,   \* WebSocket connections to /zp/ws-pipe
    Streams,    \* yamux streams, each opened at most once by its client
    SessionOf,  \* the session of each stream
    Closers,    \* callers of Server.Close
    maxConcurrentStreamsPerSession

ASSUME ConstantsAssumption ==
    /\ SessionOf \in [Streams -> Sessions]
    /\ IsFiniteSet(Streams)
    /\ maxConcurrentStreamsPerSession \in Nat \ {0}

VARIABLES
    direct,    \* isDirectTransport, fixed by the configuration
    closed,    \* s.closed is closed
    nilMap,    \* s.sessions is nil
    sessions,  \* the keys of s.sessions
    closer,    \* where each caller of Close is
    sweep,     \* its local slice: sessions it still has to close
    handler,   \* where each session's handlePipe / acceptStreams is
    up,        \* the yamux session is open
    sem,       \* slots taken in the session's semaphore
    stream,    \* each stream, seen from the relay
    bridge,    \* where its bridge goroutine is
    target,    \* the connection to its target
    copies     \* its copy loops that still run

serverVars == <<direct, closed, nilMap, sessions, closer, sweep>>
bridgeVars == <<stream, bridge, target, copies>>
vars == <<serverVars, handler, up, sem, bridgeVars>>

Loops == {"up", "down"}
Bridging == {"socks", "resolve", "dial", "reply", "copy"}

TypeOK ==
    /\ direct \in BOOLEAN /\ closed \in BOOLEAN /\ nilMap \in BOOLEAN
    /\ sessions \in SUBSET Sessions
    /\ closer \in [Closers -> {"idle", "closing", "sweeping", "done"}]
    /\ sweep \in [Closers -> SUBSET Sessions]
    /\ handler \in [Sessions -> {"none", "entering", "registering", "accepting",
                                 "slotWait", "leaving", "returning", "gone"}]
    /\ up \in [Sessions -> BOOLEAN]
    /\ sem \in [Sessions -> 0..maxConcurrentStreamsPerSession]
    /\ stream \in [Streams -> {"new", "backlog", "waiting", "open", "closed"}]
    /\ bridge \in [Streams -> Bridging \cup {"none", "done"}]
    /\ target \in [Streams -> {"none", "open", "closed"}]
    /\ copies \in [Streams -> SUBSET Loops]

\* buildServer: an empty session map; nobody has connected.
Init ==
    /\ direct \in BOOLEAN /\ closed = FALSE /\ nilMap = FALSE /\ sessions = {}
    /\ closer = [c \in Closers |-> "idle"] /\ sweep = [c \in Closers |-> {}]
    /\ handler = [s \in Sessions |-> "none"] /\ up = [s \in Sessions |-> FALSE]
    /\ sem = [s \in Sessions |-> 0]
    /\ stream = [t \in Streams |-> "new"] /\ bridge = [t \in Streams |-> "none"]
    /\ target = [t \in Streams |-> "none"] /\ copies = [t \in Streams |-> {}]

-----------------------------------------------------------------------------
(* Server.Close, one action per critical section.                          *)

\* closeOnce: the channel is closed by the first caller.
CloseStart(c) ==
    /\ closer[c] = "idle"
    /\ closed' = TRUE
    /\ closer' = [closer EXCEPT ![c] = "closing"]
    /\ UNCHANGED <<direct, nilMap, sessions, sweep, handler, up, sem, bridgeVars>>

\* Under the mutex: copy the sessions and set the map to nil.
CloseCollect(c) ==
    /\ closer[c] = "closing"
    /\ sweep' = [sweep EXCEPT ![c] = sessions]
    /\ sessions' = {} /\ nilMap' = TRUE
    /\ closer' = [closer EXCEPT ![c] = "sweeping"]
    /\ UNCHANGED <<direct, closed, handler, up, sem, bridgeVars>>

CloseSession(c, s) ==
    /\ closer[c] = "sweeping" /\ s \in sweep[c]
    /\ up' = [up EXCEPT ![s] = FALSE]
    /\ sweep' = [sweep EXCEPT ![c] = @ \ {s}]
    /\ UNCHANGED <<direct, closed, nilMap, sessions, closer, handler, sem, bridgeVars>>

CloseReturns(c) ==
    /\ closer[c] = "sweeping" /\ sweep[c] = {}
    /\ closer' = [closer EXCEPT ![c] = "done"]
    /\ UNCHANGED <<direct, closed, nilMap, sessions, sweep, handler, up, sem, bridgeVars>>

-----------------------------------------------------------------------------
(* handlePipe and acceptStreams.                                           *)

At(s, from, to) == handler[s] = from /\ handler' = [handler EXCEPT ![s] = to]

\* The upgrade succeeds and the yamux session starts.
Upgrade(s) ==
    /\ At(s, "none", "entering")
    /\ up' = [up EXCEPT ![s] = TRUE]
    /\ UNCHANGED <<serverVars, sem, bridgeVars>>

\* The select on s.closed; the early return runs only the deferred sess.Close.
CheckClosed(s) ==
    /\ At(s, "entering", IF closed THEN "returning" ELSE "registering")
    /\ UNCHANGED <<serverVars, up, sem, bridgeVars>>

\* Under the mutex; a map that Close has emptied takes no more sessions.
Register(s) ==
    /\ At(s, "registering", "accepting")
    /\ sessions' = IF nilMap THEN sessions ELSE sessions \cup {s}
    /\ UNCHANGED <<direct, closed, nilMap, closer, sweep, up, sem, bridgeVars>>

\* The goroutine of a stream that has a slot: bridgeTargetStream.
Spawn(t) ==
    /\ sem' = [sem EXCEPT ![SessionOf[t]] = @ + 1]
    /\ stream' = [stream EXCEPT ![t] = "open"]
    /\ bridge' = [bridge EXCEPT ![t] = IF direct THEN "socks" ELSE "dial"]
    /\ UNCHANGED <<target, copies>>

\* Accept returns a stream, even of a session that has just closed, and a slot
\* is free.
AcceptSlot(s, t) ==
    /\ At(s, "accepting", "accepting")
    /\ SessionOf[t] = s /\ stream[t] = "backlog"
    /\ sem[s] < maxConcurrentStreamsPerSession
    /\ Spawn(t)
    /\ UNCHANGED <<serverVars, up>>

\* No slot is free: wait for one, with a timer.
AcceptWait(s, t) ==
    /\ At(s, "accepting", "slotWait")
    /\ SessionOf[t] = s /\ stream[t] = "backlog"
    /\ sem[s] = maxConcurrentStreamsPerSession
    /\ stream' = [stream EXCEPT ![t] = "waiting"]
    /\ UNCHANGED <<serverVars, up, sem, bridge, target, copies>>

SlotFreed(s, t) ==
    /\ At(s, "slotWait", "accepting")
    /\ SessionOf[t] = s /\ stream[t] = "waiting"
    /\ sem[s] < maxConcurrentStreamsPerSession
    /\ Spawn(t)
    /\ UNCHANGED <<serverVars, up>>

\* streamSlotAcquireTimeout: the stream is closed, the loop goes on.
SlotTimeout(s, t) ==
    /\ At(s, "slotWait", "accepting")
    /\ SessionOf[t] = s /\ stream[t] = "waiting"
    /\ stream' = [stream EXCEPT ![t] = "closed"]
    /\ UNCHANGED <<serverVars, up, sem, bridge, target, copies>>

\* Accept fails on a session that has closed.
AcceptFails(s) ==
    /\ At(s, "accepting", "leaving")
    /\ ~up[s]
    /\ UNCHANGED <<serverVars, up, sem, bridgeVars>>

\* The deferred delete, under the mutex.
Deregister(s) ==
    /\ At(s, "leaving", "returning")
    /\ sessions' = sessions \ {s}
    /\ UNCHANGED <<direct, closed, nilMap, closer, sweep, up, sem, bridgeVars>>

\* The deferred sess.Close and conn.Close; the context is done.
Return(s) ==
    /\ At(s, "returning", "gone")
    /\ up' = [up EXCEPT ![s] = FALSE]
    /\ UNCHANGED <<serverVars, sem, bridgeVars>>

-----------------------------------------------------------------------------
(* The bridge of a stream.  Each step is one blocking call.                *)

Done(t) == handler[SessionOf[t]] = "gone"

\* Mutant of BridgeEnd: the slot is not given back.
BridgeEndKeepsSlot(t) ==
    /\ bridge' = [bridge EXCEPT ![t] = "done"]
    /\ stream' = [stream EXCEPT ![t] = "closed"]
    /\ UNCHANGED sem

\* The goroutine returns: the stream is closed and the slot released.
BridgeEnd(t) ==
    /\ bridge' = [bridge EXCEPT ![t] = "done"]
    /\ stream' = [stream EXCEPT ![t] = "closed"]
    /\ sem' = [sem EXCEPT ![SessionOf[t]] = @ - 1]

Step(t, from, to) == bridge[t] = from /\ bridge' = [bridge EXCEPT ![t] = to]

\* readSOCKS5Connect has read a CONNECT request, perhaps from what the stream
\* had buffered when its session closed.
SocksRead(t) ==
    /\ Step(t, "socks", "resolve")
    /\ UNCHANGED <<serverVars, handler, up, sem, stream, target, copies>>

\* resolveInternalTarget accepts the address.
Resolve(t) ==
    /\ Step(t, "resolve", "dial")
    /\ UNCHANGED <<serverVars, handler, up, sem, stream, target, copies>>

\* The request is not SOCKS5, or the stream or the session breaks; the name is
\* refused; the dial fails, the context being done included.  The error reply
\* goes to a stream that is then closed.
BridgeFails(t) ==
    /\ bridge[t] \in {"socks", "resolve", "dial"}
    /\ BridgeEnd(t)
    /\ UNCHANGED <<serverVars, handler, up, target, copies>>

\* bridgeToTor copies at once; bridgeInternalSOCKS answers first.
Dial(t) ==
    /\ ~Done(t) /\ Step(t, "dial", IF direct THEN "reply" ELSE "copy")
    /\ target' = [target EXCEPT ![t] = "open"]
    /\ copies' = [copies EXCEPT ![t] = IF direct THEN {} ELSE Loops]
    /\ UNCHANGED <<serverVars, handler, up, sem, stream>>

\* The reply is queued; a session that is closing may still take it.
Reply(t) ==
    /\ Step(t, "reply", "copy")
    /\ copies' = [copies EXCEPT ![t] = Loops]
    /\ UNCHANGED <<serverVars, handler, up, sem, stream, target>>

\* Mutant of ReplyFails: the target connection is forgotten.
ReplyFailsLeaks(t) ==
    /\ bridge[t] = "reply"
    /\ BridgeEnd(t)
    /\ UNCHANGED <<serverVars, handler, up, target, copies>>

\* The success reply cannot be written: the target is closed, too.
ReplyFails(t) ==
    /\ bridge[t] = "reply"
    /\ target' = [target EXCEPT ![t] = "closed"]
    /\ BridgeEnd(t)
    /\ UNCHANGED <<serverVars, handler, up, copies>>

\* A copy loop ends (end of data, an error, the idle deadline, a closed end)
\* and closes both connections; the other direction is cut off with it.
CopyEnds(t, d) ==
    /\ d \in copies[t]
    /\ copies' = [copies EXCEPT ![t] = @ \ {d}]
    /\ stream' = [stream EXCEPT ![t] = "closed"]
    /\ target' = [target EXCEPT ![t] = "closed"]
    /\ UNCHANGED <<serverVars, handler, up, sem, bridge>>

\* Mutant of BridgeReturns: only a copy loop wakes the bridge.
BridgeReturnsOnCopy(t) ==
    /\ bridge[t] = "copy" /\ copies[t] # Loops
    /\ target' = [target EXCEPT ![t] = "closed"]
    /\ BridgeEnd(t)
    /\ UNCHANGED <<serverVars, handler, up, copies>>

\* bridgeConns returns on the first end of a loop or of the context, and
\* closes both; the other loop may still be running.
BridgeReturns(t) ==
    /\ bridge[t] = "copy" /\ (copies[t] # Loops \/ Done(t))
    /\ target' = [target EXCEPT ![t] = "closed"]
    /\ BridgeEnd(t)
    /\ UNCHANGED <<serverVars, handler, up, copies>>

-----------------------------------------------------------------------------
(* The client and the network.                                             *)

ClientOpens(t) ==
    /\ stream[t] = "new" /\ up[SessionOf[t]]
    /\ stream' = [stream EXCEPT ![t] = "backlog"]
    /\ UNCHANGED <<serverVars, handler, up, sem, bridge, target, copies>>

\* The client goes away, the WebSocket breaks or a keepalive is not answered.
SessionLost(s) ==
    /\ up[s]
    /\ up' = [up EXCEPT ![s] = FALSE]
    /\ UNCHANGED <<serverVars, handler, sem, bridgeVars>>

-----------------------------------------------------------------------------
Closing(c) ==
    CloseStart(c) \/ CloseCollect(c) \/ CloseReturns(c) \/ \E s \in Sessions : CloseSession(c, s)

Handling(s) ==
    \/ CheckClosed(s) \/ Register(s) \/ AcceptFails(s) \/ Deregister(s) \/ Return(s)
    \/ \E t \in Streams : SlotFreed(s, t) \/ SlotTimeout(s, t)

Accepting(s) == \E t \in Streams : AcceptSlot(s, t) \/ AcceptWait(s, t)

BridgeStep(t) ==
    \/ SocksRead(t) \/ Resolve(t) \/ BridgeFails(t) \/ Dial(t)
    \/ Reply(t) \/ ReplyFails(t) \/ BridgeReturns(t)

Next ==
    \/ \E c \in Closers : Closing(c)
    \/ \E s \in Sessions : Upgrade(s) \/ SessionLost(s) \/ Handling(s) \/ Accepting(s)
    \/ \E t \in Streams :
        ClientOpens(t) \/ BridgeStep(t) \/ \E d \in Loops : CopyEnds(t, d)

Spec == Init /\ [][Next]_vars

\* Goroutines run.  A resolution and a dial end (10 s each), a slot is freed or
\* its timer fires; a SOCKS5 read and a copy need end only when their session
\* or their connections have closed, for the peer may be silent for ever.
Fairness ==
    /\ \A c \in Closers : WF_vars(closed /\ Closing(c))
    /\ \A s \in Sessions : WF_vars(Handling(s))
    /\ \A t \in Streams :
        /\ WF_vars((bridge[t] # "socks" \/ ~up[SessionOf[t]]) /\ BridgeStep(t))
        /\ \A d \in Loops : WF_vars(stream[t] = "closed" /\ CopyEnds(t, d))
FairSpec == Spec /\ Fairness

-----------------------------------------------------------------------------
(* Properties.                                                             *)

Running(s) == {t \in Streams : SessionOf[t] = s /\ bridge[t] \in Bridging}

\* Every slot taken in a session's semaphore belongs to one running bridge,
\* so a session never runs more than maxConcurrentStreamsPerSession of them
\* and never runs out of slots while fewer run (acceptStreams' deferred
\* release, its refusal of the stream that found no slot).
SlotPerBridge ==
    \A s \in Sessions : sem[s] = Cardinality(Running(s))

\* A bridge leaves nothing open behind it, wherever it ends: the stream and
\* the target it dialled are closed, and a copy loop that still runs has lost
\* both its ends (bridgeInternalSOCKS, bridgeToTor, bridgeConns).
NothingLeftOpen ==
    \A t \in Streams :
        /\ bridge[t] = "done" => stream[t] = "closed" /\ target[t] # "open"
        /\ copies[t] # {} => bridge[t] = "copy" \/ (stream[t] = "closed" /\ target[t] = "closed")
        /\ target[t] = "open" => bridge[t] \in {"reply", "copy"}

Torn(s) ==
    /\ handler[s] = "gone" /\ sem[s] = 0 /\ s \notin sessions
    /\ \A t \in Streams : SessionOf[t] = s =>
        bridge[t] \notin Bridging /\ target[t] # "open" /\ copies[t] = {}

\* A session that is lost, or registered when Close is called, is torn down
\* with everything it carries: handler, slots, bridges, targets, copy loops
\* ("terminate open yamux sessions").
SessionTornDown ==
    \A s \in Sessions : (handler[s] # "none" /\ ~up[s]) \/ (closed /\ s \in sessions) ~> Torn(s)

\* "Close ... closes all active yamux relay sessions": once it has returned no
\* session is accepting streams on an open connection.
CloseClosesAll ==
    \A c \in Closers, s \in Sessions : closer[c] = "done" => ~(handler[s] = "accepting" /\ up[s])
=============================================================================

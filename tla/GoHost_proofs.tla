--------------------------- MODULE GoHost_proofs ---------------------------
(***************************************************************************)
(* Proofs about the two servers of the Go host.  RelayServer: for any      *)
(* sessions, streams, callers of Close and any number of slots, slots and  *)
(* running bridges agree and a bridge leaves nothing open behind it.       *)
(* WtGateway: for any handlers and pumps, the listener's map holds exactly *)
(* the sessions of its bridges.                                            *)
(***************************************************************************)
EXTENDS GoHost, FiniteSetTheorems, TLAPS

-----------------------------------------------------------------------------
(* The strengthening: what a stream's bridge has reached fixes what may be *)
(* open.  SlotPerBridge needs it too, for a stream that gets a slot must   *)
(* not have a bridge already.                                              *)

\* A stream waits without a bridge; a bridge has a target only once it has
\* dialled, and copy loops only once it has answered.
Progress(t) ==
    /\ stream[t] \in {"new", "backlog", "waiting"} => bridge[t] = "none"
    /\ bridge[t] \in {"none", "socks", "resolve", "dial"} =>
        target[t] = "none" /\ copies[t] = {}
    /\ bridge[t] = "reply" => copies[t] = {}
    /\ bridge[t] = "done" => stream[t] = "closed" /\ target[t] # "open"
    /\ bridge[t] = "done" /\ copies[t] # {} => target[t] = "closed"

\* The inductive invariant.
Inv == TypeOK /\ SlotPerBridge /\ \A t \in Streams : Progress(t)

-----------------------------------------------------------------------------
(* Counting bridges.                                                       *)

LEMMA RunningFinite == \A s \in Sessions : IsFiniteSet(Running(s))
  BY ConstantsAssumption, FS_Subset DEF Running

\* A step that moves no bridge into or out of Bridging and leaves the
\* semaphores alone keeps the count.
LEMMA SameRunning ==
    ASSUME SlotPerBridge, sem' = sem,
           \A t \in Streams : bridge'[t] \in Bridging <=> bridge[t] \in Bridging
    PROVE  SlotPerBridge'
<1>1. \A s \in Sessions : Running(s)' = Running(s)
  BY DEF Running
<1>2. QED
  BY <1>1 DEF SlotPerBridge

\* Spawn adds one bridge and takes one slot.
LEMMA OneMore ==
    ASSUME TypeOK, SlotPerBridge, NEW t \in Streams,
           bridge[t] \notin Bridging, Spawn(t)
    PROVE  SlotPerBridge'
<1> DEFINE s0 == SessionOf[t]
<1>1. s0 \in Sessions
  BY ConstantsAssumption
<1>2. Running(s0)' = Running(s0) \cup {t}
  BY <1>1 DEF Running, Spawn, TypeOK, Bridging
<1>3. \A s \in Sessions \ {s0} : Running(s)' = Running(s)
  BY DEF Running, Spawn, TypeOK
<1>4. Cardinality(Running(s0)') = Cardinality(Running(s0)) + 1
  <2>1. t \notin Running(s0)
    BY DEF Running
  <2>2. IsFiniteSet(Running(s0))
    BY <1>1, RunningFinite, Zenon
  <2>3. QED
    BY <1>2, <2>1, <2>2, FS_AddElement, ZenonT(30)
<1>5. /\ sem'[s0] = sem[s0] + 1
      /\ \A s \in Sessions \ {s0} : sem'[s] = sem[s]
  BY <1>1 DEF Spawn, TypeOK
<1>6. QED
  BY <1>1, <1>3, <1>4, <1>5 DEF SlotPerBridge

\* BridgeEnd removes one bridge and releases its slot, which it had.
LEMMA OneLess ==
    ASSUME TypeOK, SlotPerBridge, NEW t \in Streams,
           bridge[t] \in Bridging, BridgeEnd(t)
    PROVE  /\ SlotPerBridge'
           /\ sem' \in [Sessions -> 0..maxConcurrentStreamsPerSession]
<1> DEFINE s0 == SessionOf[t]
<1>1. s0 \in Sessions
  BY ConstantsAssumption
<1>2. Running(s0)' = Running(s0) \ {t}
  BY <1>1 DEF Running, BridgeEnd, TypeOK, Bridging
<1>3. \A s \in Sessions \ {s0} : Running(s)' = Running(s)
  BY DEF Running, BridgeEnd, TypeOK
<1>4. t \in Running(s0)
  BY DEF Running
<1>5. Cardinality(Running(s0)') = Cardinality(Running(s0)) - 1
  BY <1>1, <1>2, <1>4, RunningFinite, FS_RemoveElement
<1>6. Cardinality(Running(s0)) \in Nat \ {0}
  BY <1>1, <1>4, RunningFinite, FS_CardinalityType, FS_EmptySet
<1>7. /\ sem'[s0] = sem[s0] - 1
      /\ \A s \in Sessions \ {s0} : sem'[s] = sem[s]
  BY <1>1 DEF BridgeEnd, TypeOK
<1>8. SlotPerBridge'
  BY <1>1, <1>3, <1>5, <1>7 DEF SlotPerBridge
<1>9. sem[s0] \in 1..maxConcurrentStreamsPerSession
  BY <1>1, <1>6, ConstantsAssumption DEF SlotPerBridge, TypeOK
<1>10. sem' \in [Sessions -> 0..maxConcurrentStreamsPerSession]
  BY <1>1, <1>9, ConstantsAssumption DEF BridgeEnd, TypeOK
<1>11. QED
  BY <1>8, <1>10

-----------------------------------------------------------------------------
(* The steps of the server and of the handlers that touch no stream.       *)

LEMMA QuietKeepsInv ==
    ASSUME Inv, TypeOK', sem' = sem, UNCHANGED bridgeVars
    PROVE  Inv'
<1>1. SlotPerBridge'
  BY SameRunning DEF Inv, bridgeVars
<1>2. \A t \in Streams : Progress(t)'
  BY DEF Inv, Progress, bridgeVars
<1>3. QED
  BY <1>1, <1>2 DEF Inv

\* The steps of the server and of Close outside the bridges keep the types,
\* and leave the slots and the bridges alone.
LEMMA ServerTypes ==
    ASSUME TypeOK,
           \/ \E c \in Closers : Closing(c)
           \/ \E s \in Sessions :
                \/ Upgrade(s) \/ SessionLost(s) \/ CheckClosed(s) \/ Register(s)
                \/ AcceptFails(s) \/ Deregister(s) \/ Return(s)
    PROVE  TypeOK' /\ sem' = sem /\ UNCHANGED bridgeVars
<1>1. ASSUME NEW c \in Closers, CloseStart(c) PROVE TypeOK' /\ sem' = sem /\ UNCHANGED bridgeVars
  BY <1>1 DEF TypeOK, CloseStart, bridgeVars
<1>2. ASSUME NEW c \in Closers, CloseCollect(c) PROVE TypeOK' /\ sem' = sem /\ UNCHANGED bridgeVars
  BY <1>2 DEF TypeOK, CloseCollect, bridgeVars
<1>3. ASSUME NEW c \in Closers, CloseReturns(c) PROVE TypeOK' /\ sem' = sem /\ UNCHANGED bridgeVars
  BY <1>3 DEF TypeOK, CloseReturns, bridgeVars
<1>4. ASSUME NEW c \in Closers, NEW s \in Sessions, CloseSession(c, s)
      PROVE  TypeOK' /\ sem' = sem /\ UNCHANGED bridgeVars
  BY <1>4 DEF TypeOK, CloseSession, bridgeVars
<1>5. ASSUME NEW s \in Sessions, Upgrade(s) \/ SessionLost(s) \/ CheckClosed(s) \/ Return(s)
      PROVE  TypeOK' /\ sem' = sem /\ UNCHANGED bridgeVars
  <2>1. CASE Upgrade(s)
    BY <2>1 DEF TypeOK, Upgrade, At, serverVars, bridgeVars
  <2>2. CASE SessionLost(s)
    BY <2>2 DEF TypeOK, SessionLost, serverVars, bridgeVars
  <2>3. CASE CheckClosed(s)
    BY <2>3 DEF TypeOK, CheckClosed, At, serverVars, bridgeVars
  <2>4. CASE Return(s)
    BY <2>4 DEF TypeOK, Return, At, serverVars, bridgeVars
  <2>5. QED
    BY <1>5, <2>1, <2>2, <2>3, <2>4, SMTT(30)
<1>6. ASSUME NEW s \in Sessions, Register(s) \/ AcceptFails(s) \/ Deregister(s)
      PROVE  TypeOK' /\ sem' = sem /\ UNCHANGED bridgeVars
  BY <1>6 DEF TypeOK, Register, AcceptFails, Deregister, At, serverVars, bridgeVars
<1>7. QED
  BY <1>1, <1>2, <1>3, <1>4, <1>5, <1>6 DEF Closing

-----------------------------------------------------------------------------
(* The steps of a stream.                                                  *)

\* A step that touches one stream only has to preserve that stream's Progress.
LEMMA OthersProgress ==
    ASSUME Inv, TypeOK', NEW t \in Streams, Progress(t)',
           \A u \in Streams \ {t} :
               /\ stream'[u] = stream[u] /\ bridge'[u] = bridge[u]
               /\ target'[u] = target[u] /\ copies'[u] = copies[u]
    PROVE  \A u \in Streams : Progress(u)'
  BY DEF Inv, Progress

\* A stream enters the backlog, waits for a slot or is refused one.
LEMMA WaitingKeepsInv ==
    ASSUME Inv, NEW s \in Sessions, NEW t \in Streams,
           ClientOpens(t) \/ AcceptWait(s, t) \/ SlotTimeout(s, t)
    PROVE  Inv'
<1>1. TypeOK'
  BY SMTT(30) DEF Inv, TypeOK, ClientOpens, AcceptWait, SlotTimeout, At, serverVars
<1>2. SlotPerBridge'
  BY SameRunning DEF Inv, ClientOpens, AcceptWait, SlotTimeout
<1>3. Progress(t)'
  BY DEF Inv, TypeOK, Progress, ClientOpens, AcceptWait, SlotTimeout
<1>4. \A u \in Streams \ {t} :
        /\ stream'[u] = stream[u] /\ bridge'[u] = bridge[u]
        /\ target'[u] = target[u] /\ copies'[u] = copies[u]
  BY DEF Inv, TypeOK, ClientOpens, AcceptWait, SlotTimeout
<1>5. QED
  BY <1>1, <1>2, <1>3, <1>4, OthersProgress, SMTT(30) DEF Inv

\* A stream gets a slot and its bridge starts.
LEMMA SpawnKeepsInv ==
    ASSUME Inv, NEW s \in Sessions, NEW t \in Streams, AcceptSlot(s, t) \/ SlotFreed(s, t)
    PROVE  Inv'
<1>1. /\ bridge[t] = "none" /\ Spawn(t) /\ SessionOf[t] = s
      /\ sem[s] < maxConcurrentStreamsPerSession
  BY DEF Inv, Progress, AcceptSlot, SlotFreed
<1>2. sem' \in [Sessions -> 0..maxConcurrentStreamsPerSession]
  BY <1>1, ConstantsAssumption DEF Inv, TypeOK, Spawn
<1>3. TypeOK'
  BY <1>1, <1>2 DEF Inv, TypeOK, AcceptSlot, SlotFreed, Spawn, At, serverVars, Bridging
<1>4. SlotPerBridge'
  BY <1>1, OneMore DEF Inv, Bridging
<1>5. Progress(t)'
  BY <1>1 DEF Inv, TypeOK, Progress, Spawn
<1>6. \A u \in Streams \ {t} :
        /\ stream'[u] = stream[u] /\ bridge'[u] = bridge[u]
        /\ target'[u] = target[u] /\ copies'[u] = copies[u]
  BY <1>1 DEF Inv, TypeOK, Spawn
<1>7. QED
  BY <1>3, <1>4, <1>5, <1>6, OthersProgress DEF Inv

\* A bridge goes on to its next call, or a copy loop ends.
LEMMA AdvanceKeepsInv ==
    ASSUME Inv, NEW t \in Streams,
           \/ SocksRead(t) \/ Resolve(t) \/ Dial(t) \/ Reply(t)
           \/ \E d \in Loops : CopyEnds(t, d)
    PROVE  Inv'
<1>1. TypeOK'
  BY DEF Inv, TypeOK, SocksRead, Resolve, Dial, Reply, CopyEnds, Step, serverVars, Bridging
<1>2. SlotPerBridge'
  <2>1. \A u \in Streams : bridge'[u] \in Bridging <=> bridge[u] \in Bridging
    BY DEF Inv, TypeOK, SocksRead, Resolve, Dial, Reply, CopyEnds, Step, Bridging
  <2>2. sem' = sem
    BY DEF SocksRead, Resolve, Dial, Reply, CopyEnds
  <2>3. QED
    BY <2>1, <2>2, SameRunning, SMTT(30) DEF Inv
<1>3. Progress(t)'
  BY DEF Inv, TypeOK, Progress, SocksRead, Resolve, Dial, Reply, CopyEnds, Step, Loops
<1>4. \A u \in Streams \ {t} :
        /\ stream'[u] = stream[u] /\ bridge'[u] = bridge[u]
        /\ target'[u] = target[u] /\ copies'[u] = copies[u]
  BY SMTT(30) DEF Inv, TypeOK, SocksRead, Resolve, Dial, Reply, CopyEnds, Step
<1>5. QED
  BY <1>1, <1>2, <1>3, <1>4, OthersProgress, SMTT(30), Z3T(30) DEF Inv

\* A bridge ends.
LEMMA EndKeepsInv ==
    ASSUME Inv, NEW t \in Streams, BridgeFails(t) \/ ReplyFails(t) \/ BridgeReturns(t)
    PROVE  Inv'
<1>1. BridgeEnd(t) /\ bridge[t] \in Bridging
  BY DEF BridgeFails, ReplyFails, BridgeReturns, Bridging
<1>2. /\ SlotPerBridge'
      /\ sem' \in [Sessions -> 0..maxConcurrentStreamsPerSession]
  BY <1>1, OneLess, SMTT(30) DEF Inv
<1>3. TypeOK'
  BY <1>1, <1>2, SMTT(30), Z3T(30) DEF Inv, TypeOK, BridgeFails, ReplyFails, BridgeReturns, BridgeEnd, serverVars
<1>4. Progress(t)'
  BY <1>1, SMTT(30) DEF Inv, TypeOK, Progress, BridgeFails, ReplyFails, BridgeReturns, BridgeEnd
<1>5. \A u \in Streams \ {t} :
        /\ stream'[u] = stream[u] /\ bridge'[u] = bridge[u]
        /\ target'[u] = target[u] /\ copies'[u] = copies[u]
  BY DEF Inv, TypeOK, BridgeFails, ReplyFails, BridgeReturns, BridgeEnd
<1>6. QED
  BY <1>2, <1>3, <1>4, <1>5, OthersProgress, SMTT(30), Z3T(30) DEF Inv

-----------------------------------------------------------------------------
(* Invariance.                                                             *)

LEMMA InitInv == Init => Inv
<1> SUFFICES ASSUME Init PROVE Inv
  OBVIOUS
<1>1. TypeOK
  <2>1. sem \in [Sessions -> 0..maxConcurrentStreamsPerSession]
    BY ConstantsAssumption DEF Init
  <2>2. /\ direct \in BOOLEAN /\ closed \in BOOLEAN /\ nilMap \in BOOLEAN
        /\ up \in [Sessions -> BOOLEAN]
    BY ZenonT(30) DEF Init
  <2>3. QED
    BY <2>1, <2>2 DEF Init, TypeOK
<1>2. \A s \in Sessions : Running(s) = {}
  BY DEF Init, Running, Bridging
<1>3. SlotPerBridge
  BY <1>2, FS_EmptySet, SMTT(30), Z3T(30) DEF SlotPerBridge, Init
<1>4. \A t \in Streams : Progress(t)
  BY DEF Init, Progress
<1>5. QED
  BY <1>1, <1>3, <1>4 DEF Inv

\* Every step of the relay keeps the inductive invariant.
LEMMA NextInv == Inv /\ [Next]_vars => Inv'
<1> SUFFICES ASSUME Inv, [Next]_vars PROVE Inv'
  OBVIOUS
<1>1. CASE \/ \E c \in Closers : Closing(c)
           \/ \E s \in Sessions :
                \/ Upgrade(s) \/ SessionLost(s) \/ CheckClosed(s) \/ Register(s)
                \/ AcceptFails(s) \/ Deregister(s) \/ Return(s)
  <2>1. TypeOK' /\ sem' = sem /\ UNCHANGED bridgeVars
    BY <1>1, ServerTypes DEF Inv
  <2>2. QED
    BY <2>1, QuietKeepsInv
<1>2. ASSUME NEW s \in Sessions, NEW t \in Streams,
             \/ AcceptSlot(s, t) \/ AcceptWait(s, t)
             \/ SlotFreed(s, t) \/ SlotTimeout(s, t)
      PROVE  Inv'
  BY <1>2, WaitingKeepsInv, SpawnKeepsInv
<1>3. ASSUME NEW t \in Streams, ClientOpens(t) PROVE Inv'
  BY <1>3, WaitingKeepsInv, ConstantsAssumption
<1>4. ASSUME NEW t \in Streams, BridgeStep(t) \/ \E d \in Loops : CopyEnds(t, d)
      PROVE  Inv'
  BY <1>4, AdvanceKeepsInv, EndKeepsInv, SMTT(30) DEF BridgeStep
<1>5. CASE UNCHANGED vars
  <2>1. TypeOK' /\ sem' = sem /\ UNCHANGED bridgeVars
    BY <1>5 DEF Inv, TypeOK, vars, serverVars, bridgeVars
  <2>2. QED
    BY <2>1, QuietKeepsInv
<1>6. QED
  BY <1>1, <1>2, <1>3, <1>4, <1>5 DEF Next, Handling, Accepting

\* Every reachable state satisfies the inductive invariant.
THEOREM Invariance == Spec => []Inv
  BY InitInv, NextInv, PTL DEF Spec

\* The relay's variables keep their types; no session takes more slots than
\* maxConcurrentStreamsPerSession (acceptStreams).
THEOREM TypeCorrect == Spec => []TypeOK
<1>1. Inv => TypeOK
  BY DEF Inv
<1>2. QED
  BY <1>1, Invariance, PTL

\* Every slot taken belongs to one running bridge, for any number of streams,
\* sessions and slots (acceptStreams' semaphore).
THEOREM SlotsExact == Spec => []SlotPerBridge
<1>1. Inv => SlotPerBridge
  BY SMTT(30) DEF Inv
<1>2. QED
  BY <1>1, Invariance, PTL

\* A bridge leaves neither its stream nor its target open, whichever of its
\* calls fails and whatever ends first (bridgeInternalSOCKS, bridgeToTor,
\* bridgeConns).
THEOREM BridgesClean == Spec => []NothingLeftOpen
<1>1. Inv => NothingLeftOpen
  BY DEF Inv, TypeOK, Progress, NothingLeftOpen, Bridging
<1>2. QED
  BY <1>1, Invariance, PTL

-----------------------------------------------------------------------------
(* The WebTransport gateway.                                               *)
(* The strengthening.                                                      *)

Phases == {"idle", "dial", "upgrade", "register", "bridge", "deregister", "done"}
SessStates == [W!Sides -> {"none", "open", "closed"}]
Gates == [sessions: SUBSET (Handlers \X W!Sides), open: {"yes", "closing", "no"},
          locked: BOOLEAN]
Hands == [phase: Phases, sess: SessStates, cancelled: BOOLEAN,
          pump: [Pumps -> {"off", "accept", "opening", "sending", "returned"}],
          watch: SUBSET W!Sides, copies: SUBSET Pumps]

\* The fields its TypeOK leaves out too.
RecordsOK == gate \in Gates /\ hand \in [Handlers -> Hands]

\* A handler has dialled nothing in its first phases, and has closed both
\* sessions before it takes them out of the map; one that returned has no
\* target session.
SessionsByPhase ==
    \A h \in Handlers :
        /\ hand[h].phase \in {"idle", "dial"} => hand[h].sess["target"] = "none"
        /\ hand[h].phase \in {"deregister", "done"} => hand[h].sess["target"] # "open"

\* While the listener is open its map is that of the bridges.
MapExact ==
    gate.open = "yes" =>
        \A h \in Handlers, x \in W!Sides :
            <<h, x>> \in gate.sessions <=> hand[h].phase \in {"bridge", "deregister"}

\* The inductive invariant.
GatewayInv == RecordsOK /\ SessionsByPhase /\ MapExact

\* What closing makes of the sessions it is given.
LEMMA ClosingType ==
    ASSUME NEW s \in SessStates, NEW S
    PROVE  /\ W!closing(s, S) \in SessStates
           /\ \A x \in W!Sides : W!closing(s, S)[x] = IF x \in S /\ s[x] = "open" THEN "closed" ELSE s[x]
  BY DEF W!closing, SessStates

\* A step of one handler that leaves the listener alone keeps the map exact
\* when the handler stays inside, or outside, its bridge.
LEMMA OneHandler ==
    ASSUME GatewayInv, NEW h \in Handlers, NEW r \in Hands, hand' = [hand EXCEPT ![h] = r],
           UNCHANGED gate,
           r.phase \in {"bridge", "deregister"} <=> hand[h].phase \in {"bridge", "deregister"},
           r.phase \in {"idle", "dial"} => r.sess["target"] = "none",
           r.phase \in {"deregister", "done"} => r.sess["target"] # "open"
    PROVE  GatewayInv'
<1> USE DEF GatewayInv, RecordsOK
<1>1. RecordsOK'
  OBVIOUS
<1>2. SessionsByPhase'
  BY DEF SessionsByPhase
<1>3. MapExact'
  BY DEF MapExact
<1> QED BY <1>1, <1>2, <1>3, SMTT(30)

\* A dial that succeeds opens the target, before anything is in the map.
LEMMA DialedStep ==
    ASSUME GatewayInv, NEW h \in Handlers, W!Dialed(h)
    PROVE  GatewayInv'
<1> DEFINE r == [hand[h] EXCEPT !.phase = "upgrade", !.sess = [@ EXCEPT !["target"] = "open"]]
<1>1. hand[h] \in Hands
  BY DEF GatewayInv, RecordsOK
<1>2. r \in Hands /\ r.phase = "upgrade"
  BY <1>1 DEF Hands, Phases, SessStates, W!Sides
<1>3. hand' = [hand EXCEPT ![h] = r] /\ UNCHANGED gate
  BY <1>1 DEF W!Dialed, Hands, GatewayInv, RecordsOK
<1> HIDE DEF r
<1> QED BY <1>2, <1>3, OneHandler DEF W!Dialed, W!At

\* One that fails has opened nothing.
LEMMA DialFailsStep ==
    ASSUME GatewayInv, NEW h \in Handlers, W!DialFails(h)
    PROVE  GatewayInv'
<1> DEFINE r == [hand[h] EXCEPT !.phase = "done"]
<1>1. hand[h] \in Hands
  BY DEF GatewayInv, RecordsOK
<1>2. r \in Hands /\ r.phase = "done" /\ r.sess = hand[h].sess
  BY <1>1 DEF Hands, Phases
<1>3. hand' = [hand EXCEPT ![h] = r] /\ UNCHANGED gate
  BY <1>1 DEF W!DialFails, Hands, GatewayInv, RecordsOK
<1> HIDE DEF r
<1> QED BY <1>2, <1>3, OneHandler DEF W!DialFails, W!At, GatewayInv, SessionsByPhase

\* bridgeSessions returns with both sessions closed.
LEMMA BridgeDoneStep ==
    ASSUME GatewayInv, NEW h \in Handlers, W!BridgeDone(h)
    PROVE  GatewayInv'
<1> DEFINE r == [hand[h] EXCEPT !.phase = "deregister", !.sess = W!closing(@, W!Sides)]
<1>1. hand[h] \in Hands
  BY DEF GatewayInv, RecordsOK
<1>4. W!closing(hand[h].sess, W!Sides) \in SessStates /\ W!closing(hand[h].sess, W!Sides)["target"] # "open"
  BY <1>1, ClosingType DEF Hands, W!Sides
<1>2. r \in Hands /\ r.phase = "deregister" /\ r.sess["target"] # "open"
  BY <1>1, <1>4 DEF Hands, Phases
<1>3. hand' = [hand EXCEPT ![h] = r] /\ UNCHANGED gate
  BY <1>1 DEF W!BridgeDone, Hands, GatewayInv, RecordsOK
<1> HIDE DEF r
<1> QED BY <1>2, <1>3, OneHandler DEF W!BridgeDone, W!At

\* A request is dialled or refused.
LEMMA RequestStep ==
    ASSUME GatewayInv, NEW h \in Handlers, W!Request(h)
    PROVE  GatewayInv'
<1>1. PICK next \in {"dial", "done"} : hand' = [hand EXCEPT ![h].phase = next]
  BY DEF W!Request
<1> DEFINE r == [hand[h] EXCEPT !.phase = next]
<1>2. hand[h] \in Hands
  BY DEF GatewayInv, RecordsOK
<1>3. r \in Hands /\ r.phase = next /\ r.sess = hand[h].sess
  BY <1>2 DEF Hands, Phases
<1>4. hand' = [hand EXCEPT ![h] = r] /\ UNCHANGED gate
  BY <1>1, <1>2 DEF W!Request, Hands, GatewayInv, RecordsOK
<1> HIDE DEF r
<1> QED BY <1>3, <1>4, OneHandler DEF W!Request, W!At, GatewayInv, SessionsByPhase

\* The page is upgraded, or the deferred dialer.Close closes the target.
LEMMA UpgradeStep ==
    ASSUME GatewayInv, NEW h \in Handlers, W!Upgrade(h)
    PROVE  GatewayInv'
<1>1. hand[h] \in Hands
  BY DEF GatewayInv, RecordsOK
<1>2. CASE hand' = [hand EXCEPT ![h].phase = "register",
                                ![h].sess = [@ EXCEPT !["client"] = "open"]]
  <2> DEFINE r == [hand[h] EXCEPT !.phase = "register", !.sess = [@ EXCEPT !["client"] = "open"]]
  <2>1. r \in Hands /\ r.phase = "register"
    BY <1>1 DEF Hands, Phases, SessStates, W!Sides
  <2>2. hand' = [hand EXCEPT ![h] = r] /\ UNCHANGED gate
    BY <1>1, <1>2 DEF W!Upgrade, Hands, GatewayInv, RecordsOK
  <2> HIDE DEF r
  <2> QED BY <2>1, <2>2, OneHandler DEF W!Upgrade, W!At
<1>3. CASE hand' = [hand EXCEPT ![h].phase = "done", ![h].sess = W!closing(@, {"target"})]
  <2> DEFINE r == [hand[h] EXCEPT !.phase = "done", !.sess = W!closing(@, {"target"})]
  <2>4. /\ W!closing(hand[h].sess, {"target"}) \in SessStates
        /\ W!closing(hand[h].sess, {"target"})["target"] # "open"
    BY <1>1, ClosingType DEF Hands, W!Sides
  <2>1. r \in Hands /\ r.phase = "done" /\ r.sess["target"] # "open"
    BY <1>1, <2>4 DEF Hands, Phases
  <2>2. hand' = [hand EXCEPT ![h] = r] /\ UNCHANGED gate
    BY <1>1, <1>3 DEF W!Upgrade, Hands, GatewayInv, RecordsOK
  <2> HIDE DEF r
  <2> QED BY <2>1, <2>2, OneHandler DEF W!Upgrade, W!At
<1> QED BY <1>2, <1>3 DEF W!Upgrade

\* The goroutines of a bridge change neither its phase nor its map entries.
LEMMA WatchStep ==
    ASSUME GatewayInv, NEW h \in Handlers, NEW x \in W!Sides, W!Watch(h, x)
    PROVE  GatewayInv'
<1> DEFINE r == [hand[h] EXCEPT !.watch = @ \ {x}, !.cancelled = TRUE]
<1>1. hand[h] \in Hands
  BY DEF GatewayInv, RecordsOK
<1>2. r \in Hands /\ r.phase = hand[h].phase /\ r.sess = hand[h].sess
  BY <1>1 DEF Hands
<1>3. hand' = [hand EXCEPT ![h] = r] /\ UNCHANGED gate
  BY <1>1 DEF W!Watch, Hands, GatewayInv, RecordsOK
<1> HIDE DEF r
<1> QED BY <1>2, <1>3, OneHandler DEF GatewayInv, SessionsByPhase

\* A peer that closes its session opens none.
LEMMA PeerClosesStep ==
    ASSUME GatewayInv, NEW h \in Handlers, NEW x \in W!Sides, W!PeerCloses(h, x)
    PROVE  GatewayInv'
<1> DEFINE r == [hand[h] EXCEPT !.sess = W!closing(@, {x})]
<1>1. hand[h] \in Hands
  BY DEF GatewayInv, RecordsOK
<1>2. r \in Hands /\ r.phase = hand[h].phase
      /\ (hand[h].sess["target"] # "open" => r.sess["target"] = hand[h].sess["target"])
  BY <1>1, ClosingType DEF Hands, W!Sides
<1>3. hand' = [hand EXCEPT ![h] = r] /\ UNCHANGED gate
  BY <1>1 DEF W!PeerCloses, Hands, GatewayInv, RecordsOK
<1> HIDE DEF r
<1> QED BY <1>2, <1>3, OneHandler DEF GatewayInv, SessionsByPhase

\* A pump that opens a stream on the other side: a copy starts.
LEMMA OpenStreamStep ==
    ASSUME GatewayInv, NEW h \in Handlers, NEW p \in Pumps, W!OpenStream(h, p)
    PROVE  GatewayInv'
<1> DEFINE r == [hand[h] EXCEPT !.pump = [@ EXCEPT ![p] = "accept"], !.copies = @ \cup {p}]
<1>1. hand[h] \in Hands
  BY DEF GatewayInv, RecordsOK
<1>2. r \in Hands /\ r.phase = hand[h].phase /\ r.sess = hand[h].sess
  BY <1>1, ZenonT(30) DEF Hands
<1>3. hand' = [hand EXCEPT ![h] = r] /\ UNCHANGED gate
  BY <1>1 DEF W!OpenStream, Hands, GatewayInv, RecordsOK
<1> HIDE DEF r
<1> QED BY <1>2, <1>3, OneHandler DEF GatewayInv, SessionsByPhase

\* One stream's copy comes to its end.
LEMMA CopyEndsStep ==
    ASSUME GatewayInv, NEW h \in Handlers, NEW p \in Pumps, W!CopyEnds(h, p)
    PROVE  GatewayInv'
<1> DEFINE r == [hand[h] EXCEPT !.copies = @ \ {p}]
<1>1. hand[h] \in Hands
  BY DEF GatewayInv, RecordsOK
<1>2. r \in Hands /\ r.phase = hand[h].phase /\ r.sess = hand[h].sess
  BY <1>1 DEF Hands
<1>3. hand' = [hand EXCEPT ![h] = r] /\ UNCHANGED gate
  BY <1>1, SMTT(30) DEF W!CopyEnds, Hands, GatewayInv, RecordsOK
<1> HIDE DEF r
<1> QED BY <1>2, <1>3, OneHandler DEF GatewayInv, SessionsByPhase

\* A pump's step from one of its waits to the next.
LEMMA PumpStep ==
    ASSUME GatewayInv, NEW h \in Handlers, NEW p \in Pumps, NEW from,
           NEW to \in {"accept", "opening", "sending", "returned"}, W!Pump(h, p, from, to)
    PROVE  GatewayInv'
<1> DEFINE r == [hand[h] EXCEPT !.pump = [@ EXCEPT ![p] = to]]
<1>1. hand[h] \in Hands
  BY DEF GatewayInv, RecordsOK
<1>2. r \in Hands /\ r.phase = hand[h].phase /\ r.sess = hand[h].sess
  BY <1>1 DEF Hands
<1>3. hand' = [hand EXCEPT ![h] = r] /\ UNCHANGED gate
  BY <1>1 DEF W!Pump, Hands, GatewayInv, RecordsOK
<1> HIDE DEF r
<1> QED BY <1>2, <1>3, OneHandler DEF GatewayInv, SessionsByPhase

\* Both sessions enter the map with the bridge, or the listener is closed and
\* the target goes.
LEMMA RegisterStep ==
    ASSUME GatewayInv, NEW h \in Handlers, W!Register(h)
    PROVE  GatewayInv'
<1> USE DEF GatewayInv, RecordsOK
<1>1. hand[h] \in Hands /\ gate \in Gates /\ hand[h].phase = "register"
  BY DEF W!Register, W!At
<1>2. CASE gate.open = "yes"
  <2> DEFINE r == [hand[h] EXCEPT !.phase = "bridge", !.pump = [p \in Pumps |-> "accept"],
                                  !.watch = W!Sides]
             g == [gate EXCEPT !.sessions = @ \cup ({h} \X W!Sides)]
  <2>1. r \in Hands /\ r.phase = "bridge"
    BY <1>1 DEF Hands, Phases
  <2>2. hand' = [hand EXCEPT ![h] = r] /\ gate' = g
    BY <1>1, <1>2 DEF W!Register, Hands
  <2>3. g \in Gates /\ g.open = "yes"
        /\ \A k \in Handlers, x \in W!Sides :
             <<k, x>> \in g.sessions <=> (<<k, x>> \in gate.sessions \/ k = h)
    BY <1>1, <1>2 DEF Gates
  <2> HIDE DEF r, g
  <2>4. RecordsOK' /\ SessionsByPhase'
    BY <2>1, <2>2, <2>3 DEF SessionsByPhase
  <2>5. MapExact'
    BY <1>1, <1>2, <2>1, <2>2, <2>3 DEF MapExact
  <2> QED BY <2>4, <2>5
<1>3. CASE gate.open # "yes"
  <2> DEFINE r == [hand[h] EXCEPT !.phase = "done", !.sess = W!closing(@, {"target"})]
             g == [gate EXCEPT !.locked = TRUE]
  <2>4. /\ W!closing(hand[h].sess, {"target"}) \in SessStates
        /\ W!closing(hand[h].sess, {"target"})["target"] # "open"
    BY <1>1, ClosingType DEF Hands, W!Sides
  <2>1. r \in Hands /\ r.phase = "done" /\ r.sess["target"] # "open"
    BY <1>1, <2>4 DEF Hands, Phases
  <2>2. hand' = [hand EXCEPT ![h] = r] /\ gate' = g
    BY <1>1, <1>3 DEF W!Register, Hands
  <2>3. g \in Gates /\ g.open # "yes"
    BY <1>1, <1>3 DEF Gates
  <2> HIDE DEF r, g
  <2> QED BY <2>1, <2>2, <2>3, SMTT(30) DEF SessionsByPhase, MapExact
<1> QED BY <1>2, <1>3

\* The deferred deletes take out both entries of the handler and no other.
LEMMA DeregisterStep ==
    ASSUME GatewayInv, NEW h \in Handlers, W!Deregister(h)
    PROVE  GatewayInv'
<1> USE DEF GatewayInv, RecordsOK
<1> DEFINE r == [hand[h] EXCEPT !.phase = "done"]
           g == [gate EXCEPT !.sessions = @ \ ({h} \X W!Sides)]
<1>1. hand[h] \in Hands /\ gate \in Gates /\ hand[h].phase = "deregister"
  BY DEF W!Deregister, W!At
<1>2. r \in Hands /\ r.phase = "done" /\ r.sess = hand[h].sess
  BY <1>1 DEF Hands, Phases
<1>3. hand' = [hand EXCEPT ![h] = r] /\ gate' = g
  BY <1>1 DEF W!Deregister, Hands
<1>4. g \in Gates /\ g.open = gate.open
      /\ \A k \in Handlers, x \in W!Sides :
           <<k, x>> \in g.sessions <=> (<<k, x>> \in gate.sessions /\ k # h)
  BY <1>1 DEF Gates
<1> HIDE DEF r, g
<1>5. RecordsOK'
  BY <1>2, <1>3, <1>4
<1>6. SessionsByPhase'
  BY <1>1, <1>2, <1>3 DEF SessionsByPhase
<1>7. MapExact'
  BY <1>1, <1>2, <1>3, <1>4 DEF MapExact
<1> QED BY <1>5, <1>6, <1>7

\* Close ends the sessions of the map, then every page's.
LEMMA GatewayCloseStep ==
    ASSUME GatewayInv, W!CloseSessions \/ W!CloseServer
    PROVE  GatewayInv'
<1> USE DEF GatewayInv, RecordsOK
<1>1. PICK S \in [Handlers -> SUBSET W!Sides] :
        hand' = [h \in Handlers |-> [hand[h] EXCEPT !.sess = W!closing(@, S[h])]]
  <2>1. CASE W!CloseSessions
    <3> DEFINE S == [h \in Handlers |-> {x \in W!Sides : <<h, x>> \in gate.sessions}]
    <3>1. S \in [Handlers -> SUBSET W!Sides]
      OBVIOUS
    <3>2. hand' = [h \in Handlers |-> [hand[h] EXCEPT !.sess = W!closing(@, S[h])]]
      BY <2>1 DEF W!CloseSessions
    <3> QED BY <3>1, <3>2
  <2>2. CASE W!CloseServer
    <3> DEFINE S == [h \in Handlers |-> {"client"}]
    <3>1. S \in [Handlers -> SUBSET W!Sides]
      BY DEF W!Sides
    <3>2. hand' = [h \in Handlers |-> [hand[h] EXCEPT !.sess = W!closing(@, S[h])]]
      BY <2>2 DEF W!CloseServer
    <3> QED BY <3>1, <3>2
  <2> QED BY <2>1, <2>2
<1>2. gate' \in Gates /\ gate'.open # "yes"
  BY DEF W!CloseSessions, W!CloseServer, Gates
<1>3. ASSUME NEW h \in Handlers
      PROVE  /\ hand'[h] \in Hands /\ hand'[h].phase = hand[h].phase
             /\ hand[h].sess["target"] # "open" => hand'[h].sess["target"] = hand[h].sess["target"]
  BY <1>1, ClosingType, ZenonT(30) DEF Hands, W!Sides
<1>4. RecordsOK'
  BY <1>1, <1>2, <1>3
<1>5. SessionsByPhase'
  BY <1>3 DEF SessionsByPhase
<1> QED BY <1>2, <1>4, <1>5 DEF MapExact

-----------------------------------------------------------------------------
(* The gateway's invariant.                                                *)

LEMMA GatewayInitInv == W!Init => GatewayInv
<1> SUFFICES ASSUME W!Init PROVE GatewayInv
  OBVIOUS
<1>1. W!Fresh \in Hands /\ W!Fresh.phase = "idle" /\ W!Fresh.sess["target"] = "none"
  BY DEF W!Fresh, Hands, Phases, SessStates, W!Sides
<1>2. gate \in Gates /\ gate.sessions = {}
  BY DEF W!Init, Gates
<1>3. hand \in [Handlers -> Hands] /\ \A h \in Handlers : hand[h] = W!Fresh
  BY <1>1 DEF W!Init
<1> QED BY <1>1, <1>2, <1>3, SMTT(30) DEF GatewayInv, RecordsOK, SessionsByPhase, MapExact

\* Every step of the gateway keeps the inductive invariant.
LEMMA GatewayNextInv == GatewayInv /\ [W!Next]_W!vars => GatewayInv'
<1> SUFFICES ASSUME GatewayInv, [W!Next]_W!vars PROVE GatewayInv'
  OBVIOUS
<1>1. ASSUME NEW h \in Handlers, W!Request(h) \/ W!Dialed(h) \/ W!Handle(h) PROVE GatewayInv'
  BY <1>1, RequestStep, DialedStep, DialFailsStep, UpgradeStep, RegisterStep, BridgeDoneStep,
     DeregisterStep, SMTT(30)
  DEF W!Handle
<1>2. ASSUME NEW h \in Handlers, NEW x \in W!Sides, W!Watch(h, x) \/ W!PeerCloses(h, x) PROVE GatewayInv'
  BY <1>2, WatchStep, PeerClosesStep, SMTT(30)
<1>3. ASSUME NEW h \in Handlers, NEW p \in Pumps,
             \/ W!AcceptStream(h, p) \/ W!OpenStream(h, p) \/ W!PumpReturns(h, p)
             \/ W!ReceiveDatagram(h, p) \/ W!SendDatagram(h, p) \/ W!SendFails(h, p)
             \/ W!CopyEnds(h, p)
      PROVE  GatewayInv'
  BY <1>3, PumpStep, OpenStreamStep, CopyEndsStep, SMTT(30)
  DEF W!AcceptStream, W!PumpReturns, W!ReceiveDatagram, W!SendDatagram, W!SendFails
<1>4. CASE W!CloseSessions \/ W!CloseServer
  BY <1>4, GatewayCloseStep, SMTT(30)
<1>5. CASE UNCHANGED W!vars
  BY <1>5 DEF W!vars, GatewayInv, RecordsOK, SessionsByPhase, MapExact
<1> QED BY <1>1, <1>2, <1>3, <1>4, <1>5, SMTT(30) DEF W!Next, W!Step

\* The listener's map holds exactly the sessions of its bridges while it is open,
\* and a handler that returned left no target session, for any number of
\* handlers and pumps, wherever Close comes between their steps.
THEOREM GatewayMapExact == W!Spec => []GatewayClean
<1>1. GatewayInv => W!GatewayClean
  <2> SUFFICES ASSUME GatewayInv PROVE W!GatewayClean
    OBVIOUS
  <2>1. W!TypeOK
    BY DEF GatewayInv, RecordsOK, W!TypeOK, Gates, Hands, Phases, SessStates
  <2>2. ASSUME gate.open = "yes" PROVE gate.sessions = {h \in Handlers : W!Bridging(h)} \X W!Sides
    <3>1. gate.sessions \subseteq Handlers \X W!Sides
      BY <2>1 DEF W!TypeOK
    <3>2. \A h \in Handlers, x \in W!Sides :
            <<h, x>> \in gate.sessions <=> h \in {k \in Handlers : W!Bridging(k)}
      BY <2>2 DEF GatewayInv, MapExact, W!Bridging, W!At
    <3> QED BY <3>1, <3>2
  <2>3. \A h \in Handlers : W!At(h, "done") => ~W!Open(h, "target")
    BY DEF GatewayInv, SessionsByPhase, W!At, W!Open
  <2> QED BY <2>1, <2>2, <2>3 DEF W!GatewayClean
<1> QED BY <1>1, GatewayInitInv, GatewayNextInv, PTL DEF W!Spec, GatewayClean

=============================================================================

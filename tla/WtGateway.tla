------------------------------ MODULE WtGateway ------------------------------
(***************************************************************************)
(* The WebTransport gateway (internal/wtproxy/listener.go): CONNECT        *)
(* handlers that dial a target, accept the page's session, enter both in   *)
(* the listener's map and bridge them, and Close, which may come at any    *)
(* point of it.                                                            *)
(*                                                                         *)
(* webtransport-go and quic-go are external: a call that takes a context   *)
(* returns once that is cancelled or its session is closed, a handler that *)
(* panics is recovered (its deferred calls run, its locks stay locked),    *)
(* and a datagram may be refused for its size.                             *)
(***************************************************************************)
EXTENDS Naturals, FiniteSets

CONSTANTS
    Handlers,   \* the CONNECT requests
    Pumps       \* the pumps of a bridge: <<"bidi" | "uni" | "dgram", "up" | "down">>

Sides == {"client", "target"}

VARIABLES
    gate,       \* the Listener: sessions (the map's keys), open, locked
    hand        \* each handler: phase, sess, cancelled, pump, watch, copies
vars == <<gate, hand>>

Source(p) == IF p[2] = "up" THEN "client" ELSE "target"
Dest(p) == IF p[2] = "up" THEN "target" ELSE "client"

Fresh ==
    [phase |-> "idle", sess |-> [x \in Sides |-> "none"], cancelled |-> FALSE,
     pump |-> [p \in Pumps |-> "off"], watch |-> {}, copies |-> {}]
Init ==
    /\ gate = [sessions |-> {}, open |-> "yes", locked |-> FALSE]
    /\ hand = [h \in Handlers |-> Fresh]

Open(h, x) == hand[h].sess[x] = "open"
Over(h, x) == hand[h].sess[x] = "closed"
\* CloseWithError on those sessions of h that are open.
closing(sess, S) ==
    [x \in Sides |-> IF x \in S /\ sess[x] = "open" THEN "closed" ELSE sess[x]]
At(h, phase) == hand[h].phase = phase

-----------------------------------------------------------------------------
(* handleUpgrade.                                                          *)

\* The request names a target, passes the checks and is dialled, or not.
Request(h) ==
    /\ At(h, "idle") /\ gate.open # "no"
    /\ \E next \in {"dial", "done"} : hand' = [hand EXCEPT ![h].phase = next]
    /\ UNCHANGED gate
Dialed(h) ==
    /\ At(h, "dial")
    /\ hand' = [hand EXCEPT ![h].phase = "upgrade",
                            ![h].sess = [@ EXCEPT !["target"] = "open"]]
    /\ UNCHANGED gate
DialFails(h) ==
    /\ At(h, "dial")
    /\ hand' = [hand EXCEPT ![h].phase = "done"]
    /\ UNCHANGED gate
Upgrade(h) ==
    /\ At(h, "upgrade")
    /\ \/ /\ gate.open # "no"
          /\ hand' = [hand EXCEPT ![h].phase = "register",
                                  ![h].sess = [@ EXCEPT !["client"] = "open"]]
       \/ hand' = [hand EXCEPT ![h].phase = "done",
                               ![h].sess = closing(@, {"target"})]
    /\ UNCHANGED gate

\* Writing to the map of a closed listener panics with the mutex held; the
\* deferred dialer.Close still closes the target.
Register(h) ==
    /\ At(h, "register") /\ ~gate.locked
    /\ IF gate.open = "yes"
       THEN /\ gate' = [gate EXCEPT !.sessions = @ \cup ({h} \X Sides)]
            /\ hand' = [hand EXCEPT ![h].phase = "bridge",
                                    ![h].pump = [p \in Pumps |-> "accept"],
                                    ![h].watch = Sides]
       ELSE /\ gate' = [gate EXCEPT !.locked = TRUE]
            /\ hand' = [hand EXCEPT ![h].phase = "done",
                                    ![h].sess = closing(@, {"target"})]

\* Mutant: only the page's session leaves the map.
DeregisterClient(h) ==
    /\ At(h, "deregister") /\ ~gate.locked
    /\ gate' = [gate EXCEPT !.sessions = @ \ {<<h, "client">>}]
    /\ hand' = [hand EXCEPT ![h].phase = "done"]
\* The deferred deletes.
Deregister(h) ==
    /\ At(h, "deregister") /\ ~gate.locked
    /\ gate' = [gate EXCEPT !.sessions = @ \ ({h} \X Sides)]
    /\ hand' = [hand EXCEPT ![h].phase = "done"]

-----------------------------------------------------------------------------
(* bridgeSessions.                                                         *)

Pump(h, p, from, to) ==
    /\ At(h, "bridge") /\ hand[h].pump[p] = from
    /\ hand' = [hand EXCEPT ![h].pump[p] = to]
    /\ UNCHANGED gate
\* pumpBidi, pumpUni: a stream is accepted, its other half opened (the peer's
\* limit may keep that waiting) and copied by goroutines of its own.
AcceptStream(h, p) ==
    p[1] # "dgram" /\ Open(h, Source(p)) /\ Pump(h, p, "accept", "opening")
OpenStream(h, p) ==
    /\ At(h, "bridge") /\ hand[h].pump[p] = "opening" /\ Open(h, Dest(p))
    /\ hand' = [hand EXCEPT ![h].pump[p] = "accept", ![h].copies = @ \cup {p}]
    /\ UNCHANGED gate
\* pumpDatagrams; a send may be refused.
ReceiveDatagram(h, p) ==
    p[1] = "dgram" /\ Open(h, Source(p)) /\ Pump(h, p, "accept", "sending")
SendDatagram(h, p) == Open(h, Dest(p)) /\ Pump(h, p, "sending", "accept")
SendFails(h, p) == Pump(h, p, "sending", "returned")
\* A pump returns when its context is cancelled or its session closed.
PumpReturns(h, p) ==
    \/ (hand[h].cancelled \/ Over(h, Source(p))) /\ Pump(h, p, "accept", "returned")
    \/ (hand[h].cancelled \/ Over(h, Dest(p))) /\ Pump(h, p, "opening", "returned")

\* relayHalf and the copy of a pumpUni: they end with the stream ...
CopyEnds(h, p) ==
    /\ p \in hand[h].copies
    /\ hand' = [hand EXCEPT ![h].copies = @ \ {p}]
    /\ UNCHANGED gate
\* ... and with either session.
CopyCut(h, p) == (\E x \in Sides : Over(h, x)) /\ CopyEnds(h, p)

\* Mutant: a watcher returns without cancel().
WatchOnly(h, x) ==
    /\ x \in hand[h].watch /\ (Over(h, x) \/ hand[h].cancelled)
    /\ hand' = [hand EXCEPT ![h].watch = @ \ {x}]
    /\ UNCHANGED gate
Watch(h, x) ==
    /\ x \in hand[h].watch /\ (Over(h, x) \/ hand[h].cancelled)
    /\ hand' = [hand EXCEPT ![h].watch = @ \ {x}, ![h].cancelled = TRUE]
    /\ UNCHANGED gate
BridgeDone(h) ==
    /\ At(h, "bridge") /\ hand[h].watch = {}
    /\ \A p \in Pumps : hand[h].pump[p] = "returned"
    /\ hand' = [hand EXCEPT ![h].phase = "deregister",
                            ![h].sess = closing(@, Sides)]
    /\ UNCHANGED gate

-----------------------------------------------------------------------------
\* Close: the sessions of the map first, under the mutex ...
CloseSessions ==
    /\ gate.open = "yes" /\ ~gate.locked
    /\ gate' = [gate EXCEPT !.sessions = {}, !.open = "closing"]
    /\ hand' = [h \in Handlers |->
                  [hand[h] EXCEPT
                     !.sess = closing(@, {x \in Sides : <<h, x>> \in gate.sessions})]]
\* ... then the server, and with it every page's connection.
CloseServer ==
    /\ gate.open = "closing"
    /\ gate' = [gate EXCEPT !.open = "no"]
    /\ hand' = [h \in Handlers |-> [hand[h] EXCEPT !.sess = closing(@, {"client"})]]

\* The page or the target closes its session.
PeerCloses(h, x) ==
    /\ Open(h, x)
    /\ hand' = [hand EXCEPT ![h].sess = closing(@, {x})]
    /\ UNCHANGED gate

Handle(h) ==
    DialFails(h) \/ Upgrade(h) \/ Register(h) \/ BridgeDone(h) \/ Deregister(h)
Step(h) ==
    \/ Request(h) \/ Dialed(h) \/ Handle(h)
    \/ \E x \in Sides : Watch(h, x) \/ PeerCloses(h, x)
    \/ \E p \in Pumps :
         \/ AcceptStream(h, p) \/ OpenStream(h, p) \/ PumpReturns(h, p)
         \/ ReceiveDatagram(h, p) \/ SendDatagram(h, p) \/ SendFails(h, p)
         \/ CopyEnds(h, p)
Next == (\E h \in Handlers : Step(h)) \/ CloseSessions \/ CloseServer

\* Goroutines run: a dial ends (it has a timeout), a call returns once its
\* context or session is over, a datagram is sent or refused.  No stream is
\* promised to open and no peer to close.
Fairness ==
    /\ \A h \in Handlers :
         /\ WF_vars(Handle(h))
         /\ \A x \in Sides : WF_vars(Watch(h, x))
         /\ \A p \in Pumps :
              /\ WF_vars(PumpReturns(h, p)) /\ WF_vars(CopyCut(h, p))
              /\ WF_vars(SendDatagram(h, p) \/ SendFails(h, p))
    /\ WF_vars(CloseServer)
Spec == Init /\ [][Next]_vars /\ Fairness

-----------------------------------------------------------------------------
TypeOK ==
    /\ gate.sessions \subseteq Handlers \X Sides
    /\ gate.open \in {"yes", "closing", "no"} /\ gate.locked \in BOOLEAN
    /\ \A h \in Handlers :
         /\ hand[h].phase \in {"idle", "dial", "upgrade", "register", "bridge",
                               "deregister", "done"}
         /\ hand[h].sess \in [Sides -> {"none", "open", "closed"}]
         /\ hand[h].watch \subseteq Sides /\ hand[h].copies \subseteq Pumps

Bridging(h) == At(h, "bridge") \/ At(h, "deregister")
\* The listener's map has the sessions that Close must end and no others:
\* while the listener is open, both sessions of every bridge and nothing of a
\* handler that returned; and a handler that returned left no target session
\* behind, whichever way it went (handleUpgrade's error paths and defers).
GatewayClean ==
    /\ TypeOK
    /\ gate.open = "yes" =>
         gate.sessions = {h \in Handlers : Bridging(h)} \X Sides
    /\ \A h \in Handlers : At(h, "done") => ~Open(h, "target")

\* Once either side's session is over its bridge comes to its end: every pump
\* and watcher returns, both sessions are closed and no copy goroutine is left
\* (wg.Wait in bridgeSessions waits for eight goroutines).
GatewayBridgeEnds ==
    \A h \in Handlers :
      (At(h, "bridge") /\ \E x \in Sides : Over(h, x))
        ~> /\ ~At(h, "bridge") /\ \A x \in Sides : Over(h, x)
           /\ hand[h].copies = {}

\* Close "drops every active session": also those of handlers that were still
\* dialling, upgrading or about to enter the map when it ran.
CloseDropsAll ==
    gate.open = "no" ~> \A h \in Handlers, x \in Sides : ~Open(h, x)

\* Streams and datagrams "are relayed in both directions until either side
\* closes the session": while both sessions are open no pump has returned.
\* It does not hold: a datagram that is refused ends its pump.
RelayedUntilClosed ==
    \A h \in Handlers :
      At(h, "bridge") /\ (\A x \in Sides : Open(h, x)) =>
        \A p \in Pumps : hand[h].pump[p] # "returned" \/ hand[h].cancelled
=============================================================================

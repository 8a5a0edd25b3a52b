------------------------------- MODULE GoHost -------------------------------
(***************************************************************************)
(* The two servers of the Go host, side by side: a behaviour is one of the *)
(* relay (RelayServer) or one of the WebTransport gateway (WtGateway);     *)
(* they share no state.                                                    *)
(***************************************************************************)
EXTENDS RelayServer

CONSTANTS Handlers, Pumps     \* WtGateway's
VARIABLES part, gate, hand

W == INSTANCE WtGateway

GoInit == part \in {"relay", "gateway"} /\ Init /\ W!Init
GoNext ==
    /\ UNCHANGED part
    /\ \/ part = "relay" /\ Next /\ UNCHANGED <<gate, hand>>
       \/ part = "gateway" /\ W!Next /\ UNCHANGED vars
\* A server nobody has called yet has no step that must happen, so the
\* fairness of the part that rests asks nothing.
GoSpec ==
    /\ GoInit /\ [][GoNext]_<<part, vars, gate, hand>>
    /\ Fairness /\ W!Fairness

\* WtGateway!GatewayClean.
GatewayClean == W!GatewayClean
\* RelayServer!SessionTornDown and WtGateway!GatewayBridgeEnds: a session that
\* is lost takes everything it carries with it, in both servers.
BridgesTornDown == SessionTornDown /\ W!GatewayBridgeEnds
=============================================================================

------------------------------- MODULE Sockets -------------------------------
(* Both ends of the port between a page's WebSocket and the Service Worker:  *)
(* a behaviour is one of the worker's end (WsClient) or one of the page's    *)
(* (PageSocket), which meet in StreamPort.                                   *)
EXTENDS WsClient

CONSTANTS PageSends, PagePosts  \* PageSocket's bounds
ASSUME PageAssumption == PageSends \in Nat

VARIABLES part, readyState, _closed, attached, _closeGuard, bufferedAmount, blobs, calls,
          reply, posted, ended, got, up, kernel, events

P == INSTANCE PageSocket WITH MaxSends <- PageSends, MaxPosts <- PagePosts, port <- posted
pageVars == <<readyState, _closed, attached, _closeGuard, bufferedAmount, blobs, calls,
              reply, posted, ended, got, up, kernel, events>>

SocketsInit == part \in {"worker", "page"} /\ Init /\ P!Init
SocketsNext ==
    /\ UNCHANGED part
    /\ \/ part = "worker" /\ Next /\ UNCHANGED pageVars
       \/ part = "page" /\ P!Next /\ UNCHANGED vars
SocketsSpec ==
    /\ SocketsInit /\ [][SocketsNext]_<<part, vars, pageVars>>
    /\ part = "worker" => Fairness
    /\ part = "page" => P!Fairness

\* PageSocket!EventOrder.
EventOrder == P!EventOrder
\* WsClient!AskedIsTold and PageSocket!CloseCompletes: a close that was asked
\* for ends, on the worker's side of the port and on the page's.
ClosesTold == AskedIsTold /\ P!CloseCompletes
=============================================================================

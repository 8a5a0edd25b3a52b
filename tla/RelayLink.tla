----------------------------- MODULE RelayLink ------------------------------
(***************************************************************************)
(* The kernel's link to the relay: a behaviour is one of the shared yamux  *)
(* session (MuxSession) or one of the WebSocket beneath it (WsStream).     *)
(***************************************************************************)
EXTENDS MuxSession

CONSTANTS Cap, MaxFrame, MaxBytes     \* WsStream's

ASSUME SizesAssumption == Cap \in Nat /\ MaxFrame \in Nat

VARIABLES part, sock, callbacks, rx_buf, rx_bytes, read_cursor, closed, error, opened,
          read_waker, open_waker, task, received, delivered, overflowed, errorTaken, freedCall

K == INSTANCE WsStream
streamVars == <<sock, callbacks, rx_buf, rx_bytes, read_cursor, closed, error, opened,
                read_waker, open_waker, task, received, delivered, overflowed, errorTaken, freedCall>>

LinkInit == part \in {"session", "socket"} /\ Init /\ K!Init
\* A socket whose task has dropped it may rest; a session may not.
LinkNext ==
    /\ UNCHANGED part
    /\ \/ part = "session" /\ Next /\ UNCHANGED streamVars
       \/ part = "socket" /\ K!Next /\ UNCHANGED vars
       \/ part = "socket" /\ UNCHANGED <<vars, streamVars>>
LinkSpec ==
    /\ LinkInit /\ [][LinkNext]_<<part, vars, streamVars>>
    /\ Fairness      \* no step of a session nobody uses must happen
    /\ part = "socket" => K!Fairness

\* WsStream!ReadInOrder: what the socket accepted is read in order, each byte
\* once, and nobody sleeps on it.
ReadInOrder == K!ReadInOrder
\* WsStream!ErrorAfterData.
ErrorAfterData == K!ErrorAfterData
=============================================================================

----------------------------- MODULE StreamPort -----------------------------
(***************************************************************************)
(* What the page may rely on of the MessagePort that carries a WebSocket   *)
(* from the Service Worker: any number of messages, perhaps an error, and  *)
(* one close after which nothing comes.  The close is clean when the       *)
(* closing handshake was completed.                                        *)
(***************************************************************************)
EXTENDS Naturals, Sequences

VARIABLES
    port,   \* everything posted on the port, in order
    ended   \* the close has been posted, or the stream never came to be

Init == port = << >> /\ ended = FALSE

Post == ~ended /\ port' = Append(port, "message") /\ UNCHANGED ended

\* The stream ends: at most an error is posted in front of the close.
End ==
    /\ ~ended /\ ended' = TRUE
    /\ \/ \E last \in {"clean", "abnormal"} : port' = Append(port, last)
       \/ port' = port \o <<"error", "abnormal">>

\* The stream is refused before a port exists.
RefuseOpen == port = << >> /\ ~ended /\ ended' = TRUE /\ UNCHANGED port

Next == Post \/ End \/ RefuseOpen

Spec == Init /\ [][Next]_<<port, ended>>
=============================================================================

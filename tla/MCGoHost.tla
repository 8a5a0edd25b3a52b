------------------------------ MODULE MCGoHost -------------------------------
(* The Go host's servers on a small instance.                              *)
EXTENDS GoHost, TLC

CONSTANTS s1, s2, t1, t2

\* Both streams compete for the slots of one session.
OneBusySession == t1 :> s1 @@ t2 :> s1

\* A pump of each kind, and of each direction.
OneOfEach == {<<"bidi", "up">>, <<"uni", "down">>, <<"dgram", "down">>}
=============================================================================

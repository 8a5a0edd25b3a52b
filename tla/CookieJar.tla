------------------------------ MODULE CookieJar ------------------------------
(* Both sides of the cookie jar: a behaviour is one of the worker's store    *)
(* (CookieStore) or one of the documents' views of a jar (CookieView).       *)
EXTENDS CookieStore

CONSTANTS Pages, Present, Requesters, MaxMade, MaxCarried, Target
VARIABLES part, made, author, log, seen, batches, page, view, applied, outbox, acks,
          inFlight, pushed, req, missed

\* The sets of write ids keep the latest 256, those of change ids the latest 512:
\* up to that many writes, nothing is forgotten.
ASSUME ViewAssumption == Target \notin Pages /\ MaxMade \in 0..256 /\ MaxCarried \in Nat

V == INSTANCE CookieView WITH writes <- made, MaxWrites <- MaxMade
viewVars == <<made, author, log, seen, batches, page, view, applied, outbox, acks,
              inFlight, pushed, req, missed>>

JarInit == part \in {"store", "view"} /\ Init /\ V!Init
JarNext ==
    /\ UNCHANGED part
    /\ \/ part = "store" /\ Next /\ UNCHANGED viewVars
       \/ part = "view" /\ V!Next /\ UNCHANGED vars
\* A worker that has not started has no step that must happen, and mirrors
\* nothing.
JarSpec == JarInit /\ [][JarNext]_<<part, vars, viewVars>> /\ Fairness

\* CookieView!RequestSeesWrites and CookieView!NoChangeMissed.
ViewsComplete == V!RequestSeesWrites /\ V!NoChangeMissed
\* CookieView!OwnWriteStands.
OwnWriteStands == V!OwnWriteStands
=============================================================================

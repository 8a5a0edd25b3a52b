----------------------------- MODULE MCSyncFetch -----------------------------
(* Small instances of SyncFetch.  Safety: two pages of h1 and one of h2 use  *)
(* the same id.  Liveness: two pages of one host, each with its id, and two  *)
(* polls of the host, the second that of a restarted worker.                 *)
EXTENDS SyncFetch

CONSTANTS r1, r2, r3, h1, h2, p1, p2, p3, i1, i2

UniqueIds == [r \in Requests |-> IF r = r1 THEN i1 ELSE i2]
SharedId == [r \in Requests |-> i1]
TwoHosts == [r \in Requests |-> IF r = r3 THEN h2 ELSE h1]
OneHost == [r \in Requests |-> h1]
PollTwoHosts == [p \in Pollers |-> IF p = p3 THEN h2 ELSE h1]
=============================================================================

------------------------------- MODULE SwFetch -------------------------------
(* What the service worker does between a target and a page: a behaviour is  *)
(* one of its requests to targets (TargetFetch) or one of the rewriting of   *)
(* responses (Rewrite).                                                      *)
EXTENDS TargetFetch

CONSTANTS Scripts, Docs, Source, Size, Chunks, MAX_ENTRIES, MAX_BYTES
VARIABLES part, bundle, cache, bytes, script, doc

\* Every script response has a source, and the rewriter makes code of it that
\* is not empty.
ASSUME RewriteAssumption ==
  /\ Source \in [Scripts -> DOMAIN Size] /\ Size \in [DOMAIN Size -> Nat \ {0}]
  /\ Chunks \in Nat /\ MAX_ENTRIES \in Nat /\ MAX_BYTES \in Nat

R == INSTANCE Rewrite
rewriteVars == <<bundle, cache, bytes, script, doc>>

SwInit == part \in {"fetch", "rewrite"} /\ Init /\ R!Init
SwNext ==
  /\ UNCHANGED part
  /\ \/ part = "fetch" /\ Next /\ UNCHANGED rewriteVars
     \/ part = "rewrite" /\ R!Next /\ UNCHANGED vars
\* Rewrite!Fairness, when it is the part that runs.
RewriteFairness ==
  /\ WF_rewriteVars(part = "rewrite" /\ R!BundleStep)
  /\ \A r \in Scripts : WF_rewriteVars(part = "rewrite" /\ R!ScriptStep(r))
  /\ \A d \in Docs : WF_rewriteVars(part = "rewrite" /\ R!DocStep(d))
SwSpec ==
  /\ SwInit /\ [][SwNext]_<<part, vars, rewriteVars>>
  /\ Fairness /\ RewriteFairness

\* Rewrite!OnlyRewritten.
OnlyRewritten == R!OnlyRewritten
\* Rewrite!CacheExact.
CacheExact == R!CacheExact
\* Every response is answered.  Every fetch to a target ends: redirects and the
\* reissue for client hints are bounded, and a silent target is given up.  And
\* every script and document is delivered: a load of the bundle that fails
\* answers those that wait for it, and does not stop later ones.
ResponsesEnd == <>[](Settled /\ (part = "rewrite" => R!AllAnswered))
=============================================================================

------------------------------- MODULE Rewrite -------------------------------
(***************************************************************************)
(* How responses become what a page may run (web/sw.js): scripts through    *)
(* rewriteScriptResponse and its LRU cache, documents through               *)
(* transformDocumentResponse, streamed or buffered, both through the        *)
(* rewriter bundle that initBundle loads once for all of them.  A source is *)
(* an element of Sources (its bytes, address and kind); a document is a     *)
(* sequence of chunks; the code made from a source is the source itself     *)
(* with the rewriter's mark.                                                *)
(***************************************************************************)
EXTENDS Naturals, Sequences

CONSTANTS
  Scripts,      \* script responses, each a function of its source
  Docs,         \* document responses
  Source, Size, \* the source of each script response; the length of its rewritten code
  Chunks,       \* how many chunks a document has
  MAX_ENTRIES, MAX_BYTES  \* REWRITE_CACHE_MAX_ENTRIES, REWRITE_CACHE_MAX_BYTES

VARIABLES
  bundle,       \* bundlePromise: "none", "loading", "ready"
  cache, bytes, \* rewriteCache in its order of use, rewriteCacheBytes
  script,       \* each script response under way
  doc           \* each document response under way

vars == <<bundle, cache, bytes, script, doc>>

Blocked == [rewritten |-> TRUE, of |-> "blocked"]   \* code that only throws
CodeOf(s) == [rewritten |-> TRUE, of |-> s]

-----------------------------------------------------------------------------
(* The cache. *)

CacheKey(s, version) == [version |-> version, source |-> s]
Keys == {cache[i].key : i \in DOMAIN cache}
Position(k) == CHOOSE i \in DOMAIN cache : cache[i].key = k
Entry(k) == cache[Position(k)]
\* rewriteCache.delete(k).
Without(k) ==
  IF k \notin Keys THEN cache
  ELSE [i \in 1..(Len(cache) - 1) |-> IF i < Position(k) THEN cache[i] ELSE cache[i + 1]]
\* The bytes the i oldest entries of c hold, for each i; those c really holds.
UsedUpTo(c) ==
  LET upto[i \in 0..Len(c)] == IF i = 0 THEN 0 ELSE upto[i - 1] + Size[c[i].code.of]
  IN upto
Used(c) == UsedUpTo(c)[Len(c)]

rewriteCacheGet(k) == cache' = Append(Without(k), Entry(k)) /\ UNCHANGED bytes

(* The cache after the oldest entries are gone that do not fit, and its      *)
(* bytes counted as the code counts them.                                   *)
evicted(c, b) ==
  LET fits(i) == Len(c) - i <= MAX_ENTRIES /\ b - UsedUpTo(c)[i] <= MAX_BYTES
      i == CHOOSE j \in 0..Len(c) : fits(j) /\ \A h \in 0..(j - 1) : ~fits(h)
  IN [entries |-> SubSeq(c, i + 1, Len(c)), size |-> b - UsedUpTo(c)[i]]

\* Mutant: the bytes of the entry it replaces are not taken off.
rewriteCacheSetTwice(k, code) ==
  LET after == evicted(Append(Without(k), [key |-> k, code |-> code]), bytes + Size[code.of])
  IN IF Size[code.of] > MAX_BYTES THEN UNCHANGED <<cache, bytes>>
     ELSE cache' = after.entries /\ bytes' = after.size

rewriteCacheSet(k, code) ==
  LET prev == IF k \in Keys THEN Size[Entry(k).code.of] ELSE 0
      after == evicted(Append(Without(k), [key |-> k, code |-> code]),
                       bytes - prev + Size[code.of])
  IN IF Size[code.of] > MAX_BYTES THEN UNCHANGED <<cache, bytes>>
     ELSE cache' = after.entries /\ bytes' = after.size

-----------------------------------------------------------------------------
(* Scripts. *)

Deliver(r, code) == script' = [script EXCEPT ![r] = [pc |-> "done", code |-> code]]

(* The response arrives: an error page becomes a throw; otherwise its text   *)
(* and the cache's key are made.                                            *)
ScriptArrives(r) ==
  /\ script[r].pc = "waits"
  /\ \/ Deliver(r, Blocked)
     \/ script' = [script EXCEPT ![r] = [pc |-> "digest",
                                         key |-> CacheKey(Source[r], bundle = "ready")]]
  /\ UNCHANGED <<bundle, cache, bytes, doc>>

(* rewriteCacheKey's digest is there. *)
CacheHit(r) ==
  /\ script[r].pc = "digest" /\ script[r].key \in Keys
  /\ Deliver(r, Entry(script[r].key).code)
  /\ rewriteCacheGet(script[r].key)
  /\ UNCHANGED <<bundle, doc>>

(* ... and is not in the cache: initBundle. *)
CacheMiss(r) ==
  /\ script[r].pc = "digest" /\ script[r].key \notin Keys
  /\ script' = [script EXCEPT ![r].pc = IF bundle = "ready" THEN "rewrite" ELSE "init"]
  /\ bundle' = IF bundle = "none" THEN "loading" ELSE bundle
  /\ UNCHANGED <<cache, bytes, doc>>

rewritten(r) == CodeOf(Source[r])

RewriteScript(r) ==
  /\ script[r].pc = "rewrite"
  /\ \/ Deliver(r, rewritten(r)) /\ rewriteCacheSet(script[r].key, rewritten(r))
     \/ Deliver(r, Blocked) /\ UNCHANGED <<cache, bytes>>
  /\ UNCHANGED <<bundle, doc>>

-----------------------------------------------------------------------------
(* Documents.  d.read chunks of the body have been read, of them d.held are  *)
(* kept back; d.out is what the page was given.                             *)

DocIdle == [pc |-> "waits", stream |-> FALSE, charset |-> "none", read |-> 0,
            held |-> <<>>, out |-> <<>>, end |-> "open"]
Step(d, rec) == doc' = [doc EXCEPT ![d] = rec] /\ UNCHANGED <<cache, bytes, script>>
Ended(rec, end) == [rec EXCEPT !.pc = "done", !.end = end, !.held = <<>>]
Made(chunk) == [chunk |-> chunk, rewritten |-> TRUE]

(* transformDocumentResponse: what is not HTML, or is one of the worker's    *)
(* own error pages, passes.                                                 *)
DocumentArrives(d) ==
  /\ doc[d].pc = "waits"
  /\ \/ Step(d, Ended(doc[d], "passed"))
     \/ \E stream \in BOOLEAN, charset \in {"none", "utf-8", "other"} :
          LET streams == stream /\ charset # "other"
          IN Step(d, [DocIdle EXCEPT !.pc = IF streams THEN "try" ELSE "buffer",
                                     !.stream = stream, !.charset = charset])
  /\ UNCHANGED bundle

(* Both ways await initBundle: the streamed one before it reads, the         *)
(* buffered one after.                                                      *)
AwaitBundle(d) ==
  LET then == IF doc[d].pc = "try" THEN "open" ELSE "make"
      wait == IF doc[d].pc = "try" THEN "tryinit" ELSE "init"
  IN /\ doc[d].pc \in {"try", "transform"}
     /\ Step(d, [doc[d] EXCEPT !.pc = IF bundle = "ready" THEN then ELSE wait])
     /\ bundle' = IF bundle = "none" THEN "loading" ELSE bundle

(* HtmlTxn, unless the document comes from another host or the constructor   *)
(* throws; without a charset in the header the first chunk is read for one. *)
OpenStream(d) ==
  /\ doc[d].pc = "open"
  /\ \E pc \in {"buffer", IF doc[d].charset = "none" THEN "peek" ELSE "pipe"} :
       Step(d, [doc[d] EXCEPT !.pc = pc])
  /\ UNCHANGED bundle

More(d) == doc[d].read < Chunks
Taken(d) == [doc[d] EXCEPT !.read = @ + 1, !.held = Append(@, doc[d].read + 1)]

(* The first chunk names another charset, or HtmlTxn throws: all of the body *)
(* is read first.  Otherwise replayStream is piped.                         *)
Peek(d) ==
  /\ doc[d].pc = "peek"
  /\ \E pc \in {"pipe", "drain"} :
       Step(d, [(IF More(d) THEN Taken(d) ELSE doc[d]) EXCEPT !.pc = pc])
  /\ UNCHANGED bundle

(* A chunk is read into a buffer; after the last, the text is decoded. *)
ReadChunk(d) ==
  /\ doc[d].pc \in {"buffer", "drain"}
  /\ Step(d, IF More(d) THEN Taken(d) ELSE [doc[d] EXCEPT !.pc = "transform"])
  /\ UNCHANGED bundle

(* The body fails under a reader: the response that is returned has a locked *)
(* or used body, which the browser refuses.                                 *)
BodyFails(d) ==
  /\ doc[d].pc \in {"buffer", "drain", "peek"}
  /\ Step(d, Ended(doc[d], "refused"))
  /\ UNCHANGED bundle

\* Mutant: when transformHtml throws, the document goes out as it came.
TransformKeepsHTML(d) ==
  /\ doc[d].pc = "make"
  /\ \E ok \in BOOLEAN :
       Step(d, [Ended(doc[d], "closed") EXCEPT
                  !.out = [i \in DOMAIN doc[d].held |->
                             [chunk |-> doc[d].held[i], rewritten |-> ok]]])
  /\ UNCHANGED bundle

(* transformHtml, or MALFORMED_HTML when it throws or its output is empty. *)
Transform(d) ==
  /\ doc[d].pc = "make"
  /\ \/ Step(d, [Ended(doc[d], "closed") EXCEPT
                    !.out = [i \in DOMAIN doc[d].held |-> Made(doc[d].held[i])]])
     \/ Step(d, Ended(doc[d], "refused"))
  /\ UNCHANGED bundle

(* streamDocumentResponse: HtmlTxn.write for the held chunk, then for each   *)
(* chunk of the body; HtmlTxn.end after the last.                           *)
PipeChunk(d) ==
  LET x == doc[d]
  IN /\ x.pc = "pipe"
     /\ Step(d, IF x.held # <<>>
                THEN [x EXCEPT !.held = Tail(@), !.out = Append(@, Made(x.held[1]))]
                ELSE IF More(d)
                THEN [x EXCEPT !.read = @ + 1, !.out = Append(@, Made(x.read + 1))]
                ELSE Ended(x, "closed"))
     /\ UNCHANGED bundle

(* write or end throws, or the body fails: the stream the page reads is      *)
(* errored.                                                                 *)
PipeFails(d) ==
  /\ doc[d].pc = "pipe"
  /\ Step(d, Ended(doc[d], "errored"))
  /\ UNCHANGED bundle

-----------------------------------------------------------------------------
(* The bundle's one load: who waits for it goes on, or fails; a failed load  *)
(* is forgotten.                                                            *)

BundleLoads ==
  /\ bundle = "loading" /\ bundle' = "ready"
  /\ script' = [r \in Scripts |->
       IF script[r].pc = "init" THEN [script[r] EXCEPT !.pc = "rewrite"] ELSE script[r]]
  /\ doc' = [d \in Docs |-> [doc[d] EXCEPT
       !.pc = CASE @ = "tryinit" -> "open" [] @ = "init" -> "make" [] OTHER -> @]]
  /\ UNCHANGED <<cache, bytes>>

\* Mutant: who waits for the load is not told that it failed.
BundleFailsQuietly ==
  bundle = "loading" /\ bundle' = "none" /\ UNCHANGED <<script, doc, cache, bytes>>

BundleFails ==
  /\ bundle = "loading" /\ bundle' = "none"
  /\ script' = [r \in Scripts |->
       IF script[r].pc = "init" THEN [pc |-> "done", code |-> Blocked] ELSE script[r]]
  /\ doc' = [d \in Docs |->
       CASE doc[d].pc = "tryinit" -> [doc[d] EXCEPT !.pc = "buffer"]
         [] doc[d].pc = "init" -> Ended(doc[d], "refused")
         [] OTHER -> doc[d]]
  /\ UNCHANGED <<cache, bytes>>

Init ==
  /\ bundle = "none" /\ cache = <<>> /\ bytes = 0
  /\ script = [r \in Scripts |-> [pc |-> "waits"]] /\ doc = [d \in Docs |-> DocIdle]

ScriptStep(r) == ScriptArrives(r) \/ CacheHit(r) \/ CacheMiss(r) \/ RewriteScript(r)
DocStep(d) ==
  \/ DocumentArrives(d) \/ AwaitBundle(d) \/ OpenStream(d) \/ Peek(d) \/ ReadChunk(d)
  \/ BodyFails(d) \/ Transform(d) \/ PipeChunk(d) \/ PipeFails(d)
BundleStep == BundleLoads \/ BundleFails

Next ==
  (\E r \in Scripts : ScriptStep(r)) \/ (\E d \in Docs : DocStep(d)) \/ BundleStep

(* Promises settle: the digest, the load of the bundle, and reads of a body  *)
(* the transport delivers or fails.                                         *)
Fairness ==
  /\ WF_vars(BundleStep)
  /\ \A r \in Scripts : WF_vars(ScriptStep(r))
  /\ \A d \in Docs : WF_vars(DocStep(d))

Spec == Init /\ [][Next]_vars /\ Fairness

-----------------------------------------------------------------------------

TypeOK ==
  /\ bundle \in {"none", "loading", "ready"}
  /\ \A r \in Scripts : script[r].pc \in {"waits", "digest", "init", "rewrite", "done"}
  /\ \A d \in Docs :
       /\ doc[d].read \in 0..Chunks
       /\ doc[d].end \in {"open", "closed", "passed", "refused", "errored"}

(* Nothing runs that the rewriter has not made.  A script's response carries *)
(* its own source rewritten, or code that only throws, whatever the cache    *)
(* held and however the bundle's load went; every part of a document a page  *)
(* is given went through the rewriter; and a document that ends cleanly is   *)
(* all of it, in order, the chunk read ahead for its charset included.       *)
OnlyRewritten ==
  /\ TypeOK
  /\ \A r \in Scripts :
       script[r].pc = "done" => script[r].code \in {Blocked, CodeOf(Source[r])}
  /\ \A d \in Docs :
       /\ \A i \in DOMAIN doc[d].out : doc[d].out[i] = Made(i)
       /\ doc[d].end = "closed" => Len(doc[d].out) = Chunks
       /\ doc[d].end \in {"refused", "passed"} => doc[d].out = <<>>

(* The cache is what its limits say: rewriteCacheBytes is the length of what *)
(* it holds, it never exceeds its limits between two requests, it holds each *)
(* key once, and only code the rewriter made from that key's source.         *)
CacheExact ==
  /\ bytes = Used(cache) /\ bytes <= MAX_BYTES /\ Len(cache) <= MAX_ENTRIES
  /\ \A i, j \in DOMAIN cache : cache[i].key = cache[j].key => i = j
  /\ \A i \in DOMAIN cache : cache[i].code = CodeOf(cache[i].key.source)

\* Every response has been answered.
AllAnswered ==
  /\ \A r \in Scripts : script[r].pc = "done"
  /\ \A d \in Docs : doc[d].pc = "done"

=============================================================================

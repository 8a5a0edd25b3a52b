------------------------------ MODULE MCSwFetch ------------------------------
(* The service worker's part, on small instances.                            *)
EXTENDS SwFetch

MCSource == [r \in Scripts |-> IF r = "s3" THEN "b" ELSE "a"]
MCSize == [a |-> 1, b |-> 2]

\* One request makes any of a page's calls, the other asks for the same URL
\* with a method that is not safelisted, so that they meet in the cache.
Call(mode, credentials, redirect, method, names, url) ==
  [kind |-> "runtime", mode |-> mode, credentials |-> credentials, redirect |-> redirect,
   method |-> method, names |-> names, url |-> url]
Puts == {Call("cors", c, "follow", "PUT", {}, "B") : c \in {"same-origin", "include"}}
PageCalls ==
  {Call("cors", "same-origin", "follow", "GET", {"auth"}, Doc),
   Call("cors", "include", "follow", "PUT", {}, Doc),
   Call("no-cors", "include", "follow", "GET", {}, Doc),
   Call("same-origin", "include", "follow", "GET", {}, Doc),
   Call("cors", "include", "manual", "GET", {}, Doc),
   Call("cors", "include", "error", "GET", {}, Doc),
   [Call("", "include", "follow", "POST", {}, Doc) EXCEPT !.kind = "document"],
   [Call("cors", "include", "follow", "GET", {}, "B") EXCEPT !.kind = "element"]}
MCInputs == [r \in Reqs |-> IF r = "r2" THEN Puts ELSE Puts \cup PageCalls]
=============================================================================

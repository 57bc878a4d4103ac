----------------------------- MODULE MCPipeline ----------------------------
EXTENDS Pipeline

Base == [path |-> "api", method |-> "POST", body |-> "plain", csrf |-> "match",
         user |-> "admin", address |-> "a1"]

CONSTANT Rare  \* the request that may carry anything

\* A mutation, an event stream, a read, logins from two addresses, ...
Common ==
  {Base, [Base EXCEPT !.path = "stream", !.method = "GET"], [Base EXCEPT !.method = "GET"],
   [Base EXCEPT !.path = "login"], [Base EXCEPT !.path = "login", !.address = "a2"]}

\* ... and a request for each layer that can answer by itself, or sent to a page by nobody.
MCTraffic == Common \cup
  {[Base EXCEPT !.path = "pprof"], [Base EXCEPT !.body = "badEncoding"],
   [Base EXCEPT !.body = "tooLarge"], [Base EXCEPT !.method = "OPTIONS"],
   [Base EXCEPT !.csrf = "mismatch"], [Base EXCEPT !.path = "refresh", !.csrf = "mismatch"],
   [Base EXCEPT !.user = "none"], [Base EXCEPT !.user = "observer"],
   [Base EXCEPT !.path = "page", !.user = "none", !.csrf = "bearer"]}

MCArrivals == {f \in [Request -> MCTraffic] : \A r \in Request \ {Rare} : f[r] \in Common}
=============================================================================

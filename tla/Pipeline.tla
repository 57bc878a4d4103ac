------------------------------ MODULE Pipeline -----------------------------
(***************************************************************************)
(* The HTTP request pipeline of the console: the middleware chain          *)
(* (internal/api/router.go, internal/api/middleware), the rate limiter of  *)
(* the login endpoints, the audit writer (internal/audit), and the         *)
(* shutdown of the process (cmd/main.go, internal/bootstrap/app.go).       *)
(*                                                                         *)
(* A request is served once.  Its steps are the ones other goroutines can  *)
(* come between: the limiter's critical section, the checks behind it, the *)
(* handler, and the audit record.  What a check decides from headers alone *)
(* is a field of the request; Authz has the decisions of VerifyRBAC.       *)
(* fasthttp's Shutdown (external) stops accepting and waits for the open   *)
(* connections, event streams included.                                    *)
(***************************************************************************)
EXTENDS Naturals, Sequences, FiniteSets

CONSTANTS
  Request,   \* bound: the requests of a run
  Traffic,   \* what a request may carry
  Arrivals,  \* bound: the ways the requests of a run carry it
  Address,   \* client addresses (ClientIP)
  Limit,     \* AUTH_RATE_LIMIT; 0 turns the limiter off
  Window,    \* AUTH_RATE_LIMIT_WINDOW, in ticks
  PurgeEvery,    \* ipRateLimiterPurgeEvery
  MaxStaleKeys,  \* ipRateLimiterMaxStaleKeys
  QueueSize,     \* auditQueueSize
  Nobody

ASSUME PipelineConstants ==
  /\ Limit \in Nat /\ Window \in Nat \ {0}
  /\ PurgeEvery \in Nat \ {0} /\ MaxStaleKeys \in Nat /\ QueueSize \in Nat \ {0}
  /\ Nobody \notin Request
  /\ Arrivals \subseteq [Request -> Traffic]
  /\ \A q \in Traffic :
       /\ q.path \in {"login", "refresh", "public", "api", "stream", "page", "pprof"}
       /\ q.user \in {"none", "observer", "admin"} /\ q.address \in Address

VARIABLES
  pc,         \* request -> how far it is
  in,         \* request -> what it carries
  events,     \* the limiter's map: address -> its attempts, each <<request, age>>
  allowCount, \* modulo PurgeEvery
  granted,    \* history: address -> the attempts let through in the last Window
  queue,      \* the audit writer's channel
  closed,     \* Stop has closed it
  writer,     \* the writer goroutine: "wait", "took", "insert", "ended"
  holds,      \* the record it has taken
  rows,       \* audit_log, oldest first
  logged,     \* history: audited mutations in the order of Log
  stage       \* of the process

limiterVars == <<events, allowCount, granted>>
auditVars == <<queue, closed, writer, holds, rows, logged>>
pipelineVars == <<pc, in, limiterVars, auditVars, stage>>

-----------------------------------------------------------------------------
\* path_prefixes.go.  Login and invite paths are public, too; "page" is any path outside /api/
\* but pprof's, which the web application answers.
IsAuthRateLimitedPath(q) == q.path = "login"
IsPublicPath(q) == q.path \in {"login", "refresh", "public"}
IsAPIPath(q) == IsPublicPath(q) \/ q.path \in {"api", "stream"}
IsRead(q) == q.method \in {"GET", "HEAD", "OPTIONS"}
RequiresAuth(q) == IsAPIPath(q) /\ ~IsPublicPath(q)

\* A session cookie, or the refresh cookie on the refresh path, makes the token check necessary;
\* "bearer" requests carry neither.
RequiresCSRF(q) == ~IsRead(q) /\ q.csrf # "bearer" /\ (RequiresAuth(q) \/ q.path = "refresh")

\* The layers that can answer by themselves, as the conditions under which they do; allowed is
\* the limiter's verdict.  VerifyRBAC's own decisions are in Authz.
ApplyDebugPprof(q) == q.path = "pprof"
DecompressRequestBody(q) == q.body \in {"badEncoding", "inflatesTooLarge"}
CheckBodySizeLimit(q) == q.body = "tooLarge"
VerifyAuthRateLimit(q, allowed) == IsAuthRateLimitedPath(q) /\ ~allowed
VerifyCors(q) == q.method = "OPTIONS"
VerifyCSRF(q) == RequiresCSRF(q) /\ q.csrf = "mismatch"
VerifyAuth(q) == RequiresAuth(q) /\ q.user = "none"
VerifyRBAC(q) == RequiresAuth(q) /\ ~IsRead(q) /\ q.user = "observer"

\* The chain of Init in router.go, divided where the limiter sits.
AnsweredBefore(q) == ApplyDebugPprof(q) \/ DecompressRequestBody(q) \/ CheckBodySizeLimit(q)
AnsweredAfter(q) == VerifyCors(q) \/ VerifyCSRF(q) \/ VerifyAuth(q) \/ VerifyRBAC(q)

\* What VerifyAudit does not pass by: it asks neither for a user nor for an API path.
Audited(q) == ~IsRead(q) /\ ~IsPublicPath(q)

-----------------------------------------------------------------------------
\* The attempts whose time is after the cutoff.  A slice of times is a set of attempts: one
\* request makes one, and nothing depends on their order.
Fresh(attempts) == {t \in attempts : t[2] < Window}

\* allow: what the limiter knows of an address, without what left the window.
Recent(a) == IF a \in DOMAIN events THEN Fresh(events[a]) ELSE {}

Allowed(a) == Limit = 0 \/ Cardinality(Recent(a)) < Limit

\* purgeStaleLocked.
PurgeStale_TooEager(map) ==
  [a \in {b \in DOMAIN map : \E t \in map[b] : t[2] < Window - 1} |-> map[a]]
PurgeStale(map) ==
  [a \in {b \in DOMAIN map : Fresh(map[b]) # {}} |-> Fresh(map[a])]

\* allow, as one critical section.
Allow(r, a) ==
  IF Limit = 0 THEN UNCHANGED limiterVars
  ELSE LET times == IF Allowed(a) THEN Recent(a) \cup {<<r, 0>>} ELSE Recent(a)
           map == [b \in DOMAIN events \cup {a} |-> IF b = a THEN times ELSE events[b]]
           count == (allowCount + 1) % PurgeEvery
       IN  IF Allowed(a)
           THEN /\ events' = IF count = 0 \/ Cardinality(DOMAIN map) > MaxStaleKeys
                             THEN PurgeStale(map) ELSE map
                /\ allowCount' = count
                /\ granted' = [granted EXCEPT ![a] = @ \cup {<<r, 0>>}]
           ELSE events' = map /\ UNCHANGED <<allowCount, granted>>

\* Time passes; an attempt that left the window does not age further.
Older(t) == <<t[1], IF t[2] < Window THEN t[2] + 1 ELSE Window>>

Tick ==
  /\ stage = "serving"
  /\ \E a \in Address : granted[a] # {}
  /\ events' = [a \in DOMAIN events |-> {Older(t) : t \in events[a]}]
  /\ granted' = [a \in Address |-> Fresh({Older(t) : t \in granted[a]})]
  /\ UNCHANGED <<pc, in, allowCount, auditVars, stage>>

-----------------------------------------------------------------------------
PipelineInit ==
  /\ pc = [r \in Request |-> "none"]
  /\ in \in Arrivals
  /\ events = <<>> /\ allowCount = 0 /\ granted = [a \in Address |-> {}]
  /\ queue = <<>> /\ closed = FALSE /\ writer = "wait" /\ holds = Nobody
  /\ rows = <<>> /\ logged = <<>>
  /\ stage = "serving"

GoTo(r, step) == pc' = [pc EXCEPT ![r] = step]

\* The chain down to the limiter.  A response written by a layer ends the request.
Admit(r) ==
  LET q == in[r]
  IN  /\ stage = "serving" /\ pc[r] = "none"
      /\ IF AnsweredBefore(q)
         THEN GoTo(r, "refused") /\ UNCHANGED limiterVars
         ELSE IF IsAuthRateLimitedPath(q)
         THEN /\ Allow(r, q.address)
              /\ GoTo(r, IF VerifyAuthRateLimit(q, Allowed(q.address))
                         THEN "refused" ELSE "admitted")
         ELSE GoTo(r, "admitted") /\ UNCHANGED limiterVars
      /\ UNCHANGED <<in, auditVars, stage>>

\* CORS, CSRF, authentication and authorisation.  VerifyAudit is outside them, and sees what
\* they refuse as a status of 400 or more (or as a preflight, which it ignores).
Authorize(r) ==
  /\ pc[r] = "admitted"
  /\ GoTo(r, IF AnsweredAfter(in[r]) THEN "refused" ELSE "handler")
  /\ UNCHANGED <<in, limiterVars, auditVars, stage>>

\* The handler succeeds, opens an event stream, answers an error, or panics: then the panic
\* unwinds through VerifyAudit to ApplyRecover.  The handler of the pages (spa.go) serves a file
\* whatever the method.
Handle(r) ==
  /\ pc[r] = "handler"
  /\ \/ in[r].path # "stream" /\ GoTo(r, IF Audited(in[r]) THEN "log" ELSE "answered")
     \/ in[r].path = "stream" /\ GoTo(r, "streaming")
     \/ GoTo(r, "failed")
  /\ UNCHANGED <<in, limiterVars, auditVars, stage>>

\* Log: a send that does not wait.  On a closed channel it panics: the client is answered 500.
LogAudit(r) ==
  /\ pc[r] = "log"
  /\ IF closed
     THEN GoTo(r, "panicked") /\ UNCHANGED <<queue, logged>>
     ELSE /\ GoTo(r, "answered")
          /\ logged' = Append(logged, r)
          /\ queue' = IF Len(queue) < QueueSize THEN Append(queue, r) ELSE queue
  /\ UNCHANGED <<in, limiterVars, closed, writer, holds, rows, stage>>

\* The stream's client goes away; the writer notices at its next event or ping.
EndStream(r) ==
  /\ pc[r] = "streaming"
  /\ GoTo(r, "answered")
  /\ UNCHANGED <<in, limiterVars, auditVars, stage>>

-----------------------------------------------------------------------------
\* Start: the writer receives a record, ...
Take ==
  /\ writer = "wait" /\ queue # <<>> /\ stage # "exited"
  /\ writer' = "took" /\ holds' = Head(queue) /\ queue' = Tail(queue)
  /\ UNCHANGED <<pc, in, limiterVars, closed, rows, logged, stage>>

\* ... gets a connection while the pool is open, ...
Acquire ==
  /\ writer = "took" /\ stage # "exited"
  /\ IF stage \in {"closingDB", "stopMailer", "settle"}
     THEN writer' = "wait" /\ holds' = Nobody
     ELSE writer' = "insert" /\ UNCHANGED holds
  /\ UNCHANGED <<pc, in, limiterVars, queue, closed, rows, logged, stage>>

\* ... and inserts the row; an error is ignored.
Insert_Retries ==
  /\ writer = "insert" /\ stage # "exited"
  /\ rows' = Append(rows, holds)
  /\ \/ writer' = "wait" /\ holds' = Nobody
     \/ Len(rows) < 2 /\ UNCHANGED <<writer, holds>>
  /\ UNCHANGED <<pc, in, limiterVars, queue, closed, logged, stage>>
Insert ==
  /\ writer = "insert" /\ stage # "exited"
  /\ rows' \in {Append(rows, holds), rows}
  /\ writer' = "wait" /\ holds' = Nobody
  /\ UNCHANGED <<pc, in, limiterVars, queue, closed, logged, stage>>

\* The range over the channel ends.
EndWriter ==
  /\ writer = "wait" /\ queue = <<>> /\ closed /\ stage # "exited"
  /\ writer' = "ended"
  /\ UNCHANGED <<pc, in, limiterVars, queue, closed, holds, rows, logged, stage>>

-----------------------------------------------------------------------------
Ended == {"none", "refused", "failed", "answered", "panicked"}

\* main: the signal, then Shutdown waits for every open connection, then Close in its order;
\* pool.Close waits for the connection the writer holds; then telemetry and the pause.
Order == <<"serving", "shutdown", "stopMetrics", "stopAudit", "stopGateway", "closingDB",
           "stopMailer", "settle", "exited">>

Advance(from) ==
  /\ stage = from
  /\ stage' = Order[CHOOSE i \in 2 .. Len(Order) : Order[i - 1] = from]

Signal ==
  /\ Advance("serving")
  /\ UNCHANGED <<pc, in, limiterVars, auditVars>>

ServerShutdown_AtOnce ==
  /\ Advance("shutdown")
  /\ UNCHANGED <<pc, in, limiterVars, auditVars>>
ServerShutdown ==
  /\ \A r \in Request : pc[r] \in Ended
  /\ Advance("shutdown")
  /\ UNCHANGED <<pc, in, limiterVars, auditVars>>

StopAudit ==
  /\ Advance("stopAudit")
  /\ closed' = TRUE
  /\ UNCHANGED <<pc, in, limiterVars, queue, writer, holds, rows, logged>>

StopDB_AwaitsWriter ==
  /\ writer = "insert"
  /\ Advance("closingDB")
  /\ UNCHANGED <<pc, in, limiterVars, auditVars>>
StopDB ==
  /\ writer # "insert"
  /\ Advance("closingDB")
  /\ UNCHANGED <<pc, in, limiterVars, auditVars>>

StopOther ==
  /\ \E s \in {"stopMetrics", "stopGateway", "stopMailer", "settle"} : Advance(s)
  /\ UNCHANGED <<pc, in, limiterVars, auditVars>>

Close == StopAudit \/ StopDB \/ StopOther

Serve(r) == Authorize(r) \/ Handle(r) \/ LogAudit(r)
WriterGoes == Take \/ Acquire \/ EndWriter
Writer == WriterGoes \/ Insert

PipelineNext ==
  \/ Tick \/ Signal \/ ServerShutdown \/ Close \/ Writer
  \/ \E r \in Request : Admit(r) \/ Serve(r) \/ EndStream(r)

\* Request timeouts end every handler, and main and the writer are never blocked for ever by
\* anything but what their guards wait for.  Nobody owes the end of a stream, or a signal, or the
\* answer to the writer's insert: it runs on main's context and has no deadline.
PipelineFairness ==
  /\ \A r \in Request : WF_pipelineVars(Serve(r))
  /\ WF_pipelineVars(WriterGoes)
  /\ WF_pipelineVars(ServerShutdown) /\ WF_pipelineVars(Close)

PipelineSpec == PipelineInit /\ [][PipelineNext]_pipelineVars /\ PipelineFairness

-----------------------------------------------------------------------------
\* The type invariant.
PipelineTypeOK ==
  /\ pc \in [Request -> Ended \cup {"admitted", "handler", "log", "streaming"}]
  /\ in \in [Request -> Traffic]
  /\ DOMAIN events \subseteq Address
  /\ \A a \in DOMAIN events : events[a] \subseteq Request \X (0 .. Window)
  /\ allowCount \in 0 .. PurgeEvery - 1
  /\ queue \in Seq(Request) /\ Len(queue) <= QueueSize
  /\ closed \in BOOLEAN /\ writer \in {"wait", "took", "insert", "ended"}
  /\ holds \in Request \cup {Nobody}
  /\ rows \in Seq(Request) /\ logged \in Seq(Request)
  /\ stage \in {Order[i] : i \in 1 .. Len(Order)}

\* The limiter counts exactly the attempts it let through in the last window, whatever it
\* purged meanwhile, and never lets more than Limit through in one (allow, purgeStaleLocked).
LimiterExact ==
  Limit > 0 => \A a \in Address : Recent(a) = granted[a] /\ Cardinality(granted[a]) <= Limit

\* No request sends its audit record on the closed channel: the channel is closed only when
\* Shutdown has seen the last request off (audit.go Log and Stop, main, Close).
NoLogAfterStop == closed => \A r \in Request : pc[r] # "log" /\ pc[r] # "panicked"

\* After the signal the process exits, provided the clients of event streams go away (the writers
\* of the streams only end on a failing write) and the database answers the writer's inserts,
\* whose connection pool.Close waits for (main, Shutdown, the SSE handlers, Start, Close).
ShutdownCompletes ==
  /\ <>[](\A r \in Request : pc[r] # "streaming")
  /\ []<>(writer # "insert")
  => (stage = "shutdown" ~> stage = "exited")

\* How far the log is: the place of its last row among the audited mutations.
Position == IF rows = <<>> THEN 0
            ELSE CHOOSE i \in 1 .. Len(logged) : logged[i] = rows[Len(rows)]
Trail == INSTANCE AuditTrail WITH
  mutation <- {r \in Request : Audited(in[r]) /\ RequiresAuth(in[r]) /\ in[r].user = "admin"},
  stray <- {r \in Request : Audited(in[r]) /\ in[r].path = "page"},
  answered <- logged, position <- Position, rows <- rows

\* The audit log implements its promise: of the API, only mutations by somebody who may make
\* them and that succeeded, besides them only what the pages answered, each once, in the order
\* they were logged (VerifyAudit, Log, Start).
ImplementsTrail == Trail!TrailSpec
=============================================================================

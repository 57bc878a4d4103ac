# nats-console in TLA+

nats-console is a Go server with a browser front end that manages and observes NATS/JetStream
clusters. It dials clusters on demand, shares those connections between requests, tails streams
over WebSockets, pushes monitoring data over SSE, evaluates alert rules and mails alerts, and keeps
users, grants, NATS credentials and an audit log in Postgres. Several consoles may share one
database. This directory models the parts of it in which goroutines, database rows and network
sessions interleave. TLC checks the models on small instances; TLAPS proves their safety for
every size.

- [Inventory](#inventory)
- [Modules](#modules)
- [Runs](#runs)
- [What the violation runs show](#what-the-violation-runs-show)
- [Seen while modelling](#seen-while-modelling)
- [Proofs](#proofs)
- [Not modelled](#not-modelled)
- [Plan](#plan)

## Inventory

| Component | State | Operations | Hard behaviour | What makes it correct |
|---|---|---|---|---|
| Live multiplexer `internal/live/mux.go` | `subs` by key; per `sharedSub` viewers, handle, error, `ready`; per viewer a bounded channel | attach, detach, fanout, trySendFrame, writeLoop | callbacks against detach; attach against a failing first attach | one subscription per key, never orphaned, every viewer fed, waiters released |
| Live session `internal/live/hub.go` | closed, paused, timers, `writeMu` | Handle, serveConn, closeSession, control frames | close from four goroutines; a slow browser | a closed session gives everything back |
| Connection manager `internal/nats/{manager,session,connection,client}.go` | client cache, credential cache, generations, single flight, status map and listeners | Get, Session, evict, sweep, hooks, SubscribeStatus, Stop | all of these at once, closing outside the lock, hooks that run late | no leak, no session on a replaced client, no wrong status but by a probe that was overtaken |
| Cluster registry `internal/app/{cluster,health}.go`, `internal/repo/clusters.go` | clusters table | bootstrap, create, delete with eviction, health | deletion against a dial in flight, consoles that start together | nothing of a deleted cluster stays, a default stays |
| SSE brokers `internal/snapshot/connz_broker.go` | per cluster: listeners, latest payload, failure count, loop | Subscribe, unsubscribe, scrape, publish | sends outside the lock; last leaver against loop and scrape | no missed update, loop exactly while listened |
| Replicas page `internal/api/insights/replicas.go`, `apikit/monitoring_failover.go` | preferred base, last good snapshot | three reads with failover, build, degraded answer | servers that crash between the reads | no dead peer shown online, no live server left unasked |
| Alerts `internal/alerter`, `internal/repo/alerts*.go`, `internal/mail` | rules, alerts, `email_notified_at`, one SMTP session | Evaluate, upsert, close, acknowledge, claim, release, Send | several consoles on one database, crash between claim and mail | one open alert per rule, mailed at most once, closed on recovery |
| Collector and sample store `internal/snapshot/collector.go`, `internal/repo/{partitions,metrics,incident}.go` | tickers, daily partitions, ensured-partition cache, last routes | scrape, ensure, insert, node events, cleanup | a console drops what another remembers to have created | samples kept for the retention, no false node events |
| Snapshot hub, view and monitoring caches | TTL caches over shared loads | get, load, put, invalidate, scrape | a load that straddles an invalidation | a stale view has such a load behind it, and goes away |
| JetStream operations `internal/adapter/nats/gateway.go`, `internal/nats` | the existence cache | 22 writing routes, reads, navigation, replay preview | half-applied writes, gaps, recreated streams | writes invalidate what they change, navigation finds a way back |
| Dead-letter retry `internal/nats/dlq.go` | none of its own | page, read, republish, delete | the second step fails, two operators, recreation | nothing deleted undelivered, duplicates only after the window |
| Authentication `internal/auth` | refresh tokens, versions, denylist, caches | login, rotate, logout, load user | two rotations of one token; cached grants on several replicas | one successor per token, logout and changes take effect in bounded time |
| Authorisation, users, grants `internal/domain/authz.go`, `internal/app`, `internal/repo` | users, roles, rules, grants, invites, root | policy checks, CRUD, seeding, invites | separate check and insert; the same decision written several times | one root, decisions that agree, every change invalidated |
| NATS accounts and encryption `internal/repo/nats_account.go`, `internal/api/accounts`, `internal/crypto` | NATS users, JWTs, signing groups, exports, encrypted columns, key | create, assign, rotate, mint, rotate encryption key | several statements per request, failing half way | assignee holds the grant, JWT matches its row, stored secrets readable |
| Rate limiter, middleware `internal/api/middleware` | sliding window per address | allow, purge, the chain of checks | purge of keys | never more than the limit per window |
| Audit writer, shutdown `internal/audit`, `cmd/main.go`, `internal/bootstrap` | bounded queue, writer | Log, Start, Stop, Shutdown, Close | logging against Stop, event streams against Shutdown | no send on a closed channel, the log holds what was answered, once, in order |
| Request/reply probes, metrics extraction, domain analyses, assistant, configuration, web front end | none shared | parsing, scoring, text | - | - |

How they interact: HTTP requests pass the middleware (Pipeline), which authenticates them
(Denylist, UserCache, RefreshTokens) and authorises them (Authz); handlers call the services; the
services take a `Session` from the connection manager; the live view takes a client from it and
subscribes; the brokers, the hub and the collector fetch monitoring data through it; the collector
stores each scrape (SampleStore), publishes it to the hub (ClusterReads) and hands it to the
alerter; writes go through the caching executor, which drops the cached views; eviction (deletion,
sweeper, lost connection) closes the client under all of them. `PROJECT.json` lists every component
with its status, and the hazards line by line.

## Modules

| Module | Models | Code |
|---|---|---|
| `LiveMux` | the multiplexer and what a session does to it | `internal/live/mux.go`, `hub.go` |
| `ClientManager` | the manager, the sessions, deletion of a cluster | `internal/nats/manager.go`, `session.go`, `connection.go`, `client.go`, `internal/app/cluster.go` |
| `ConnectionStatus` | the status map, its hooks and listeners | `internal/nats/connection.go`, `manager.go` |
| `ClusterRegistry` | the table of clusters | `internal/repo/clusters.go`, `internal/app/cluster.go`, `health.go`, `internal/nats/manager.go` |
| `ConnzBroker` | the broker behind the three SSE feeds and its stream writers | `internal/snapshot/connz_broker.go`, `internal/api/insights/connz_sse.go` |
| `Replicas` | the Replicas page, its failover and its feed's scrape | `internal/api/insights/replicas*.go`, `internal/api/apikit/monitoring_failover.go` |
| `AlertLifecycle` | rules, rule evaluation, the feed, the mail claim, the SMTP session | `internal/alerter`, `internal/repo/alerts.go`, `internal/api/alerts_handlers.go`, `internal/mail/smtp.go` |
| `SampleStore` | the collector's scrape and cleanup against daily partitions, node events | `internal/snapshot/collector.go`, `internal/repo/partitions.go`, `metrics.go`, `incident.go` |
| `ClusterReads` | view cache, snapshot hub, topology cache, every writing route | `internal/nats/view_cache.go`, `internal/snapshot/hub.go`, `internal/app/monitoring/service.go`, `internal/adapter/nats/gateway.go`, the handlers |
| `DeadLetters` | dead-letter listing and retry | `internal/nats/dlq.go`, `internal/domain/dlq.go` |
| `StreamNav` | message navigation and the existence cache | `internal/nats/client.go`, `seq_exists.go` |
| `ReplayPreview` | the preview of a replay against the replay | `internal/domain/replay_dry_run.go`, `replay.go`, `internal/nats/client.go` |
| `Authz` | permissions, rules, grants, gates, listings: operators only | `internal/domain/authz.go`, `permissions.go`, `internal/api/apikit/rbac.go`, `internal/api/middleware` |
| `UserAdmin` | users, roles, grants, invites, the seeding of the root | `internal/api/users_handlers.go`, `access_handlers.go`, `internal/app/users.go`, `internal/repo/users.go`, `access_grants.go` |
| `NatsAccounts` | NATS users, credentials, assignment, signing groups, exports, key rotation | `internal/api/accounts`, `internal/repo/nats_account.go`, `nats_jwt.go`, `signing_groups.go`, `encryption_rotate.go` |
| `RefreshTokens` | issue, rotation, reuse detection, logout | `internal/auth/refresh.go`, `internal/repo/refresh_tokens.go`, `internal/api/auth_handlers.go` |
| `UserCache` | user and version caches on several replicas | `internal/auth/auth.go`, `ttl_cache.go`, `user_cache.go`, `internal/api/middleware/auth.go` |
| `Denylist` | logout of a session across replicas | `internal/auth/session_revoke.go`, `auth.go`, `internal/repo/auth_persistence.go` |
| `Pipeline` | middleware chain, limiter, audit writer, shutdown | `internal/api/router.go`, `internal/api/middleware`, `internal/audit`, `cmd/main.go`, `internal/bootstrap/app.go` |
| `AuditTrail` | abstract: what the audit log promises | |
| `LiveMuxProofs`, `ClusterProofs`, `SessionProofs`, `CollectorProofs`, `BrokerProofs`, `JetStreamProofs`, `AccountProofs`, `PipelineProofs` | inductive invariants, lemmas and theorems, see [Proofs](#proofs) | |
| `MC*` | the instances TLC runs; the larger ones hold several components | |

A step is a critical section of a mutex, a channel operation, a database statement or transaction,
or a call made outside every lock; whatever the code does under one lock is one action. An operator
whose name has an underscore (`Detach_AlwaysDrops`) is a deliberately broken variant of the
definition after it: no specification uses it, and `PROJECT.json` names the property that fails when
it takes the definition's place.

**LiveMux.** A `sharedSub` is created by one attach, so it is named by the viewer that created it.
A session runs `idle -> attach -> subscribe/wait -> attached -> detach -> stop -> unsub -> done`.
`Subscribe` is outside the locks: callbacks may run before the handle is stored.
`trySendFrame` is two steps (`FanoutCheck` reads the flags, `FanoutSend` is the select); a send on a
closed channel panics in the callback, and the process is gone (`crashed`). The fan-out serves the
copied viewers in any order, a superset of what the slice order gives. `EvictClient` is the
manager's eviction as the live view meets it: subscriptions made on an older client deliver no
more. `client` and `epoch` tell clients apart. Frames are counted, not represented. A write to the
browser begins in one step and ends in another, which need never come: `writing` is the writer's,
from `TakeFrame` to `WriteReturns`, `farewell` the error frame of `closeSession`, which it writes before
it closes the connection (`FarewellReturns`). Once `serveConn` has returned, the connection is closed
and a hanging write fails.

**ClientManager.** One cluster, since no operation relates two. Requests, the sweeper, and one
callback goroutine per client run through `pc`; `victim` is a client taken from the cache and not yet
closed. Session generations are abstracted to the set `valid` of requests whose session has the
current generation: a bump empties it. `born` remembers whether a session was made while its client
was cached. Two clocks, of the client and of the credentials, are the `Expire` actions. The probe
and its backoff decide by the clock whether a request is refused, so `Probe` leaves that open.

**ConnectionStatus.** The cache of ClientManager seen from the status map: a caller gets a client in
one step (`Get`) and dials in another (`DialAndKeep`). `hooks` is the queue of callbacks nats.go runs
for a connection on a goroutine of its own, so a hook may run long after its event. `markConnected`
is two steps: the observation (`ObserveAlive`) and the write (`MarkConnected`). `overtaken` is a
history variable: the entry was written from an observation that was out of date by then.

**ClusterRegistry.** A row is free, plain, default or deleted. `CreateCluster` is a transaction at
READ COMMITTED: the UPDATE that clears other defaults sees and locks committed rows, `Commit` shows
the result, `Rollback` is a failed insert or a death. `ClusterService.Delete` is three statements.
The console's own POST and PUT of a cluster are refused by the code, so further rows come from
tooling beside it (`Register`), which may register a plain one first. `NATSDefaultCluster` is the
set of answers the health probe may give: `unknown` always, for any error of the lookup gives it, and
`ok` or `error` if there is a default to ask.

**ConnzBroker.** An entry is named by the subscriber that created it. The latest payload stands
for its fingerprint (collisions of the 64-bit hash are left out). Failure counts saturate at the
threshold, the only value they are compared with. `dropped` is a history variable. What
belongs to a removed entry and can no longer be observed is cleared when it is removed.
`Offline` is the degraded payload; the fallbacks of the three feeds differ only in its text and in
whether they remember the last good payload, so without a latest payload both are possible.

**Replicas.** A request is a process, and so is the scrape of the event feed. Servers crash, their
routes linger for a while, they recover (`Crash`, `RouteDrops`, `Recover`), and an operator may edit
the cluster's monitoring URLs (`UpdateCluster`), after which a preferred base may be one no longer
listed. `FetchRoutez` asks the candidates in order, the preferred one first; `FetchMonitoringAll` asks
all of them for `/varz`. `ghosts` (peers shown online that answered at no time) and `stable` (servers
up, and answering in time, throughout) are history fields of a request.

**AlertLifecycle.** Several consoles share the database (the Helm chart has a `replicaCount`); each
evaluates on its own. A console's sample is the set of rules whose threshold is met, taken when it
scraped. A metric meets its rule's threshold, is below it, or is 0, when CPU and memory have no sample
(`Sampled`); a rule without a sample is skipped. A row is one of `Alert`; a deleted row can be used again once nothing refers to it.
An `Editor` switches rules by a read, a merge and a write.
`Fault` bounds what may fail: a statement, a missing metric, a leg of the SMTP dialogue, a restart.
With `SMTP_ENABLED=false` the collector passes a nil `*SMTPSender` in an interface, which is not
nil: the claim is made and `Send` panics inside `safe.Run`. Two mails of one console use the same
SMTP session at the same time; the model has their order and each one's failure, not the mixture of
their bodies.

**SampleStore.** Time is counted in ticks, `DayLen` to a day. A scrape collects, ensures the day's
partition unless the console remembers that it has, inserts incident samples, node events and
metric samples; a cleanup ensures partitions, then drops those older than the retention, table by
table, ending at the first failure as the code does. `taken` remembers what was inserted, `stirred`
which nodes really moved or were misread since a console's last scrape.

**ClusterReads.** The contents of a cluster are one number, the count of writes applied, and a view
is the number it was read at; `crossed` marks a load or scrape in flight during an invalidation.
`Reads` holds, for each group of reads of the gateway, a table of the cache keys each one uses;
`Program`, for each group of writing routes, a table of the sequence of calls each one makes: apply,
reads in between, invalidation of the views, invalidation of the snapshot. A call may fail, also
after the server applied it. `settled` and `dropped` are the writes whose request got as far as
dropping the views, and the snapshot.

**DeadLetters.** A message is an incarnation of the stream and a sequence, for the stream may be
deleted and made again. The original stream drops an id it has seen within its duplicate window;
`WindowPasses` moves the window past everything. A retry is read, republish, delete, each of which may
fail; a retry of everything first collects the sequences, a page at a time from the first to the last
that the stream had when it asked. The collected sequences are a set (`found`), for each page lies
above the ones before it, and a page that cannot be read ends the retry (`ListFails`).

**StreamNav.** One stream with gaps, the client's existence cache, and `GetMessageNav` in steps: the
message, then `findPrevSeq`'s way back, then its binary search, one probe at a time, between which the
stream changes and other navigations fill the cache or start it again. A probe that is not cached may
fail, which ends the search with nothing. `lost` marks a search whose cache was replaced by that of a
navigation that raced with it for the first use. `calm` is a history field: no read of the search
failed, the cache told it the truth, what it found last is still there, and the stream was not made
again.

**ReplayPreview.** The preview is compared with what `ReplayConsumer` asks the server for, over every
request and every reachable stream. A time is the place in the stream that it falls on, since times of
publication grow with sequences; `Selected` are the messages whose subject a filter selects. The replay
policy decides how fast a replay is and not what it delivers, so it is left out, and with it the
estimate of the duration.

**Authz.** A grant's key is the tuple the code joins with `:`. `PermissionsFor`, `CanAccess...`,
the listing filters and the handlers' capability answers are separate operators, as they are
separate functions; `UserAdmin.GatesAgree` compares them for every user that can be stored.

**UserAdmin.** A request authenticates, reads, decides, commits and then calls `InvalidateUser`, one
step each. The unique index `idx_users_single_root` of the migrations is part of the insert.
`changed` holds users whose row changed and whose version has not been bumped since. A request may
fail between its commit and the bump, and so may the bump itself (`Fails`). An invite's
token is one nothing refers to (the code draws it at random).

**NatsAccounts.** One account of one cluster. Key pairs are numbers, a ciphertext is the key it was
made with, a JWT is the key and the permissions it names. `FailRequest` ends a request between two
statements, and what it wrote stays. `unsettled` marks NATS users that two requests wrote at once, or
one left half written.

**RefreshTokens, UserCache, Denylist.** Statements of several browsers and replicas interleave. Time
in the last two passes in units of the cache lifetime: an entry has its remaining lifetime, a result
carried between a read and its use at most `Slack`. A family of refresh tokens is the login it
descends from. The row of a user is a generation number.

**Pipeline.** The middleware in the order of `router.go`, each layer that answers by itself being a
field of the request that makes it do so. A path is one of the API, pprof's, or a page of the web
application, which is served to anybody and to every method. The limiter's map holds attempts with their
ages; its purge
runs as often as `PurgeEvery` and `MaxStaleKeys` say. `stage` is where `main` is: serving, shutdown,
the steps of `Close`, exited.

**AuditTrail** is the abstract specification of the log: rows are requests that were answered, each at
most once, in the order they were answered; some may be missed. They are mutations by somebody who may
make them, or strays, which change nothing. `Pipeline` implements it with `answered` mapped to the
records in the order of `Log`, `position` to the place of the last row among them, `mutation` to the
administrators' requests of the API that are audited, and `stray` to the audited requests to a page
(`ImplementsTrail`).

## Runs

| Run | Instance | Shows |
|---|---|---|
| `livemux` | 2 viewers, 1 key, buffer 1, 2 clients in turn | every attached viewer has a feed; one subscribe attempt; no orphan subscription; waiting attaches are released; closed sessions end, writer included, unless their last frame hangs |
| `livemux_panic` | 2 viewers | violation, see below |
| `client_manager` | 2 requests, 2 connections, sweeper, callbacks; for the status 1 listener with a buffer of 1; for the table 3 ids, 2 consoles, 2 delete requests | no connection leaks; sessions made on the cached client are valid only while it is cached; every Session call returns; a wrong status is an overtaken probe's; a listener that missed nothing agrees with the map; a default cluster, once there, stays |
| `client_manager_delete` | same | violation, see below |
| `connz_broker` | 2 subscribers, 2 payloads, buffer 1, threshold 2; 2 servers, 2 lists of URLs, 1 request and the scrape | no missed update but through a full channel; a loop exactly while listened to; the last leaver returns; no dead peer shown online; failover asks every live server |
| `alerts` | 2 consoles, 1 editor, 1 rule, 2 rows, 1 fault; for the store 2 days of 2 ticks, retention 1, 1 failure | one open alert per rule, none of a deleted rule; mailed at most once; a claim is backed by a mail, by work on it, or by a death; samples last for the retention; no node event without a change or a failed read |
| `alerts_close` | 1 console, 1 rule, 1 row, no faults, fair | violation, see below |
| `alerts_mail` | 1 console, no faults | violation, see below |
| `access` | 2 requests, 3 user ids, 3 grants, 1 invite, 1 NATS user, 2 keys, 2 replicas, 3 refresh tokens | one root; every change is invalidated; gates and listings agree; an assignee holds the grant; a JWT matches its row; changes and logouts take effect in bounded time; one successor per refresh token and none of an ended family |
| `access_rotation` | same, no cluster tokens | violation, see below |
| `pipeline` | 3 requests of 14 kinds from 2 addresses, limit 1, window 2, queue 1 | the limiter is exact; no send on the closed channel; shutdown ends once the event streams do and the inserts return; the log implements `AuditTrail` |
| `jetstream` | 2 requests, 2 writes; 2 retries of which one pages at a time, 2 incarnations of 2 messages, pages of 1; a stream of 4, 2 navigations, a cache of 2; a stream of 5 to replay | a stale view crossed an invalidation; the caches converge; a retry delivers before it deletes; a retry of everything leaves nothing out; navigation finds a way back; the preview covers the replay, of any ends, limit and filter |

Components that share no state are explored in one run but one at a time: a variable `part`, fixed
in the initial state, says which one moves.

**Bounds.** Every bound is a constant: the sets of actors, `Client`, `Link` and `MaxKey` (what can be
made), `Alert`, `RegId`, `UserId`, `RToken` (rows), the buffers, `MaxEpoch`, `MaxHooks`, `MaxFaults`,
`MaxFailures`, `MaxWrites`, `MaxGen`, `MaxExpiries`, `LastTick`. Two viewers give a subscriber and one
that waits for it or arrives after it has failed; keys never share a `sharedSub`; the theorems cover
any number. Two requests and two clients give one client replacing another while somebody closes,
uses or reports the first. A buffer of 1 is full after one send. Two consoles, requests or replicas
are enough for a race on a row, which one statement decides; two rows of alerts let an incident follow
an incident, three refresh tokens let two rotations of one token race, two writes let one be overtaken
by the other. Three ticks of a store with days of two cross a day's end and the retention, two
messages and pages of one make a retry page while something is deleted. A stream of four has gaps on
both sides of a probe of the binary search (with three, a search that gives up at a gap still finds
its message), and a cache of two is full, and starts again, in the middle of a search.
`MCClientManager` keeps at most one request under way while a status listener is open, `MCCollector` two
tasks, and explores the edits of a rule apart, with one console evaluating at a time and no fault; `MCJetStream` one
retry that pages, which only reads, and two navigations under way only while the cache is empty and the
stream below its bound; the bounds are operators there (`Crowded`, `Bound`, `BoundEdits`, `BothPage`, `BothWalk`).
`MCConnzBroker` lets an operator edit the URLs between requests, and one request at a time be beyond
its first read (`Quiet`, `BothRead`). The proofs have none of these restrictions.
The connection manager stops dialling when `Client` is used up, which the code treats like a dial
that fails.

**Deadlock** is checked in `client_manager`, `connz_broker`, `alerts` and `jetstream`.
Elsewhere the system does stop: sessions attach once (`livemux`), requests are served once and
the process exits (`pipeline`), ids, tokens and keys are used up (`access`); the liveness properties
say whether it stopped in the right place.

**Fairness.** Weak fairness of each goroutine's own steps: the Go scheduler runs what can run. The
calls of the connection manager, of the brokers and of the readers end by a timeout in the code
(`ConnectTimeout`, `HealthCheckTimeout`, `RequestTimeout`, the scrape's). Nothing is assumed of browsers,
administrators, signals, the NATS server, or a clock, nor of the two calls that have no deadline:

- a write to a browser (`hub.go:252`). `WriteReturns` is fair only once the session's `serveConn` has
  returned, which has closed the connection; `FarewellReturns` is not fair at all, so
  `ClosedSessionsEnd` says of a session that it ends or is in its last write.
- the insert of an audit record (`audit.go:28`), which runs on the context of `main`. `Insert` is not
  fair (`WriterGoes` is the rest of the writer), and `ShutdownCompletes` assumes that the inserts
  return, for `pool.Close` waits for the connection. It also assumes that the clients of event streams go
  away, for the streams' writers end only on a failing write.

There are these exceptions. `LoopExit` of the broker is strongly fair: the loop's `select` picks among
the ready cases at random, so a closed stop channel is taken sooner or later although the ticker is ready again and
again. In `jetstream` (`VFairness`) lifetimes end and the collector's ticker fires, which time alone
brings about, and `Publish` is strongly fair: the cluster answers a scrape now and then, without
which the snapshot could stay old for ever. `alerts_close` is fair to the evaluation, to the mail and
to the cleanup, which makes its counterexample the stronger: every evaluation succeeds.

Each module has a type invariant (`TypeOK`, `CsTypeOK`, `RegTypeOK`, ...); TLC finds no
violation of them in the instances above. They are kept out of the configurations, which are about
what the code could get wrong; most of them are part of a theorem.

## What the violation runs show

- `livemux_panic` (`mux.go:81`): a callback reads `closed` as false; the session closes, detaches,
  and closes the channel; the callback sends, and panics. Nothing recovers it. The project's README
  calls the hub race-safe.
- `client_manager_delete` (`manager.go:217`, `:268`): credentials read, or a client dialled, before
  the deletion are cached after its `Evict`; `cluster.go:62` says that they are dropped.
- `alerts_close` (`metrics_extract.go:52`): a scrape puts out no CPU figure, and no memory figure, that is
  0, and an evaluation skips a rule without a sample (`evaluate.go:84`). The alert of a metric that has
  fallen to 0 stays open as long as it is 0. The guide says it closes when the metric recovers.
- `alerts_mail` (`smtp.go:110`): `Send` quits the only SMTP session the console ever opens, so the
  second mail fails, is released, and is not retried. The guide says each new alert is mailed.
- `access_rotation` (`encryption_rotate.go:32`): the rotation re-encrypts the tokens of clusters and
  not the seeds of NATS users, which are encrypted with the same key; after the restart it asks for
  they cannot be decrypted. The README calls it re-encrypting stored credentials.

## Seen while modelling

Behaviour a reader of the code may want to know of, that no document contradicts outright:

- A live session on a fresh client joins a `sharedSub` whose subscription died with an evicted client
  (`mux.go:148`), and is not fed while the older viewer stays; `AttachedHasFeed` names the exception.
- A payload lost on a full SSE channel is not offered again while the cluster stays the same
  (`connz_broker.go:291`); `NoMissedUpdate` excludes it.
- `markConnected` may write a status that an eviction overtook (`connection.go:107`);
  `StatusExplained` shows it is the only way, with a request that fails late.
- Two consoles that start together on an empty table, configured with different names, both register a
  default cluster (`manager.go:101`); the flag is not unique in the schema. A console that finds only
  clusters registered as plain serves without a default, which leaves the probe at `unknown`, and there
  two deletes that race may take the last cluster, past the check of `cluster.go:57`. `DefaultStays` holds
  with both: it is about a default that is there.
- `findPrevSeq` (`client.go:419`) finds a previous message, not always the nearest its comment speaks
  of: a gap sends the binary search to the left, past what is stored on its right. The cache keeps what
  it knew of a recreated stream, and `ensureSeqCache` makes it without a lock, so of two first
  navigations one may search with a cache nobody sees again. `NavFindsPrev` holds with all of this.
- The preferred base of the Replicas page outlives an edit of the cluster's URLs
  (`replicas.go:241`), and is asked first although it is no longer listed.
- A failed read of `/routez` counts as no routes (`metrics_extract.go:562`), so every node
  disconnects and reconnects; `NoFalseStorm` names the exception. `lastRoutes` moves on before
  the events are inserted, so a failed insert loses them.
- `UpdateAlertRule` reads, merges and writes (`repo/alerts.go:96`): two edits of different fields may
  lose one, and an edit may switch a rule on again. `OneOpenPerRule` holds with such an editor.
- A committed change of a user whose reload fails (`repo/users.go:274`, `users_handlers.go:181`) is answered
  with an error and never bumped; a bump that fails counts on the one replica only (`auth.go:231`). The
  other caches keep the old user until they expire (`StaleBounded`); `ChangeIsInvalidated` names the
  exception.
- A request with another method than a read to a page of the web application needs no session, is
  served the page (`spa.go:50`) and leaves an audit record of nobody (`middleware/audit.go:18`); these are
  the strays of `AuditTrail`.
- The preview of a replay from a sequence or the beginning looks at neither `untilTime` nor
  `filterSubject` and is not marked approximate (`replay_dry_run.go:61`): with them it is an upper bound,
  and with `untilTime` alone it is called unbounded. A request for one message drops its `untilTime`
  (`client.go:236`). `DryRunCovers` claims an exact count only without them.
- An insert of the audit writer that hangs keeps the process from exiting (`store.go:66`), as does the
  release of a mail claim, on a context of its own (`mail_queue.go:34`).
- The degraded answer of the Replicas page may be stored over a newer good snapshot
  (`replicas.go:145`).
- Messages retried from a recreated dead-letter stream may carry an id still in the duplicate window
  (`dlq.go:187`) and are then deleted without having been stored; `RetryDelivers` names the exception.
- A write whose second call fails (`kv.go:114`) reports an error and drops no view; the lifetimes
  repair it (`ViewsConverge`). A retry of dead letters that only republished does not drop them
  either (`gateway.go:425`). `monitoring.Service.InvalidateCluster` has no caller.
- Cleanup ends at the first table that fails (`collector.go:457`), and the drop of partitions holds
  one connection of the pool while it uses another (`partitions.go:118`).
- Audit records still queued when the database is closed are lost: `Close` stops the writer and does
  not wait for it (`app.go:159`). `AuditTrail` allows it.

## Proofs

Eight modules hold theorems; together they state every safety property the passing runs check, and
one refinement, for every value of the constants. A safety property is proved the
same way throughout: an inductive invariant that contains or implies it, a lemma that the initial
states satisfy it, a lemma with one step per action that every step keeps it, and a last step that
combines the three. The invariants were first checked by TLC on the runs' instances.

| Module | Theorem | States, of every reachable state |
|---|---|---|
| `LiveMuxProofs` | `Inductive`, `TypeCorrect`, `DetachFindsOwn`, `AttachGivesFeed`, `OneAttempt`, `NoOrphan`, `ClosedFirst` | `IInv`; `TypeOK`; `MembersMapped`; `AttachedHasFeed`; `SingleSubscriber`; `NoOrphanSubscription`; `StopAfterClosed` |
| `ClusterProofs` | `ManagerSafe` | `TypeOK`, `NoConnectionLeak`, `SessionTracksCache`, `SingleFlight` |
| | `StatusSafe` | `CsTypeOK`, `WatchersAgree`, `StatusExplained` |
| | `RegistrySafe` | `RegTypeOK`, `DefaultStays` |
| `SessionProofs` | `RotationSafe` | `RTypeOK`, `RotationIsSafe` |
| | `DenylistSafe` | `DTypeOK`, `RevokedIsRefused` |
| | `CacheSafe` | `CTypeOK`, `StaleBounded` |
| `CollectorProofs` | `FeedSafe` | `TypeOK`, `OneOpenPerRule`, `EmailedAtMostOnce`, `ClaimIsBacked` |
| | `StoreSafe` | `SsTypeOK`, `SamplesKept`, `NoFalseStorm` |
| `BrokerProofs` | `BrokerSafe` | `TypeOK`, `LoopWhileListened`, `NoMissedUpdate` |
| | `ReplicasSafe` | `ReplicasTypeOK`, `PeersAreReal`, `FailoverFindsServer` |
| `JetStreamProofs` | `RetrySafe` | `QTypeOK`, `RetryDelivers`, `RetryAllComplete` |
| | `ReadsSafe` | `VTypeOK`, `StaleViewExplained` |
| | `ReadersServed` | `NobodyStranded` |
| | `WalkSafe` | `NavTypeOK`, `NavFindsPrev` |
| | `PreviewSafe` | `DryRunCovers` |
| `AccountProofs` | `AccountsSafe` | `NTypeOK`, `AssigneeHoldsGrant`, `JWTMatchesRow` |
| | `UsersSafe` | `UsersTypeOK`, `OneRoot`, `ChangeIsInvalidated`, `GatesAgree` |
| `PipelineProofs` | `PipelineSafe` | `PipelineTypeOK`, `LimiterExact`, `NoLogAfterStop` |
| | `TrailImplemented` | `PipelineSpec => ImplementsTrail`, all of `AuditTrail` |

**Assumptions.** Only the `ASSUME`s of the modules, which TLC evaluates in every run: a value that
stands for nothing (`None`, `NoLink`, `NoView`, ...) is not one of the things, the names of different
actors differ, bounds and buffers are numbers, buffers, windows and periods are positive, the store's
clock starts no earlier than its retention, a stored table has one root at most, a grant's key has the parts its
type has. Every set of actors, rows, payloads or clusters is arbitrary, the empty and the infinite ones
included.

**Why the properties need more.** None of them is inductive by itself. What is added, and why:

- *LiveMux* (`IInv`): from attach to detach a session is a viewer of what it joined
  (`InsideIsMember`); what is registered has viewers and a begun attempt of its creator
  (`RegisteredIsAlive`), so that a lookup by key cannot meet a successor; only the creator runs the
  attempt (`AttemptByCreator`); ready and not failed means a stored handle (`ReadyIsFed`); a handle is
  in the `sharedSub`, or with the detach that emptied it (`HandleHeld`); a channel is closed only beyond
  detach (`ClosedBehind`).
- *ClientManager* (`ManagerInv`): the goroutine that takes a client out of the cache is the one that
  closes it, a callback runs only for a closed connection (`CallbackAfterClose`), and the leader of the
  flight, no one else, dials or closes in the middle of a dial (`SingleFlight`). It also shows that a
  waiting request waits for somebody.
- *ConnectionStatus* (`StatusInv`, `ExplainedInv`): the last hook waiting for a connection is about the
  state it is in (`HooksInv`); an open connection is cached or about to be closed (`OwnedInv`); what a
  request saw is so unless it is marked old (`ObservedInv`). Then the status is right, or overtaken, or a
  hook, a close or the mark of a dial is still to come that will set it right (`Explained`).
- *ClusterRegistry* (`RegistryInv`): a transaction that adds a plain row clears no flag, a new default
  takes the place of those it clears, and what a delete request read as plain never becomes the default.
- *RefreshTokens* (`RotationInv`): what can still be replaced was not rotated, and a rotation under way
  presents a held token and has a successor of its family.
- *Denylist, UserCache* (`DenylistInv`, `CacheInv`): the lifetime a cache entry has used up, and the age
  of what a request carries, bound the age of the change they miss;
  no cache or session has a version the database has not reached (`NotAhead`).
- *AlertLifecycle* (`AlertInv`): a console that notifies is the only one and comes before any mail of
  that alert; the number of mails is told by how far the mailing goroutine is.
- *SampleStore* (`StoreInv`, `RoutesExplained`): a partition a console remembers exists or all of its day
  expired (`PartitionLasts`), which is why an insert without a check finds it; rows are in partitions; a
  running cleanup's cutoff only gets older. What a console compares its next reading with differs from
  the routes only in nodes that moved.
- *Replicas* (`PageInv`): every candidate is among the bases a request asks, and one it has asked in vain
  belongs to no stable server (`Reaching`); what a request saw answer was up during it, and a cluster
  with several candidates has several bases (`Seeing`). Taking the first of the bases that are left
  takes one of them (`FirstIsOne`), by the least number of a nonempty set.
- *ConnzBroker* (`BrokerInv`): a subscriber belongs to one entry; an entry has one scrape, which sends
  the latest payload, to that entry's subscribers only.
- *DeadLetters* (`RetryInv`): what is about to be deleted was stored under its sequence, and an id in the
  duplicate window is of a stored message; each further copy took an expiry of the window. For the
  completeness of a retry of everything (`CollectInv`): of what was there when it began and still is, it
  has found all below the start of the next page, and nothing is behind its range. A page contains
  every sequence of its range below the next page's start (`PageComplete`, from `LeastOf`,
  `GreatestOf` and `FirstOnes`).
- *ClusterReads* (`ReadsInv`): the explanation is demanded of loads and scrapes in flight too, and a
  request that loads leads its flight. For the types (`ReadsWithin`): what is carried on was read at a
  write that has happened, and every route that drops the snapshot has dropped the views before
  (`ProgramOrderly`, over the routes' tables). For `NobodyStranded` (`FlightsLed`): a flight's leader
  works for it, who waits, waits for a flight that is there, and who works for a topology flight leads
  it. The delicate step is a failed load (`LedAborts`): it ends the flights that those who waited for it
  lead, and answers whoever waited for those.
- *StreamNav* (`NavInv`): a calm search that has found nothing still has the first message in its
  range, from the lower end on, so it cannot end before it has found one.
- *ReplayPreview* (`ReplayLog`): the stored sequences are at most the last one. The preview is arithmetic
  over any stream from there on (`PreviewCovers`).
- *NatsAccounts* (`AccountInv`): a NATS user that is settled has at most one request that writes it,
  which knows the row as it is, and a JWT that fits unless that request is about to store one.
- *UserAdmin* (`UsersInv`): of a user who is gone, the deletion's own request owes the bump; an invite
  that is being accepted still belongs to the same user. The agreement of the decisions follows for each
  stored user from lemmas on the operators of `Authz`: what the permissions, the access to a cluster
  and the gate come to in terms of the rules (`PermissionsAre`, `AccessIs`, `GateIs`), and that the
  listings show just that (`ListingsAgree`, `RulesAgree`, `CapabilitiesAgree`).
- *Pipeline* (`PipelineInv`): the map of the limiter knows exactly the attempts let through, purges or
  not (`LimiterInv`, with `PurgeKeepsRecent` and `AgeingIsExact`); once Shutdown has returned no request is
  under way, and the channel is closed later (`ServeInv`); the last row, the record in the writer's hand
  and the queue are in the order of the log, in which every answered mutation is once (`AuditInv`). With
  it each step of the pipeline is a step of `AuditTrail` or a stutter (`TrailStep`).

**What proving changed in the model.** `ChangeIsInvalidated` was not inductive while an invite's
token could be used for a second invite: somebody might accept the token of a user who was replaced
meanwhile. The code draws a token at random and the column is unique, so `UserAdmin` now gives each
invite one that nothing refers to. The limiter's attempts are a set of request and age instead of
a list of ages, so that equal ages are told apart. A retry's collected sequences are a set instead of
a sorted list, and its pages intervals; reading a page may fail, which was missing. A navigation was
one step with a recursive search and is now a step per probe, so that the proof and TLC both cover what
happens between two probes: failing reads, deletions, a shared cache that starts again, and the race of
`ensureSeqCache`. The Replicas page got the operator's edit of the URLs, without which a stale
preferred base could not occur. The routes of `ClusterReads` are sets of tables, which the prover can
enumerate. `UserCache` states its type in terms of the database's version. All of them say what the code
says, more closely.

**Only model-checked** are the liveness properties `WaitersReleased`, `ClosedSessionsEnd`,
`SessionReturns`, `UnsubscribeReturns`, `ShutdownCompletes` and `ViewsConverge`: the prover has neither fairness nor ENABLED. What two of them rest on is proved: no
request waits for a dial, or for a flight, that nobody is working on (`SingleFlight`,
`NobodyStranded`).

**Only proved** is `NobodyStranded`, which no configuration lists; its inductive invariant was found
with TLC on three requests and two views, where a circle of flights would show.

## Not modelled

- Request/reply probes: one request and its statistics, nothing shared; the stored probes are only
  read and overlaid.
- The domain analyses, and of metrics extraction all but which metrics have a sample: parsing of
  monitoring documents, scores and averages in floating point, text.
- The assistant (prompt text and an external service), the web front end (a client of this system),
  configuration and telemetry (read once at start, partly generated).
- Of modelled components: formatting, encoding, SQL text, HTTP routing; cryptography (a ciphertext is
  the key it was made with, a token cannot be guessed); the live session's session limit, and
  the control frames' share of its write lock; the health backoff's arithmetic, which only
  decides whether a request is refused; hourly rollups and daily scores, which nothing modelled reads.
- The path on which `Shutdown` returns an error and `Close` runs all the same (`main.go:65`), the goroutine
  of a mail that outlives the shutdown, and the overall budget of eight seconds of the Replicas page,
  of which only a server that does not answer in time is modelled.
- A NATS account without a signing seed (`nats_account.go:333`), and sessions made on a client that was
  evicted while they were made: `SessionTracksCache` is about those made on the cached one.
- The clock is a nondeterministic expiry, but for the limiter, the sample store, UserCache and
  Denylist, where ages are compared.

## Plan

Modelled: every component that keeps shared state. Proved: every safety property that a passing run
checks. Left, in this order:

1. The components that are modelled in part: the live session's timers and limits, the health
   backoff as arithmetic over a clock, hourly rollups.
2. Request/reply probes, should they come to share state.
3. Liveness, should the prover learn of fairness; the invariants that name who works for whom are there.

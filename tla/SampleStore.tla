---------------------------- MODULE SampleStore ----------------------------
(***************************************************************************)
(* The samples the collector keeps of one cluster: the scrape and the      *)
(* cleanup of internal/snapshot/collector.go against the daily partitions  *)
(* of internal/repo/partitions.go, metrics.go and incident.go, by several  *)
(* consoles on one database.                                               *)
(*                                                                         *)
(* Time is counted in ticks, DayLen of them to a day.  A scrape and a      *)
(* cleanup last at most until the next tick (RequestTimeout).  Each step   *)
(* is one statement; Evaluate, which a scrape ends with, is in             *)
(* AlertLifecycle, and the hourly rollups and daily scores are upserts     *)
(* that nothing here reads.                                                *)
(***************************************************************************)
EXTENDS Naturals, FiniteSets

CONSTANTS Replica,     \* consoles
          Node,        \* NATS servers
          DayLen,      \* ticks to a day
          Retention,   \* METRICS_SNAPSHOT_RETENTION in ticks; 0 keeps everything
          Forward,     \* samplePartitionForwardDays
          Start,       \* the tick at which the migration ran
          LastTick,    \* bound: the last tick
          MaxFailures, \* bound: failed statements, failed reads and restarts
          NoRoutes     \* a missing entry of lastRoutes

ASSUME StoreConstants ==
  /\ DayLen \in Nat \ {0} /\ Retention \in Nat /\ Forward \in Nat
  /\ Start \in Nat /\ LastTick \in Nat /\ MaxFailures \in Nat
  /\ Start >= Retention /\ Start <= LastTick

Parent == {"metrics", "incidents"}
Day(t) == t \div DayLen
Days == 0 .. Day(LastTick) + Forward
Upper(d) == (d + 1) * DayLen

VARIABLES now, partitions, \* parent table -> days that have a partition
          samples,    \* parent table -> times of the rows it holds
          ensured,    \* console -> ensuredPartitions
          lastRoutes, \* console -> the nodes of its last scrape, or NoRoutes
          events,     \* incident_node_events: [at, node, type], and whether a change is behind it
          scrape,     \* console -> progress of its scrape
          cleanup,    \* console -> progress of its cleanup
          routes,     \* the nodes that are in the routes
          stirred,    \* history: console -> nodes that changed, or were misread, since its last scrape
          taken,      \* history: parent table -> times of the rows whose insert did not fail
          failures

storeVars == <<partitions, samples, taken>>
nodeVars == <<lastRoutes, events, routes, stirred>>
ssVars == <<now, storeVars, ensured, nodeVars, scrape, cleanup, failures>>

SsIdle == [pc |-> "idle"]

\* The migration made the partitions around the day it ran on.
SsInit ==
  /\ now = Start /\ failures = 0
  /\ partitions = [p \in Parent |-> 0 .. Day(Start) + Forward]
  /\ samples = [p \in Parent |-> {}] /\ taken = samples
  /\ ensured = [r \in Replica |-> {}]
  /\ lastRoutes = [r \in Replica |-> NoRoutes]
  /\ routes = Node /\ stirred = [r \in Replica |-> {}]
  /\ events = {}
  /\ scrape = [r \in Replica |-> SsIdle] /\ cleanup = [r \in Replica |-> SsIdle]

Fails == failures < MaxFailures /\ failures' = failures + 1

-----------------------------------------------------------------------------
(* The scrape: sampleCluster.                                              *)

Scraping(r, pc) == scrape' = [scrape EXCEPT ![r].pc = pc]

\* CollectClusterSnapshot.  What cannot be read is left out: without the topology there are no
\* consumer samples, and without /routez no nodes; without anything the scrape ends here.
CollectClusterSnapshot(r) ==
  /\ scrape[r].pc = "idle"
  /\ \E topology, routez \in BOOLEAN :
       /\ IF topology /\ routez THEN UNCHANGED failures ELSE Fails
       /\ scrape' = [scrape EXCEPT ![r] =
            [pc |-> IF topology THEN "ensureIncidents" ELSE "routes", at |-> now,
             nodes |-> IF routez THEN routes ELSE {},
             why |-> IF routez THEN stirred[r] ELSE Node]]
       /\ stirred' = [stirred EXCEPT ![r] = IF routez THEN {} ELSE Node]
  /\ UNCHANGED <<now, storeVars, ensured, lastRoutes, events, routes, cleanup>>

\* ensureDayPartition, unless this console remembers, by table and day, to have made it.
EnsureDayPartition_AnyParent(r, p, d) ==
  /\ partitions' = IF \E q \in Parent : <<q, d>> \in ensured[r] THEN partitions
                   ELSE [partitions EXCEPT ![p] = @ \cup {d}]
  /\ ensured' = [ensured EXCEPT ![r] = @ \cup {<<p, d>>}]
EnsureDayPartition(r, p, d) ==
  /\ partitions' = IF <<p, d>> \in ensured[r] THEN partitions
                   ELSE [partitions EXCEPT ![p] = @ \cup {d}]
  /\ ensured' = [ensured EXCEPT ![r] = @ \cup {<<p, d>>}]

\* The first half of InsertMetricSamples and InsertIncidentConsumerSamples; if it fails, the
\* rows are not inserted.  Only the metrics end the scrape with them.
EnsureForInsert(r, p, from, to, otherwise) ==
  /\ scrape[r].pc = from
  /\ \/ /\ EnsureDayPartition(r, p, Day(scrape[r].at))
        /\ Scraping(r, to)
        /\ UNCHANGED failures
     \/ /\ <<p, Day(scrape[r].at)>> \notin ensured[r] /\ Fails
        /\ Scraping(r, otherwise)
        /\ UNCHANGED <<partitions, ensured>>
  /\ UNCHANGED <<now, samples, taken, nodeVars, cleanup>>

\* The INSERT: a row whose day has no partition is refused; one that is there is overwritten.
InsertRows(r, p, from, to) ==
  /\ scrape[r].pc = from
  /\ \/ /\ samples' = [samples EXCEPT ![p] =
              IF Day(scrape[r].at) \in partitions[p] THEN @ \cup {scrape[r].at} ELSE @]
        /\ taken' = [taken EXCEPT ![p] = @ \cup {scrape[r].at}]
        /\ UNCHANGED failures
     \/ Fails /\ UNCHANGED <<samples, taken>>
  /\ Scraping(r, to)
  /\ UNCHANGED <<now, partitions, ensured, nodeVars, cleanup>>

InsertIncidentConsumerSamples(r) ==
  \/ EnsureForInsert(r, "incidents", "ensureIncidents", "incidents", "routes")
  \/ InsertRows(r, "incidents", "incidents", "routes")

InsertMetricSamples(r) ==
  \/ EnsureForInsert(r, "metrics", "ensureMetrics", "metrics", "idle")
  \/ InsertRows(r, "metrics", "metrics", "idle")

\* DiffRouteNodes, as rows of incident_node_events.
DiffRouteNodes(previous, current, at, why) ==
  LET row(n, type) == [at |-> at, node |-> n, type |-> type, real |-> n \in why]
  IN  {row(n, "disconnect") : n \in previous \ current}
        \cup {row(n, "reconnect") : n \in current \ previous}

\* persistRouteTransitions: the nodes are remembered whether or not the rows can be inserted,
\* and the first scrape of a console only sets the baseline.
Baseline_Empty(r) == IF lastRoutes[r] = NoRoutes THEN {} ELSE lastRoutes[r]
Baseline(r) == IF lastRoutes[r] = NoRoutes THEN scrape[r].nodes ELSE lastRoutes[r]

PersistRouteTransitions(r) ==
  LET found == DiffRouteNodes(Baseline(r), scrape[r].nodes, scrape[r].at, scrape[r].why)
  IN  /\ scrape[r].pc = "routes"
      /\ lastRoutes' = [lastRoutes EXCEPT ![r] = scrape[r].nodes]
      /\ \/ events' = events \cup found /\ UNCHANGED failures
         \/ found # {} /\ Fails /\ UNCHANGED events
      /\ Scraping(r, "ensureMetrics")
      /\ UNCHANGED <<now, storeVars, ensured, routes, stirred, cleanup>>

-----------------------------------------------------------------------------
(* The cleanup.                                                            *)

\* EnsureSamplePartitions, day by day; an error ends it and is only logged.
EnsureSamplePartitions(r) ==
  /\ cleanup[r].pc = "idle" /\ Retention > 0
  /\ \E upto \in Days \cup {Day(now) + Forward} :
       LET wanted == Parent \X (Day(now - Retention) .. upto)
       IN  /\ upto <= Day(now) + Forward
           /\ IF upto = Day(now) + Forward THEN UNCHANGED failures ELSE Fails
           /\ partitions' = [p \in Parent |->
                partitions[p] \cup {d \in Days : <<p, d>> \in wanted \ ensured[r]}]
           /\ ensured' = [ensured EXCEPT ![r] = @ \cup wanted]
  /\ cleanup' = [cleanup EXCEPT ![r] = [pc |-> "metrics", cutoff |-> now - Retention]]
  /\ UNCHANGED <<now, samples, taken, nodeVars, scrape>>

\* dropParentPartitionsOlderThan: the rows go with their partition.
Outdated(d, cutoff) == Upper(d) <= cutoff

DropPartitions(p, gone) ==
  /\ partitions' = [partitions EXCEPT ![p] = @ \ gone]
  /\ samples' = [samples EXCEPT ![p] = {t \in @ : Day(t) \notin gone}]

\* DeleteMetricSamplesOlderThan, and an error after some of the partitions, which ends the
\* cleanup; DeleteIncidentDataOlderThan, which deletes the node events as well.
DeleteMetricSamples(r) ==
  LET old == {d \in partitions["metrics"] : Outdated(d, cleanup[r].cutoff)}
  IN  /\ cleanup[r].pc = "metrics"
      /\ \/ /\ DropPartitions("metrics", old)
            /\ cleanup' = [cleanup EXCEPT ![r].pc = "incidents"]
            /\ UNCHANGED failures
         \/ /\ Fails
            /\ \E some \in SUBSET old : DropPartitions("metrics", some)
            /\ cleanup' = [cleanup EXCEPT ![r] = SsIdle]
      /\ UNCHANGED <<now, taken, ensured, nodeVars, scrape>>

DeleteIncidentData(r) ==
  LET old == {d \in partitions["incidents"] : Outdated(d, cleanup[r].cutoff)}
  IN  /\ cleanup[r].pc = "incidents"
      /\ \/ /\ DropPartitions("incidents", old)
            /\ events' = {e \in events : e.at >= cleanup[r].cutoff}
            /\ UNCHANGED failures
         \/ /\ Fails
            /\ \E some \in SUBSET old : DropPartitions("incidents", some)
            /\ UNCHANGED events
      /\ cleanup' = [cleanup EXCEPT ![r] = SsIdle]
      /\ UNCHANGED <<now, taken, ensured, lastRoutes, routes, stirred, scrape>>

-----------------------------------------------------------------------------
\* What a console keeps in memory is lost.
RestartConsole(r) ==
  /\ Fails
  /\ ensured' = [ensured EXCEPT ![r] = {}] /\ lastRoutes' = [lastRoutes EXCEPT ![r] = NoRoutes]
  /\ scrape' = [scrape EXCEPT ![r] = SsIdle] /\ cleanup' = [cleanup EXCEPT ![r] = SsIdle]
  /\ stirred' = [stirred EXCEPT ![r] = {}]
  /\ UNCHANGED <<now, storeVars, events, routes>>

NodeMoves(n) ==
  /\ routes' = IF n \in routes THEN routes \ {n} ELSE routes \cup {n}
  /\ stirred' = [r \in Replica |-> stirred[r] \cup {n}]
  /\ UNCHANGED <<now, storeVars, ensured, lastRoutes, events, scrape, cleanup, failures>>

\* A scrape or a cleanup is cancelled before it is two ticks old.
Tick ==
  /\ now < LastTick /\ now' = now + 1
  /\ \A r \in Replica :
       /\ scrape[r].pc # "idle" => scrape[r].at = now
       /\ cleanup[r].pc # "idle" => cleanup[r].cutoff + Retention = now
  /\ UNCHANGED <<storeVars, ensured, nodeVars, scrape, cleanup, failures>>

SsNext ==
  \/ \E r \in Replica :
       \/ CollectClusterSnapshot(r) \/ InsertIncidentConsumerSamples(r)
       \/ PersistRouteTransitions(r) \/ InsertMetricSamples(r)
       \/ EnsureSamplePartitions(r) \/ DeleteMetricSamples(r) \/ DeleteIncidentData(r)
       \/ RestartConsole(r)
  \/ \E n \in Node : NodeMoves(n)
  \/ Tick

SsSpec == SsInit /\ [][SsNext]_ssVars

-----------------------------------------------------------------------------
\* The type invariant; rows are in partitions.
SsTypeOK ==
  /\ now \in Start .. LastTick /\ partitions \in [Parent -> SUBSET Days]
  /\ \A p \in Parent : samples[p] \subseteq taken[p] /\ \A t \in samples[p] : Day(t) \in partitions[p]
  /\ ensured \in [Replica -> SUBSET (Parent \X Days)]
  /\ \A r \in Replica : lastRoutes[r] = NoRoutes \/ lastRoutes[r] \subseteq Node

\* A sample whose statements did not fail is in the table until it is as old as the retention:
\* its day has a partition when it is inserted, although each console creates a partition only
\* once and any console may drop it, and the cleanup of a slow console drops nothing younger
\* (InsertMetricSamples, ensureDayPartition, dropParentPartitionsOlderThan).
SamplesKept ==
  \A p \in Parent : \A t \in taken[p] :
    Retention = 0 \/ now < t + Retention => t \in samples[p]

\* "Avoid false disconnect storms": a node event is of a node whose route changed since that
\* console's previous scrape, unless one of the two could not read /routez; a restart of the
\* console is no change (persistRouteTransitions).
NoFalseStorm == \A e \in events : e.real
=============================================================================

---------------------------- MODULE ClusterReads ----------------------------
(***************************************************************************)
(* What the console shows of one cluster, and the requests that change the *)
(* cluster: the view cache (internal/nats/view_cache.go), the snapshot hub *)
(* and its scrapes (internal/snapshot), the topology cache                 *)
(* (internal/app/monitoring/service.go) and the handlers that write        *)
(* through the caching executor (internal/adapter/nats/gateway.go).        *)
(*                                                                         *)
(* The cluster's streams, consumers, messages, buckets and objects are one *)
(* number, the count of writes applied: a view is the number it was read   *)
(* at.  A lifetime that ends is a step of its own (nothing here measures   *)
(* it).  Loads are shared by singleflight: one request leads, the others   *)
(* that ask for the same key wait for its answer.                          *)
(***************************************************************************)
EXTENDS Naturals, Sequences, FiniteSets

CONSTANTS View,       \* keys of the cached reads that are followed, "monitoring" among them
          VProc,      \* concurrent requests
          NoView,     \* the absent value
          MaxWrites   \* bound on writes of the cluster

\* A value that was read, and a load under way, of which gen is NoView until it has read.
\* crossed: an invalidation has passed since the read.
ViewRow == [gen : Nat, crossed : BOOLEAN]
FlightRow == [lead : VProc, gen : Nat \cup {NoView}, crossed : BOOLEAN]

ASSUME ReadsConstants ==
  /\ "monitoring" \in View /\ View \cap {"jsz", "jsz|fresh"} = {}
  /\ NoView \notin Nat \cup ViewRow \cup FlightRow
  /\ MaxWrites \in Nat

VARIABLES version,    \* writes applied to the cluster
          settled,    \* writes whose request has dropped the views
          dropped,    \* writes whose request has dropped the snapshot too
          views,      \* key -> NoView or a ViewRow
          flights,    \* singleflight key -> NoView or a FlightRow
          hub,        \* NoView or a ViewRow: the published snapshot
          scrape,     \* NoView or a ViewRow: the collector's fetch in progress
          topology,   \* NoView or gen: the topology cache
          vproc       \* request -> progress

clusterVars == <<version, settled, dropped>>
readVars == <<views, flights, topology>>
snapshotVars == <<hub, scrape>>
vVars == <<clusterVars, readVars, snapshotVars, vproc>>

VIdle == [pc |-> "idle"]
Key == View \cup {"jsz", "jsz|fresh"}

Loaded(gen) == [gen |-> gen, crossed |-> FALSE]

VInit ==
  /\ version = 0 /\ settled = {} /\ dropped = {}
  /\ views = [k \in View |-> NoView]
  /\ flights = [k \in Key |-> NoView]
  /\ hub = NoView /\ scrape = NoView /\ topology = NoView
  /\ vproc = [p \in VProc |-> VIdle]

VGo(p, next) == vproc' = [vproc EXCEPT ![p] = next]

-----------------------------------------------------------------------------
(* Reads.                                                                  *)

Leads(p, k) == flights[k] # NoView /\ flights[k].lead = p
Waiting(k) == {q \in VProc : vproc[q].pc = "wait" /\ vproc[q].key = k}

\* The flight of key ends with gen: its leader and all who wait on it answer.  A leader of a
\* view's flight that itself works for a topology flight carries the result there.
Land(p, k, gen) ==
  /\ flights' = [flights EXCEPT ![k] = NoView]
  /\ vproc' = [q \in VProc |->
       IF q \in Waiting(k) \cup {p}
       THEN IF vproc[q].outer # k THEN [pc |-> "fetched", outer |-> vproc[q].outer, gen |-> gen]
            ELSE VIdle
       ELSE vproc[q]]

\* The load failed: the error is everybody's.
Abort(p, k) ==
  /\ flights' = [j \in Key |-> IF flights[j] # NoView /\ flights[j].lead \in Waiting(k) \cup {p}
                              THEN NoView ELSE flights[j]]
  /\ vproc' = [q \in VProc |->
       IF \/ q \in Waiting(k) \cup {p}
          \/ \E o \in Waiting(k) \cup {p} : q \in Waiting(vproc[o].outer)
       THEN VIdle ELSE vproc[q]]

\* The read requests, by the views they go through: lists and monitoring bodies are cached, what
\* is asked of one stream, consumer, message, bucket, key or object is not.
StreamReads == [op \in {"ListStreams", "GetStream"} |-> IF op = "ListStreams" THEN {"streams"} ELSE {}]
ConsumerReads == [op \in {"ListConsumers", "GetConsumer"} |->
                    IF op = "ListConsumers" THEN {"consumers"} ELSE {}]
MessageReads == [op \in {"GetMessage", "GetMessageRange"} |-> {}]
DLQReads == [op \in {"ListDLQMessages"} |-> {}]
CapsuleReads == [op \in {"ListIncidentCapsules", "LoadIncidentCapsule", "PreviewIncidentCapsule"} |-> {}]
KVReads == [op \in {"ListKVBuckets", "GetKVBucket", "ListKVKeys", "GetKVEntry", "KVHistory"} |->
              IF op = "ListKVBuckets" THEN {"kv_buckets"} ELSE {}]
ObjectReads == [op \in {"ListObjectBuckets", "GetObjectBucket", "ListObjects", "GetObject"} |->
                  IF op = "ListObjectBuckets" THEN {"obj_buckets"} ELSE {}]
AccountReads == [op \in {"AccountInfo"} |-> {"account"}]

\* The overview's event stream reads the account and two monitoring bodies; the views are not
\* read together, so each read is a request of its own here.
OverviewReads == [op \in {"AccountOverview"} |-> {"account", "monitoring"}]

Reads == {StreamReads, ConsumerReads, MessageReads, DLQReads, CapsuleReads, KVReads, ObjectReads,
          AccountReads, OverviewReads}

\* GetOrLoad, first look: a cached view is the answer.
LookUp(p, k) == IF views[k] # NoView THEN UNCHANGED vproc
                ELSE VGo(p, [pc |-> "do", key |-> k, outer |-> k])

GetOrLoad(p) ==
  /\ vproc[p].pc = "idle"
  /\ \E handler \in Reads : \E op \in DOMAIN handler : \E k \in handler[op] \cap View : LookUp(p, k)
  /\ UNCHANGED <<clusterVars, readVars, snapshotVars>>

\* A read that is not cached asks the server and answers.
DirectRead(p) ==
  /\ vproc[p].pc = "idle"
  /\ \E handler \in Reads : \E op \in DOMAIN handler : handler[op] = {}
  /\ UNCHANGED vVars

\* The monitoring bodies a snapshot holds, and those the proxy's routes can ask for: an allowed
\* endpoint with its allowed query.
SnapshotPath == {"varz", "jsz", "jsz of the topology", "connz of the responders"}
MonitoringPath == SnapshotPath \cup {"any other"}

\* Hub.MonitoringPayload: the published snapshot, whatever its age.
MonitoringPayload == hub

\* Core.Raw: the body in the snapshot, or else the view.
Raw(p) ==
  /\ vproc[p].pc = "idle"
  /\ \E path \in MonitoringPath, fresh \in BOOLEAN :
       IF ~fresh /\ path \in SnapshotPath /\ MonitoringPayload # NoView THEN UNCHANGED vproc
       ELSE LookUp(p, "monitoring")
  /\ UNCHANGED <<clusterVars, readVars, snapshotVars>>

\* The singleflight: join a flight of this key, or lead one, which looks again first.
Do(p) ==
  LET k == vproc[p].key
  IN  /\ vproc[p].pc = "do"
      /\ \/ /\ flights[k] # NoView
            /\ VGo(p, [vproc[p] EXCEPT !.pc = "wait"])
            /\ UNCHANGED flights
         \/ /\ flights[k] = NoView /\ views[k] # NoView
            /\ Land(p, k, views[k].gen)
         \/ /\ flights[k] = NoView /\ views[k] = NoView
            /\ flights' = [flights EXCEPT ![k] = [lead |-> p, gen |-> NoView, crossed |-> FALSE]]
            /\ VGo(p, [vproc[p] EXCEPT !.pc = "load"])
      /\ UNCHANGED <<clusterVars, views, topology, snapshotVars>>

\* load(): the read of the cluster.
Load(p) ==
  LET k == vproc[p].key
  IN  /\ vproc[p].pc = "load"
      /\ \/ /\ flights' = [flights EXCEPT ![k].gen = version]
            /\ VGo(p, [vproc[p] EXCEPT !.pc = "store"])
         \/ Abort(p, k)
      /\ UNCHANGED <<clusterVars, views, topology, snapshotVars>>

\* set(), whatever has been invalidated since the read.
StoreView(p) ==
  LET k == vproc[p].key
  IN  /\ vproc[p].pc = "store"
      /\ views' = [views EXCEPT ![k] = [gen |-> flights[k].gen, crossed |-> flights[k].crossed]]
      /\ Land(p, k, flights[k].gen)
      /\ UNCHANGED <<clusterVars, topology, snapshotVars>>

\* The entry's lifetime ends, or an eviction of the cluster's connection drops it.
ViewExpires(k) ==
  /\ views[k] # NoView
  /\ views' = [views EXCEPT ![k] = NoView]
  /\ UNCHANGED <<clusterVars, flights, topology, snapshotVars, vproc>>

\* FetchJSZ, first look: the topology cache, unless the caller wants a fresh body.
FetchJSZ(p) ==
  /\ vproc[p].pc = "idle"
  /\ \E k \in {"jsz", "jsz|fresh"} :
       IF k = "jsz" /\ topology # NoView THEN UNCHANGED vproc
       ELSE VGo(p, [pc |-> "jszDo", key |-> k, outer |-> k])
  /\ UNCHANGED <<clusterVars, readVars, snapshotVars>>

\* FetchJSZ under singleflight, and FetchMonitoring: the snapshot first, unless fresh, then the
\* view of the monitoring endpoint.
JszDo(p) ==
  LET k == vproc[p].key
      lead == flights' = [flights EXCEPT ![k] = [lead |-> p, gen |-> NoView, crossed |-> FALSE]]
  IN  /\ vproc[p].pc = "jszDo"
      /\ \/ /\ flights[k] # NoView
            /\ VGo(p, [vproc[p] EXCEPT !.pc = "wait"])
            /\ UNCHANGED flights
         \/ /\ flights[k] = NoView /\ k = "jsz" /\ topology # NoView
            /\ Land(p, k, topology)
         \/ /\ flights[k] = NoView /\ k = "jsz" /\ topology = NoView /\ MonitoringPayload # NoView
            /\ lead /\ VGo(p, [pc |-> "fetched", outer |-> k, gen |-> MonitoringPayload.gen])
         \/ /\ flights[k] = NoView /\ (k = "jsz|fresh" \/ (topology = NoView /\ MonitoringPayload = NoView))
            /\ lead
            /\ IF views["monitoring"] # NoView
               THEN VGo(p, [pc |-> "fetched", outer |-> k, gen |-> views["monitoring"].gen])
               ELSE VGo(p, [pc |-> "do", key |-> "monitoring", outer |-> k])
      /\ UNCHANGED <<clusterVars, views, topology, snapshotVars>>

\* putCached and the end of the flight.
StoreTopology(p) ==
  LET k == vproc[p].outer
  IN  /\ vproc[p].pc = "fetched"
      /\ topology' = vproc[p].gen
      /\ flights' = [flights EXCEPT ![k] = NoView]
      /\ vproc' = [q \in VProc |-> IF q \in Waiting(k) \cup {p} THEN VIdle ELSE vproc[q]]
      /\ UNCHANGED <<clusterVars, views, snapshotVars>>

TopologyExpires_StaysUsed ==
  /\ topology # NoView
  /\ UNCHANGED vVars
TopologyExpires ==
  /\ topology # NoView
  /\ topology' = NoView
  /\ UNCHANGED <<clusterVars, views, flights, snapshotVars, vproc>>

\* sampleCluster: the fetch ...
CollectClusterSnapshot ==
  /\ scrape = NoView
  /\ scrape' = Loaded(version)
  /\ UNCHANGED <<clusterVars, readVars, hub, vproc>>

\* ... and the publication, or a failure after which the old snapshot stays.
Publish ==
  /\ scrape # NoView
  /\ hub' = scrape /\ scrape' = NoView
  /\ UNCHANGED <<clusterVars, readVars, vproc>>

ScrapeFails ==
  /\ scrape # NoView
  /\ scrape' = NoView
  /\ UNCHANGED <<clusterVars, readVars, hub, vproc>>

-----------------------------------------------------------------------------
(* Writes.  A request is the sequence of its calls; each table gives the   *)
(* calls of one group of methods or handlers.                              *)

\* cachingExecutor: the call, and when it succeeds the views of the cluster are dropped.
StreamExecutor == [op \in {"AddStream", "UpdateStream", "DeleteStream", "PurgeStream"} |->
                     <<"apply", "invalidate">>]

\* ReplayConsumer is the plain executor's: it resets or creates a consumer and drops nothing.
ConsumerExecutor == [op \in {"AddConsumer", "UpdateConsumer", "DeleteConsumer", "ReplayConsumer"} |->
                       IF op = "ReplayConsumer" THEN <<"apply">> ELSE <<"apply", "invalidate">>]

\* A capture from a dead letter reads the stream and the message it names first.
CapsuleClient == [op \in {"CaptureIncidentCapsule", "CaptureIncidentCapsuleFromDLQ"} |->
                    IF op = "CaptureIncidentCapsule" THEN <<"apply">> ELSE <<"read", "read", "apply">>]

\* A batch of retries drops the views when one message at least was republished and deleted.
MessageExecutor == [op \in {"PublishStreamMessage", "RetryDLQMessages"} \cup DOMAIN CapsuleClient |->
                      CASE op = "RetryDLQMessages" -> <<"apply", "invalidateIfRetried">>
                        [] op = "PublishStreamMessage" -> <<"apply", "invalidate">>
                        [] OTHER -> CapsuleClient[op] \o <<"invalidate">>]

\* applyKVStreamExtras: the backing stream's configuration is read and written back whole.
ApplyKVStreamExtras == <<"read", "apply">>

\* The status of a bucket, which its creation and its update answer.
GetKVBucket == <<"read">>
GetObjectBucket == <<"read">>

\* CreateKVBucket and UpdateKVBucket of the client: the bucket, then the rest of its stream's
\* configuration, then the status.
KVClient == [op \in {"CreateKVBucket", "UpdateKVBucket"} |->
               <<"apply">> \o ApplyKVStreamExtras \o GetKVBucket]

KVExecutor == [op \in {"CreateKVBucket", "UpdateKVBucket", "DeleteKVBucket", "PutKVEntry",
                       "DeleteKVEntry"} |->
                 (IF op \in DOMAIN KVClient THEN KVClient[op] ELSE <<"apply">>)
                   \o <<"invalidate">>]

\* An object bucket is created, or its stream's configuration read and written back; then its
\* status is read.
ObjectClient == [op \in {"CreateObjectBucket", "UpdateObjectBucket"} |->
                   (IF op = "CreateObjectBucket" THEN <<"apply">> ELSE <<"read", "apply">>)
                     \o GetObjectBucket]

ObjectExecutor == [op \in {"CreateObjectBucket", "UpdateObjectBucket", "DeleteObjectBucket",
                           "PutObject", "DeleteObject"} |->
                     (IF op \in DOMAIN ObjectClient THEN ObjectClient[op] ELSE <<"apply">>)
                       \o <<"invalidate">>]

\* The handlers of streams and consumers drop the snapshot as well; those of messages, capsules,
\* buckets, keys and objects leave it to the next scrape.
StreamHandler == [op \in DOMAIN StreamExecutor |-> StreamExecutor[op] \o <<"invalidateSnapshot">>]

ConsumerHandler == [op \in DOMAIN ConsumerExecutor \ {"ReplayConsumer"} |->
                      ConsumerExecutor[op] \o <<"invalidateSnapshot">>]

ReplayHandler == [op \in {"ReplayConsumer"} |-> ConsumerExecutor[op]]

PublishHandler == [op \in {"PublishStreamMessage"} |-> MessageExecutor[op]]
DLQHandler == [op \in {"RetryDLQMessages"} |-> MessageExecutor[op]]
CapsuleHandler == [op \in DOMAIN CapsuleClient |-> MessageExecutor[op]]

KVBucketHandler == [op \in {"CreateKVBucket", "UpdateKVBucket", "DeleteKVBucket"} |-> KVExecutor[op]]
KVEntryHandler == [op \in {"PutKVEntry", "DeleteKVEntry"} |-> KVExecutor[op]]

ObjectBucketHandler == [op \in {"CreateObjectBucket", "UpdateObjectBucket", "DeleteObjectBucket"} |->
                          ObjectExecutor[op]]
ObjectHandler == [op \in {"PutObject", "DeleteObject"} |-> ObjectExecutor[op]]

\* The routes that write to the cluster.
Program == {StreamHandler, ConsumerHandler, ReplayHandler, PublishHandler, DLQHandler, CapsuleHandler,
            KVBucketHandler, KVEntryHandler, ObjectBucketHandler, ObjectHandler}

\* WithExecutor: a request that was not refused has a session and starts its calls.
WithExecutor(p) ==
  /\ vproc[p].pc = "idle" /\ version < MaxWrites
  /\ \E handler \in Program : \E op \in DOMAIN handler :
       VGo(p, [pc |-> "write", todo |-> handler[op], writes |-> {}])
  /\ UNCHANGED <<clusterVars, readVars, snapshotVars>>

Done1(p) == [vproc[p] EXCEPT !.todo = Tail(@)]
Wrote(p) == [Done1(p) EXCEPT !.writes = @ \cup {version + 1}]
At(p, call) == vproc[p].pc = "write" /\ vproc[p].todo # <<>> /\ Head(vproc[p].todo) = call

\* An error is answered, and the calls that remain are not made.  The server may have applied
\* the write whose answer was lost.
Fail(p) == VGo(p, VIdle)

Apply(p) ==
  /\ At(p, "apply")
  /\ \/ version < MaxWrites /\ version' = version + 1 /\ (VGo(p, Wrote(p)) \/ Fail(p))
     \/ UNCHANGED version /\ Fail(p)
  /\ UNCHANGED <<settled, dropped, readVars, snapshotVars>>

\* A read between the calls, whose error ends the request as well.
ReadBetween(p) ==
  /\ At(p, "read")
  /\ VGo(p, Done1(p)) \/ Fail(p)
  /\ UNCHANGED <<clusterVars, readVars, snapshotVars>>

\* InvalidateCluster: every view of the cluster, and none of the loads in flight.
Invalidated_NotMonitoring(k) == IF k = "monitoring" THEN views[k] ELSE NoView
Invalidated(k) == NoView

InvalidateViews(p) ==
  \/ /\ At(p, "invalidate") \/ At(p, "invalidateIfRetried")
     /\ views' = [k \in View |-> Invalidated(k)]
     /\ flights' = [k \in Key |-> IF flights[k] # NoView /\ flights[k].gen # NoView
                                  THEN [flights[k] EXCEPT !.crossed = TRUE] ELSE flights[k]]
     /\ settled' = settled \cup vproc[p].writes
     /\ VGo(p, Done1(p))
     /\ UNCHANGED <<version, dropped, topology, snapshotVars>>
  \/ /\ At(p, "invalidateIfRetried")
     /\ VGo(p, Done1(p))
     /\ UNCHANGED <<clusterVars, readVars, snapshotVars>>

InvalidateSnapshot(p) ==
  /\ At(p, "invalidateSnapshot")
  /\ hub' = NoView
  /\ scrape' = IF scrape = NoView THEN NoView ELSE [scrape EXCEPT !.crossed = TRUE]
  /\ dropped' = dropped \cup vproc[p].writes
  /\ VGo(p, Done1(p))
  /\ UNCHANGED <<version, settled, readVars>>

Answer(p) ==
  /\ vproc[p].pc = "write" /\ vproc[p].todo = <<>>
  /\ VGo(p, VIdle)
  /\ UNCHANGED <<clusterVars, readVars, snapshotVars>>

VStep(p) ==
  \/ Do(p) \/ Load(p) \/ StoreView(p) \/ JszDo(p) \/ StoreTopology(p)
  \/ Apply(p) \/ ReadBetween(p)
  \/ InvalidateViews(p) \/ InvalidateSnapshot(p) \/ Answer(p)

VNext ==
  \/ \E p \in VProc : GetOrLoad(p) \/ DirectRead(p) \/ Raw(p) \/ FetchJSZ(p)
  \/ \E p \in VProc : WithExecutor(p) \/ VStep(p)
  \/ \E k \in View : ViewExpires(k)
  \/ TopologyExpires \/ CollectClusterSnapshot \/ Publish \/ ScrapeFails

VSpec == VInit /\ [][VNext]_vVars

\* Lifetimes end, the collector's ticker fires, and the cluster answers a scrape now and then.
VFairness ==
  /\ \A k \in View : WF_vVars(ViewExpires(k))
  /\ WF_vVars(TopologyExpires)
  /\ WF_vVars(CollectClusterSnapshot)
  /\ SF_vVars(Publish)

-----------------------------------------------------------------------------
\* The type invariant; nothing shown is ahead of the cluster.
VTypeOK ==
  /\ version \in 0 .. MaxWrites
  /\ settled \subseteq 1 .. version /\ dropped \subseteq settled
  /\ views \in [View -> {NoView} \cup ViewRow] /\ flights \in [Key -> {NoView} \cup FlightRow]
  /\ {hub, scrape} \subseteq {NoView} \cup ViewRow
  /\ \A k \in View : views[k] # NoView => views[k].gen <= version
  /\ hub # NoView => hub.gen <= version
  /\ topology # NoView => topology <= version

\* A cached view, or the snapshot, that misses a write whose request dropped it was read before
\* that drop and stored after it by a load in flight: no sequence of other requests, failed
\* requests or expiries leaves one behind (InvalidateCluster, Hub.Invalidate).
StaleViewExplained ==
  /\ \A k \in View : views[k] # NoView /\ (\E w \in settled : w > views[k].gen) => views[k].crossed
  /\ hub # NoView /\ (\E w \in dropped : w > hub.gen) => hub.crossed

\* A request that waits for a flight has one to answer it: the flight's leader has its own next
\* step to take, or, when it leads a topology flight, waits for a view that somebody else is
\* loading.  So a flight that fails or lands, under whatever key, leaves nobody waiting, and
\* flights that wait for flights never close a circle (singleflight in GetOrLoad and FetchJSZ).
NobodyStranded ==
  \A p \in VProc : vproc[p].pc = "wait" =>
    \E q \in VProc \ {p} :
      /\ Leads(q, vproc[p].key)
      /\ \/ vproc[q].pc \in {"do", "load", "store", "fetched"}
         \/ /\ vproc[q].pc = "wait" /\ vproc[q].key \in View
            /\ \E r \in VProc \ {p, q} : Leads(r, vproc[q].key) /\ vproc[r].pc \in {"load", "store"}

\* When the cluster no longer changes, every cache comes to show its state: the load that
\* crossed an invalidation, the scrape published after one, and the writes that drop nothing
\* are repaired by the lifetimes and the next scrape.
ViewsConverge ==
  <>[](/\ \A k \in View : views[k] # NoView => views[k].gen = version
       /\ hub # NoView => hub.gen = version
       /\ topology # NoView => topology = version)
=============================================================================

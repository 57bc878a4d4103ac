------------------------------ MODULE Replicas ------------------------------
(***************************************************************************)
(* The Replicas page of one cluster: internal/api/insights/replicas.go and *)
(* replicas_sse.go over internal/api/apikit/monitoring_failover.go.  An    *)
(* answer is put together from three monitoring endpoints, each asked of   *)
(* several servers that come and go meanwhile; process-wide maps carry     *)
(* what one request learnt to the next.                                    *)
(*                                                                         *)
(* A request is a process, and so is the scrape of the event feed (the     *)
(* broker that drives it is ConnzBroker).  nats-server always names itself *)
(* in its answers, so a varz that answered is a server that was seen, and  *)
(* the clause of buildReplicasSnapshot for the case that none was seen has *)
(* no step here.  Counters, addresses and versions of a peer are left out. *)
(***************************************************************************)
EXTENDS Naturals, Sequences, FiniteSets, SequencesExt, FiniteSetsExt

CONSTANTS Server,
          Base,        \* monitoring URLs
          ServerAt,    \* base -> the server that listens there
          Registered,  \* what an operator may register: [primary, derived]
          Poll,        \* requests of the page
          Scraper,     \* the scrape behind the event feed
          NoPeer

ASSUME ReplicaConstants ==
  /\ ServerAt \in [Base -> Server]
  /\ NoPeer \notin Server \cup Base
  /\ Scraper \notin Poll
  /\ \A c \in Registered : c.primary \in Base /\ c.derived \in Seq(Base)

VARIABLES up,        \* servers that answer
          linger,    \* servers that are down and whose route still shows
          cluster,   \* the registered cluster
          preferred, \* replicasPreferredBase
          lastGood,  \* replicasLastGood: NoPeer, or whether it is "live" or all "offline"
          feed,      \* the payload the event feed shows, likewise
          poll       \* request -> progress

natsVars == <<up, linger, cluster>>
repVars == <<natsVars, preferred, lastGood, feed, poll>>

\* What /jsz says of the meta group: who leads, and whom it calls offline.  A peer it lists by
\* id only is told by the name replicasPeerIDNames has for the id; without one it is listed as
\* "peer:ID" and its server is not in offline.
MetaCluster == [leader : Server \cup {NoPeer}, offline : SUBSET Server]

ReplicasInit ==
  /\ up = Server /\ linger = {} /\ cluster \in Registered
  /\ preferred = NoPeer /\ lastGood = NoPeer /\ feed = NoPeer
  /\ poll = [p \in Poll \cup {Scraper} |-> [pc |-> "idle"]]

PollGo(p, next) == poll' = [poll EXCEPT ![p] = next]
Asking(p) == poll[p].pc # "idle"
Rest(p) == PollGo(p, [pc |-> "idle"])

-----------------------------------------------------------------------------
(* The cluster.                                                            *)

Crash(s) ==
  /\ s \in up
  /\ up' = up \ {s} /\ linger' = linger \cup {s}
  /\ poll' = [p \in DOMAIN poll |-> IF Asking(p) THEN [poll[p] EXCEPT !.stable = @ \ {s}]
                                    ELSE poll[p]]
  /\ UNCHANGED <<cluster, preferred, lastGood, feed>>

RouteDrops(s) ==
  /\ s \in linger
  /\ linger' = linger \ {s}
  /\ UNCHANGED <<up, cluster, preferred, lastGood, feed, poll>>

Recover(s) ==
  /\ s \notin up
  /\ up' = up \cup {s} /\ linger' = linger \ {s}
  /\ poll' = [p \in DOMAIN poll |-> IF Asking(p) THEN [poll[p] EXCEPT !.during = @ \cup {s}]
                                    ELSE poll[p]]
  /\ UNCHANGED <<cluster, preferred, lastGood, feed>>

\* An operator edits the cluster's URLs; what is remembered under its id stays.
UpdateCluster ==
  /\ \E c \in Registered \ {cluster} : cluster' = c
  /\ UNCHANGED <<up, linger, preferred, lastGood, feed, poll>>

-----------------------------------------------------------------------------
(* The three reads.                                                        *)

\* The monitoring URL, then the ones derived from the NATS URLs (URLs that do not parse are not
\* in derived).  The code drops repetitions: in a list here a base counts where it comes first.
MonitoringCandidates == <<cluster.primary>> \o cluster.derived

PreferBase_Only(bases, base) == IF base = NoPeer THEN bases ELSE <<base>>
PreferBase(bases, base) == IF base = NoPeer THEN bases ELSE <<base>> \o bases

First(bases, among) == bases[Min({i \in DOMAIN bases : bases[i] \in among})]

\* of: the candidates; during: servers that were up at some time since the request began; stable:
\* those that were up all the time and answered whenever they were asked (all history).
LoadReplicasMonitoring(p) ==
  LET bases == PreferBase(MonitoringCandidates, preferred)
  IN  /\ ~Asking(p)
      /\ PollGo(p, [pc |-> "routez", todo |-> ToSet(bases), bases |-> bases,
                    of |-> ToSet(MonitoringCandidates), during |-> up, stable |-> up])
      /\ UNCHANGED <<natsVars, preferred, lastGood, feed>>

\* FetchMonitoringWithFailover of /routez, one hop: an answer, or an error (also of a server
\* that is up: the hop has one second), which goes on to the next base.
FetchRoutez(p) ==
  LET q == poll[p]
      b == First(q.bases, q.todo)
      s == ServerAt[b]
  IN  /\ q.pc = "routez"
      /\ \/ /\ s \in up
            /\ preferred' = b
            /\ PollGo(p, [pc |-> "varz", bases |-> PreferBase(q.bases, b), reporter |-> s,
                          routes |-> (up \cup linger) \ {s},
                          of |-> q.of, during |-> q.during, stable |-> {}])
         \/ /\ PollGo(p, IF q.todo = {b}
                         THEN [pc |-> "failed", of |-> q.of, during |-> {}, stable |-> q.stable \ {s}]
                         ELSE [pc |-> "routez", todo |-> q.todo \ {b}, bases |-> q.bases,
                               of |-> q.of, during |-> q.during, stable |-> q.stable \ {s}])
            /\ UNCHANGED preferred
      /\ UNCHANGED <<natsVars, lastGood, feed>>

\* FetchMonitoringAll of /varz: the bases that answer, in their order; an error when none does.
FetchMonitoringAll(p) ==
  LET q == poll[p]
  IN  /\ q.pc = "varz"
      /\ \E ok \in SUBSET {b \in ToSet(q.bases) : ServerAt[b] \in up} :
           LET seen == {ServerAt[b] : b \in ok}
           IN  IF ok = {} THEN PollGo(p, [pc |-> "failed", of |-> q.of, during |-> {}, stable |-> {}])
               ELSE PollGo(p, [pc |-> "build", monitorBases |-> Cardinality(ToSet(q.bases)),
                               reporter |-> q.reporter, routes |-> q.routes, seen |-> seen,
                               monitored |-> ServerAt[First(q.bases, ok)],
                               of |-> q.of, during |-> q.during, stable |-> {}])
      /\ UNCHANGED <<natsVars, preferred, lastGood, feed>>

\* The /jsz a request can meet: a live one while a server is up, or, unless it asks for a fresh
\* one as a scrape does, the hub's of some earlier time; NoPeer without an answer or without a
\* meta group.
JszForReplicas(p) == {NoPeer} \cup (IF p = Scraper /\ up = {} THEN {} ELSE MetaCluster)

-----------------------------------------------------------------------------
(* The answer.                                                             *)

\* "Peers that no longer answer /varz are offline even when routez still lists them", except
\* the reporter of the routes; with one base and one answer the routes are all there is.
OnlineByLink_OneAnswer(q) ==
  IF Cardinality(q.seen) > 1 THEN q.seen \cup {q.reporter} ELSE q.seen \cup {q.reporter} \cup q.routes
OnlineByLink(q) ==
  IF q.monitorBases > 1 \/ Cardinality(q.seen) > 1
  THEN q.seen \cup {q.reporter, q.monitored}
  ELSE q.seen \cup {q.reporter} \cup q.routes

\* The peers shown online and whether one leads; the meta group's word on who is offline wins.
BuildReplicasSnapshot(q, m) ==
  IF m = NoPeer THEN [online |-> OnlineByLink(q), led |-> FALSE]
  ELSE [online |-> OnlineByLink(q) \ (m.offline \ {m.leader}), led |-> m.leader # NoPeer]

\* What matters later of an answer: whether one of its peers is online or leads.
Kept(snap) == IF snap.online # {} \/ snap.led THEN "live" ELSE "offline"

\* The last read and the projection; a body too large or malformed is an error.  ghosts
\* (history): peers shown online that were down all the time since the request began.
Build(p) ==
  LET q == poll[p]
  IN  /\ q.pc = "build"
      /\ \/ \E m \in JszForReplicas(p) :
              LET snap == BuildReplicasSnapshot(q, m)
              IN  PollGo(p, [pc |-> "remember", kept |-> Kept(snap),
                             ghosts |-> snap.online \ q.during,
                             of |-> q.of, during |-> {}, stable |-> {}])
         \/ PollGo(p, [pc |-> "failed", of |-> q.of, during |-> {}, stable |-> {}])
      /\ UNCHANGED <<natsVars, preferred, lastGood, feed>>

RememberReplicasSnapshot(p) ==
  LET q == poll[p]
  IN  /\ q.pc = "remember"
      /\ lastGood' = q.kept
      /\ feed' = IF p = Scraper THEN q.kept ELSE feed
      /\ Rest(p)
      /\ UNCHANGED <<natsVars, preferred>>

-----------------------------------------------------------------------------
(* Nobody answered: the peers last seen, all offline.                      *)

\* replicasOfflineFromLatest answers nothing when that would change nothing; else it forgets
\* the preferred base as well.
ReplicasOfflineFromLatest(kept) == IF kept = "live" THEN "offline" ELSE NoPeer
Forgets(kept) == preferred' = IF ReplicasOfflineFromLatest(kept) = NoPeer THEN preferred ELSE NoPeer

\* Replicas, after an error: the error itself while nothing is remembered, else what is
\* remembered, all offline, which is then what is remembered.
ReplicasDegraded(p) ==
  LET offline == ReplicasOfflineFromLatest(lastGood)
  IN  /\ p # Scraper /\ poll[p].pc = "failed"
      /\ Forgets(lastGood)
      /\ IF offline = NoPeer THEN Rest(p)
         ELSE PollGo(p, [pc |-> "storeOffline", during |-> {}, stable |-> {}])
      /\ UNCHANGED <<natsVars, lastGood, feed>>

StoreOffline(p) ==
  /\ poll[p].pc = "storeOffline"
  /\ lastGood' = "offline"
  /\ Rest(p)
  /\ UNCHANGED <<natsVars, preferred, feed>>

\* publishFetchError of the broker, at the first failure (WithFetchErrorThreshold(1)).
ScrapeFailed ==
  LET latest == IF feed = NoPeer THEN lastGood ELSE feed
      offline == ReplicasOfflineFromLatest(latest)
  IN  /\ poll[Scraper].pc = "failed"
      /\ Forgets(latest)
      /\ feed' = IF offline = NoPeer THEN feed ELSE offline
      /\ Rest(Scraper)
      /\ UNCHANGED <<natsVars, lastGood>>

ReplicasNext ==
  \/ \E s \in Server : Crash(s) \/ RouteDrops(s) \/ Recover(s)
  \/ \E p \in Poll \cup {Scraper} :
       \/ LoadReplicasMonitoring(p) \/ FetchRoutez(p) \/ FetchMonitoringAll(p)
       \/ Build(p) \/ RememberReplicasSnapshot(p) \/ ReplicasDegraded(p) \/ StoreOffline(p)
  \/ UpdateCluster \/ ScrapeFailed

ReplicasSpec == ReplicasInit /\ [][ReplicasNext]_repVars

-----------------------------------------------------------------------------
\* The type invariant.
ReplicasTypeOK ==
  /\ up \cup linger \subseteq Server /\ up \cap linger = {}
  /\ cluster \in Registered /\ preferred \in Base \cup {NoPeer}

\* In a cluster with several monitoring URLs every peer an answer shows online answered at some
\* time during the request, whatever routes linger (buildReplicasSnapshot).
PeersAreReal ==
  \A p \in DOMAIN poll : poll[p].pc = "remember" /\ Cardinality(poll[p].of) > 1 =>
    poll[p].ghosts = {}

\* A request finds no routes, or no server, only when every candidate's server was down at some
\* time during it or did not answer in time: a preferred base that died, was forgotten, was
\* replaced meanwhile or is no candidate any more keeps none of the others from being asked
\* (FetchMonitoringWithFailover, preferBase).
FailoverFindsServer ==
  \A p \in DOMAIN poll : poll[p].pc = "failed" =>
    \A b \in poll[p].of : ServerAt[b] \notin poll[p].stable
=============================================================================

--------------------------- MODULE ClientManager ---------------------------
(***************************************************************************)
(* The NATS connection manager for one cluster (internal/nats/manager.go,  *)
(* session.go and the sweeper and OnClosed hook of connection.go): the     *)
(* cached client, the cached credentials, the single-flight dial and the   *)
(* session generations.  The manager's maps are keyed by cluster and no    *)
(* operation looks at two clusters, so one cluster is the general case.    *)
(*                                                                         *)
(* The goroutines are: request handlers (Proc), the sweeper, and one       *)
(* callback goroutine per client, in which nats.go runs OnClosed.  Steps   *)
(* are the critical sections of Manager.mu and the calls made between them.*)
(*                                                                         *)
(* The connection status map and its listeners are in ConnectionStatus:    *)
(* nothing below reads them.                                               *)
(***************************************************************************)
EXTENDS Naturals, FiniteSets

CONSTANTS
  Proc,     \* request goroutines
  Client,   \* connections that can be dialled; the bound on dials
  Sweeper,  \* the sweeper goroutine
  None      \* nil

ASSUME NamesDistinct ==
  /\ Proc \cap Client = {}
  /\ Sweeper \notin Proc \cup Client
  /\ None \notin Proc \cup Client

Thread == Proc \cup Client \cup {Sweeper}

VARIABLES
  row,      \* the clusters table still has the cluster
  creds,    \* credCache has a usable entry
  cached,   \* cache: the client of the entry, or None
  stale,    \* the entry's lastUsed is older than the TTL
  conn,     \* state of each connection
  leader,   \* goroutine that runs the single-flight dial
  pc,       \* program counter of each goroutine
  got,      \* client a request goroutine holds
  victim,   \* client a goroutine removed from the cache and has yet to close
  back,     \* where to continue after closing it
  valid,    \* requests whose session has the current generation
  born      \* requests whose session was made while its client was cached

reqVars == <<got, valid, born>>
vars == <<row, creds, cached, stale, conn, leader, pc, got, victim, back, valid, born>>

InFlight == {"recheck", "evictDial", "dial", "install", "finish"}
PC == InFlight \cup {"idle", "row", "store", "connect", "evict", "flight", "join", "probe",
                     "unhealthy", "session", "held", "drop", "deleted", "close", "onClosed"}

Alive(c) == conn[c] = "up"

Init ==
  /\ row    = TRUE
  /\ creds  = FALSE
  /\ cached = None
  /\ stale  = FALSE
  /\ conn   = [c \in Client |-> "free"]
  /\ leader = None
  /\ pc     = [t \in Thread |-> "idle"]
  /\ got    = [p \in Proc |-> None]
  /\ victim = [t \in Thread |-> None]
  /\ back   = [t \in Thread |-> "idle"]
  /\ valid  = {}
  /\ born   = {}

----------------------------------------------------------------------------
(* Goroutine t takes the client out of the cache under mu, bumping the       *)
(* session generation, and goes on at next once it has closed it.            *)
TakeOut(t, next) ==
  /\ cached' = None
  /\ stale'  = FALSE
  /\ valid'  = {}
  /\ victim' = [victim EXCEPT ![t] = cached]
  /\ back'   = [back EXCEPT ![t] = IF cached = None THEN @ ELSE next]
  /\ pc'     = [pc EXCEPT ![t] = IF cached = None THEN next ELSE "close"]

(* evict: also drops the cached credentials. *)
Evict(t, next) ==
  /\ TakeOut(t, next)
  /\ creds' = FALSE
  /\ UNCHANGED <<row, conn, leader, born>>

(* client.Close(), outside the lock.  nats.go runs the OnClosed hook of a    *)
(* connection that was not closed already.                                   *)
Close(t) ==
  /\ pc[t] = "close"
  /\ LET c == victim[t]
     IN  /\ conn' = [conn EXCEPT ![c] = "closed"]
         /\ pc'   = [pc EXCEPT ![t] = back[t],
                               ![c] = IF conn[c] = "closed" THEN @ ELSE "onClosed"]
  /\ victim' = [victim EXCEPT ![t] = None]
  /\ back'   = [back EXCEPT ![t] = "idle"]
  /\ UNCHANGED <<row, creds, cached, stale, leader, reqVars>>

(* The OnClosed hook of client c evicts whatever client is cached. *)
OnClosed(c) ==
  /\ pc[c] = "onClosed"
  /\ Evict(c, "idle")
  /\ UNCHANGED got

(* sweepExpired: the credential entry goes only when it has expired itself. *)
Sweep_KeepsSessions ==
  /\ pc[Sweeper] = "idle"
  /\ cached # None
  /\ stale \/ ~Alive(cached)
  /\ cached' = None
  /\ victim' = [victim EXCEPT ![Sweeper] = cached]
  /\ pc'     = [pc EXCEPT ![Sweeper] = "close"]
  /\ UNCHANGED <<row, creds, stale, conn, leader, got, back, valid, born>>
Sweep ==
  /\ pc[Sweeper] = "idle"
  /\ cached # None
  /\ stale \/ ~Alive(cached)
  /\ TakeOut(Sweeper, "idle")
  /\ UNCHANGED <<row, creds, conn, leader, got, born>>

----------------------------------------------------------------------------
Goto(p, l) == pc' = [pc EXCEPT ![p] = l]

(* Session -> Get -> clusterCredentials: the cache is read under mu, ... *)
Session(p) ==
  /\ pc[p] = "idle"
  /\ Goto(p, IF creds THEN "connect" ELSE "row")
  /\ UNCHANGED <<row, creds, cached, stale, conn, leader, victim, back, reqVars>>

(* ... on a miss the row is read from the database ... *)
ReadRow(p) ==
  /\ pc[p] = "row"
  /\ Goto(p, IF row THEN "store" ELSE "idle")
  /\ UNCHANGED <<row, creds, cached, stale, conn, leader, victim, back, reqVars>>

(* ... and put into the cache under mu. *)
StoreCreds(p) ==
  /\ pc[p] = "store"
  /\ creds' = TRUE
  /\ Goto(p, "connect")
  /\ UNCHANGED <<row, cached, stale, conn, leader, victim, back, reqVars>>

(* The cache check that connect makes before the flight and again inside it: *)
(* a fresh live client goes to hit, a fresh dead one is evicted first.       *)
CheckCache(p, hit, dead, miss) ==
  /\ Goto(p, IF cached = None \/ stale THEN miss ELSE IF Alive(cached) THEN hit ELSE dead)
  /\ got' = [got EXCEPT ![p] = IF cached # None /\ ~stale /\ Alive(cached) THEN cached ELSE None]
  /\ UNCHANGED <<row, creds, cached, stale, conn, leader, victim, back, valid, born>>

Connect(p) == pc[p] = "connect" /\ CheckCache(p, "probe", "evict", "flight")
EvictDead(p) == pc[p] = "evict" /\ Evict(p, "flight") /\ UNCHANGED got

(* dial.Do: the first caller runs the function, later ones wait for it. *)
EnterFlight(p) ==
  /\ pc[p] = "flight"
  /\ leader' = IF leader = None THEN p ELSE leader
  /\ Goto(p, IF leader = None THEN "recheck" ELSE "join")
  /\ UNCHANGED <<row, creds, cached, stale, conn, victim, back, reqVars>>

Recheck(p) == pc[p] = "recheck" /\ CheckCache(p, "finish", "evictDial", "dial")
EvictInFlight(p) == pc[p] = "evictDial" /\ Evict(p, "dial") /\ UNCHANGED got

(* ConnectCluster: a new connection, or an error. *)
Dial(p) ==
  /\ pc[p] = "dial"
  /\ \/ \E c \in Client :
          /\ conn[c] = "free"
          /\ conn' = [conn EXCEPT ![c] = "up"]
          /\ got'  = [got EXCEPT ![p] = c]
          /\ Goto(p, "install")
     \/ /\ got' = [got EXCEPT ![p] = None]
        /\ Goto(p, "finish")
        /\ UNCHANGED conn
  /\ UNCHANGED <<row, creds, cached, stale, leader, victim, back, valid, born>>

(* The new client replaces an expired entry, whose client is then closed. *)
Install_LosesOld(p) ==
  /\ pc[p] = "install"
  /\ cached' = got[p]
  /\ stale'  = FALSE
  /\ valid'  = IF cached = None THEN valid ELSE {}
  /\ Goto(p, "finish")
  /\ UNCHANGED <<row, creds, conn, leader, got, victim, back, born>>
Install(p) ==
  /\ pc[p] = "install"
  /\ cached' = got[p]
  /\ stale'  = FALSE
  /\ valid'  = IF cached = None THEN valid ELSE {}
  /\ victim' = [victim EXCEPT ![p] = cached]
  /\ back'   = [back EXCEPT ![p] = IF cached = None THEN @ ELSE "finish"]
  /\ Goto(p, IF cached = None THEN "finish" ELSE "close")
  /\ UNCHANGED <<row, creds, conn, leader, got, born>>

(* The flight ends: the leader and everyone who joined get its result. *)
Finish_ForgetsWaiters(p) ==
  /\ pc[p] = "finish"
  /\ leader' = None
  /\ pc' = [pc EXCEPT ![p] = IF got[p] = None THEN "idle" ELSE "probe"]
  /\ UNCHANGED <<row, creds, cached, stale, conn, victim, back, reqVars>>
Finish(p) ==
  /\ pc[p] = "finish"
  /\ leader' = None
  /\ LET sharing == {p} \cup {q \in Proc : pc[q] = "join"}
     IN  /\ pc'  = [t \in Thread |-> IF t \notin sharing THEN pc[t]
                                     ELSE IF got[p] = None THEN "idle" ELSE "probe"]
         /\ got' = [q \in Proc |-> IF q \in sharing THEN got[p] ELSE got[q]]
  /\ UNCHANGED <<row, creds, cached, stale, conn, victim, back, valid, born>>

(* probeOnAcquire: a dead client, or one whose AccountInfo hangs, is         *)
(* unhealthy.  Whether the probe runs at all depends on the clock.           *)
Probe(p) ==
  /\ pc[p] = "probe"
  /\ \/ Alive(got[p]) /\ Goto(p, "session")
     \/ Goto(p, "unhealthy")
  /\ UNCHANGED <<row, creds, cached, stale, conn, leader, victim, back, reqVars>>

Unhealthy(p) ==
  /\ pc[p] = "unhealthy"
  /\ Evict(p, "idle")
  /\ got' = [got EXCEPT ![p] = None]

(* Touch and newSession: the session gets the generation of this moment. *)
NewSession(p) ==
  /\ pc[p] = "session"
  /\ Goto(p, "held")
  /\ stale' = FALSE
  /\ valid' = valid \cup {p}
  /\ born'  = IF got[p] = cached THEN born \cup {p} ELSE born \ {p}
  /\ UNCHANGED <<row, creds, cached, conn, leader, got, victim, back>>

(* Session.Client touches the cache entry while the generation matches. *)
UseSession(p) ==
  /\ pc[p] = "held"
  /\ p \in valid
  /\ stale' = FALSE
  /\ UNCHANGED <<row, creds, cached, conn, leader, pc, got, victim, back, valid, born>>

(* The request ends: by Session.Close, or with ErrSessionInvalidated. *)
EndSession(p) ==
  /\ pc[p] = "held"
  /\ Goto(p, "idle")
  /\ valid' = valid \ {p}
  /\ born'  = born \ {p}
  /\ got'   = [got EXCEPT ![p] = None]
  /\ UNCHANGED <<row, creds, cached, stale, conn, leader, victim, back>>

(* ClusterService.Delete: delete the row, then Evict. *)
DeleteRow(p) ==
  /\ pc[p] = "idle"
  /\ row
  /\ row' = FALSE
  /\ Goto(p, "drop")
  /\ UNCHANGED <<creds, cached, stale, conn, leader, victim, back, reqVars>>
DeleteEvict(p) == pc[p] = "drop" /\ Evict(p, "deleted") /\ UNCHANGED got

----------------------------------------------------------------------------
(* Time and network. *)
ExpireEntry ==
  /\ cached # None /\ ~stale
  /\ stale' = TRUE
  /\ UNCHANGED <<row, creds, cached, conn, leader, pc, victim, back, reqVars>>

ExpireCreds ==
  /\ creds
  /\ creds' = FALSE
  /\ UNCHANGED <<row, cached, stale, conn, leader, pc, victim, back, reqVars>>

Disconnect(c) ==
  /\ conn[c] = "up"
  /\ conn' = [conn EXCEPT ![c] = "down"]
  /\ UNCHANGED <<row, creds, cached, stale, leader, pc, victim, back, reqVars>>

Reconnect(c) ==
  /\ conn[c] = "down"
  /\ conn' = [conn EXCEPT ![c] = "up"]
  /\ UNCHANGED <<row, creds, cached, stale, leader, pc, victim, back, reqVars>>

(* MaxReconnect is reached: nats.go closes the connection itself. *)
GiveUp(c) ==
  /\ conn[c] = "down"
  /\ conn' = [conn EXCEPT ![c] = "closed"]
  /\ pc'   = [pc EXCEPT ![c] = "onClosed"]
  /\ UNCHANGED <<row, creds, cached, stale, leader, victim, back, reqVars>>

----------------------------------------------------------------------------
RequestStep(p) ==
  \/ ReadRow(p) \/ StoreCreds(p) \/ Connect(p) \/ EvictDead(p)
  \/ EnterFlight(p) \/ Recheck(p) \/ EvictInFlight(p) \/ Dial(p) \/ Install(p) \/ Finish(p)
  \/ Probe(p) \/ Unhealthy(p) \/ NewSession(p) \/ DeleteEvict(p)
  \/ Close(p)
CallbackStep(c) == OnClosed(c) \/ Close(c)
SweeperStep == Sweep \/ Close(Sweeper)

Next ==
  \/ \E p \in Proc :
       Session(p) \/ RequestStep(p) \/ UseSession(p) \/ EndSession(p) \/ DeleteRow(p)
  \/ \E c \in Client : CallbackStep(c) \/ Disconnect(c) \/ Reconnect(c) \/ GiveUp(c)
  \/ SweeperStep
  \/ ExpireEntry
  \/ ExpireCreds

Spec == Init /\ [][Next]_vars

(* Goroutines that can run do run; every call they make returns, a dial by   *)
(* ConnectTimeout and a probe by HealthCheckTimeout.                         *)
Fairness ==
  /\ \A p \in Proc : WF_vars(RequestStep(p))
  /\ \A c \in Client : WF_vars(CallbackStep(c))
  /\ WF_vars(SweeperStep)

FairSpec == Spec /\ Fairness

----------------------------------------------------------------------------
(* The variables keep their types, and a goroutine about to call Close holds *)
(* a client.                                                                 *)
TypeOK ==
  /\ row \in BOOLEAN /\ creds \in BOOLEAN /\ stale \in BOOLEAN
  /\ cached \in Client \cup {None}
  /\ conn   \in [Client -> {"free", "up", "down", "closed"}]
  /\ leader \in Proc \cup {None}
  /\ pc     \in [Thread -> PC]
  /\ got    \in [Proc -> Client \cup {None}]
  /\ victim \in [Thread -> Client \cup {None}]
  /\ back   \in [Thread -> PC]
  /\ valid \subseteq Proc /\ born \subseteq Proc
  /\ \A t \in Thread : pc[t] = "close" => victim[t] \in Client

(* No connection leaks: one that is not closed is in the cache, about to be  *)
(* installed by the dial that made it, or about to be closed.                *)
NoConnectionLeak ==
  \A c \in Client :
    conn[c] \in {"up", "down"} =>
      \/ cached = c
      \/ \E p \in Proc : pc[p] = "install" /\ got[p] = c
      \/ \E t \in Thread : pc[t] = "close" /\ victim[t] = c

(* "Evict and the sweeper invalidate outstanding sessions": a session made   *)
(* on the cached client passes ensureValid only while it is still cached.    *)
SessionTracksCache ==
  \A p \in Proc : pc[p] = "held" /\ p \in valid /\ p \in born => cached = got[p]

(* ClusterService.Delete "drops cached client + credentials": once it has    *)
(* returned, the deleted cluster has neither.                                *)
DeletedStaysDropped ==
  (\E p \in Proc : pc[p] = "deleted") => cached = None /\ ~creds

(* Every Session call returns, with a session or an error, also when it     *)
(* waits for another goroutine's dial.                                      *)
SessionReturns ==
  \A p \in Proc : pc[p] \notin {"idle", "held", "deleted"} ~> pc[p] \in {"idle", "held", "deleted"}
=============================================================================

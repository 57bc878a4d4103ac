--------------------------- MODULE ClusterRegistry ---------------------------
(***************************************************************************)
(* The table of clusters (internal/repo/clusters.go): consoles that start  *)
(* on one database and register the default cluster                        *)
(* (BootstrapDefaultCluster), tooling that registers further ones, the     *)
(* delete requests (ops/clusters.go, app/cluster.go), and the health probe *)
(* that looks for the default (app/health.go).  POST and PUT of a cluster  *)
(* are refused, and nothing calls UpdateCluster, so a row changes its      *)
(* default flag only when another default is created.                      *)
(*                                                                         *)
(* Postgres runs at READ COMMITTED: a transaction's UPDATE sees the rows   *)
(* committed so far and locks them, and its changes show at the commit.    *)
(***************************************************************************)
EXTENDS Naturals, FiniteSets

CONSTANTS RegId,     \* cluster ids; the bound on registrations
          Console,   \* consoles that start
          Deleter    \* delete requests

VARIABLES clusters,  \* id -> "free", "plain", "default" or "deleted"
          creating,  \* console or tool -> the transaction under way
          boot,      \* console -> "off", "create" or "serving"
          delete     \* request -> progress

regVars == <<clusters, creating, boot, delete>>

Tool == "tool"
ASSUME ToolIsNoConsole == Tool \notin Console

NoTx == [open |-> FALSE]
Row(c) == clusters[c] \in {"plain", "default"}
Default == {c \in RegId : clusters[c] = "default"}
CountClusters == Cardinality({c \in RegId : Row(c)})

RegInit ==
  /\ clusters = [c \in RegId |-> "free"]
  /\ creating = [x \in Console \cup {Tool} |-> NoTx]
  /\ boot = [x \in Console |-> "off"]
  /\ delete = [d \in Deleter |-> [pc |-> "idle"]]

Locked(c) == \E x \in DOMAIN creating : creating[x].open /\ c \in creating[x].cleared

-----------------------------------------------------------------------------
\* CreateCluster up to the commit: a new default clears the flag of the others, waiting for the
\* rows another transaction has locked.
CreateCluster(x, isDefault) ==
  /\ ~creating[x].open
  /\ isDefault => \A c \in RegId : ~Locked(c)
  /\ creating' = [creating EXCEPT ![x] =
       [open |-> TRUE, isDefault |-> isDefault,
        cleared |-> IF isDefault THEN {c \in RegId : Row(c)} ELSE {}]]

\* The insert and the commit.
Commit(x) ==
  /\ creating[x].open
  /\ \E new \in RegId :
       /\ clusters[new] = "free"
       /\ clusters' = [c \in RegId |->
            CASE c = new -> IF creating[x].isDefault THEN "default" ELSE "plain"
              [] Row(c) /\ c \in creating[x].cleared -> "plain"
              [] OTHER -> clusters[c]]
  /\ creating' = [creating EXCEPT ![x] = NoTx]
  /\ boot' = [y \in Console |-> IF y = x THEN "serving" ELSE boot[y]]
  /\ UNCHANGED delete

\* The insert fails (or the process dies): the transaction is rolled back, and a console whose
\* bootstrap failed exits.
Rollback(x) ==
  /\ creating[x].open
  /\ creating' = [creating EXCEPT ![x] = NoTx]
  /\ boot' = [y \in Console |-> IF y = x THEN "off" ELSE boot[y]]
  /\ UNCHANGED <<clusters, delete>>

\* BootstrapDefaultCluster of a starting console: only an empty table gets the default.
BootstrapDefaultCluster(x) ==
  /\ boot[x] = "off"
  /\ boot' = [boot EXCEPT ![x] = IF CountClusters > 0 THEN "serving" ELSE "create"]
  /\ UNCHANGED <<clusters, creating, delete>>

BootstrapCreate(x) ==
  /\ boot[x] = "create"
  /\ CreateCluster(x, TRUE)
  /\ UNCHANGED <<clusters, boot, delete>>

RestartConsole(x) ==
  /\ boot[x] = "serving"
  /\ boot' = [boot EXCEPT ![x] = "off"]
  /\ UNCHANGED <<clusters, creating, delete>>

\* Tooling beside the console registers a cluster, as the default or not; with a plain one first,
\* the consoles that start later find a table that is not empty and serve without a default.
Register ==
  /\ \E isDefault \in BOOLEAN : CreateCluster(Tool, isDefault)
  /\ UNCHANGED <<clusters, boot, delete>>

-----------------------------------------------------------------------------
Proceed(d, next) == delete' = [delete EXCEPT ![d] = next]

\* ClusterService.Delete: the row is read, a default is refused, ...
GetCluster_AnyRow(d) ==
  /\ delete[d].pc = "idle"
  /\ \E c \in RegId : Row(c) /\ Proceed(d, [pc |-> "count", id |-> c])
  /\ UNCHANGED <<clusters, creating, boot>>
GetCluster(d) ==
  /\ delete[d].pc = "idle"
  /\ \E c \in RegId : Row(c) /\ c \notin Default /\ Proceed(d, [pc |-> "count", id |-> c])
  /\ UNCHANGED <<clusters, creating, boot>>

\* ... the rows are counted, the last is kept, ...
Count(d) ==
  /\ delete[d].pc = "count"
  /\ Proceed(d, IF CountClusters <= 1 THEN [pc |-> "idle"] ELSE [delete[d] EXCEPT !.pc = "delete"])
  /\ UNCHANGED <<clusters, creating, boot>>

\* ... and the row is deleted, once no transaction has it locked; it may be gone already.
DeleteCluster(d) ==
  LET c == delete[d].id
  IN  /\ delete[d].pc = "delete"
      /\ ~Locked(c)
      /\ clusters' = [clusters EXCEPT ![c] = "deleted"]
      /\ Proceed(d, [pc |-> "idle"])
      /\ UNCHANGED <<creating, boot>>

-----------------------------------------------------------------------------
RegNext ==
  \/ \E x \in Console : BootstrapDefaultCluster(x) \/ BootstrapCreate(x) \/ RestartConsole(x)
  \/ \E x \in Console \cup {Tool} : Commit(x) \/ Rollback(x)
  \/ Register
  \/ \E d \in Deleter : GetCluster(d) \/ Count(d) \/ DeleteCluster(d)

RegSpec == RegInit /\ [][RegNext]_regVars

\* HealthService.Check, what it may answer for the default cluster.  A lookup that fails, for
\* whatever reason, is "unknown" like one that finds no default; without a default nothing else is.
NATSDefaultCluster == {"unknown"} \cup (IF Default = {} THEN {} ELSE {"ok", "error"})

-----------------------------------------------------------------------------
\* The type invariant; a console has a transaction open only while it bootstraps.
RegTypeOK ==
  /\ clusters \in [RegId -> {"free", "plain", "default", "deleted"}]
  /\ boot \in [Console -> {"off", "create", "serving"}]
  /\ \A x \in Console : creating[x].open => boot[x] = "create"
  /\ \A x \in DOMAIN creating : creating[x].open =>
       creating[x].isDefault \in BOOLEAN /\ creating[x].cleared \subseteq RegId
  /\ \A d \in Deleter : delete[d].pc # "idle" => delete[d].id \in RegId

\* A deployment that can be ready stays so: once there is a default cluster, no step takes the last
\* default away, and with it the "ok" of every later health probe, although a delete checks the flag
\* and the count in statements of their own, and deletes, starts and registrations race
\* (ClusterService.Delete, BootstrapDefaultCluster, CreateCluster, HealthService.Check).
DefaultStays == [][ "ok" \in NATSDefaultCluster => "ok" \in NATSDefaultCluster' ]_regVars
=============================================================================

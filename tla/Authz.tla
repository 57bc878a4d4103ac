------------------------------- MODULE Authz -------------------------------
(***************************************************************************)
(* Who may do what: the pure decisions of internal/domain/authz.go and     *)
(* permissions.go, the listing filters of internal/api/apikit/rbac.go and  *)
(* the request gate of internal/api/middleware.                            *)
(*                                                                         *)
(* A user is a record: roles (a set), root, rules (None, or the access     *)
(* rules), grants (a set).  A grant's key is the tuple the code joins with *)
(* ':': <<cluster>>, <<cluster, account>> or <<cluster, account, user>>.   *)
(* The tuples are exact because cluster ids are UUIDs and account names    *)
(* may not contain ':' (ValidateAccountName), so a textual prefix ending   *)
(* in ':' is a prefix of the tuple.                                        *)
(***************************************************************************)
EXTENDS Naturals, Sequences, FiniteSets

CONSTANT None

Role == {"admin", "operator", "viewer"}
ResourceType == {"system", "account", "nats_user"}
GrantRole == {"admin", "observer", "credential_downloader"}

ASSUME NoneIsNoRole == None \notin Role

HasRole(roles, role) == role \in roles

HighestRole(roles) ==
  CASE "admin" \in roles -> "admin"
    [] "operator" \in roles /\ "admin" \notin roles -> "operator"
    [] roles = {"viewer"} -> "viewer"
    [] OTHER -> None

-----------------------------------------------------------------------------
(* Access rules and the permissions derived from them.                     *)

ValidateAccessRules(rules) ==
  \/ rules = None
  \/ /\ rules.clusterIDs # {}
     /\ rules.assignableRoles \subseteq Role
     /\ rules.manageUsers => rules.assignableRoles # {}

FullPermissions ==
  [clusterIDs |-> {}, assignableRoles |-> Role, isRoot |-> TRUE, allClusters |-> TRUE,
   manageUsers |-> TRUE, viewAudit |-> TRUE, deleteClusters |-> TRUE]

PermissionsFor(user) ==
  CASE user.root -> FullPermissions
    [] ~user.root /\ HasRole(user.roles, "admin") /\ user.rules = None ->
         [FullPermissions EXCEPT !.isRoot = FALSE]
    [] OTHER ->
         LET rules == IF user.rules # None THEN user.rules
                      ELSE [clusterIDs |-> {}, assignableRoles |-> {}, manageUsers |-> FALSE,
                            viewAudit |-> FALSE, deleteClusters |-> FALSE]
         IN  [clusterIDs |-> rules.clusterIDs, assignableRoles |-> rules.assignableRoles,
              isRoot |-> FALSE, allClusters |-> FALSE, manageUsers |-> rules.manageUsers,
              viewAudit |-> rules.viewAudit, deleteClusters |-> rules.deleteClusters]

AllowsCluster(p, c) == p.isRoot \/ p.allClusters \/ c \in p.clusterIDs

AllowsRole(p, role) == p.isRoot \/ HasRole(p.assignableRoles, role)

AllowsRoles(p, roles) == \A role \in roles : AllowsRole(p, role)

\* Everything other allows, as far as SupersetOf and CanAssignAccessRules compare it.
Covers(p, other) ==
  /\ other.manageUsers => p.manageUsers
  /\ other.viewAudit => p.viewAudit
  /\ other.deleteClusters => p.deleteClusters
  /\ \A c \in other.clusterIDs : AllowsCluster(p, c)
  /\ AllowsRoles(p, other.assignableRoles)

CanAssignAccessRules(p, rules) == p.isRoot \/ (rules # None /\ Covers(p, rules))

SupersetOf(p, other) == p.isRoot \/ Covers(p, other)

-----------------------------------------------------------------------------
(* Decisions on the user alone.                                            *)

IsLegacyFullAdmin(user) == HighestRole(user.roles) = "admin" /\ user.rules = None

AllowsClusterRules(user, c) ==
  \/ user.root \/ IsLegacyFullAdmin(user)
  \/ user.rules # None /\ c \in user.rules.clusterIDs

CanWrite(user) == user.root \/ HighestRole(user.roles) \in {"admin", "operator"}

CanDeleteCluster(user) ==
  user.root \/ IsLegacyFullAdmin(user) \/ (user.rules # None /\ user.rules.deleteClusters)

CanManageUsers(user) ==
  user.root \/ IsLegacyFullAdmin(user) \/ (user.rules # None /\ user.rules.manageUsers)

CanViewAudit(user) ==
  user.root \/ IsLegacyFullAdmin(user) \/ (user.rules # None /\ user.rules.viewAudit)

CanViewProfiling(user) == user.root \/ HighestRole(user.roles) = "admin"

CanManageAlertRules(user) ==
  user.root \/ HighestRole(user.roles) = "admin" \/ CanManageUsers(user)

-----------------------------------------------------------------------------
(* Decisions on a cluster, an account or a NATS user.                      *)

AccountResourceKey(c, account) == <<c, account>>
NATSUserResourceKey(c, account, natsUser) == <<c, account, natsUser>>

HasAdminOrObserverGrant(user, type, key) ==
  \E g \in user.grants : g.type = type /\ g.key = key

HasAdminGrant(user, type, key) ==
  \E g \in user.grants : g.type = type /\ g.key = key /\ g.role = "admin"

CanAccessCluster(user, c) ==
  AllowsClusterRules(user, c) \/ HasAdminOrObserverGrant(user, "system", <<c>>)

CanAccessClusterOrAccount(user, c) ==
  \/ CanAccessCluster(user, c)
  \/ \E g \in user.grants : g.type \in {"account", "nats_user"} /\ g.key[1] = c

NATSUserGrantCoversAccount(key, c, account) ==
  Len(key) = 3 /\ key[1] = c /\ key[2] = account

CanAccessAccount_NoUserGrant(user, c, account) ==
  \/ CanAccessCluster(user, c)
  \/ HasAdminOrObserverGrant(user, "account", AccountResourceKey(c, account))
CanAccessAccount(user, c, account) ==
  \/ CanAccessCluster(user, c)
  \/ \E g \in user.grants :
       \/ g.type = "account" /\ g.key = AccountResourceKey(c, account)
       \/ g.type = "nats_user" /\ NATSUserGrantCoversAccount(g.key, c, account)

CanWriteCluster(user, c) ==
  \/ user.root
  \/ HasAdminGrant(user, "system", <<c>>)
  \/ CanWrite(user) /\ AllowsClusterRules(user, c)

CanManageJetStream(user, c) ==
  \/ user.root
  \/ HasAdminGrant(user, "system", <<c>>)
  \/ HighestRole(user.roles) = "admin" /\ AllowsClusterRules(user, c)

CanManageJetStreamAccount(user, c, account) ==
  CanManageJetStream(user, c) \/ HasAdminGrant(user, "account", AccountResourceKey(c, account))

\* natsUser is None where the code passes an empty id.
CanDownloadCreds(user, c, account, natsUser) ==
  \/ user.root
  \/ HasAdminGrant(user, "system", <<c>>)
  \/ \E g \in user.grants :
       /\ g.role \in {"admin", "credential_downloader"}
       /\ \/ g.type = "account" /\ g.key = AccountResourceKey(c, account)
          \/ /\ g.type = "nats_user" /\ natsUser # None
             /\ g.key = NATSUserResourceKey(c, account, natsUser)
  \/ HighestRole(user.roles) = "admin" /\ AllowsClusterRules(user, c)

CanManageSystemAccess(user, c) ==
  \/ user.root
  \/ HasAdminGrant(user, "system", <<c>>)
  \/ CanManageUsers(user) /\ CanAccessCluster(user, c)

CanManageAccountAccess(user, c, account) ==
  CanManageSystemAccess(user, c) \/ HasAdminGrant(user, "account", AccountResourceKey(c, account))

CanMintAdminGrant(user, type, key) ==
  user.root \/ IsLegacyFullAdmin(user) \/ HasAdminGrant(user, type, key)

\* Can dispatches an action name; policy.go and auth/permissions.go only forward to the same
\* functions.  res is a record [type, key, cluster, account, natsUser].
Can(user, action, res) ==
  CASE action = "write" -> CanWrite(user)
    [] action = "delete_cluster" -> CanDeleteCluster(user)
    [] action = "manage_users" -> CanManageUsers(user)
    [] action = "view_audit" -> CanViewAudit(user)
    [] action = "view_profiling" -> CanViewProfiling(user)
    [] action = "manage_alert_rules" -> CanManageAlertRules(user)
    [] action = "access_cluster" -> CanAccessCluster(user, res.cluster)
    [] action = "access_cluster_or_account" -> CanAccessClusterOrAccount(user, res.cluster)
    [] action = "access_account" -> CanAccessAccount(user, res.cluster, res.account)
    [] action = "write_cluster" -> CanWriteCluster(user, res.cluster)
    [] action = "manage_jetstream" -> CanManageJetStream(user, res.cluster)
    [] action = "manage_jetstream_account" ->
         CanManageJetStreamAccount(user, res.cluster, res.account)
    [] action = "download_creds" ->
         CanDownloadCreds(user, res.cluster, res.account, res.natsUser)
    [] action = "manage_system_access" -> CanManageSystemAccess(user, res.cluster)
    [] action = "manage_account_access" -> CanManageAccountAccess(user, res.cluster, res.account)
    [] action = "mint_admin_grant" -> CanMintAdminGrant(user, res.type, res.key)
    [] OTHER -> FALSE

-----------------------------------------------------------------------------
(* Listing filters.                                                        *)

ShouldFilterClusters(p) == ~p.isRoot /\ ~p.allClusters

AllowsClusterWithGrants(user, c) ==
  \/ AllowsCluster(PermissionsFor(user), c)
  \/ \E g \in user.grants :
       \/ g.type = "system" /\ g.key = <<c>>
       \/ g.type \in {"account", "nats_user"} /\ g.key[1] = c

FilterClustersForActor(clusters, user) ==
  IF ShouldFilterClusters(PermissionsFor(user))
  THEN {c \in clusters : AllowsClusterWithGrants(user, c)}
  ELSE clusters

\* ListClusters: the URLs of a cluster are shown only to a user with access to the cluster
\* itself, not to one account of it.
RedactClusterURLs(user, c) == [id |-> c, urls |-> CanAccessCluster(user, c)]
ListClusters(clusters, user) == {RedactClusterURLs(user, c) : c \in FilterClustersForActor(clusters, user)}
ListClusterConnections(clusters, user) == FilterClustersForActor(clusters, user)

ClusterIDsForActor(user) ==
  PermissionsFor(user).clusterIDs \cup {g.key[1] : g \in user.grants}

\* The audit entries a user may list: those of the clusters returned.  cluster is None when
\* the query names none; a refused query lists nothing.
AuditFilterForActor(clusters, user, cluster) ==
  IF cluster # None
  THEN IF AllowsClusterWithGrants(user, cluster) THEN {cluster} ELSE {}
  ELSE IF ShouldFilterClusters(PermissionsFor(user))
       THEN ClusterIDsForActor(user) \cap clusters
       ELSE clusters

-----------------------------------------------------------------------------
(* The alert feed and its rules.  A rule whose cluster is None is for all   *)
(* clusters.                                                               *)

\* The clusters a user's feed is narrowed to; None when it is not.
AccessibleClusterIDs(user) ==
  LET p == PermissionsFor(user)
  IN  IF p.isRoot \/ p.allClusters THEN None
      ELSE p.clusterIDs \cup {g.key[1] : g \in user.grants}

\* List without a cluster and OpenSummary: the clusters whose alerts they show.
AlertFeed(clusters, user) ==
  LET ids == AccessibleClusterIDs(user)
  IN  IF ids = None THEN clusters ELSE clusters \cap ids

\* Get, Acknowledge, and List with a cluster.
CanSeeAlert(user, cluster) == CanAccessClusterOrAccount(user, cluster)

CanManageGlobalAlertRules(user) == AccessibleClusterIDs(user) = None

CanAccessAlertRuleCluster(user, cluster) ==
  IF cluster = None THEN CanManageGlobalAlertRules(user) ELSE CanAccessCluster(user, cluster)

\* ListRules, of rules given by their cluster.
FilterAlertRulesForActor(rules, user) ==
  IF CanManageGlobalAlertRules(user) THEN rules
  ELSE {c \in rules : CanAccessAlertRuleCluster(user, c)}

\* GetRule, CreateRule, DeleteRule, and UpdateRule of a rule that keeps its cluster.
CanOpenAlertRule(user, cluster) ==
  CanManageAlertRules(user) /\ CanAccessAlertRuleCluster(user, cluster)

\* UpdateRule of a rule of cluster from that moves it to cluster to.
CanMoveAlertRule(user, from, to) ==
  /\ CanOpenAlertRule(user, from)
  /\ IF to = None THEN CanManageGlobalAlertRules(user) ELSE CanAccessCluster(user, to)

-----------------------------------------------------------------------------
(* The gate in front of every handler.  A path is [area, cluster, seg]:    *)
(* cluster is None when the path names no cluster.                         *)

AccountScopedSegments ==
  {"", "connection", "access", "accounts", "nats-users", "subject-permissions",
   "signing-groups", "sharing"}

JetStreamSegments ==
  {"streams", "kv", "objects", "request-reply", "zombies", "subject-naming", "event-genome",
   "event-catalog", "event-wikipedia", "incident-capsules"}

CanReadClusterPath(user, path) ==
  IF path.seg \in AccountScopedSegments
  THEN CanAccessClusterOrAccount(user, path.cluster)
  ELSE CanAccessCluster(user, path.cluster)

CanMutateClusterPath(user, path) ==
  IF path.seg \in AccountScopedSegments
  THEN CanAccessClusterOrAccount(user, path.cluster)
  ELSE /\ CanAccessCluster(user, path.cluster)
       /\ IF path.seg \in JetStreamSegments
          THEN CanManageJetStream(user, path.cluster)
          ELSE CanWriteCluster(user, path.cluster)

\* VerifyRBAC: method is "read" (GET, HEAD, OPTIONS), "delete" or "write".
VerifyRBAC(user, path, method) ==
  /\ path.area = "admin" => user.root
  /\ IF method = "read"
     THEN /\ path.area = "audit" => CanViewAudit(user)
          /\ path.area = "users" => CanManageUsers(user)
          /\ path.area = "alert-rules" => CanManageAlertRules(user)
          /\ path.area = "pprof" => CanViewProfiling(user)
          /\ path.cluster # None => CanReadClusterPath(user, path)
     ELSE \/ path.area = "acknowledge" /\ method = "write"
          \/ /\ method = "delete" /\ path.area = "clusters" /\ path.seg = "" =>
                  CanDeleteCluster(user)
             /\ IF path.cluster # None THEN CanMutateClusterPath(user, path)
                ELSE IF path.area = "alert-rules" THEN CanManageAlertRules(user)
                ELSE CanWrite(user)
             /\ path.area = "users" => CanManageUsers(user)
             /\ path.area = "audit" => CanViewAudit(user)
=============================================================================

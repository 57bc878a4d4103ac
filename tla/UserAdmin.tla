----------------------------- MODULE UserAdmin -----------------------------
(***************************************************************************)
(* Users, roles, access rules, grants and invites: the handlers of         *)
(* internal/api/users_handlers.go and access_handlers.go over              *)
(* internal/app/users.go and internal/repo/users.go, access_grants.go, and *)
(* the seeding of the root user (internal/auth/auth.go).                   *)
(*                                                                         *)
(* A request is a process.  It authenticates (the actor is read fresh: see *)
(* requiresFreshAuthz), reads, decides and then commits; every database    *)
(* statement or transaction is one step, so two requests, or two replicas  *)
(* seeding the same database, interleave between them.  After a commit the *)
(* handler calls Auth.InvalidateUser; changed holds the users whose stored *)
(* row changed and whose version has not been bumped since.                *)
(***************************************************************************)
EXTENDS Authz

CONSTANTS UserId,       \* ids; a deleted id is never used again (newID)
          Req,          \* concurrent requests and booting replicas
          Token,        \* invite tokens; unguessable, so one per invite
          RolesIn,      \* role lists a request may carry
          RulesIn,      \* access rules a request may carry, None included
          GrantIn,      \* grants a request may name
          AdminName,    \* names the replicas' configuration gives the administrator
          Keep,         \* a field an update leaves out
          StoredUsers   \* databases a behaviour may start from

\* A stored database obeys the index idx_users_single_root; None is no row.
Invite == [user : UserId, expired : BOOLEAN, accepted : BOOLEAN]
InvitableCluster == UNION {x.clusterIDs : x \in RulesIn \ {None}}
Row == [root : BOOLEAN, env : AdminName \cup {None}, roles : SUBSET Role,
        rules : RulesIn \cup
          [clusterIDs : SUBSET InvitableCluster, assignableRoles : {{"viewer"}},
           manageUsers : {FALSE}, viewAudit : {FALSE}, deleteClusters : {FALSE}],
        grants : SUBSET GrantIn]
ASSUME UsersConstants ==
  /\ None \in RulesIn /\ None \notin Row \cup Invite
  /\ StoredUsers \subseteq [UserId -> {None} \cup Row]
  /\ \A stored \in StoredUsers, u, v \in UserId :
       stored[u] # None /\ stored[u].root /\ stored[v] # None /\ stored[v].root => u = v

VARIABLES users,     \* id -> None or the row with its roles and grants
          usedIds,   \* ids ever handed out
          invites,   \* token -> None or [user, expired, accepted]
          changed,   \* users changed since their version was last bumped
          req        \* request -> its progress

usersVars == <<users, usedIds, invites, changed, req>>

Idle == [pc |-> "idle"]
Done == [pc |-> "done"]

Exists(u) == users[u] # None
HasRootUser == \E u \in UserId : Exists(u) /\ users[u].root
EnvAdminExists(name) == \E u \in UserId : Exists(u) /\ users[u].env = name
NewRow(root, env, roles, rules) ==
  [root |-> root, env |-> env, roles |-> roles, rules |-> rules, grants |-> {}]

UsersInit ==
  /\ users \in StoredUsers
  /\ usedIds = {u \in UserId : users[u] # None}
  /\ invites \in [Token -> {None} \cup
       {[user |-> u, expired |-> FALSE, accepted |-> FALSE] :
          u \in {v \in UserId : users[v] # None /\ ~users[v].root}}]
  /\ changed = {}
  /\ req = [r \in Req |-> Idle]

Go(r, next) == req' = [req EXCEPT ![r] = next]
Stop(r) == Go(r, Done)

\* A statement after the commit fails, and the request never bumps the version for everybody.
Fails(r) == Go(r, [pc |-> "failed", target |-> req[r].target])

-----------------------------------------------------------------------------
(* The root user: SeedAdmin at boot, ensureEnvAdminUser at a login with    *)
(* the configured credentials when that username is not stored.            *)

SeedAdmin(r) ==
  /\ req[r].pc = "idle"
  /\ \E n \in AdminName :
       IF \E u \in UserId : Exists(u) THEN Stop(r)
       ELSE Go(r, [pc |-> "hasRoot", op |-> "seed", name |-> n])
  /\ UNCHANGED <<users, usedIds, invites, changed>>

AuthenticateEnvAdmin(r) ==
  /\ req[r].pc = "idle"
  /\ \E n \in AdminName :
       ~EnvAdminExists(n) /\ Go(r, [pc |-> "hasRoot", op |-> "env", name |-> n])
  /\ UNCHANGED <<users, usedIds, invites, changed>>

CheckRoot(r) ==
  /\ req[r].pc = "hasRoot"
  /\ CASE ~HasRootUser -> Go(r, [req[r] EXCEPT !.pc = "insertRoot"])
       [] HasRootUser /\ req[r].op = "env" -> Go(r, [req[r] EXCEPT !.pc = "insertPlain"])
       [] OTHER -> Stop(r)
  /\ UNCHANGED <<users, usedIds, invites, changed>>

\* The unique username and the partial unique index idx_users_single_root.
RowConflicts_NoRootIndex(row) == row.env # None /\ EnvAdminExists(row.env)
RowConflicts(row) ==
  (row.env # None /\ EnvAdminExists(row.env)) \/ (row.root /\ HasRootUser)

\* The insert and its roles are one transaction; a conflict changes nothing, and the env
\* login then re-reads the row that won.
InsertUser(r, row, next) ==
  /\ IF RowConflicts(row)
     THEN Stop(r) /\ UNCHANGED <<users, usedIds>>
     ELSE \E u \in UserId \ usedIds :
            /\ users' = [users EXCEPT ![u] = row]
            /\ usedIds' = usedIds \cup {u}
            /\ Go(r, IF next.pc = "done" THEN next ELSE [next EXCEPT !.target = u])
  /\ UNCHANGED <<invites, changed>>

InsertRoot(r) ==
  /\ req[r].pc = "insertRoot"
  /\ InsertUser(r, NewRow(TRUE, req[r].name, {"admin"}, None), Done)

InsertPlain(r) ==
  /\ req[r].pc = "insertPlain"
  /\ InsertUser(r, NewRow(FALSE, req[r].name, {"admin"}, None), Done)

-----------------------------------------------------------------------------
(* UsersHandler.Create and AccessHandler.InvitePerson.                     *)

ValidateRoles(roles) == roles # {} /\ roles \subseteq Role

CreateAllowed(actor, roles, rules) ==
  LET p == PermissionsFor(actor)
  IN  /\ p.manageUsers
      /\ ValidateRoles(roles)
      /\ IF rules = None THEN p.isRoot /\ HasRole(roles, "admin")
         ELSE ValidateAccessRules(rules)
      /\ ~p.isRoot => AllowsRoles(p, roles) /\ CanAssignAccessRules(p, rules)

\* The rules of an invited person: the clusters named, or the actor's own, and viewer.
InviteRules(actor, clusters) ==
  [clusterIDs |-> IF clusters # {} THEN clusters
                  ELSE IF actor.rules # None THEN actor.rules.clusterIDs ELSE {},
   assignableRoles |-> {"viewer"}, manageUsers |-> FALSE, viewAudit |-> FALSE,
   deleteClusters |-> FALSE]

BeginCreate(r) ==
  /\ req[r].pc = "idle"
  /\ \E a \in UserId, roles \in RolesIn, rules \in RulesIn :
       /\ Exists(a)
       /\ IF CreateAllowed(users[a], roles, rules)
          THEN Go(r, [pc |-> "insert", by |-> users[a],
                      row |-> NewRow(FALSE, None, roles, rules), invited |-> FALSE])
          ELSE Stop(r)
  /\ UNCHANGED <<users, usedIds, invites, changed>>

InvitePerson(r) ==
  /\ req[r].pc = "idle"
  /\ \E a \in UserId, roles \in RolesIn,
        clusters \in {{}} \cup {x.clusterIDs : x \in RulesIn \ {None}} :
       /\ Exists(a)
       /\ LET rules == InviteRules(users[a], clusters)
          IN  IF /\ CanManageUsers(users[a])
                 /\ rules.clusterIDs # {}
                 /\ CreateAllowed(users[a], roles, rules)
              THEN Go(r, [pc |-> "insert", by |-> users[a],
                          row |-> NewRow(FALSE, None, roles, rules), invited |-> TRUE])
              ELSE Stop(r)
  /\ UNCHANGED <<users, usedIds, invites, changed>>

InsertCreated(r) ==
  /\ req[r].pc = "insert"
  /\ InsertUser(r, req[r].row,
                IF req[r].invited THEN [pc |-> "invite", target |-> None] ELSE Done)

\* A new token is one nothing refers to.
NewToken(t) ==
  invites[t] = None /\ \A q \in Req : req[q].pc = "accept" => req[q].token # t

\* A separate statement: the person exists whether or not it succeeds (the user may be gone).
CreateUserInvite(r) ==
  /\ req[r].pc = "invite"
  /\ \/ UNCHANGED invites
     \/ \E t \in Token :
          /\ NewToken(t) /\ Exists(req[r].target)
          /\ invites' = [invites EXCEPT ![t] =
                           [user |-> req[r].target, expired |-> FALSE, accepted |-> FALSE]]
  /\ Stop(r)
  /\ UNCHANGED <<users, usedIds, changed>>

-----------------------------------------------------------------------------
(* UsersHandler.Update, SetRoles and Delete.                               *)

AuthorizeUserMutation(actor, self, target) ==
  LET p == PermissionsFor(actor)
  IN  /\ target.root => actor.root
      /\ self => actor.root
      /\ p.manageUsers
      /\ p.isRoot \/ SupersetOf(p, PermissionsFor(target)) \/ self

\* roles or rules may be absent (Keep); a rules value of None clears them.
UpdateAllowed(p, roles, rules) ==
  /\ roles # Keep => ValidateRoles(roles) /\ AllowsRoles(p, roles)
  /\ rules # Keep => IF rules = None THEN p.isRoot
                       ELSE ValidateAccessRules(rules) /\ CanAssignAccessRules(p, rules)

\* What the three handlers share: the actor, read fresh, and a user id.
BeginMutation(r, op, refused(_, _)) ==
  /\ req[r].pc = "idle"
  /\ \E a \in UserId, u \in UserId :
       /\ Exists(a) /\ u \in usedIds
       /\ IF refused(a, u) THEN Stop(r)
          ELSE Go(r, [pc |-> "authorize", op |-> op, actor |-> users[a], self |-> a = u,
                      target |-> u])
  /\ UNCHANGED <<users, usedIds, invites, changed>>

UsersUpdate(r) == BeginMutation(r, "update", LAMBDA a, u : FALSE)
UsersSetRoles(r) == BeginMutation(r, "setRoles", LAMBDA a, u : FALSE)
UsersDelete(r) == BeginMutation(r, "delete", LAMBDA a, u : a = u)

\* UserService: the target is read and the change weighed against it.  SetRoles is Update with
\* nothing but roles; an update may also carry rules, or neither (email, password).
Authorize(r) ==
  LET q == req[r]
      Write(roles, rules) ==
        IF UpdateAllowed(PermissionsFor(q.actor), roles, rules)
        THEN Go(r, [pc |-> "write", target |-> q.target, roles |-> roles, rules |-> rules])
        ELSE Stop(r)
  IN  /\ q.pc = "authorize"
      /\ IF Exists(q.target) /\ AuthorizeUserMutation(q.actor, q.self, users[q.target])
         THEN \/ q.op = "delete" /\ Go(r, [pc |-> "delete", target |-> q.target])
              \/ q.op = "setRoles" /\ \E x \in RolesIn : Write(x, Keep)
              \/ /\ q.op = "update"
                 /\ \E x \in RolesIn \cup {Keep}, y \in RulesIn \cup {Keep} : Write(x, y)
         ELSE Stop(r)
      /\ UNCHANGED <<users, usedIds, invites, changed>>

\* UpdateUser: one transaction of statements by id (a missing row is not an error), then
\* GetUserByID.  If that fails, or the row is gone, the request answers with the error and the
\* handler returns before the invalidation.
UpdateUser(r) ==
  LET q == req[r]
      row == users[q.target]
  IN  /\ q.pc = "write"
      /\ IF ~Exists(q.target) THEN Stop(r) /\ UNCHANGED <<users, changed>>
         ELSE /\ users' = [users EXCEPT ![q.target] =
                   [row EXCEPT !.roles = IF q.roles = Keep THEN row.roles ELSE q.roles,
                               !.rules = IF q.rules = Keep THEN row.rules ELSE q.rules]]
              /\ changed' = changed \cup {q.target}
              /\ Go(r, [pc |-> "reread", target |-> q.target])
      /\ UNCHANGED <<usedIds, invites>>

Reread_Forgets(r) ==
  /\ req[r].pc = "reread"
  /\ Stop(r)
  /\ UNCHANGED <<users, usedIds, invites, changed>>
Reread(r) ==
  /\ req[r].pc = "reread"
  /\ \/ Exists(req[r].target) /\ Go(r, [pc |-> "invalidate", target |-> req[r].target])
     \/ ~Exists(req[r].target) /\ Stop(r)
     \/ Fails(r)
  /\ UNCHANGED <<users, usedIds, invites, changed>>

\* DeleteUser reads the row again, and the statement itself spares the root user; grants and
\* invites go with the row (ON DELETE CASCADE).
DeleteUser(r) ==
  LET u == req[r].target
  IN  /\ req[r].pc = "delete"
      /\ IF ~Exists(u) \/ users[u].root
         THEN Stop(r) /\ UNCHANGED <<users, invites, changed>>
         ELSE /\ users' = [users EXCEPT ![u] = None]
              /\ invites' = [t \in Token |->
                   IF invites[t] # None /\ invites[t].user = u THEN None ELSE invites[t]]
              /\ changed' = changed \cup {u}
              /\ Go(r, [pc |-> "invalidate", target |-> u])
      /\ UNCHANGED <<usedIds>>

\* Auth.InvalidateUser: the caches and the version are modelled in UserCache.  When the bump
\* cannot be stored BumpUserVersion counts for its own replica only, and the request succeeds.
Invalidate(r) ==
  /\ req[r].pc = "invalidate"
  /\ \/ changed' = changed \ {req[r].target} /\ Stop(r)
     \/ Fails(r) /\ UNCHANGED changed
  /\ UNCHANGED <<users, usedIds, invites>>

-----------------------------------------------------------------------------
(* Grants: upsertResourceAccess and deleteResourceAccess.                  *)

CanManage(actor, type, key) ==
  CASE type = "system" -> CanManageSystemAccess(actor, key[1])
    [] type = "account" -> CanManageAccountAccess(actor, key[1], key[2])
    [] OTHER -> CanManageUsers(actor) \/ actor.root

ValidateGrant(g) ==
  /\ g.type \in ResourceType /\ g.role \in GrantRole
  /\ g.role = "credential_downloader" => g.type \in {"account", "nats_user"}

UpsertAllowed(actor, g) ==
  /\ CanManage(actor, g.type, g.key)
  /\ g.role = "admin" => CanMintAdminGrant(actor, g.type, g.key)
  /\ ValidateGrant(g)

\* The grants a route can name: the whole system for one route, an account for the other.
BeginUpsert(r, type) ==
  /\ req[r].pc = "idle"
  /\ \E a \in UserId, u \in UserId, g \in {h \in GrantIn : h.type = type} :
       /\ Exists(a) /\ u \in usedIds
       /\ IF UpsertAllowed(users[a], g) THEN Go(r, [pc |-> "upsert", target |-> u, grant |-> g])
          ELSE Stop(r)
  /\ UNCHANGED <<users, usedIds, invites, changed>>

BeginRevoke(r, type) ==
  /\ req[r].pc = "idle"
  /\ \E a \in UserId, u \in UserId, g \in {h \in GrantIn : h.type = type} :
       /\ Exists(a) /\ u \in usedIds
       /\ IF CanManage(users[a], type, g.key) THEN Go(r, [pc |-> "revoke", target |-> u, grant |-> g])
          ELSE Stop(r)
  /\ UNCHANGED <<users, usedIds, invites, changed>>

SystemAccess(r) == BeginUpsert(r, "system") \/ BeginRevoke(r, "system")
AccountAccess(r) == BeginUpsert(r, "account") \/ BeginRevoke(r, "account")

SameResource(g, h) == g.type = h.type /\ g.key = h.key

\* INSERT ... ON CONFLICT (user, type, key) DO UPDATE SET role; the foreign key refuses a user
\* that is gone.  deleteResourceAccess removes the grant on exactly that resource.
ChangeGrant(r) ==
  LET q == req[r]
      kept == {g \in users[q.target].grants : ~SameResource(g, q.grant)}
      new == IF q.pc = "upsert" THEN kept \cup {q.grant} ELSE kept
  IN  /\ q.pc \in {"upsert", "revoke"}
      /\ IF ~Exists(q.target) \/ (q.pc = "revoke" /\ kept = users[q.target].grants)
         THEN Stop(r) /\ UNCHANGED <<users, changed>>
         ELSE /\ users' = [users EXCEPT ![q.target].grants = new]
              /\ changed' = changed \cup {q.target}
              /\ Go(r, [pc |-> "invalidate", target |-> q.target])
      /\ UNCHANGED <<usedIds, invites>>

-----------------------------------------------------------------------------
(* AcceptInvite: the read and the checks, a slow password hash, then one   *)
(* transaction that marks the invite and sets the password.                *)

GetInvite(r) ==
  /\ req[r].pc = "idle"
  /\ \E t \in Token :
       IF invites[t] = None \/ (invites[t] # None /\ (invites[t].accepted \/ invites[t].expired))
       THEN Stop(r)
       ELSE Go(r, [pc |-> "accept", token |-> t, target |-> invites[t].user])
  /\ UNCHANGED <<users, usedIds, invites, changed>>

\* WHERE token = $1 AND accepted_at IS NULL AND expires_at > now
Acceptable(t) == invites[t] # None /\ ~invites[t].accepted /\ ~invites[t].expired

AcceptUserInvite(r) ==
  LET t == req[r].token
  IN  /\ req[r].pc = "accept"
      /\ IF ~Acceptable(t) THEN Stop(r) /\ UNCHANGED <<invites, changed>>
         ELSE /\ invites' = [invites EXCEPT ![t].accepted = TRUE]
              /\ changed' = changed \cup {req[r].target}
              /\ Go(r, [pc |-> "reread", target |-> req[r].target])
      /\ UNCHANGED <<users, usedIds>>

ExpireInvite(t) ==
  /\ invites[t] # None /\ ~invites[t].expired
  /\ invites' = [invites EXCEPT ![t].expired = TRUE]
  /\ UNCHANGED <<users, usedIds, changed, req>>

UsersNext ==
  \/ \E r \in Req :
       \/ SeedAdmin(r) \/ AuthenticateEnvAdmin(r) \/ CheckRoot(r)
       \/ InsertRoot(r) \/ InsertPlain(r)
       \/ BeginCreate(r) \/ InvitePerson(r) \/ InsertCreated(r) \/ CreateUserInvite(r)
       \/ UsersUpdate(r) \/ UsersSetRoles(r) \/ UsersDelete(r)
       \/ Authorize(r) \/ UpdateUser(r) \/ Reread(r) \/ DeleteUser(r)
       \/ Invalidate(r) \/ SystemAccess(r) \/ AccountAccess(r) \/ ChangeGrant(r)
       \/ GetInvite(r) \/ AcceptUserInvite(r)
  \/ \E t \in Token : ExpireInvite(t)

UsersSpec == UsersInit /\ [][UsersNext]_usersVars
-----------------------------------------------------------------------------
ClusterId == InvitableCluster \cup {g.key[1] : g \in GrantIn}

\* A grant names a cluster, an account of one or a NATS user of that (AccountResourceKey,
\* NATSUserResourceKey); the empty string is no cluster, and nil no list of them.
ASSUME GrantConstants ==
  /\ \A g \in GrantIn :
       \/ g.type = "system" /\ g.key = <<g.key[1]>>
       \/ g.type = "account" /\ g.key = <<g.key[1], g.key[2]>>
       \/ g.type = "nats_user" /\ g.key = <<g.key[1], g.key[2], g.key[3]>>
  /\ None \notin ClusterId /\ \A ids \in SUBSET ClusterId : ids # None

\* The type invariant; a root row is always the seeded or configured administrator.
UsersTypeOK ==
  /\ users \in [UserId -> {None} \cup Row]
  /\ {u \in UserId : Exists(u)} \subseteq usedIds
  /\ \A t \in Token : invites[t] # None => Exists(invites[t].user)
  /\ changed \subseteq usedIds

\* Two replicas that boot, or log their configured administrator in, at the same time and
\* perhaps under different names (ADMIN_USERNAME being changed in a rolling restart) never
\* leave two root users, although HasRootUser and the insert are separate statements
\* (repo/users.go CreateUser, idx_users_single_root).
OneRoot == Cardinality({u \in UserId : Exists(u) /\ users[u].root}) <= 1

\* A committed change to a user is never forgotten: some request is still going to bump that
\* user's version, however updates, accepted invites and deletions of the user interleave,
\* unless the database failed a request on that user after its commit (the InvalidateUser calls
\* of users_handlers.go and access_handlers.go).
ChangeIsInvalidated ==
  \A u \in changed :
    \E r \in Req : req[r].pc \in {"reread", "invalidate", "failed"} /\ req[r].target = u

ClusterPath(c, seg) == [area |-> "clusters", cluster |-> c, seg |-> seg]

\* Separate pieces of code agree: the clusters ListClusters shows, those whose bare path
\* VerifyRBAC lets the user read, those whose audit entries an unfiltered audit query returns,
\* and those whose alerts are in the feed, each of which the user may open; it shows the URLs of
\* the clusters whose streams the user may read; and ListRules shows the rules GetRule opens,
\* which are the ones a rule can be moved among.
ListedIffReachable(user) ==
  LET shown  == ListClusters(ClusterId, user)
      listed == {s.id : s \in shown}
      reads(c, seg) == VerifyRBAC(user, ClusterPath(c, seg), "read")
      rules  == ClusterId \cup {None}
      opened == {c \in rules : CanOpenAlertRule(user, c)}
  IN  /\ listed = {c \in ClusterId : reads(c, "")}
      /\ {s.id : s \in {x \in shown : x.urls}} = {c \in ClusterId : reads(c, "streams")}
      /\ ListClusterConnections(ClusterId, user) = {c \in ClusterId : reads(c, "connection")}
      /\ listed = AuditFilterForActor(ClusterId, user, None)
      /\ listed = AlertFeed(ClusterId, user)
      /\ listed = {c \in ClusterId : CanSeeAlert(user, c)}
      /\ CanManageAlertRules(user) => opened = FilterAlertRulesForActor(rules, user)
      /\ \A from, to \in rules : CanMoveAlertRule(user, from, to) <=> {from, to} \subseteq opened

Resource(g) ==
  [type |-> g.type, key |-> g.key, cluster |-> g.key[1],
   account |-> IF Len(g.key) > 1 THEN g.key[2] ELSE None,
   natsUser |-> IF Len(g.key) > 2 THEN g.key[3] ELSE None]

\* No capability without access: whoever may write a cluster may read it, whoever may manage
\* an account or fetch its credentials may open the account, and the gate in front of the
\* handlers lets every such request through (domain.Can against VerifyRBAC).
CapabilityHasAccess(user, g) ==
  LET may(a) == Can(user, a, Resource(g))
      gate(seg, m) == VerifyRBAC(user, ClusterPath(g.key[1], seg), m)
  IN  /\ may("write_cluster") \/ may("manage_jetstream") => may("access_cluster")
      /\ may("manage_account_access") \/ may("download_creds") =>
           may("access_account") /\ gate("accounts", "read") /\ gate("access", "write")
      /\ may("manage_jetstream") => gate("streams", "write")
      /\ may("access_account") => may("access_cluster_or_account")

\* What decides who sees and who may do what is written several times, and the versions agree
\* for every stored user: the listings with the gates, the capabilities with the access they
\* imply (domain/authz.go, apikit/rbac.go, alerts_handlers.go).
GatesAgree ==
  \A u \in UserId : Exists(u) =>
    ListedIffReachable(users[u]) /\ \A g \in GrantIn : CapabilityHasAccess(users[u], g)
=============================================================================

---------------------------- MODULE NatsAccounts ---------------------------
(***************************************************************************)
(* NATS users, their credentials and their signing groups in one account   *)
(* of one cluster, and the encryption of what the console stores           *)
(* (internal/api/accounts, internal/repo/nats_account.go, nats_jwt.go,     *)
(* signing_groups.go, encryption_rotate.go, internal/crypto,               *)
(* internal/subjectauth, internal/api/admin_handlers.go).                  *)
(*                                                                         *)
(* A step is one statement, or one transaction where the code opens one.   *)
(* A request ends at the first statement that fails, and keeps what it has *)
(* already written.  Key pairs are numbers, new ones larger; subject lists *)
(* are one value of Perms.                                                 *)
(***************************************************************************)
EXTENDS Authz

CONSTANTS
  Person,      \* console users
  PersonBase,  \* their roles, rules and other grants, as a user record
  NUser,       \* ids for NATS users
  GroupName, DefaultGroup,
  ExportName, ExportBody, \* names within a kind, and subject with description
  Perms,       \* non-empty subject lists
  Unrestricted,
  ClusterOf, AccountOf,  \* the cluster and the account
  TokenCluster, \* clusters registered with a token
  EncKey,      \* values of ENCRYPTION_KEY
  NProc,
  MaxKey       \* bound: key pairs made for a NATS user

\* A row of nats_account_users.
JWT == [key : 1 .. MaxKey, perms : Perms \cup {Unrestricted}]
NRow == [group : GroupName, own : Perms \cup {None}, key : 1 .. MaxKey, seedKey : EncKey,
         jwt : JWT, assigned : Person \cup {None}]

ASSUME NatsAccountConstants ==
  /\ DefaultGroup \in GroupName
  /\ None \notin Person \cup NUser \cup Perms \cup EncKey \cup NRow
  /\ Unrestricted \notin Perms
  /\ MaxKey \in Nat \ {0}
  /\ \A who \in Person :
       LET user == PersonBase[who]
       IN  user = [root |-> user.root, rules |-> user.rules, roles |-> user.roles,
                   grants |-> user.grants]

VARIABLES
  nusers,   \* nats_account_users: None or its row
  groups,   \* nats_signing_groups: None or [scoped, perms]
  shares,   \* nats_user grants made by Assign: <<person, NATS user>>
  exports,  \* nats_account_exports: None or what the export says
  tokens,   \* clusters.token: the key it is encrypted with
  active,   \* ENCRYPTION_KEY of the running console
  promised, \* the key the last rotation told the administrator to restart with
  unsettled, \* history: NATS users two requests wrote at once, or one left half written
  nproc

nVars == <<nusers, groups, shares, exports, tokens, active, promised, unsettled, nproc>>
NIdle == [pc |-> "idle"]

-----------------------------------------------------------------------------
\* The person as the handlers see it: with the grants of the access_grants table.
UserOf(who) ==
  [PersonBase[who] EXCEPT !.grants = @ \cup
     {[type |-> "nats_user", key |-> NATSUserResourceKey(ClusterOf, AccountOf, s[2]),
       role |-> "credential_downloader"] : s \in {x \in shares : x[1] = who}}]

RequireAccountAccess(who) == CanAccessAccount(UserOf(who), ClusterOf, AccountOf)
RequireManageAccountAccess(who) == CanManageAccountAccess(UserOf(who), ClusterOf, AccountOf)
RequireMutateAccountAccess(who) ==
  /\ RequireAccountAccess(who)
  /\ RequireManageAccountAccess(who) \/ CanWriteCluster(UserOf(who), ClusterOf)
RequireDownloadCreds(who, n) ==
  RequireAccountAccess(who) /\ CanDownloadCreds(UserOf(who), ClusterOf, AccountOf, n)

CanListAllAccountNATSUsers(who) ==
  \/ CanAccessCluster(UserOf(who), ClusterOf)
  \/ \E g \in UserOf(who).grants :
       g.type = "account" /\ g.key = AccountResourceKey(ClusterOf, AccountOf)

GrantedNATSUserIDs(who) ==
  {n \in NUser : \E g \in UserOf(who).grants :
     g.type = "nats_user" /\ g.key = NATSUserResourceKey(ClusterOf, AccountOf, n)}

CanViewNATSUser(who, n) == CanListAllAccountNATSUsers(who) \/ n \in GrantedNATSUserIDs(who)

\* ListUsers, GetUser and SubjectPermissions all show these.
VisibleUsers(who) ==
  {n \in NUser : nusers[n] # None /\ RequireAccountAccess(who) /\ CanViewNATSUser(who, n)}

\* The user's own lists win; else those of a scoped group; a missing group restricts nothing.
ResolveEffectivePerms(own, group) ==
  IF own # None THEN own
  ELSE IF group # None /\ group.scoped THEN group.perms ELSE Unrestricted

\* mintUserJWT: the claims name the key pair and carry the permissions.
MintUserJWT(row, key) ==
  [key |-> key, perms |-> ResolveEffectivePerms(row.own, groups[row.group])]

-----------------------------------------------------------------------------
NInit ==
  /\ nusers = [n \in NUser |-> None]
  /\ groups = [g \in GroupName |-> None]
  /\ shares = {} /\ unsettled = {}
  /\ exports = [e \in ExportName |-> None]
  /\ active \in EncKey
  /\ tokens = [t \in TokenCluster |-> active]
  /\ promised = active
  /\ nproc = [p \in NProc |-> NIdle]

NGo(p, next) == nproc' = [nproc EXCEPT ![p] = next]

\* Two requests that write the credentials of n overlap.
Races(p, n) ==
  \E q \in NProc \ {p} : nproc[q].pc # "idle" /\ "n" \in DOMAIN nproc[q] /\ nproc[q].n = n

Writing(p, n) == unsettled' = IF Races(p, n) THEN unsettled \cup {n} ELSE unsettled

-----------------------------------------------------------------------------
\* INSERT ... ON CONFLICT DO NOTHING.
EnsureDefaultSigningGroup ==
  groups' = [groups EXCEPT ![DefaultGroup] =
               IF @ = None THEN [scoped |-> FALSE, perms |-> Unrestricted] ELSE @]

\* A configuration once normalised: absent lists are empty (None), absent limits are none at
\* all; any group name is accepted.
Config == [group : GroupName, own : Perms \cup {None}]

\* CreateUser, under an id nothing refers to: the default group, then the key pair, the JWT
\* and the insert.
CreateNATSUser(p) ==
  /\ nproc[p].pc = "idle"
  /\ \E who \in Person, n \in NUser, c \in Config :
       /\ RequireMutateAccountAccess(who)
       /\ nusers[n] = None /\ ~Races(p, n) /\ \A s \in shares : s[2] # n
       /\ NGo(p, [pc |-> "insert", n |-> n, group |-> c.group, own |-> c.own])
       /\ unsettled' = unsettled \ {n}
  /\ EnsureDefaultSigningGroup
  /\ UNCHANGED <<nusers, shares, exports, tokens, active, promised>>

InsertNATSUser(p) ==
  LET q == nproc[p]
      row == [group |-> q.group, own |-> q.own, key |-> 1, seedKey |-> active,
              jwt |-> None, assigned |-> None]
  IN  /\ q.pc = "insert"
      /\ nusers[q.n] = None
      /\ nusers' = [nusers EXCEPT ![q.n] = [row EXCEPT !.jwt = MintUserJWT(row, 1)]]
      /\ NGo(p, NIdle)
      /\ UNCHANGED <<groups, shares, exports, tokens, active, promised, unsettled>>

\* decryptToken of the seed: only under the key it was encrypted with.
SeedReadable(n) == nusers[n].seedKey = active

\* What a JWT is minted from.
Minted(row) == [group |-> row.group, own |-> row.own, key |-> row.key]

\* GetNATSAccountUserCreds: the stored JWT beside the decrypted seed.
DownloadCreds(who, n) == nusers[n] # None /\ RequireDownloadCreds(who, n) /\ SeedReadable(n)

\* What UpdateUser, RotateUser and MintJWT do first: read the row, and the seed unless they
\* replace it.
BeginWrite(p, n, next) ==
  /\ nproc[p].pc = "idle"
  /\ nusers[n] # None
  /\ NGo(p, next)
  /\ Writing(p, n)
  /\ UNCHANGED <<nusers, groups, shares, exports, tokens, active, promised>>

BeginUpdate(p) ==
  \E who \in Person, n \in NUser :
    /\ RequireMutateAccountAccess(who)
    /\ nusers[n] # None /\ SeedReadable(n)
    /\ BeginWrite(p, n, [pc |-> "update", n |-> n, key |-> nusers[n].key])

BeginRotate(p) ==
  \E who \in Person, n \in NUser :
    /\ RequireMutateAccountAccess(who)
    /\ nusers[n] # None
    /\ BeginWrite(p, n, [pc |-> "rotate", n |-> n, row |-> Minted(nusers[n])])

MintJWT(p) ==
  \E who \in Person, n \in NUser :
    /\ DownloadCreds(who, n)
    /\ BeginWrite(p, n, [pc |-> "mint", n |-> n, row |-> Minted(nusers[n])])

\* UpdateUser, UPDATE and the second read.
UpdateRow(p) ==
  LET q == nproc[p]
  IN  /\ q.pc = "update"
      /\ \E c \in Config :
           LET row == [nusers[q.n] EXCEPT !.group = c.group, !.own = c.own]
           IN  IF nusers[q.n] = None THEN NGo(p, NIdle) /\ UNCHANGED nusers
               ELSE /\ nusers' = [nusers EXCEPT ![q.n] = row]
                    /\ NGo(p, [pc |-> "mint", n |-> q.n,
                                row |-> [Minted(row) EXCEPT !.key = q.key]])
      /\ UNCHANGED <<groups, shares, exports, tokens, active, promised, unsettled>>

\* The JWT for the seed read at the start.
StoreJWT(p) ==
  LET q == nproc[p]
  IN  /\ q.pc = "mint"
      /\ nusers' = IF nusers[q.n] = None THEN nusers
                   ELSE [nusers EXCEPT ![q.n].jwt = MintUserJWT(q.row, q.row.key)]
      /\ NGo(p, NIdle)
      /\ UNCHANGED <<groups, shares, exports, tokens, active, promised, unsettled>>

\* RotateUser: a new key pair and its JWT in one UPDATE.
RotateKey_KeepsJWT(p) ==
  LET n == nproc[p].n
  IN  /\ nproc[p].pc = "rotate"
      /\ nusers[n] # None /\ nusers[n].key < MaxKey
      /\ nusers' = [nusers EXCEPT ![n].key = @ + 1, ![n].seedKey = active]
      /\ NGo(p, NIdle)
      /\ UNCHANGED <<groups, shares, exports, tokens, active, promised, unsettled>>
RotateKey(p) ==
  LET q == nproc[p]
      n == q.n
  IN  /\ q.pc = "rotate"
      /\ nusers[n] # None => nusers[n].key < MaxKey
      /\ nusers' = IF nusers[n] = None THEN nusers
                   ELSE [nusers EXCEPT ![n].key = @ + 1, ![n].seedKey = active,
                                       ![n].jwt = MintUserJWT(q.row, nusers[n].key + 1)]
      /\ NGo(p, NIdle)
      /\ UNCHANGED <<groups, shares, exports, tokens, active, promised, unsettled>>

\* AssignPerson: the handler and the repository each read the assignee, ...
BeginAssign(p) ==
  /\ nproc[p].pc = "idle"
  /\ \E who \in Person, n \in NUser, to \in Person \cup {None} :
       /\ RequireManageAccountAccess(who)
       /\ nusers[n] # None
       /\ NGo(p, [pc |-> "assignRead", n |-> n, to |-> to])
  /\ UNCHANGED <<nusers, groups, shares, exports, tokens, active, promised, unsettled>>

AssignRead(p) ==
  LET q == nproc[p]
  IN  /\ q.pc = "assignRead"
      /\ IF nusers[q.n] = None THEN NGo(p, NIdle)
         ELSE NGo(p, [pc |-> "assign", n |-> q.n, to |-> q.to,
                      prev |-> nusers[q.n].assigned])
      /\ UNCHANGED <<nusers, groups, shares, exports, tokens, active, promised, unsettled>>

\* The shares once n goes from prev to the person to.
Reassigned_RemovesLast(n, prev, to) ==
  (shares \cup (IF to # None THEN {<<to, n>>} ELSE {})) \ {<<prev, n>>}
Reassigned(n, prev, to) ==
  (shares \ (IF prev \notin {None, to} THEN {<<prev, n>>} ELSE {}))
    \cup (IF to # None THEN {<<to, n>>} ELSE {})

\* ... and one transaction moves the assignment and the grant.  The handlers then drop the
\* persons concerned from the user cache (InvalidateUser: see UserCache).
AssignTx(p) ==
  LET q == nproc[p]
  IN  /\ q.pc = "assign"
      /\ IF nusers[q.n] = None THEN UNCHANGED <<nusers, shares>>
         ELSE /\ nusers' = [nusers EXCEPT ![q.n].assigned = q.to]
              /\ shares' = Reassigned(q.n, q.prev, q.to)
      /\ NGo(p, NIdle)
      /\ UNCHANGED <<groups, exports, tokens, active, promised, unsettled>>

\* DeleteUser: one transaction removes the grants it finds, ...
BeginDelete(p) ==
  /\ nproc[p].pc = "idle"
  /\ \E who \in Person, n \in NUser :
       /\ RequireMutateAccountAccess(who)
       /\ nusers[n] # None
       /\ NGo(p, [pc |-> "delete", n |-> n, gone |-> {s \in shares : s[2] = n}])
       /\ Writing(p, n)
  /\ UNCHANGED <<nusers, groups, shares, exports, tokens, active, promised>>

\* ... then the row, whose lock an assignment may have held meanwhile; both show at commit.
DeleteRow(p) ==
  LET q == nproc[p]
  IN  /\ q.pc = "delete"
      /\ IF nusers[q.n] = None THEN UNCHANGED <<nusers, shares>>
         ELSE nusers' = [nusers EXCEPT ![q.n] = None] /\ shares' = shares \ q.gone
      /\ NGo(p, NIdle)
      /\ UNCHANGED <<groups, exports, tokens, active, promised, unsettled>>

-----------------------------------------------------------------------------
ListSigningGroups(p) ==
  /\ nproc[p].pc = "idle"
  /\ \E who \in Person : RequireAccountAccess(who)
  /\ EnsureDefaultSigningGroup
  /\ UNCHANGED <<nusers, shares, exports, tokens, active, promised, unsettled, nproc>>

StoreGroup(g, scoped, perms) == groups' = [groups EXCEPT ![g] = [scoped |-> scoped, perms |-> perms]]

\* UNIQUE (cluster, account, name).  A group of this name that a DeleteSigningGroup is still
\* about to delete had another id and is already gone: that statement will find nothing.
CreateSigningGroup(p) ==
  /\ nproc[p].pc = "idle"
  /\ \E who \in Person, g \in GroupName, scoped \in BOOLEAN, perms \in Perms :
       /\ RequireMutateAccountAccess(who)
       /\ groups[g] = None
       /\ StoreGroup(g, scoped, perms)
       /\ nproc' = [q \in NProc |-> IF nproc[q].pc = "dropGroup" /\ nproc[q].group = g
                                     THEN NIdle ELSE nproc[q]]
  /\ UNCHANGED <<nusers, shares, exports, tokens, active, promised, unsettled>>

\* One UPDATE by id; it leaves the JWTs minted from the group as they are.
UpdateSigningGroup(p) ==
  /\ nproc[p].pc = "idle"
  /\ \E who \in Person, g \in GroupName, scoped \in BOOLEAN, perms \in Perms :
       /\ RequireMutateAccountAccess(who)
       /\ groups[g] # None
       /\ StoreGroup(g, scoped, perms)
  /\ UNCHANGED <<nusers, shares, exports, tokens, active, promised, unsettled, nproc>>

\* DeleteSigningGroup: the protected name and the use by a NATS user are checked first.
InUse(g) == \E n \in NUser : nusers[n] # None /\ nusers[n].group = g

CheckGroup(p) ==
  /\ nproc[p].pc = "idle"
  /\ \E who \in Person, g \in GroupName \ {DefaultGroup} :
       /\ RequireMutateAccountAccess(who)
       /\ groups[g] # None /\ ~InUse(g)
       /\ NGo(p, [pc |-> "dropGroup", group |-> g])
  /\ UNCHANGED <<nusers, groups, shares, exports, tokens, active, promised, unsettled>>

DropGroup(p) ==
  /\ nproc[p].pc = "dropGroup"
  /\ groups' = [groups EXCEPT ![nproc[p].group] = None]
  /\ NGo(p, NIdle)
  /\ UNCHANGED <<nusers, shares, exports, tokens, active, promised, unsettled>>

\* Each handler of an export is one statement.
StoreExport(p, e, to) ==
  /\ nproc[p].pc = "idle"
  /\ \E who \in Person : RequireMutateAccountAccess(who)
  /\ exports' = [exports EXCEPT ![e] = to]
  /\ UNCHANGED <<nusers, groups, shares, tokens, active, promised, unsettled, nproc>>

\* UNIQUE (cluster, account, kind, name).
CreateExport(p) ==
  \E e \in ExportName, x \in ExportBody : exports[e] = None /\ StoreExport(p, e, x)

UpdateExport(p) ==
  \E e \in ExportName, x \in ExportBody : exports[e] # None /\ StoreExport(p, e, x)

DeleteExport(p) == \E e \in ExportName : exports[e] # None /\ StoreExport(p, e, None)

\* A statement fails, or the insert meets a row of that name.
FailRequest(p) ==
  /\ nproc[p].pc # "idle"
  /\ unsettled' = IF nproc[p].pc = "mint" THEN unsettled \cup {nproc[p].n} ELSE unsettled
  /\ NGo(p, NIdle)
  /\ UNCHANGED <<nusers, groups, shares, exports, tokens, active, promised>>

-----------------------------------------------------------------------------
\* decryptWithFallback: currentKey, then the key of the running console.
DecryptWithFallback(t, current) == tokens[t] \in {current, active}

\* RotateEncryptionKeys, for root: every token or none.  A dry run and a token neither key opens
\* roll it back, and so does a driver that refuses an UPDATE while the rows of the SELECT are
\* open; whether it does is left open here, and without a stored token it is not asked.
RotateEncryptionKeys ==
  \E who \in Person, current, new \in EncKey :
    /\ PersonBase[who].root
    /\ \A t \in TokenCluster : DecryptWithFallback(t, current)
    /\ tokens' = [t \in TokenCluster |-> new]
    /\ promised' = new
    /\ UNCHANGED <<nusers, groups, shares, exports, active, unsettled, nproc>>

\* The administrator restarts the console with the key the answer asked for; the requests in
\* flight and the caches are gone.
Restart ==
  /\ active # promised
  /\ active' = promised
  /\ nproc' = [p \in NProc |-> NIdle]
  /\ unsettled' = unsettled \cup {nproc[p].n : p \in {q \in NProc : nproc[q].pc = "mint"}}
  /\ UNCHANGED <<nusers, groups, shares, exports, tokens, promised>>

\* What creates, deletes or abandons; what touches credentials and groups; exports; and what
\* touches the assignment.
RowStep(p) ==
  CreateNATSUser(p) \/ InsertNATSUser(p) \/ BeginDelete(p) \/ DeleteRow(p) \/ FailRequest(p)
CredentialStep(p) ==
  \/ BeginUpdate(p) \/ BeginRotate(p) \/ MintJWT(p) \/ UpdateRow(p) \/ StoreJWT(p) \/ RotateKey(p)
  \/ ListSigningGroups(p) \/ CreateSigningGroup(p) \/ UpdateSigningGroup(p)
  \/ CheckGroup(p) \/ DropGroup(p)
ExportStep(p) == CreateExport(p) \/ UpdateExport(p) \/ DeleteExport(p)
AssignStep(p) == BeginAssign(p) \/ AssignRead(p) \/ AssignTx(p)

NNext ==
  \/ \E p \in NProc : RowStep(p) \/ CredentialStep(p) \/ ExportStep(p) \/ AssignStep(p)
  \/ RotateEncryptionKeys \/ Restart

NSpec == NInit /\ [][NNext]_nVars

-----------------------------------------------------------------------------
\* The type invariant.
NTypeOK ==
  /\ nusers \in [NUser -> {None} \cup NRow]
  /\ groups \in [GroupName -> {None} \cup [scoped : BOOLEAN, perms : Perms \cup {Unrestricted}]]
  /\ active \in EncKey /\ promised \in EncKey
  /\ shares \subseteq Person \X NUser
  /\ unsettled \subseteq NUser

\* Whoever a NATS user is assigned to holds the grant, and through it sees the NATS user and can
\* download its credentials while the console can read them at all, however assignments and
\* deletions interleave (AssignNATSAccountUserPerson, DeleteNATSAccountUser, DownloadCreds).
AssigneeHoldsGrant ==
  \A n \in NUser : nusers[n] # None /\ nusers[n].assigned # None =>
    LET who == nusers[n].assigned
    IN  /\ <<who, n>> \in shares
        /\ n \in VisibleUsers(who)
        /\ SeedReadable(n) => DownloadCreds(who, n)

\* Unless two requests rewrote it at once or one failed half way, a stored JWT names the key
\* pair whose seed is stored beside it and carries the permissions stored for the user
\* (CreateNATSUser, UpdateUser, RotateUser, MintJWT).
JWTMatchesRow ==
  \A n \in NUser \ unsettled : nusers[n] # None /\ (\A p \in NProc : nproc[p].pc # "mint") =>
    /\ nusers[n].jwt.key = nusers[n].key
    /\ nusers[n].own # None => nusers[n].jwt.perms = nusers[n].own

\* Credentials the console stored can be read back after the encryption key was rotated and the
\* console restarted with the key it asked for.
StoredCredentialsReadable ==
  /\ \A t \in TokenCluster : tokens[t] \in {active, promised}
  /\ \A n \in NUser : nusers[n] # None => nusers[n].seedKey \in {active, promised}
=============================================================================

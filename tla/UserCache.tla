----------------------------- MODULE UserCache -----------------------------
(***************************************************************************)
(* How a change of a user's roles, rules or grants reaches the requests of *)
(* that user on every replica: LoadUser, LoadUserForSession, LoadUserFresh *)
(* and InvalidateUser of internal/auth/auth.go over ttl_cache.go and       *)
(* user_cache.go, as VerifyAuth (internal/api/middleware/auth.go) uses     *)
(* them after the session has been parsed (Denylist).                      *)
(*                                                                         *)
(* Time passes in units of the five-second cache lifetime.  Nothing holds  *)
(* an absolute time: a cache entry has its remaining lifetime, a statement *)
(* result how long it has been carried (at most Slack), the last change    *)
(* its age, up to the age that matters.  The user's row is a generation    *)
(* number, its content; every change makes a new one, and the last one may *)
(* be the deletion.                                                        *)
(***************************************************************************)
EXTENDS Naturals, FiniteSets

CONSTANTS Replica, CProc, CToken,
          NoValue,     \* the absent value
          MaxGen,      \* bound on changes of the row
          Slack        \* longest time between a database read and its use

UserCacheTTL == 1
VersionCacheTTL == 1

\* The age after which a change must be seen everywhere.
Visible == UserCacheTTL + Slack + 1

ASSUME CacheConstants ==
  Slack \in Nat /\ MaxGen \in Nat /\ NoValue \notin [value : Nat, left : Nat]

VARIABLES rowGen,      \* generation of the stored row
          rowGone,     \* the row was deleted by the last change
          rowAge,      \* time since the last change, up to Visible
          dbVersion,   \* auth_user_versions
          sessions,      \* session -> NoValue or the version in its claims
          userCache, versionCache, localVersions,   \* per replica
          cproc        \* request -> progress

rowVars == <<rowGen, rowGone, rowAge>>
caches == <<userCache, versionCache, localVersions>>
cVars == <<rowVars, dbVersion, sessions, caches, cproc>>

CIdle == [pc |-> "idle"]

\* ttlCache: an entry is used until its lifetime has passed, and then is as if absent.
Entry(value, ttl) == [value |-> value, left |-> ttl]
Fresh(e) == e # NoValue
Age_Renews(e) == e
Age(e) == IF Fresh(e) /\ e.left > 0 THEN [e EXCEPT !.left = @ - 1] ELSE NoValue
Older(age, max) == IF age < max THEN age + 1 ELSE max

CInit ==
  /\ rowGen = 0 /\ rowGone = FALSE /\ rowAge = Visible /\ dbVersion = 1
  /\ sessions = [k \in CToken |-> NoValue]
  /\ userCache = [x \in Replica |-> NoValue]
  /\ versionCache = [x \in Replica |-> NoValue]
  /\ localVersions = [x \in Replica |-> 1]
  /\ cproc = [p \in CProc |-> CIdle]

CGo(p, next) == cproc' = [cproc EXCEPT ![p] = next]
Step(p, pc) == CGo(p, [cproc[p] EXCEPT !.pc = pc, !.at = 0, !.value = 0])

\* No statement's result is carried further than Slack, and answers leave at once.
CTick ==
  /\ \A p \in CProc : cproc[p].pc # "idle" => cproc[p].pc # "served" /\ cproc[p].at < Slack
  /\ cproc' = [p \in CProc |-> IF cproc[p].pc = "idle" THEN CIdle
                               ELSE [cproc[p] EXCEPT !.at = @ + 1]]
  /\ rowAge' = Older(rowAge, Visible)
  /\ userCache' = [x \in Replica |-> Age(userCache[x])]
  /\ versionCache' = [x \in Replica |-> Age(versionCache[x])]
  /\ UNCHANGED <<rowGen, rowGone, dbVersion, sessions, localVersions>>

-----------------------------------------------------------------------------
(* VerifyAuth, once Authenticate has accepted the session.                 *)

\* requiresFreshAuthz decides between the two loads.
VerifyAuth(p) ==
  /\ cproc[p].pc = "idle"
  /\ \E x \in Replica, k \in CToken, op \in {"load", "fresh"} :
       /\ sessions[k] # NoValue
       /\ CGo(p, [pc |-> op, at |-> 0, replica |-> x, token |-> k, value |-> 0])
  /\ UNCHANGED <<rowVars, dbVersion, sessions, caches>>

\* CurrentUserVersion: the cache, or the database, or this replica's own count when the
\* database does not answer.
ReadVersion(p) ==
  LET q == cproc[p]
      carry(pc, v) == CGo(p, [q EXCEPT !.pc = pc, !.at = 0, !.value = v])
  IN  /\ q.pc = "load"
      /\ IF Fresh(versionCache[q.replica]) THEN carry("match", versionCache[q.replica].value)
         ELSE carry("versionRead", dbVersion) \/ carry("match", localVersions[q.replica])
      /\ UNCHANGED <<rowVars, dbVersion, sessions, caches>>

StoreVersion(p) ==
  LET q == cproc[p]
  IN  /\ q.pc = "versionRead"
      /\ versionCache' = [versionCache EXCEPT ![q.replica] = Entry(q.value, VersionCacheTTL)]
      /\ CGo(p, [q EXCEPT !.pc = "match"])
      /\ UNCHANGED <<rowVars, dbVersion, sessions, userCache, localVersions>>

Serve(p, gen) == CGo(p, [pc |-> "served", gen |-> gen])

\* The token's version is current and the user is cached: no database read.
MatchVersion(p) ==
  LET q == cproc[p]
  IN  /\ q.pc = "match"
      /\ IF sessions[q.token] = q.value /\ Fresh(userCache[q.replica])
         THEN Serve(p, userCache[q.replica].value)
         ELSE Step(p, "readRow")
      /\ UNCHANGED <<rowVars, dbVersion, sessions, caches>>

\* LoadUserFresh drops this replica's entries before it reads.
DropCached(p) ==
  LET x == cproc[p].replica
  IN  /\ cproc[p].pc = "fresh"
      /\ userCache' = [userCache EXCEPT ![x] = NoValue]
      /\ versionCache' = [versionCache EXCEPT ![x] = NoValue]
      /\ Step(p, "readRow")
      /\ UNCHANGED <<rowVars, dbVersion, sessions, localVersions>>

\* A missing row is answered 401.
ReadRow(p) ==
  /\ cproc[p].pc = "readRow"
  /\ IF rowGone THEN CGo(p, CIdle)
     ELSE CGo(p, [cproc[p] EXCEPT !.pc = "rowRead", !.at = 0, !.value = rowGen])
  /\ UNCHANGED <<rowVars, dbVersion, sessions, caches>>

StoreUser(p) ==
  LET q == cproc[p]
  IN  /\ q.pc = "rowRead"
      /\ userCache' = [userCache EXCEPT ![q.replica] = Entry(q.value, UserCacheTTL)]
      /\ Serve(p, q.value)
      /\ UNCHANGED <<rowVars, dbVersion, sessions, versionCache, localVersions>>

Respond(p) ==
  /\ cproc[p].pc = "served"
  /\ CGo(p, CIdle)
  /\ UNCHANGED <<rowVars, dbVersion, sessions, caches>>

-----------------------------------------------------------------------------
(* A change of the user (UserAdmin) and InvalidateUser on the replica that *)
(* made it; CreateSession at a login or a rotation.                        *)

ChangeRow(p) ==
  /\ cproc[p].pc = "idle" /\ rowGen < MaxGen /\ ~rowGone
  /\ rowGen' = rowGen + 1
  /\ rowGone' \in BOOLEAN
  /\ rowAge' = 0
  /\ \E x \in Replica : CGo(p, [pc |-> "invalidate", at |-> 0, replica |-> x, value |-> 0])
  /\ UNCHANGED <<dbVersion, sessions, caches>>

InvalidateUser(p) ==
  LET x == cproc[p].replica
  IN  /\ cproc[p].pc = "invalidate"
      /\ userCache' = [userCache EXCEPT ![x] = NoValue]
      /\ versionCache' = [versionCache EXCEPT ![x] = NoValue]
      /\ Step(p, "bump")
      /\ UNCHANGED <<rowVars, dbVersion, sessions, localVersions>>

\* BumpUserVersion; when the database fails only this replica's count moves.
BumpUserVersion(p) ==
  LET x == cproc[p].replica
  IN  /\ cproc[p].pc = "bump"
      /\ \/ /\ dbVersion' = dbVersion + 1
            /\ versionCache' = [versionCache EXCEPT ![x] = Entry(dbVersion + 1, VersionCacheTTL)]
            /\ localVersions' = [localVersions EXCEPT ![x] = dbVersion + 1]
         \/ /\ localVersions' = [localVersions EXCEPT ![x] = @ + 1]
            /\ UNCHANGED <<dbVersion, versionCache>>
      /\ CGo(p, CIdle)
      /\ UNCHANGED <<rowVars, sessions, userCache>>

CreateSession(p) ==
  /\ cproc[p].pc = "idle" /\ ~rowGone
  /\ \E k \in CToken, x \in Replica :
       /\ sessions[k] = NoValue
       /\ IF Fresh(versionCache[x])
          THEN sessions' = [sessions EXCEPT ![k] = versionCache[x].value] /\ UNCHANGED versionCache
          ELSE /\ sessions' = [sessions EXCEPT ![k] = dbVersion]
               /\ versionCache' = [versionCache EXCEPT ![x] = Entry(dbVersion, VersionCacheTTL)]
  /\ UNCHANGED <<rowVars, dbVersion, userCache, localVersions, cproc>>

CNext ==
  \/ CTick
  \/ \E p \in CProc :
       \/ VerifyAuth(p) \/ ReadVersion(p) \/ StoreVersion(p) \/ MatchVersion(p) \/ DropCached(p)
       \/ ReadRow(p) \/ StoreUser(p) \/ Respond(p) \/ ChangeRow(p) \/ InvalidateUser(p)
       \/ BumpUserVersion(p) \/ CreateSession(p)

CSpec == CInit /\ [][CNext]_cVars

-----------------------------------------------------------------------------
\* The type invariant; no cache holds a generation or a version that is not yet stored, and no
\* session has one in its claims.
CTypeOK ==
  /\ rowGen \in 0 .. MaxGen /\ rowAge \in 0 .. Visible /\ dbVersion \in Nat \ {0}
  /\ \A k \in CToken : sessions[k] # NoValue => sessions[k] \in 1 .. dbVersion
  /\ \A x \in Replica :
       /\ Fresh(userCache[x]) => userCache[x].value <= rowGen
       /\ Fresh(versionCache[x]) => versionCache[x].value \in 1 .. dbVersion
       /\ localVersions[x] \in Nat \ {0}

\* A change of a user's roles, rules or grants is in force on every replica within one cache
\* lifetime and the time one load takes, whatever loads were in flight and whether or not the
\* version bump reached the database (LoadUserForSession, user_cache.go).
StaleBounded ==
  \A p \in CProc : cproc[p].pc = "served" /\ cproc[p].gen < rowGen => rowAge < Visible
=============================================================================

------------------------------ MODULE MCAccess -----------------------------
(* The access part of the console in one run: UserAdmin, NatsAccounts,      *)
(* UserCache, Denylist and RefreshTokens, each explored with the others at  *)
(* rest (part names the one that moves; the last three share no state with  *)
(* the others).  Users: a manager scoped to one cluster, and users holding  *)
(* a grant on another.  NATS users: an administrator of everything, and     *)
(* somebody without any right but what an assignment gives.  The            *)
(* credentials and the assignment of a NATS user are columns no request     *)
(* touches together, so those two are explored in turn as well.             *)
EXTENDS UserAdmin, NatsAccounts, UserCache, Denylist, RefreshTokens, TLC

CONSTANTS u1, u2, u3, c1, c2, a1, n1, admin, guest

Scoped(m) == [clusterIDs |-> {c1}, assignableRoles |-> {"viewer"}, manageUsers |-> m,
              viewAudit |-> FALSE, deleteClusters |-> FALSE]
MCRules == {None, Scoped(TRUE), Scoped(FALSE)}
MCRoles == {{"admin"}, {"viewer"}}
MCShared == [type |-> "nats_user", key |-> <<c2, a1, n1>>, role |-> "credential_downloader"]
MCGrants == {[type |-> "system", key |-> <<c1>>, role |-> "admin"],
             [type |-> "account", key |-> <<c2, a1>>, role |-> "admin"], MCShared}

Empty == [u \in UserId |-> None]

\* A root and somebody else, who may hold the grant of an assignment: the requests give the
\* other two.
Stored(roles, rules, grants) ==
  [Empty EXCEPT ![u1] = NewRow(TRUE, None, {"admin"}, None),
                ![u2] = [NewRow(FALSE, None, roles, rules) EXCEPT !.grants = grants]]
MCStored ==
  {Empty} \cup {Stored(roles, rules, {}) : roles \in MCRoles, rules \in MCRules}
          \cup {Stored({"viewer"}, rules, {MCShared}) : rules \in MCRules}

MCPersonBase ==
  [who \in Person |-> [root |-> who = admin, rules |-> None, grants |-> {},
                       roles |-> IF who = admin THEN {"admin"} ELSE {"viewer"}]]

VARIABLE part

Init ==
  /\ UsersInit /\ NInit /\ CInit /\ DInit /\ RInit
  /\ part \in IF users # Empty THEN {"users"}
             ELSE {"users", "credentials", "assignment", "exports",
                   "cache", "denylist", "refresh"}

authVars == <<cVars, dVars, rVars>>

Next ==
  \/ /\ part = "users" /\ UNCHANGED <<part, nVars, authVars>>
     /\ UsersNext
  \/ /\ part \in {"credentials", "assignment"} /\ UNCHANGED <<part, usersVars, authVars>>
     /\ \E p \in NProc : RowStep(p)
  \/ /\ part = "assignment" /\ UNCHANGED <<part, usersVars, authVars>>
     /\ \E p \in NProc : AssignStep(p)
  \/ /\ part = "credentials" /\ UNCHANGED <<part, usersVars, authVars>>
     /\ RotateEncryptionKeys \/ Restart \/ \E p \in NProc : CredentialStep(p)
  \/ /\ part = "exports" /\ UNCHANGED <<part, usersVars, authVars>>
     /\ \E p \in NProc : ExportStep(p)
  \/ part = "cache" /\ CNext /\ UNCHANGED <<part, usersVars, nVars, dVars, rVars>>
  \/ part = "denylist" /\ DNext /\ UNCHANGED <<part, usersVars, nVars, cVars, rVars>>
  \/ part = "refresh" /\ RNext /\ UNCHANGED <<part, usersVars, nVars, cVars, dVars>>

Spec == Init /\ [][Next]_<<usersVars, nVars, authVars, part>>

\* The processes of all parts are the same model values, so that the group stays small.
Symmetry == Permutations(Req) \cup Permutations(EncKey) \cup Permutations(Replica)
=============================================================================

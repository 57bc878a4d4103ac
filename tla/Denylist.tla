------------------------------ MODULE Denylist -----------------------------
(***************************************************************************)
(* Logout of a session across replicas: ParseSession, isPersistentlyRevoked *)
(* and InvalidateSession of internal/auth/auth.go over session_revoke.go    *)
(* and repo/auth_persistence.go, the session part of Logout, and            *)
(* Authenticate (internal/api/middleware/auth.go).                          *)
(*                                                                          *)
(* The parsed-session cache (session_cache.go) is read after the denylists  *)
(* and only saves a signature check, so it decides nothing here.  Time is   *)
(* as in UserCache.                                                         *)
(***************************************************************************)
EXTENDS Naturals, FiniteSets

CONSTANTS DReplica, DProc, DToken,
          NoEntry,   \* the absent value
          DSlack     \* longest time between a database read and its use

RevocationCacheTTL == 1

\* The age after which a stored logout must be seen everywhere.
Denied == RevocationCacheTTL + DSlack + 1

\* An entry of the in-process cache of the denylist.
DEntry == [value : BOOLEAN, left : 0 .. RevocationCacheTTL]

ASSUME DenylistConstants == DSlack \in Nat /\ NoEntry \notin DEntry /\ NoEntry \notin 0 .. Denied

VARIABLES dbRevoked,       \* auth_session_revocations: token -> NoEntry or age, up to Denied
          loggedOut,       \* token -> replicas where its logout was served
          revocationCache, \* replica -> token -> NoEntry or [value, left]
          revocations,     \* replica -> tokens denied in process
          dproc            \* request -> progress

dVars == <<dbRevoked, loggedOut, revocationCache, revocations, dproc>>

DIdle == [pc |-> "idle"]

DInit ==
  /\ dbRevoked = [k \in DToken |-> NoEntry]
  /\ loggedOut = [k \in DToken |-> {}]
  /\ revocationCache = [x \in DReplica |-> [k \in DToken |-> NoEntry]]
  /\ revocations = [x \in DReplica |-> {}]
  /\ dproc = [p \in DProc |-> DIdle]

DGo(p, next) == dproc' = [dproc EXCEPT ![p] = next]

DTick ==
  /\ \A p \in DProc : dproc[p].pc # "idle" => dproc[p].pc # "accepted" /\ dproc[p].at < DSlack
  /\ dproc' = [p \in DProc |-> IF dproc[p].pc = "idle" THEN DIdle
                               ELSE [dproc[p] EXCEPT !.at = @ + 1]]
  /\ dbRevoked' = [k \in DToken |-> IF dbRevoked[k] \in {NoEntry, Denied} THEN dbRevoked[k]
                                    ELSE dbRevoked[k] + 1]
  /\ revocationCache' = [x \in DReplica |-> [k \in DToken |->
       LET e == revocationCache[x][k]
       IN  IF e # NoEntry /\ e.left > 0 THEN [e EXCEPT !.left = @ - 1] ELSE NoEntry]]
  /\ UNCHANGED <<loggedOut, revocations>>

\* How a parsed token goes on: a request is accepted, a logout (which also revokes the refresh
\* tokens, see RefreshTokens) goes on to InvalidateSession; a refused one is answered 401, but
\* a logout invalidates the session all the same.
Parsed(p, q, denied) ==
  IF q.op = "logout" THEN DGo(p, [q EXCEPT !.pc = "deny", !.at = 0])
  ELSE IF denied THEN DGo(p, DIdle)
  ELSE DGo(p, [pc |-> "accepted", late |-> q.late])

\* ParseSession: the in-process denylist, then the persistent one behind its cache.  late
\* records that the token was already logged out here, or long enough ago elsewhere.  The
\* claims' own fingerprint check refuses other devices.
ParseSession(p) ==
  /\ dproc[p].pc = "idle"
  /\ \E x \in DReplica, k \in DToken, op \in {"request", "logout"} :
       LET q == [pc |-> "denylist", at |-> 0, replica |-> x, token |-> k, op |-> op,
                 late |-> x \in loggedOut[k] \/ dbRevoked[k] = Denied]
           cached == revocationCache[x][k]
       IN  IF k \in revocations[x] THEN Parsed(p, q, TRUE)
           ELSE IF cached # NoEntry THEN Parsed(p, q, cached.value)
           ELSE DGo(p, q)
  /\ UNCHANGED <<dbRevoked, loggedOut, revocationCache, revocations>>

\* IsSessionRevoked; a failing check counts as revoked and is not cached.
ReadDenylist(p) ==
  LET q == dproc[p]
  IN  /\ q.pc = "denylist"
      /\ \/ DGo(p, [q EXCEPT !.pc = IF dbRevoked[q.token] = NoEntry THEN "clear" ELSE "revoked",
                             !.at = 0])
         \/ Parsed(p, q, TRUE)
      /\ UNCHANGED <<dbRevoked, loggedOut, revocationCache, revocations>>

StoreDenylist(p) ==
  LET q == dproc[p]
      revoked == q.pc = "revoked"
  IN  /\ q.pc \in {"clear", "revoked"}
      /\ revocationCache' = [revocationCache EXCEPT ![q.replica][q.token] =
                               [value |-> revoked, left |-> RevocationCacheTTL]]
      /\ revocations' = IF revoked THEN [revocations EXCEPT ![q.replica] = @ \cup {q.token}]
                        ELSE revocations
      /\ Parsed(p, q, revoked)
      /\ UNCHANGED <<dbRevoked, loggedOut>>

DRespond(p) ==
  /\ dproc[p].pc = "accepted"
  /\ DGo(p, DIdle)
  /\ UNCHANGED <<dbRevoked, loggedOut, revocationCache, revocations>>

\* InvalidateSession: this replica's denylist first, ...
DenyLocally_OnlyStored(p) ==
  LET q == dproc[p]
  IN  /\ q.pc = "deny"
      /\ loggedOut' = [loggedOut EXCEPT ![q.token] = @ \cup {q.replica}]
      /\ DGo(p, [q EXCEPT !.pc = "persist", !.at = 0])
      /\ UNCHANGED <<dbRevoked, revocationCache, revocations>>
DenyLocally(p) ==
  LET q == dproc[p]
  IN  /\ q.pc = "deny"
      /\ revocations' = [revocations EXCEPT ![q.replica] = @ \cup {q.token}]
      /\ loggedOut' = [loggedOut EXCEPT ![q.token] = @ \cup {q.replica}]
      /\ DGo(p, [q EXCEPT !.pc = "persist", !.at = 0])
      /\ UNCHANGED <<dbRevoked, revocationCache>>

\* ... then the shared one; a failure is logged and the logout still succeeds.
PersistRevocation(p) ==
  /\ dproc[p].pc = "persist"
  /\ \/ dbRevoked' = [dbRevoked EXCEPT ![dproc[p].token] = IF @ = NoEntry THEN 0 ELSE @]
     \/ UNCHANGED dbRevoked
  /\ DGo(p, DIdle)
  /\ UNCHANGED <<loggedOut, revocationCache, revocations>>

DNext ==
  \/ DTick
  \/ \E p \in DProc :
       \/ ParseSession(p) \/ ReadDenylist(p) \/ StoreDenylist(p) \/ DRespond(p)
       \/ DenyLocally(p) \/ PersistRevocation(p)

DSpec == DInit /\ [][DNext]_dVars

-----------------------------------------------------------------------------
\* The type invariant.
DTypeOK ==
  /\ dbRevoked \in [DToken -> {NoEntry} \cup 0 .. Denied]
  /\ loggedOut \in [DToken -> SUBSET DReplica]
  /\ revocationCache \in [DReplica -> [DToken -> {NoEntry} \cup DEntry]]
  /\ revocations \in [DReplica -> SUBSET DToken]

\* After a logout the replica that served it refuses the token at once; the others do within
\* one cache lifetime and the time of one check once the denylist entry is stored
\* (InvalidateSession, isPersistentlyRevoked).
RevokedIsRefused == \A p \in DProc : dproc[p].pc = "accepted" => ~dproc[p].late
=============================================================================

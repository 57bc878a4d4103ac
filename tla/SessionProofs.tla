---------------------------- MODULE SessionProofs ----------------------------
(***************************************************************************)
(* The safety of the session machinery, for any number of replicas,        *)
(* requests, tokens and changes: the rotation of refresh tokens, the       *)
(* denylist of logged-out sessions and the cache of users.                 *)
(***************************************************************************)
EXTENDS RefreshTokens, Denylist, UserCache, TLAPS

(* What a request of the rotation carries from one statement to the next. *)
RState ==
  [pc : {"idle", "reuse", "lost"}]
  \cup [pc : {"issue"}, old : RToken, family : RToken]
  \cup [pc : {"mark"}, old : RToken, new : RToken]

RShapes ==
  /\ rows \in [RToken -> RRow \cup {NoToken}]
  /\ issued \subseteq RToken
  /\ rproc \in [RProc -> RState]

(* A token that can still be replaced has not been rotated. *)
OpenIsUnrotated ==
  \A t \in RToken : Replaceable(t) \/ t \notin issued => rotations[t] = 0

(* A rotation presents a token a client holds; while that token's row is     *)
(* there, the successor has its family.                                      *)
SuccessorInFamily ==
  \A p \in RProc :
    /\ rproc[p].pc = "issue" =>
         /\ rproc[p].old \in held /\ rproc[p].family \in issued
         /\ Live(rproc[p].old) => rproc[p].family = rows[rproc[p].old].family
    /\ rproc[p].pc = "mark" =>
         /\ rproc[p].old \in held /\ rproc[p].new \in issued
         /\ Live(rproc[p].old) /\ Live(rproc[p].new) =>
              rows[rproc[p].new].family = rows[rproc[p].old].family

RotationInv ==
  /\ RTypeOK
  /\ RShapes
  /\ OpenIsUnrotated
  /\ SuccessorInFamily
  /\ OneRotation
  /\ KilledFamilyStaysDead
----------------------------------------------------------------------------
(* Every statement of the refresh-token handlers keeps the invariant. *)
LEMMA RotationStep ==
  ASSUME RotationInv, [RNext]_rVars
  PROVE  RotationInv'
<1> USE NoTokenIsNoRow
    DEF RotationInv, RTypeOK, RShapes, OpenIsUnrotated, SuccessorInFamily, OneRotation,
        KilledFamilyStaysDead, Replaceable, Live, RState, RRow, RGo, RIdle
<1>1. ASSUME NEW p \in RProc, IssueRefresh(p) PROVE RotationInv'
  BY <1>1 DEF IssueRefresh, Insert
<1>2. ASSUME NEW p \in RProc, GetRefreshToken(p) PROVE RotationInv'
  BY <1>2 DEF GetRefreshToken, DeleteOne
<1>3. ASSUME NEW p \in RProc, IssueSuccessor(p) PROVE RotationInv'
  BY <1>3, SMTT(30) DEF IssueSuccessor, Insert
<1>4. ASSUME NEW p \in RProc, MarkReplaced(p) PROVE RotationInv'
  <2> DEFINE old == rproc[p].old
             new == rproc[p].new
             linked == [rows[old] EXCEPT !.replacedBy = new]
  <2>1. rproc[p] \in [pc : {"mark"}, old : RToken, new : RToken] /\ old \in held /\ new \in issued
    BY <1>4 DEF MarkReplaced
  <2>2. CASE ~Replaceable(old)
    BY <1>4, <2>1, <2>2 DEF MarkReplaced
  <2>3. CASE Replaceable(old)
    <3>1. linked \in RRow /\ linked.replacedBy = new /\ linked.family = rows[old].family
      BY <2>1, <2>3
    <3>2. /\ rows' = [rows EXCEPT ![old] = linked]
          /\ rotations' = [rotations EXCEPT ![old] = rotations[old] + 1]
          /\ held' = held \cup {new}
          /\ rproc' = [rproc EXCEPT ![p] = RIdle]
          /\ UNCHANGED <<issued, killed>>
      BY <1>4, <2>1, <2>3 DEF MarkReplaced
    <3>3. new # NoToken /\ rotations[old] = 0
      BY <2>1, <2>3
    <3> HIDE DEF old, new, linked
    <3>4. RTypeOK' /\ RShapes'
      BY <2>1, <3>1, <2>3, <3>2
    <3>5. OpenIsUnrotated' /\ OneRotation'
      BY <2>1, <3>1, <3>2, <3>3
    <3>6. SuccessorInFamily'
      BY <2>1, <3>1, <2>3, <3>2
    <3>7. KilledFamilyStaysDead'
      BY <1>4, <2>1, <2>3, <3>1, <3>2 DEF MarkReplaced, old, new
    <3> QED
      BY <3>4, <3>5, <3>6, <3>7
  <2> QED
    BY <2>2, <2>3
<1>5. ASSUME NEW p \in RProc, MarkFails(p) PROVE RotationInv'
  BY <1>5 DEF MarkFails
<1>6. ASSUME NEW p \in RProc, EndFamilies(p) PROVE RotationInv'
  BY <1>6 DEF EndFamilies, DeleteAll, Families
<1>7. ASSUME NEW p \in RProc, Logout(p) PROVE RotationInv'
  BY <1>7 DEF Logout, DeleteAll, Families
<1>8. ASSUME NEW p \in RProc, LogoutToken(p) PROVE RotationInv'
  BY <1>8 DEF LogoutToken, DeleteOne
<1>9. ASSUME NEW t \in RToken, ExpireToken(t) PROVE RotationInv'
  <2> DEFINE late == [rows[t] EXCEPT !.expired = TRUE]
  <2>1. late \in RRow /\ late.replacedBy = rows[t].replacedBy /\ late.family = rows[t].family
    BY <1>9, ZenonT(60) DEF ExpireToken
  <2>2. rows' = [rows EXCEPT ![t] = late] /\ UNCHANGED <<issued, rproc, rotations, held, killed>>
    BY <1>9 DEF ExpireToken
  <2>3. Live(t) /\ late # NoToken
    BY <1>9, <2>1 DEF ExpireToken
  <2> HIDE DEF late
  <2> QED
    BY <2>1, <2>2, <2>3
<1>10. CASE UNCHANGED rVars
  BY <1>10 DEF rVars
<1> QED
  BY <1>1, <1>2, <1>3, <1>4, <1>5, <1>6, <1>7, <1>8, <1>9, <1>10 DEF RNext

(* However many browsers and replicas present one refresh token, at most one *)
(* obtains a successor, and no token of a family that a logout or a detected *)
(* reuse has ended is valid again (RotateRefresh, MarkRefreshTokenReplaced,  *)
(* DeleteRefreshTokensByUser).                                               *)
THEOREM RotationSafe == RSpec => [](RTypeOK /\ RotationIsSafe)
<1>1. RInit => RotationInv
  BY NoTokenIsNoRow
  DEF RInit, RotationInv, RTypeOK, RShapes, OpenIsUnrotated, SuccessorInFamily, OneRotation,
      KilledFamilyStaysDead, Replaceable, Live, RState, RRow, RIdle
<1>2. RotationInv => RTypeOK /\ RotationIsSafe
  BY DEF RotationInv, RotationIsSafe
<1> QED
  BY <1>1, <1>2, RotationStep, PTL DEF RSpec

----------------------------------------------------------------------------
(* What a request carries through the denylist. *)
Checking ==
  [pc : {"denylist", "clear", "revoked", "deny", "persist"}, at : 0 .. DSlack,
   replica : DReplica, token : DToken, op : {"request", "logout"}, late : BOOLEAN]
DState == [pc : {"idle"}] \cup [pc : {"accepted"}, late : BOOLEAN] \cup Checking

(* A check that found no entry is younger than any entry stored since, and   *)
(* a token that was revoked long enough ago is found revoked.                *)
RequestOK(q) ==
  /\ q \in DState
  /\ q.pc = "denylist" /\ q.late => dbRevoked[q.token] # NoEntry
  /\ q.pc = "clear" => ~q.late /\ (dbRevoked[q.token] = NoEntry \/ dbRevoked[q.token] <= q.at)
  /\ q.pc = "accepted" => ~q.late

(* So is a cache entry that says clear, by the lifetime it has used. *)
EntryOK(e, k) ==
  e # NoEntry /\ ~e.value =>
    dbRevoked[k] = NoEntry \/ dbRevoked[k] <= DSlack + RevocationCacheTTL - e.left

(* The replica that served a logout denies the token in process. *)
DeniedWhereServed == \A k \in DToken : \A x \in loggedOut[k] : k \in revocations[x]

DenylistInv ==
  /\ DTypeOK
  /\ dproc \in [DProc -> DState]
  /\ \A p \in DProc : RequestOK(dproc[p])
  /\ \A x \in DReplica, k \in DToken : EntryOK(revocationCache[x][k], k)
  /\ DeniedWhereServed

(* A request that goes on by itself. *)
LEMMA RequestGoesOn ==
  ASSUME DenylistInv, NEW p \in DProc, NEW q, RequestOK(q), DGo(p, q),
         UNCHANGED <<dbRevoked, loggedOut, revocationCache, revocations>>
  PROVE  DenylistInv'
<1>1. dproc' \in [DProc -> DState] /\ \A r \in DProc : RequestOK(dproc'[r])
  BY DEF DenylistInv, DGo, RequestOK
<1> QED
  BY <1>1 DEF DenylistInv, DTypeOK, RequestOK, EntryOK, DeniedWhereServed

(* A parsed request is accepted only if it is not late. *)
LEMMA ParsedOK ==
  ASSUME NEW p \in DProc, NEW q \in Checking, NEW denied \in BOOLEAN, Parsed(p, q, denied),
         ~denied => ~q.late
  PROVE  \E r \in DState : DGo(p, r) /\ RequestOK(r) /\ r.pc \in {"idle", "accepted", "deny"}
<1> USE DEF Checking, DState, RequestOK
<1>0. 0 \in 0 .. DSlack
  BY DenylistConstants
<1>1. CASE q.op = "logout"
  <2> DEFINE r == [q EXCEPT !.pc = "deny", !.at = 0]
  <2>1. r \in Checking /\ r.pc = "deny"
    BY <1>0
  <2>2. DGo(p, r)
    BY <1>1 DEF Parsed
  <2> QED
    BY <2>1, <2>2
<1>2. CASE q.op # "logout" /\ denied
  BY <1>2 DEF Parsed, DIdle
<1>3. CASE q.op # "logout" /\ ~denied
  BY <1>3 DEF Parsed
<1> QED
  BY <1>1, <1>2, <1>3

(* An age below its cap may grow by one. *)
LEMMA AgeGrows ==
  ASSUME NEW m \in Nat, NEW n \in 0 .. m, n # m
  PROVE  n + 1 \in 0 .. m
  OBVIOUS

(* Every step of the denylist keeps the invariant. *)
LEMMA DenylistStep ==
  ASSUME DenylistInv, [DNext]_dVars
  PROVE  DenylistInv'
<1> USE DenylistConstants
<1>0. 0 \in 0 .. DSlack
  OBVIOUS
<1>1. CASE DTick
  <2> USE DEF DenylistInv, DTypeOK
  <2>1. \A k \in DToken : /\ dbRevoked'[k] \in {NoEntry} \cup 0 .. Denied
                          /\ dbRevoked'[k] = NoEntry <=> dbRevoked[k] = NoEntry
                          /\ dbRevoked[k] # NoEntry => dbRevoked'[k] <= dbRevoked[k] + 1
    <3>1. \A k \in DToken : dbRevoked'[k] = IF dbRevoked[k] \in {NoEntry, Denied} THEN dbRevoked[k]
                                           ELSE dbRevoked[k] + 1
      BY <1>1 DEF DTick
    <3>2. Denied \in Nat
      BY DEF Denied, RevocationCacheTTL
    <3> SUFFICES ASSUME NEW k \in DToken
                 PROVE  /\ dbRevoked'[k] \in {NoEntry} \cup 0 .. Denied
                        /\ dbRevoked'[k] = NoEntry <=> dbRevoked[k] = NoEntry
                        /\ dbRevoked[k] # NoEntry => dbRevoked'[k] <= dbRevoked[k] + 1
      OBVIOUS
    <3>3. CASE dbRevoked[k] \in {NoEntry, Denied}
      BY <3>1, <3>2, <3>3
    <3>4. CASE dbRevoked[k] \notin {NoEntry, Denied}
      <4>1. dbRevoked[k] \in 0 .. Denied /\ dbRevoked[k] # Denied
        BY <3>4
      <4>2. dbRevoked[k] + 1 \in 0 .. Denied
        BY <3>2, <4>1, AgeGrows
      <4> QED
        BY <3>1, <3>4, <4>1, <4>2
    <3> QED
      BY <3>3, <3>4
  <2>2. ASSUME NEW p \in DProc PROVE RequestOK(dproc[p])' /\ dproc'[p] \in DState
    <3>1. CASE dproc[p].pc = "idle"
      BY <1>1, <3>1 DEF DTick, DIdle, RequestOK, DState
    <3>2. CASE dproc[p].pc # "idle"
      <4>1. dproc[p] \in Checking /\ dproc[p].at < DSlack
        BY <1>1, <3>2 DEF DTick, DState
      <4>2. dproc'[p] = [dproc[p] EXCEPT !.at = @ + 1]
        BY <1>1, <3>2 DEF DTick
      <4>3. /\ dproc'[p] \in Checking /\ dproc'[p].at = dproc[p].at + 1
            /\ dproc'[p].pc = dproc[p].pc /\ dproc'[p].late = dproc[p].late
            /\ dproc'[p].token = dproc[p].token
        BY <4>1, <4>2, SMTT(30) DEF Checking
      <4> QED
        BY <2>1, <4>1, <4>3 DEF RequestOK, DState, Checking
    <3> QED
      BY <3>1, <3>2
  <2>3. ASSUME NEW x \in DReplica, NEW k \in DToken
        PROVE  /\ revocationCache'[x][k] \in {NoEntry} \cup DEntry
               /\ EntryOK(revocationCache[x][k], k)'
    <3> DEFINE e == revocationCache[x][k]
    <3>1. CASE e # NoEntry /\ e.left > 0
      <4>1. e \in DEntry /\ revocationCache'[x][k] = [e EXCEPT !.left = @ - 1]
        BY <1>1, <3>1 DEF DTick
      <4>2. [e EXCEPT !.left = @ - 1] \in DEntry
        <5>1. e.left - 1 \in 0 .. RevocationCacheTTL
          BY <4>1, <3>1 DEF DEntry, RevocationCacheTTL
        <5> QED
          BY <4>1, <5>1 DEF DEntry
      <4> QED
        BY <2>1, <3>1, <4>1, <4>2 DEF EntryOK, DEntry, RevocationCacheTTL
    <3>2. CASE ~(e # NoEntry /\ e.left > 0)
      BY <1>1, <3>2 DEF DTick, EntryOK
    <3> QED
      BY <3>1, <3>2
  <2>4. DTypeOK'
    BY <1>1, <2>1, <2>3 DEF DTick
  <2>5. (dproc \in [DProc -> DState])' /\ DeniedWhereServed'
    BY <1>1, <2>2 DEF DTick, DeniedWhereServed
  <2> QED
    BY <2>2, <2>3, <2>4, <2>5
<1>2. ASSUME NEW p \in DProc, ParseSession(p) PROVE DenylistInv'
  <2>1. PICK x \in DReplica, k \in DToken, op \in {"request", "logout"} :
          LET q == [pc |-> "denylist", at |-> 0, replica |-> x, token |-> k, op |-> op,
                    late |-> x \in loggedOut[k] \/ dbRevoked[k] = Denied]
              cached == revocationCache[x][k]
          IN  IF k \in revocations[x] THEN Parsed(p, q, TRUE)
              ELSE IF cached # NoEntry THEN Parsed(p, q, cached.value)
              ELSE DGo(p, q)
    BY <1>2 DEF ParseSession
  <2> DEFINE q == [pc |-> "denylist", at |-> 0, replica |-> x, token |-> k, op |-> op,
                   late |-> x \in loggedOut[k] \/ dbRevoked[k] = Denied]
             e == revocationCache[x][k]
  <2>2. q \in Checking /\ q.late = (x \in loggedOut[k] \/ dbRevoked[k] = Denied)
    BY DEF Checking
  <2>3. UNCHANGED <<dbRevoked, loggedOut, revocationCache, revocations>>
    BY <1>2 DEF ParseSession
  <2>4. CASE k \in revocations[x]
    BY <2>1, <2>2, <2>3, <2>4, ParsedOK, RequestGoesOn
  <2>5. CASE k \notin revocations[x] /\ e # NoEntry
    <3>1. e \in DEntry
      BY <2>5 DEF DenylistInv, DTypeOK
    <3>2. e.value \in BOOLEAN /\ (~e.value => ~q.late)
      BY <2>5, <3>1
      DEF DenylistInv, DTypeOK, EntryOK, DEntry, DeniedWhereServed, Denied, RevocationCacheTTL
    <3>3. Parsed(p, q, e.value)
      BY <2>1, <2>5
    <3> HIDE DEF q, e
    <3> QED
      BY <2>2, <2>3, <3>2, <3>3, ParsedOK, RequestGoesOn
  <2>6. CASE k \notin revocations[x] /\ e = NoEntry
    <3>1. RequestOK(q)
      <4>1. q.pc = "denylist" /\ q.token = k /\ Denied # NoEntry
        BY DEF Denied, RevocationCacheTTL
      <4>2. x \notin loggedOut[k]
        BY <2>6 DEF DenylistInv, DeniedWhereServed
      <4> HIDE DEF q
      <4> QED
        BY <2>2, <4>1, <4>2 DEF RequestOK, DState
    <3> QED
      BY <2>1, <2>3, <2>6, <3>1, RequestGoesOn
  <2> QED
    BY <2>4, <2>5, <2>6
<1>3. ASSUME NEW p \in DProc, ReadDenylist(p) PROVE DenylistInv'
  <2> DEFINE q == dproc[p]
             r == [q EXCEPT !.pc = IF dbRevoked[q.token] = NoEntry THEN "clear" ELSE "revoked", !.at = 0]
  <2>1. q \in Checking /\ q.pc = "denylist" /\ RequestOK(q)
    BY <1>3 DEF ReadDenylist, DenylistInv, DState
  <2>2. /\ r \in Checking /\ r.late = q.late /\ r.token = q.token
        /\ r.pc = IF dbRevoked[q.token] = NoEntry THEN "clear" ELSE "revoked"
    BY <1>0, <2>1 DEF Checking
  <2>3. RequestOK(r)
    BY <2>1, <2>2 DEF RequestOK, DState, Checking
  <2>4. UNCHANGED <<dbRevoked, loggedOut, revocationCache, revocations>>
    BY <1>3 DEF ReadDenylist
  <2>5. DGo(p, r) \/ Parsed(p, q, TRUE)
    BY <1>3 DEF ReadDenylist
  <2> HIDE DEF q, r
  <2> QED
    BY <2>1, <2>3, <2>4, <2>5, ParsedOK, RequestGoesOn
<1>4. ASSUME NEW p \in DProc, StoreDenylist(p) PROVE DenylistInv'
  <2> DEFINE q == dproc[p]
             e == [value |-> q.pc = "revoked", left |-> RevocationCacheTTL]
  <2>1. q \in Checking /\ q.pc \in {"clear", "revoked"} /\ RequestOK(q)
    BY <1>4 DEF StoreDenylist, DenylistInv, DState
  <2>2. PICK r \in DState : DGo(p, r) /\ RequestOK(r) /\ r.pc \in {"idle", "accepted", "deny"}
    BY <1>4, <2>1, ParsedOK DEF StoreDenylist, RequestOK
  <2>3. /\ UNCHANGED <<dbRevoked, loggedOut>>
        /\ revocationCache' = [revocationCache EXCEPT ![q.replica][q.token] = e]
        /\ revocations' \in [DReplica -> SUBSET DToken]
        /\ \A x \in DReplica : revocations[x] \subseteq revocations'[x]
    BY <1>4, <2>1 DEF StoreDenylist, DenylistInv, DTypeOK, Checking
  <2>4. e \in DEntry /\ EntryOK(e, q.token)
    <3>0. e.value = (q.pc = "revoked") /\ e.left = RevocationCacheTTL /\ RevocationCacheTTL \in 0 .. RevocationCacheTTL
      BY DEF RevocationCacheTTL
    <3>1. e.left = RevocationCacheTTL /\ (~e.value => q.pc = "clear") /\ e \in DEntry
      BY <2>1, <3>0 DEF DEntry
    <3>2. q.at \in 0 .. DSlack /\ dbRevoked[q.token] \in {NoEntry} \cup 0 .. Denied
      BY <2>1 DEF Checking, DenylistInv, DTypeOK
    <3> HIDE DEF e
    <3> QED
      BY <2>1, <3>1, <3>2 DEF EntryOK, RequestOK, RevocationCacheTTL, Denied
  <2>5. dproc' \in [DProc -> DState] /\ \A t \in DProc : RequestOK(dproc[t])'
    BY <2>2, <2>3 DEF DGo, DenylistInv, RequestOK
  <2> HIDE DEF e
  <2>6. DTypeOK' /\ DeniedWhereServed'
    BY <2>1, <2>3, <2>4 DEF DenylistInv, DTypeOK, DeniedWhereServed, Checking
  <2>7. ASSUME NEW x \in DReplica, NEW k \in DToken PROVE EntryOK(revocationCache[x][k], k)'
    <3>1. revocationCache'[x][k] = IF x = q.replica /\ k = q.token THEN e ELSE revocationCache[x][k]
      BY <2>1, <2>3 DEF DenylistInv, DTypeOK, Checking
    <3> QED
      BY <2>3, <2>4, <3>1 DEF EntryOK, DenylistInv
  <2> QED
    BY <2>5, <2>6, <2>7 DEF DenylistInv
<1>5. ASSUME NEW p \in DProc, DRespond(p) PROVE DenylistInv'
  BY <1>5, RequestGoesOn DEF DRespond, RequestOK, DState, DIdle
<1>6. ASSUME NEW p \in DProc, DenyLocally(p) PROVE DenylistInv'
  <2> DEFINE q == dproc[p]
             r == [q EXCEPT !.pc = "persist", !.at = 0]
  <2>1. q \in Checking
    BY <1>6 DEF DenyLocally, DenylistInv, DState
  <2>2. r \in Checking /\ r.pc = "persist"
    BY <1>0, <2>1 DEF Checking
  <2>3. dproc' = [dproc EXCEPT ![p] = r] /\ UNCHANGED <<dbRevoked, revocationCache>>
    BY <1>6 DEF DenyLocally, DGo
  <2> HIDE DEF r
  <2>4. dproc' \in [DProc -> DState] /\ \A t \in DProc : RequestOK(dproc[t])'
    BY <2>2, <2>3 DEF DenylistInv, RequestOK, DState
  <2>5. DTypeOK' /\ DeniedWhereServed'
    BY <1>6, <2>1 DEF DenyLocally, DenylistInv, DTypeOK, DeniedWhereServed, Checking
  <2> QED
    BY <2>3, <2>4, <2>5 DEF DenylistInv, EntryOK
<1>7. ASSUME NEW p \in DProc, PersistRevocation(p) PROVE DenylistInv'
  <2>1. dproc[p] \in Checking
    BY <1>7 DEF PersistRevocation, DenylistInv, DState
  <2>2. /\ dbRevoked' \in [DToken -> {NoEntry} \cup 0 .. Denied]
        /\ \A k \in DToken : dbRevoked[k] # NoEntry => dbRevoked'[k] = dbRevoked[k]
        /\ \A k \in DToken : dbRevoked[k] = NoEntry => dbRevoked'[k] \in {NoEntry, 0}
    BY <1>7, <2>1 DEF PersistRevocation, DenylistInv, DTypeOK, Checking, Denied, RevocationCacheTTL
  <2>3. ASSUME NEW t \in DProc PROVE RequestOK(dproc[t])' /\ dproc'[t] \in DState
    <3>1. CASE t = p
      BY <1>7, <3>1 DEF PersistRevocation, DGo, DIdle, DenylistInv, RequestOK, DState
    <3>2. CASE t # p
      <4>1. dproc'[t] = dproc[t] /\ dproc[t] \in DState /\ RequestOK(dproc[t])
        BY <1>7, <3>2 DEF PersistRevocation, DGo, DenylistInv
      <4> QED
        BY <2>2, <4>1 DEF RequestOK, DState, Checking
    <3> QED
      BY <3>1, <3>2
  <2>4. ASSUME NEW x \in DReplica, NEW k \in DToken PROVE EntryOK(revocationCache[x][k], k)'
    <3>1. revocationCache' = revocationCache /\ EntryOK(revocationCache[x][k], k)
      BY <1>7 DEF PersistRevocation, DenylistInv
    <3> QED
      BY <2>2, <3>1 DEF EntryOK, DenylistInv, DTypeOK, DEntry, RevocationCacheTTL
  <2>5. DTypeOK' /\ DeniedWhereServed' /\ (dproc \in [DProc -> DState])'
    BY <1>7, <2>2, <2>3 DEF PersistRevocation, DGo, DenylistInv, DTypeOK, DeniedWhereServed
  <2> QED
    BY <2>3, <2>4, <2>5 DEF DenylistInv
<1>8. CASE UNCHANGED dVars
  BY <1>8 DEF dVars, DenylistInv, DTypeOK, RequestOK, EntryOK, DeniedWhereServed
<1> QED
  BY <1>1, <1>2, <1>3, <1>4, <1>5, <1>6, <1>7, <1>8 DEF DNext

(* A logged-out session is refused at once where the logout was served, and   *)
(* everywhere within one cache lifetime and one check of the stored entry,    *)
(* for any number of replicas (InvalidateSession, isPersistentlyRevoked).     *)
THEOREM DenylistSafe == DSpec => [](DTypeOK /\ RevokedIsRefused)
<1>1. DInit => DenylistInv
  BY DenylistConstants
  DEF DInit, DenylistInv, DTypeOK, DeniedWhereServed, RequestOK, EntryOK, DState, DIdle
<1>2. DenylistInv => DTypeOK /\ RevokedIsRefused
  BY DEF DenylistInv, RequestOK, RevokedIsRefused
<1> QED
  BY <1>1, <1>2, DenylistStep, PTL DEF DSpec

----------------------------------------------------------------------------
(* What a request carries through the caches of the user. *)
Loading ==
  [pc : {"load", "fresh", "versionRead", "match", "readRow", "rowRead"}, at : 0 .. Slack,
   replica : Replica, token : CToken, value : Nat]
CState ==
  [pc : {"idle"}] \cup [pc : {"served"}, gen : Nat] \cup Loading
  \cup [pc : {"invalidate", "bump"}, at : 0 .. Slack, replica : Replica, value : Nat]

CEntry == [value : Nat, left : 0 .. 1]

(* A row that was read and that has changed since was read before the last   *)
(* change, and an answer given from one is given in time.                    *)
LoadOK(q) ==
  /\ q \in CState
  /\ q.pc = "rowRead" /\ q.value < rowGen => rowAge <= q.at
  /\ q.pc = "served" /\ q.gen < rowGen => rowAge < Visible

(* So was a cache entry, by the lifetime it has used. *)
CachedOK(e) == Fresh(e) /\ e.value < rowGen => rowAge <= Slack + UserCacheTTL - e.left

CacheInv ==
  /\ rowGen \in Nat /\ rowAge \in 0 .. Visible /\ dbVersion \in Nat
  /\ userCache \in [Replica -> CEntry \cup {NoValue}]
  /\ versionCache \in [Replica -> CEntry \cup {NoValue}]
  /\ localVersions \in [Replica -> Nat]
  /\ cproc \in [CProc -> CState]
  /\ \A p \in CProc : LoadOK(cproc[p])
  /\ \A x \in Replica : CachedOK(userCache[x])

(* A request goes on, and entries of the caches may be dropped or versions   *)
(* stored on the way.                                                        *)
LEMMA LoadGoesOn ==
  ASSUME CacheInv, NEW p \in CProc, NEW q, LoadOK(q), CGo(p, q),
         UNCHANGED rowVars, dbVersion' \in Nat,
         userCache' \in [Replica -> CEntry \cup {NoValue}],
         \A x \in Replica : userCache'[x] \in {userCache[x], NoValue},
         versionCache' \in [Replica -> CEntry \cup {NoValue}],
         localVersions' \in [Replica -> Nat]
  PROVE  CacheInv'
<1>1. cproc' \in [CProc -> CState] /\ \A r \in CProc : LoadOK(cproc'[r])
  BY DEF CacheInv, CGo, LoadOK
<1>2. rowGen' = rowGen /\ rowAge' = rowAge
  BY DEF rowVars
<1>3. \A x \in Replica : CachedOK(userCache'[x])
  BY DEF CacheInv, CachedOK, Fresh
<1> QED
  BY <1>1, <1>2, <1>3 DEF CacheInv, LoadOK, CachedOK

(* A request that changes its program counter and value keeps its shape. *)
LEMMA LoadShape ==
  ASSUME NEW q \in Loading, NEW v \in Nat,
         NEW l \in {"versionRead", "match", "readRow", "rowRead"}
  PROVE  /\ [q EXCEPT !.pc = l, !.at = 0, !.value = v] \in Loading
         /\ [q EXCEPT !.pc = l, !.at = 0, !.value = v].pc = l
         /\ [q EXCEPT !.pc = l, !.at = 0, !.value = v].value = v
<1>1. 0 \in 0 .. Slack
  BY CacheConstants
<1> QED
  BY <1>1 DEF Loading

(* Every step of the user cache keeps the invariant. *)
LEMMA CacheStep ==
  ASSUME CacheInv, [CNext]_cVars
  PROVE  CacheInv'
<1> USE CacheConstants DEF rowVars, caches
<1>0. 0 \in 0 .. Slack /\ Visible \in Nat /\ Slack < Visible /\ VersionCacheTTL \in 0 .. 1
  BY DEF Visible, UserCacheTTL, VersionCacheTTL
<1>1. CASE CTick
  <2>1. rowAge' \in 0 .. Visible /\ rowAge' <= rowAge + 1 /\ rowGen' = rowGen
    BY <1>0, <1>1 DEF CTick, Older, CacheInv
  <2>2. ASSUME NEW e \in CEntry \cup {NoValue}
        PROVE  Age(e) \in CEntry \cup {NoValue} /\ (CachedOK(e) => CachedOK(Age(e))')
    <3>1. CASE Fresh(e) /\ e.left > 0
      <4>1. e \in CEntry /\ e.left = 1
        BY <3>1 DEF Fresh, CEntry
      <4>2. Age(e) = [e EXCEPT !.left = e.left - 1]
        BY <3>1 DEF Age
      <4>3. Age(e) \in CEntry /\ Age(e).left = 0 /\ Age(e).value = e.value
        BY <4>1, <4>2 DEF CEntry
      <4> QED
        BY <2>1, <4>1, <4>3 DEF CachedOK, Fresh, CacheInv, UserCacheTTL, CEntry, Visible
    <3>2. CASE ~(Fresh(e) /\ e.left > 0)
      BY <3>2 DEF Age, CachedOK, Fresh
    <3> QED
      BY <3>1, <3>2
  <2>3. ASSUME NEW p \in CProc PROVE LoadOK(cproc[p])' /\ cproc'[p] \in CState
    <3>1. CASE cproc[p].pc = "idle"
      BY <1>1, <3>1 DEF CTick, CIdle, LoadOK, CState
    <3>2. CASE cproc[p].pc # "idle"
      <4>1. cproc[p] \in CState /\ cproc[p].pc \notin {"idle", "served"} /\ cproc[p].at < Slack
        BY <1>1, <3>2 DEF CTick, CacheInv
      <4>2. cproc'[p] = [cproc[p] EXCEPT !.at = @ + 1]
        BY <1>1, <3>2 DEF CTick
      <4>3. cproc[p].at \in 0 .. Slack /\ cproc[p].at + 1 \in 0 .. Slack
        BY <4>1 DEF CState, Loading
      <4>4. /\ cproc'[p] \in CState /\ cproc'[p].at = cproc[p].at + 1
            /\ cproc'[p].pc = cproc[p].pc
            /\ cproc[p].pc = "rowRead" => cproc'[p].value = cproc[p].value
        BY <4>1, <4>2, <4>3 DEF CState, Loading
      <4>5. cproc[p].pc = "rowRead" /\ cproc[p].value < rowGen => rowAge <= cproc[p].at
        BY DEF CacheInv, LoadOK
      <4>6. cproc'[p].pc = "rowRead" /\ cproc'[p].value < rowGen' => rowAge' <= cproc'[p].at
        BY <2>1, <4>3, <4>4, <4>5 DEF CacheInv
      <4> QED
        BY <4>1, <4>4, <4>6 DEF LoadOK
    <3> QED
      BY <3>1, <3>2
  <2>4. /\ userCache' = [x \in Replica |-> Age(userCache[x])]
        /\ versionCache' = [x \in Replica |-> Age(versionCache[x])]
        /\ cproc' = [p \in CProc |-> cproc'[p]]
        /\ UNCHANGED <<rowGen, dbVersion, localVersions>>
    BY <1>1 DEF CTick
  <2> QED
    BY <2>1, <2>2, <2>3, <2>4 DEF CacheInv
<1>2. ASSUME NEW p \in CProc, VerifyAuth(p) PROVE CacheInv'
  <2>1. PICK q \in Loading : CGo(p, q) /\ q.pc \in {"load", "fresh"}
    BY <1>0, <1>2 DEF VerifyAuth, Loading
  <2>2. LoadOK(q)
    BY <2>1 DEF LoadOK, CState
  <2> QED
    BY <1>2, <2>1, <2>2, LoadGoesOn DEF VerifyAuth, CacheInv
<1>3. ASSUME NEW p \in CProc, ReadVersion(p) PROVE CacheInv'
  <2>1. cproc[p] \in Loading
    BY <1>3 DEF ReadVersion, CacheInv, CState
  <2>2. /\ dbVersion \in Nat /\ localVersions[cproc[p].replica] \in Nat
        /\ Fresh(versionCache[cproc[p].replica]) => versionCache[cproc[p].replica].value \in Nat
    BY <2>1 DEF CacheInv, Loading, Fresh, CEntry
  <2>3. PICK v \in Nat, l \in {"versionRead", "match"} :
          CGo(p, [cproc[p] EXCEPT !.pc = l, !.at = 0, !.value = v])
    BY <1>3, <2>2 DEF ReadVersion
  <2>4. LoadOK([cproc[p] EXCEPT !.pc = l, !.at = 0, !.value = v])
    BY <2>1, LoadShape DEF LoadOK, CState
  <2> QED
    BY <1>3, <2>3, <2>4, LoadGoesOn DEF ReadVersion, CacheInv
<1>4. ASSUME NEW p \in CProc, StoreVersion(p) PROVE CacheInv'
  <2> DEFINE q == cproc[p]
             r == [q EXCEPT !.pc = "match"]
  <2>1. q \in Loading
    BY <1>4 DEF StoreVersion, CacheInv, CState
  <2>2. r \in Loading /\ r.pc = "match"
    BY <2>1 DEF Loading
  <2>3. Entry(q.value, VersionCacheTTL) \in CEntry
    BY <1>0, <2>1 DEF Entry, CEntry, Loading
  <2>4. versionCache' \in [Replica -> CEntry \cup {NoValue}]
    BY <1>4, <2>3 DEF StoreVersion, CacheInv
  <2>5. LoadOK(r) /\ CGo(p, r)
    BY <1>4, <2>2 DEF StoreVersion, LoadOK, CState
  <2> QED
    BY <1>4, <2>4, <2>5, LoadGoesOn DEF StoreVersion, CacheInv
<1>5. ASSUME NEW p \in CProc, MatchVersion(p) PROVE CacheInv'
  <2> DEFINE q == cproc[p]
             e == userCache[q.replica]
             r == [pc |-> "served", gen |-> e.value]
  <2>1. q \in Loading
    BY <1>5 DEF MatchVersion, CacheInv, CState
  <2>2. CASE sessions[q.token] = q.value /\ Fresh(e)
    <3>1. e \in CEntry /\ CachedOK(e)
      BY <2>1, <2>2 DEF CacheInv, Fresh, Loading
    <3>2. e.value < rowGen => rowAge < Visible
      BY <2>2, <3>1 DEF CachedOK, CEntry, CacheInv, Visible, UserCacheTTL
    <3>3. r \in CState /\ r.pc = "served" /\ r.gen = e.value
      BY <3>1 DEF CState, CEntry
    <3>4. LoadOK(r)
      BY <3>2, <3>3 DEF LoadOK
    <3>5. CGo(p, r)
      BY <1>5, <2>2 DEF MatchVersion, Serve
    <3> HIDE DEF r
    <3> QED
      BY <1>5, <3>4, <3>5, LoadGoesOn DEF MatchVersion, CacheInv
  <2>3. CASE ~(sessions[q.token] = q.value /\ Fresh(e))
    <3>1. LoadOK([q EXCEPT !.pc = "readRow", !.at = 0, !.value = 0])
      BY <2>1, LoadShape DEF LoadOK, CState
    <3> QED
      BY <1>5, <2>3, <3>1, LoadGoesOn DEF MatchVersion, Step, CacheInv
  <2> QED
    BY <2>2, <2>3
<1>6. ASSUME NEW p \in CProc, DropCached(p) PROVE CacheInv'
  <2>1. cproc[p] \in Loading
    BY <1>6 DEF DropCached, CacheInv, CState
  <2>2. LoadOK([cproc[p] EXCEPT !.pc = "readRow", !.at = 0, !.value = 0])
    BY <2>1, LoadShape DEF LoadOK, CState
  <2> QED
    BY <1>6, <2>2, LoadGoesOn DEF DropCached, Step, CacheInv
<1>7. ASSUME NEW p \in CProc, ReadRow(p) PROVE CacheInv'
  <2>1. cproc[p] \in Loading
    BY <1>7 DEF ReadRow, CacheInv, CState
  <2>2. LoadOK(CIdle)
    BY DEF LoadOK, CState, CIdle
  <2>3. LoadOK([cproc[p] EXCEPT !.pc = "rowRead", !.at = 0, !.value = rowGen])
    <3>1. rowGen \in Nat /\ ~(rowGen < rowGen)
      BY DEF CacheInv
    <3> QED
      BY <2>1, <3>1, LoadShape, ZenonT(60) DEF LoadOK, CState
  <2> QED
    BY <1>7, <2>2, <2>3, LoadGoesOn DEF ReadRow, CacheInv
<1>8. ASSUME NEW p \in CProc, StoreUser(p) PROVE CacheInv'
  <2> DEFINE q == cproc[p]
             e == Entry(q.value, UserCacheTTL)
             r == [pc |-> "served", gen |-> q.value]
  <2>1. q \in Loading /\ (q.value < rowGen => rowAge <= q.at)
    BY <1>8 DEF StoreUser, CacheInv, CState, LoadOK
  <2>2. e \in CEntry /\ e.value = q.value /\ e.left = UserCacheTTL
    BY <2>1 DEF Entry, CEntry, UserCacheTTL, Loading
  <2>3. r \in CState /\ r.pc = "served" /\ r.gen = q.value
    BY <2>1 DEF CState, Loading
  <2>4. q.value < rowGen => rowAge <= Slack
    BY <2>1 DEF CacheInv, Loading
  <2>5. CachedOK(e)
    BY <2>2, <2>4 DEF CachedOK, UserCacheTTL
  <2>6. LoadOK(r)
    BY <1>0, <2>3, <2>4 DEF LoadOK, CacheInv
  <2>7. /\ userCache' = [userCache EXCEPT ![q.replica] = e]
        /\ cproc' = [cproc EXCEPT ![p] = r]
        /\ UNCHANGED <<rowGen, rowAge, dbVersion, versionCache, localVersions>>
    BY <1>8 DEF StoreUser, Serve, CGo
  <2> HIDE DEF e, r
  <2>8. cproc' \in [CProc -> CState] /\ \A t \in CProc : LoadOK(cproc'[t])
    BY <2>3, <2>6, <2>7 DEF CacheInv
  <2>9. userCache' \in [Replica -> CEntry \cup {NoValue}] /\ \A x \in Replica : CachedOK(userCache'[x])
    BY <2>2, <2>5, <2>7 DEF CacheInv
  <2> QED
    BY <2>7, <2>8, <2>9 DEF CacheInv, LoadOK, CachedOK
<1>9. ASSUME NEW p \in CProc, Respond(p) PROVE CacheInv'
  <2>1. LoadOK(CIdle)
    BY DEF LoadOK, CState, CIdle
  <2> QED
    BY <1>9, <2>1, LoadGoesOn DEF Respond, CacheInv
<1>10. ASSUME NEW p \in CProc, ChangeRow(p) PROVE CacheInv'
  <2>1. PICK q \in CState : cproc' = [cproc EXCEPT ![p] = q] /\ q.pc = "invalidate"
    <3>1. PICK x \in Replica :
            cproc' = [cproc EXCEPT ![p] = [pc |-> "invalidate", at |-> 0, replica |-> x, value |-> 0]]
      BY <1>10 DEF ChangeRow, CGo
    <3>2. [pc |-> "invalidate", at |-> 0, replica |-> x, value |-> 0] \in
            [pc : {"invalidate", "bump"}, at : 0 .. Slack, replica : Replica, value : Nat]
      BY <1>0
    <3> QED
      BY <3>1, <3>2 DEF CState
  <2>2. rowGen' \in Nat /\ rowAge' = 0 /\ rowAge' \in 0 .. Visible
    BY <1>0, <1>10 DEF ChangeRow, CacheInv
  <2>3. ASSUME NEW t \in CProc PROVE LoadOK(cproc[t])' /\ cproc'[t] \in CState
    <3>1. cproc'[t] \in CState
      BY <2>1 DEF CacheInv
    <3>2. cproc'[t].pc = "rowRead" => 0 <= cproc'[t].at
      BY <3>1 DEF CState, Loading
    <3> QED
      BY <1>0, <2>2, <3>1, <3>2 DEF LoadOK
  <2>4. ASSUME NEW x \in Replica PROVE CachedOK(userCache[x])'
    BY <1>10, <2>2 DEF ChangeRow, CachedOK, Fresh, CacheInv, CEntry, UserCacheTTL
  <2>5. /\ UNCHANGED <<dbVersion, userCache, versionCache, localVersions>>
        /\ cproc' \in [CProc -> CState]
    BY <1>10, <2>1 DEF ChangeRow, CacheInv
  <2> QED
    BY <2>2, <2>3, <2>4, <2>5 DEF CacheInv
<1>11. ASSUME NEW p \in CProc, InvalidateUser(p) PROVE CacheInv'
  <2> DEFINE r == [cproc[p] EXCEPT !.pc = "bump", !.at = 0, !.value = 0]
  <2>1. r \in CState /\ r.pc = "bump"
    BY <1>0, <1>11 DEF InvalidateUser, CacheInv, CState, Loading
  <2>2. LoadOK(r) /\ CGo(p, r)
    BY <1>11, <2>1 DEF InvalidateUser, Step, LoadOK
  <2> QED
    BY <1>11, <2>2, LoadGoesOn DEF InvalidateUser, CacheInv
<1>12. ASSUME NEW p \in CProc, BumpUserVersion(p) PROVE CacheInv'
  <2>1. LoadOK(CIdle) /\ CGo(p, CIdle)
    BY <1>12 DEF BumpUserVersion, LoadOK, CState, CIdle
  <2>2. dbVersion + 1 \in Nat /\ Entry(dbVersion + 1, VersionCacheTTL) \in CEntry
    BY <1>0 DEF CacheInv, Entry, CEntry
  <2>3. cproc[p].replica \in Replica
    BY <1>12 DEF BumpUserVersion, CacheInv, CState, Loading
  <2>4. /\ dbVersion' \in Nat
        /\ versionCache' \in [Replica -> CEntry \cup {NoValue}]
        /\ localVersions' \in [Replica -> Nat]
    BY <1>12, <2>2, <2>3 DEF BumpUserVersion, CacheInv
  <2> QED
    BY <1>12, <2>1, <2>4, LoadGoesOn DEF BumpUserVersion, CacheInv
<1>13. ASSUME NEW p \in CProc, CreateSession(p) PROVE CacheInv'
  <2>1. Entry(dbVersion, VersionCacheTTL) \in CEntry
    BY <1>0 DEF CacheInv, Entry, CEntry
  <2>2. versionCache' \in [Replica -> CEntry \cup {NoValue}]
    BY <1>13, <2>1 DEF CreateSession, CacheInv
  <2> QED
    BY <1>13, <2>2 DEF CreateSession, CacheInv, LoadOK, CachedOK
<1>14. CASE UNCHANGED cVars
  BY <1>14 DEF cVars, CacheInv, LoadOK, CachedOK
<1> QED
  BY <1>1, <1>2, <1>3, <1>4, <1>5, <1>6, <1>7, <1>8, <1>9, <1>10, <1>11, <1>12, <1>13, <1>14
  DEF CNext

(* Nothing is read or remembered that is ahead of the database.              *)
NotAhead ==
  /\ rowGen \in 0 .. MaxGen /\ dbVersion \in Nat \ {0}
  /\ sessions = [k \in CToken |-> sessions[k]]
  /\ \A k \in CToken : sessions[k] # NoValue => sessions[k] \in 1 .. dbVersion
  /\ \A x \in Replica :
       /\ Fresh(userCache[x]) => userCache[x].value <= rowGen
       /\ Fresh(versionCache[x]) => versionCache[x].value \in 1 .. dbVersion
       /\ localVersions[x] \in Nat \ {0}
  /\ \A p \in CProc :
       /\ cproc[p].pc = "rowRead" => cproc[p].value <= rowGen
       /\ cproc[p].pc = "versionRead" => cproc[p].value \in 1 .. dbVersion

(* A request goes on, and holds nothing that is ahead.                       *)
LEMMA StaysBehind ==
  ASSUME CacheInv, NotAhead, NEW p \in CProc, NEW q, CGo(p, q),
         q.pc = "rowRead" => q.value <= rowGen,
         q.pc = "versionRead" => q.value \in 1 .. dbVersion,
         UNCHANGED <<rowGen, dbVersion, sessions>>,
         \A x \in Replica :
           /\ Fresh(userCache'[x]) => userCache'[x].value <= rowGen
           /\ Fresh(versionCache'[x]) => versionCache'[x].value \in 1 .. dbVersion
           /\ localVersions'[x] \in Nat \ {0}
  PROVE  NotAhead'
<1>1. cproc'[p] = q /\ \A r \in CProc \ {p} : cproc'[r] = cproc[r]
  BY DEF CacheInv, CGo
<1> QED
  BY <1>1 DEF NotAhead, Fresh

(* Every step keeps it so: a read answers what is stored, and what is stored *)
(* only grows.                                                               *)
LEMMA NotAheadStep ==
  ASSUME CacheInv, NotAhead, [CNext]_cVars
  PROVE  NotAhead'
<1> USE CacheConstants DEF rowVars, caches
<1>0. /\ \A x \in Replica : userCache[x] \in CEntry \cup {NoValue} /\ versionCache[x] \in CEntry \cup {NoValue}
      /\ \A p \in CProc : cproc[p] \in CState
  BY DEF CacheInv
<1>1. CASE CTick
  <2>1. ASSUME NEW e \in CEntry \cup {NoValue}, Fresh(Age(e)) PROVE Fresh(e) /\ Age(e).value = e.value
    BY <2>1 DEF Age, Fresh, CEntry
  <2>2. ASSUME NEW p \in CProc, cproc'[p].pc \in {"rowRead", "versionRead"}
        PROVE  cproc'[p].pc = cproc[p].pc /\ cproc'[p].value = cproc[p].value
    <3>1. cproc[p].pc # "idle"
      BY <1>1, <2>2 DEF CTick, CIdle
    <3>2. cproc'[p] = [cproc[p] EXCEPT !.at = @ + 1] /\ cproc[p] \in CState /\ cproc[p].pc # "served"
      BY <1>0, <1>1, <3>1 DEF CTick
    <3> QED
      BY <2>2, <3>1, <3>2 DEF CState, Loading
  <2>3. /\ \A x \in Replica : userCache'[x] = Age(userCache[x]) /\ versionCache'[x] = Age(versionCache[x])
        /\ UNCHANGED <<rowGen, dbVersion, sessions, localVersions>>
    BY <1>1 DEF CTick
  <2>4. \A x \in Replica :
          /\ Fresh(userCache'[x]) => userCache'[x].value <= rowGen
          /\ Fresh(versionCache'[x]) => versionCache'[x].value \in 1 .. dbVersion
    BY <1>0, <2>1, <2>3 DEF NotAhead
  <2>5. \A p \in CProc :
          /\ cproc'[p].pc = "rowRead" => cproc'[p].value <= rowGen
          /\ cproc'[p].pc = "versionRead" => cproc'[p].value \in 1 .. dbVersion
    BY <2>2 DEF NotAhead
  <2> QED
    BY <2>3, <2>4, <2>5 DEF NotAhead, Fresh
<1>2. ASSUME NEW p \in CProc, VerifyAuth(p) PROVE NotAhead'
  <2>1. PICK q \in Loading : CGo(p, q) /\ q.pc \in {"load", "fresh"}
    BY <1>2 DEF VerifyAuth, Loading
  <2> QED
    BY <1>2, <2>1, StaysBehind DEF VerifyAuth, NotAhead
<1>3. ASSUME NEW p \in CProc, ReadVersion(p) PROVE NotAhead'
  <2>1. cproc[p] \in Loading
    BY <1>0, <1>3 DEF ReadVersion, CState
  <2>2. /\ dbVersion \in 1 .. dbVersion /\ localVersions[cproc[p].replica] \in Nat
        /\ Fresh(versionCache[cproc[p].replica]) => versionCache[cproc[p].replica].value \in Nat
    BY <2>1 DEF CacheInv, Loading, Fresh, CEntry, NotAhead
  <2> DEFINE carried(l, v) == [cproc[p] EXCEPT !.pc = l, !.at = 0, !.value = v]
  <2>3. \/ CGo(p, carried("match", versionCache[cproc[p].replica].value)) /\ Fresh(versionCache[cproc[p].replica])
        \/ CGo(p, carried("versionRead", dbVersion))
        \/ CGo(p, carried("match", localVersions[cproc[p].replica]))
    BY <1>3 DEF ReadVersion
  <2>4. \A v \in Nat, l \in {"versionRead", "match"} : carried(l, v).pc = l /\ carried(l, v).value = v
    BY <2>1 DEF Loading
  <2> HIDE DEF carried
  <2>5. PICK q : CGo(p, q) /\ q.pc # "rowRead" /\ (q.pc = "versionRead" => q.value = dbVersion)
    BY <2>2, <2>3, <2>4
  <2> QED
    BY <1>3, <2>2, <2>5, StaysBehind DEF ReadVersion, NotAhead
<1>4. ASSUME NEW p \in CProc, StoreVersion(p) PROVE NotAhead'
  <2> DEFINE q == [cproc[p] EXCEPT !.pc = "match"]
  <2>1. cproc[p] \in Loading
    BY <1>0, <1>4 DEF StoreVersion, CState
  <2>2. q.pc = "match" /\ CGo(p, q)
    BY <1>4, <2>1 DEF StoreVersion, Loading
  <2>3. cproc[p].value \in 1 .. dbVersion
    BY <1>4 DEF StoreVersion, NotAhead
  <2>4. \A x \in Replica : versionCache'[x] = IF x = cproc[p].replica
                                              THEN Entry(cproc[p].value, VersionCacheTTL)
                                              ELSE versionCache[x]
    BY <1>4 DEF StoreVersion, CacheInv
  <2>5. \A x \in Replica : Fresh(versionCache'[x]) => versionCache'[x].value \in 1 .. dbVersion
    BY <2>3, <2>4 DEF NotAhead, Entry
  <2> HIDE DEF q
  <2> QED
    BY <1>4, <2>2, <2>5, StaysBehind DEF StoreVersion, NotAhead
<1>5. ASSUME NEW p \in CProc, MatchVersion(p) PROVE NotAhead'
  <2>1. cproc[p] \in Loading
    BY <1>0, <1>5 DEF MatchVersion, CState
  <2>2. PICK q : CGo(p, q) /\ q.pc \in {"served", "readRow"}
    <3> DEFINE a == [pc |-> "served", gen |-> userCache[cproc[p].replica].value]
               b == [cproc[p] EXCEPT !.pc = "readRow", !.at = 0, !.value = 0]
    <3>1. CGo(p, a) \/ CGo(p, b)
      BY <1>5 DEF MatchVersion, Serve, Step
    <3>2. a.pc = "served" /\ b.pc = "readRow"
      BY <2>1 DEF Loading
    <3> HIDE DEF a, b
    <3> QED
      BY <3>1, <3>2
  <2> QED
    BY <1>5, <2>2, StaysBehind DEF MatchVersion, NotAhead
<1>6. ASSUME NEW p \in CProc, DropCached(p) PROVE NotAhead'
  <2> DEFINE q == [cproc[p] EXCEPT !.pc = "readRow", !.at = 0, !.value = 0]
  <2>1. cproc[p] \in Loading
    BY <1>0, <1>6 DEF DropCached, CState
  <2>2. q.pc = "readRow" /\ CGo(p, q)
    BY <1>6, <2>1 DEF DropCached, Step, Loading
  <2>3. \A x \in Replica : userCache'[x] \in {userCache[x], NoValue} /\ versionCache'[x] \in {versionCache[x], NoValue}
    BY <1>6 DEF DropCached, CacheInv
  <2> HIDE DEF q
  <2> QED
    BY <1>6, <2>2, <2>3, StaysBehind DEF DropCached, NotAhead, Fresh
<1>7. ASSUME NEW p \in CProc, ReadRow(p) PROVE NotAhead'
  <2> DEFINE q == [cproc[p] EXCEPT !.pc = "rowRead", !.at = 0, !.value = rowGen]
  <2>1. cproc[p] \in Loading
    BY <1>0, <1>7 DEF ReadRow, CState
  <2>2. q.value = rowGen /\ q.pc = "rowRead" /\ rowGen \in Nat
    BY <2>1 DEF CacheInv, Loading
  <2> HIDE DEF q
  <2>3. CGo(p, CIdle) \/ CGo(p, q)
    BY <1>7 DEF ReadRow, q
  <2> QED
    BY <1>7, <2>2, <2>3, StaysBehind DEF ReadRow, NotAhead, CIdle
<1>8. ASSUME NEW p \in CProc, StoreUser(p) PROVE NotAhead'
  <2> DEFINE q == [pc |-> "served", gen |-> cproc[p].value]
  <2>1. q.pc = "served" /\ CGo(p, q) /\ cproc[p].value <= rowGen
    BY <1>8 DEF StoreUser, Serve, NotAhead
  <2>2. \A x \in Replica : userCache'[x] = IF x = cproc[p].replica
                                           THEN Entry(cproc[p].value, UserCacheTTL) ELSE userCache[x]
    BY <1>8 DEF StoreUser, CacheInv
  <2>3. \A x \in Replica : Fresh(userCache'[x]) => userCache'[x].value <= rowGen
    BY <2>1, <2>2 DEF NotAhead, Entry
  <2> HIDE DEF q
  <2> QED
    BY <1>8, <2>1, <2>3, StaysBehind DEF StoreUser, NotAhead
<1>9. ASSUME NEW p \in CProc, Respond(p) PROVE NotAhead'
  BY <1>9, StaysBehind DEF Respond, CIdle, NotAhead
<1>10. ASSUME NEW p \in CProc, ChangeRow(p) PROVE NotAhead'
  <2>1. PICK q : CGo(p, q) /\ q.pc = "invalidate"
    <3>1. PICK x \in Replica : CGo(p, [pc |-> "invalidate", at |-> 0, replica |-> x, value |-> 0])
      BY <1>10 DEF ChangeRow
    <3> QED
      BY <3>1
  <2>2. cproc'[p] = q /\ \A r \in CProc \ {p} : cproc'[r] = cproc[r]
    BY <2>1 DEF CacheInv, CGo
  <2>3. rowGen' = rowGen + 1 /\ rowGen' \in 0 .. MaxGen /\ rowGen \in Nat
    BY <1>10 DEF ChangeRow, NotAhead
  <2>4. \A r \in CProc : cproc'[r].pc = "rowRead" => cproc'[r].value <= rowGen'
    <3>1. ASSUME NEW r \in CProc, cproc'[r].pc = "rowRead" PROVE cproc'[r].value <= rowGen'
      <4>1. cproc'[r] = cproc[r] /\ cproc[r].value \in Nat /\ cproc[r].value <= rowGen
        BY <1>0, <2>1, <2>2, <3>1 DEF NotAhead, CState, Loading
      <4> QED
        BY <2>3, <4>1
    <3> QED
      BY <3>1
  <2>5. \A r \in CProc : cproc'[r].pc = "versionRead" => cproc'[r].value \in 1 .. dbVersion
    BY <2>1, <2>2 DEF NotAhead
  <2>6. \A x \in Replica : Fresh(userCache[x]) => userCache[x].value <= rowGen'
    BY <1>0, <2>3 DEF NotAhead, Fresh, CEntry
  <2> QED
    BY <1>10, <2>3, <2>4, <2>5, <2>6 DEF ChangeRow, NotAhead, Fresh
<1>11. ASSUME NEW p \in CProc, InvalidateUser(p) PROVE NotAhead'
  <2> DEFINE q == [cproc[p] EXCEPT !.pc = "bump", !.at = 0, !.value = 0]
  <2>1. q.pc = "bump" /\ CGo(p, q)
    BY <1>0, <1>11 DEF InvalidateUser, Step, CState, Loading
  <2>2. \A x \in Replica : userCache'[x] \in {userCache[x], NoValue} /\ versionCache'[x] \in {versionCache[x], NoValue}
    BY <1>11 DEF InvalidateUser, CacheInv
  <2> HIDE DEF q
  <2> QED
    BY <1>11, <2>1, <2>2, StaysBehind DEF InvalidateUser, NotAhead, Fresh
<1>12. ASSUME NEW p \in CProc, BumpUserVersion(p) PROVE NotAhead'
  <2>1. cproc[p].replica \in Replica
    BY <1>0, <1>12 DEF BumpUserVersion, CState, Loading
  <2>2. cproc'[p] = CIdle /\ \A r \in CProc \ {p} : cproc'[r] = cproc[r]
    BY <1>12 DEF BumpUserVersion, CGo, CacheInv
  <2>3. dbVersion \in Nat \ {0} /\ dbVersion' \in {dbVersion, dbVersion + 1}
    BY <1>12 DEF BumpUserVersion, NotAhead
  <2>4. \A r \in CProc : cproc'[r].pc = "versionRead" => cproc'[r].value \in 1 .. dbVersion'
    BY <2>2, <2>3 DEF NotAhead, CIdle
  <2>5. ASSUME NEW x \in Replica
        PROVE  /\ Fresh(versionCache'[x]) => versionCache'[x].value \in 1 .. dbVersion'
               /\ localVersions'[x] \in Nat \ {0}
    <3>1. \/ versionCache'[x] = versionCache[x]
          \/ versionCache'[x] = Entry(dbVersion + 1, VersionCacheTTL) /\ dbVersion' = dbVersion + 1
      BY <1>12 DEF BumpUserVersion, CacheInv
    <3>2. localVersions'[x] \in {localVersions[x], localVersions[x] + 1, dbVersion + 1}
      BY <1>12 DEF BumpUserVersion, CacheInv
    <3> QED
      BY <2>3, <3>1, <3>2 DEF NotAhead, Entry
  <2>6. \A k \in CToken : sessions[k] # NoValue => sessions[k] \in 1 .. dbVersion'
    BY <2>3 DEF NotAhead
  <2>7. \A r \in CProc : cproc'[r].pc = "rowRead" => cproc'[r].value <= rowGen
    BY <2>2 DEF NotAhead, CIdle
  <2> QED
    BY <1>12, <2>3, <2>4, <2>5, <2>6, <2>7 DEF BumpUserVersion, NotAhead, Fresh
<1>13. ASSUME NEW p \in CProc, CreateSession(p) PROVE NotAhead'
  <2>1. PICK k \in CToken, x \in Replica :
          IF Fresh(versionCache[x])
          THEN sessions' = [sessions EXCEPT ![k] = versionCache[x].value] /\ UNCHANGED versionCache
          ELSE /\ sessions' = [sessions EXCEPT ![k] = dbVersion]
               /\ versionCache' = [versionCache EXCEPT ![x] = Entry(dbVersion, VersionCacheTTL)]
    BY <1>13 DEF CreateSession
  <2>2. dbVersion \in 1 .. dbVersion
    BY DEF NotAhead
  <2>3. /\ sessions' = [l \in CToken |-> sessions'[l]]
        /\ \A l \in CToken : sessions'[l] # NoValue => sessions'[l] \in 1 .. dbVersion
    BY <2>1, <2>2 DEF NotAhead
  <2>4. \A y \in Replica : Fresh(versionCache'[y]) => versionCache'[y].value \in 1 .. dbVersion
    BY <2>1, <2>2 DEF NotAhead, CacheInv, Entry
  <2> QED
    BY <1>13, <2>3, <2>4 DEF CreateSession, NotAhead, Fresh
<1>14. CASE UNCHANGED cVars
  BY <1>14 DEF cVars, NotAhead, Fresh
<1> QED
  BY <1>1, <1>2, <1>3, <1>4, <1>5, <1>6, <1>7, <1>8, <1>9, <1>10, <1>11, <1>12, <1>13, <1>14
  DEF CNext

(* A change of a user is in force on every replica within one cache lifetime *)
(* and the time of one load, for any number of replicas, requests and        *)
(* changes, and no session or cache is ahead of the stored version           *)
(* (LoadUserForSession, LoadUserFresh, InvalidateUser).                      *)
THEOREM CacheSafe == CSpec => [](CTypeOK /\ StaleBounded)
<1>1. CInit => CacheInv
  BY CacheConstants
  DEF CInit, CacheInv, LoadOK, CachedOK, CState, Visible, UserCacheTTL, Fresh, CIdle
<1>2. CacheInv /\ NotAhead => CTypeOK /\ StaleBounded
  BY DEF CacheInv, NotAhead, LoadOK, StaleBounded, CTypeOK
<1>3. CInit => NotAhead
  BY CacheConstants DEF CInit, NotAhead, Fresh, CIdle
<1> QED
  BY <1>1, <1>2, <1>3, CacheStep, NotAheadStep, PTL DEF CSpec
============================================================================

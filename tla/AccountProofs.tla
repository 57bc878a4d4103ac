--------------------------- MODULE AccountProofs ---------------------------
(***************************************************************************)
(* What the administration of users and of NATS accounts promises, proved  *)
(* for any number of users, requests, replicas, NATS users and key pairs.  *)
(***************************************************************************)
EXTENDS UserAdmin, NatsAccounts, FiniteSetTheorems, TLAPS

(* NATS users: what a request in flight carries.                             *)
MintRow == [group : GroupName, own : Perms \cup {None}, key : 1 .. MaxKey]

NShape(q) ==
  /\ q.pc \in {"idle", "insert", "update", "rotate", "mint", "delete", "assignRead", "assign",
               "dropGroup"}
  /\ q.pc = "insert" =>
       /\ q = [pc |-> "insert", n |-> q.n, group |-> q.group, own |-> q.own]
       /\ q.n \in NUser /\ q.group \in GroupName /\ q.own \in Perms \cup {None}
  /\ q.pc = "update" =>
       q = [pc |-> "update", n |-> q.n, key |-> q.key] /\ q.n \in NUser /\ q.key \in 1 .. MaxKey
  /\ q.pc \in {"rotate", "mint"} =>
       q = [pc |-> q.pc, n |-> q.n, row |-> q.row] /\ q.n \in NUser /\ q.row \in MintRow
  /\ q.pc = "delete" =>
       /\ q = [pc |-> "delete", n |-> q.n, gone |-> q.gone]
       /\ q.n \in NUser /\ \A s \in q.gone : s[2] = q.n
  /\ q.pc = "assignRead" =>
       /\ q = [pc |-> "assignRead", n |-> q.n, to |-> q.to]
       /\ q.n \in NUser /\ q.to \in Person \cup {None}
  /\ q.pc = "assign" =>
       /\ q = [pc |-> "assign", n |-> q.n, to |-> q.to, prev |-> q.prev]
       /\ q.n \in NUser /\ q.to \in Person \cup {None}
  /\ q.pc = "dropGroup" => q.group \in GroupName

(* Request p is about to write the credentials of n, or to make or delete it. *)
Works(p, n) ==
  nproc[p].pc \in {"insert", "update", "rotate", "mint", "delete"} /\ nproc[p].n = n

Mints(p, n) == nproc[p].pc = "mint" /\ nproc[p].n = n

(* What a request read of the row is still what the row says.                *)
Fits(q, n, row) ==
  /\ q.pc = "mint" /\ q.n = n => q.row.key = row.key /\ q.row.own = row.own
  /\ q.pc = "update" /\ q.n = n => q.key = row.key
  /\ q.pc = "rotate" /\ q.n = n => q.row.own = row.own

JWTFits(row) == row.jwt.key = row.key /\ (row.own # None => row.jwt.perms = row.own)

(* A NATS user no two requests wrote at once has one writer at most, which   *)
(* knows the row; and a JWT that fits, unless that writer is about to store  *)
(* one.                                                                      *)
Settled(n) ==
  /\ \A p, q \in NProc : Works(p, n) /\ Works(q, n) => p = q
  /\ nusers[n] # None =>
       /\ \A p \in NProc : Fits(nproc[p], n, nusers[n])
       /\ (\A p \in NProc : ~Mints(p, n)) => JWTFits(nusers[n])

Holds(n) == nusers[n] # None /\ nusers[n].assigned # None => <<nusers[n].assigned, n>> \in shares

AccountInv ==
  /\ NTypeOK
  /\ nproc = [p \in NProc |-> nproc[p]]
  /\ \A p \in NProc : NShape(nproc[p])
  /\ \A n \in NUser : Holds(n)
  /\ \A n \in NUser \ unsettled : Settled(n)

LEMMA AccountStart == NInit => AccountInv
<1> SUFFICES ASSUME NInit PROVE AccountInv
  OBVIOUS
<1>1. NTypeOK
  BY NatsAccountConstants DEF NInit, NTypeOK
<1>2. \A p \in NProc : nproc[p] = NIdle
  BY DEF NInit
<1>3. \A p \in NProc : NShape(nproc[p])
  BY <1>2 DEF NShape, NIdle
<1>4. \A n \in NUser : nusers[n] = None
  BY DEF NInit
<1>5. \A n \in NUser : Holds(n) /\ Settled(n)
  BY <1>2, <1>4 DEF Holds, Settled, Works, NIdle
<1> QED
  BY <1>1, <1>3, <1>5 DEF AccountInv, NInit

(* A step that leaves the row of n alone, and changes no request but one     *)
(* that stops working on n, or never did, without owing it a JWT.            *)
LEMMA Elsewhere ==
  ASSUME NEW n \in NUser, Settled(n), nusers'[n] = nusers[n],
         \A p \in NProc : nproc'[p] = nproc[p] \/ (~Mints(p, n) /\ ~Works(p, n)')
  PROVE  Settled(n)'
<1>1. \A p \in NProc : Works(p, n)' => Works(p, n)
  BY DEF Works
<1>2. nusers[n] # None => \A p \in NProc : Fits(nproc'[p], n, nusers'[n])
  <2> SUFFICES ASSUME nusers[n] # None, NEW p \in NProc PROVE Fits(nproc'[p], n, nusers'[n])
    OBVIOUS
  <2>1. CASE nproc'[p] = nproc[p]
    BY <2>1 DEF Settled
  <2>2. CASE ~Works(p, n)'
    BY <2>2 DEF Works, Fits
  <2> QED
    BY <2>1, <2>2
<1>3. (\A p \in NProc : ~Mints(p, n)') => \A p \in NProc : ~Mints(p, n)
  BY DEF Mints
<1> QED
  BY <1>1, <1>2, <1>3 DEF Settled

(* A request starts on n, alone, with what it read of the row.               *)
LEMMA Begins ==
  ASSUME AccountInv, NEW n \in NUser, NEW p \in NProc, NEW next, NGo(p, next), nusers' = nusers,
         nproc[p].pc = "idle", ~Races(p, n),
         n \notin unsettled \/ nusers[n] = None, next.n = n,
         nusers[n] # None => Fits(next, n, nusers[n])
  PROVE  Settled(n)'
<1>1. /\ nproc'[p] = next
      /\ \A q \in NProc \ {p} : nproc'[q] = nproc[q]
  BY DEF NGo, AccountInv
<1>2. \A q \in NProc : ~Works(q, n)
  BY DEF Works, Races, AccountInv, NShape
<1>3. \A q \in NProc \ {p} : ~Works(q, n)'
  BY <1>1, <1>2 DEF Works
<1>4. \A q \in NProc : ~Mints(q, n)
  BY <1>2 DEF Mints, Works
<1>5. nusers[n] # None => Settled(n)
  BY DEF AccountInv
<1>6. \A q \in NProc \ {p} : nusers[n] # None => Fits(nproc'[q], n, nusers'[n])
  BY <1>1, <1>5 DEF Settled
<1> QED
  BY <1>1, <1>3, <1>4, <1>5, <1>6 DEF Settled

(* One request moves.                                                        *)
LEMMA RequestGoes ==
  ASSUME AccountInv, NEW p \in NProc, NEW next, NGo(p, next), NShape(next)
  PROVE  /\ nproc'[p] = next /\ \A q \in NProc \ {p} : nproc'[q] = nproc[q]
         /\ nproc' = [q \in NProc |-> nproc'[q]]
         /\ \A q \in NProc : NShape(nproc'[q])
<1>1. /\ nproc'[p] = next /\ \A q \in NProc \ {p} : nproc'[q] = nproc[q]
      /\ nproc' = [q \in NProc |-> nproc'[q]]
  BY DEF NGo, AccountInv
<1> QED
  BY <1>1 DEF AccountInv

(* It moves to where it writes no credentials, and owes no JWT.              *)
LEMMA GoesIdle ==
  ASSUME AccountInv, NEW p \in NProc, NEW next, NGo(p, next), NShape(next),
         next.pc \in {"idle", "assignRead", "assign", "dropGroup"},
         nproc[p].pc = "mint" => nproc[p].n \in unsettled',
         NTypeOK', unsettled \subseteq unsettled', UNCHANGED <<nusers, shares>>
  PROVE  AccountInv'
<1>1. /\ nproc'[p] = next /\ \A q \in NProc \ {p} : nproc'[q] = nproc[q]
      /\ nproc' = [q \in NProc |-> nproc'[q]]
      /\ \A q \in NProc : NShape(nproc'[q])
  BY RequestGoes
<1>2. ASSUME NEW n \in NUser, n \notin unsettled' PROVE Settled(n)'
  <2>1. ~Mints(p, n) /\ ~Works(p, n)'
    BY <1>1, <1>2 DEF Mints, Works
  <2>2. Settled(n)
    BY <1>2 DEF AccountInv
  <2>3. \A q \in NProc : nproc'[q] = nproc[q] \/ (~Mints(q, n) /\ ~Works(q, n)')
    BY <1>1, <2>1
  <2> QED
    BY <2>2, <2>3, Elsewhere
<1>3. \A n \in NUser : Holds(n)'
  BY DEF AccountInv, Holds
<1> QED
  BY <1>1, <1>2, <1>3 DEF AccountInv

(* It starts to write n: alone, or n is no longer settled.                   *)
LEMMA GoesToWork ==
  ASSUME AccountInv, NEW p \in NProc, NEW n \in NUser, NEW next, NGo(p, next), NShape(next),
         nproc[p].pc = "idle", next.n = n,
         nusers[n] # None => Fits(next, n, nusers[n]),
         \/ nusers[n] = None /\ ~Races(p, n) /\ unsettled' = unsettled \ {n}
         \/ Writing(p, n),
         NTypeOK', UNCHANGED <<nusers, shares>>
  PROVE  AccountInv'
<1>1. /\ nproc'[p] = next /\ \A q \in NProc \ {p} : nproc'[q] = nproc[q]
      /\ nproc' = [q \in NProc |-> nproc'[q]]
      /\ \A q \in NProc : NShape(nproc'[q])
  BY RequestGoes
<1>2. ASSUME NEW m \in NUser \ {n}, m \notin unsettled' PROVE Settled(m)'
  <2>1. ~Mints(p, m) /\ ~Works(p, m)'
    BY <1>1 DEF Mints, Works
  <2>2. Settled(m)
    BY <1>2 DEF AccountInv, Writing
  <2>3. \A q \in NProc : nproc'[q] = nproc[q] \/ (~Mints(q, m) /\ ~Works(q, m)')
    BY <1>1, <2>1
  <2> QED
    BY <2>2, <2>3, Elsewhere
<1>3. ASSUME n \notin unsettled' PROVE Settled(n)'
  <2>1. ~Races(p, n) /\ (n \notin unsettled \/ nusers[n] = None)
    BY <1>3 DEF Writing
  <2> QED
    BY <2>1, Begins
<1>4. \A m \in NUser : Holds(m)'
  BY DEF AccountInv, Holds
<1> QED
  BY <1>1, <1>2, <1>3, <1>4 DEF AccountInv

(* The one request that works on n leaves a row its JWT fits, or none, or    *)
(* goes on to store the JWT of the row it leaves.                            *)
LEMMA LeavesRow ==
  ASSUME AccountInv, NEW p \in NProc, NEW n \in NUser \ unsettled, Works(p, n),
         \A q \in NProc \ {p} : nproc'[q] = nproc[q],
         \/ nproc'[p].pc = "idle" /\ (nusers'[n] # None => JWTFits(nusers'[n]))
         \/ Mints(p, n)' /\ (nusers'[n] # None => Fits(nproc'[p], n, nusers'[n]))
  PROVE  Settled(n)'
<1>1. \A q \in NProc \ {p} : ~Works(q, n)
  BY DEF AccountInv, Settled
<1>2. \A q \in NProc \ {p} : ~Works(q, n)' /\ Fits(nproc'[q], n, nusers'[n])
  BY <1>1 DEF Works, Fits
<1>3. nusers'[n] # None => Fits(nproc'[p], n, nusers'[n])
  BY DEF Fits
<1> QED
  BY <1>2, <1>3 DEF Settled, Mints

(* A request writes the row of its n.                                        *)
LEMMA RowWritten ==
  ASSUME AccountInv, NEW p \in NProc, NEW next, NGo(p, next), NShape(next), NEW n \in NUser,
         nproc[p].pc # "idle", nproc[p].n = n,
         next.pc # "idle" => next.n = n,
         NEW row \in {None} \cup NRow, nusers' = [nusers EXCEPT ![n] = row],
         Holds(n)', n \notin unsettled => Settled(n)',
         \A x \in Person, m \in NUser \ {n} : <<x, m>> \in shares => <<x, m>> \in shares',
         shares' \subseteq Person \X NUser,
         UNCHANGED <<groups, active, promised, unsettled>>
  PROVE  AccountInv'
<1>1. /\ nproc'[p] = next /\ \A q \in NProc \ {p} : nproc'[q] = nproc[q]
      /\ nproc' = [q \in NProc |-> nproc'[q]]
      /\ \A q \in NProc : NShape(nproc'[q])
  BY RequestGoes
<1>2. nusers \in [NUser -> {None} \cup NRow]
  BY DEF AccountInv, NTypeOK
<1>3. \A m \in NUser \ {n} : nusers'[m] = nusers[m]
  BY <1>2
<1>4. NTypeOK'
  BY <1>2 DEF AccountInv, NTypeOK
<1>5. ASSUME NEW m \in NUser \ {n}, m \notin unsettled' PROVE Settled(m)'
  <2>1. ~Mints(p, m) /\ ~Works(p, m)'
    BY <1>1 DEF Mints, Works
  <2>2. Settled(m)
    BY <1>5 DEF AccountInv
  <2>3. \A q \in NProc : nproc'[q] = nproc[q] \/ (~Mints(q, m) /\ ~Works(q, m)')
    BY <1>1, <2>1
  <2> QED
    BY <1>3, <2>2, <2>3, Elsewhere
<1>6. ASSUME NEW m \in NUser \ {n} PROVE Holds(m)'
  <2>1. nusers[m] # None => nusers[m].assigned \in Person \cup {None}
    BY <1>2 DEF NRow
  <2> QED
    BY <1>3, <2>1 DEF AccountInv, Holds
<1> QED
  BY <1>1, <1>4, <1>5, <1>6 DEF AccountInv

(* What a JWT is minted from, and the JWT.                                   *)
LEMMA MintedFits ==
  ASSUME AccountInv, NEW row, row.group \in GroupName, row.own \in Perms \cup {None},
         NEW key \in 1 .. MaxKey
  PROVE  /\ MintUserJWT(row, key) \in JWT /\ MintUserJWT(row, key).key = key
         /\ row.own # None => MintUserJWT(row, key).perms = row.own
<1>1. groups[row.group] # None => groups[row.group].perms \in Perms \cup {Unrestricted}
  BY DEF AccountInv, NTypeOK
<1>2. ResolveEffectivePerms(row.own, groups[row.group]) \in Perms \cup {Unrestricted}
  BY <1>1 DEF ResolveEffectivePerms
<1> QED
  BY <1>2 DEF MintUserJWT, JWT, ResolveEffectivePerms

LEMMA RowsAre ==
  ASSUME AccountInv, NEW n \in NUser, nusers[n] # None
  PROVE  /\ nusers[n] \in NRow
         /\ Minted(nusers[n]) \in MintRow
         /\ Minted(nusers[n]).own = nusers[n].own /\ Minted(nusers[n]).key = nusers[n].key
  BY DEF AccountInv, NTypeOK, NRow, MintRow, Minted

LEMMA AccountStep == ASSUME AccountInv, [NNext]_nVars PROVE AccountInv'
<1> USE NatsAccountConstants
<1>0. NTypeOK /\ nusers \in [NUser -> {None} \cup NRow]
  BY DEF AccountInv, NTypeOK
<1>a. ASSUME UNCHANGED <<nusers, groups, active, promised, shares>>, unsettled' \subseteq NUser
      PROVE  NTypeOK'
  BY <1>0, <1>a DEF NTypeOK
<1>b. NShape(NIdle) /\ NIdle.pc = "idle"
  BY DEF NShape, NIdle
<1>c. ASSUME EnsureDefaultSigningGroup, UNCHANGED <<nusers, active, promised, shares>>,
             unsettled' \subseteq NUser
      PROVE  NTypeOK'
  BY <1>0, <1>c DEF NTypeOK, EnsureDefaultSigningGroup
<1>d. ASSUME NTypeOK', UNCHANGED <<nusers, shares, unsettled, nproc>> PROVE AccountInv'
  BY <1>d DEF AccountInv, Holds, Settled, Works, Mints
<1>1. ASSUME NEW p \in NProc, CreateNATSUser(p) PROVE AccountInv'
  <2>1. PICK n \in NUser, c \in Config :
          /\ nusers[n] = None /\ ~Races(p, n)
          /\ NGo(p, [pc |-> "insert", n |-> n, group |-> c.group, own |-> c.own])
          /\ unsettled' = unsettled \ {n}
    BY <1>1 DEF CreateNATSUser
  <2> DEFINE next == [pc |-> "insert", n |-> n, group |-> c.group, own |-> c.own]
  <2>2. NShape(next) /\ next.n = n
    BY DEF NShape, Config
  <2>3. NTypeOK'
    BY <1>0, <1>1, <1>c, <2>1 DEF CreateNATSUser, NTypeOK
  <2> HIDE DEF next
  <2> QED
    BY <1>1, <2>1, <2>2, <2>3, GoesToWork DEF CreateNATSUser, next
<1>2. ASSUME NEW p \in NProc, InsertNATSUser(p) PROVE AccountInv'
  <2>0. PICK n \in NUser : n = nproc[p].n
    BY <1>2 DEF InsertNATSUser, AccountInv, NShape
  <2> DEFINE q == nproc[p]
             row == [group |-> q.group, own |-> q.own, key |-> 1, seedKey |-> active,
                     jwt |-> None, assigned |-> None]
             new == [row EXCEPT !.jwt = MintUserJWT(row, 1)]
  <2>1. /\ q.pc = "insert" /\ nusers[n] = None /\ NGo(p, NIdle)
        /\ nusers' = [nusers EXCEPT ![n] = new]
        /\ UNCHANGED <<groups, shares, active, promised, unsettled>>
    BY <1>2, <2>0 DEF InsertNATSUser
  <2>2. n \in NUser /\ q.group \in GroupName /\ q.own \in Perms \cup {None}
    BY <2>0, <2>1 DEF AccountInv, NShape
  <2>3. row.group = q.group /\ row.own = q.own
    OBVIOUS
  <2> DEFINE j == MintUserJWT(row, 1)
  <2>4. j \in JWT /\ j.key = 1 /\ (q.own # None => j.perms = q.own)
    BY <2>2, <2>3, MintedFits
  <2>5. new = [group |-> q.group, own |-> q.own, key |-> 1, seedKey |-> active, jwt |-> j,
               assigned |-> None]
    <3> HIDE DEF j
    <3>1. [row EXCEPT !.jwt = j] = [group |-> q.group, own |-> q.own, key |-> 1, seedKey |-> active,
                                    jwt |-> j, assigned |-> None]
      OBVIOUS
    <3> QED
      BY <3>1 DEF j
  <2> HIDE DEF j, new, row
  <2>6. new \in NRow
    BY <1>0, <2>2, <2>4, <2>5 DEF NRow, NTypeOK
  <2>7. nusers'[n] = new /\ JWTFits(new) /\ new.assigned = None
    BY <1>0, <2>0, <2>1, <2>2, <2>4, <2>5 DEF JWTFits
  <2>8. nproc'[p] = NIdle /\ \A x \in NProc \ {p} : nproc'[x] = nproc[x]
    BY <1>b, <2>0, <2>1, RequestGoes
  <2>9. n \notin unsettled => Settled(n)'
    BY <1>b, <2>0, <2>1, <2>2, <2>7, <2>8, LeavesRow DEF Works
  <2>10. Holds(n)'
    BY <2>7 DEF Holds
  <2>11. shares' \subseteq Person \X NUser
    BY <1>0, <2>0, <2>1 DEF NTypeOK
  <2> QED
    BY <1>b, <2>0, <2>1, <2>2, <2>6, <2>9, <2>10, <2>11, RowWritten
<1>3. ASSUME NEW p \in NProc, BeginDelete(p) PROVE AccountInv'
  <2>1. PICK n \in NUser :
          /\ nusers[n] # None
          /\ NGo(p, [pc |-> "delete", n |-> n, gone |-> {s \in shares : s[2] = n}])
          /\ Writing(p, n)
    BY <1>3 DEF BeginDelete
  <2> DEFINE next == [pc |-> "delete", n |-> n, gone |-> {s \in shares : s[2] = n}]
  <2>2. NShape(next) /\ next.n = n /\ Fits(next, n, nusers[n])
    BY DEF NShape, Fits
  <2>3. NTypeOK'
    BY <1>0, <1>3, <1>a, <2>1 DEF BeginDelete, NTypeOK, Writing
  <2> HIDE DEF next
  <2> QED
    BY <1>3, <2>1, <2>2, <2>3, GoesToWork DEF BeginDelete, next
<1>4. ASSUME NEW p \in NProc, DeleteRow(p) PROVE AccountInv'
  <2>0. PICK n \in NUser : n = nproc[p].n
    BY <1>4 DEF DeleteRow, AccountInv, NShape
  <2>1. /\ nproc[p].pc = "delete" /\ NGo(p, NIdle)
        /\ IF nusers[n] = None THEN UNCHANGED <<nusers, shares>>
           ELSE nusers' = [nusers EXCEPT ![n] = None] /\ shares' = shares \ nproc[p].gone
        /\ UNCHANGED <<groups, active, promised, unsettled>>
    BY <1>4, <2>0 DEF DeleteRow
  <2>2. n \in NUser /\ \A s \in nproc[p].gone : s[2] = n
    BY <2>0, <2>1 DEF AccountInv, NShape
  <2>3. nusers' = [nusers EXCEPT ![n] = None] /\ nusers'[n] = None
    BY <1>0, <2>0, <2>1, <2>2
  <2>4. nproc'[p] = NIdle /\ \A x \in NProc \ {p} : nproc'[x] = nproc[x]
    BY <1>b, <2>0, <2>1, RequestGoes
  <2>5. n \notin unsettled => Settled(n)'
    BY <1>b, <2>0, <2>1, <2>2, <2>3, <2>4, LeavesRow DEF Works
  <2>6. /\ shares' \subseteq Person \X NUser
        /\ \A x \in Person, m \in NUser \ {n} : <<x, m>> \in shares => <<x, m>> \in shares'
    BY <1>0, <2>0, <2>1, <2>2 DEF NTypeOK
  <2>7. Holds(n)'
    BY <2>3 DEF Holds
  <2> QED
    BY <1>b, <2>0, <2>1, <2>2, <2>3, <2>5, <2>6, <2>7, RowWritten, ZenonT(60)
<1>5. ASSUME NEW p \in NProc, FailRequest(p) PROVE AccountInv'
  <2>1. nproc[p].pc = "mint" => nproc[p].n \in NUser
    BY DEF AccountInv, NShape
  <2>2. /\ unsettled \subseteq unsettled' /\ unsettled' \subseteq NUser
        /\ nproc[p].pc = "mint" => nproc[p].n \in unsettled'
    BY <1>0, <1>5, <2>1 DEF FailRequest, NTypeOK
  <2> QED
    BY <1>5, <1>a, <1>b, <2>2, GoesIdle DEF FailRequest
<1>6. ASSUME NEW p \in NProc, BeginUpdate(p) PROVE AccountInv'
  <2>1. PICK n \in NUser : BeginWrite(p, n, [pc |-> "update", n |-> n, key |-> nusers[n].key])
    BY <1>6 DEF BeginUpdate
  <2> DEFINE next == [pc |-> "update", n |-> n, key |-> nusers[n].key]
  <2>2. NShape(next) /\ next.n = n /\ Fits(next, n, nusers[n])
    BY <2>1, RowsAre DEF NShape, Fits, BeginWrite, NRow
  <2> HIDE DEF next
  <2> QED
    BY <1>0, <1>a, <2>1, <2>2, GoesToWork DEF BeginWrite, next, NTypeOK, Writing
<1>7. ASSUME NEW p \in NProc, BeginRotate(p) \/ MintJWT(p) PROVE AccountInv'
  <2>1. PICK n \in NUser, step \in {"rotate", "mint"} :
          BeginWrite(p, n, [pc |-> step, n |-> n, row |-> Minted(nusers[n])])
    BY <1>7 DEF BeginRotate, MintJWT
  <2> DEFINE next == [pc |-> step, n |-> n, row |-> Minted(nusers[n])]
  <2>2. NShape(next) /\ next.n = n /\ Fits(next, n, nusers[n])
    BY <2>1, RowsAre DEF NShape, Fits, BeginWrite
  <2> HIDE DEF next
  <2> QED
    BY <1>0, <1>a, <2>1, <2>2, GoesToWork DEF BeginWrite, next, NTypeOK, Writing
<1>8. ASSUME NEW p \in NProc, UpdateRow(p) PROVE AccountInv'
  <2>0. PICK n \in NUser : n = nproc[p].n
    BY <1>8 DEF UpdateRow, AccountInv, NShape
  <2> DEFINE q == nproc[p]
  <2>1. PICK c \in Config :
          LET row == [nusers[n] EXCEPT !.group = c.group, !.own = c.own]
          IN  IF nusers[n] = None THEN NGo(p, NIdle) /\ UNCHANGED nusers
              ELSE /\ nusers' = [nusers EXCEPT ![n] = row]
                   /\ NGo(p, [pc |-> "mint", n |-> n, row |-> [Minted(row) EXCEPT !.key = q.key]])
    BY <1>8, <2>0 DEF UpdateRow
  <2>2. q.pc = "update" /\ UNCHANGED <<groups, shares, active, promised, unsettled>>
    BY <1>8, <2>0 DEF UpdateRow
  <2>3. n \in NUser /\ q.key \in 1 .. MaxKey
    BY <2>2 DEF AccountInv, NShape
  <2>4. CASE nusers[n] = None
    BY <1>0, <1>a, <1>b, <2>0, <2>1, <2>2, <2>4, GoesIdle DEF NTypeOK
  <2>5. CASE nusers[n] # None
    <3> DEFINE row == [nusers[n] EXCEPT !.group = c.group, !.own = c.own]
               mrow == [Minted(row) EXCEPT !.key = q.key]
               next == [pc |-> "mint", n |-> n, row |-> mrow]
    <3>1. nusers' = [nusers EXCEPT ![n] = row] /\ NGo(p, next)
      BY <2>0, <2>1, <2>5
    <3>2. c.group \in GroupName /\ c.own \in Perms \cup {None}
      BY DEF Config
    <3>3. /\ row \in NRow /\ row.group = c.group /\ row.own = c.own /\ row.key = nusers[n].key
          /\ row.assigned = nusers[n].assigned
      BY <2>3, <2>5, <3>2, RowsAre, ZenonT(60) DEF NRow
    <3> HIDE DEF row
    <3>4. mrow \in MintRow /\ mrow.key = q.key /\ mrow.own = c.own
      BY <2>3, <3>2, <3>3 DEF Minted, MintRow
    <3> HIDE DEF mrow
    <3>5. NShape(next) /\ next.n = n
      BY <2>3, <3>4 DEF NShape
    <3>6. nproc'[p] = next /\ \A x \in NProc \ {p} : nproc'[x] = nproc[x]
      BY <3>1, <3>5, RequestGoes
    <3>7. nusers'[n] = row
      BY <1>0, <2>3, <3>1
    <3>8. ASSUME n \notin unsettled PROVE Settled(n)'
      <4>1. Settled(n)
        BY <2>3, <3>8 DEF AccountInv
      <4>2. q.key = row.key
        BY <2>0, <2>2, <2>5, <3>3, <4>1 DEF Settled, Fits
      <4>3. Fits(next, n, row)
        BY <3>3, <3>4, <4>2 DEF Fits
      <4>4. Works(p, n) /\ Mints(p, n)'
        BY <2>0, <2>2, <3>6 DEF Works, Mints
      <4> QED
        BY <2>3, <3>6, <3>7, <3>8, <4>3, <4>4, LeavesRow
    <3>9. Holds(n)'
      BY <2>2, <2>3, <2>5, <3>3, <3>7 DEF AccountInv, Holds
    <3>10. shares' \subseteq Person \X NUser
      BY <1>0, <2>2 DEF NTypeOK
    <3> HIDE DEF next
    <3> QED
      BY <2>0, <2>2, <2>3, <3>1, <3>3, <3>5, <3>8, <3>9, <3>10, RowWritten
  <2> QED
    BY <2>4, <2>5
<1>9. ASSUME NEW p \in NProc, StoreJWT(p) PROVE AccountInv'
  <2>0. PICK n \in NUser : n = nproc[p].n
    BY <1>9 DEF StoreJWT, AccountInv, NShape
  <2> DEFINE q == nproc[p]
             j == MintUserJWT(q.row, q.row.key)
             row == [nusers[n] EXCEPT !.jwt = j]
             new == IF nusers[n] = None THEN None ELSE row
  <2>1. /\ q.pc = "mint" /\ NGo(p, NIdle)
        /\ UNCHANGED <<groups, shares, active, promised, unsettled>>
        /\ nusers' = IF nusers[n] = None THEN nusers ELSE [nusers EXCEPT ![n].jwt = j]
    BY <1>9, <2>0 DEF StoreJWT
  <2>2. n \in NUser /\ q.row \in MintRow
    BY <2>0, <2>1 DEF AccountInv, NShape
  <2>3. nusers' = [nusers EXCEPT ![n] = new]
    BY <1>0, <2>0, <2>1, <2>2
  <2>4. j \in JWT /\ j.key = q.row.key /\ (q.row.own # None => j.perms = q.row.own)
    BY <2>2, MintedFits DEF MintRow
  <2> HIDE DEF j
  <2>5. nusers[n] # None =>
          /\ row \in NRow /\ row.key = nusers[n].key /\ row.own = nusers[n].own /\ row.jwt = j
          /\ row.assigned = nusers[n].assigned
    BY <2>2, <2>4, RowsAre DEF NRow
  <2> HIDE DEF row
  <2>6. new \in {None} \cup NRow /\ nusers'[n] = new
    BY <1>0, <2>2, <2>3, <2>5
  <2>7. nproc'[p] = NIdle /\ \A x \in NProc \ {p} : nproc'[x] = nproc[x]
    BY <1>b, <2>0, <2>1, RequestGoes
  <2>8. ASSUME n \notin unsettled PROVE Settled(n)'
    <3>1. Settled(n)
      BY <2>2, <2>8 DEF AccountInv
    <3>2. nusers[n] # None => q.row.key = nusers[n].key /\ q.row.own = nusers[n].own
      BY <2>0, <2>1, <3>1 DEF Settled, Fits
    <3>3. nusers[n] # None => JWTFits(row)
      BY <2>4, <2>5, <3>2 DEF JWTFits
    <3> QED
      BY <1>b, <2>0, <2>1, <2>2, <2>6, <2>7, <2>8, <3>3, LeavesRow, SMTT(30) DEF Works
  <2>9. Holds(n)'
    BY <2>0, <2>1, <2>2, <2>5, <2>6 DEF AccountInv, Holds
  <2>10. shares' \subseteq Person \X NUser
    BY <1>0, <2>0, <2>1 DEF NTypeOK
  <2> HIDE DEF new
  <2> QED
    BY <1>b, <2>0, <2>1, <2>2, <2>3, <2>6, <2>8, <2>9, <2>10, RowWritten
<1>10. ASSUME NEW p \in NProc, RotateKey(p) PROVE AccountInv'
  <2>0. PICK n \in NUser : n = nproc[p].n
    BY <1>10 DEF RotateKey, AccountInv, NShape
  <2> DEFINE q == nproc[p]
             j == MintUserJWT(q.row, nusers[n].key + 1)
             row == [nusers[n] EXCEPT !.key = @ + 1, !.seedKey = active, !.jwt = j]
             new == IF nusers[n] = None THEN None ELSE row
  <2>1. /\ q.pc = "rotate" /\ NGo(p, NIdle)
        /\ nusers[n] # None => nusers[n].key < MaxKey
        /\ UNCHANGED <<groups, shares, active, promised, unsettled>>
        /\ nusers' = IF nusers[n] = None THEN nusers
                     ELSE [nusers EXCEPT ![n].key = @ + 1, ![n].seedKey = active, ![n].jwt = j]
    BY <1>10, <2>0 DEF RotateKey
  <2>2. n \in NUser /\ q.row \in MintRow
    BY <2>0, <2>1 DEF AccountInv, NShape
  <2>3. nusers[n] # None => nusers[n] \in NRow /\ nusers[n].key + 1 \in 1 .. MaxKey
    <3>1. nusers[n] # None => nusers[n] \in NRow
      BY <2>2, RowsAre
    <3>2. nusers[n] # None => nusers[n].key \in 1 .. MaxKey
      BY <3>1 DEF NRow
    <3> QED
      BY <2>1, <3>1, <3>2
  <2>4. nusers[n] # None =>
          j \in JWT /\ j.key = nusers[n].key + 1 /\ (q.row.own # None => j.perms = q.row.own)
    BY <2>2, <2>3, MintedFits DEF MintRow
  <2> HIDE DEF j
  <2>5. nusers' = [nusers EXCEPT ![n] = new]
    BY <1>0, <2>0, <2>1, <2>2
  <2>6. nusers[n] # None =>
          /\ row \in NRow /\ row.key = nusers[n].key + 1 /\ row.own = nusers[n].own /\ row.jwt = j
          /\ row.assigned = nusers[n].assigned
    BY <1>0, <2>3, <2>4 DEF NRow, NTypeOK
  <2> HIDE DEF row
  <2>7. new \in {None} \cup NRow /\ nusers'[n] = new
    BY <1>0, <2>2, <2>5, <2>6
  <2>8. nproc'[p] = NIdle /\ \A x \in NProc \ {p} : nproc'[x] = nproc[x]
    BY <1>b, <2>0, <2>1, RequestGoes
  <2>9. ASSUME n \notin unsettled PROVE Settled(n)'
    <3>1. Settled(n)
      BY <2>2, <2>9 DEF AccountInv
    <3>2. nusers[n] # None => q.row.own = nusers[n].own
      BY <2>0, <2>1, <3>1 DEF Settled, Fits
    <3>3. nusers[n] # None => JWTFits(row)
      BY <2>4, <2>6, <3>2 DEF JWTFits
    <3> QED
      BY <1>b, <2>0, <2>1, <2>2, <2>7, <2>8, <2>9, <3>3, LeavesRow, ZenonT(60) DEF Works
  <2>10. Holds(n)'
    BY <2>0, <2>1, <2>2, <2>6, <2>7, SMTT(30) DEF AccountInv, Holds
  <2>11. shares' \subseteq Person \X NUser
    BY <1>0, <2>0, <2>1 DEF NTypeOK
  <2> HIDE DEF new
  <2> QED
    BY <1>b, <2>0, <2>1, <2>2, <2>5, <2>7, <2>9, <2>10, <2>11, RowWritten
<1>11. ASSUME NEW p \in NProc, BeginAssign(p) PROVE AccountInv'
  <2>1. PICK n \in NUser, to \in Person \cup {None} : NGo(p, [pc |-> "assignRead", n |-> n, to |-> to])
    BY <1>11 DEF BeginAssign
  <2>2. NShape([pc |-> "assignRead", n |-> n, to |-> to])
    BY DEF NShape
  <2> QED
    BY <1>0, <1>11, <1>a, <2>1, <2>2, GoesIdle DEF BeginAssign, NTypeOK
<1>12. ASSUME NEW p \in NProc, AssignRead(p) PROVE AccountInv'
  <2> DEFINE q == nproc[p]
             next == [pc |-> "assign", n |-> q.n, to |-> q.to, prev |-> nusers[q.n].assigned]
  <2>1. q.n \in NUser /\ q.to \in Person \cup {None}
    BY <1>12 DEF AssignRead, AccountInv, NShape
  <2>2. NShape(next) /\ next.pc = "assign"
    BY <2>1 DEF NShape
  <2>3. NGo(p, NIdle) \/ NGo(p, next)
    BY <1>12 DEF AssignRead
  <2> HIDE DEF next
  <2> QED
    BY <1>0, <1>12, <1>a, <1>b, <2>2, <2>3, GoesIdle DEF AssignRead, NTypeOK
<1>13. ASSUME NEW p \in NProc, AssignTx(p) PROVE AccountInv'
  <2>0. PICK n \in NUser : n = nproc[p].n
    BY <1>13 DEF AssignTx, AccountInv, NShape
  <2> DEFINE q == nproc[p]
             row == [nusers[n] EXCEPT !.assigned = q.to]
             new == IF nusers[n] = None THEN None ELSE row
  <2>1. /\ q.pc = "assign" /\ NGo(p, NIdle)
        /\ UNCHANGED <<groups, active, promised, unsettled>>
        /\ IF nusers[n] = None THEN UNCHANGED <<nusers, shares>>
           ELSE /\ nusers' = [nusers EXCEPT ![n].assigned = q.to]
                /\ shares' = Reassigned(n, q.prev, q.to)
    BY <1>13, <2>0 DEF AssignTx
  <2>2. n \in NUser /\ q.to \in Person \cup {None}
    BY <2>0, <2>1 DEF AccountInv, NShape
  <2>3. nusers' = [nusers EXCEPT ![n] = new]
    BY <1>0, <2>0, <2>1, <2>2
  <2>4. nusers[n] # None =>
          /\ row \in NRow /\ row.key = nusers[n].key /\ row.own = nusers[n].own
          /\ row.jwt = nusers[n].jwt /\ row.assigned = q.to
    BY <2>2, RowsAre DEF NRow
  <2> HIDE DEF row
  <2>5. new \in {None} \cup NRow /\ nusers'[n] = new
    BY <1>0, <2>2, <2>3, <2>4
  <2>6. /\ \A x \in Person, m \in NUser \ {n} : <<x, m>> \in shares => <<x, m>> \in shares'
        /\ shares' \subseteq Person \X NUser
        /\ nusers[n] # None /\ q.to # None => <<q.to, n>> \in shares'
    BY <1>0, <2>0, <2>1, <2>2 DEF NTypeOK, Reassigned
  <2>7. Holds(n)'
    BY <2>4, <2>5, <2>6 DEF Holds
  <2>8. nproc'[p] = NIdle /\ \A x \in NProc \ {p} : nproc'[x] = nproc[x]
    BY <1>b, <2>0, <2>1, RequestGoes
  <2>9. ASSUME n \notin unsettled PROVE Settled(n)'
    <3>1. Settled(n)
      BY <2>2, <2>9 DEF AccountInv
    <3>2. \A x \in NProc : Works(x, n)' => Works(x, n)
      BY <1>b, <2>8 DEF Works
    <3>3. \A x \in NProc : Mints(x, n) => Mints(x, n)'
      BY <2>0, <2>1, <2>8 DEF Mints
    <3>4. nusers'[n] # None => nusers[n] # None /\ nusers'[n] = row
      BY <2>5
    <3>5. ASSUME nusers'[n] # None, NEW x \in NProc PROVE Fits(nproc'[x], n, nusers'[n])
      <4>1. Fits(nproc[x], n, nusers[n])
        BY <3>1, <3>4, <3>5 DEF Settled
      <4>2. CASE x = p
        BY <1>b, <2>8, <4>2 DEF Fits
      <4>3. CASE x # p
        BY <2>4, <2>8, <3>4, <3>5, <4>1, <4>3 DEF Fits
      <4> QED
        BY <4>2, <4>3
    <3>6. nusers'[n] # None /\ JWTFits(nusers[n]) => JWTFits(nusers'[n])
      BY <2>4, <3>4 DEF JWTFits
    <3> QED
      BY <3>1, <3>2, <3>3, <3>4, <3>5, <3>6 DEF Settled
  <2> HIDE DEF new
  <2>10. nproc[p].pc # "idle" /\ NGo(p, NIdle) /\ UNCHANGED <<groups, active, promised, unsettled>>
    BY <2>1
  <2> QED
    <3>1. /\ shares' \subseteq Person \X NUser
          /\ \A x \in Person, m \in NUser \ {n} : <<x, m>> \in shares => <<x, m>> \in shares'
      BY <2>6
    <3> QED
      BY <1>b, <2>0, <2>3, <2>5, <2>7, <2>9, <2>10, <3>1, RowWritten, ZenonT(60)
<1>14. ASSUME NEW p \in NProc, ListSigningGroups(p) PROVE AccountInv'
  BY <1>0, <1>14, <1>c, <1>d DEF ListSigningGroups, NTypeOK
<1>15. ASSUME NEW g \in GroupName, NEW scoped \in BOOLEAN, NEW perms \in Perms,
              StoreGroup(g, scoped, perms), UNCHANGED <<nusers, shares, active, promised, unsettled>>
       PROVE  NTypeOK'
  BY <1>0, <1>15 DEF StoreGroup, NTypeOK
<1>16. ASSUME NEW p \in NProc, CreateSigningGroup(p) PROVE AccountInv'
  <2>1. NTypeOK' /\ UNCHANGED <<nusers, shares, unsettled>>
    BY <1>15, <1>16 DEF CreateSigningGroup
  <2>2. /\ \A q \in NProc : nproc'[q] = nproc[q] \/ (nproc[q].pc = "dropGroup" /\ nproc'[q] = NIdle)
        /\ nproc' = [q \in NProc |-> nproc'[q]]
    BY <1>16 DEF CreateSigningGroup
  <2>3. \A q \in NProc : NShape(nproc'[q])
    BY <1>b, <2>2 DEF AccountInv
  <2>4. ASSUME NEW n \in NUser \ unsettled PROVE Settled(n)'
    <3>1. \A q \in NProc : nproc'[q] = nproc[q] \/ (~Mints(q, n) /\ ~Works(q, n)')
      BY <1>b, <2>2 DEF Mints, Works
    <3>2. Settled(n)
      BY DEF AccountInv
    <3> QED
      BY <2>1, <3>1, <3>2, Elsewhere
  <2>5. \A n \in NUser : Holds(n)'
    BY <2>1 DEF AccountInv, Holds
  <2> QED
    BY <2>1, <2>2, <2>3, <2>4, <2>5 DEF AccountInv
<1>17. ASSUME NEW p \in NProc, UpdateSigningGroup(p) PROVE AccountInv'
  BY <1>15, <1>17, <1>d DEF UpdateSigningGroup
<1>18. ASSUME NEW p \in NProc, CheckGroup(p) PROVE AccountInv'
  <2>1. PICK g \in GroupName : NGo(p, [pc |-> "dropGroup", group |-> g])
    BY <1>18 DEF CheckGroup
  <2>2. NShape([pc |-> "dropGroup", group |-> g])
    BY DEF NShape
  <2> QED
    BY <1>0, <1>18, <1>a, <2>1, <2>2, GoesIdle DEF CheckGroup, NTypeOK
<1>19. ASSUME NEW p \in NProc, DropGroup(p) PROVE AccountInv'
  <2>1. nproc[p].group \in GroupName
    BY <1>19 DEF DropGroup, AccountInv, NShape
  <2>2. NTypeOK'
    BY <1>0, <1>19, <2>1 DEF DropGroup, NTypeOK
  <2> QED
    BY <1>19, <1>b, <2>2, GoesIdle DEF DropGroup
<1>20. ASSUME NEW p \in NProc, ExportStep(p) PROVE AccountInv'
  BY <1>0, <1>20, <1>a, <1>d
  DEF ExportStep, CreateExport, UpdateExport, DeleteExport, StoreExport, NTypeOK
<1>21. ASSUME RotateEncryptionKeys PROVE AccountInv'
  BY <1>0, <1>21, <1>d DEF RotateEncryptionKeys, NTypeOK
<1>22. ASSUME Restart PROVE AccountInv'
  <2>1. /\ UNCHANGED <<nusers, groups, shares, promised>> /\ active' = promised
        /\ \A p \in NProc : nproc'[p] = NIdle
        /\ nproc' = [p \in NProc |-> nproc'[p]]
        /\ unsettled \subseteq unsettled'
    BY <1>22 DEF Restart
  <2>2. /\ \A p \in NProc : nproc[p].pc = "mint" => nproc[p].n \in unsettled'
        /\ unsettled' \subseteq NUser
    BY <1>0, <1>22 DEF Restart, AccountInv, NShape, NTypeOK
  <2>3. NTypeOK'
    BY <1>0, <2>1, <2>2 DEF NTypeOK
  <2>4. ASSUME NEW n \in NUser \ unsettled' PROVE Settled(n)'
    <3>1. \A q \in NProc : ~Mints(q, n) /\ ~Works(q, n)'
      BY <1>b, <2>1, <2>2 DEF Mints, Works
    <3>2. Settled(n)
      BY <2>1 DEF AccountInv
    <3> QED
      BY <2>1, <3>1, <3>2, Elsewhere
  <2>5. \A n \in NUser : Holds(n)'
    BY <2>1 DEF AccountInv, Holds
  <2> QED
    BY <1>b, <2>1, <2>3, <2>4, <2>5 DEF AccountInv
<1>23. CASE UNCHANGED nVars
  BY <1>0, <1>23, <1>a, <1>d DEF nVars, NTypeOK
<1> QED
  BY <1>1, <1>2, <1>3, <1>4, <1>5, <1>6, <1>7, <1>8, <1>9, <1>10, <1>11, <1>12, <1>13, <1>14, <1>16,
     <1>17, <1>18, <1>19, <1>20, <1>21, <1>22, <1>23
  DEF NNext, RowStep, CredentialStep, AssignStep

(* The grant an assignment leaves opens the account, shows the NATS user and *)
(* lets its credentials be downloaded (Authz).                               *)
LEMMA GrantOpens ==
  ASSUME NEW who \in Person, NEW n \in NUser, <<who, n>> \in shares, nusers[n] # None
  PROVE  n \in VisibleUsers(who) /\ RequireDownloadCreds(who, n)
<1> DEFINE g == [type |-> "nats_user", key |-> NATSUserResourceKey(ClusterOf, AccountOf, n),
                 role |-> "credential_downloader"]
<1>1. g \in UserOf(who).grants
  <2> DEFINE user == PersonBase[who]
             base == user.grants
             mine == {[type |-> "nats_user", key |-> NATSUserResourceKey(ClusterOf, AccountOf, s[2]),
                       role |-> "credential_downloader"] : s \in {x \in shares : x[1] = who}}
             all == base \cup mine
  <2>1. user = [root |-> user.root, rules |-> user.rules, roles |-> user.roles, grants |-> base]
    BY NatsAccountConstants
  <2>2. g \in mine
    <3>1. <<who, n>> \in {x \in shares : x[1] = who} /\ <<who, n>>[2] = n
      OBVIOUS
    <3> QED
      BY <3>1
  <2>3. UserOf(who) = [user EXCEPT !.grants = all]
    BY DEF UserOf
  <2> HIDE DEF g, user, mine
  <2>4. [user EXCEPT !.grants = all].grants = all
    <3> HIDE DEF base, all
    <3> QED
      BY <2>1
  <2> QED
    BY <2>2, <2>3, <2>4
<1>2. /\ g.type = "nats_user" /\ g.role = "credential_downloader"
      /\ g.key = NATSUserResourceKey(ClusterOf, AccountOf, n)
  OBVIOUS
<1> HIDE DEF g
<1>3. NATSUserGrantCoversAccount(g.key, ClusterOf, AccountOf)
  BY <1>2 DEF NATSUserGrantCoversAccount, NATSUserResourceKey
<1>4. RequireAccountAccess(who)
  BY <1>1, <1>2, <1>3 DEF RequireAccountAccess, CanAccessAccount
<1>5. n \in GrantedNATSUserIDs(who)
  BY <1>1, <1>2 DEF GrantedNATSUserIDs
<1>6. CanDownloadCreds(UserOf(who), ClusterOf, AccountOf, n)
  BY <1>1, <1>2, NatsAccountConstants DEF CanDownloadCreds
<1> QED
  BY <1>4, <1>5, <1>6 DEF VisibleUsers, CanViewNATSUser, RequireDownloadCreds

(* For any number of persons, NATS users, requests and key pairs: whoever a  *)
(* NATS user is assigned to holds the grant and through it sees the NATS     *)
(* user and its credentials; and a stored JWT fits the row beside it unless  *)
(* two requests wrote the row at once, or one failed between its writes      *)
(* (AssignNATSAccountUserPerson, DeleteNATSAccountUser, UpdateUser,          *)
(* RotateUser, MintJWT).                                                     *)
THEOREM AccountsSafe == NSpec => [](NTypeOK /\ AssigneeHoldsGrant /\ JWTMatchesRow)
<1>1. AccountInv => NTypeOK
  BY DEF AccountInv
<1>2. ASSUME AccountInv PROVE AssigneeHoldsGrant
  <2> SUFFICES ASSUME NEW n \in NUser, nusers[n] # None, nusers[n].assigned # None
               PROVE  /\ <<nusers[n].assigned, n>> \in shares
                      /\ n \in VisibleUsers(nusers[n].assigned)
                      /\ SeedReadable(n) => DownloadCreds(nusers[n].assigned, n)
    BY DEF AssigneeHoldsGrant
  <2>1. nusers[n].assigned \in Person /\ <<nusers[n].assigned, n>> \in shares
    BY <1>2, RowsAre DEF AccountInv, Holds, NRow
  <2> QED
    BY <2>1, GrantOpens DEF DownloadCreds
<1>3. ASSUME AccountInv PROVE JWTMatchesRow
  BY <1>3 DEF AccountInv, Settled, Mints, JWTFits, JWTMatchesRow
<1> QED
  BY <1>1, <1>2, <1>3, AccountStart, AccountStep, PTL DEF NSpec

-----------------------------------------------------------------------------
(* Users: what a request in flight carries.                                  *)
Target(q) == q.target \in UserId

ReqShape(q) ==
  /\ q.pc \in {"hasRoot", "insertRoot", "insertPlain"} =>
       q = [pc |-> q.pc, op |-> q.op, name |-> q.name] /\ q.name \in AdminName
  /\ q.pc = "insert" => q.row \in Row /\ ~q.row.root
  /\ q.pc \in {"invite", "authorize", "reread", "delete", "invalidate", "failed"} => Target(q)
  /\ q.pc = "write" =>
       /\ Target(q)
       /\ q.roles = Keep \/ q.roles \in SUBSET Role
       /\ q.rules = Keep \/ q.rules \in RulesIn
  /\ q.pc \in {"upsert", "revoke"} => Target(q) /\ q.grant \in GrantIn
  /\ q.pc = "accept" => Target(q) /\ q.token \in Token

UsersShapes ==
  /\ UsersTypeOK
  /\ usedIds \subseteq UserId
  /\ invites \in [Token -> {None} \cup Invite]
  /\ req = [r \in Req |-> req[r]]
  /\ \A r \in Req : ReqShape(req[r])

SingleRoot ==
  \A u, v \in UserId : Exists(u) /\ users[u].root /\ Exists(v) /\ users[v].root => u = v

(* The change that counts for a user who is gone is the deletion.            *)
GoneIsInvalidated ==
  \A u \in changed : ~Exists(u) =>
    \E r \in Req : req[r].pc \in {"invalidate", "failed"} /\ req[r].target = u

(* An invite somebody is accepting is still for the same user.               *)
Accepts(q) == q.pc = "accept" /\ invites[q.token] # None => invites[q.token].user = q.target

UsersInv ==
  /\ UsersShapes /\ SingleRoot /\ ChangeIsInvalidated /\ GoneIsInvalidated
  /\ \A r \in Req : Accepts(req[r])

LEMMA UsersStart == UsersInit => UsersInv
<1> SUFFICES ASSUME UsersInit PROVE UsersInv
  OBVIOUS
<1>1. users \in [UserId -> {None} \cup Row] /\ changed = {} /\ \A r \in Req : req[r] = Idle
  BY UsersConstants DEF UsersInit
<1>2. /\ invites \in [Token -> {None} \cup Invite]
      /\ \A t \in Token : invites[t] # None => Exists(invites[t].user)
  <2>1. \A t \in Token :
          \/ invites[t] = None
          \/ \E u \in UserId : /\ users[u] # None
                              /\ invites[t] = [user |-> u, expired |-> FALSE, accepted |-> FALSE]
    BY DEF UsersInit
  <2>2. invites = [t \in Token |-> invites[t]]
    BY DEF UsersInit
  <2>3. ASSUME NEW t \in Token, invites[t] # None
        PROVE  invites[t] \in Invite /\ Exists(invites[t].user)
    <3>1. PICK u \in UserId : /\ users[u] # None
                             /\ invites[t] = [user |-> u, expired |-> FALSE, accepted |-> FALSE]
      BY <2>1, <2>3
    <3>2. invites[t] \in Invite
      BY <3>1 DEF Invite
    <3>3. invites[t].user = u
      BY <3>1
    <3> QED
      BY <3>1, <3>2, <3>3 DEF Exists
  <2> QED
    BY <2>2, <2>3
<1>3. UsersTypeOK /\ usedIds \subseteq UserId
  BY <1>1, <1>2 DEF UsersTypeOK, UsersInit, Exists
<1>4. \A r \in Req : ReqShape(req[r]) /\ Accepts(req[r])
  BY <1>1 DEF ReqShape, Accepts, Idle
<1>5. SingleRoot
  BY UsersConstants DEF SingleRoot, UsersInit, Exists
<1> QED
  BY <1>1, <1>2, <1>3, <1>4, <1>5
  DEF UsersInv, UsersShapes, ChangeIsInvalidated, GoneIsInvalidated, UsersInit

(* One request moves.                                                        *)
LEMMA ReqGoes ==
  ASSUME UsersShapes, NEW r \in Req, NEW next, Go(r, next), ReqShape(next)
  PROVE  /\ req'[r] = next /\ \A q \in Req \ {r} : req'[q] = req[q]
         /\ req' = [q \in Req |-> req'[q]]
         /\ \A q \in Req : ReqShape(req'[q])
<1>1. /\ req'[r] = next /\ \A q \in Req \ {r} : req'[q] = req[q]
      /\ req' = [q \in Req |-> req'[q]]
  BY DEF Go, UsersShapes
<1> QED
  BY <1>1 DEF UsersShapes

(* It moves, owes no invalidation and changes nothing.                       *)
LEMMA ReqReads ==
  ASSUME UsersInv, NEW r \in Req, NEW next, Go(r, next), ReqShape(next), Accepts(next),
         req[r].pc \notin {"reread", "invalidate", "failed"}, UNCHANGED <<users, usedIds, invites, changed>>
  PROVE  UsersInv'
<1>1. /\ req'[r] = next /\ \A q \in Req \ {r} : req'[q] = req[q]
      /\ req' = [q \in Req |-> req'[q]]
      /\ \A q \in Req : ReqShape(req'[q])
  BY ReqGoes DEF UsersInv
<1>2. UsersShapes' /\ SingleRoot'
  BY <1>1 DEF UsersInv, UsersShapes, UsersTypeOK, SingleRoot, Exists
<1>3. ChangeIsInvalidated' /\ GoneIsInvalidated'
  BY <1>1 DEF UsersInv, ChangeIsInvalidated, GoneIsInvalidated, Exists
<1>4. \A q \in Req : Accepts(req'[q])
  BY <1>1 DEF UsersInv
<1>5. \A q \in Req : Accepts(req[q])'
  BY <1>4 DEF Accepts
<1> QED
  BY <1>2, <1>3, <1>5 DEF UsersInv

(* A row is inserted under an id never used, unless it conflicts.            *)
LEMMA ReqInserts ==
  ASSUME UsersInv, NEW r \in Req, NEW row \in Row, NEW next, InsertUser(r, row, next),
         next = Done \/ next = [pc |-> "invite", target |-> None],
         req[r].pc \notin {"reread", "invalidate", "failed"}
  PROVE  UsersInv'
<1>1. CASE RowConflicts(row)
  <2>1. ReqShape(Done) /\ Accepts(Done)
    BY DEF ReqShape, Accepts, Done
  <2> QED
    BY <1>1, <2>1, ReqReads DEF InsertUser, Stop
<1>2. CASE ~RowConflicts(row)
  <2>1. PICK u \in UserId \ usedIds :
          /\ users' = [users EXCEPT ![u] = row] /\ usedIds' = usedIds \cup {u}
          /\ Go(r, IF next.pc = "done" THEN next ELSE [next EXCEPT !.target = u])
    BY <1>2 DEF InsertUser
  <2> DEFINE to == IF next.pc = "done" THEN next ELSE [next EXCEPT !.target = u]
  <2>2. UNCHANGED <<invites, changed>>
    BY DEF InsertUser
  <2>3. to = Done \/ to = [pc |-> "invite", target |-> u]
    BY DEF Done
  <2>4. ReqShape(to) /\ to.pc \in {"done", "invite"}
    BY <2>3 DEF ReqShape, Done, Target
  <2> HIDE DEF to
  <2>5. /\ req'[r] = to /\ \A q \in Req \ {r} : req'[q] = req[q]
        /\ req' = [q \in Req |-> req'[q]]
        /\ \A q \in Req : ReqShape(req'[q])
    BY <2>1, <2>4, ReqGoes DEF UsersInv, to
  <2>6. users \in [UserId -> {None} \cup Row] /\ None \notin Row
    BY UsersConstants DEF UsersInv, UsersShapes, UsersTypeOK
  <2>7. users'[u] = row /\ \A v \in UserId \ {u} : users'[v] = users[v]
    BY <2>1, <2>6
  <2>8. ~Exists(u) /\ \A v \in UserId : Exists(v) => Exists(v)' /\ users'[v] = users[v]
    BY <2>1, <2>7 DEF UsersInv, UsersShapes, UsersTypeOK, Exists
  <2>9. UsersTypeOK'
    <3>1. users' \in [UserId -> {None} \cup Row]
      BY <2>1, <2>6
    <3>2. {v \in UserId : Exists(v)'} \subseteq usedIds'
      BY <2>1, <2>7 DEF UsersInv, UsersShapes, UsersTypeOK, Exists
    <3>3. \A t \in Token : (invites[t] # None => Exists(invites[t].user))'
      <4>1. \A t \in Token : invites[t] # None => invites[t].user \in UserId /\ Exists(invites[t].user)
        BY DEF UsersInv, UsersShapes, UsersTypeOK, Invite
      <4> QED
        BY <2>2, <2>8, <4>1
    <3>4. changed' \subseteq usedIds'
      BY <2>1, <2>2 DEF UsersInv, UsersShapes, UsersTypeOK
    <3> QED
      BY <3>1, <3>2, <3>3, <3>4 DEF UsersTypeOK
  <2>10. UsersShapes'
    BY <2>1, <2>2, <2>5, <2>9 DEF UsersInv, UsersShapes
  <2>11. SingleRoot'
    BY <1>2, <2>7 DEF RowConflicts, HasRootUser, UsersInv, SingleRoot, Exists
  <2>12. ChangeIsInvalidated'
    BY <2>2, <2>5 DEF UsersInv, ChangeIsInvalidated
  <2>13. GoneIsInvalidated'
    <3> SUFFICES ASSUME NEW v \in changed, ~Exists(v)'
                 PROVE  \E q \in Req : req'[q].pc \in {"invalidate", "failed"} /\ req'[q].target = v
      BY <2>2 DEF GoneIsInvalidated
    <3>1. ~Exists(v)
      BY <2>8 DEF UsersInv, UsersShapes, UsersTypeOK
    <3> QED
      BY <2>5, <3>1 DEF UsersInv, GoneIsInvalidated
  <2>14. \A q \in Req : Accepts(req[q])'
    BY <2>2, <2>4, <2>5 DEF UsersInv, Accepts
  <2> QED
    BY <2>10, <2>11, <2>12, <2>13, <2>14 DEF UsersInv
<1> QED
  BY <1>1, <1>2

(* The row of a user who is there changes, and the request goes on to the    *)
(* invalidation.                                                             *)
LEMMA ReqChanges ==
  ASSUME UsersInv, NEW r \in Req, NEW u \in UserId, Exists(u), NEW row \in Row,
         row.root = users[u].root, users' = [users EXCEPT ![u] = row],
         NEW step \in {"reread", "invalidate"}, Go(r, [pc |-> step, target |-> u]),
         req[r].pc \notin {"reread", "invalidate", "failed"},
         changed' = changed \cup {u}, UNCHANGED <<usedIds, invites>>
  PROVE  UsersInv'
<1> DEFINE next == [pc |-> step, target |-> u]
<1>1. ReqShape(next)
  BY DEF ReqShape, Target
<1>2. next.pc = step /\ next.target = u
  OBVIOUS
<1> HIDE DEF next
<1>3. /\ req'[r] = next /\ \A q \in Req \ {r} : req'[q] = req[q]
      /\ req' = [q \in Req |-> req'[q]]
      /\ \A q \in Req : ReqShape(req'[q])
  BY <1>1, ReqGoes DEF UsersInv, next
<1>4. users \in [UserId -> {None} \cup Row] /\ None \notin Row
  BY UsersConstants DEF UsersInv, UsersShapes, UsersTypeOK
<1>5. /\ users'[u] = row /\ \A v \in UserId \ {u} : users'[v] = users[v]
      /\ \A v \in UserId : Exists(v)' <=> Exists(v)
  BY <1>4 DEF Exists
<1>6. UsersTypeOK'
  <2>1. users' \in [UserId -> {None} \cup Row]
    BY <1>4
  <2>2. {v \in UserId : Exists(v)'} \subseteq usedIds' /\ changed' \subseteq usedIds'
    BY <1>5 DEF UsersInv, UsersShapes, UsersTypeOK
  <2>3. \A t \in Token : (invites[t] # None => Exists(invites[t].user))'
    <3>1. \A t \in Token : invites[t] # None => invites[t].user \in UserId /\ Exists(invites[t].user)
      BY DEF UsersInv, UsersShapes, UsersTypeOK, Invite
    <3> QED
      BY <1>5, <3>1
  <2> QED
    BY <2>1, <2>2, <2>3 DEF UsersTypeOK
<1>7. UsersShapes'
  BY <1>3, <1>6 DEF UsersInv, UsersShapes
<1>8. SingleRoot'
  BY <1>5 DEF UsersInv, SingleRoot
<1>9. ChangeIsInvalidated'
  BY <1>2, <1>3 DEF UsersInv, ChangeIsInvalidated
<1>10. GoneIsInvalidated'
  BY <1>3, <1>5 DEF UsersInv, UsersShapes, UsersTypeOK, GoneIsInvalidated
<1>11. \A q \in Req : Accepts(req[q])'
  BY <1>2, <1>3 DEF UsersInv, Accepts
<1> QED
  BY <1>7, <1>8, <1>9, <1>10, <1>11 DEF UsersInv

(* The rules an invited person gets are rules a row can hold.                *)
LEMMA InviteRulesStored ==
  ASSUME NEW actor \in Row, NEW clusters, clusters \in {{}} \cup {x.clusterIDs : x \in RulesIn \ {None}}
  PROVE  InviteRules(actor, clusters) \in
           [clusterIDs : SUBSET InvitableCluster, assignableRoles : {{"viewer"}},
            manageUsers : {FALSE}, viewAudit : {FALSE}, deleteClusters : {FALSE}]
<1>1. clusters \subseteq InvitableCluster
  BY DEF InvitableCluster
<1>2. actor.rules # None => actor.rules.clusterIDs \subseteq InvitableCluster
  <2>1. \/ actor.rules \in RulesIn
        \/ actor.rules \in [clusterIDs : SUBSET InvitableCluster, assignableRoles : {{"viewer"}},
                            manageUsers : {FALSE}, viewAudit : {FALSE}, deleteClusters : {FALSE}]
    BY DEF Row
  <2>2. CASE actor.rules \in RulesIn
    BY <2>2 DEF InvitableCluster
  <2> QED
    BY <2>1, <2>2
<1> QED
  BY <1>1, <1>2 DEF InviteRules

LEMMA NewRowStored ==
  ASSUME NEW root \in BOOLEAN, NEW env \in AdminName \cup {None}, NEW roles \in SUBSET Role,
         NEW rules, rules \in RulesIn \cup
           [clusterIDs : SUBSET InvitableCluster, assignableRoles : {{"viewer"}},
            manageUsers : {FALSE}, viewAudit : {FALSE}, deleteClusters : {FALSE}]
  PROVE  NewRow(root, env, roles, rules) \in Row /\ NewRow(root, env, roles, rules).root = root
  BY DEF NewRow, Row

LEMMA UsersStep == ASSUME UsersInv, [UsersNext]_usersVars PROVE UsersInv'
<1>a. /\ users \in [UserId -> {None} \cup Row] /\ \A r \in Req : ReqShape(req[r])
      /\ \A u \in UserId : Exists(u) => users[u] \in Row
  BY DEF UsersInv, UsersShapes, UsersTypeOK, Exists
<1>b. ASSUME NEW r \in Req, Stop(r), req[r].pc \notin {"reread", "invalidate", "failed"},
             UNCHANGED <<users, usedIds, invites, changed>>
      PROVE  UsersInv'
  <2>1. ReqShape(Done) /\ Accepts(Done)
    BY DEF ReqShape, Accepts, Done
  <2> QED
    BY <1>b, <2>1, ReqReads DEF Stop
<1>1. ASSUME NEW r \in Req, SeedAdmin(r) \/ AuthenticateEnvAdmin(r) PROVE UsersInv'
  <2>1. PICK n \in AdminName, op \in {"seed", "env"} : Stop(r) \/ Go(r, [pc |-> "hasRoot", op |-> op, name |-> n])
    BY <1>1 DEF SeedAdmin, AuthenticateEnvAdmin
  <2> DEFINE next == [pc |-> "hasRoot", op |-> op, name |-> n]
  <2>2. ReqShape(next) /\ Accepts(next)
    BY DEF ReqShape, Accepts
  <2> HIDE DEF next
  <2> QED
    BY <1>1, <1>b, <2>1, <2>2, ReqReads DEF SeedAdmin, AuthenticateEnvAdmin, next
<1>2. ASSUME NEW r \in Req, CheckRoot(r) PROVE UsersInv'
  <2>1. PICK step \in {"insertRoot", "insertPlain"} : Stop(r) \/ Go(r, [req[r] EXCEPT !.pc = step])
    BY <1>2 DEF CheckRoot
  <2> DEFINE q == req[r]
             next == [q EXCEPT !.pc = step]
  <2>2. q = [pc |-> q.pc, op |-> q.op, name |-> q.name] /\ q.name \in AdminName
    BY <1>2, <1>a DEF CheckRoot, ReqShape
  <2>3. next = [pc |-> step, op |-> q.op, name |-> q.name]
    <3> HIDE DEF q
    <3> QED
      BY <2>2
  <2>4. ReqShape(next) /\ Accepts(next)
    BY <2>2, <2>3 DEF ReqShape, Accepts
  <2>5. Stop(r) \/ Go(r, next)
    BY <2>1
  <2> HIDE DEF next
  <2> QED
    BY <1>2, <1>b, <2>4, <2>5, ReqReads DEF CheckRoot
<1>3. ASSUME NEW r \in Req, InsertRoot(r) PROVE UsersInv'
  <2> DEFINE row == NewRow(TRUE, req[r].name, {"admin"}, None)
  <2>1. req[r].pc = "insertRoot" /\ InsertUser(r, row, Done)
    BY <1>3 DEF InsertRoot
  <2>2. row \in Row
    BY <1>a, <2>1, NewRowStored, UsersConstants DEF ReqShape, Role
  <2> HIDE DEF row
  <2> QED
    BY <2>1, <2>2, ReqInserts
<1>4. ASSUME NEW r \in Req, InsertPlain(r) PROVE UsersInv'
  <2> DEFINE row == NewRow(FALSE, req[r].name, {"admin"}, None)
  <2>1. req[r].pc = "insertPlain" /\ InsertUser(r, row, Done)
    BY <1>4 DEF InsertPlain
  <2>2. row \in Row
    BY <1>a, <2>1, NewRowStored, UsersConstants DEF ReqShape, Role
  <2> HIDE DEF row
  <2> QED
    BY <2>1, <2>2, ReqInserts
<1>5. ASSUME NEW r \in Req, BeginCreate(r) PROVE UsersInv'
  <2>1. PICK a \in UserId, roles \in RolesIn, rules \in RulesIn :
          IF CreateAllowed(users[a], roles, rules)
          THEN Go(r, [pc |-> "insert", by |-> users[a], row |-> NewRow(FALSE, None, roles, rules),
                      invited |-> FALSE])
          ELSE Stop(r)
    BY <1>5 DEF BeginCreate
  <2>2. CASE ~CreateAllowed(users[a], roles, rules)
    BY <1>5, <1>b, <2>1, <2>2 DEF BeginCreate
  <2>3. CASE CreateAllowed(users[a], roles, rules)
    <3> DEFINE row == NewRow(FALSE, None, roles, rules)
               next == [pc |-> "insert", by |-> users[a], row |-> row, invited |-> FALSE]
    <3>1. roles \in SUBSET Role
      BY <2>3 DEF CreateAllowed, ValidateRoles
    <3>2. row \in Row /\ row.root = FALSE
      BY <3>1, NewRowStored
    <3>3. Go(r, next)
      BY <2>1, <2>3
    <3> HIDE DEF row
    <3>4. ReqShape(next) /\ Accepts(next)
      BY <3>2 DEF ReqShape, Accepts
    <3> HIDE DEF next
    <3> QED
      BY <1>5, <3>3, <3>4, ReqReads DEF BeginCreate
  <2> QED
    BY <2>2, <2>3
<1>6. ASSUME NEW r \in Req, InvitePerson(r) PROVE UsersInv'
  <2>1. PICK a \in UserId, roles \in RolesIn,
             clusters \in {{}} \cup {x.clusterIDs : x \in RulesIn \ {None}} :
          /\ Exists(a)
          /\ LET rules == InviteRules(users[a], clusters)
             IN  IF /\ CanManageUsers(users[a])
                    /\ rules.clusterIDs # {}
                    /\ CreateAllowed(users[a], roles, rules)
                 THEN Go(r, [pc |-> "insert", by |-> users[a],
                             row |-> NewRow(FALSE, None, roles, rules), invited |-> TRUE])
                 ELSE Stop(r)
    BY <1>6 DEF InvitePerson
  <2> DEFINE rules == InviteRules(users[a], clusters)
             row == NewRow(FALSE, None, roles, rules)
             next == [pc |-> "insert", by |-> users[a], row |-> row, invited |-> TRUE]
  <2>2. CASE Stop(r)
    BY <1>6, <1>b, <2>2 DEF InvitePerson
  <2>3. CASE CreateAllowed(users[a], roles, rules) /\ Go(r, next)
    <3>1. roles \in SUBSET Role
      BY <2>3 DEF CreateAllowed, ValidateRoles
    <3>2. rules \in [clusterIDs : SUBSET InvitableCluster, assignableRoles : {{"viewer"}},
                     manageUsers : {FALSE}, viewAudit : {FALSE}, deleteClusters : {FALSE}]
      BY <1>a, <2>1, InviteRulesStored
    <3> HIDE DEF rules
    <3>3. row \in Row /\ row.root = FALSE
      BY <3>1, <3>2, NewRowStored
    <3> HIDE DEF row
    <3>4. ReqShape(next) /\ Accepts(next)
      BY <3>3 DEF ReqShape, Accepts
    <3> HIDE DEF next
    <3> QED
      BY <1>6, <2>3, <3>4, ReqReads DEF InvitePerson
  <2> QED
    BY <2>1, <2>2, <2>3
<1>7. ASSUME NEW r \in Req, InsertCreated(r) PROVE UsersInv'
  <2>1. req[r].pc = "insert" /\ req[r].row \in Row
    BY <1>7, <1>a DEF InsertCreated, ReqShape
  <2> DEFINE next == IF req[r].invited THEN [pc |-> "invite", target |-> None] ELSE Done
  <2>2. InsertUser(r, req[r].row, next)
    BY <1>7 DEF InsertCreated
  <2>3. next = Done \/ next = [pc |-> "invite", target |-> None]
    OBVIOUS
  <2> HIDE DEF next
  <2> QED
    BY <2>1, <2>2, <2>3, ReqInserts
<1>8. ASSUME NEW r \in Req, CreateUserInvite(r) PROVE UsersInv'
  <2>1. CASE UNCHANGED invites
    BY <1>8, <1>b, <2>1 DEF CreateUserInvite
  <2>2. CASE \E t \in Token :
               /\ NewToken(t) /\ Exists(req[r].target)
               /\ invites' = [invites EXCEPT ![t] =
                                [user |-> req[r].target, expired |-> FALSE, accepted |-> FALSE]]
    <3>0. req[r].pc = "invite" /\ Stop(r) /\ UNCHANGED <<users, usedIds, changed>>
      BY <1>8 DEF CreateUserInvite
    <3>1. PICK t \in Token :
            /\ NewToken(t) /\ Exists(req[r].target)
            /\ invites' = [invites EXCEPT ![t] =
                             [user |-> req[r].target, expired |-> FALSE, accepted |-> FALSE]]
      BY <2>2
    <3> DEFINE new == [user |-> req[r].target, expired |-> FALSE, accepted |-> FALSE]
    <3>2. req[r].target \in UserId /\ new \in Invite /\ new.user = req[r].target
      BY <1>a, <3>0 DEF ReqShape, Target, Invite
    <3>3. invites' = [invites EXCEPT ![t] = new]
      BY <3>1
    <3> HIDE DEF new
    <3>4. ReqShape(Done) /\ Done.pc = "done"
      BY DEF ReqShape, Done
    <3>5. /\ req'[r] = Done /\ \A q \in Req \ {r} : req'[q] = req[q]
          /\ req' = [q \in Req |-> req'[q]]
          /\ \A q \in Req : ReqShape(req'[q])
      BY <3>0, <3>4, ReqGoes DEF UsersInv, Stop
    <3>6. /\ invites' \in [Token -> {None} \cup Invite] /\ invites'[t] = new
          /\ \A x \in Token \ {t} : invites'[x] = invites[x]
      BY <3>2, <3>3 DEF UsersInv, UsersShapes
    <3>7. \A x \in Token : (invites[x] # None => Exists(invites[x].user))'
      BY <3>0, <3>1, <3>2, <3>6 DEF UsersInv, UsersShapes, UsersTypeOK, Exists
    <3>8. UsersShapes' /\ SingleRoot'
      BY <3>0, <3>5, <3>6, <3>7 DEF UsersInv, UsersShapes, UsersTypeOK, SingleRoot, Exists
    <3>9. ChangeIsInvalidated' /\ GoneIsInvalidated'
      BY <3>0, <3>5 DEF UsersInv, ChangeIsInvalidated, GoneIsInvalidated, Exists
    <3>10. ASSUME NEW q \in Req PROVE Accepts(req[q])'
      <4>1. CASE q = r
        BY <3>4, <3>5, <4>1 DEF Accepts
      <4>2. CASE q # r /\ req[q].pc = "accept"
        <5>1. req[q].token \in Token \ {t}
          BY <1>a, <3>1, <4>2 DEF NewToken, ReqShape
        <5> QED
          BY <3>5, <3>6, <4>2, <5>1 DEF UsersInv, Accepts
      <4>3. CASE q # r /\ req[q].pc # "accept"
        BY <3>5, <4>3 DEF Accepts
      <4> QED
        BY <4>1, <4>2, <4>3
    <3> QED
      BY <3>8, <3>9, <3>10 DEF UsersInv
  <2> QED
    BY <1>8, <2>1, <2>2 DEF CreateUserInvite
<1>9. ASSUME NEW r \in Req, UsersUpdate(r) \/ UsersSetRoles(r) \/ UsersDelete(r) PROVE UsersInv'
  <2>1. PICK a \in UserId, u \in UserId, op \in {"update", "setRoles", "delete"} :
          Stop(r) \/ Go(r, [pc |-> "authorize", op |-> op, actor |-> users[a], self |-> a = u, target |-> u])
    BY <1>9 DEF UsersUpdate, UsersSetRoles, UsersDelete, BeginMutation
  <2>2. req[r].pc = "idle" /\ UNCHANGED <<users, usedIds, invites, changed>>
    BY <1>9 DEF UsersUpdate, UsersSetRoles, UsersDelete, BeginMutation
  <2> DEFINE next == [pc |-> "authorize", op |-> op, actor |-> users[a], self |-> a = u, target |-> u]
  <2>3. ReqShape(next) /\ Accepts(next)
    BY DEF ReqShape, Accepts, Target
  <2> HIDE DEF next
  <2>4. Stop(r) \/ Go(r, next)
    BY <2>1 DEF next
  <2> QED
    BY <1>b, <2>2, <2>3, <2>4, ReqReads
<1>10. ASSUME NEW r \in Req, Authorize(r) PROVE UsersInv'
  <2> DEFINE q == req[r]
             del == [pc |-> "delete", target |-> q.target]
             write(x, y) == [pc |-> "write", target |-> q.target, roles |-> x, rules |-> y]
             p == PermissionsFor(q.actor)
  <2>1. q.pc = "authorize" /\ Target(q) /\ UNCHANGED <<users, usedIds, invites, changed>>
    BY <1>10, <1>a DEF Authorize, ReqShape
  <2>2. \/ Stop(r) \/ Go(r, del)
        \/ \E x \in RolesIn \cup {Keep}, y \in RulesIn \cup {Keep} :
             UpdateAllowed(p, x, y) /\ Go(r, write(x, y))
    BY <1>10 DEF Authorize
  <2>3. ReqShape(del) /\ Accepts(del)
    BY <2>1 DEF ReqShape, Accepts, Target
  <2>4. ASSUME NEW x \in RolesIn \cup {Keep}, NEW y \in RulesIn \cup {Keep}, UpdateAllowed(p, x, y)
        PROVE  ReqShape(write(x, y)) /\ Accepts(write(x, y))
    <3>1. (x = Keep \/ x \in SUBSET Role) /\ (y = Keep \/ y \in RulesIn)
      BY <2>4 DEF UpdateAllowed, ValidateRoles
    <3> QED
      BY <2>1, <3>1 DEF ReqShape, Accepts, Target
  <2> HIDE DEF del, write, p
  <2> QED
    BY <1>b, <2>1, <2>2, <2>3, <2>4, ReqReads
<1>11. ASSUME NEW r \in Req, UpdateUser(r) PROVE UsersInv'
  <2>0. PICK u \in UserId : u = req[r].target
    BY <1>11, <1>a DEF UpdateUser, ReqShape, Target
  <2> DEFINE q == req[r]
             row == users[u]
             roles == IF q.roles = Keep THEN row.roles ELSE q.roles
             rules == IF q.rules = Keep THEN row.rules ELSE q.rules
             new == [row EXCEPT !.roles = roles, !.rules = rules]
  <2>1. /\ q.pc = "write" /\ UNCHANGED <<usedIds, invites>>
        /\ q.roles = Keep \/ q.roles \in SUBSET Role
        /\ q.rules = Keep \/ q.rules \in RulesIn
    BY <1>11, <1>a DEF UpdateUser, ReqShape
  <2>2. CASE ~Exists(u)
    BY <1>11, <1>b, <2>0, <2>2 DEF UpdateUser
  <2>3. CASE Exists(u)
    <3>1. /\ users' = [users EXCEPT ![u] = new] /\ changed' = changed \cup {u}
          /\ Go(r, [pc |-> "reread", target |-> u])
      BY <1>11, <2>0, <2>3 DEF UpdateUser
    <3>2. row \in Row
      BY <1>a, <2>3
    <3> HIDE DEF row
    <3>3. /\ roles \in SUBSET Role
          /\ rules \in RulesIn \cup
               [clusterIDs : SUBSET InvitableCluster, assignableRoles : {{"viewer"}},
                manageUsers : {FALSE}, viewAudit : {FALSE}, deleteClusters : {FALSE}]
      BY <2>1, <3>2 DEF Row
    <3> HIDE DEF roles, rules
    <3>4. new \in Row /\ new.root = row.root
      BY <3>2, <3>3 DEF Row
    <3> HIDE DEF new
    <3> QED
      BY <2>1, <2>3, <3>1, <3>4, ReqChanges DEF row
  <2> QED
    BY <2>2, <2>3
<1>12. ASSUME NEW r \in Req, Reread(r) PROVE UsersInv'
  <2>0. PICK u \in UserId : u = req[r].target
    BY <1>12, <1>a DEF Reread, ReqShape, Target
  <2>1. PICK next :
          /\ req[r].pc = "reread" /\ Go(r, next) /\ UNCHANGED <<users, usedIds, invites, changed>>
          /\ \/ Exists(u) /\ next = [pc |-> "invalidate", target |-> u]
             \/ ~Exists(u) /\ next = Done
             \/ next = [pc |-> "failed", target |-> u]
    BY <1>12, <2>0 DEF Reread, Stop, Fails
  <2>2. /\ ReqShape(next) /\ next.pc # "accept"
        /\ next = Done \/ (next.pc \in {"invalidate", "failed"} /\ next.target = u)
        /\ Exists(u) => next # Done
    BY <2>1 DEF ReqShape, Target, Done
  <2>3. /\ req'[r] = next /\ \A q \in Req \ {r} : req'[q] = req[q]
        /\ req' = [q \in Req |-> req'[q]]
        /\ \A q \in Req : ReqShape(req'[q])
    BY <2>1, <2>2, ReqGoes DEF UsersInv
  <2>4. UsersShapes' /\ SingleRoot'
    BY <2>1, <2>3 DEF UsersInv, UsersShapes, UsersTypeOK, SingleRoot, Exists
  <2>5. GoneIsInvalidated'
    BY <2>1, <2>3 DEF UsersInv, GoneIsInvalidated, Exists
  <2>6. ChangeIsInvalidated'
    <3> SUFFICES ASSUME NEW v \in changed
                 PROVE  \E q \in Req :
                          req'[q].pc \in {"reread", "invalidate", "failed"} /\ req'[q].target = v
      BY <2>1 DEF ChangeIsInvalidated
    <3>1. PICK x \in Req : req[x].pc \in {"reread", "invalidate", "failed"} /\ req[x].target = v
      BY DEF UsersInv, ChangeIsInvalidated
    <3>2. CASE x # r
      BY <2>3, <3>1, <3>2
    <3>3. CASE x = r /\ Exists(u)
      BY <2>0, <2>2, <2>3, <3>1, <3>3
    <3>4. CASE x = r /\ ~Exists(u)
      <4>1. PICK y \in Req : req[y].pc \in {"invalidate", "failed"} /\ req[y].target = v
        BY <2>0, <3>1, <3>4 DEF UsersInv, GoneIsInvalidated
      <4>2. y # r
        BY <2>1, <4>1
      <4> QED
        BY <2>3, <4>1, <4>2
    <3> QED
      BY <3>2, <3>3, <3>4
  <2>7. \A q \in Req : Accepts(req[q])'
    BY <2>1, <2>2, <2>3 DEF UsersInv, Accepts
  <2> QED
    BY <2>4, <2>5, <2>6, <2>7 DEF UsersInv
<1>13. ASSUME NEW r \in Req, DeleteUser(r) PROVE UsersInv'
  <2>0. PICK u \in UserId : u = req[r].target
    BY <1>13, <1>a DEF DeleteUser, ReqShape, Target
  <2>1. CASE ~Exists(u) \/ users[u].root
    BY <1>13, <1>b, <2>0, <2>1 DEF DeleteUser
  <2>2. CASE ~(~Exists(u) \/ users[u].root)
    <3> DEFINE next == [pc |-> "invalidate", target |-> u]
    <3>1. /\ req[r].pc = "delete" /\ users' = [users EXCEPT ![u] = None]
          /\ invites' = [t \in Token |->
               IF invites[t] # None /\ invites[t].user = u THEN None ELSE invites[t]]
          /\ changed' = changed \cup {u} /\ Go(r, next) /\ UNCHANGED usedIds
      BY <1>13, <2>0, <2>2 DEF DeleteUser
    <3>2. ReqShape(next) /\ next.pc = "invalidate" /\ next.target = u
      BY DEF ReqShape, Target
    <3> HIDE DEF next
    <3>3. /\ req'[r] = next /\ \A q \in Req \ {r} : req'[q] = req[q]
          /\ req' = [q \in Req |-> req'[q]]
          /\ \A q \in Req : ReqShape(req'[q])
      BY <3>1, <3>2, ReqGoes DEF UsersInv
    <3>4. /\ users' \in [UserId -> {None} \cup Row] /\ users'[u] = None
          /\ \A v \in UserId \ {u} : users'[v] = users[v]
      BY <1>a, <3>1
    <3>5. /\ \A t \in Token : invites'[t] # None => invites'[t] = invites[t] /\ invites[t].user # u
          /\ invites' \in [Token -> {None} \cup Invite]
      BY <3>1 DEF UsersInv, UsersShapes
    <3>6. \A t \in Token : (invites[t] # None => Exists(invites[t].user))'
      <4>1. \A t \in Token : invites[t] # None => invites[t].user \in UserId /\ Exists(invites[t].user)
        BY DEF UsersInv, UsersShapes, UsersTypeOK, Invite
      <4> QED
        BY <3>4, <3>5, <4>1 DEF Exists
    <3>7. {v \in UserId : Exists(v)'} \subseteq usedIds' /\ changed' \subseteq usedIds'
      BY <2>2, <3>1, <3>4 DEF UsersInv, UsersShapes, UsersTypeOK, Exists
    <3>8. UsersShapes'
      BY <3>1, <3>3, <3>4, <3>5, <3>6, <3>7 DEF UsersInv, UsersShapes, UsersTypeOK
    <3>9. SingleRoot'
      BY <3>4 DEF UsersInv, SingleRoot, Exists
    <3>10. ChangeIsInvalidated'
      BY <3>1, <3>2, <3>3 DEF UsersInv, ChangeIsInvalidated
    <3>11. GoneIsInvalidated'
      <4> SUFFICES ASSUME NEW v \in changed \cup {u}, ~Exists(v)'
                   PROVE  \E q \in Req : req'[q].pc \in {"invalidate", "failed"} /\ req'[q].target = v
        BY <3>1 DEF GoneIsInvalidated
      <4>1. CASE v = u
        BY <3>2, <3>3, <4>1
      <4>2. CASE v # u
        <5>1. v \in UserId /\ ~Exists(v)
          BY <3>4, <4>2 DEF UsersInv, UsersShapes, UsersTypeOK, Exists
        <5> QED
          BY <3>1, <3>3, <4>2, <5>1 DEF UsersInv, GoneIsInvalidated
      <4> QED
        BY <4>1, <4>2
    <3>12. \A q \in Req : Accepts(req[q])'
      <4>1. \A q \in Req : req'[q].pc = "accept" => req'[q] = req[q] /\ req[q].token \in Token
        BY <1>a, <3>2, <3>3 DEF ReqShape
      <4> QED
        BY <3>5, <4>1 DEF UsersInv, Accepts
    <3> QED
      BY <3>8, <3>9, <3>10, <3>11, <3>12 DEF UsersInv
  <2> QED
    BY <2>1, <2>2
<1>14. ASSUME NEW r \in Req, Invalidate(r) PROVE UsersInv'
  <2>0. PICK u \in UserId : u = req[r].target
    BY <1>14, <1>a DEF Invalidate, ReqShape, Target
  <2>1. PICK next :
          /\ req[r].pc = "invalidate" /\ Go(r, next) /\ UNCHANGED <<users, usedIds, invites>>
          /\ \/ changed' = changed \ {u} /\ next = Done
             \/ changed' = changed /\ next = [pc |-> "failed", target |-> u]
    BY <1>14, <2>0 DEF Invalidate, Stop, Fails
  <2>2. /\ ReqShape(next) /\ next.pc # "accept"
        /\ u \in changed' => next.pc = "failed" /\ next.target = u
    BY <2>1 DEF ReqShape, Target, Done
  <2>3. /\ req'[r] = next /\ \A q \in Req \ {r} : req'[q] = req[q]
        /\ req' = [q \in Req |-> req'[q]]
        /\ \A q \in Req : ReqShape(req'[q])
    BY <2>1, <2>2, ReqGoes DEF UsersInv
  <2>4. UsersShapes' /\ SingleRoot'
    BY <2>1, <2>3 DEF UsersInv, UsersShapes, UsersTypeOK, SingleRoot, Exists
  <2>5. ChangeIsInvalidated' /\ GoneIsInvalidated'
    BY <2>0, <2>1, <2>2, <2>3 DEF UsersInv, ChangeIsInvalidated, GoneIsInvalidated, Exists
  <2>6. \A q \in Req : Accepts(req[q])'
    BY <2>1, <2>2, <2>3 DEF UsersInv, Accepts
  <2> QED
    BY <2>4, <2>5, <2>6 DEF UsersInv
<1>15. ASSUME NEW r \in Req, SystemAccess(r) \/ AccountAccess(r) PROVE UsersInv'
  <2>1. PICK u \in UserId, g \in GrantIn, step \in {"upsert", "revoke"} :
          Stop(r) \/ Go(r, [pc |-> step, target |-> u, grant |-> g])
    BY <1>15 DEF SystemAccess, AccountAccess, BeginUpsert, BeginRevoke
  <2>2. req[r].pc = "idle" /\ UNCHANGED <<users, usedIds, invites, changed>>
    BY <1>15 DEF SystemAccess, AccountAccess, BeginUpsert, BeginRevoke
  <2> DEFINE next == [pc |-> step, target |-> u, grant |-> g]
  <2>3. ReqShape(next) /\ Accepts(next)
    BY DEF ReqShape, Accepts, Target
  <2> HIDE DEF next
  <2>4. Stop(r) \/ Go(r, next)
    BY <2>1 DEF next
  <2> QED
    BY <1>b, <2>2, <2>3, <2>4, ReqReads
<1>16. ASSUME NEW r \in Req, ChangeGrant(r) PROVE UsersInv'
  <2>0. PICK u \in UserId : u = req[r].target
    BY <1>16, <1>a DEF ChangeGrant, ReqShape, Target
  <2> DEFINE q == req[r]
             row == users[u]
             kept == {g \in row.grants : ~SameResource(g, q.grant)}
             grants == IF q.pc = "upsert" THEN kept \cup {q.grant} ELSE kept
             new == [row EXCEPT !.grants = grants]
  <2>1. q.pc \in {"upsert", "revoke"} /\ q.grant \in GrantIn /\ UNCHANGED <<usedIds, invites>>
    BY <1>16, <1>a DEF ChangeGrant, ReqShape
  <2>2. CASE ~Exists(u) \/ (q.pc = "revoke" /\ kept = row.grants)
    BY <1>16, <1>b, <2>0, <2>2 DEF ChangeGrant
  <2>3. CASE ~(~Exists(u) \/ (q.pc = "revoke" /\ kept = row.grants))
    <3>1. /\ users' = [users EXCEPT ![u].grants = grants] /\ changed' = changed \cup {u}
          /\ Go(r, [pc |-> "invalidate", target |-> u])
      BY <1>16, <2>0, <2>3 DEF ChangeGrant
    <3>2. row \in Row /\ Exists(u)
      BY <1>a, <2>3
    <3>3. grants \in SUBSET GrantIn
      BY <2>1, <3>2 DEF Row
    <3>4. users' = [users EXCEPT ![u] = new]
      <4> HIDE DEF grants
      <4> QED
        BY <1>a, <3>1
    <3> HIDE DEF row, grants
    <3>5. new \in Row /\ new.root = row.root
      BY <3>2, <3>3 DEF Row
    <3> HIDE DEF new
    <3> QED
      BY <2>1, <3>1, <3>2, <3>4, <3>5, ReqChanges DEF row
  <2> QED
    BY <2>2, <2>3
<1>17. ASSUME NEW r \in Req, GetInvite(r) PROVE UsersInv'
  <2>1. req[r].pc = "idle" /\ UNCHANGED <<users, usedIds, invites, changed>>
    BY <1>17 DEF GetInvite
  <2>2. PICK t \in Token :
          \/ Stop(r)
          \/ invites[t] # None /\ Go(r, [pc |-> "accept", token |-> t, target |-> invites[t].user])
    BY <1>17 DEF GetInvite
  <2> DEFINE next == [pc |-> "accept", token |-> t, target |-> invites[t].user]
  <2>3. invites[t] # None => invites[t].user \in UserId
    BY DEF UsersInv, UsersShapes, Invite
  <2>4. invites[t] # None => ReqShape(next) /\ Accepts(next)
    BY <2>3 DEF ReqShape, Accepts, Target
  <2> HIDE DEF next
  <2>5. Stop(r) \/ (invites[t] # None /\ Go(r, next))
    BY <2>2 DEF next
  <2> QED
    BY <1>b, <2>1, <2>4, <2>5, ReqReads
<1>18. ASSUME NEW t \in Token, NEW new \in Invite, invites[t] # None, new.user = invites[t].user,
              invites' = [invites EXCEPT ![t] = new]
       PROVE  /\ invites' \in [Token -> {None} \cup Invite]
              /\ \A x \in Token : invites'[x] # None =>
                   invites[x] # None /\ invites'[x].user = invites[x].user
  BY <1>18 DEF UsersInv, UsersShapes
<1>19. ASSUME NEW r \in Req, AcceptUserInvite(r) PROVE UsersInv'
  <2>0. PICK t \in Token, u \in UserId : t = req[r].token /\ u = req[r].target
    BY <1>19, <1>a DEF AcceptUserInvite, ReqShape, Target
  <2>1. CASE ~Acceptable(t)
    BY <1>19, <1>b, <2>0, <2>1 DEF AcceptUserInvite
  <2>2. CASE Acceptable(t)
    <3> DEFINE next == [pc |-> "reread", target |-> u]
               old == invites[t]
               new == [old EXCEPT !.accepted = TRUE]
    <3>1. /\ req[r].pc = "accept" /\ invites' = [invites EXCEPT ![t].accepted = TRUE]
          /\ changed' = changed \cup {u} /\ Go(r, next) /\ UNCHANGED <<users, usedIds>>
      BY <1>19, <2>0, <2>2 DEF AcceptUserInvite
    <3>2. old \in Invite /\ old # None
      BY <2>2 DEF Acceptable, UsersInv, UsersShapes
    <3>3. invites' = [invites EXCEPT ![t] = new]
      BY <3>1 DEF UsersInv, UsersShapes
    <3>4. Exists(u)
      BY <2>0, <3>1, <3>2 DEF UsersInv, UsersShapes, UsersTypeOK, Accepts
    <3> HIDE DEF old
    <3>5. new \in Invite /\ new.user = old.user
      BY <3>2 DEF Invite
    <3> HIDE DEF new
    <3>6. /\ invites' \in [Token -> {None} \cup Invite]
          /\ \A x \in Token : invites'[x] # None =>
               invites[x] # None /\ invites'[x].user = invites[x].user
      BY <1>18, <3>2, <3>3, <3>5 DEF old
    <3>7. ReqShape(next) /\ next.pc = "reread" /\ next.target = u
      BY DEF ReqShape, Target
    <3> HIDE DEF next
    <3>8. /\ req'[r] = next /\ \A q \in Req \ {r} : req'[q] = req[q]
          /\ req' = [q \in Req |-> req'[q]]
          /\ \A q \in Req : ReqShape(req'[q])
      BY <3>1, <3>7, ReqGoes DEF UsersInv
    <3>9. UsersTypeOK'
      <4>1. \A x \in Token : (invites[x] # None => Exists(invites[x].user))'
        BY <3>1, <3>6 DEF UsersInv, UsersShapes, UsersTypeOK, Exists
      <4> QED
        BY <3>1, <3>4, <4>1 DEF UsersInv, UsersShapes, UsersTypeOK, Exists
    <3>10. UsersShapes' /\ SingleRoot'
      BY <3>1, <3>6, <3>8, <3>9 DEF UsersInv, UsersShapes, SingleRoot, Exists
    <3>11. ChangeIsInvalidated'
      BY <3>1, <3>7, <3>8 DEF UsersInv, ChangeIsInvalidated
    <3>12. GoneIsInvalidated'
      BY <3>1, <3>4, <3>8 DEF UsersInv, GoneIsInvalidated, Exists
    <3>13. \A q \in Req : Accepts(req[q])'
      <4>1. \A q \in Req : req'[q].pc = "accept" => req'[q] = req[q] /\ req[q].token \in Token
        BY <1>a, <3>7, <3>8 DEF ReqShape
      <4> QED
        BY <3>6, <4>1 DEF UsersInv, Accepts
    <3> QED
      BY <3>10, <3>11, <3>12, <3>13 DEF UsersInv
  <2> QED
    BY <2>1, <2>2
<1>20. ASSUME NEW t \in Token, ExpireInvite(t) PROVE UsersInv'
  <2> DEFINE old == invites[t]
             new == [old EXCEPT !.expired = TRUE]
  <2>1. /\ old # None /\ invites' = [invites EXCEPT ![t].expired = TRUE]
        /\ UNCHANGED <<users, usedIds, changed, req>>
    BY <1>20 DEF ExpireInvite
  <2>2. invites' = [invites EXCEPT ![t] = new] /\ old \in Invite
    BY <2>1 DEF UsersInv, UsersShapes
  <2> HIDE DEF old
  <2>3. new \in Invite /\ new.user = old.user
    BY <2>2 DEF Invite
  <2> HIDE DEF new
  <2>4. /\ invites' \in [Token -> {None} \cup Invite]
        /\ \A x \in Token : invites'[x] # None => invites[x] # None /\ invites'[x].user = invites[x].user
    BY <1>18, <2>1, <2>2, <2>3 DEF old
  <2>5. \A x \in Token : (invites[x] # None => Exists(invites[x].user))'
    BY <2>1, <2>4 DEF UsersInv, UsersShapes, UsersTypeOK, Exists
  <2>6. UsersShapes' /\ SingleRoot'
    BY <2>1, <2>4, <2>5 DEF UsersInv, UsersShapes, UsersTypeOK, SingleRoot, Exists, ReqShape, Target
  <2>7. ChangeIsInvalidated' /\ GoneIsInvalidated'
    BY <2>1 DEF UsersInv, ChangeIsInvalidated, GoneIsInvalidated, Exists
  <2>8. \A q \in Req : Accepts(req[q])'
    <3>1. \A q \in Req : req[q].pc = "accept" => req[q].token \in Token
      BY <1>a DEF ReqShape
    <3> QED
      BY <2>1, <2>4, <3>1 DEF UsersInv, Accepts
  <2> QED
    BY <2>6, <2>7, <2>8 DEF UsersInv
<1>21. CASE UNCHANGED usersVars
  BY <1>21
  DEF usersVars, UsersInv, UsersShapes, UsersTypeOK, SingleRoot, Exists, ReqShape, Target, Accepts,
      ChangeIsInvalidated, GoneIsInvalidated
<1> QED
  BY <1>1, <1>2, <1>3, <1>4, <1>5, <1>6, <1>7, <1>8, <1>9, <1>10, <1>11, <1>12, <1>13, <1>14, <1>15,
     <1>16, <1>17, <1>19, <1>20, <1>21
  DEF UsersNext

-----------------------------------------------------------------------------
(* The decisions on a stored user agree.                                     *)
StoredUser(user) ==
  /\ user.rules # None => user.rules.clusterIDs \subseteq ClusterId
  /\ user.grants \subseteq GrantIn
  /\ user.root \in BOOLEAN

LEMMA RowIsStoredUser ==
  ASSUME NEW user \in Row
  PROVE  StoredUser(user)
<1>1. PICK rules \in RulesIn \cup
               [clusterIDs : SUBSET InvitableCluster, assignableRoles : {{"viewer"}},
                manageUsers : {FALSE}, viewAudit : {FALSE}, deleteClusters : {FALSE}] :
        user.rules = rules
  BY DEF Row
<1>2. rules # None => rules.clusterIDs \subseteq InvitableCluster
  BY DEF InvitableCluster
<1> QED  BY <1>1, <1>2 DEF Row, StoredUser, ClusterId

(* Everything is open to whom: PermissionsFor against IsLegacyFullAdmin.     *)
Unbounded(user) == user.root \/ ("admin" \in user.roles /\ user.rules = None)

LEMMA HighestIsAdmin ==
  ASSUME NEW user
  PROVE  /\ HighestRole(user.roles) = "admin" <=> "admin" \in user.roles
         /\ IsLegacyFullAdmin(user) <=> ("admin" \in user.roles /\ user.rules = None)
<1>1. "admin" \in user.roles => HighestRole(user.roles) = "admin"
  BY DEF HighestRole
<1>2. "admin" \notin user.roles /\ "operator" \in user.roles => HighestRole(user.roles) = "operator"
  BY DEF HighestRole
<1>3. "admin" \notin user.roles /\ "operator" \notin user.roles => HighestRole(user.roles) # "admin"
  BY NoneIsNoRole DEF HighestRole, Role
<1> QED  BY <1>1, <1>2, <1>3 DEF IsLegacyFullAdmin

(* What PermissionsFor grants, in the terms of the rules.                    *)
LEMMA PermissionsAre ==
  ASSUME NEW user, StoredUser(user)
  PROVE  LET p == PermissionsFor(user)
         IN  /\ Unbounded(user) => p.isRoot \/ p.allClusters
             /\ ~Unbounded(user) =>
                  /\ ~p.isRoot /\ ~p.allClusters
                  /\ p.clusterIDs = IF user.rules # None THEN user.rules.clusterIDs ELSE {}
<1>1. CASE user.root
  <2>1. PermissionsFor(user) = FullPermissions
    BY <1>1 DEF PermissionsFor
  <2> QED  BY <1>1, <2>1 DEF FullPermissions, Unbounded
<1>2. CASE ~user.root /\ "admin" \in user.roles /\ user.rules = None
  <2>1. PermissionsFor(user) = [FullPermissions EXCEPT !.isRoot = FALSE]
    BY <1>2 DEF PermissionsFor, HasRole
  <2> QED  BY <1>2, <2>1 DEF FullPermissions, Unbounded
<1>3. CASE ~Unbounded(user)
  <2> DEFINE rules == IF user.rules # None THEN user.rules
                      ELSE [clusterIDs |-> {}, assignableRoles |-> {}, manageUsers |-> FALSE,
                            viewAudit |-> FALSE, deleteClusters |-> FALSE]
  <2>1. rules.clusterIDs = IF user.rules # None THEN user.rules.clusterIDs ELSE {}
    OBVIOUS
  <2>2. ~user.root /\ ~(HasRole(user.roles, "admin") /\ user.rules = None)
    BY <1>3 DEF Unbounded, HasRole
  <2>3. PermissionsFor(user) =
          [clusterIDs |-> rules.clusterIDs, assignableRoles |-> rules.assignableRoles,
           isRoot |-> FALSE, allClusters |-> FALSE, manageUsers |-> rules.manageUsers,
           viewAudit |-> rules.viewAudit, deleteClusters |-> rules.deleteClusters]
    BY <2>2 DEF PermissionsFor
  <2> HIDE DEF rules
  <2> QED  BY <1>3, <2>1, <2>3
<1> QED  BY <1>1, <1>2, <1>3 DEF Unbounded

(* Access to a cluster, as the gate and as the listings decide it.           *)
LEMMA AccessIs ==
  ASSUME NEW user, StoredUser(user), NEW c
  PROVE  /\ AllowsCluster(PermissionsFor(user), c) <=> AllowsClusterRules(user, c)
         /\ AllowsClusterWithGrants(user, c) <=> CanAccessClusterOrAccount(user, c)
         /\ Unbounded(user) => CanAccessCluster(user, c)
         /\ CanAccessCluster(user, c) => CanAccessClusterOrAccount(user, c)
         /\ ~Unbounded(user) =>
              (CanAccessClusterOrAccount(user, c) <=> c \in ClusterIDsForActor(user))
<1>1. AllowsClusterRules(user, c) <=> Unbounded(user) \/ (user.rules # None /\ c \in user.rules.clusterIDs)
  BY HighestIsAdmin DEF AllowsClusterRules, Unbounded
<1>2. AllowsCluster(PermissionsFor(user), c) <=> AllowsClusterRules(user, c)
  BY <1>1, PermissionsAre DEF AllowsCluster
<1>3. \A g \in user.grants :
        /\ g.type \in {"system", "account", "nats_user"}
        /\ g.type = "system" => (g.key = <<c>> <=> g.key[1] = c)
  BY GrantConstants DEF StoredUser
<1>4. CanAccessClusterOrAccount(user, c) <=>
        AllowsClusterRules(user, c) \/ \E g \in user.grants : g.key[1] = c
  BY <1>3 DEF CanAccessClusterOrAccount, CanAccessCluster, HasAdminOrObserverGrant
<1>5. AllowsClusterWithGrants(user, c) <=> CanAccessClusterOrAccount(user, c)
  BY <1>2, <1>3, <1>4 DEF AllowsClusterWithGrants
<1>6. ~Unbounded(user) => (CanAccessClusterOrAccount(user, c) <=> c \in ClusterIDsForActor(user))
  BY <1>1, <1>4, PermissionsAre DEF ClusterIDsForActor
<1> QED  BY <1>1, <1>2, <1>5, <1>6 DEF CanAccessCluster, CanAccessClusterOrAccount

(* The gate on the paths of a cluster.                                       *)
LEMMA GateIs ==
  ASSUME NEW user, NEW c, c # None, NEW seg
  PROVE  /\ VerifyRBAC(user, ClusterPath(c, seg), "read") <=>
              IF seg \in AccountScopedSegments THEN CanAccessClusterOrAccount(user, c)
              ELSE CanAccessCluster(user, c)
         /\ seg = "access" =>
              (VerifyRBAC(user, ClusterPath(c, seg), "write") <=> CanAccessClusterOrAccount(user, c))
         /\ seg = "streams" =>
              (VerifyRBAC(user, ClusterPath(c, seg), "write") <=>
                 CanAccessCluster(user, c) /\ CanManageJetStream(user, c))
<1> DEFINE path == ClusterPath(c, seg)
<1>1. path.area = "clusters" /\ path.cluster = c /\ path.seg = seg
  BY DEF ClusterPath
<1> HIDE DEF path
<1>2. VerifyRBAC(user, path, "read") <=> CanReadClusterPath(user, path)
  BY <1>1 DEF VerifyRBAC
<1>3. VerifyRBAC(user, path, "write") <=> CanMutateClusterPath(user, path)
  BY <1>1 DEF VerifyRBAC
<1>4. "access" \in AccountScopedSegments /\ "streams" \notin AccountScopedSegments
      /\ "streams" \in JetStreamSegments
  BY DEF AccountScopedSegments, JetStreamSegments
<1>5. CanReadClusterPath(user, path) <=>
        IF seg \in AccountScopedSegments THEN CanAccessClusterOrAccount(user, c)
        ELSE CanAccessCluster(user, c)
  BY <1>1 DEF CanReadClusterPath
<1>6. seg = "access" => (CanMutateClusterPath(user, path) <=> CanAccessClusterOrAccount(user, c))
  BY <1>1, <1>4 DEF CanMutateClusterPath
<1>7. seg = "streams" =>
        (CanMutateClusterPath(user, path) <=> CanAccessCluster(user, c) /\ CanManageJetStream(user, c))
  BY <1>1, <1>4 DEF CanMutateClusterPath
<1> QED  BY <1>2, <1>3, <1>5, <1>6, <1>7 DEF path

(* The clusters a listing shows are the ones the user has access to.         *)
LEMMA ListingsAgree ==
  ASSUME NEW user, StoredUser(user)
  PROVE  LET open == {c \in ClusterId : CanAccessClusterOrAccount(user, c)}
         IN  /\ FilterClustersForActor(ClusterId, user) = open
             /\ AuditFilterForActor(ClusterId, user, None) = open
             /\ AlertFeed(ClusterId, user) = open
             /\ CanManageGlobalAlertRules(user) <=> Unbounded(user)
<1> DEFINE open == {c \in ClusterId : CanAccessClusterOrAccount(user, c)}
<1>1. ShouldFilterClusters(PermissionsFor(user)) <=> ~Unbounded(user)
  BY PermissionsAre DEF ShouldFilterClusters
<1>2. Unbounded(user) => open = ClusterId
  BY AccessIs
<1>3. FilterClustersForActor(ClusterId, user) = open
  BY <1>1, <1>2, AccessIs DEF FilterClustersForActor
<1>4. ~Unbounded(user) => ClusterIDsForActor(user) \cap ClusterId = open
  BY AccessIs
<1>5. AuditFilterForActor(ClusterId, user, None) = open
  BY <1>1, <1>2, <1>4 DEF AuditFilterForActor
<1>6. ~Unbounded(user) => ClusterIDsForActor(user) \in SUBSET ClusterId
  <2>1. \A g \in user.grants : g.key[1] \in ClusterId
    BY DEF StoredUser, ClusterId
  <2>2. ~Unbounded(user) => PermissionsFor(user).clusterIDs \subseteq ClusterId
    BY PermissionsAre DEF StoredUser
  <2> QED  BY <2>1, <2>2 DEF ClusterIDsForActor
<1>7. AccessibleClusterIDs(user) = IF Unbounded(user) THEN None ELSE ClusterIDsForActor(user)
  BY PermissionsAre DEF AccessibleClusterIDs, ClusterIDsForActor
<1>8. AccessibleClusterIDs(user) = None <=> Unbounded(user)
  BY <1>6, <1>7, GrantConstants
<1>9. AlertFeed(ClusterId, user) = open
  <2>1. CASE Unbounded(user)
    BY <1>2, <1>8, <2>1 DEF AlertFeed
  <2>2. CASE ~Unbounded(user)
    <3>1. AlertFeed(ClusterId, user) = ClusterId \cap ClusterIDsForActor(user)
      BY <1>7, <1>8, <2>2 DEF AlertFeed
    <3> QED  BY <1>4, <2>2, <3>1
  <2> QED  BY <2>1, <2>2
<1> QED  BY <1>3, <1>5, <1>8, <1>9 DEF CanManageGlobalAlertRules

(* ListClusters names those clusters, with the URLs of the ones open         *)
(* themselves.                                                               *)
LEMMA ShownAre ==
  ASSUME NEW user, StoredUser(user)
  PROVE  LET shown == ListClusters(ClusterId, user)
         IN  /\ {s.id : s \in shown} = {c \in ClusterId : CanAccessClusterOrAccount(user, c)}
             /\ {s.id : s \in {x \in shown : x.urls}} = {c \in ClusterId : CanAccessCluster(user, c)}
<1> DEFINE open == {c \in ClusterId : CanAccessClusterOrAccount(user, c)}
           Show(c) == [id |-> c, urls |-> CanAccessCluster(user, c)]
           shown == ListClusters(ClusterId, user)
<1>1. shown = {Show(c) : c \in open}
  BY ListingsAgree DEF ListClusters, RedactClusterURLs
<1>2. \A c : Show(c).id = c /\ (Show(c).urls <=> CanAccessCluster(user, c))
  OBVIOUS
<1> HIDE DEF Show, shown
<1>3. {s.id : s \in shown} = open
  BY <1>1, <1>2
<1>4. {s.id : s \in {x \in shown : x.urls}} = {c \in ClusterId : CanAccessCluster(user, c)}
  <2>1. \A c \in ClusterId : CanAccessCluster(user, c) => c \in open
    BY AccessIs
  <2>2. {s.id : s \in {x \in shown : x.urls}} = {c \in open : CanAccessCluster(user, c)}
    BY <1>1, <1>2
  <2> QED  BY <2>1, <2>2
<1> QED  BY <1>3, <1>4 DEF shown

(* The alert rules ListRules shows are the ones GetRule opens.               *)
LEMMA RulesAgree ==
  ASSUME NEW user, StoredUser(user)
  PROVE  LET rules  == ClusterId \cup {None}
             opened == {c \in rules : CanOpenAlertRule(user, c)}
         IN  /\ CanManageAlertRules(user) => opened = FilterAlertRulesForActor(rules, user)
             /\ \A from, to \in rules : CanMoveAlertRule(user, from, to) <=> {from, to} \subseteq opened
<1> DEFINE rules  == ClusterId \cup {None}
           opened == {c \in rules : CanOpenAlertRule(user, c)}
<1>1. CanManageGlobalAlertRules(user) => \A c \in rules : CanAccessAlertRuleCluster(user, c)
  BY ListingsAgree, AccessIs DEF CanAccessAlertRuleCluster
<1>2. CanManageAlertRules(user) => opened = FilterAlertRulesForActor(rules, user)
  BY <1>1 DEF CanOpenAlertRule, FilterAlertRulesForActor
<1>3. ASSUME NEW from \in rules, NEW to \in rules
      PROVE  CanMoveAlertRule(user, from, to) <=> {from, to} \subseteq opened
  BY DEF CanMoveAlertRule, CanOpenAlertRule, CanAccessAlertRuleCluster
<1> QED  BY <1>2, <1>3

LEMMA ListedAgrees ==
  ASSUME NEW user, StoredUser(user)
  PROVE  ListedIffReachable(user)
<1> DEFINE shown == ListClusters(ClusterId, user)
           open == {c \in ClusterId : CanAccessClusterOrAccount(user, c)}
           inside == {c \in ClusterId : CanAccessCluster(user, c)}
           reads(c, seg) == VerifyRBAC(user, ClusterPath(c, seg), "read")
           rules == ClusterId \cup {None}
           opened == {c \in rules : CanOpenAlertRule(user, c)}
<1>1. ASSUME NEW c \in ClusterId, NEW seg
      PROVE  reads(c, seg) <=> IF seg \in AccountScopedSegments
                               THEN CanAccessClusterOrAccount(user, c) ELSE CanAccessCluster(user, c)
  <2>1. c # None
    BY GrantConstants
  <2> QED  BY <2>1, GateIs
<1>a. \A seg \in AccountScopedSegments : {c \in ClusterId : reads(c, seg)} = open
  BY <1>1
<1>b. "streams" \notin AccountScopedSegments
  BY DEF AccountScopedSegments
<1>c. "" \in AccountScopedSegments /\ "connection" \in AccountScopedSegments
  BY DEF AccountScopedSegments
<1>2. {s.id : s \in shown} = open /\ {s.id : s \in {x \in shown : x.urls}} = inside
  BY ShownAre
<1>3. /\ ListClusterConnections(ClusterId, user) = open
      /\ AuditFilterForActor(ClusterId, user, None) = open
      /\ AlertFeed(ClusterId, user) = open
  BY ListingsAgree DEF ListClusterConnections
<1>4. {c \in ClusterId : reads(c, "")} = open /\ {c \in ClusterId : reads(c, "connection")} = open
  <2> HIDE DEF reads, open
  <2> QED  BY <1>a, <1>c, Zenon
<1>5. {c \in ClusterId : reads(c, "streams")} = inside
  BY <1>1, <1>b
<1>6. {c \in ClusterId : CanSeeAlert(user, c)} = open
  BY DEF CanSeeAlert
<1>7. /\ CanManageAlertRules(user) => opened = FilterAlertRulesForActor(rules, user)
      /\ \A from, to \in rules : CanMoveAlertRule(user, from, to) <=> {from, to} \subseteq opened
  BY RulesAgree
<1> HIDE DEF shown, open, inside, rules, opened, reads
<1>8. /\ {s.id : s \in shown} = {c \in ClusterId : reads(c, "")}
      /\ {s.id : s \in {x \in shown : x.urls}} = {c \in ClusterId : reads(c, "streams")}
      /\ ListClusterConnections(ClusterId, user) = {c \in ClusterId : reads(c, "connection")}
      /\ {s.id : s \in shown} = AuditFilterForActor(ClusterId, user, None)
      /\ {s.id : s \in shown} = AlertFeed(ClusterId, user)
      /\ {s.id : s \in shown} = {c \in ClusterId : CanSeeAlert(user, c)}
  BY <1>2, <1>3, <1>4, <1>5, <1>6, Zenon
<1> QED  BY <1>7, <1>8, Zenon DEF ListedIffReachable, shown, rules, opened, reads

LEMMA CapabilitiesAgree ==
  ASSUME NEW user, StoredUser(user), NEW g \in GrantIn
  PROVE  CapabilityHasAccess(user, g)
<1> DEFINE res == Resource(g)
           c == res.cluster
           account == res.account
           natsUser == res.natsUser
           gate(seg, m) == VerifyRBAC(user, ClusterPath(c, seg), m)
<1>1. c = g.key[1]
  BY DEF Resource
<1>2. c # None
  BY <1>1, GrantConstants DEF ClusterId
<1> HIDE DEF res
<1>3. /\ Can(user, "write_cluster", res) = CanWriteCluster(user, c)
      /\ Can(user, "manage_jetstream", res) = CanManageJetStream(user, c)
      /\ Can(user, "access_cluster", res) = CanAccessCluster(user, c)
      /\ Can(user, "access_cluster_or_account", res) = CanAccessClusterOrAccount(user, c)
      /\ Can(user, "access_account", res) = CanAccessAccount(user, c, account)
      /\ Can(user, "download_creds", res) = CanDownloadCreds(user, c, account, natsUser)
      /\ Can(user, "manage_account_access", res) = CanManageAccountAccess(user, c, account)
  BY DEF Can
<1> HIDE DEF c, account, natsUser
<1>4. gate("accounts", "read") <=> CanAccessClusterOrAccount(user, c)
  <2>1. "accounts" \in AccountScopedSegments
    BY DEF AccountScopedSegments
  <2> QED  BY <1>2, <2>1, GateIs
<1>5. gate("access", "write") <=> CanAccessClusterOrAccount(user, c)
  BY <1>2, GateIs
<1>6. gate("streams", "write") <=> CanAccessCluster(user, c) /\ CanManageJetStream(user, c)
  BY <1>2, GateIs
<1>7. user.root \/ HasAdminGrant(user, "system", <<c>>) => CanAccessCluster(user, c)
  BY DEF CanAccessCluster, AllowsClusterRules, HasAdminGrant, HasAdminOrObserverGrant
<1>8. CanWriteCluster(user, c) \/ CanManageJetStream(user, c) => CanAccessCluster(user, c)
  BY <1>7 DEF CanWriteCluster, CanManageJetStream, CanAccessCluster
<1>9. CanAccessAccount(user, c, account) => CanAccessClusterOrAccount(user, c)
  BY DEF CanAccessAccount, CanAccessClusterOrAccount, AccountResourceKey, NATSUserGrantCoversAccount
<1>10. CanManageAccountAccess(user, c, account) => CanAccessAccount(user, c, account)
  BY <1>7 DEF CanManageAccountAccess, CanManageSystemAccess, CanAccessAccount, HasAdminGrant
<1>11. CanDownloadCreds(user, c, account, natsUser) => CanAccessAccount(user, c, account)
  BY <1>7 DEF CanDownloadCreds, CanAccessAccount, CanAccessCluster, NATSUserResourceKey,
              NATSUserGrantCoversAccount
<1> HIDE DEF gate
<1>12. /\ Can(user, "write_cluster", res) \/ Can(user, "manage_jetstream", res) =>
            Can(user, "access_cluster", res)
       /\ Can(user, "manage_account_access", res) \/ Can(user, "download_creds", res) =>
            Can(user, "access_account", res) /\ gate("accounts", "read") /\ gate("access", "write")
       /\ Can(user, "manage_jetstream", res) => gate("streams", "write")
       /\ Can(user, "access_account", res) => Can(user, "access_cluster_or_account", res)
  BY <1>3, <1>4, <1>5, <1>6, <1>8, <1>9, <1>10, <1>11
<1> QED  BY <1>1, <1>12 DEF CapabilityHasAccess, res, gate

(* For any number of requests, replicas and users: there are never two root  *)
(* users, and a committed change of a user is followed by the bump of that   *)
(* user's version, however updates, deletions and accepted invites           *)
(* interleave (CreateUser, idx_users_single_root; the InvalidateUser calls   *)
(* of users_handlers.go and access_handlers.go); and for every stored user   *)
(* the listings, the gates and the capabilities agree (domain/authz.go,      *)
(* apikit/rbac.go, alerts_handlers.go).                                      *)
THEOREM UsersSafe ==
  UsersSpec => [](UsersTypeOK /\ OneRoot /\ ChangeIsInvalidated /\ GatesAgree)
<1>1. ASSUME UsersInv PROVE OneRoot
  <2> DEFINE roots == {u \in UserId : Exists(u) /\ users[u].root}
  <2>1. CASE roots = {}
    BY <2>1, FS_EmptySet DEF OneRoot
  <2>2. CASE roots # {}
    <3>1. PICK u \in roots : TRUE
      BY <2>2
    <3>2. roots = {u}
      BY <1>1, <3>1 DEF UsersInv, SingleRoot
    <3>3. Cardinality({u}) = 1
      BY FS_Singleton
    <3>4. Cardinality(roots) <= 1
      <4> HIDE DEF roots
      <4> QED
        BY <3>2, <3>3
    <3> QED
      BY <3>4 DEF OneRoot
  <2> QED
    BY <2>1, <2>2
<1>2. UsersInv => UsersTypeOK /\ ChangeIsInvalidated
  BY DEF UsersInv, UsersShapes
<1>3. UsersInv => GatesAgree
  <2> SUFFICES ASSUME UsersInv, NEW u \in UserId, Exists(u)
               PROVE  ListedIffReachable(users[u]) /\ \A g \in GrantIn : CapabilityHasAccess(users[u], g)
    BY DEF GatesAgree
  <2>1. StoredUser(users[u])
    BY RowIsStoredUser DEF UsersInv, UsersShapes, UsersTypeOK, Exists
  <2> QED  BY <2>1, ListedAgrees, CapabilitiesAgree
<1> QED
  BY <1>1, <1>2, <1>3, UsersStart, UsersStep, PTL DEF UsersSpec
=============================================================================

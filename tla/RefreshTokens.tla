--------------------------- MODULE RefreshTokens ---------------------------
(***************************************************************************)
(* Refresh tokens of one user: internal/auth/refresh.go over               *)
(* internal/repo/refresh_tokens.go, and the handlers of                    *)
(* internal/api/auth_handlers.go that use them.                            *)
(*                                                                         *)
(* Every statement is one step; requests of several browsers and replicas  *)
(* interleave between the read of a token, the insert of its successor,    *)
(* the compare-and-swap that links them and the deletions.  A token's      *)
(* family is the login it descends from.                                   *)
(***************************************************************************)
EXTENDS Naturals, FiniteSets

CONSTANTS RToken,   \* token rows; a row id is never used again
          RProc,    \* concurrent requests
          NoToken   \* the absent value

VARIABLES rows,      \* token -> None or [family, replacedBy, expired]
          issued,    \* tokens ever inserted
          rproc,     \* request -> progress
          rotations, \* token -> rotations of it that returned new tokens
          held,      \* tokens some client was given
          killed     \* families ended by a logout or by a detected reuse

\* A row of the token table.
RRow == [family : RToken, replacedBy : RToken \cup {NoToken}, expired : BOOLEAN]

ASSUME NoTokenIsNoRow == NoToken \notin RToken \cup RRow

rVars == <<rows, issued, rproc, rotations, held, killed>>

RIdle == [pc |-> "idle"]
Live(t) == rows[t] # NoToken
Families == {rows[t].family : t \in {x \in RToken : Live(x)}}

RInit ==
  /\ rows = [t \in RToken |-> NoToken]
  /\ issued = {}
  /\ rproc = [p \in RProc |-> RIdle]
  /\ rotations = [t \in RToken |-> 0]
  /\ held = {}
  /\ killed = {}

RGo(p, next) == rproc' = [rproc EXCEPT ![p] = next]

\* InsertRefreshToken: a fresh row.
Insert(t, family) ==
  /\ rows' = [rows EXCEPT ![t] = [family |-> family, replacedBy |-> NoToken, expired |-> FALSE]]
  /\ issued' = issued \cup {t}

\* DeleteRefreshTokenByHash: replaced_by references the table itself (migration 024), so a row
\* another row points to cannot be deleted alone; the error is logged and the row stays.
DeleteOne(t) ==
  rows' = IF \E o \in RToken : Live(o) /\ rows[o].replacedBy = t
          THEN rows ELSE [rows EXCEPT ![t] = NoToken]

\* DeleteRefreshTokensByUser: every token of the user, replaced or not.
DeleteAll == rows' = [t \in RToken |-> NoToken]

\* Login and AcceptInvite: a token of a new family.
IssueRefresh(p) ==
  /\ rproc[p].pc = "idle"
  /\ \E t \in RToken \ issued : Insert(t, t) /\ held' = held \cup {t}
  /\ UNCHANGED <<rproc, rotations, killed>>

\* RotateRefresh, the read: an unknown token or one bound to another device is refused, an
\* expired one is deleted, a replaced one ends the family.
GetRefreshToken(p) ==
  /\ rproc[p].pc = "idle"
  /\ \E t \in held :
       IF ~Live(t) THEN UNCHANGED <<rproc, rows>>
       ELSE IF rows[t].replacedBy # NoToken
            THEN RGo(p, [pc |-> "reuse"]) /\ UNCHANGED rows
       ELSE IF rows[t].expired
            THEN DeleteOne(t) /\ UNCHANGED rproc
       ELSE \/ RGo(p, [pc |-> "issue", old |-> t, family |-> rows[t].family]) /\ UNCHANGED rows
            \/ UNCHANGED <<rproc, rows>>   \* FingerprintHash differs, or the user is gone
  /\ UNCHANGED <<issued, rotations, held, killed>>

\* IssueRefresh inside RotateRefresh.
IssueSuccessor(p) ==
  /\ rproc[p].pc = "issue"
  /\ \E t \in RToken \ issued :
       /\ Insert(t, rproc[p].family)
       /\ RGo(p, [pc |-> "mark", old |-> rproc[p].old, new |-> t])
  /\ UNCHANGED <<rotations, held, killed>>

\* WHERE id = $1 AND replaced_by IS NULL: a row that is gone or already replaced matches nothing.
Replaceable_ById(t) == Live(t)
Replaceable(t) == Live(t) /\ rows[t].replacedBy = NoToken

MarkReplaced(p) ==
  LET old == rproc[p].old
  IN  /\ rproc[p].pc = "mark"
      /\ IF Replaceable(old)
         THEN /\ rows' = [rows EXCEPT ![old].replacedBy = rproc[p].new]
              /\ rotations' = [rotations EXCEPT ![old] = @ + 1]
              /\ held' = held \cup {rproc[p].new}
              /\ RGo(p, RIdle)
         ELSE RGo(p, [pc |-> "lost"]) /\ UNCHANGED <<rows, rotations, held>>
      /\ UNCHANGED <<issued, killed>>

\* The statement fails: the successor stays as a row nobody holds, and the client is refused.
MarkFails(p) ==
  /\ rproc[p].pc = "mark"
  /\ RGo(p, RIdle)
  /\ UNCHANGED <<rows, issued, rotations, held, killed>>

\* The lost compare-and-swap, and the replaced token presented again, end every family.
EndFamilies(p) ==
  /\ rproc[p].pc \in {"reuse", "lost"}
  /\ DeleteAll
  /\ killed' = killed \cup Families
  /\ RGo(p, RIdle)
  /\ UNCHANGED <<issued, rotations, held>>

\* Logout with a session that parses deletes every token of the user ...
Logout(p) ==
  /\ rproc[p].pc = "idle" /\ Families # {}
  /\ DeleteAll
  /\ killed' = killed \cup Families
  /\ UNCHANGED <<issued, rproc, rotations, held>>

\* ... and otherwise only the token it carries.
LogoutToken(p) ==
  /\ rproc[p].pc = "idle"
  /\ \E t \in held : Live(t) /\ DeleteOne(t)
  /\ UNCHANGED <<issued, rproc, rotations, held, killed>>

ExpireToken(t) ==
  /\ Live(t) /\ ~rows[t].expired
  /\ rows' = [rows EXCEPT ![t].expired = TRUE]
  /\ UNCHANGED <<issued, rproc, rotations, held, killed>>

RNext ==
  \/ \E p \in RProc :
       \/ IssueRefresh(p) \/ GetRefreshToken(p) \/ IssueSuccessor(p) \/ MarkReplaced(p)
       \/ MarkFails(p) \/ EndFamilies(p) \/ Logout(p) \/ LogoutToken(p)
  \/ \E t \in RToken : ExpireToken(t)

RSpec == RInit /\ [][RNext]_rVars
-----------------------------------------------------------------------------
\* The type invariant; a successor link points to an issued token.
RTypeOK ==
  /\ \A t \in RToken : Live(t) =>
       t \in issued /\ rows[t].family \in issued /\ rows[t].replacedBy \in issued \cup {NoToken}
  /\ held \subseteq issued /\ killed \subseteq issued
  /\ rotations \in [RToken -> Nat]

\* Two browsers tabs or replicas rotating one refresh token never both obtain a successor,
\* although each reads the token, inserts and links in separate statements (RotateRefresh,
\* MarkRefreshTokenReplaced).
OneRotation == \A t \in RToken : rotations[t] <= 1

\* Once a logout or a detected reuse has deleted a user's tokens, no token of those families
\* that a client holds is valid again: a rotation in flight across the deletion hands out
\* nothing (RotateRefresh after DeleteRefreshTokensByUser).
KilledFamilyStaysDead ==
  \A t \in held : Live(t) => rows[t].family \notin killed

\* What the rotation of refresh tokens promises: one successor for a token, however many ask,
\* and none that outlives its family (RotateRefresh).
RotationIsSafe == OneRotation /\ KilledFamilyStaysDead
=============================================================================

----------------------------- MODULE StreamNav ------------------------------
(***************************************************************************)
(* Walking through the messages of one stream: GetMessageNav and           *)
(* findPrevSeq of internal/nats/client.go with the existence cache of      *)
(* internal/nats/seq_exists.go.                                            *)
(*                                                                         *)
(* A navigation is a process.  Each of its reads is a step, so messages    *)
(* come and go under a search, and the navigations of one client share its *)
(* cache, which lives on between them.  The link to the next message is    *)
(* one read of the server, passed on (findNextSeq), and has no state here. *)
(***************************************************************************)
EXTENDS Integers, FiniteSets, FiniteSetsExt

CONSTANTS MaxNav,     \* bound on sequences of the stream
          Walker,     \* concurrent navigations
          MaxCached   \* entries after which the cache starts again

ASSUME NavConstants == MaxNav \in Nat /\ MaxCached \in Nat

VARIABLES navMsgs,          \* sequences stored
          navLast,          \* highest sequence ever
          present, absent,  \* the client's existence cache
          nav               \* navigation -> progress, or its answer

navStream == <<navMsgs, navLast>>
navVars == <<navStream, present, absent, nav>>

NavIdle == [pc |-> "idle"]

NavInit ==
  /\ navMsgs = {} /\ navLast = 0 /\ present = {} /\ absent = {}
  /\ nav = [w \in Walker |-> NavIdle]

NavGo(w, next) == nav' = [nav EXCEPT ![w] = next]
AtRest(w) == nav[w].pc \in {"idle", "answered"}
Searching(w) == nav[w].pc \in {"back", "prev"}

\* The first sequence the server reports: 0 of a stream that never had a message.
NavFirst == IF navMsgs # {} THEN Min(navMsgs) ELSE IF navLast = 0 THEN 0 ELSE navLast + 1
Above(s) == {x \in navMsgs : x > s}

\* mark() of the cache: one map takes the sequence and the other loses it; a full cache starts
\* again with it.
Mark(s, exists) ==
  LET yes == IF exists THEN {s} ELSE {}
      no == {s} \ yes
      full == Cardinality((present \ no) \cup yes) + Cardinality((absent \ yes) \cup no) > MaxCached
  IN  /\ present' = IF full THEN yes ELSE (present \ no) \cup yes
      /\ absent' = IF full THEN no ELSE (absent \ yes) \cup no

-----------------------------------------------------------------------------
(* findPrevSeq.                                                            *)

\* ensureSeqCache makes the cache without a lock: of navigations that race for the first use, one
\* may go through a search with a cache that nobody sees again.
Lost(w) == present \cup absent = {} /\ \E v \in Walker \ {w} : ~AtRest(v)

\* A search below a sequence, which has nothing to look at unless it is above first.  calm
\* (history): no read of the search failed, the cache told the truth, the message found last is
\* still there and the stream was not made again.
Search(pc, at, first, lost) ==
  [pc |-> pc, at |-> at, first |-> first, lo |-> first, hi |-> at - 1, found |-> 0,
   lost |-> lost, calm |-> TRUE]

Over(q) == q.lo > q.hi
Mid(q) == q.lo + (q.hi - q.lo) \div 2

Turned(q, lo, hi, found, calm) ==
  [pc |-> q.pc, at |-> q.at, first |-> q.first, lo |-> lo, hi |-> hi, found |-> found,
   lost |-> q.lost, calm |-> q.calm /\ calm]

\* Where the loop goes on after a probe of mid, whose answer may be wrong; a gap at first ends it.
Narrowed_StopsAtGap(q, mid, exists, right) ==
  IF exists THEN Turned(q, mid + 1, q.hi, mid, right) ELSE Turned(q, q.hi + 1, q.hi, q.found, right)
Narrowed(q, mid, exists, right) ==
  IF exists THEN Turned(q, mid + 1, q.hi, mid, right)
  ELSE IF mid = q.first THEN Turned(q, q.hi + 1, q.hi, q.found, right)
  ELSE Turned(q, q.lo, mid - 1, q.found, right)

\* One turn of the loop: the cache, or GetMsg where it does not know, whose answer is marked;
\* another error ends the search with nothing.
Probe(w) ==
  LET q == nav[w]
      mid == Mid(q)
      known == ~q.lost /\ mid \in present \cup absent
  IN  /\ Searching(w) /\ ~Over(q)
      /\ \/ \E exists \in BOOLEAN :
              /\ exists <=> mid \in (IF known THEN present ELSE navMsgs)
              /\ NavGo(w, Narrowed(q, mid, exists, exists <=> mid \in navMsgs))
              /\ IF known \/ q.lost THEN UNCHANGED <<present, absent>> ELSE Mark(mid, exists)
         \/ /\ ~known
            /\ NavGo(w, Turned(q, q.hi + 1, q.hi, 0, FALSE))
            /\ UNCHANGED <<present, absent>>
      /\ UNCHANGED navStream

-----------------------------------------------------------------------------
(* GetMessageNav.                                                          *)

\* Begin, with the stream's bounds: the sequence itself, the one after it, or a search.
GetMessageNav(w) ==
  /\ AtRest(w)
  /\ \E seq \in 1 .. MaxNav :
       \/ \E direction \in {"", "next"} :
            NavGo(w, [pc |-> "get", seq |-> seq, direction |-> direction, first |-> NavFirst])
       \/ IF seq <= NavFirst THEN NavGo(w, NavIdle)
          ELSE \E lost \in {FALSE, Lost(w)} : NavGo(w, Search("back", seq, NavFirst, lost))
  /\ UNCHANGED <<navStream, present, absent>>

\* A search for the message to show ended: what it found is read, or there is none.
BackEnds(w) ==
  LET q == nav[w]
  IN  /\ q.pc = "back" /\ Over(q)
      /\ NavGo(w, IF q.found = 0 THEN NavIdle
                  ELSE [pc |-> "get", seq |-> q.found, direction |-> "", first |-> q.first])
      /\ UNCHANGED <<navStream, present, absent>>

\* The read of the message: it is marked and the search for the one before it begins.  It may be
\* gone, and the read may fail.
GetMsg(w) ==
  LET q == nav[w]
      these == IF q.direction = "next" THEN Above(q.seq) ELSE {q.seq} \cap navMsgs
      at == Min(these)
  IN  /\ q.pc = "get"
      /\ \/ /\ these # {}
            /\ Mark(at, TRUE)
            /\ \E lost \in {FALSE, Lost(w)} : NavGo(w, Search("prev", at, q.first, lost))
         \/ /\ NavGo(w, NavIdle)
            /\ UNCHANGED <<present, absent>>
      /\ UNCHANGED navStream

\* The answer: the message, and the one before it (0: none).
NavAnswer(w) ==
  LET q == nav[w]
  IN  /\ q.pc = "prev" /\ Over(q)
      /\ NavGo(w, [pc |-> "answered", at |-> q.at, first |-> q.first, found |-> q.found, calm |-> q.calm])
      /\ UNCHANGED <<navStream, present, absent>>

-----------------------------------------------------------------------------
(* The stream, and the life of the cache.                                  *)

NavPublish ==
  /\ navLast < MaxNav
  /\ navLast' = navLast + 1 /\ navMsgs' = navMsgs \cup {navLast + 1}
  /\ UNCHANGED <<present, absent, nav>>

\* The navigations this disturbs are not calm any more.
Disturbed(these) ==
  nav' = [w \in Walker |-> IF w \in these /\ nav[w].pc \in {"back", "prev", "answered"}
                           THEN [nav[w] EXCEPT !.calm = FALSE] ELSE nav[w]]

NavDelete ==
  /\ \E s \in navMsgs :
       /\ navMsgs' = navMsgs \ {s}
       /\ Disturbed({w \in Walker : nav[w].pc \in {"back", "prev", "answered"} /\ nav[w].found = s})
  /\ UNCHANGED <<navLast, present, absent>>

\* The stream is deleted and created again: its sequences begin at 1, and the cache keeps what
\* it knew under the name.
NavRecreate ==
  /\ navLast > 0
  /\ navLast' = 0 /\ navMsgs' = {} /\ Disturbed(Walker)
  /\ UNCHANGED <<present, absent>>

\* A new connection has a new client; the navigations of the old one have ended.
NewClient ==
  /\ present \cup absent # {} /\ \A w \in Walker : AtRest(w)
  /\ present' = {} /\ absent' = {}
  /\ UNCHANGED <<navStream, nav>>

NavNext ==
  \/ \E w \in Walker : GetMessageNav(w) \/ Probe(w) \/ BackEnds(w) \/ GetMsg(w) \/ NavAnswer(w)
  \/ NavPublish \/ NavDelete \/ NavRecreate \/ NewClient

NavSpec == NavInit /\ [][NavNext]_navVars

-----------------------------------------------------------------------------
\* The type invariant.
NavTypeOK ==
  /\ navMsgs \subseteq 1 .. navLast /\ navLast \in 0 .. MaxNav
  /\ present \subseteq 1 .. MaxNav /\ absent \subseteq 0 .. MaxNav /\ present \cap absent = {}

\* The way back never ends early and never leads nowhere: an answer whose stream still has the
\* first message that navigation knew of, before the one shown, names an earlier message that
\* is there; unless a read failed, the cache was wrong about a sequence the search looked at, or
\* the message named was deleted since (findPrevSeq, whose search goes left on every gap).
NavFindsPrev ==
  \A w \in Walker :
    LET a == nav[w]
    IN  a.pc = "answered" /\ a.calm /\ a.first \in navMsgs /\ a.first < a.at =>
          a.found \in navMsgs /\ a.found < a.at
=============================================================================

-------------------------- MODULE JetStreamProofs --------------------------
(***************************************************************************)
(* What the caches of a cluster, the retries of a dead-letter stream, the  *)
(* walk through one and the preview of a replay promise, proved for any    *)
(* number of requests, views, writes, messages and incarnations of the     *)
(* stream.                                                                 *)
(***************************************************************************)
EXTENDS ClusterReads, DeadLetters, StreamNav, ReplayPreview, FiniteSetTheorems, SequenceTheorems,
        WellFoundedInduction, TLAPS

(* The dead letters: the types of what a retry works on; its progress is     *)
(* described as far as its message goes.                                     *)
RetryShapes ==
  /\ inc \in Incarnation /\ lastSeq \in 0 .. MaxSeq /\ stored \subseteq 1 .. lastSeq
  /\ copies \in [Message -> Nat] /\ expiries \in 0 .. MaxExpiries
  /\ window \subseteq Seq1 /\ removed \subseteq Message
  /\ qproc = [p \in QProc |-> qproc[p]]

RetryShape(q) ==
  /\ q.pc = "retry" => q = [pc |-> "retry", todo |-> q.todo]
  /\ q.pc \in {"publish", "delete"} => q = [pc |-> q.pc, m |-> q.m, todo |-> q.todo] /\ q.m \in Message

(* Some incarnation's message of this sequence is in the original stream.    *)
Landed(c, s) == \E i \in Incarnation : c[<<i, s>>] > 0

(* A message was published before it is deleted; an id in the window is of a *)
(* message that is there; a copy beyond the first took an expiry.            *)
RetryInv ==
  /\ RetryShapes
  /\ \A p \in QProc : RetryShape(qproc[p])
  /\ \A p \in QProc : qproc[p].pc = "delete" => Landed(copies, qproc[p].m[2])
  /\ \A s \in window : Landed(copies, s)
  /\ \A m \in removed : Landed(copies, m[2])
  /\ \A m \in Message : copies[m] <= expiries + (IF m[2] \in window THEN 1 ELSE 0)

LEMMA RetryStart == QInit => RetryInv
  BY RetryConstants DEF QInit, QIdle, RetryInv, RetryShapes, RetryShape, Landed, Message, Seq1

(* A request moves, and the rest of the state stays.                         *)
LEMMA RequestMoves ==
  ASSUME RetryInv, NEW p \in QProc, NEW next, QGo(p, next), RetryShape(next),
         next.pc = "delete" => Landed(copies, next.m[2]),
         UNCHANGED <<streamVars, originVars, removed>>
  PROVE  RetryInv'
<1>1. qproc'[p] = next /\ \A q \in QProc \ {p} : qproc'[q] = qproc[q]
  BY DEF RetryInv, RetryShapes, QGo
<1>2. \A s : Landed(copies', s) <=> Landed(copies, s)
  BY DEF Landed, originVars
<1>3. RetryShapes'
  BY DEF RetryInv, RetryShapes, QGo, streamVars, originVars
<1> QED
  BY <1>1, <1>2, <1>3 DEF RetryInv, RetryShape, originVars

LEMMA RetryGoesOn ==
  ASSUME NEW q, NEW todo, NEW x, q = [pc |-> "retry", todo |-> todo]
  PROVE  [q EXCEPT !.todo = x] = [pc |-> "retry", todo |-> x]
  OBVIOUS

LEMMA RetryStep == ASSUME RetryInv, [QNext]_qVars PROVE RetryInv'
<1> USE RetryConstants
<1>1. CASE DeadLetter \/ DeleteMessage \/ Recreate
  <2>1. /\ inc' \in Incarnation /\ lastSeq' \in 0 .. MaxSeq /\ stored' \subseteq 1 .. lastSeq'
        /\ UNCHANGED <<originVars, removed, qproc>>
    BY <1>1 DEF DeadLetter, DeleteMessage, Recreate, RetryInv, RetryShapes
  <2> QED
    BY <2>1 DEF RetryInv, RetryShapes, RetryShape, Landed, originVars
<1>2. CASE WindowPasses
  <2>1. window' = {} /\ expiries' = expiries + 1 /\ expiries < MaxExpiries
        /\ UNCHANGED <<streamVars, copies, removed, qproc>>
    BY <1>2 DEF WindowPasses
  <2>2. RetryShapes'
    BY <2>1 DEF RetryInv, RetryShapes, streamVars
  <2>3. \A m \in Message : copies[m] <= expiries + 1
    BY DEF RetryInv, RetryShapes
  <2> QED
    BY <2>1, <2>2, <2>3 DEF RetryInv, RetryShapes, RetryShape, Landed
<1>3. ASSUME NEW p \in QProc, RetryDLQMessages(p) PROVE RetryInv'
  <2>1. CASE \E seqs \in Named : QGo(p, [pc |-> "retry", todo |-> seqs])
    BY <1>3, <2>1, RequestMoves DEF RetryDLQMessages, RetryShape
  <2>2. CASE \E limit \in Limits :
               QGo(p, [pc |-> "collect", start |-> 0, limit |-> limit, found |-> {},
                       msgs |-> {<<inc, s>> : s \in stored}])
    <3>1. PICK limit \in Limits :
               QGo(p, [pc |-> "collect", start |-> 0, limit |-> limit, found |-> {},
                       msgs |-> {<<inc, s>> : s \in stored}])
      BY <2>2
    <3> DEFINE next == [pc |-> "collect", start |-> 0, limit |-> limit, found |-> {},
                        msgs |-> {<<inc, s>> : s \in stored}]
    <3>2. RetryShape(next) /\ next.pc # "delete"
      BY DEF RetryShape
    <3> HIDE DEF next
    <3> QED
      BY <1>3, <3>1, <3>2, RequestMoves DEF RetryDLQMessages, next
  <2> QED
    BY <1>3, <2>1, <2>2 DEF RetryDLQMessages
<1>4. ASSUME NEW p \in QProc, StreamInfo(p) PROVE RetryInv'
  <2>1. PICK next : QGo(p, next) /\ next.pc \in {"collected", "range"}
    BY <1>4 DEF StreamInfo
  <2> QED
    BY <1>4, <2>1, RequestMoves DEF StreamInfo, RetryShape
<1>5. ASSUME NEW p \in QProc, CollectPage(p) PROVE RetryInv'
  <2> DEFINE q == qproc[p]
             listed == Page(q)
             all == q.found \cup listed.seqs
             on == [pc |-> "collect", start |-> listed.next, limit |-> q.limit, found |-> all,
                    msgs |-> q.msgs]
             end == [pc |-> "collected", found |-> all, msgs |-> q.msgs, truncated |-> listed.next # 0]
  <2>1. (QGo(p, on) \/ QGo(p, end)) /\ UNCHANGED <<streamVars, originVars, removed>>
    BY <1>5, Zenon DEF CollectPage
  <2> HIDE DEF listed, all
  <2>2. RetryShape(on) /\ RetryShape(end) /\ on.pc # "delete" /\ end.pc # "delete"
    BY DEF RetryShape
  <2> HIDE DEF on, end
  <2> QED
    BY <2>1, <2>2, RequestMoves
<1>6. ASSUME NEW p \in QProc, RetryCollected(p) \/ ListFails(p) PROVE RetryInv'
  <2>1. PICK todo : QGo(p, [pc |-> "retry", todo |-> todo]) \/ QGo(p, QIdle)
    BY <1>6 DEF RetryCollected, ListFails
  <2> QED
    BY <1>6, <2>1, RequestMoves DEF RetryCollected, ListFails, RetryShape, QIdle
<1>7. ASSUME NEW p \in QProc, GetMessage(p) PROVE RetryInv'
  <2>1. UNCHANGED <<streamVars, originVars, removed>>
    BY <1>7 DEF GetMessage
  <2>2. CASE LET s == Head(qproc[p].todo)
             IN  s \in stored /\ QGo(p, [pc |-> "publish", m |-> <<inc, s>>, todo |-> qproc[p].todo])
    <3>1. <<inc, Head(qproc[p].todo)>> \in Message
      BY <2>2 DEF RetryInv, RetryShapes, Message, Seq1
    <3> QED
      BY <2>1, <2>2, <3>1, RequestMoves DEF RetryShape
  <2>3. CASE QGo(p, [qproc[p] EXCEPT !.todo = Tail(@)])
    <3>1. qproc[p] = [pc |-> "retry", todo |-> qproc[p].todo]
      BY <1>7 DEF GetMessage, RetryInv, RetryShape
    <3> DEFINE rest == Tail(qproc[p].todo)
    <3>2. QGo(p, [qproc[p] EXCEPT !.todo = rest])
      BY <2>3
    <3> HIDE DEF rest
    <3>3. [qproc[p] EXCEPT !.todo = rest] = [pc |-> "retry", todo |-> rest]
      BY <3>1, Zenon, RetryGoesOn
    <3> QED
      BY <2>1, <3>2, <3>3, RequestMoves DEF RetryShape
  <2> QED
    BY <1>7, <2>2, <2>3 DEF GetMessage
<1>8. ASSUME NEW p \in QProc, PublishRaw(p) PROVE RetryInv'
  <2> DEFINE m == qproc[p].m
             skip == [pc |-> "retry", todo |-> Tail(qproc[p].todo)]
             del == [qproc[p] EXCEPT !.pc = "delete"]
  <2>0. qproc[p].pc = "publish" /\ UNCHANGED <<streamVars, expiries, removed>>
    BY <1>8 DEF PublishRaw
  <2>1. m \in Message /\ qproc[p] = [pc |-> "publish", m |-> m, todo |-> qproc[p].todo]
    BY <2>0 DEF RetryInv, RetryShape
  <2>2. del = [pc |-> "delete", m |-> m, todo |-> qproc[p].todo]
    BY <2>1
  <2>3. RetryShape(skip) /\ RetryShape(del) /\ skip.pc = "retry" /\ del.pc = "delete" /\ del.m = m
    BY <2>1, <2>2 DEF RetryShape
  <2>4. CASE UNCHANGED <<copies, window>> /\ Skip(p)
    BY <2>0, <2>3, <2>4, RequestMoves DEF Skip, originVars
  <2>5. CASE Stored(m) /\ (QGo(p, del) \/ QGo(p, skip))
    <3>1. /\ m = <<m[1], m[2]>> /\ m[1] \in Incarnation /\ m[2] \in Seq1
          /\ window' = window \cup {m[2]}
          /\ copies' = IF m[2] \in window THEN copies ELSE [copies EXCEPT ![m] = @ + 1]
      BY <2>1, <2>5 DEF Stored, MsgId, Message
    <3> HIDE DEF m
    <3>2. /\ copies' \in [Message -> Nat]
          /\ \A n \in Message : copies'[n] >= copies[n]
          /\ \A n \in Message : copies'[n] = IF n = m /\ m[2] \notin window THEN copies[n] + 1 ELSE copies[n]
      BY <2>1, <3>1 DEF RetryInv, RetryShapes
    <3>3. \A s \in Seq1 : Landed(copies, s) => Landed(copies', s)
      BY <3>2 DEF Landed, Message, RetryInv, RetryShapes
    <3>4. Landed(copies', m[2])
      <4>1. CASE m[2] \in window
        BY <3>1, <3>3, <4>1 DEF RetryInv
      <4>2. CASE m[2] \notin window
        <5>1. copies'[m] > 0 /\ m = <<m[1], m[2]>> /\ m[1] \in Incarnation
          BY <2>1, <3>1, <3>2, <4>2 DEF RetryInv, RetryShapes
        <5> QED
          BY <5>1 DEF Landed
      <4> QED
        BY <4>1, <4>2
    <3>5. \A n \in Message : copies'[n] <= expiries + (IF n[2] \in window' THEN 1 ELSE 0)
      <4> SUFFICES ASSUME NEW n \in Message
                   PROVE  copies'[n] <= expiries + (IF n[2] \in window' THEN 1 ELSE 0)
        OBVIOUS
      <4>1. copies[n] <= expiries + (IF n[2] \in window THEN 1 ELSE 0) /\ copies[n] \in Nat /\ expiries \in Nat
        BY DEF RetryInv, RetryShapes
      <4> QED
        BY <3>1, <3>2, <4>1
    <3>6. RetryShapes'
      BY <2>0, <2>5, <3>1, <3>2 DEF RetryInv, RetryShapes, streamVars, QGo
    <3>7. /\ qproc'[p] \in {skip, del}
          /\ \A q \in QProc \ {p} : qproc'[q] = qproc[q]
      BY <2>5 DEF RetryInv, RetryShapes, QGo
    <3>8. \A n \in Message : n[2] \in Seq1
      BY DEF Message
    <3> HIDE DEF skip, del
    <3>9. \A q \in QProc : RetryShape(qproc'[q]) /\ (qproc'[q].pc = "delete" => Landed(copies', qproc'[q].m[2]))
      <4>1. \A q \in QProc \ {p} : qproc[q].pc = "delete" => Landed(copies', qproc[q].m[2])
        BY <3>3, <3>8 DEF RetryInv, RetryShape
      <4>2. qproc'[p].pc = "delete" => qproc'[p].m = m
        BY <2>3, <3>7 DEF m
      <4> QED
        BY <2>3, <3>4, <3>7, <4>1, <4>2 DEF RetryInv
    <3>10. \A s \in window' : Landed(copies', s)
      BY <3>1, <3>3, <3>4 DEF RetryInv, RetryShapes
    <3>11. \A n \in removed' : Landed(copies', n[2])
      BY <2>0, <3>3, <3>8 DEF RetryInv, RetryShapes
    <3> QED
      BY <2>0, <3>5, <3>6, <3>9, <3>10, <3>11 DEF RetryInv, RetryShape
  <2> QED
    BY <1>8, <2>4, <2>5 DEF PublishRaw, Skip
<1>9. ASSUME NEW p \in QProc, DeleteRetried(p) PROVE RetryInv'
  <2> DEFINE s == qproc[p].m[2]
  <2>1. qproc[p].pc = "delete" /\ Skip(p) /\ UNCHANGED <<inc, lastSeq, originVars>>
    BY <1>9 DEF DeleteRetried
  <2>2. \/ stored' = stored \ {s} /\ removed' = removed \cup {<<inc, s>>} /\ s \in stored
        \/ UNCHANGED <<stored, removed>>
    BY <1>9 DEF DeleteRetried
  <2>3. Landed(copies, s) /\ s \in Seq1
    BY <2>1 DEF RetryInv, RetryShape, Message
  <2> HIDE DEF s
  <2>4. \A x : Landed(copies', x) <=> Landed(copies, x)
    BY <2>1 DEF Landed, originVars
  <2>5. RetryShapes'
    BY <2>1, <2>2, <2>3, ZenonT(60) DEF RetryInv, RetryShapes, Skip, QGo, originVars, Message
  <2>6. \A n \in removed' : Landed(copies, n[2])
    BY <2>2, <2>3 DEF RetryInv
  <2>7. /\ qproc'[p] = [pc |-> "retry", todo |-> Tail(qproc[p].todo)]
        /\ \A q \in QProc \ {p} : qproc'[q] = qproc[q]
    BY <2>1 DEF RetryInv, RetryShapes, Skip, QGo
  <2>8. \A q \in QProc : RetryShape(qproc'[q]) /\ (qproc'[q].pc = "delete" => Landed(copies, qproc'[q].m[2]))
    BY <2>7 DEF RetryInv, RetryShape
  <2> QED
    BY <2>1, <2>4, <2>5, <2>6, <2>8 DEF RetryInv, RetryShape, originVars
<1>10. ASSUME NEW p \in QProc, Finish(p) PROVE RetryInv'
  BY <1>10, RequestMoves DEF Finish, RetryShape, QIdle
<1>11. CASE UNCHANGED qVars
  BY <1>11 DEF qVars, streamVars, originVars, RetryInv, RetryShapes, RetryShape, Landed
<1> QED
  BY <1>1, <1>2, <1>3, <1>4, <1>5, <1>6, <1>7, <1>8, <1>9, <1>10, <1>11 DEF QNext

(* A set of numbers has a least one, and one that is bounded a greatest.     *)
LEMMA LeastOf ==
  ASSUME NEW S, S \subseteq Nat, S # {}
  PROVE  Min(S) \in S /\ \A y \in S : Min(S) <= y
<1> DEFINE less == OpToRel(<, Nat)
<1>1. PICK x \in S : \A y \in S : <<y, x>> \notin less
  <2>1. IsWellFoundedOn(less, Nat)
    BY NatLessThanWellFounded, Zenon
  <2> HIDE DEF less
  <2> QED
    BY <2>1, WFMin
<1>2. ASSUME NEW y \in S PROVE x <= y
  <2>1. ~(y < x)
    BY <1>1 DEF OpToRel
  <2> QED
    BY <2>1
<1> QED
  BY <1>2 DEF Min

LEMMA GreatestOf ==
  ASSUME NEW n \in Nat, NEW S, S \subseteq 0 .. n, S # {}
  PROVE  Max(S) \in S /\ \A y \in S : y <= Max(S)
<1> DEFINE bounds == {b \in Nat : \A y \in S : y <= b}
           b == Min(bounds)
<1>1. b \in bounds /\ \A c \in bounds : b <= c
  <2>1. n \in bounds /\ bounds \subseteq Nat
    OBVIOUS
  <2> HIDE DEF bounds
  <2> QED
    BY <2>1, LeastOf
<1> HIDE DEF b
<1>2. b \in S
  <2> SUFFICES ASSUME b \notin S PROVE FALSE
    OBVIOUS
  <2>1. PICK y \in S : TRUE
    OBVIOUS
  <2>2. b \in Nat /\ b > 0 /\ b - 1 \in Nat
    BY <1>1, <2>1
  <2>3. \A z \in S : z <= b - 1
    BY <1>1, <2>2
  <2> QED
    BY <1>1, <2>2, <2>3
<1>3. \A y \in S : b >= y
  BY <1>1
<1>4. Max(S) \in S /\ \A y \in S : Max(S) >= y
  BY <1>2, <1>3 DEF Max
<1> QED
  BY <1>4

(* The first n of a set of numbers: with a member they have the ones below   *)
(* it, there are some unless there is nothing to take, and they are all of a *)
(* set of n or fewer.                                                        *)
LEMMA FirstOnes ==
  ASSUME NEW S, IsFiniteSet(S), S \subseteq Nat, NEW n \in Nat \ {0}
  PROVE  /\ FirstOf(S, n) \subseteq S
         /\ \A x \in S, y \in FirstOf(S, n) : x <= y => x \in FirstOf(S, n)
         /\ FirstOf(S, n) = {} => S = {}
         /\ Cardinality(S) <= n => FirstOf(S, n) = S
<1> DEFINE below(s) == {x \in S : x < s}
<1>1. \A s \in S : /\ IsFiniteSet(below(s)) /\ Cardinality(below(s)) \in Nat
                   /\ Cardinality(below(s)) < Cardinality(S)
  <2> SUFFICES ASSUME NEW s \in S
               PROVE  /\ IsFiniteSet(below(s)) /\ Cardinality(below(s)) \in Nat
                      /\ Cardinality(below(s)) < Cardinality(S)
    OBVIOUS
  <2>1. below(s) \subseteq S /\ below(s) # S
    <3>1. s \in Nat /\ s \notin below(s)
      OBVIOUS
    <3> QED
      BY <3>1
  <2> HIDE DEF below
  <2> QED
    BY <2>1, FS_Subset, FS_CardinalityType
<1>2. Cardinality(S) \in Nat
  BY FS_CardinalityType
<1>3. ASSUME NEW x \in S, NEW y \in FirstOf(S, n), x <= y PROVE x \in FirstOf(S, n)
  <2>1. y \in S /\ Cardinality(below(y)) < n
    BY DEF FirstOf
  <2>2. ASSUME NEW z \in S, z < x PROVE z < y
    BY <1>3, <2>1, <2>2
  <2>3. Cardinality(below(x)) <= Cardinality(below(y))
    <3>1. below(x) \subseteq below(y)
      BY <2>2
    <3> HIDE DEF below
    <3> QED
      BY <1>1, <2>1, <3>1, FS_Subset
  <2>4. Cardinality(below(x)) < n
    <3> HIDE DEF below
    <3> QED
      BY <1>1, <2>1, <2>3
  <2> QED
    BY <2>4 DEF FirstOf
<1>4. ASSUME S # {} PROVE FirstOf(S, n) # {}
  <2>1. Min(S) \in S /\ \A y \in S : Min(S) <= y
    BY <1>4, LeastOf
  <2>2. ASSUME NEW z \in below(Min(S)) PROVE FALSE
    <3>1. z \in Nat /\ Min(S) \in Nat /\ z < Min(S) /\ Min(S) <= z
      BY <2>1
    <3> QED
      BY <3>1
  <2>3. Cardinality(below(Min(S))) < n
    <3>1. below(Min(S)) = {}
      BY <2>2
    <3> HIDE DEF below
    <3> QED
      BY <3>1, FS_EmptySet
  <2> QED
    BY <2>1, <2>3 DEF FirstOf
<1>5. ASSUME Cardinality(S) <= n PROVE FirstOf(S, n) = S
  <2>1. \A s \in S : Cardinality(below(s)) < n
    <3> HIDE DEF below
    <3> QED
      BY <1>1, <1>2, <1>5
  <2> QED
    BY <2>1 DEF FirstOf
<1> QED
  BY <1>3, <1>4, <1>5 DEF FirstOf

(* A retry of everything, while it pages: of the messages of its beginning   *)
(* that are still there it has found the ones before start, and none is      *)
(* behind the end of its range.  i, S and l are the stream.                  *)
CollectOK(q, i, S, l) ==
  /\ q.pc \in {"collect", "range"} =>
       /\ q.start \in Nat /\ q.limit \in Nat \ {0}
       /\ IsFiniteSet(q.found) /\ Cardinality(q.found) < q.limit
       /\ \A m \in q.msgs : m[1] = i /\ m[2] \in S /\ m[2] < q.start => m[2] \in q.found
  /\ q.pc = "range" =>
       /\ q.last \in Nat
       /\ \A m \in q.msgs : m[1] = i => m[2] <= q.last
  /\ q.pc \in {"collect", "range", "collected"} =>
       \A m \in q.msgs : /\ m[1] \in Nat /\ m[1] <= i
                         /\ m[1] = i => m[2] \in Nat /\ m[2] <= l
  /\ q.pc = "collected" /\ ~q.truncated =>
       \A m \in q.msgs : m[1] = i /\ m[2] \in S => m[2] \in q.found

CollectInv == \A p \in QProc : CollectOK(qproc[p], inc, stored, lastSeq)

(* What the stream does under a request: it gains messages at its end, loses *)
(* any, or begins again.                                                     *)
StreamMoves ==
  \/ inc' = inc /\ lastSeq' >= lastSeq /\ \A s \in stored' \ stored : s > lastSeq
  \/ inc' > inc

LEMMA StreamStep == ASSUME RetryInv, [QNext]_qVars PROVE StreamMoves
<1>0. inc \in Nat /\ lastSeq \in Nat
  BY RetryConstants DEF RetryInv, RetryShapes
<1>1. CASE DeadLetter \/ DeleteMessage \/ Recreate
  BY <1>0, <1>1 DEF DeadLetter, DeleteMessage, Recreate, StreamMoves
<1>2. CASE UNCHANGED streamVars
  BY <1>0, <1>2 DEF StreamMoves, streamVars
<1>3. ASSUME NEW p \in QProc, DeleteRetried(p) PROVE StreamMoves
  BY <1>0, <1>3 DEF DeleteRetried, StreamMoves
<1> QED
  BY <1>1, <1>2, <1>3 DEF QNext, WindowPasses, RetryDLQMessages, StreamInfo, ListFails, CollectPage,
     RetryCollected, GetMessage, PublishRaw, Finish, qVars

LEMMA StreamMovesOn ==
  ASSUME NEW q, RetryInv, StreamMoves, inc' \in Nat, lastSeq' \in Nat,
         CollectOK(q, inc, stored, lastSeq)
  PROVE  CollectOK(q, inc', stored', lastSeq')
<1>0. inc \in Nat /\ lastSeq \in Nat
  BY RetryConstants DEF RetryInv, RetryShapes
<1>1. CASE inc' > inc
  BY <1>0, <1>1 DEF CollectOK
<1>2. CASE inc' = inc /\ lastSeq' >= lastSeq /\ \A s \in stored' \ stored : s > lastSeq
  <2>1. ASSUME q.pc \in {"collect", "range", "collected"}, NEW m \in q.msgs, m[1] = inc
        PROVE  m[2] \in Nat /\ m[2] <= lastSeq' /\ (m[2] \in stored' => m[2] \in stored)
    BY <1>0, <1>2, <2>1 DEF CollectOK
  <2> QED
    BY <1>2, <2>1 DEF CollectOK
<1> QED
  BY <1>1, <1>2 DEF StreamMoves

(* Where a page ends and what the page after it may leave out.               *)
LEMMA PageComplete ==
  ASSUME RetryInv, NEW q, q.pc = "range", CollectOK(q, inc, stored, lastSeq)
  PROVE  /\ IsFiniteSet(Page(q).seqs) /\ Page(q).next \in Nat
         /\ \A s \in stored : /\ s >= q.start /\ s <= q.last
                              /\ Page(q).next = 0 \/ s < Page(q).next
                              => s \in Page(q).seqs
<1> DEFINE n == PageLimit(q)
           here == Here(q)
           page == FirstOf(here, n)
           next == Page(q).next
<1>1. q.start \in Nat /\ q.last \in Nat /\ lastSeq \in Nat /\ stored \subseteq 1 .. lastSeq
  BY RetryConstants DEF RetryInv, RetryShapes, CollectOK
<1>2. n \in Nat \ {0}
  <2>1. q.limit \in Nat /\ Cardinality(q.found) \in Nat /\ Cardinality(q.found) < q.limit
    BY FS_CardinalityType DEF CollectOK
  <2> QED
    BY <2>1, RetryLimits DEF PageLimit
<1>3. here \subseteq 1 .. lastSeq /\ here \subseteq Nat
  <2>1. here \subseteq stored
    BY DEF Here
  <2> HIDE DEF here
  <2> QED
    BY <1>1, <2>1
<1>4. IsFiniteSet(here)
  <2>1. IsFiniteSet(1 .. lastSeq)
    BY <1>1, FS_Interval
  <2> HIDE DEF here
  <2> QED
    BY <1>3, <2>1, FS_Subset
<1> DEFINE more == page # {} /\ Max(page) < q.last
<1>5. /\ Page(q).seqs = page
      /\ next = IF more /\ (Cardinality(here) > n \/ Cardinality(page) >= n) THEN Max(page) + 1 ELSE 0
  BY DEF Page
<1> HIDE DEF n, here, next
<1>6. /\ page \subseteq here
      /\ \A x \in here, y \in page : x <= y => x \in page
      /\ page = {} => here = {}
      /\ Cardinality(here) <= n => page = here
  BY <1>2, <1>3, <1>4, FirstOnes
<1>7. IsFiniteSet(page)
  BY <1>4, <1>6, FS_Subset
<1> HIDE DEF page
<1>8. page # {} => Max(page) \in page /\ \A y \in page : y <= Max(page)
  <2>1. page \subseteq 0 .. lastSeq
    BY <1>1, <1>3, <1>6
  <2> QED
    BY <1>1, <2>1, GreatestOf
<1>9. next \in Nat
  <2>1. page # {} => Max(page) \in Nat
    BY <1>3, <1>6, <1>8
  <2> QED
    BY <1>5, <2>1
<1>10. ASSUME NEW s \in here, next = 0 \/ s < next PROVE s \in page
  <2>1. page # {} /\ Max(page) \in page /\ Max(page) \in Nat /\ s \in Nat
    BY <1>3, <1>6, <1>8
  <2>2. CASE s <= Max(page)
    BY <1>6, <2>1, <2>2
  <2>3. CASE s > Max(page)
    <3>1. s <= q.last
      BY DEF here, Here
    <3>2. Max(page) < q.last
      BY <1>1, <2>1, <2>3, <3>1
    <3>3. next = 0
      BY <1>5, <1>10, <2>1, <2>3
    <3>4. ~(Cardinality(here) > n)
      BY <1>5, <2>1, <3>2, <3>3
    <3>5. Cardinality(here) \in Nat
      BY <1>4, FS_CardinalityType
    <3> QED
      BY <1>2, <1>6, <3>4, <3>5
  <2> QED
    BY <2>1, <2>2, <2>3
<1>11. \A s \in stored : s >= q.start /\ s <= q.last => s \in here
  BY DEF here, Here
<1> QED
  BY <1>5, <1>7, <1>9, <1>10, <1>11 DEF next

LEMMA CollectStep == ASSUME RetryInv, CollectInv, [QNext]_qVars PROVE CollectInv'
<1> USE RetryConstants
<1>0. /\ inc \in Nat /\ lastSeq \in Nat /\ stored \subseteq 1 .. lastSeq
      /\ inc' \in Nat /\ lastSeq' \in Nat
      /\ qproc = [p \in QProc |-> qproc[p]]
  BY RetryStep DEF RetryInv, RetryShapes
<1>1. CASE UNCHANGED qproc
  BY <1>0, <1>1, StreamStep, StreamMovesOn DEF CollectInv
<1>2. ASSUME NEW p \in QProc, NEW next, QGo(p, next), CollectOK(next, inc, stored, lastSeq)
      PROVE  CollectInv'
  <2>1. \A r \in QProc : CollectOK(qproc'[r], inc, stored, lastSeq)
    BY <1>0, <1>2 DEF CollectInv, QGo
  <2> QED
    BY <1>0, <2>1, StreamStep, StreamMovesOn DEF CollectInv
<1>3. ASSUME NEW p \in QProc, NEW next, QGo(p, next),
             next.pc \notin {"collect", "range", "collected"}
      PROVE  CollectInv'
  <2>1. CollectOK(next, inc, stored, lastSeq)
    BY <1>3 DEF CollectOK
  <2> QED
    BY <1>2, <1>3, <2>1
<1>4. ASSUME NEW p \in QProc, RetryDLQMessages(p) PROVE CollectInv'
  <2>1. CASE \E seqs \in Named : QGo(p, [pc |-> "retry", todo |-> seqs])
    BY <1>3, <2>1
  <2>2. ASSUME NEW limit \in Limits,
               QGo(p, [pc |-> "collect", start |-> 0, limit |-> limit, found |-> {},
                       msgs |-> {<<inc, s>> : s \in stored}])
        PROVE  CollectInv'
    <3> DEFINE msgs == {<<inc, s>> : s \in stored}
               next == [pc |-> "collect", start |-> 0, limit |-> limit, found |-> {}, msgs |-> msgs]
    <3>1. \A m \in msgs : m[1] = inc /\ m[2] \in Nat /\ m[2] > 0 /\ m[2] <= lastSeq
      BY <1>0
    <3>2. limit \in Nat \ {0} /\ IsFiniteSet({}) /\ Cardinality({}) = 0
      BY RetryLimits, FS_EmptySet
    <3> HIDE DEF msgs
    <3>3. CollectOK(next, inc, stored, lastSeq)
      BY <1>0, <3>1, <3>2 DEF CollectOK
    <3>4. QGo(p, next)
      BY <2>2 DEF msgs
    <3> HIDE DEF next
    <3> QED
      BY <1>2, <3>3, <3>4
  <2> QED
    BY <1>4, <2>1, <2>2 DEF RetryDLQMessages
<1>5. ASSUME NEW p \in QProc, StreamInfo(p) PROVE CollectInv'
  <2> DEFINE q == qproc[p]
             from == IF q.start < FirstSeq THEN FirstSeq ELSE q.start
             end == [pc |-> "collected", found |-> q.found, msgs |-> q.msgs, truncated |-> FALSE]
             range == [pc |-> "range", start |-> from, last |-> lastSeq, limit |-> q.limit,
                       found |-> q.found, msgs |-> q.msgs]
  <2>1. /\ q.pc = "collect"
        /\ \/ (stored = {} \/ from > lastSeq) /\ QGo(p, end)
           \/ QGo(p, range)
    BY <1>5 DEF StreamInfo
  <2>2. CollectOK(q, inc, stored, lastSeq)
    BY DEF CollectInv
  <2>3. FirstSeq \in Nat /\ \A s \in stored : FirstSeq <= s
    <3>1. stored \subseteq Nat
      BY <1>0
    <3> QED
      BY <1>0, <3>1, LeastOf DEF FirstSeq
  <2> HIDE DEF q
  <2>4. /\ q.start \in Nat /\ q.limit \in Nat \ {0} /\ IsFiniteSet(q.found) /\ Cardinality(q.found) < q.limit
        /\ \A m \in q.msgs : m[1] = inc /\ m[2] \in stored /\ m[2] < q.start => m[2] \in q.found
        /\ \A m \in q.msgs : m[1] \in Nat /\ m[1] <= inc /\ (m[1] = inc => m[2] \in Nat /\ m[2] <= lastSeq)
    BY <2>1, <2>2 DEF CollectOK
  <2>5. from \in Nat /\ \A m \in q.msgs : m[1] = inc /\ m[2] \in stored /\ m[2] < from => m[2] \in q.found
    BY <2>3, <2>4
  <2> HIDE DEF from
  <2>6. CASE (stored = {} \/ from > lastSeq) /\ QGo(p, end)
    <3>1. \A m \in q.msgs : m[1] = inc /\ m[2] \in stored => m[2] \in q.found
      BY <1>0, <2>4, <2>5, <2>6
    <3>2. CollectOK(end, inc, stored, lastSeq)
      BY <2>4, <3>1 DEF CollectOK
    <3> HIDE DEF end
    <3> QED
      BY <1>2, <2>6, <3>2
  <2>7. CASE QGo(p, range)
    <3>1. CollectOK(range, inc, stored, lastSeq)
      BY <1>0, <2>4, <2>5 DEF CollectOK
    <3> HIDE DEF range
    <3> QED
      BY <1>2, <2>7, <3>1
  <2> QED
    BY <2>1, <2>6, <2>7
<1>6. ASSUME NEW p \in QProc, CollectPage(p) PROVE CollectInv'
  <2> DEFINE q == qproc[p]
             listed == Page(q)
             all == q.found \cup listed.seqs
             on == [pc |-> "collect", start |-> listed.next, limit |-> q.limit, found |-> all,
                    msgs |-> q.msgs]
             end == [pc |-> "collected", found |-> all, msgs |-> q.msgs, truncated |-> listed.next # 0]
  <2>1. /\ q.pc = "range"
        /\ \/ Cardinality(all) < q.limit /\ QGo(p, on)
           \/ QGo(p, end)
    BY <1>6, Zenon DEF CollectPage
  <2>2. CollectOK(q, inc, stored, lastSeq)
    BY DEF CollectInv
  <2> HIDE DEF q
  <2>3. /\ IsFiniteSet(listed.seqs) /\ listed.next \in Nat
        /\ \A s \in stored : /\ s >= q.start /\ s <= q.last
                             /\ listed.next = 0 \/ s < listed.next
                             => s \in listed.seqs
    BY <2>1, <2>2, PageComplete
  <2> HIDE DEF listed
  <2>4. /\ q.start \in Nat /\ q.limit \in Nat \ {0} /\ IsFiniteSet(q.found)
        /\ \A m \in q.msgs : m[1] = inc /\ m[2] \in stored /\ m[2] < q.start => m[2] \in q.found
        /\ \A m \in q.msgs : m[1] = inc => m[2] <= q.last
        /\ \A m \in q.msgs : m[1] \in Nat /\ m[1] <= inc /\ (m[1] = inc => m[2] \in Nat /\ m[2] <= lastSeq)
    BY <2>1, <2>2 DEF CollectOK
  <2>5. ASSUME NEW m \in q.msgs, m[1] = inc, m[2] \in stored, listed.next = 0 \/ m[2] < listed.next
        PROVE  m[2] \in all
    <3>1. m[2] \in Nat /\ m[2] <= q.last
      BY <2>4, <2>5
    <3>2. CASE m[2] < q.start
      BY <2>4, <2>5, <3>2
    <3>3. CASE m[2] >= q.start
      BY <2>3, <2>5, <3>1, <3>3
    <3> QED
      BY <2>4, <3>1, <3>2, <3>3
  <2>6. IsFiniteSet(all)
    BY <2>3, <2>4, FS_Union
  <2> HIDE DEF all
  <2>7. CASE Cardinality(all) < q.limit /\ QGo(p, on)
    <3>1. CollectOK(on, inc, stored, lastSeq)
      BY <2>3, <2>4, <2>5, <2>6, <2>7 DEF CollectOK
    <3> HIDE DEF on
    <3> QED
      BY <1>2, <2>7, <3>1
  <2>8. CASE QGo(p, end)
    <3>1. CollectOK(end, inc, stored, lastSeq)
      BY <2>4, <2>5 DEF CollectOK
    <3> HIDE DEF end
    <3> QED
      BY <1>2, <2>8, <3>1
  <2> QED
    BY <2>1, <2>7, <2>8
<1>7. ASSUME NEW p \in QProc, RetryCollected(p) \/ ListFails(p) \/ Finish(p) PROVE CollectInv'
  <2>1. PICK todo : QGo(p, [pc |-> "retry", todo |-> todo]) \/ QGo(p, QIdle)
    BY <1>7 DEF RetryCollected, ListFails, Finish
  <2> QED
    BY <1>3, <2>1 DEF QIdle
<1>8. ASSUME NEW p \in QProc, GetMessage(p) PROVE CollectInv'
  <2>1. qproc[p] = [pc |-> "retry", todo |-> qproc[p].todo]
    BY <1>8 DEF GetMessage, RetryInv, RetryShape
  <2>2. PICK next : QGo(p, next) /\ next.pc \in {"publish", "retry"}
    BY <1>8, <2>1, RetryGoesOn DEF GetMessage
  <2> QED
    BY <1>3, <2>2
<1>9. ASSUME NEW p \in QProc, PublishRaw(p) \/ DeleteRetried(p) PROVE CollectInv'
  <2>1. qproc[p].pc \in {"publish", "delete"}
    BY <1>9 DEF PublishRaw, DeleteRetried
  <2>2. qproc[p] = [pc |-> qproc[p].pc, m |-> qproc[p].m, todo |-> qproc[p].todo]
    BY <2>1 DEF RetryInv, RetryShape
  <2>3. [qproc[p] EXCEPT !.pc = "delete"].pc = "delete"
    BY <2>2
  <2> DEFINE del == [qproc[p] EXCEPT !.pc = "delete"]
             skip == [pc |-> "retry", todo |-> Tail(qproc[p].todo)]
  <2>4. QGo(p, del) \/ QGo(p, skip)
    BY <1>9 DEF PublishRaw, DeleteRetried, Skip
  <2>5. del.pc = "delete" /\ skip.pc = "retry"
    BY <2>3
  <2> HIDE DEF del, skip
  <2> QED
    BY <1>3, <2>4, <2>5
<1> QED
  BY <1>1, <1>4, <1>5, <1>6, <1>7, <1>8, <1>9 DEF QNext, DeadLetter, DeleteMessage, Recreate, WindowPasses, qVars

(* Whatever requests race, are repeated or fail half way, whatever is        *)
(* deleted meanwhile and however often the stream is made again: a message a *)
(* retry deletes was stored, or one that has its id, and a second copy takes *)
(* an expiry of the duplicate window (retryOneDLQMessage); and a retry of    *)
(* everything that does not call itself truncated has every message of its   *)
(* beginning that is still there (collectDLQRetryAllSequences).              *)
THEOREM RetrySafe == QSpec => [](QTypeOK /\ RetryDelivers /\ RetryAllComplete)
<1>1. RetryInv => QTypeOK
  BY DEF RetryInv, RetryShapes, QTypeOK
<1>2. RetryInv => RetryDelivers
  <2> SUFFICES ASSUME RetryInv, NEW m \in Message
               PROVE  /\ m \in removed /\ copies[m] = 0 =>
                           \E i \in Incarnation \ {m[1]} : copies[<<i, m[2]>>] > 0
                      /\ copies[m] <= 1 + expiries
    BY DEF RetryDelivers
  <2>1. copies[m] <= 1 + expiries
    BY DEF RetryInv, RetryShapes
  <2>2. m = <<m[1], m[2]>>
    BY DEF Message
  <2>3. ASSUME m \in removed, copies[m] = 0
        PROVE  \E i \in Incarnation \ {m[1]} : copies[<<i, m[2]>>] > 0
    BY <2>2, <2>3 DEF RetryInv, Landed
  <2> QED
    BY <2>1, <2>3
<1>3. CollectInv => RetryAllComplete
  BY DEF CollectInv, CollectOK, RetryAllComplete
<1>4. QInit => CollectInv
  BY DEF QInit, QIdle, CollectInv, CollectOK
<1> QED
  BY <1>1, <1>2, <1>3, <1>4, RetryStart, RetryStep, CollectStep, PTL DEF QSpec

----------------------------------------------------------------------------
(* The caches.  A value that misses a write of this set was crossed by the   *)
(* invalidation that followed the write.                                     *)
Explained(writes, row) == (\E w \in writes : w > row.gen) => row.crossed

ReadsShapes ==
  /\ version \in Nat /\ settled \subseteq 1 .. version /\ dropped \subseteq 1 .. version
  /\ views \in [View -> {NoView} \cup ViewRow]
  /\ flights \in [Key -> {NoView} \cup FlightRow]
  /\ hub \in {NoView} \cup ViewRow /\ scrape \in {NoView} \cup ViewRow
  /\ vproc = [p \in VProc |-> vproc[p]]

Jsz == {"jsz", "jsz|fresh"}

(* A request that reads knows its key, and the topology flight it works for  *)
(* when that is another; one that writes, its writes so far.                 *)
ReadShape(q, last) ==
  /\ q.pc \in {"do", "wait", "load", "store", "jszDo"} =>
       /\ q = [pc |-> q.pc, key |-> q.key, outer |-> q.outer]
       /\ q.key \in Key /\ (q.outer = q.key \/ q.outer \in Jsz)
  /\ q.pc \in {"do", "load", "store"} => q.key \in View
  /\ q.pc = "jszDo" => q.key \in Jsz
  /\ q.pc = "fetched" => q.outer \in Jsz
  /\ q.pc = "write" => q = [pc |-> "write", todo |-> q.todo, writes |-> q.writes] /\ q.writes \subseteq 1 .. last

(* A request that loads leads its flight, and has read before it stores.     *)
LoadLeads(p) ==
  /\ vproc[p].pc \in {"load", "store"} => Leads(p, vproc[p].key)
  /\ vproc[p].pc = "store" => flights[vproc[p].key].gen # NoView

CachesExplained ==
  /\ \A k \in View : views[k] # NoView => Explained(settled, views[k])
  /\ \A k \in Key : flights[k] # NoView /\ flights[k].gen # NoView => Explained(settled, flights[k])
  /\ hub # NoView => Explained(dropped, hub)
  /\ scrape # NoView => Explained(dropped, scrape)

(* The inductive invariant of the caches.                                    *)
ReadsInv ==
  /\ ReadsShapes
  /\ \A p \in VProc : ReadShape(vproc[p], version)
  /\ \A p \in VProc : LoadLeads(p)
  /\ CachesExplained

LEMMA ReadsStart == VInit => ReadsInv
  BY DEF VInit, VIdle, ReadsInv, ReadsShapes, ReadShape, LoadLeads, CachesExplained, Key

(* One request moves, to a place where it leads nothing.                     *)
LEMMA ReaderMoves ==
  ASSUME ReadsInv, NEW p \in VProc, NEW next, VGo(p, next), ReadShape(next, version),
         next.pc \notin {"load", "store"},
         UNCHANGED <<clusterVars, readVars, snapshotVars>>
  PROVE  ReadsInv'
<1>1. vproc'[p] = next /\ \A q \in VProc \ {p} : vproc'[q] = vproc[q]
  BY DEF ReadsInv, ReadsShapes, VGo
<1>2. ReadsShapes' /\ CachesExplained'
  BY DEF ReadsInv, ReadsShapes, CachesExplained, VGo, clusterVars, readVars, snapshotVars
<1>3. \A q \in VProc : ReadShape(vproc'[q], version')
  BY <1>1 DEF ReadsInv, clusterVars
<1>4. \A q \in VProc : LoadLeads(q)'
  BY <1>1 DEF ReadsInv, LoadLeads, Leads, readVars
<1> QED
  BY <1>2, <1>3, <1>4 DEF ReadsInv, ReadShape

LEMMA LooksUp ==
  ASSUME ReadsInv, NEW p \in VProc, NEW k \in View, LookUp(p, k),
         UNCHANGED <<clusterVars, readVars, snapshotVars>>
  PROVE  ReadsInv'
<1>1. CASE UNCHANGED vproc
  BY <1>1
  DEF ReadsInv, ReadsShapes, ReadShape, LoadLeads, Leads, CachesExplained, clusterVars, readVars,
      snapshotVars
<1>2. CASE VGo(p, [pc |-> "do", key |-> k, outer |-> k])
  BY <1>2, ReaderMoves DEF ReadShape, Key
<1> QED
  BY <1>1, <1>2 DEF LookUp

LEMMA ShapesOfAnswers ==
  ASSUME NEW n, NEW k \in View, NEW o \in Jsz \cup {k}, NEW g
  PROVE  /\ ReadShape(VIdle, n) /\ VIdle.pc = "idle"
         /\ o \in Jsz => ReadShape([pc |-> "fetched", outer |-> o, gen |-> g], n)
         /\ ReadShape([pc |-> "load", key |-> k, outer |-> o], n)
         /\ ReadShape([pc |-> "store", key |-> k, outer |-> o], n)
  BY DEF ReadShape, VIdle, Key

(* A request that goes on leading keeps its flight when only others change.  *)
LEMMA StillLeads ==
  ASSUME NEW q \in VProc, ReadsInv, vproc'[q] = vproc[q],
         vproc[q].pc \in {"load", "store"} => flights'[vproc[q].key] = flights[vproc[q].key]
  PROVE  LoadLeads(q)'
  BY DEF ReadsInv, LoadLeads, Leads

(* A flight lands: those it answers lead nothing then, nor does anybody else *)
(* lead it.                                                                  *)
LEMMA Lands ==
  ASSUME ReadsInv, NEW p \in VProc, NEW k \in Key, NEW gen,
         vproc[p].pc \in {"do", "store", "jszDo"}, vproc[p].key = k,
         flights[k] = NoView \/ Leads(p, k), Land(p, k, gen),
         views' \in [View -> {NoView} \cup ViewRow],
         \A j \in View : views'[j] # NoView => Explained(settled, views'[j]),
         UNCHANGED <<clusterVars, snapshotVars>>
  PROVE  ReadsInv'
<1>1. /\ flights'[k] = NoView /\ \A j \in Key \ {k} : flights'[j] = flights[j]
      /\ flights' \in [Key -> {NoView} \cup FlightRow]
  BY DEF Land, ReadsInv, ReadsShapes
<1>2. /\ \A q \in VProc : q \in Waiting(k) \cup {p} =>
           \/ vproc'[q] = VIdle
           \/ vproc[q].outer # k /\ vproc'[q] = [pc |-> "fetched", outer |-> vproc[q].outer, gen |-> gen]
      /\ \A q \in VProc : q \notin Waiting(k) \cup {p} => vproc'[q] = vproc[q]
      /\ vproc' = [q \in VProc |-> vproc'[q]]
  BY DEF Land
<1>3. ReadsShapes' /\ CachesExplained'
  BY <1>1, <1>2 DEF ReadsInv, ReadsShapes, CachesExplained, clusterVars, snapshotVars
<1>4. \A q \in VProc : q \in Waiting(k) \cup {p} => vproc[q].outer = k \/ vproc[q].outer \in Jsz
  BY DEF Waiting, ReadsInv, ReadShape
<1>5. \A q \in VProc : ReadShape(vproc'[q], version')
  <2>1. \A o \in Jsz : ReadShape([pc |-> "fetched", outer |-> o, gen |-> gen], version) /\ ReadShape(VIdle, version)
    BY ReadsConstants, ShapesOfAnswers
  <2>2. \A q \in VProc : ReadShape(vproc[q], version) /\ version' = version
    BY DEF ReadsInv, clusterVars
  <2>3. "jsz" \in Jsz
    BY DEF Jsz
  <2> QED
    BY <1>2, <1>4, <2>1, <2>2, <2>3
<1>6. \A q \in VProc : LoadLeads(q)'
  <2> SUFFICES ASSUME NEW q \in VProc, vproc'[q].pc \in {"load", "store"}
               PROVE  LoadLeads(q)'
    BY DEF LoadLeads
  <2>1. q \notin Waiting(k) \cup {p} /\ vproc'[q] = vproc[q]
    BY <1>2 DEF VIdle
  <2>2. Leads(q, vproc[q].key) /\ vproc[q].key \in Key
    BY <2>1 DEF ReadsInv, ReadShape, LoadLeads
  <2>3. vproc[q].key # k
    BY <2>1, <2>2 DEF Leads
  <2> QED
    BY <1>1, <2>1, <2>2, <2>3 DEF ReadsInv, LoadLeads, Leads
<1> QED
  BY <1>3, <1>5, <1>6 DEF ReadsInv, ReadShape

(* A call of a request that writes is done.                                  *)
LEMMA WriterGoesOn ==
  ASSUME ReadsInv, NEW p \in VProc, vproc[p].pc = "write", NEW more, more \subseteq 1 .. version + 1
  PROVE  LET next == [Done1(p) EXCEPT !.writes = @ \cup more]
         IN  /\ vproc[p].writes \subseteq 1 .. version
             /\ ReadShape(Done1(p), version) /\ Done1(p).pc = "write"
             /\ ReadShape(next, version + 1) /\ next.pc = "write"
<1> DEFINE rest == Tail(vproc[p].todo)
           w == vproc[p].writes
<1>1. vproc[p] = [pc |-> "write", todo |-> vproc[p].todo, writes |-> w] /\ w \subseteq 1 .. version
  BY DEF ReadsInv, ReadShape
<1>2. Done1(p) = [vproc[p] EXCEPT !.todo = rest]
  BY DEF Done1
<1> HIDE DEF rest, w
<1>3. Done1(p) = [pc |-> "write", todo |-> rest, writes |-> w]
  BY <1>1, <1>2
<1>4. [Done1(p) EXCEPT !.writes = @ \cup more] = [pc |-> "write", todo |-> rest, writes |-> w \cup more]
  <2> DEFINE d == Done1(p)
             all == d.writes \cup more
  <2>1. all = w \cup more
    BY <1>3
  <2>2. d = [pc |-> "write", todo |-> rest, writes |-> w]
    BY <1>3
  <2> HIDE DEF d, all
  <2>3. [d EXCEPT !.writes = all] = [pc |-> "write", todo |-> rest, writes |-> all]
    BY <2>2
  <2>4. [d EXCEPT !.writes = all] = [pc |-> "write", todo |-> rest, writes |-> w \cup more]
    BY <2>1, <2>3
  <2> QED
    BY <2>4 DEF d, all
<1>5. w \cup more \subseteq 1 .. version + 1
  BY <1>1 DEF ReadsInv, ReadsShapes
<1>6. ReadShape([pc |-> "write", todo |-> rest, writes |-> w], version)
  BY <1>1 DEF ReadShape
<1>7. ReadShape([pc |-> "write", todo |-> rest, writes |-> w \cup more], version + 1)
  BY <1>5 DEF ReadShape
<1> QED
  BY <1>1, <1>3, <1>4, <1>6, <1>7 DEF w

LEMMA ReadsStep == ASSUME ReadsInv, [VNext]_vVars PROVE ReadsInv'
<1> USE ReadsConstants
<1>1. ASSUME NEW p \in VProc, GetOrLoad(p) PROVE ReadsInv'
  BY <1>1, LooksUp DEF GetOrLoad
<1>2. CASE UNCHANGED vVars
  BY <1>2
  DEF ReadsInv, ReadsShapes, ReadShape, LoadLeads, Leads, CachesExplained, vVars, clusterVars,
      readVars,
      snapshotVars
<1>3. ASSUME NEW p \in VProc, DirectRead(p) PROVE ReadsInv'
  BY <1>2, <1>3 DEF DirectRead
<1>4. ASSUME NEW p \in VProc, Raw(p) PROVE ReadsInv'
  BY <1>2, <1>4, LooksUp DEF Raw, vVars
<1>5. ASSUME NEW p \in VProc, FetchJSZ(p) PROVE ReadsInv'
  <2>1. UNCHANGED <<clusterVars, readVars, snapshotVars>>
    BY <1>5 DEF FetchJSZ
  <2>2. CASE UNCHANGED vproc
    BY <1>2, <2>1, <2>2 DEF vVars
  <2>3. CASE \E k \in Jsz : VGo(p, [pc |-> "jszDo", key |-> k, outer |-> k])
    BY <2>1, <2>3, ReaderMoves DEF ReadShape, Key, Jsz
  <2> QED
    BY <1>5, <2>2, <2>3 DEF FetchJSZ, Jsz
<1>6. ASSUME NEW p \in VProc, WithExecutor(p) PROVE ReadsInv'
  <2>1. PICK todo : VGo(p, [pc |-> "write", todo |-> todo, writes |-> {}])
    BY <1>6 DEF WithExecutor
  <2> DEFINE next == [pc |-> "write", todo |-> todo, writes |-> {}]
  <2>2. ReadShape(next, version) /\ next.pc = "write"
    BY DEF ReadShape
  <2> QED
    BY <1>6, <2>1, <2>2, ReaderMoves DEF WithExecutor
<1>7. ASSUME NEW p \in VProc, NEW k \in Key, vproc[p].key = k, vproc[p].pc \in {"do", "jszDo"},
             VGo(p, [vproc[p] EXCEPT !.pc = "wait"]), UNCHANGED <<clusterVars, readVars, snapshotVars>>
      PROVE  ReadsInv'
  <2>1. vproc[p] = [pc |-> vproc[p].pc, key |-> k, outer |-> vproc[p].outer]
    BY <1>7 DEF ReadsInv, ReadShape
  <2>2. [vproc[p] EXCEPT !.pc = "wait"] = [pc |-> "wait", key |-> k, outer |-> vproc[p].outer]
    BY <2>1
  <2>3. ReadShape([vproc[p] EXCEPT !.pc = "wait"], version)
    BY <1>7, <2>2 DEF ReadsInv, ReadShape
  <2> QED
    BY <1>7, <2>2, <2>3, ReaderMoves
<1>8. ASSUME NEW p \in VProc, NEW k \in Key, NEW next, flights[k] = NoView,
             flights' = [flights EXCEPT ![k] = [lead |-> p, gen |-> NoView, crossed |-> FALSE]],
             VGo(p, next), ReadShape(next, version), next.pc # "store", next.pc = "load" => next.key = k,
             UNCHANGED <<clusterVars, views, snapshotVars>>
      PROVE  ReadsInv'
  <2> DEFINE new == [lead |-> p, gen |-> NoView, crossed |-> FALSE]
  <2>1. new \in FlightRow /\ new # NoView /\ new.lead = p /\ new.gen = NoView
    <3>1. new \in FlightRow
      BY DEF FlightRow
    <3> QED
      BY <3>1
  <2>2. /\ flights'[k] = new /\ \A j \in Key \ {k} : flights'[j] = flights[j]
        /\ flights' \in [Key -> {NoView} \cup FlightRow]
    BY <1>8, <2>1 DEF ReadsInv, ReadsShapes
  <2> HIDE DEF new
  <2>3. /\ vproc'[p] = next /\ \A q \in VProc \ {p} : vproc'[q] = vproc[q]
        /\ vproc' = [q \in VProc |-> vproc'[q]]
    BY <1>8 DEF VGo, ReadsInv, ReadsShapes
  <2>4. ReadsShapes' /\ CachesExplained'
    BY <1>8, <2>1, <2>2, <2>3 DEF ReadsInv, ReadsShapes, CachesExplained, clusterVars, snapshotVars
  <2>5. \A q \in VProc : ReadShape(vproc'[q], version')
    BY <1>8, <2>3 DEF ReadsInv, clusterVars
  <2>6. \A q \in VProc : LoadLeads(q)'
    <3>1. LoadLeads(p)'
      BY <1>8, <2>1, <2>2, <2>3 DEF LoadLeads, Leads
    <3>2. ASSUME NEW q \in VProc \ {p} PROVE LoadLeads(q)'
      BY <1>8, <2>2, <2>3 DEF ReadsInv, ReadShape, LoadLeads, Leads
    <3> QED
      BY <3>1, <3>2
  <2> QED
    BY <2>4, <2>5, <2>6 DEF ReadsInv, ReadShape
<1>9. ASSUME NEW p \in VProc, Do(p) PROVE ReadsInv'
  <2> DEFINE k == vproc[p].key
  <2>1. /\ vproc[p].pc = "do" /\ k \in View /\ k \in Key
        /\ vproc[p] = [pc |-> "do", key |-> k, outer |-> vproc[p].outer]
        /\ UNCHANGED <<clusterVars, views, topology, snapshotVars>>
    BY <1>9 DEF Do, ReadsInv, ReadShape, Key
  <2>2. CASE VGo(p, [vproc[p] EXCEPT !.pc = "wait"]) /\ UNCHANGED flights
    BY <1>7, <2>1, <2>2 DEF readVars
  <2>3. CASE flights[k] = NoView /\ views[k] # NoView /\ Land(p, k, views[k].gen)
    <3>1. views' \in [View -> {NoView} \cup ViewRow]
            /\ \A j \in View : views'[j] # NoView => Explained(settled, views'[j])
      BY <2>1 DEF ReadsInv, ReadsShapes, CachesExplained
    <3> QED
      BY <2>1, <2>3, <3>1, Lands
  <2>4. CASE /\ flights[k] = NoView
             /\ flights' = [flights EXCEPT ![k] = [lead |-> p, gen |-> NoView, crossed |-> FALSE]]
             /\ VGo(p, [vproc[p] EXCEPT !.pc = "load"])
    <3>1. [vproc[p] EXCEPT !.pc = "load"] = [pc |-> "load", key |-> k, outer |-> vproc[p].outer]
      BY <2>1
    <3>2. ReadShape([vproc[p] EXCEPT !.pc = "load"], version)
      BY <2>1, <3>1 DEF ReadsInv, ReadShape
    <3> QED
      BY <1>8, <2>1, <2>4, <3>1, <3>2
  <2> QED
    BY <1>9, <2>2, <2>3, <2>4 DEF Do
<1>10. ASSUME NEW p \in VProc, Load(p) PROVE ReadsInv'
  <2> DEFINE k == vproc[p].key
  <2>1. /\ vproc[p].pc = "load" /\ k \in View /\ k \in Key /\ Leads(p, k)
        /\ vproc[p] = [pc |-> "load", key |-> k, outer |-> vproc[p].outer]
        /\ UNCHANGED <<clusterVars, views, topology, snapshotVars>>
    BY <1>10 DEF Load, ReadsInv, ReadShape, Key, LoadLeads
  <2>2. CASE flights' = [flights EXCEPT ![k].gen = version] /\ VGo(p, [vproc[p] EXCEPT !.pc = "store"])
    <3> DEFINE new == [flights[k] EXCEPT !.gen = version]
    <3>1. flights[k] \in FlightRow /\ flights[k].lead = p
      BY <2>1 DEF Leads, ReadsInv, ReadsShapes
    <3>2. new \in FlightRow /\ new # NoView /\ new.lead = p /\ new.gen = version /\ version \in Nat
      BY <3>1 DEF FlightRow, ReadsInv, ReadsShapes
    <3>3. /\ flights'[k] = new /\ \A j \in Key \ {k} : flights'[j] = flights[j]
          /\ flights' \in [Key -> {NoView} \cup FlightRow]
      BY <2>1, <2>2, <3>2 DEF ReadsInv, ReadsShapes
    <3> HIDE DEF new
    <3>4. [vproc[p] EXCEPT !.pc = "store"] = [pc |-> "store", key |-> k, outer |-> vproc[p].outer]
      BY <2>1
    <3>5. /\ vproc'[p] = [pc |-> "store", key |-> k, outer |-> vproc[p].outer]
          /\ \A q \in VProc \ {p} : vproc'[q] = vproc[q]
          /\ vproc' = [q \in VProc |-> vproc'[q]]
      BY <2>2, <3>4 DEF VGo, ReadsInv, ReadsShapes
    <3>6. Explained(settled, new)
      BY <3>2 DEF Explained, ReadsInv, ReadsShapes
    <3>7. ReadsShapes' /\ CachesExplained'
      BY <2>1, <3>2, <3>3, <3>5, <3>6
      DEF ReadsInv, ReadsShapes, CachesExplained, clusterVars, snapshotVars
    <3>8. \A q \in VProc : ReadShape(vproc'[q], version')
      <4>1. ReadShape([pc |-> "store", key |-> k, outer |-> vproc[p].outer], version)
        BY <2>1, ShapesOfAnswers DEF ReadsInv, ReadShape
      <4>2. \A q \in VProc : ReadShape(vproc[q], version) /\ version' = version
        BY <2>1 DEF ReadsInv, clusterVars
      <4> QED
        BY <3>5, <4>1, <4>2
    <3>9. LoadLeads(p)'
      BY <3>2, <3>3, <3>5 DEF LoadLeads, Leads
    <3>10. ASSUME NEW q \in VProc \ {p} PROVE LoadLeads(q)'
      <4>1. vproc[q].pc \in {"load", "store"} => vproc[q].key \in Key /\ vproc[q].key # k
        BY <2>1 DEF ReadsInv, ReadShape, LoadLeads, Leads
      <4> QED
        BY <3>3, <3>5, <4>1, StillLeads
    <3> QED
      BY <3>7, <3>8, <3>9, <3>10 DEF ReadsInv, ReadShape
  <2>3. CASE Abort(p, k)
    <3>0. /\ \A j \in Key : flights'[j] = IF flights[j] # NoView /\ flights[j].lead \in Waiting(k) \cup {p}
                                          THEN NoView ELSE flights[j]
          /\ flights' = [j \in Key |-> flights'[j]]
      BY <2>3 DEF Abort
    <3>a. \A j \in Key : flights'[j] \in {NoView} \cup FlightRow
      BY <3>0 DEF ReadsInv, ReadsShapes
    <3>b. flights' \in [Key -> {NoView} \cup FlightRow]
      BY <3>0, <3>a
    <3>1. /\ \A j \in Key : \/ flights'[j] = flights[j]
                            \/ flights'[j] = NoView /\ flights[j].lead \in Waiting(k) \cup {p}
          /\ flights' \in [Key -> {NoView} \cup FlightRow]
      BY <3>0, <3>b
    <3>2. /\ \A q \in VProc : vproc'[q] \in {VIdle, vproc[q]}
          /\ \A q \in VProc : q \in Waiting(k) \cup {p} => vproc'[q] = VIdle
          /\ vproc' = [q \in VProc |-> vproc'[q]]
      BY <2>3 DEF Abort
    <3>3. ReadsShapes' /\ CachesExplained'
      BY <2>1, <3>1, <3>2 DEF ReadsInv, ReadsShapes, CachesExplained, clusterVars, snapshotVars
    <3>4. \A q \in VProc : ReadShape(vproc'[q], version')
      BY <2>1, <3>2, ShapesOfAnswers DEF ReadsInv, clusterVars
    <3>5. ASSUME NEW q \in VProc PROVE LoadLeads(q)'
      <4>1. CASE vproc'[q] = VIdle
        BY <4>1 DEF LoadLeads, VIdle
      <4>2. CASE vproc'[q] = vproc[q] /\ q \notin Waiting(k) \cup {p}
        <5>1. vproc[q].pc \in {"load", "store"} =>
                vproc[q].key \in Key /\ flights[vproc[q].key].lead \notin Waiting(k) \cup {p}
          BY <4>2 DEF ReadsInv, ReadShape, LoadLeads, Leads
        <5> QED
          BY <3>1, <4>2, <5>1, StillLeads
      <4> QED
        BY <3>2, <4>1, <4>2
    <3> QED
      BY <3>3, <3>4, <3>5 DEF ReadsInv, ReadShape
  <2> QED
    BY <1>10, <2>2, <2>3 DEF Load
<1>11. ASSUME NEW p \in VProc, StoreView(p) PROVE ReadsInv'
  <2> DEFINE k == vproc[p].key
             new == [gen |-> flights[k].gen, crossed |-> flights[k].crossed]
  <2>1. /\ vproc[p].pc = "store" /\ k \in View /\ k \in Key /\ Leads(p, k) /\ flights[k].gen # NoView
        /\ UNCHANGED <<clusterVars, topology, snapshotVars>>
    BY <1>11 DEF StoreView, ReadsInv, ReadShape, Key, LoadLeads
  <2>2. views' = [views EXCEPT ![k] = new] /\ Land(p, k, flights[k].gen)
    BY <1>11 DEF StoreView
  <2>3. flights[k] \in FlightRow /\ Explained(settled, flights[k])
    BY <2>1 DEF Leads, ReadsInv, ReadsShapes, CachesExplained
  <2>4. new \in ViewRow /\ Explained(settled, new)
    BY <2>1, <2>3 DEF FlightRow, ViewRow, Explained
  <2> HIDE DEF new
  <2>5. /\ views' \in [View -> {NoView} \cup ViewRow]
        /\ \A j \in View : views'[j] # NoView => Explained(settled, views'[j])
    BY <2>1, <2>2, <2>4 DEF ReadsInv, ReadsShapes, CachesExplained
  <2> QED
    BY <2>1, <2>2, <2>5, Lands
<1>12. ASSUME NEW p \in VProc, JszDo(p) PROVE ReadsInv'
  <2> DEFINE k == vproc[p].key
             lead == flights' = [flights EXCEPT ![k] = [lead |-> p, gen |-> NoView, crossed |-> FALSE]]
  <2>1. /\ vproc[p].pc = "jszDo" /\ k \in Jsz /\ k \in Key
        /\ UNCHANGED <<clusterVars, views, topology, snapshotVars>>
    BY <1>12 DEF JszDo, ReadsInv, ReadShape, Key
  <2>2. CASE VGo(p, [vproc[p] EXCEPT !.pc = "wait"]) /\ UNCHANGED flights
    BY <1>7, <2>1, <2>2 DEF readVars
  <2>3. CASE flights[k] = NoView /\ Land(p, k, topology)
    <3>1. views' \in [View -> {NoView} \cup ViewRow]
            /\ \A j \in View : views'[j] # NoView => Explained(settled, views'[j])
      BY <2>1 DEF ReadsInv, ReadsShapes, CachesExplained
    <3> QED
      BY <2>1, <2>3, <3>1, Lands
  <2>4. ASSUME NEW g, flights[k] = NoView, lead, VGo(p, [pc |-> "fetched", outer |-> k, gen |-> g])
        PROVE  ReadsInv'
    <3>1. ReadShape([pc |-> "fetched", outer |-> k, gen |-> g], version)
      BY <2>1 DEF ReadShape
    <3> QED
      BY <1>8, <2>1, <2>4, <3>1
  <2>5. CASE flights[k] = NoView /\ lead /\ VGo(p, [pc |-> "do", key |-> "monitoring", outer |-> k])
    <3>1. ReadShape([pc |-> "do", key |-> "monitoring", outer |-> k], version)
      BY <2>1 DEF ReadShape, Key
    <3> QED
      BY <1>8, <2>1, <2>5, <3>1
  <2> QED
    BY <1>12, <2>2, <2>3, <2>4, <2>5 DEF JszDo
<1>13. ASSUME NEW p \in VProc, StoreTopology(p) PROVE ReadsInv'
  <2> DEFINE k == vproc[p].outer
  <2>1. /\ vproc[p].pc = "fetched" /\ k \in Jsz /\ k \in Key /\ k \notin View
        /\ UNCHANGED <<clusterVars, views, snapshotVars>>
    BY <1>13 DEF StoreTopology, ReadsInv, ReadShape, Key, Jsz
  <2>2. /\ flights'[k] = NoView /\ \A j \in Key \ {k} : flights'[j] = flights[j]
        /\ flights' \in [Key -> {NoView} \cup FlightRow]
    BY <1>13, <2>1 DEF StoreTopology, ReadsInv, ReadsShapes
  <2>3. /\ \A q \in VProc : vproc'[q] \in {VIdle, vproc[q]}
        /\ vproc' = [q \in VProc |-> vproc'[q]]
    BY <1>13 DEF StoreTopology
  <2>4. ReadsShapes' /\ CachesExplained'
    BY <2>1, <2>2, <2>3 DEF ReadsInv, ReadsShapes, CachesExplained, clusterVars, snapshotVars
  <2>5. \A q \in VProc : ReadShape(vproc'[q], version')
    <3>1. ReadShape(VIdle, version)
      BY DEF ReadShape, VIdle
    <3> QED
      BY <2>1, <2>3, <3>1 DEF ReadsInv, clusterVars
  <2>6. ASSUME NEW q \in VProc PROVE LoadLeads(q)'
    <3>1. CASE vproc'[q] = VIdle
      BY <3>1 DEF LoadLeads, VIdle
    <3>2. CASE vproc'[q] = vproc[q]
      <4>1. vproc[q].pc \in {"load", "store"} => vproc[q].key \in Key \ {k}
        BY <2>1 DEF ReadsInv, ReadShape, Key
      <4> QED
        BY <2>2, <3>2, <4>1, StillLeads
    <3> QED
      BY <2>3, <3>1, <3>2
  <2> QED
    BY <2>4, <2>5, <2>6 DEF ReadsInv, ReadShape
<1>14. ASSUME NEW k \in View, ViewExpires(k) PROVE ReadsInv'
  <2>1. /\ views' \in [View -> {NoView} \cup ViewRow]
        /\ \A j \in View : views'[j] \in {NoView, views[j]}
        /\ UNCHANGED <<clusterVars, flights, snapshotVars, vproc>>
    BY <1>14 DEF ViewExpires, ReadsInv, ReadsShapes
  <2> QED
    BY <2>1
    DEF ReadsInv, ReadsShapes, ReadShape, LoadLeads, Leads, CachesExplained, clusterVars,
        snapshotVars
<1>15. CASE TopologyExpires
  BY <1>15
  DEF TopologyExpires, ReadsInv, ReadsShapes, ReadShape, LoadLeads, Leads, CachesExplained,
      clusterVars,
      snapshotVars
<1>16. CASE CollectClusterSnapshot \/ Publish \/ ScrapeFails
  <2>1. Loaded(version) \in ViewRow /\ Explained(dropped, Loaded(version))
    BY DEF Loaded, ViewRow, Explained, ReadsInv, ReadsShapes
  <2>2. /\ scrape' \in {NoView, Loaded(version)} /\ hub' \in {hub, scrape}
        /\ UNCHANGED <<clusterVars, readVars, vproc>>
    BY <1>16 DEF CollectClusterSnapshot, Publish, ScrapeFails
  <2>3. ReadsShapes' /\ CachesExplained'
    BY <2>1, <2>2 DEF ReadsInv, ReadsShapes, CachesExplained, clusterVars, readVars
  <2> QED
    BY <2>2, <2>3 DEF ReadsInv, ReadShape, LoadLeads, Leads, clusterVars, readVars
<1>17. ReadShape(VIdle, version) /\ ReadShape(VIdle, version + 1) /\ VIdle.pc = "idle"
  BY DEF ReadShape, VIdle
<1>18. ASSUME NEW p \in VProc, Apply(p) PROVE ReadsInv'
  <2>1. vproc[p].pc = "write" /\ UNCHANGED <<settled, dropped, readVars, snapshotVars>>
    BY <1>18 DEF Apply, At
  <2>2. CASE UNCHANGED version /\ VGo(p, VIdle)
    BY <1>17, <2>1, <2>2, ReaderMoves DEF clusterVars
  <2>3. CASE version' = version + 1 /\ (VGo(p, Wrote(p)) \/ VGo(p, VIdle))
    <3>1. version \in Nat
      BY DEF ReadsInv, ReadsShapes
    <3>2. ReadShape(Wrote(p), version + 1) /\ Wrote(p).pc = "write"
      <4>1. {version + 1} \subseteq 1 .. version + 1
        BY <3>1
      <4> QED
        BY <2>1, <4>1, WriterGoesOn DEF Wrote
    <3>3. /\ vproc'[p] \in {Wrote(p), VIdle} /\ \A q \in VProc \ {p} : vproc'[q] = vproc[q]
          /\ vproc' = [q \in VProc |-> vproc'[q]]
      BY <2>3 DEF VGo, ReadsInv, ReadsShapes
    <3>4. \A q \in VProc : ReadShape(vproc[q], version + 1)
      <4>1. 1 .. version \subseteq 1 .. version + 1
        BY <3>1
      <4> QED
        BY <4>1 DEF ReadsInv, ReadShape
    <3>5. \A q \in VProc : ReadShape(vproc'[q], version')
      BY <1>17, <2>3, <3>2, <3>3, <3>4
    <3>6. ReadsShapes' /\ CachesExplained'
      BY <2>1, <2>3, <3>1, <3>3 DEF ReadsInv, ReadsShapes, CachesExplained, readVars, snapshotVars
    <3>7. ASSUME NEW q \in VProc PROVE LoadLeads(q)'
      <4>1. CASE q = p
        BY <1>17, <3>2, <3>3, <4>1 DEF LoadLeads
      <4>2. CASE q # p
        BY <2>1, <3>3, <4>2, StillLeads DEF readVars
      <4> QED
        BY <4>1, <4>2
    <3> QED
      BY <3>5, <3>6, <3>7 DEF ReadsInv, ReadShape
  <2> QED
    BY <1>18, <2>2, <2>3 DEF Apply, Fail
<1>19. ASSUME NEW p \in VProc, vproc[p].pc = "write" PROVE ReadShape(Done1(p), version) /\ Done1(p).pc = "write"
  BY <1>19, WriterGoesOn
<1>20. ASSUME NEW p \in VProc, ReadBetween(p) \/ Answer(p) PROVE ReadsInv'
  <2>1. vproc[p].pc = "write" /\ UNCHANGED <<clusterVars, readVars, snapshotVars>>
    BY <1>20 DEF ReadBetween, Answer, At
  <2>2. VGo(p, Done1(p)) \/ VGo(p, VIdle)
    BY <1>20 DEF ReadBetween, Answer, Fail
  <2> QED
    BY <1>17, <1>19, <2>1, <2>2, ReaderMoves
<1>21. ASSUME NEW p \in VProc, vproc[p].pc = "write", VGo(p, Done1(p)), version' = version,
              ReadsShapes', CachesExplained',
              \A k \in Key : flights[k] # NoView =>
                /\ flights'[k] # NoView /\ flights'[k].lead = flights[k].lead
                /\ flights'[k].gen = flights[k].gen
       PROVE  ReadsInv'
  <2>1. vproc'[p] = Done1(p) /\ \A q \in VProc \ {p} : vproc'[q] = vproc[q]
    BY <1>21 DEF VGo, ReadsInv, ReadsShapes
  <2>2. \A q \in VProc : ReadShape(vproc'[q], version')
    BY <1>19, <1>21, <2>1 DEF ReadsInv
  <2>3. ASSUME NEW q \in VProc PROVE LoadLeads(q)'
    <3>1. CASE q = p
      BY <1>19, <1>21, <2>1, <3>1 DEF LoadLeads
    <3>2. CASE q # p
      <4>1. vproc[q].pc \in {"load", "store"} => vproc[q].key \in Key
        BY DEF ReadsInv, ReadShape
      <4> QED
        BY <1>21, <2>1, <3>2, <4>1 DEF ReadsInv, LoadLeads, Leads
    <3> QED
      BY <3>1, <3>2
  <2> QED
    BY <1>21, <2>2, <2>3 DEF ReadsInv, ReadShape
<1>22. ASSUME NEW p \in VProc, InvalidateViews(p) PROVE ReadsInv'
  <2>1. vproc[p].pc = "write" /\ VGo(p, Done1(p))
    BY <1>22 DEF InvalidateViews, At
  <2>2. vproc[p].writes \subseteq 1 .. version
    BY <2>1 DEF ReadsInv, ReadShape
  <2>3. CASE UNCHANGED <<clusterVars, readVars, snapshotVars>>
    BY <1>19, <2>1, <2>3, ReaderMoves
  <2>4. CASE /\ views' = [k \in View |-> Invalidated(k)]
             /\ flights' = [k \in Key |-> IF flights[k] # NoView /\ flights[k].gen # NoView
                                          THEN [flights[k] EXCEPT !.crossed = TRUE] ELSE flights[k]]
             /\ settled' = settled \cup vproc[p].writes
             /\ UNCHANGED <<version, dropped, topology, snapshotVars>>
    <3>1. \A f \in FlightRow :
            LET g == [f EXCEPT !.crossed = TRUE]
            IN  g \in FlightRow /\ g.lead = f.lead /\ g.gen = f.gen /\ g.crossed = TRUE
      BY DEF FlightRow
    <3>2. \A k \in Key : flights[k] # NoView => flights[k] \in FlightRow
      BY DEF ReadsInv, ReadsShapes
    <3>3. \A k \in Key : flights[k] # NoView =>
            /\ flights'[k] \in FlightRow /\ flights'[k].lead = flights[k].lead
            /\ flights'[k].gen = flights[k].gen
            /\ flights[k].gen # NoView => flights'[k].crossed = TRUE
      BY <2>4, <3>1, <3>2
    <3>4. \A k \in Key : flights[k] = NoView => flights'[k] = NoView
      BY <2>4
    <3>5. flights' \in [Key -> {NoView} \cup FlightRow]
      <4>1. \A k \in Key : flights'[k] \in {NoView} \cup FlightRow
        BY <3>3, <3>4
      <4>2. flights' = [k \in Key |-> flights'[k]]
        BY <2>4
      <4> QED
        BY <4>1, <4>2
    <3>6. \A k \in View : views'[k] = NoView
      BY <2>4 DEF Invalidated
    <3>7. views' \in [View -> {NoView} \cup ViewRow]
      BY <2>4 DEF Invalidated
    <3>8. ReadsShapes'
      BY <2>1, <2>2, <2>4, <3>5, <3>7 DEF ReadsInv, ReadsShapes, VGo, snapshotVars
    <3>9. \A k \in Key : flights'[k] # NoView /\ flights'[k].gen # NoView => Explained(settled', flights'[k])
      BY <3>3, <3>4 DEF Explained
    <3>10. CachesExplained'
      BY <2>4, <3>6, <3>9 DEF ReadsInv, CachesExplained, snapshotVars
    <3> QED
      BY <1>21, <2>1, <2>4, <3>3, <3>8, <3>10
  <2> QED
    BY <1>22, <2>3, <2>4 DEF InvalidateViews
<1>23. ASSUME NEW p \in VProc, InvalidateSnapshot(p) PROVE ReadsInv'
  <2>1. /\ vproc[p].pc = "write" /\ VGo(p, Done1(p)) /\ hub' = NoView
        /\ scrape' = IF scrape = NoView THEN NoView ELSE [scrape EXCEPT !.crossed = TRUE]
        /\ dropped' = dropped \cup vproc[p].writes
        /\ UNCHANGED <<version, settled, readVars>>
    BY <1>23 DEF InvalidateSnapshot, At
  <2>2. vproc[p].writes \subseteq 1 .. version
    BY <2>1 DEF ReadsInv, ReadShape
  <2>3. scrape # NoView => scrape' \in ViewRow /\ scrape'.crossed = TRUE
    BY <2>1 DEF ReadsInv, ReadsShapes, ViewRow
  <2>4. ReadsShapes'
    BY <2>1, <2>2, <2>3 DEF ReadsInv, ReadsShapes, VGo, readVars
  <2>5. CachesExplained'
    BY <2>1, <2>3 DEF ReadsInv, CachesExplained, Explained, readVars
  <2> QED
    BY <1>21, <2>1, <2>4, <2>5 DEF readVars
<1> QED
  BY <1>1, <1>2, <1>3, <1>4, <1>5, <1>6, <1>9, <1>10, <1>11, <1>12, <1>13, <1>14, <1>15, <1>16,
     <1>18, <1>20, <1>22, <1>23 DEF VNext, VStep

(* The calls that remain of a request that writes: those that drop the       *)
(* snapshot come behind the ones that drop the views.                        *)
Plain == Seq({"apply", "read", "invalidate", "invalidateIfRetried"})
DropsBoth == <<"apply", "invalidate", "invalidateSnapshot">>

Orderly(todo) == todo \in Plain \/ todo = DropsBoth
OrderlyTable(table) == \A op \in DOMAIN table : Orderly(table[op])

(* Every route that writes is orderly.                                       *)
LEMMA ProgramOrderly == \A handler \in Program : OrderlyTable(handler)
<1>1. \A s, t \in Plain : s \o t \in Plain
  BY DEF Plain
<1>2. /\ <<"apply">> \in Plain /\ <<"read">> \in Plain /\ <<"invalidate">> \in Plain
      /\ <<"apply", "invalidate">> \in Plain /\ <<"read", "apply">> \in Plain
      /\ <<"read", "read", "apply">> \in Plain /\ <<"apply", "invalidateIfRetried">> \in Plain
  BY DEF Plain
<1>3. <<"apply", "invalidate">> \o <<"invalidateSnapshot">> = DropsBoth
  <2> DEFINE Call == {"apply", "invalidate", "invalidateSnapshot"}
             both == <<"apply", "invalidate">> \o <<"invalidateSnapshot">>
  <2>1. <<"apply", "invalidate">> \in Seq(Call) /\ <<"invalidateSnapshot">> \in Seq(Call)
    OBVIOUS
  <2>2. DropsBoth \in Seq(Call) /\ both \in Seq(Call)
    BY <2>1 DEF DropsBoth
  <2>3. Len(both) = 3 /\ both[1] = "apply" /\ both[2] = "invalidate" /\ both[3] = "invalidateSnapshot"
    BY <2>1, ConcatProperties
  <2>4. Len(DropsBoth) = 3 /\ \A i \in 1 .. 3 : DropsBoth[i] = both[i]
    BY <2>3 DEF DropsBoth
  <2> HIDE DEF both
  <2>5. DropsBoth = both
    BY <2>2, <2>3, <2>4, SeqEqual
  <2> QED
    BY <2>5 DEF both
<1>4. OrderlyTable(StreamHandler)
  BY <1>3 DEF StreamHandler, StreamExecutor, OrderlyTable, Orderly
<1>5. OrderlyTable(ConsumerHandler)
  BY <1>3 DEF ConsumerHandler, ConsumerExecutor, OrderlyTable, Orderly
<1>6. OrderlyTable(ReplayHandler)
  BY <1>2 DEF ReplayHandler, ConsumerExecutor, OrderlyTable, Orderly
<1>7. \A op \in {"CaptureIncidentCapsule", "CaptureIncidentCapsuleFromDLQ"} : CapsuleClient[op] \in Plain
  BY <1>2 DEF CapsuleClient
<1>8. \A op \in DOMAIN MessageExecutor : MessageExecutor[op] \in Plain
  <2>1. \A op \in DOMAIN CapsuleClient : CapsuleClient[op] \o <<"invalidate">> \in Plain
    BY <1>1, <1>2, <1>7 DEF CapsuleClient
  <2> QED
    BY <1>2, <2>1 DEF MessageExecutor
<1>9. /\ DOMAIN CapsuleClient \subseteq DOMAIN MessageExecutor
      /\ {"PublishStreamMessage", "RetryDLQMessages"} \subseteq DOMAIN MessageExecutor
  BY DEF MessageExecutor
<1>10. OrderlyTable(PublishHandler) /\ OrderlyTable(DLQHandler) /\ OrderlyTable(CapsuleHandler)
  BY <1>8, <1>9 DEF PublishHandler, DLQHandler, CapsuleHandler, OrderlyTable, Orderly
<1>11. \A op \in DOMAIN KVExecutor : KVExecutor[op] \in Plain
  <2>1. <<"apply">> \o ApplyKVStreamExtras \o GetKVBucket \in Plain
    BY <1>1, <1>2 DEF ApplyKVStreamExtras, GetKVBucket
  <2>2. \A op \in DOMAIN KVClient : KVClient[op] \in Plain
    BY <2>1 DEF KVClient
  <2> QED
    BY <1>1, <1>2, <2>2 DEF KVExecutor
<1>12. OrderlyTable(KVBucketHandler) /\ OrderlyTable(KVEntryHandler)
  <2>1. {"CreateKVBucket", "UpdateKVBucket", "DeleteKVBucket", "PutKVEntry", "DeleteKVEntry"} = DOMAIN KVExecutor
    BY DEF KVExecutor
  <2> QED
    BY <1>11, <2>1 DEF KVBucketHandler, KVEntryHandler, OrderlyTable, Orderly
<1>13. \A op \in DOMAIN ObjectExecutor : ObjectExecutor[op] \in Plain
  <2>1. \A op \in DOMAIN ObjectClient : ObjectClient[op] \in Plain
    BY <1>1, <1>2 DEF ObjectClient, GetObjectBucket
  <2> QED
    BY <1>1, <1>2, <2>1 DEF ObjectExecutor
<1>14. OrderlyTable(ObjectBucketHandler) /\ OrderlyTable(ObjectHandler)
  <2>1. {"CreateObjectBucket", "UpdateObjectBucket", "DeleteObjectBucket", "PutObject", "DeleteObject"}
          = DOMAIN ObjectExecutor
    BY DEF ObjectExecutor
  <2> QED
    BY <1>13, <2>1 DEF ObjectBucketHandler, ObjectHandler, OrderlyTable, Orderly
<1> QED
  BY <1>4, <1>5, <1>6, <1>10, <1>12, <1>14 DEF Program

(* Nothing that was read is ahead of the cluster, and the writes of a        *)
(* request that is about to drop the snapshot have dropped the views.        *)
ReadWithin(row) == row # NoView /\ row.gen # NoView => row.gen \in 0 .. version
Within(q) ==
  /\ q.pc = "fetched" => q.gen \in 0 .. version
  /\ q.pc = "write" => \/ Orderly(q.todo)
                       \/ q.todo = <<"invalidate", "invalidateSnapshot">>
                       \/ q.todo = <<"invalidateSnapshot">> /\ q.writes \subseteq settled
CachesWithin ==
  /\ version \in 0 .. MaxWrites /\ dropped \subseteq settled
  /\ \A k \in View : ReadWithin(views[k])
  /\ \A k \in Key : ReadWithin(flights[k])
  /\ ReadWithin(hub) /\ ReadWithin(scrape)
  /\ topology # NoView => topology \in 0 .. version
ReadsWithin == CachesWithin /\ \A p \in VProc : Within(vproc[p])

LEMMA VersionIs == ASSUME ReadsInv, ReadsWithin PROVE version \in Nat /\ version \in 0 .. version
BY DEF ReadsInv, ReadsShapes

(* One request moves, and the flights read what is stored.                   *)
LEMMA MovesWithin ==
  ASSUME ReadsInv, ReadsWithin, NEW p \in VProc, NEW next, VGo(p, next), Within(next),
         \A k \in Key : ReadWithin(flights'[k]),
         UNCHANGED <<clusterVars, views, topology, snapshotVars>>
  PROVE  ReadsWithin'
<1>1. vproc'[p] = next /\ \A q \in VProc \ {p} : vproc'[q] = vproc[q]
  BY DEF ReadsInv, ReadsShapes, VGo
<1>2. version' = version /\ settled' = settled
  BY DEF clusterVars
<1>3. \A q \in VProc : Within(vproc'[q])
  BY <1>1 DEF ReadsWithin
<1>4. CachesWithin'
  BY <1>2 DEF ReadsWithin, CachesWithin, ReadWithin, clusterVars, snapshotVars
<1> QED
  BY <1>2, <1>3, <1>4 DEF ReadsWithin, Within

(* A flight lands with something that was read.                              *)
LEMMA LandsWithin ==
  ASSUME ReadsInv, ReadsWithin, NEW p \in VProc, NEW k \in Key, NEW gen \in 0 .. version,
         Land(p, k, gen), \A j \in View : ReadWithin(views'[j]),
         UNCHANGED <<clusterVars, topology, snapshotVars>>
  PROVE  ReadsWithin'
<1>1. \A j \in Key : flights'[j] \in {flights[j], NoView}
  BY DEF Land, ReadsInv, ReadsShapes
<1>2. \A q \in VProc : \/ vproc'[q] = vproc[q] \/ vproc'[q] = VIdle
                       \/ vproc'[q] = [pc |-> "fetched", outer |-> vproc[q].outer, gen |-> gen]
  BY DEF Land
<1>3. version' = version /\ settled' = settled
  BY DEF clusterVars
<1>4. ASSUME NEW q \in VProc PROVE Within(vproc'[q])
  <2>1. Within(VIdle)
    BY DEF Within, VIdle
  <2>2. \A o : Within([pc |-> "fetched", outer |-> o, gen |-> gen])
    BY DEF Within
  <2>3. Within(vproc[q])
    BY DEF ReadsWithin
  <2> QED
    BY <1>2, <2>1, <2>2, <2>3
<1>5. CachesWithin'
  BY <1>1, <1>3 DEF ReadsWithin, CachesWithin, ReadWithin, clusterVars, snapshotVars
<1> QED
  BY <1>3, <1>4, <1>5 DEF ReadsWithin, Within

(* Requests end, flights end, and values are dropped or copied.              *)
LEMMA DropsWithin ==
  ASSUME ReadsInv, ReadsWithin, \A q \in VProc : vproc'[q] \in {vproc[q], VIdle},
         \A k \in Key : flights'[k] \in {flights[k], NoView},
         \A k \in View : views'[k] \in {views[k], NoView},
         hub' \in {hub, scrape, NoView}, ReadWithin(scrape'),
         topology' = NoView \/ topology' = topology \/ topology' \in 0 .. version,
         UNCHANGED clusterVars
  PROVE  ReadsWithin'
<1>1. version' = version /\ settled' = settled
  BY DEF clusterVars
<1>2. \A q \in VProc : Within(vproc'[q])
  BY DEF ReadsWithin, Within, VIdle
<1>3. CachesWithin'
  BY <1>1 DEF ReadsWithin, CachesWithin, ReadWithin, clusterVars
<1> QED
  BY <1>1, <1>2, <1>3 DEF ReadsWithin, Within

(* The call of a request that writes is done, and what remains of it.        *)
LEMMA WritesOn ==
  ASSUME ReadsInv, ReadsWithin, NEW p \in VProc, vproc[p].pc = "write", vproc[p].todo # <<>>
  PROVE  LET todo == vproc[p].todo
             next == Tail(todo)
         IN  /\ Done1(p) = [pc |-> "write", todo |-> next, writes |-> vproc[p].writes]
             /\ Wrote(p) = [pc |-> "write", todo |-> next, writes |-> vproc[p].writes \cup {version + 1}]
             /\ \/ next \in Plain /\ Head(todo) # "invalidateSnapshot"
                \/ Head(todo) = "apply" /\ next = <<"invalidate", "invalidateSnapshot">>
                \/ Head(todo) = "invalidate" /\ next = <<"invalidateSnapshot">>
                \/ Head(todo) = "invalidateSnapshot" /\ next = <<>> /\ vproc[p].writes \subseteq settled
<1> DEFINE todo == vproc[p].todo
           next == Tail(todo)
           w == vproc[p].writes
           all == w \cup {version + 1}
           d == [pc |-> "write", todo |-> next, writes |-> w]
<1>1. vproc[p] = [pc |-> "write", todo |-> todo, writes |-> w]
  BY DEF ReadsInv, ReadShape
<1>2. \/ todo \in Plain \/ todo = DropsBoth \/ todo = <<"invalidate", "invalidateSnapshot">>
      \/ todo = <<"invalidateSnapshot">> /\ w \subseteq settled
  BY DEF ReadsWithin, Within, Orderly
<1>3. todo \in Plain => next \in Plain /\ Head(todo) # "invalidateSnapshot"
  <2>1. todo \in Plain => next \in Plain /\ Head(todo) \in {"apply", "read", "invalidate", "invalidateIfRetried"}
    BY HeadTailProperties DEF Plain
  <2> QED
    BY <2>1
<1>4. /\ Head(DropsBoth) = "apply" /\ Tail(DropsBoth) = <<"invalidate", "invalidateSnapshot">>
      /\ Head(<<"invalidate", "invalidateSnapshot">>) = "invalidate"
      /\ Tail(<<"invalidate", "invalidateSnapshot">>) = <<"invalidateSnapshot">>
      /\ Head(<<"invalidateSnapshot">>) = "invalidateSnapshot" /\ Tail(<<"invalidateSnapshot">>) = <<>>
  BY DEF DropsBoth
<1>5. Done1(p) = [vproc[p] EXCEPT !.todo = next]
  BY DEF Done1
<1> HIDE DEF todo, next, w
<1>6. Done1(p) = d
  BY <1>1, <1>5
<1>7. d.writes = w
  OBVIOUS
<1>8. Wrote(p) = [Done1(p) EXCEPT !.writes = Done1(p).writes \cup {version + 1}]
  BY DEF Wrote
<1>9. Wrote(p) = [d EXCEPT !.writes = all]
  BY <1>6, <1>7, <1>8
<1>10. [d EXCEPT !.writes = all] = [pc |-> "write", todo |-> next, writes |-> all]
  <2> HIDE DEF all
  <2> QED
    OBVIOUS
<1>11. \/ next \in Plain /\ Head(todo) # "invalidateSnapshot"
       \/ Head(todo) = "apply" /\ next = <<"invalidate", "invalidateSnapshot">>
       \/ Head(todo) = "invalidate" /\ next = <<"invalidateSnapshot">>
       \/ Head(todo) = "invalidateSnapshot" /\ next = <<>> /\ w \subseteq settled
  BY <1>2, <1>3, <1>4 DEF next
<1> QED
  BY <1>6, <1>9, <1>10, <1>11 DEF todo, next, w

(* One request moves, and nothing else does.                                 *)
LEMMA MovesAlone ==
  ASSUME ReadsInv, ReadsWithin, NEW p \in VProc, NEW next, VGo(p, next), Within(next),
         UNCHANGED <<clusterVars, readVars, snapshotVars>>
  PROVE  ReadsWithin'
<1>1. version' = version
  BY DEF clusterVars
<1>2. \A k \in Key : ReadWithin(flights'[k])
  BY DEF readVars, ReadsWithin, CachesWithin
<1> QED
  BY <1>1, <1>2, MovesWithin DEF readVars

LEMMA LooksUpWithin ==
  ASSUME ReadsInv, ReadsWithin, NEW p \in VProc, NEW k \in View, LookUp(p, k),
         UNCHANGED <<clusterVars, readVars, snapshotVars>>
  PROVE  ReadsWithin'
<1>1. CASE UNCHANGED vproc
  BY <1>1 DEF ReadsWithin, CachesWithin, ReadWithin, Within, clusterVars, readVars, snapshotVars
<1>2. CASE VGo(p, [pc |-> "do", key |-> k, outer |-> k])
  BY <1>2, MovesAlone DEF Within
<1> QED
  BY <1>1, <1>2 DEF LookUp

(* A request moves as it begins a flight, or as its flight has read.         *)
LEMMA FlightWithin ==
  ASSUME ReadsInv, ReadsWithin, NEW p \in VProc, NEW k \in Key, NEW new \in FlightRow,
         new.gen = NoView \/ new.gen \in 0 .. version, flights' = [flights EXCEPT ![k] = new],
         NEW next, VGo(p, next), Within(next),
         UNCHANGED <<clusterVars, views, topology, snapshotVars>>
  PROVE  ReadsWithin'
<1>1. flights'[k] = new /\ \A j \in Key \ {k} : flights'[j] = flights[j]
  BY DEF ReadsInv, ReadsShapes
<1>2. \A j \in Key : ReadWithin(flights'[j])
  BY <1>1 DEF ReadsWithin, CachesWithin, ReadWithin
<1> QED
  BY <1>2, MovesWithin

(* The values that are there can be carried on.                              *)
LEMMA ThereIsWithin ==
  ASSUME ReadsInv, ReadsWithin
  PROVE  /\ \A k \in View : views[k] # NoView => views[k].gen \in 0 .. version
         /\ hub # NoView => hub.gen \in 0 .. version
         /\ scrape # NoView => scrape.gen \in 0 .. version
  BY ReadsConstants DEF ReadsInv, ReadsShapes, ViewRow, ReadsWithin, CachesWithin, ReadWithin

LEMMA WithinStep == ASSUME ReadsInv, ReadsWithin, [VNext]_vVars PROVE ReadsWithin'
<1> USE ReadsConstants
<1>1. CASE UNCHANGED vVars
  BY <1>1
  DEF ReadsWithin, CachesWithin, ReadWithin, Within, vVars, clusterVars, readVars, snapshotVars
<1>2. ASSUME NEW p \in VProc, GetOrLoad(p) \/ DirectRead(p) \/ Raw(p) PROVE ReadsWithin'
  BY <1>1, <1>2, LooksUpWithin DEF GetOrLoad, DirectRead, Raw, vVars
<1>3. ASSUME NEW p \in VProc, FetchJSZ(p) PROVE ReadsWithin'
  <2>1. UNCHANGED <<clusterVars, readVars, snapshotVars>>
    BY <1>3 DEF FetchJSZ
  <2>2. CASE UNCHANGED vproc
    BY <1>1, <2>1, <2>2 DEF vVars
  <2>3. CASE \E k \in Jsz : VGo(p, [pc |-> "jszDo", key |-> k, outer |-> k])
    BY <2>1, <2>3, MovesAlone DEF Within
  <2> QED
    BY <1>3, <2>2, <2>3 DEF FetchJSZ, Jsz
<1>4. ASSUME NEW p \in VProc, WithExecutor(p) PROVE ReadsWithin'
  <2>1. PICK todo : Orderly(todo) /\ VGo(p, [pc |-> "write", todo |-> todo, writes |-> {}])
    BY <1>4, ProgramOrderly DEF WithExecutor, OrderlyTable
  <2>2. Within([pc |-> "write", todo |-> todo, writes |-> {}])
    BY <2>1 DEF Within
  <2> QED
    BY <1>4, <2>1, <2>2, MovesAlone DEF WithExecutor
<1>5. ASSUME NEW p \in VProc, NEW k \in Key, vproc[p].key = k, vproc[p].pc \in {"do", "jszDo"},
             VGo(p, [vproc[p] EXCEPT !.pc = "wait"]), UNCHANGED <<clusterVars, readVars, snapshotVars>>
      PROVE  ReadsWithin'
  <2>1. vproc[p] = [pc |-> vproc[p].pc, key |-> k, outer |-> vproc[p].outer]
    BY <1>5 DEF ReadsInv, ReadShape
  <2>2. [vproc[p] EXCEPT !.pc = "wait"] = [pc |-> "wait", key |-> k, outer |-> vproc[p].outer]
    BY <2>1
  <2>3. Within([vproc[p] EXCEPT !.pc = "wait"])
    BY <2>2 DEF Within
  <2> QED
    BY <1>5, <2>3, MovesAlone
<1>6. ASSUME NEW p \in VProc, NEW k \in Key, NEW next, Within(next), VGo(p, next),
             flights' = [flights EXCEPT ![k] = [lead |-> p, gen |-> NoView, crossed |-> FALSE]],
             UNCHANGED <<clusterVars, views, topology, snapshotVars>>
      PROVE  ReadsWithin'
  <2>1. [lead |-> p, gen |-> NoView, crossed |-> FALSE] \in FlightRow
    BY DEF FlightRow
  <2> QED
    BY <1>6, <2>1, FlightWithin
<1>7. ASSUME NEW p \in VProc, Do(p) PROVE ReadsWithin'
  <2> DEFINE k == vproc[p].key
  <2>1. /\ vproc[p].pc = "do" /\ k \in View /\ k \in Key
        /\ vproc[p] = [pc |-> "do", key |-> k, outer |-> vproc[p].outer]
        /\ UNCHANGED <<clusterVars, views, topology, snapshotVars>>
    BY <1>7 DEF Do, ReadsInv, ReadShape, Key
  <2>2. CASE VGo(p, [vproc[p] EXCEPT !.pc = "wait"]) /\ UNCHANGED flights
    BY <1>5, <2>1, <2>2 DEF readVars
  <2>3. CASE views[k] # NoView /\ Land(p, k, views[k].gen)
    <3>1. views[k].gen \in 0 .. version /\ \A j \in View : ReadWithin(views'[j])
      BY <2>1, <2>3, ThereIsWithin DEF ReadsWithin, CachesWithin
    <3> QED
      BY <2>1, <2>3, <3>1, LandsWithin
  <2>4. CASE /\ flights' = [flights EXCEPT ![k] = [lead |-> p, gen |-> NoView, crossed |-> FALSE]]
             /\ VGo(p, [vproc[p] EXCEPT !.pc = "load"])
    <3>1. [vproc[p] EXCEPT !.pc = "load"] = [pc |-> "load", key |-> k, outer |-> vproc[p].outer]
      BY <2>1
    <3>2. Within([vproc[p] EXCEPT !.pc = "load"])
      BY <3>1 DEF Within
    <3> QED
      BY <1>6, <2>1, <2>4, <3>2
  <2> QED
    BY <1>7, <2>2, <2>3, <2>4 DEF Do
<1>8. ASSUME NEW p \in VProc, Load(p) PROVE ReadsWithin'
  <2> DEFINE k == vproc[p].key
  <2>1. /\ vproc[p].pc = "load" /\ k \in Key /\ Leads(p, k)
        /\ vproc[p] = [pc |-> "load", key |-> k, outer |-> vproc[p].outer]
        /\ UNCHANGED <<clusterVars, views, topology, snapshotVars>>
    BY <1>8 DEF Load, ReadsInv, ReadShape, Key, LoadLeads
  <2>2. CASE flights' = [flights EXCEPT ![k].gen = version] /\ VGo(p, [vproc[p] EXCEPT !.pc = "store"])
    <3> DEFINE new == [flights[k] EXCEPT !.gen = version]
    <3>1. flights[k] \in FlightRow /\ version \in Nat /\ version \in 0 .. version
      BY <2>1, VersionIs DEF Leads, ReadsInv, ReadsShapes
    <3>2. new \in FlightRow /\ new.gen = version
      BY <3>1 DEF FlightRow
    <3>3. flights' = [flights EXCEPT ![k] = new]
      BY <2>2
    <3> HIDE DEF new
    <3>4. [vproc[p] EXCEPT !.pc = "store"] = [pc |-> "store", key |-> k, outer |-> vproc[p].outer]
      BY <2>1
    <3>5. Within([vproc[p] EXCEPT !.pc = "store"])
      BY <3>4 DEF Within
    <3> QED
      BY <2>1, <2>2, <3>1, <3>2, <3>3, <3>5, FlightWithin
  <2>3. CASE Abort(p, k)
    <3>1. /\ \A q \in VProc : vproc'[q] \in {vproc[q], VIdle}
          /\ \A j \in Key : flights'[j] \in {flights[j], NoView}
      BY <2>3 DEF Abort
    <3>2. ReadWithin(scrape')
      BY <2>1 DEF ReadsWithin, CachesWithin, snapshotVars
    <3> QED
      BY <2>1, <3>1, <3>2, DropsWithin DEF snapshotVars
  <2> QED
    BY <1>8, <2>2, <2>3 DEF Load
<1>9. ASSUME NEW p \in VProc, StoreView(p) PROVE ReadsWithin'
  <2> DEFINE k == vproc[p].key
             new == [gen |-> flights[k].gen, crossed |-> flights[k].crossed]
  <2>1. /\ vproc[p].pc = "store" /\ k \in View /\ k \in Key /\ Leads(p, k) /\ flights[k].gen # NoView
        /\ UNCHANGED <<clusterVars, topology, snapshotVars>>
    BY <1>9 DEF StoreView, ReadsInv, ReadShape, Key, LoadLeads
  <2>2. views' = [views EXCEPT ![k] = new] /\ Land(p, k, flights[k].gen)
    BY <1>9 DEF StoreView
  <2>3. flights[k].gen \in 0 .. version
    BY <2>1 DEF Leads, ReadsWithin, CachesWithin, ReadWithin
  <2>4. new.gen \in 0 .. version
    BY <2>3
  <2> HIDE DEF new
  <2>5. \A j \in View : ReadWithin(views'[j])
    BY <2>1, <2>2, <2>4 DEF ReadsInv, ReadsShapes, ReadsWithin, CachesWithin, ReadWithin
  <2> QED
    BY <2>1, <2>2, <2>3, <2>5, LandsWithin
<1>10. ASSUME NEW p \in VProc, JszDo(p) PROVE ReadsWithin'
  <2> DEFINE k == vproc[p].key
             lead == flights' = [flights EXCEPT ![k] = [lead |-> p, gen |-> NoView, crossed |-> FALSE]]
  <2>1. /\ vproc[p].pc = "jszDo" /\ k \in Key
        /\ UNCHANGED <<clusterVars, views, topology, snapshotVars>>
    BY <1>10 DEF JszDo, ReadsInv, ReadShape
  <2>2. CASE VGo(p, [vproc[p] EXCEPT !.pc = "wait"]) /\ UNCHANGED flights
    BY <1>5, <2>1, <2>2 DEF readVars
  <2>3. CASE topology # NoView /\ Land(p, k, topology)
    <3>1. topology \in 0 .. version /\ \A j \in View : ReadWithin(views'[j])
      BY <2>1, <2>3 DEF ReadsWithin, CachesWithin
    <3> QED
      BY <2>1, <2>3, <3>1, LandsWithin
  <2>4. ASSUME NEW g \in 0 .. version, lead, VGo(p, [pc |-> "fetched", outer |-> k, gen |-> g])
        PROVE  ReadsWithin'
    <3>1. Within([pc |-> "fetched", outer |-> k, gen |-> g])
      BY DEF Within
    <3> QED
      BY <1>6, <2>1, <2>4, <3>1
  <2>5. CASE lead /\ VGo(p, [pc |-> "do", key |-> "monitoring", outer |-> k])
    <3>1. Within([pc |-> "do", key |-> "monitoring", outer |-> k])
      BY DEF Within
    <3> QED
      BY <1>6, <2>1, <2>5, <3>1
  <2>6. /\ views["monitoring"] # NoView => views["monitoring"].gen \in 0 .. version
        /\ MonitoringPayload # NoView => MonitoringPayload.gen \in 0 .. version
    BY ThereIsWithin DEF MonitoringPayload
  <2> QED
    BY <1>10, <2>2, <2>3, <2>4, <2>5, <2>6 DEF JszDo
<1>11. ASSUME NEW p \in VProc, StoreTopology(p) PROVE ReadsWithin'
  <2>1. /\ vproc[p].pc = "fetched" /\ topology' = vproc[p].gen
        /\ \A q \in VProc : vproc'[q] \in {vproc[q], VIdle}
        /\ UNCHANGED <<clusterVars, views, snapshotVars>>
    BY <1>11 DEF StoreTopology
  <2>2. \A j \in Key : flights'[j] \in {flights[j], NoView}
    BY <1>11 DEF StoreTopology, ReadsInv, ReadsShapes
  <2>3. ReadWithin(scrape') /\ topology' \in 0 .. version
    BY <2>1 DEF ReadsWithin, CachesWithin, Within, snapshotVars
  <2> QED
    BY <2>1, <2>2, <2>3, DropsWithin DEF snapshotVars
<1>12. ASSUME \/ \E k \in View : ViewExpires(k)
              \/ TopologyExpires \/ CollectClusterSnapshot \/ Publish \/ ScrapeFails
       PROVE  ReadsWithin'
  <2>1. ReadWithin(scrape) /\ ReadWithin(NoView) /\ ReadWithin(Loaded(version))
    BY VersionIs DEF ReadsWithin, CachesWithin, ReadWithin, Loaded
  <2>2. /\ UNCHANGED <<clusterVars, flights, vproc>>
        /\ hub' \in {hub, scrape, NoView} /\ scrape' \in {scrape, NoView, Loaded(version)}
        /\ topology' \in {topology, NoView}
    BY <1>12
    DEF ViewExpires, TopologyExpires, CollectClusterSnapshot, Publish, ScrapeFails, readVars,
        snapshotVars
  <2>3. \A k \in View : views'[k] \in {views[k], NoView}
    BY <1>12
    DEF ReadsInv, ReadsShapes, ViewExpires, TopologyExpires, CollectClusterSnapshot, Publish,
        ScrapeFails, readVars
  <2>4. ReadWithin(scrape')
    BY <2>1, <2>2
  <2> QED
    BY <2>2, <2>3, <2>4, DropsWithin
<1>13. Within(VIdle)
  BY DEF Within, VIdle
<1>14. ASSUME NEW todo, NEW writes, todo \in Plain
       PROVE  Within([pc |-> "write", todo |-> todo, writes |-> writes])
  BY <1>14 DEF Within, Orderly
<1>15. ASSUME NEW p \in VProc, Apply(p) PROVE ReadsWithin'
  <2>1. /\ vproc[p].pc = "write" /\ vproc[p].todo # <<>> /\ Head(vproc[p].todo) = "apply"
        /\ UNCHANGED <<settled, dropped, readVars, snapshotVars>>
    BY <1>15 DEF Apply, At
  <2>2. CASE UNCHANGED version /\ VGo(p, VIdle)
    BY <1>13, <2>1, <2>2, MovesAlone DEF clusterVars
  <2>3. CASE version < MaxWrites /\ version' = version + 1 /\ (VGo(p, Wrote(p)) \/ VGo(p, VIdle))
    <3> DEFINE next == Tail(vproc[p].todo)
               w == vproc[p].writes \cup {version + 1}
    <3>1. /\ Wrote(p) = [pc |-> "write", todo |-> next, writes |-> w]
          /\ next \in Plain \/ next = <<"invalidate", "invalidateSnapshot">>
      BY <2>1, WritesOn
    <3> HIDE DEF next, w
    <3>2. Within(Wrote(p))
      BY <3>1 DEF Within, Orderly
    <3>3. /\ vproc'[p] \in {Wrote(p), VIdle} /\ \A q \in VProc \ {p} : vproc'[q] = vproc[q]
      BY <2>3 DEF VGo, ReadsInv, ReadsShapes
    <3>4. version \in Nat /\ 0 .. version \subseteq 0 .. version' /\ version' \in 0 .. MaxWrites
      BY <2>3 DEF ReadsInv, ReadsShapes
    <3>5. \A q : Within(q) => Within(q)'
      BY <2>1, <3>4 DEF Within
    <3>6. \A row : ReadWithin(row) => ReadWithin(row)'
      BY <3>4 DEF ReadWithin
    <3> QED
      BY <1>13, <2>1, <3>2, <3>3, <3>4, <3>5, <3>6
      DEF ReadsWithin, CachesWithin, Within, ReadWithin, readVars, snapshotVars
  <2> QED
    BY <1>15, <2>2, <2>3 DEF Apply, Fail
<1>16. ASSUME NEW p \in VProc, ReadBetween(p) \/ Answer(p) PROVE ReadsWithin'
  <2>1. UNCHANGED <<clusterVars, readVars, snapshotVars>>
    BY <1>16 DEF ReadBetween, Answer
  <2>2. CASE VGo(p, VIdle)
    BY <1>13, <2>1, <2>2, MovesAlone
  <2>3. CASE At(p, "read") /\ VGo(p, Done1(p))
    <3>1. vproc[p].pc = "write" /\ vproc[p].todo # <<>> /\ Head(vproc[p].todo) = "read"
      BY <2>3 DEF At
    <3>2. /\ Done1(p) = [pc |-> "write", todo |-> Tail(vproc[p].todo), writes |-> vproc[p].writes]
          /\ Tail(vproc[p].todo) \in Plain
      BY <3>1, WritesOn
    <3>3. Within(Done1(p))
      BY <1>14, <3>2
    <3> QED
      BY <2>1, <2>3, <3>3, MovesAlone
  <2> QED
    BY <1>16, <2>2, <2>3 DEF ReadBetween, Answer, Fail
<1>17. ASSUME NEW p \in VProc, InvalidateViews(p) PROVE ReadsWithin'
  <2>1. /\ vproc[p].pc = "write" /\ vproc[p].todo # <<>> /\ VGo(p, Done1(p))
        /\ Head(vproc[p].todo) \in {"invalidate", "invalidateIfRetried"}
    BY <1>17 DEF InvalidateViews, At
  <2> DEFINE next == Tail(vproc[p].todo)
             w == vproc[p].writes
  <2>2. /\ Done1(p) = [pc |-> "write", todo |-> next, writes |-> w]
        /\ \/ next \in Plain
           \/ Head(vproc[p].todo) = "invalidate" /\ next = <<"invalidateSnapshot">>
    BY <2>1, WritesOn
  <2> HIDE DEF next, w
  <2>3. CASE At(p, "invalidateIfRetried") /\ UNCHANGED <<clusterVars, readVars, snapshotVars>>
    <3>1. next \in Plain
      BY <2>2, <2>3 DEF At
    <3> QED
      BY <1>14, <2>1, <2>2, <2>3, <3>1, MovesAlone
  <2>4. CASE /\ views' = [k \in View |-> Invalidated(k)]
             /\ flights' = [k \in Key |-> IF flights[k] # NoView /\ flights[k].gen # NoView
                                          THEN [flights[k] EXCEPT !.crossed = TRUE] ELSE flights[k]]
             /\ settled' = settled \cup vproc[p].writes
             /\ UNCHANGED <<version, dropped, topology, snapshotVars>>
    <3>1. \A f \in FlightRow : [f EXCEPT !.crossed = TRUE].gen = f.gen
      BY DEF FlightRow
    <3>2. \A k \in Key : flights[k] # NoView => flights[k] \in FlightRow
      BY DEF ReadsInv, ReadsShapes
    <3>3. \A k \in Key : \/ flights'[k] = flights[k]
                         \/ flights[k] # NoView /\ flights'[k].gen = flights[k].gen
      BY <2>4, <3>1, <3>2
    <3>4. \A k \in Key : ReadWithin(flights'[k])
      BY <3>3 DEF ReadsWithin, CachesWithin, ReadWithin
    <3>5. CachesWithin'
      BY <2>4, <3>4 DEF ReadsWithin, CachesWithin, ReadWithin, Invalidated, snapshotVars
    <3>6. vproc'[p] = Done1(p) /\ \A q \in VProc \ {p} : vproc'[q] = vproc[q]
      BY <2>1 DEF VGo, ReadsInv, ReadsShapes
    <3>7. \A q : Within(q) => Within(q)'
      BY <2>4 DEF Within
    <3>8. w \subseteq settled'
      BY <2>4 DEF w
    <3>9. \A todo, writes :
            (todo \in Plain \/ (todo = <<"invalidateSnapshot">> /\ writes \subseteq settled'))
            => Within([pc |-> "write", todo |-> todo, writes |-> writes])'
      BY DEF Within, Orderly
    <3>10. \A q \in VProc \ {p} : Within(vproc[q])
      BY DEF ReadsWithin
    <3>11. vproc'[p] = [pc |-> "write", todo |-> next, writes |-> w]
      BY <2>2, <3>6
    <3>12. \A q : q = vproc'[p] => Within(q)'
      BY <2>2, <3>8, <3>9, <3>11
    <3>13. \A q : q \in {vproc'[r] : r \in VProc} => Within(q)'
      BY <3>6, <3>7, <3>10, <3>12
    <3> QED
      BY <3>5, <3>13 DEF ReadsWithin
  <2> QED
    BY <1>17, <2>3, <2>4 DEF InvalidateViews
<1>18. ASSUME NEW p \in VProc, InvalidateSnapshot(p) PROVE ReadsWithin'
  <2>1. /\ vproc[p].pc = "write" /\ vproc[p].todo # <<>> /\ VGo(p, Done1(p))
        /\ Head(vproc[p].todo) = "invalidateSnapshot" /\ hub' = NoView
        /\ scrape' = IF scrape = NoView THEN NoView ELSE [scrape EXCEPT !.crossed = TRUE]
        /\ dropped' = dropped \cup vproc[p].writes
        /\ UNCHANGED <<version, settled, readVars>>
    BY <1>18 DEF InvalidateSnapshot, At
  <2>2. Done1(p) = [pc |-> "write", todo |-> Tail(vproc[p].todo), writes |-> vproc[p].writes]
    BY <2>1, WritesOn
  <2>3. vproc[p].writes \subseteq settled /\ Tail(vproc[p].todo) = <<>>
    BY <2>1, WritesOn
  <2>4. <<>> \in Plain
    BY DEF Plain
  <2>5. Within(Done1(p))
    BY <1>14, <2>2, <2>3, <2>4
  <2>6. scrape # NoView => scrape'.gen = scrape.gen
    BY <2>1 DEF ReadsInv, ReadsShapes, ViewRow
  <2>7. ReadWithin(scrape')
    BY <2>1, <2>6 DEF ReadsWithin, CachesWithin, ReadWithin
  <2>8. CachesWithin'
    BY <2>1, <2>3, <2>7 DEF ReadsWithin, CachesWithin, ReadWithin, readVars
  <2>9. vproc'[p] = Done1(p) /\ \A q \in VProc \ {p} : vproc'[q] = vproc[q]
    BY <2>1 DEF VGo, ReadsInv, ReadsShapes
  <2> QED
    BY <2>1, <2>5, <2>8, <2>9 DEF ReadsWithin, Within
<1> QED
  BY <1>1, <1>2, <1>3, <1>4, <1>7, <1>8, <1>9, <1>10, <1>11, <1>12, <1>15, <1>16, <1>17, <1>18
  DEF VNext, VStep

LEMMA WithinStart == VInit => ReadsWithin
<1>1. VInit => /\ version = 0 /\ dropped = {} /\ settled = {} /\ hub = NoView /\ scrape = NoView
               /\ topology = NoView /\ (\A k \in View : views[k] = NoView)
               /\ (\A k \in Key : flights[k] = NoView) /\ (\A p \in VProc : vproc[p].pc = "idle")
  BY DEF VInit, VIdle
<1> QED
  BY <1>1, ReadsConstants DEF ReadsWithin, CachesWithin, ReadWithin, Within

(* For any number of views, requests and writes: what a cache, the snapshot  *)
(* or the topology shows was once the state of the cluster, the snapshot is  *)
(* dropped for no write the views still hide, and a cached view, or the      *)
(* snapshot, that misses a write whose request dropped it was read before    *)
(* the drop and stored after it (GetOrLoad, InvalidateCluster,               *)
(* Hub.Invalidate).                                                          *)
THEOREM ReadsSafe == VSpec => [](VTypeOK /\ StaleViewExplained)
<1>1. ReadsInv => StaleViewExplained
  BY DEF ReadsInv, CachesExplained, Explained, StaleViewExplained
<1>2. ASSUME ReadsInv, ReadsWithin PROVE VTypeOK
  <2>1. /\ version \in Nat /\ version \in 0 .. MaxWrites
        /\ settled \subseteq 1 .. version /\ dropped \subseteq settled
        /\ views \in [View -> {NoView} \cup ViewRow] /\ flights \in [Key -> {NoView} \cup FlightRow]
        /\ {hub, scrape} \subseteq {NoView} \cup ViewRow
    BY <1>2 DEF ReadsInv, ReadsShapes, ReadsWithin, CachesWithin
  <2>2. topology # NoView => topology \in 0 .. version
    BY <1>2 DEF ReadsWithin, CachesWithin
  <2> QED
    BY <1>2, <2>1, <2>2, ThereIsWithin DEF VTypeOK
<1> QED
  BY <1>1, <1>2, ReadsStart, ReadsStep, WithinStart, WithinStep, PTL DEF VSpec

(* The flights.  A request that reads works for the flight of its key once   *)
(* it loads, and for a topology flight from the lookup of the view on.       *)
Works(q, k) ==
  \/ q.pc \in {"load", "store"} /\ q.key = k
  \/ q.pc = "fetched" /\ q.outer = k
  \/ q.pc \in {"do", "wait", "load", "store"} /\ q.key \in View /\ q.outer = k /\ k \in Jsz

ForTopology(q) ==
  \/ q.pc = "fetched"
  \/ q.pc \in {"do", "wait", "load", "store"} /\ q.key \in View /\ q.outer \in Jsz

(* The leader of a flight works for it, a request waits for a flight that is *)
(* there, and one that works for a topology flight leads that one.           *)
Attended(q) ==
  /\ q.pc = "wait" => flights[q.key] # NoView
  /\ q.pc = "jszDo" => q.outer = q.key
LedOK(p) ==
  /\ Attended(vproc[p])
  /\ ForTopology(vproc[p]) => Leads(p, vproc[p].outer)
FlightsLed ==
  /\ \A k \in Key : flights[k] # NoView => Works(vproc[flights[k].lead], k)
  /\ \A p \in VProc : LedOK(p)

(* The flights keep their leaders.                                           *)
SameLeaders ==
  \A k \in Key : /\ flights'[k] = NoView <=> flights[k] = NoView
                 /\ flights[k] # NoView => flights'[k].lead = flights[k].lead

(* Views and topology are different keys.                                    *)
LEMMA KeysApart == View \cap Jsz = {} /\ View \subseteq Key /\ Jsz \subseteq Key
  BY ReadsConstants DEF Jsz, Key

(* Every flight that is there has a leader.                                  *)
LEMMA LeaderIs == ASSUME ReadsInv, NEW k \in Key, flights[k] # NoView
                  PROVE  flights[k].lead \in VProc /\ Leads(flights[k].lead, k)
  BY DEF ReadsInv, ReadsShapes, FlightRow, Leads

LEMMA LeaderWorks ==
  ASSUME ReadsInv, FlightsLed, NEW k \in Key, flights[k] # NoView
  PROVE  \E q \in VProc : Leads(q, k) /\ Works(vproc[q], k)
<1>1. flights[k].lead \in VProc /\ Leads(flights[k].lead, k)
  BY LeaderIs
<1> QED
  BY <1>1 DEF FlightsLed

(* One request moves and goes on working for whatever it leads, under        *)
(* flights that keep their leaders.                                          *)
LEMMA LedMoves ==
  ASSUME ReadsInv, FlightsLed, NEW p \in VProc, NEW next, VGo(p, next), SameLeaders,
         \A k \in Key : Works(vproc[p], k) => Works(next, k),
         next.pc = "wait" => next.key \in Key /\ flights[next.key] # NoView,
         next.pc = "jszDo" => next.outer = next.key,
         ForTopology(next) => next.outer \in Key /\ Leads(p, next.outer)
  PROVE  FlightsLed'
<1>1. vproc'[p] = next /\ \A q \in VProc \ {p} : vproc'[q] = vproc[q]
  BY DEF ReadsInv, ReadsShapes, VGo
<1>2. ASSUME NEW k \in Key, flights'[k] # NoView PROVE Works(vproc'[flights'[k].lead], k)
  <2>1. /\ flights[k] # NoView /\ flights'[k].lead = flights[k].lead /\ flights[k].lead \in VProc
        /\ Works(vproc[flights[k].lead], k)
    BY <1>2, LeaderIs DEF FlightsLed, SameLeaders
  <2> QED
    BY <1>1, <2>1
<1>3. ASSUME NEW q \in VProc PROVE LedOK(q)'
  <2>1. /\ vproc'[q].pc = "wait" => vproc'[q].key \in Key /\ flights[vproc'[q].key] # NoView
        /\ vproc'[q].pc = "jszDo" => vproc'[q].outer = vproc'[q].key
    <3>1. CASE q = p
      BY <1>1, <3>1
    <3>2. CASE q # p
      BY <1>1, <3>2 DEF FlightsLed, LedOK, Attended, ReadsInv, ReadShape
    <3> QED
      BY <3>1, <3>2
  <2>2. ForTopology(vproc'[q]) => vproc'[q].outer \in Key /\ Leads(q, vproc'[q].outer)
    BY <1>1, KeysApart DEF FlightsLed, LedOK, ForTopology, ReadsInv, ReadShape
  <2> QED
    BY <2>1, <2>2 DEF LedOK, Attended, Leads, ForTopology, SameLeaders
<1> QED
  BY <1>2, <1>3 DEF FlightsLed, Works

(* One request moves and nothing else does.                                  *)
LEMMA LedMovesAlone ==
  ASSUME ReadsInv, FlightsLed, NEW p \in VProc, NEW next, VGo(p, next), UNCHANGED flights,
         \A k \in Key : Works(vproc[p], k) => Works(next, k),
         next.pc = "wait" => next.key \in Key /\ flights[next.key] # NoView,
         next.pc = "jszDo" => next.outer = next.key,
         ForTopology(next) => next.outer \in Key /\ Leads(p, next.outer)
  PROVE  FlightsLed'
<1>1. SameLeaders
  BY DEF SameLeaders
<1> QED
  BY <1>1, LedMoves

(* A request that works for no flight yet, or no longer reads.               *)
LEMMA WorksForNone ==
  ASSUME NEW q, q.pc \in {"idle", "jszDo", "write"}
  PROVE  ~ForTopology(q) /\ \A k : ~Works(q, k)
  BY DEF ForTopology, Works

(* A request comes to lead a flight that nobody led.                         *)
LEMMA LedBegins ==
  ASSUME ReadsInv, FlightsLed, NEW p \in VProc, NEW next, VGo(p, next), NEW k \in Key,
         flights[k] = NoView,
         flights' = [flights EXCEPT ![k] = [lead |-> p, gen |-> NoView, crossed |-> FALSE]],
         Works(next, k),
         \A j \in Key : Works(vproc[p], j) => Works(next, j),
         next.pc \in {"load", "do", "fetched"},
         ForTopology(next) => next.outer \in Key /\ (next.outer = k \/ Leads(p, next.outer))
  PROVE  FlightsLed'
<1> DEFINE new == [lead |-> p, gen |-> NoView, crossed |-> FALSE]
<1>1. vproc'[p] = next /\ \A q \in VProc \ {p} : vproc'[q] = vproc[q]
  BY DEF ReadsInv, ReadsShapes, VGo
<1>2. new # NoView /\ new.lead = p
  <2>1. new \in FlightRow
    BY DEF FlightRow
  <2> QED
    BY <2>1, ReadsConstants
<1>3. flights'[k] = new /\ \A j \in Key \ {k} : flights'[j] = flights[j]
  BY DEF ReadsInv, ReadsShapes
<1> HIDE DEF new
<1>4. ASSUME NEW j \in Key, flights'[j] # NoView PROVE Works(vproc'[flights'[j].lead], j)
  <2>1. CASE j = k
    BY <1>1, <1>2, <1>3, <2>1
  <2>2. CASE j # k
    <3>1. /\ flights[j] # NoView /\ flights'[j] = flights[j] /\ flights[j].lead \in VProc
          /\ Works(vproc[flights[j].lead], j)
      BY <1>3, <1>4, <2>2, LeaderIs DEF FlightsLed
    <3> QED
      BY <1>1, <3>1
  <2> QED
    BY <2>1, <2>2
<1>5. ASSUME NEW q \in VProc PROVE LedOK(q)'
  <2>1. CASE q = p
    <3>1. ForTopology(next) => flights'[next.outer] # NoView /\ flights'[next.outer].lead = p
      BY <1>2, <1>3 DEF Leads
    <3> QED
      BY <1>1, <2>1, <3>1 DEF LedOK, Attended, Leads, ForTopology
  <2>2. CASE q # p
    <3>1. vproc'[q].pc = "wait" => vproc'[q].key \in Key /\ flights[vproc'[q].key] # NoView
      BY <1>1, <2>2 DEF FlightsLed, LedOK, Attended, ReadsInv, ReadShape
    <3>2. ForTopology(vproc'[q]) => vproc'[q].outer \in Key /\ Leads(q, vproc'[q].outer)
      BY <1>1, <2>2, KeysApart DEF FlightsLed, LedOK, ForTopology, ReadsInv, ReadShape
    <3>3. vproc'[q].pc = "jszDo" => vproc'[q].outer = vproc'[q].key
      BY <1>1, <2>2 DEF FlightsLed, LedOK, Attended
    <3> QED
      BY <1>3, <3>1, <3>2, <3>3 DEF LedOK, Attended, Leads, ForTopology
  <2> QED
    BY <2>1, <2>2
<1> QED
  BY <1>4, <1>5 DEF FlightsLed, Works

(* A request that finds its answer before it leads a flight: nobody waits.   *)
LEMMA LandsAlone ==
  ASSUME ReadsInv, FlightsLed, NEW p \in VProc, NEW k \in Key, NEW gen, Land(p, k, gen),
         flights[k] = NoView
  PROVE  /\ UNCHANGED flights
         /\ VGo(p, IF vproc[p].outer # k THEN [pc |-> "fetched", outer |-> vproc[p].outer, gen |-> gen]
                   ELSE VIdle)
<1>1. Waiting(k) = {}
  BY DEF FlightsLed, LedOK, Attended, Waiting
<1>2. UNCHANGED flights
  BY DEF Land, ReadsInv, ReadsShapes
<1>3. vproc' = [q \in VProc |->
        IF q = p
        THEN IF vproc[p].outer # k THEN [pc |-> "fetched", outer |-> vproc[p].outer, gen |-> gen] ELSE VIdle
        ELSE vproc[q]]
  BY <1>1 DEF Land
<1> QED
  BY <1>2, <1>3 DEF VGo, ReadsInv, ReadsShapes

(* The flight of a view lands with its leader.                               *)
LEMMA LedLands ==
  ASSUME ReadsInv, FlightsLed, NEW p \in VProc, NEW k \in View, NEW gen, Land(p, k, gen),
         vproc[p].pc = "store", vproc[p].key = k
  PROVE  FlightsLed'
<1> DEFINE Answered == Waiting(k) \cup {p}
           fetched(o) == [pc |-> "fetched", outer |-> o, gen |-> gen]
<1>1. flights'[k] = NoView /\ \A j \in Key \ {k} : flights'[j] = flights[j]
  BY KeysApart DEF Land, ReadsInv, ReadsShapes
<1>2. \A q \in VProc : vproc'[q] = IF q \in Answered
                                   THEN IF vproc[q].outer # k THEN fetched(vproc[q].outer) ELSE VIdle
                                   ELSE vproc[q]
  BY DEF Land
<1>3. \A q \in Answered : q \in VProc /\ vproc[q].key = k /\ vproc[q].pc \in {"wait", "store"}
  BY DEF Waiting
<1>4. /\ \A o : fetched(o).pc = "fetched" /\ fetched(o).outer = o
      /\ VIdle.pc = "idle"
  BY DEF VIdle
<1> HIDE DEF Answered, fetched
<1>5. ASSUME NEW j \in Key, flights'[j] # NoView PROVE Works(vproc'[flights'[j].lead], j)
  <2>1. /\ j # k /\ flights'[j] = flights[j] /\ flights[j].lead \in VProc
        /\ Works(vproc[flights[j].lead], j)
    BY <1>1, <1>5, LeaderIs DEF FlightsLed
  <2> DEFINE r == flights[j].lead
  <2>2. CASE r \in Answered
    <3>1. vproc[r].outer = j /\ j \in Jsz
      BY <1>3, <2>1, <2>2 DEF Works
    <3>2. vproc'[r] = fetched(j)
      BY <1>2, <2>1, <2>2, <3>1
    <3> QED
      BY <1>4, <2>1, <3>2 DEF Works
  <2>3. CASE r \notin Answered
    BY <1>2, <2>1, <2>3
  <2> QED
    BY <2>2, <2>3
<1>6. ASSUME NEW q \in VProc PROVE LedOK(q)'
  <2>1. CASE q \in Answered /\ vproc[q].outer = k
    BY <1>2, <1>4, <2>1 DEF LedOK, Attended, ForTopology
  <2>2. CASE q \in Answered /\ vproc[q].outer # k
    <3> DEFINE o == vproc[q].outer
    <3>1. o \in Jsz /\ Leads(q, o)
      BY <1>3, <2>2 DEF FlightsLed, LedOK, ForTopology, ReadsInv, ReadShape
    <3>2. flights'[o] = flights[o]
      BY <1>1, <2>2, <3>1, KeysApart
    <3>3. vproc'[q].pc = "fetched" /\ vproc'[q].outer = o
      BY <1>2, <1>4, <2>2
    <3> QED
      BY <3>1, <3>2, <3>3 DEF LedOK, Attended, Leads
  <2>3. CASE q \notin Answered
    <3>1. vproc'[q] = vproc[q]
      BY <1>2, <2>3
    <3>2. vproc[q].pc = "wait" => vproc[q].key \in Key \ {k} /\ flights[vproc[q].key] # NoView
      BY <2>3 DEF Answered, Waiting, FlightsLed, LedOK, Attended, ReadsInv, ReadShape
    <3>3. ForTopology(vproc[q]) => vproc[q].outer \in Key \ {k} /\ Leads(q, vproc[q].outer)
      BY KeysApart DEF FlightsLed, LedOK, ForTopology, ReadsInv, ReadShape
    <3>4. vproc[q].pc = "jszDo" => vproc[q].outer = vproc[q].key
      BY DEF FlightsLed, LedOK, Attended
    <3> QED
      BY <1>1, <3>1, <3>2, <3>3, <3>4 DEF LedOK, Attended, Leads, ForTopology
  <2> QED
    BY <2>1, <2>2, <2>3
<1> QED
  BY <1>5, <1>6 DEF FlightsLed, Works

(* A load fails: whoever waits for it, and whoever waits for a topology      *)
(* flight one of those leads, is answered.                                   *)
LEMMA LedAborts ==
  ASSUME ReadsInv, FlightsLed, NEW p \in VProc, NEW k \in View, Abort(p, k),
         vproc[p].pc = "load", vproc[p].key = k
  PROVE  FlightsLed'
<1> DEFINE Failed == Waiting(k) \cup {p}
           Behind(q) == \E o \in Failed : q \in Waiting(vproc[o].outer)
<1>1. \A j \in Key : flights'[j] = IF flights[j] # NoView /\ flights[j].lead \in Failed
                                    THEN NoView ELSE flights[j]
  BY DEF Abort
<1>2. \A q \in VProc : vproc'[q] = IF q \in Failed \/ Behind(q) THEN VIdle ELSE vproc[q]
  BY DEF Abort
<1>3. \A q \in Failed :
        /\ q \in VProc /\ vproc[q].key = k /\ vproc[q].pc \in {"wait", "load"}
        /\ vproc[q].outer = k \/ vproc[q].outer \in Jsz
  BY DEF Waiting, ReadsInv, ReadShape
<1>4. ASSUME NEW j \in Key, flights'[j] # NoView PROVE Works(vproc'[flights'[j].lead], j)
  <2> DEFINE r == flights[j].lead
  <2>1. /\ flights'[j] = flights[j] /\ flights[j] # NoView /\ r \in VProc /\ r \notin Failed
        /\ Works(vproc[r], j)
    BY <1>1, <1>4, LeaderIs DEF FlightsLed
  <2>2. ~Behind(r)
    <3> SUFFICES ASSUME NEW o \in Failed, r \in Waiting(vproc[o].outer) PROVE FALSE
      OBVIOUS
    <3>1. vproc[r].pc = "wait" /\ vproc[r].key = vproc[o].outer /\ vproc[r].key \in View
      BY <2>1 DEF Waiting, Works
    <3>2. vproc[r].key = k
      BY <1>3, <3>1, KeysApart
    <3>3. r \in Failed
      BY <2>1, <3>1, <3>2 DEF Waiting
    <3> QED
      BY <2>1, <3>3
  <2> QED
    BY <1>2, <2>1, <2>2
<1>5. ASSUME NEW q \in VProc PROVE LedOK(q)'
  <2>1. CASE q \in Failed \/ Behind(q)
    <3>1. vproc'[q] = VIdle
      BY <1>2, <2>1
    <3> QED
      BY <3>1 DEF LedOK, Attended, ForTopology, VIdle
  <2>2. CASE q \notin Failed /\ ~Behind(q)
    <3>1. vproc'[q] = vproc[q]
      BY <1>2, <2>2
    <3>2. ASSUME vproc[q].pc = "wait" PROVE flights'[vproc[q].key] # NoView
      <4> DEFINE j == vproc[q].key
                 r == flights[j].lead
      <4>1. j \in Key /\ flights[j] # NoView
        BY <3>2 DEF FlightsLed, LedOK, Attended, ReadsInv, ReadShape
      <4>2. r \in VProc /\ Works(vproc[r], j)
        BY <4>1, LeaderIs DEF FlightsLed
      <4>3. r \notin Failed
        <5> SUFFICES ASSUME r \in Failed PROVE FALSE
          OBVIOUS
        <5>1. j = k \/ j = vproc[r].outer
          BY <1>3, <4>2 DEF Works
        <5>2. q \in Failed \/ Behind(q)
          BY <3>2, <5>1 DEF Waiting
        <5> QED
          BY <2>2, <5>2
      <4> QED
        BY <1>1, <4>1, <4>3
    <3>3. ASSUME ForTopology(vproc[q])
          PROVE  flights'[vproc[q].outer] # NoView /\ flights'[vproc[q].outer].lead = q
      <4>1. vproc[q].outer \in Key /\ Leads(q, vproc[q].outer)
        BY <3>3, KeysApart DEF FlightsLed, LedOK, ForTopology, ReadsInv, ReadShape
      <4> QED
        BY <1>1, <2>2, <4>1 DEF Leads
    <3>4. vproc[q].pc = "jszDo" => vproc[q].outer = vproc[q].key
      BY DEF FlightsLed, LedOK, Attended
    <3> HIDE DEF Failed, Behind
    <3> QED
      BY <3>1, <3>2, <3>3, <3>4 DEF LedOK, Attended, Leads, ForTopology
  <2> QED
    BY <2>1, <2>2
<1> QED
  BY <1>4, <1>5 DEF FlightsLed, Works

(* A topology flight ends.                                                   *)
LEMMA LedStores ==
  ASSUME ReadsInv, FlightsLed, NEW p \in VProc, StoreTopology(p)
  PROVE  FlightsLed'
<1> DEFINE k == vproc[p].outer
<1>1. vproc[p].pc = "fetched" /\ k \in Jsz /\ k \in Key /\ k \notin View /\ Leads(p, k)
  BY KeysApart DEF StoreTopology, ReadsInv, ReadShape, FlightsLed, LedOK, ForTopology
<1>2. flights'[k] = NoView /\ \A j \in Key \ {k} : flights'[j] = flights[j]
  BY <1>1 DEF StoreTopology, ReadsInv, ReadsShapes
<1>3. \A q \in VProc : vproc'[q] = IF q \in Waiting(k) \cup {p} THEN VIdle ELSE vproc[q]
  BY DEF StoreTopology
<1>4. ASSUME NEW j \in Key, flights'[j] # NoView PROVE Works(vproc'[flights'[j].lead], j)
  <2> DEFINE r == flights[j].lead
  <2>1. j # k /\ flights'[j] = flights[j] /\ flights[j] # NoView /\ r \in VProc /\ Works(vproc[r], j)
    BY <1>2, <1>4, LeaderIs DEF FlightsLed
  <2>2. r \notin Waiting(k) \cup {p}
    BY <1>1, <2>1 DEF Waiting, Works
  <2> QED
    BY <1>3, <2>1, <2>2
<1>5. ASSUME NEW q \in VProc PROVE LedOK(q)'
  <2>1. CASE vproc'[q] = VIdle
    BY <2>1 DEF LedOK, Attended, ForTopology, VIdle
  <2>2. CASE vproc'[q] = vproc[q] /\ q \notin Waiting(k) \cup {p}
    <3>1. vproc[q].pc = "wait" => vproc[q].key \in Key \ {k} /\ flights[vproc[q].key] # NoView
      BY <2>2 DEF Waiting, FlightsLed, LedOK, Attended, ReadsInv, ReadShape
    <3>2. ASSUME ForTopology(vproc[q])
          PROVE  vproc[q].outer \in Key \ {k} /\ Leads(q, vproc[q].outer)
      <4>1. vproc[q].outer \in Key /\ Leads(q, vproc[q].outer)
        BY <3>2, KeysApart DEF FlightsLed, LedOK, ForTopology, ReadsInv, ReadShape
      <4>2. vproc[q].outer # k
        BY <1>1, <2>2, <4>1 DEF Leads
      <4> QED
        BY <4>1, <4>2
    <3>3. vproc[q].pc = "jszDo" => vproc[q].outer = vproc[q].key
      BY DEF FlightsLed, LedOK, Attended
    <3> QED
      BY <1>2, <2>2, <3>1, <3>2, <3>3 DEF LedOK, Attended, Leads, ForTopology
  <2> QED
    BY <1>3, <2>1, <2>2
<1> QED
  BY <1>4, <1>5 DEF FlightsLed, Works

LEMMA LedStep == ASSUME ReadsInv, FlightsLed, [VNext]_vVars PROVE FlightsLed'
<1>1. CASE UNCHANGED <<flights, vproc>>
  BY <1>1 DEF FlightsLed, LedOK, Attended, Leads, ForTopology, Works
<1>2. ASSUME NEW p \in VProc, NEW k \in View, vproc[p].pc = "idle", LookUp(p, k), UNCHANGED flights
      PROVE  FlightsLed'
  <2>1. CASE UNCHANGED vproc
    BY <1>1, <1>2, <2>1
  <2>2. CASE VGo(p, [pc |-> "do", key |-> k, outer |-> k])
    <3>1. ~ForTopology([pc |-> "do", key |-> k, outer |-> k])
      BY KeysApart DEF ForTopology
    <3> QED
      BY <1>2, <2>2, <3>1, WorksForNone, LedMovesAlone
  <2> QED
    BY <1>2, <2>1, <2>2 DEF LookUp
<1>3. ASSUME NEW p \in VProc, GetOrLoad(p) PROVE FlightsLed'
  BY <1>2, <1>3 DEF GetOrLoad, readVars
<1>4. ASSUME NEW p \in VProc, Raw(p) PROVE FlightsLed'
  <2>1. vproc[p].pc = "idle" /\ UNCHANGED flights /\ (UNCHANGED vproc \/ LookUp(p, "monitoring"))
    BY <1>4 DEF Raw, readVars
  <2> QED
    BY <1>1, <1>2, <2>1, ReadsConstants
<1>5. ASSUME NEW p \in VProc, FetchJSZ(p) PROVE FlightsLed'
  <2>1. vproc[p].pc = "idle" /\ UNCHANGED flights
    BY <1>5 DEF FetchJSZ, readVars
  <2>2. ASSUME NEW k \in Jsz, VGo(p, [pc |-> "jszDo", key |-> k, outer |-> k]) PROVE FlightsLed'
    <3>1. ~ForTopology([pc |-> "jszDo", key |-> k, outer |-> k])
      BY DEF ForTopology
    <3> QED
      BY <2>1, <2>2, <3>1, WorksForNone, LedMovesAlone
  <2> QED
    BY <1>1, <1>5, <2>1, <2>2 DEF FetchJSZ, Jsz
<1>6. ASSUME NEW p \in VProc, NEW next, VGo(p, next), vproc[p].pc \in {"idle", "write"},
             next.pc \in {"idle", "write"}, SameLeaders
      PROVE  FlightsLed'
  BY <1>6, WorksForNone, LedMoves
<1>7. VIdle.pc = "idle"
  BY DEF VIdle
<1>8. ASSUME NEW p \in VProc, vproc[p].pc = "write" PROVE Done1(p).pc = "write" /\ Wrote(p).pc = "write"
  <2>1. {version + 1} \subseteq 1 .. version + 1
    BY DEF ReadsInv, ReadsShapes
  <2> QED
    BY <1>8, <2>1, WriterGoesOn DEF Wrote
<1>9. ASSUME NEW p \in VProc, WithExecutor(p) PROVE FlightsLed'
  <2>1. vproc[p].pc = "idle" /\ SameLeaders
    BY <1>9 DEF WithExecutor, readVars, SameLeaders
  <2>2. PICK todo : VGo(p, [pc |-> "write", todo |-> todo, writes |-> {}])
    BY <1>9 DEF WithExecutor
  <2> QED
    BY <1>6, <2>1, <2>2
<1>10. ASSUME NEW p \in VProc, Apply(p) \/ ReadBetween(p) \/ InvalidateSnapshot(p) \/ Answer(p)
       PROVE  FlightsLed'
  <2>1. vproc[p].pc = "write" /\ SameLeaders
    BY <1>10 DEF Apply, ReadBetween, InvalidateSnapshot, Answer, At, readVars, SameLeaders
  <2>2. VGo(p, Done1(p)) \/ VGo(p, Wrote(p)) \/ VGo(p, VIdle)
    BY <1>10 DEF Apply, ReadBetween, InvalidateSnapshot, Answer, Fail
  <2> QED
    BY <1>6, <1>7, <1>8, <2>1, <2>2
<1>11. ASSUME NEW p \in VProc, InvalidateViews(p) PROVE FlightsLed'
  <2>1. vproc[p].pc = "write" /\ VGo(p, Done1(p))
    BY <1>11 DEF InvalidateViews, At
  <2>2. \A f \in FlightRow : LET g == [f EXCEPT !.crossed = TRUE] IN g \in FlightRow /\ g.lead = f.lead
    BY DEF FlightRow
  <2>3. \A k \in Key : flights[k] # NoView => flights[k] \in FlightRow
    BY DEF ReadsInv, ReadsShapes
  <2>4. SameLeaders
    <3>1. CASE UNCHANGED readVars
      BY <3>1 DEF SameLeaders, readVars
    <3>2. CASE flights' = [k \in Key |-> IF flights[k] # NoView /\ flights[k].gen # NoView
                                        THEN [flights[k] EXCEPT !.crossed = TRUE] ELSE flights[k]]
      BY <2>2, <2>3, <3>2, ReadsConstants DEF SameLeaders
    <3> QED
      BY <1>11, <3>1, <3>2 DEF InvalidateViews
  <2> QED
    BY <1>6, <1>8, <2>1, <2>4
<1>12. ASSUME NEW p \in VProc, Do(p) PROVE FlightsLed'
  <2> DEFINE k == vproc[p].key
             o == vproc[p].outer
             at(pc) == [pc |-> pc, key |-> k, outer |-> o]
  <2>1. /\ vproc[p].pc = "do" /\ k \in View /\ k \in Key /\ k \notin Jsz /\ vproc[p] = at("do")
        /\ o = k \/ o \in Jsz
    BY <1>12, KeysApart DEF Do, ReadsInv, ReadShape
  <2>2. /\ \A j \in Key : Works(vproc[p], j) => j = o /\ o \in Jsz
        /\ o \in Jsz => o \in Key /\ Leads(p, o)
    BY <2>1, KeysApart DEF Works, FlightsLed, LedOK, ForTopology
  <2>3. ASSUME NEW pc \in {"wait", "load"}
        PROVE  /\ at(pc).pc = pc /\ at(pc).key = k /\ at(pc).outer = o
               /\ o \in Jsz => Works(at(pc), o)
               /\ ForTopology(at(pc)) => o \in Jsz
               /\ pc = "load" => Works(at(pc), k)
               /\ [vproc[p] EXCEPT !.pc = pc] = at(pc)
    BY <2>1 DEF Works, ForTopology
  <2> HIDE DEF at
  <2>4. CASE flights[k] # NoView /\ VGo(p, at("wait")) /\ UNCHANGED flights
    <3>1. \A j \in Key : Works(vproc[p], j) => Works(at("wait"), j)
      BY <2>2, <2>3
    <3> QED
      BY <2>1, <2>2, <2>3, <2>4, <3>1, LedMovesAlone
  <2>5. CASE flights[k] = NoView /\ Land(p, k, views[k].gen)
    <3> DEFINE next == IF o # k THEN [pc |-> "fetched", outer |-> o, gen |-> views[k].gen] ELSE VIdle
    <3>1. UNCHANGED flights /\ VGo(p, next)
      BY <2>1, <2>5, LandsAlone
    <3>2. /\ next.pc \in {"fetched", "idle"}
          /\ o \in Jsz => Works(next, o)
          /\ ForTopology(next) => next.outer = o /\ o \in Jsz
      BY <1>7, <2>1 DEF Works, ForTopology
    <3> HIDE DEF next
    <3>3. \A j \in Key : Works(vproc[p], j) => Works(next, j)
      BY <2>2, <3>2
    <3>4. ForTopology(next) => next.outer \in Key /\ Leads(p, next.outer)
      BY <2>2, <3>2
    <3> QED
      BY <3>1, <3>2, <3>3, <3>4, LedMovesAlone
  <2>6. CASE /\ flights[k] = NoView
             /\ flights' = [flights EXCEPT ![k] = [lead |-> p, gen |-> NoView, crossed |-> FALSE]]
             /\ VGo(p, at("load"))
    <3>1. \A j \in Key : Works(vproc[p], j) => Works(at("load"), j)
      BY <2>2, <2>3
    <3>2. ForTopology(at("load")) => at("load").outer \in Key /\ Leads(p, at("load").outer)
      BY <2>2, <2>3
    <3>3. Works(at("load"), k) /\ at("load").pc = "load"
      BY <2>3
    <3> QED
      BY <2>1, <2>6, <3>1, <3>2, <3>3, LedBegins
  <2> QED
    BY <1>12, <2>1, <2>3, <2>4, <2>5, <2>6 DEF Do
<1>13. ASSUME NEW p \in VProc, Load(p) PROVE FlightsLed'
  <2> DEFINE k == vproc[p].key
             o == vproc[p].outer
             next == [vproc[p] EXCEPT !.pc = "store"]
  <2>1. /\ vproc[p].pc = "load" /\ k \in View /\ k \in Key
        /\ vproc[p] = [pc |-> "load", key |-> k, outer |-> o]
    BY <1>13, KeysApart DEF Load, ReadsInv, ReadShape
  <2>2. CASE flights' = [flights EXCEPT ![k].gen = version] /\ VGo(p, next)
    <3>1. next = [pc |-> "store", key |-> k, outer |-> o]
      BY <2>1
    <3>2. flights[k] \in FlightRow
      BY <2>1 DEF ReadsInv, ReadsShapes, LoadLeads, Leads
    <3> DEFINE new == [flights[k] EXCEPT !.gen = version]
    <3>3. new \in FlightRow /\ new.lead = flights[k].lead
      BY <3>2 DEF FlightRow, ReadsInv, ReadsShapes
    <3>4. flights'[k] = new /\ \A j \in Key \ {k} : flights'[j] = flights[j]
      BY <2>1, <2>2 DEF ReadsInv, ReadsShapes
    <3> HIDE DEF new
    <3>5. SameLeaders
      BY <3>2, <3>3, <3>4, ReadsConstants DEF SameLeaders
    <3> HIDE DEF next
    <3>6. \A j \in Key : Works(vproc[p], j) => Works(next, j)
      BY <2>1, <3>1 DEF Works
    <3>7. ForTopology(next) => next.outer \in Key /\ Leads(p, next.outer)
      BY <2>1, <3>1, KeysApart DEF ForTopology, FlightsLed, LedOK
    <3> QED
      BY <2>2, <3>1, <3>5, <3>6, <3>7, LedMoves
  <2>3. CASE Abort(p, k)
    BY <2>1, <2>3, LedAborts
  <2> QED
    BY <1>13, <2>2, <2>3 DEF Load
<1>14. ASSUME NEW p \in VProc, StoreView(p) PROVE FlightsLed'
  BY <1>14, LedLands DEF StoreView, ReadsInv, ReadShape
<1>15. ASSUME NEW p \in VProc, JszDo(p) PROVE FlightsLed'
  <2> DEFINE k == vproc[p].key
             lead == flights' = [flights EXCEPT ![k] = [lead |-> p, gen |-> NoView, crossed |-> FALSE]]
  <2>1. /\ vproc[p].pc = "jszDo" /\ k \in Jsz /\ k \in Key /\ k \notin View /\ vproc[p].outer = k
        /\ vproc[p] = [pc |-> "jszDo", key |-> k, outer |-> k]
    BY <1>15, KeysApart DEF JszDo, ReadsInv, ReadShape, FlightsLed, LedOK, Attended
  <2>2. \A j \in Key : ~Works(vproc[p], j)
    BY <2>1, WorksForNone
  <2>3. CASE flights[k] # NoView /\ VGo(p, [vproc[p] EXCEPT !.pc = "wait"]) /\ UNCHANGED flights
    <3> DEFINE next == [pc |-> "wait", key |-> k, outer |-> k]
    <3>1. [vproc[p] EXCEPT !.pc = "wait"] = next
      BY <2>1
    <3>2. next.pc = "wait" /\ next.key = k /\ ~ForTopology(next)
      BY <2>1 DEF ForTopology
    <3> HIDE DEF next
    <3> QED
      BY <2>1, <2>2, <2>3, <3>1, <3>2, LedMovesAlone
  <2>4. CASE flights[k] = NoView /\ Land(p, k, topology)
    <3>1. UNCHANGED flights /\ VGo(p, VIdle)
      BY <2>1, <2>4, LandsAlone
    <3> QED
      BY <1>7, <2>2, <3>1, WorksForNone, LedMovesAlone
  <2>5. ASSUME NEW g, flights[k] = NoView, lead, VGo(p, [pc |-> "fetched", outer |-> k, gen |-> g])
        PROVE  FlightsLed'
    <3> DEFINE next == [pc |-> "fetched", outer |-> k, gen |-> g]
    <3>1. next.pc = "fetched" /\ next.outer = k /\ Works(next, k)
      BY DEF Works
    <3> HIDE DEF next
    <3> QED
      BY <2>1, <2>2, <2>5, <3>1, LedBegins DEF next
  <2>6. CASE flights[k] = NoView /\ lead /\ VGo(p, [pc |-> "do", key |-> "monitoring", outer |-> k])
    <3> DEFINE next == [pc |-> "do", key |-> "monitoring", outer |-> k]
    <3>1. next.pc = "do" /\ next.outer = k /\ Works(next, k)
      BY <2>1, ReadsConstants DEF Works
    <3> HIDE DEF next
    <3> QED
      BY <2>1, <2>2, <2>6, <3>1, LedBegins DEF next
  <2> QED
    BY <1>15, <2>3, <2>4, <2>5, <2>6 DEF JszDo
<1>16. ASSUME NEW p \in VProc, DirectRead(p) PROVE FlightsLed'
  BY <1>1, <1>16 DEF DirectRead, vVars, readVars
<1>17. CASE \/ \E k \in View : ViewExpires(k)
            \/ TopologyExpires \/ CollectClusterSnapshot \/ Publish \/ ScrapeFails \/ UNCHANGED vVars
  BY <1>1, <1>17
  DEF ViewExpires, TopologyExpires, CollectClusterSnapshot, Publish, ScrapeFails, vVars, readVars
<1> QED
  BY <1>3, <1>4, <1>5, <1>9, <1>10, <1>11, <1>12, <1>13, <1>14, <1>15, <1>16, <1>17, LedStores
  DEF VNext, VStep

(* For any number of views and requests: a request that waits for a flight   *)
(* has somebody at work who will answer it, through one more flight at most  *)
(* (GetOrLoad and FetchJSZ under singleflight, and what becomes of those who *)
(* wait when a load fails).                                                  *)
THEOREM ReadersServed == VSpec => []NobodyStranded
<1>1. VInit => FlightsLed
  <2>1. VInit => /\ \A k \in Key : flights[k] = NoView
                 /\ \A p \in VProc : vproc[p].pc = "idle"
    BY DEF VInit, VIdle
  <2> QED
    BY <2>1, WorksForNone DEF FlightsLed, LedOK, Attended
<1>2. ASSUME ReadsInv, FlightsLed PROVE NobodyStranded
  <2> SUFFICES ASSUME NEW p \in VProc, vproc[p].pc = "wait"
               PROVE  \E q \in VProc \ {p} :
                        /\ Leads(q, vproc[p].key)
                        /\ \/ vproc[q].pc \in {"do", "load", "store", "fetched"}
                           \/ /\ vproc[q].pc = "wait" /\ vproc[q].key \in View
                              /\ \E r \in VProc \ {p, q} : /\ Leads(r, vproc[q].key)
                                                           /\ vproc[r].pc \in {"load", "store"}
    BY DEF NobodyStranded
  <2> DEFINE k == vproc[p].key
  <2>1. k \in Key /\ flights[k] # NoView
    BY <1>2 DEF ReadsInv, ReadShape, FlightsLed, LedOK, Attended
  <2>2. PICK q \in VProc : Leads(q, k) /\ Works(vproc[q], k)
    BY <1>2, <2>1, LeaderWorks
  <2>3. q # p
    BY <2>2, KeysApart DEF Works
  <2>4. CASE vproc[q].pc \in {"do", "load", "store", "fetched"}
    BY <2>2, <2>3, <2>4
  <2>5. CASE vproc[q].pc = "wait"
    <3> DEFINE v == vproc[q].key
    <3>1. v \in View /\ v \in Key /\ v \notin Jsz
      BY <2>2, <2>5, KeysApart DEF Works
    <3>2. flights[v] # NoView
      BY <1>2, <2>5 DEF FlightsLed, LedOK, Attended
    <3>3. PICK r \in VProc : Leads(r, v) /\ Works(vproc[r], v)
      BY <1>2, <3>1, <3>2, LeaderWorks
    <3>4. vproc[r].pc \in {"load", "store"}
      BY <1>2, <3>1, <3>3 DEF Works, ReadsInv, ReadShape
    <3>5. r # p /\ r # q
      BY <2>5, <3>4
    <3> QED
      BY <2>2, <2>3, <2>5, <3>1, <3>3, <3>4, <3>5
  <2> QED
    BY <2>2, <2>4, <2>5 DEF Works
<1> QED
  BY <1>1, <1>2, ReadsStart, ReadsStep, LedStep, PTL DEF VSpec

-----------------------------------------------------------------------------
(* The walk.  The types of the stream and of the cache.                      *)
NavShapes ==
  /\ navLast \in 0 .. MaxNav /\ navMsgs \subseteq 1 .. navLast
  /\ present \subseteq 1 .. MaxNav /\ absent \subseteq 0 .. MaxNav /\ present \cap absent = {}
  /\ nav = [w \in Walker |-> nav[w]]

SearchShape(q) ==
  /\ q = [pc |-> q.pc, at |-> q.at, first |-> q.first, lo |-> q.lo, hi |-> q.hi, found |-> q.found,
          lost |-> q.lost, calm |-> q.calm]
  /\ q.at \in 1 .. MaxNav /\ q.first \in Nat /\ q.lo \in Nat /\ q.hi \in Int
  /\ q.first <= q.lo /\ q.hi < q.at /\ q.found \in Nat /\ q.found < q.at

AnswerShape(q) ==
  /\ q = [pc |-> q.pc, at |-> q.at, first |-> q.first, found |-> q.found, calm |-> q.calm]
  /\ q.at \in Nat /\ q.first \in Nat /\ q.found \in Nat /\ q.found < q.at

(* A calm navigation: what it found is there, its message is one of this     *)
(* stream, and as long as it has found nothing although the first message is *)
(* below, its search still has that one in its range.  S and l are the       *)
(* stream.                                                                   *)
CalmOK(q, S, l) ==
  /\ q.found # 0 => q.found \in S
  /\ q.pc = "prev" =>
       /\ q.at <= l
       /\ q.found = 0 /\ q.first \in S /\ q.first < q.at => q.lo = q.first /\ q.first <= q.hi
  /\ q.pc = "answered" =>
       /\ q.at <= l
       /\ q.first \in S /\ q.first < q.at => q.found # 0

WalkOK(q, S, l) ==
  /\ q.pc = "get" => q.seq \in 1 .. MaxNav /\ q.first \in Nat
  /\ q.pc \in {"back", "prev"} => SearchShape(q)
  /\ q.pc = "answered" => AnswerShape(q)
  /\ q.pc \in {"back", "prev", "answered"} /\ q.calm => CalmOK(q, S, l)

NavInv == NavShapes /\ \A w \in Walker : WalkOK(nav[w], navMsgs, navLast)

(* The middle of a range lies in it.                                         *)
LEMMA MidWithin ==
  ASSUME NEW lo \in Int, NEW hi \in Int, lo <= hi
  PROVE  LET mid == lo + (hi - lo) \div 2 IN mid \in Int /\ lo <= mid /\ mid <= hi
  OBVIOUS

LEMMA NavFirstType == ASSUME NavShapes PROVE NavFirst \in Nat
<1>1. navMsgs \subseteq Nat
  BY NavConstants DEF NavShapes
<1> QED
  BY <1>1, LeastOf, NavConstants DEF NavShapes, NavFirst

LEMMA MarkKeeps ==
  ASSUME NavShapes, NEW s \in 0 .. MaxNav, NEW e \in BOOLEAN, e => s >= 1, Mark(s, e)
  PROVE  /\ present' \subseteq 1 .. MaxNav /\ absent' \subseteq 0 .. MaxNav
         /\ present' \cap absent' = {}
<1>1. CASE e
  BY <1>1 DEF Mark, NavShapes
<1>2. CASE ~e
  BY <1>2 DEF Mark, NavShapes
<1> QED
  BY <1>1, <1>2

(* A navigation moves under a stream that stays.                             *)
LEMMA WalkerMoves ==
  ASSUME NavInv, NEW w \in Walker, NEW next, NavGo(w, next), UNCHANGED navStream,
         WalkOK(next, navMsgs, navLast),
         \/ UNCHANGED <<present, absent>>
         \/ \E s \in 0 .. MaxNav, e \in BOOLEAN : (e => s >= 1) /\ Mark(s, e)
  PROVE  NavInv'
<1>1. /\ present' \subseteq 1 .. MaxNav /\ absent' \subseteq 0 .. MaxNav
      /\ present' \cap absent' = {}
  BY MarkKeeps DEF NavInv, NavShapes
<1>2. NavShapes'
  BY <1>1 DEF NavInv, NavShapes, NavGo, navStream
<1>3. \A v \in Walker : nav'[v] = IF v = w THEN next ELSE nav[v]
  BY DEF NavInv, NavShapes, NavGo
<1>4. \A v \in Walker : WalkOK(nav'[v], navMsgs, navLast)
  BY <1>3 DEF NavInv
<1> QED
  BY <1>2, <1>4 DEF NavInv, navStream

(* A search that begins has first in its range when it lies below.           *)
LEMMA SearchBegins ==
  ASSUME NavInv, NEW at \in 1 .. MaxNav, NEW first \in Nat, NEW lost, NEW pc \in {"back", "prev"},
         pc = "prev" => at <= navLast
  PROVE  WalkOK(Search(pc, at, first, lost), navMsgs, navLast)
<1> DEFINE q == Search(pc, at, first, lost)
<1>1. /\ q = [pc |-> q.pc, at |-> q.at, first |-> q.first, lo |-> q.lo, hi |-> q.hi, found |-> q.found,
              lost |-> q.lost, calm |-> q.calm]
      /\ q.pc = pc /\ q.at = at /\ q.first = first /\ q.lo = first /\ q.hi = at - 1 /\ q.found = 0
  BY DEF Search
<1> HIDE DEF q
<1>2. SearchShape(q)
  BY <1>1, NavConstants DEF SearchShape
<1>3. CalmOK(q, navMsgs, navLast)
  BY <1>1, NavConstants DEF CalmOK
<1> QED
  BY <1>1, <1>2, <1>3 DEF WalkOK, q

(* One turn of the loop keeps a search sound.                                *)
LEMMA ProbeKeeps ==
  ASSUME NavInv, NEW w \in Walker, Searching(w), ~Over(nav[w]), NEW exists \in BOOLEAN,
         exists => Mid(nav[w]) \in present \cup navMsgs
  PROVE  WalkOK(Narrowed(nav[w], Mid(nav[w]), exists, exists <=> Mid(nav[w]) \in navMsgs), navMsgs, navLast)
<1> DEFINE q == nav[w]
           mid == Mid(q)
           right == exists <=> mid \in navMsgs
           next == Narrowed(q, mid, exists, right)
<1> SUFFICES WalkOK(next, navMsgs, navLast)
  OBVIOUS
<1>1. SearchShape(q) /\ q.pc \in {"back", "prev"}
  BY DEF NavInv, WalkOK, Searching
<1>2. q.calm => CalmOK(q, navMsgs, navLast)
  BY <1>1 DEF NavInv, WalkOK
<1>3. mid \in Nat /\ q.lo <= mid /\ mid <= q.hi
  BY <1>1, MidWithin DEF SearchShape, Over, Mid
<1>4. exists => mid >= 1
  BY <1>3, NavConstants DEF NavInv, NavShapes
<1> HIDE DEF mid, q
<1>5. \A lo \in Nat, hi \in Int, found \in Nat :
        /\ next = Turned(q, lo, hi, found, right)
        /\ q.first <= lo /\ hi < q.at /\ found < q.at
        /\ q.calm /\ right => CalmOK(next, navMsgs, navLast)
        => WalkOK(next, navMsgs, navLast)
  <2> TAKE lo \in Nat, hi \in Int, found \in Nat
  <2>0. HAVE /\ next = Turned(q, lo, hi, found, right)
             /\ q.first <= lo /\ hi < q.at /\ found < q.at
             /\ q.calm /\ right => CalmOK(next, navMsgs, navLast)
  <2>1. /\ next.pc = q.pc /\ next.at = q.at /\ next.first = q.first /\ next.lo = lo /\ next.hi = hi
        /\ next.found = found /\ (next.calm <=> q.calm /\ right)
        /\ next = [pc |-> next.pc, at |-> next.at, first |-> next.first, lo |-> next.lo, hi |-> next.hi,
                   found |-> next.found, lost |-> next.lost, calm |-> next.calm]
    <3> HIDE DEF next, right
    <3>1. next.calm = (q.calm /\ right)
      BY <2>0 DEF Turned
    <3> QED
      BY <2>0, <3>1 DEF Turned
  <2> HIDE DEF next, right
  <2>2. SearchShape(next)
    BY <1>1, <2>0, <2>1 DEF SearchShape
  <2> QED
    BY <1>1, <2>0, <2>1, <2>2 DEF WalkOK
<1>6. CASE exists
  <2>1. next = Turned(q, mid + 1, q.hi, mid, right)
    BY <1>6 DEF Narrowed
  <2>2. next.pc = q.pc /\ next.at = q.at /\ next.first = q.first /\ next.found = mid
    BY <2>1 DEF Turned
  <2> HIDE DEF next
  <2>3. q.calm /\ right => CalmOK(next, navMsgs, navLast)
    BY <1>1, <1>2, <1>4, <1>6, <2>2 DEF CalmOK
  <2>4. /\ mid + 1 \in Nat /\ q.hi \in Int /\ q.first <= mid + 1 /\ q.hi < q.at
        /\ mid \in Nat /\ mid < q.at
    BY <1>1, <1>3 DEF SearchShape
  <2> HIDE DEF right
  <2> QED
    BY <1>5, <2>1, <2>3, <2>4
<1>7. CASE ~exists /\ mid = q.first
  <2>1. next = Turned(q, q.hi + 1, q.hi, q.found, right)
    BY <1>7 DEF Narrowed
  <2>2. next.pc = q.pc /\ next.at = q.at /\ next.first = q.first /\ next.found = q.found
    BY <2>1 DEF Turned
  <2> HIDE DEF next
  <2>3. q.calm /\ right => CalmOK(next, navMsgs, navLast)
    BY <1>1, <1>2, <1>7, <2>2 DEF CalmOK
  <2>4. /\ q.hi + 1 \in Nat /\ q.hi \in Int /\ q.first <= q.hi + 1 /\ q.hi < q.at
        /\ q.found \in Nat /\ q.found < q.at
    BY <1>1, <1>3 DEF SearchShape
  <2> HIDE DEF right
  <2> QED
    BY <1>5, <2>1, <2>3, <2>4
<1>8. CASE ~exists /\ mid # q.first
  <2>1. next = Turned(q, q.lo, mid - 1, q.found, right)
    BY <1>8 DEF Narrowed
  <2>2. /\ next.pc = q.pc /\ next.at = q.at /\ next.first = q.first /\ next.found = q.found
        /\ next.lo = q.lo /\ next.hi = mid - 1
    BY <2>1 DEF Turned
  <2> HIDE DEF next
  <2>3. q.calm /\ right => CalmOK(next, navMsgs, navLast)
    BY <1>1, <1>2, <1>3, <1>8, <2>2 DEF CalmOK, SearchShape
  <2>4. /\ q.lo \in Nat /\ mid - 1 \in Int /\ q.first <= q.lo /\ mid - 1 < q.at
        /\ q.found \in Nat /\ q.found < q.at
    BY <1>1, <1>3 DEF SearchShape
  <2> HIDE DEF right
  <2> QED
    BY <1>5, <2>1, <2>3, <2>4
<1> QED
  BY <1>6, <1>7, <1>8

LEMMA NavStep == ASSUME NavInv, [NavNext]_navVars PROVE NavInv'
<1> USE NavConstants
<1>0. NavShapes
  BY DEF NavInv
<1>1. ASSUME NEW w \in Walker, GetMessageNav(w) PROVE NavInv'
  <2>1. UNCHANGED <<navStream, present, absent>>
    BY <1>1 DEF GetMessageNav
  <2>2. ASSUME NEW seq \in 1 .. MaxNav, NEW direction,
               NavGo(w, [pc |-> "get", seq |-> seq, direction |-> direction, first |-> NavFirst])
        PROVE  NavInv'
    <3> DEFINE next == [pc |-> "get", seq |-> seq, direction |-> direction, first |-> NavFirst]
    <3>1. WalkOK(next, navMsgs, navLast)
      BY <1>0, NavFirstType DEF WalkOK
    <3>2. NavGo(w, next)
      BY <2>2
    <3> HIDE DEF next
    <3> QED
      BY <2>1, <3>1, <3>2, WalkerMoves
  <2>3. CASE NavGo(w, NavIdle)
    <3>1. WalkOK(NavIdle, navMsgs, navLast)
      BY DEF WalkOK, NavIdle
    <3> QED
      BY <2>1, <2>3, <3>1, WalkerMoves
  <2>4. ASSUME NEW seq \in 1 .. MaxNav, NEW lost, NavGo(w, Search("back", seq, NavFirst, lost))
        PROVE  NavInv'
    <3>1. WalkOK(Search("back", seq, NavFirst, lost), navMsgs, navLast)
      BY <1>0, NavFirstType, SearchBegins
    <3> QED
      BY <2>1, <2>4, <3>1, WalkerMoves
  <2> QED
    BY <1>1, <2>2, <2>3, <2>4 DEF GetMessageNav
<1>2. ASSUME NEW w \in Walker, Probe(w) PROVE NavInv'
  <2> DEFINE q == nav[w]
             mid == Mid(q)
             known == ~q.lost /\ mid \in present \cup absent
             bad == Turned(q, q.hi + 1, q.hi, 0, FALSE)
  <2>1. Searching(w) /\ ~Over(q) /\ UNCHANGED navStream
    BY <1>2 DEF Probe
  <2>2. \/ \E exists \in BOOLEAN :
             /\ exists <=> mid \in (IF known THEN present ELSE navMsgs)
             /\ NavGo(w, Narrowed(q, mid, exists, exists <=> mid \in navMsgs))
             /\ UNCHANGED <<present, absent>> \/ Mark(mid, exists)
        \/ NavGo(w, bad) /\ UNCHANGED <<present, absent>>
    BY <1>2 DEF Probe
  <2>3. SearchShape(q) /\ q.pc \in {"back", "prev"}
    BY <2>1 DEF NavInv, WalkOK, Searching
  <2>4. mid \in Nat /\ q.lo <= mid /\ mid <= q.hi
    BY <2>1, <2>3, MidWithin DEF SearchShape, Over, Mid
  <2>5. ASSUME NEW exists \in BOOLEAN,
               exists <=> mid \in (IF known THEN present ELSE navMsgs),
               NavGo(w, Narrowed(q, mid, exists, exists <=> mid \in navMsgs)),
               UNCHANGED <<present, absent>> \/ Mark(mid, exists)
        PROVE  NavInv'
    <3> DEFINE good == Narrowed(q, mid, exists, exists <=> mid \in navMsgs)
    <3>1. exists => mid \in present \cup navMsgs
      <4> HIDE DEF mid, known
      <4> QED
        BY <2>5
    <3>2. mid \in 0 .. MaxNav /\ (exists => mid >= 1)
      BY <1>0, <2>3, <2>4, <3>1 DEF SearchShape, NavShapes
    <3>3. WalkOK(good, navMsgs, navLast)
      BY <2>1, <3>1, ProbeKeeps
    <3>4. NavGo(w, good)
      BY <2>5
    <3> HIDE DEF good, mid, known, q
    <3> QED
      BY <2>1, <2>5, <3>2, <3>3, <3>4, WalkerMoves
  <2>6. CASE NavGo(w, bad) /\ UNCHANGED <<present, absent>>
    <3>1. /\ bad.pc = q.pc /\ bad.at = q.at /\ bad.first = q.first /\ bad.lo = q.hi + 1 /\ bad.hi = q.hi
          /\ bad.found = 0 /\ ~bad.calm
          /\ bad = [pc |-> bad.pc, at |-> bad.at, first |-> bad.first, lo |-> bad.lo, hi |-> bad.hi,
                    found |-> bad.found, lost |-> bad.lost, calm |-> bad.calm]
      BY DEF Turned
    <3> HIDE DEF bad, q
    <3>2. SearchShape(bad)
      BY <2>3, <2>4, <3>1 DEF SearchShape
    <3>3. WalkOK(bad, navMsgs, navLast)
      BY <2>3, <3>1, <3>2 DEF WalkOK
    <3> QED
      BY <2>1, <2>6, <3>3, WalkerMoves
  <2> QED
    BY <2>2, <2>5, <2>6
<1>3. ASSUME NEW w \in Walker, BackEnds(w) PROVE NavInv'
  <2> DEFINE q == nav[w]
             get == [pc |-> "get", seq |-> q.found, direction |-> "", first |-> q.first]
  <2>1. /\ q.pc = "back" /\ UNCHANGED <<navStream, present, absent>>
        /\ NavGo(w, NavIdle) \/ (q.found # 0 /\ NavGo(w, get))
    BY <1>3 DEF BackEnds
  <2>2. SearchShape(q)
    BY <2>1 DEF NavInv, WalkOK
  <2>3. WalkOK(NavIdle, navMsgs, navLast)
    BY DEF WalkOK, NavIdle
  <2>4. q.found # 0 => WalkOK(get, navMsgs, navLast)
    BY <2>2 DEF WalkOK, SearchShape
  <2> HIDE DEF get
  <2> QED
    BY <2>1, <2>3, <2>4, WalkerMoves
<1>4. ASSUME NEW w \in Walker, GetMsg(w) PROVE NavInv'
  <2> DEFINE q == nav[w]
             these == IF q.direction = "next" THEN Above(q.seq) ELSE {q.seq} \cap navMsgs
             at == Min(these)
  <2>1. /\ q.pc = "get" /\ UNCHANGED navStream
        /\ \/ these # {} /\ Mark(at, TRUE) /\ \E lost : NavGo(w, Search("prev", at, q.first, lost))
           \/ NavGo(w, NavIdle) /\ UNCHANGED <<present, absent>>
    BY <1>4 DEF GetMsg
  <2>2. q.first \in Nat
    BY <2>1 DEF NavInv, WalkOK
  <2>3. CASE NavGo(w, NavIdle) /\ UNCHANGED <<present, absent>>
    <3>1. WalkOK(NavIdle, navMsgs, navLast)
      BY DEF WalkOK, NavIdle
    <3> QED
      BY <2>1, <2>3, <3>1, WalkerMoves
  <2>4. ASSUME these # {}, Mark(at, TRUE), NEW lost, NavGo(w, Search("prev", at, q.first, lost))
        PROVE  NavInv'
    <3>1. these \subseteq navMsgs /\ navMsgs \subseteq Nat
      BY <1>0 DEF Above, NavShapes
    <3> HIDE DEF these
    <3>2. at \in navMsgs
      BY <2>4, <3>1, LeastOf
    <3>3. at \in 1 .. MaxNav /\ at <= navLast
      BY <1>0, <3>2 DEF NavShapes
    <3> HIDE DEF at
    <3>4. WalkOK(Search("prev", at, q.first, lost), navMsgs, navLast)
      BY <2>2, <3>3, SearchBegins
    <3>5. \E s \in 0 .. MaxNav, e \in BOOLEAN : (e => s >= 1) /\ Mark(s, e)
      <4>1. at \in 0 .. MaxNav /\ at >= 1
        BY <3>3
      <4> QED
        BY <2>4, <4>1, Zenon
    <3> QED
      BY <2>1, <2>4, <3>4, <3>5, WalkerMoves
  <2> QED
    BY <2>1, <2>3, <2>4
<1>5. ASSUME NEW w \in Walker, NavAnswer(w) PROVE NavInv'
  <2> DEFINE q == nav[w]
             a == [pc |-> "answered", at |-> q.at, first |-> q.first, found |-> q.found, calm |-> q.calm]
  <2>1. q.pc = "prev" /\ q.lo > q.hi /\ NavGo(w, a) /\ UNCHANGED <<navStream, present, absent>>
    BY <1>5 DEF NavAnswer, Over
  <2>2. SearchShape(q) /\ (q.calm => CalmOK(q, navMsgs, navLast))
    BY <2>1 DEF NavInv, WalkOK
  <2> HIDE DEF q
  <2>3. AnswerShape(a)
    BY <2>2 DEF SearchShape, AnswerShape
  <2>4. q.calm => CalmOK(a, navMsgs, navLast)
    BY <2>1, <2>2 DEF CalmOK, SearchShape
  <2>5. WalkOK(a, navMsgs, navLast)
    BY <2>3, <2>4 DEF WalkOK
  <2> HIDE DEF a
  <2> QED
    BY <2>1, <2>5, WalkerMoves
<1>6. CASE NavPublish
  <2>1. /\ navLast' = navLast + 1 /\ navMsgs' = navMsgs \cup {navLast + 1} /\ navLast < MaxNav
        /\ UNCHANGED <<present, absent, nav>>
    BY <1>6 DEF NavPublish
  <2>2. NavShapes'
    BY <1>0, <2>1 DEF NavShapes
  <2>3. ASSUME NEW q, q.pc \in {"back", "prev", "answered"}, SearchShape(q) \/ AnswerShape(q),
               CalmOK(q, navMsgs, navLast)
        PROVE  CalmOK(q, navMsgs', navLast')
    <3>1. q.at \in Nat /\ q.first \in Nat /\ navLast \in Nat
      BY <1>0, <2>3 DEF SearchShape, AnswerShape, NavShapes
    <3> QED
      BY <2>1, <2>3, <3>1 DEF CalmOK
  <2>4. \A w \in Walker : WalkOK(nav[w], navMsgs', navLast')
    BY <2>3 DEF NavInv, WalkOK
  <2> QED
    BY <2>1, <2>2, <2>4 DEF NavInv
<1>7. ASSUME NEW W, Disturbed(W), UNCHANGED <<present, absent>>,
             navLast' \in 0 .. MaxNav, navMsgs' \subseteq 1 .. navLast',
             \A w \in Walker \ W : WalkOK(nav[w], navMsgs', navLast')
      PROVE  NavInv'
  <2>1. NavShapes'
    BY <1>0, <1>7 DEF NavShapes, Disturbed
  <2>2. ASSUME NEW w \in Walker PROVE WalkOK(nav'[w], navMsgs', navLast')
    <3> DEFINE q == nav[w]
    <3>1. WalkOK(q, navMsgs, navLast)
      BY DEF NavInv
    <3>2. CASE w \notin W \/ q.pc \notin {"back", "prev", "answered"}
      <4>1. nav'[w] = q
        BY <1>7, <3>2 DEF Disturbed
      <4> QED
        BY <1>7, <3>1, <3>2, <4>1 DEF WalkOK
    <3>3. CASE w \in W /\ q.pc \in {"back", "prev"}
      <4> DEFINE n == [pc |-> q.pc, at |-> q.at, first |-> q.first, lo |-> q.lo, hi |-> q.hi,
                       found |-> q.found, lost |-> q.lost, calm |-> FALSE]
      <4>1. SearchShape(q)
        BY <3>1, <3>3 DEF WalkOK
      <4>2. nav'[w] = [q EXCEPT !.calm = FALSE]
        BY <1>7, <3>3 DEF Disturbed
      <4>3. nav'[w] = n
        BY <4>1, <4>2 DEF SearchShape
      <4>4. SearchShape(n) /\ n.pc = q.pc /\ n.calm = FALSE
        BY <4>1 DEF SearchShape
      <4> HIDE DEF n, q
      <4> QED
        BY <3>3, <4>3, <4>4 DEF WalkOK
    <3>4. CASE w \in W /\ q.pc = "answered"
      <4> DEFINE n == [pc |-> q.pc, at |-> q.at, first |-> q.first, found |-> q.found, calm |-> FALSE]
      <4>1. AnswerShape(q)
        BY <3>1, <3>4 DEF WalkOK
      <4>2. nav'[w] = [q EXCEPT !.calm = FALSE]
        BY <1>7, <3>4 DEF Disturbed
      <4>3. nav'[w] = n
        BY <4>1, <4>2 DEF AnswerShape
      <4>4. AnswerShape(n) /\ n.pc = q.pc /\ n.calm = FALSE
        BY <4>1 DEF AnswerShape
      <4> HIDE DEF n, q
      <4> QED
        BY <3>4, <4>3, <4>4 DEF WalkOK
    <3> QED
      BY <3>2, <3>3, <3>4
  <2> QED
    BY <2>1, <2>2 DEF NavInv
<1>8. CASE NavDelete
  <2>1. PICK s \in navMsgs :
          /\ navMsgs' = navMsgs \ {s}
          /\ Disturbed({w \in Walker : nav[w].pc \in {"back", "prev", "answered"} /\ nav[w].found = s})
    BY <1>8 DEF NavDelete
  <2>2. navLast' = navLast /\ UNCHANGED <<present, absent>>
    BY <1>8 DEF NavDelete
  <2> DEFINE W == {w \in Walker : nav[w].pc \in {"back", "prev", "answered"} /\ nav[w].found = s}
  <2>3. ASSUME NEW w \in Walker \ W PROVE WalkOK(nav[w], navMsgs', navLast')
    <3>1. WalkOK(nav[w], navMsgs, navLast)
      BY DEF NavInv
    <3>2. nav[w].pc \in {"back", "prev", "answered"} => nav[w].found # s
      OBVIOUS
    <3> QED
      BY <2>1, <2>2, <3>1, <3>2 DEF WalkOK, CalmOK
  <2>4. navLast' \in 0 .. MaxNav /\ navMsgs' \subseteq 1 .. navLast'
    BY <1>0, <2>1, <2>2 DEF NavShapes
  <2> HIDE DEF W
  <2> QED
    BY <1>7, <2>1, <2>2, <2>3, <2>4 DEF W
<1>9. CASE NavRecreate
  <2>1. navLast' = 0 /\ navMsgs' = {} /\ Disturbed(Walker) /\ UNCHANGED <<present, absent>>
    BY <1>9 DEF NavRecreate
  <2> QED
    BY <1>7, <2>1
<1>10. CASE NewClient
  BY <1>0, <1>10 DEF NavInv, NavShapes, NewClient, navStream
<1>11. CASE UNCHANGED navVars
  BY <1>0, <1>11 DEF NavInv, NavShapes, navVars, navStream
<1> QED
  BY <1>1, <1>2, <1>3, <1>4, <1>5, <1>6, <1>8, <1>9, <1>10, <1>11 DEF NavNext

(* For any number of navigations on a stream of any length, with gaps        *)
(* anywhere, messages coming and going under every probe and a cache of any  *)
(* size: a search that was not misled finds an earlier message whenever the  *)
(* first one is still there (findPrevSeq, GetMessageNav).                    *)
THEOREM WalkSafe == NavSpec => [](NavTypeOK /\ NavFindsPrev)
<1>1. NavInit => NavInv
  BY NavConstants DEF NavInit, NavIdle, NavInv, NavShapes, WalkOK
<1>2. NavInv => NavTypeOK
  BY DEF NavInv, NavShapes, NavTypeOK
<1>3. NavInv => NavFindsPrev
  BY DEF NavInv, WalkOK, AnswerShape, CalmOK, NavFindsPrev
<1> QED
  BY <1>1, <1>2, <1>3, NavStep, PTL DEF NavSpec

-----------------------------------------------------------------------------
(* The preview of a replay: the stream holds sequences it has given out.     *)
ReplayLog == replayMsgs \subseteq 1 .. replayLast /\ replayLast \in 0 .. MaxReplay

LEMMA ReplayStep == ASSUME ReplayLog, [ReplayNext]_replayVars PROVE ReplayLog'
<1>1. ASSUME ReplayPublish PROVE ReplayLog'
  BY <1>1, ReplayConstants DEF ReplayLog, ReplayPublish
<1>2. ASSUME ReplayDelete PROVE ReplayLog'
  BY <1>2 DEF ReplayLog, ReplayDelete
<1>3. ASSUME ReplayRecreate PROVE ReplayLog'
  BY <1>3, ReplayConstants DEF ReplayLog, ReplayRecreate
<1> QED
  BY <1>1, <1>2, <1>3 DEF ReplayNext, ReplayLog, replayVars

(* A stream that holds messages has a first one.                             *)
LEMMA FirstIsLeast ==
  ASSUME ReplayLog PROVE ReplayFirst \in Nat /\ ReplayFirst >= 1 /\ \A s \in replayMsgs : ReplayFirst <= s
<1>1. CASE replayMsgs = {}
  BY <1>1, ReplayConstants DEF ReplayLog, ReplayFirst
<1>2. CASE replayMsgs # {}
  <2>1. replayMsgs \subseteq Nat /\ \A s \in replayMsgs : s >= 1
    BY ReplayConstants DEF ReplayLog
  <2> QED
    BY <1>2, <2>1, LeastOf DEF ReplayFirst
<1> QED
  BY <1>1, <1>2

(* A set within an interval has at most the interval's number of members,    *)
(* and as many when it is all of it.                                         *)
LEMMA WithinInterval ==
  ASSUME NEW from \in Nat, NEW to \in Nat, NEW S, S \subseteq from .. to
  PROVE  LET size == IF to >= from THEN to - from + 1 ELSE 0
         IN  /\ Cardinality(S) \in Nat /\ Cardinality(S) <= size
             /\ S = from .. to => Cardinality(S) = size
<1>1. IsFiniteSet(from .. to) /\ Cardinality(from .. to) = IF from > to THEN 0 ELSE to - from + 1
  BY FS_Interval
<1>2. IsFiniteSet(S) /\ Cardinality(S) <= Cardinality(from .. to)
  BY <1>1, FS_Subset
<1>3. Cardinality(S) \in Nat
  BY <1>2, FS_CardinalityType
<1> QED
  BY <1>1, <1>2, <1>3

(* The sequences a replay has to deliver lie between the ones the preview    *)
(* counts from and to.                                                       *)
LEMMA PreviewBounds ==
  ASSUME ReplayLog, replayLast > 0, NEW r \in ReplayRequest, ValidReplay(r), r.from \in {"seq", "beginning"}
  PROVE  LET start == ResolveReplayStartSeq(r, ReplayFirst)
             end == IF r.untilSeq > 0 /\ (replayLast = 0 \/ r.untilSeq <= replayLast)
                    THEN r.untilSeq ELSE replayLast
             all == Delivered(ReplayOpts(r))
         IN  /\ start \in Nat /\ start > 0 /\ end \in Nat /\ all \subseteq start .. end
             /\ AsksForAll(r) => all = start .. end
<1> USE ReplayConstants
<1> DEFINE start == ResolveReplayStartSeq(r, ReplayFirst)
           end == IF r.untilSeq > 0 /\ (replayLast = 0 \/ r.untilSeq <= replayLast)
                  THEN r.untilSeq ELSE replayLast
           o == ReplayOpts(r)
<1>1. /\ ReplayFirst \in Nat /\ ReplayFirst >= 1 /\ \A s \in replayMsgs : ReplayFirst <= s
      /\ replayLast \in Nat /\ replayMsgs \subseteq 1 .. replayLast
  BY FirstIsLeast DEF ReplayLog
<1>2. r.seq \in Nat /\ r.untilSeq \in Nat /\ (r.from = "seq" => r.seq > 0)
  BY DEF ReplayRequest, ValidReplay
<1>3. /\ start \in Nat /\ start > 0
      /\ r.from = "seq" => start = r.seq /\ o.start = r.seq
      /\ r.from = "beginning" => start = ReplayFirst /\ o.start = 1
      /\ o.until = r.untilSeq /\ o.filter = r.filter /\ (r.untilTime = 0 => o.untilTime = 0)
  BY <1>1, <1>2 DEF ResolveReplayStartSeq, ReplayOpts
<1>4. end \in Nat /\ end <= replayLast
  BY <1>1, <1>2
<1>5. ASSUME NEW s \in Delivered(o) PROVE s \in Nat /\ s >= start /\ s <= end
  <2>1. s \in replayMsgs /\ s >= o.start /\ (o.until = 0 \/ s <= o.until)
    BY DEF Delivered
  <2>2. s \in Nat /\ s <= replayLast /\ s >= ReplayFirst
    BY <1>1, <2>1
  <2>3. s >= start
    BY <1>3, <2>1, <2>2
  <2> QED
    BY <1>2, <1>3, <2>1, <2>2, <2>3
<1>6. ASSUME AsksForAll(r), NEW s \in start .. end
      PROVE  s \in Delivered(o)
  <2>0. /\ replayMsgs = ReplayFirst .. replayLast /\ o.start >= ReplayFirst
        /\ o.untilTime = 0 /\ ~o.filter
    BY <1>3, <1>6 DEF AsksForAll
  <2>1. s \in replayMsgs /\ s >= o.start
    BY <1>1, <1>3, <1>4, <1>6, <2>0
  <2>2. r.untilSeq = 0 \/ s <= r.untilSeq
    BY <1>1, <1>2, <1>6
  <2> QED
    BY <1>3, <2>0, <2>1, <2>2 DEF Delivered
<1>7. Delivered(o) \subseteq start .. end
  BY <1>3, <1>4, <1>5
<1> HIDE DEF start, end, o
<1>8. AsksForAll(r) => Delivered(o) = start .. end
  BY <1>6, <1>7
<1> QED
  BY <1>3, <1>4, <1>7, <1>8 DEF start, end, o

LEMMA PreviewCovers == ASSUME ReplayLog PROVE DryRunCovers
<1> SUFFICES ASSUME replayLast > 0, NEW r \in ReplayRequest, ValidReplay(r)
             PROVE  LET preview == ComputeReplayDryRun(r, ReplayFirst, replayLast)
                        o == ReplayOpts(r)
                    IN  /\ ~preview.unbounded => o.limit > 0 \/ o.until > 0 \/ o.untilTime > 0
                        /\ ~preview.approximate => DeliveredCount(o) <= preview.messages
                        /\ ~preview.approximate /\ AsksForAll(r)
                             => DeliveredCount(o) = preview.messages
  BY DEF DryRunCovers
<1> DEFINE preview == ComputeReplayDryRun(r, ReplayFirst, replayLast)
           all == Delivered(ReplayOpts(r))
           start == ResolveReplayStartSeq(r, ReplayFirst)
           end == IF r.untilSeq > 0 /\ (replayLast = 0 \/ r.untilSeq <= replayLast)
                  THEN r.untilSeq ELSE replayLast
<1>1. /\ r.limit \in Nat /\ ReplayOpts(r).limit = r.limit
      /\ r.from \in {"seq", "time", "beginning", "new"}
      /\ r.untilSeq \in Nat /\ ReplayOpts(r).until = r.untilSeq
      /\ r.untilTime \in Nat /\ (~OneMessage(r) => ReplayOpts(r).untilTime = r.untilTime)
      /\ OneMessage(r) => r.limit = 1
      /\ AsksForAll(r) => r.limit = 0
  BY ReplayConstants DEF ReplayRequest, ReplayOpts, OneMessage, AsksForAll
<1>2. Cardinality(all) \in Nat
  <2>1. replayLast \in Nat /\ replayMsgs \subseteq 1 .. replayLast /\ all \subseteq replayMsgs
    BY ReplayConstants DEF ReplayLog, Delivered
  <2> HIDE DEF all
  <2>2. all \subseteq 1 .. replayLast
    BY <2>1
  <2> QED
    BY <2>1, <2>2, WithinInterval
<1>8. /\ DeliveredCount(ReplayOpts(r)) \in Nat
      /\ DeliveredCount(ReplayOpts(r)) <= Cardinality(all)
      /\ r.limit > 0 => DeliveredCount(ReplayOpts(r)) <= r.limit
      /\ r.limit = 0 => DeliveredCount(ReplayOpts(r)) = Cardinality(all)
  <2> HIDE DEF all
  <2>1. DeliveredCount(ReplayOpts(r)) =
          IF r.limit > 0 /\ r.limit < Cardinality(all) THEN r.limit ELSE Cardinality(all)
    BY <1>1 DEF DeliveredCount, all
  <2> QED
    BY <1>1, <1>2, <2>1
<1> DEFINE o == ReplayOpts(r)
           ended == o.limit > 0 \/ o.until > 0 \/ o.untilTime > 0
<1>3. CASE r.limit > 0
  <2>1. preview.messages = r.limit
    BY <1>3 DEF ComputeReplayDryRun
  <2>2. ended
    BY <1>1, <1>3
  <2> HIDE DEF preview, all, ended, o
  <2>3. DeliveredCount(o) <= r.limit /\ ~AsksForAll(r)
    BY <1>1, <1>8, <1>3 DEF o
  <2>4. DeliveredCount(o) <= preview.messages
    BY <2>1, <2>3
  <2> QED
    BY <2>2, <2>3, <2>4 DEF preview, ended, o
<1>4. CASE r.limit = 0 /\ r.from = "new"
  <2>1. preview.messages = 0 /\ preview.unbounded
    BY <1>4 DEF ComputeReplayDryRun
  <2>2. all = {}
    <3>1. ReplayOpts(r).start = replayLast + 1
      BY <1>4 DEF ReplayOpts
    <3>2. replayLast \in Nat /\ \A s \in replayMsgs : s \in Nat /\ s <= replayLast
      BY ReplayConstants DEF ReplayLog
    <3> QED
      BY <3>1, <3>2 DEF Delivered
  <2>3. DeliveredCount(ReplayOpts(r)) = 0
    <3> HIDE DEF all
    <3> QED
      BY <1>8, <1>4, <2>2, FS_EmptySet
  <2> QED
    BY <2>1, <2>3
<1>5. CASE r.limit = 0 /\ r.from \in {"seq", "beginning"}
  <2>1. /\ preview.messages = IF start > 0 /\ end >= start THEN end - start + 1 ELSE 0
        /\ ~preview.unbounded => r.untilSeq # 0
    <3> DEFINE size == IF start > 0 /\ end >= start THEN end - start + 1 ELSE 0
    <3>1. preview = [messages |-> size, unbounded |-> r.untilSeq = 0, approximate |-> FALSE]
      <4>1. ~(r.limit > 0) /\ r.from # "new" /\ r.from # "time"
        BY <1>5
      <4> QED
        BY <4>1, Zenon DEF ComputeReplayDryRun
    <3> HIDE DEF preview, size
    <3>2. preview.messages = size /\ preview.unbounded = (r.untilSeq = 0)
      BY <3>1, Zenon
    <3> QED
      BY <3>2, Zenon DEF size
  <2>2. /\ start \in Nat /\ start > 0 /\ end \in Nat /\ all \subseteq start .. end
        /\ AsksForAll(r) => all = start .. end
    BY <1>5, PreviewBounds
  <2>3. ~preview.unbounded => ended
    BY <1>1, <2>1
  <2> HIDE DEF preview, all, start, end, ended
  <2>4. /\ Cardinality(all) <= preview.messages
        /\ all = start .. end => Cardinality(all) = preview.messages
    <3>1. LET size == IF end >= start THEN end - start + 1 ELSE 0
          IN  /\ Cardinality(all) <= size
              /\ all = start .. end => Cardinality(all) = size
      BY <2>2, WithinInterval
    <3> QED
      BY <2>1, <2>2, <3>1
  <2>5. /\ ~preview.approximate => DeliveredCount(o) <= preview.messages
        /\ ~preview.approximate /\ AsksForAll(r) => DeliveredCount(o) = preview.messages
    <3>1. DeliveredCount(o) = Cardinality(all)
      BY <1>8, <1>5
    <3> HIDE DEF o
    <3> QED
      BY <2>2, <2>4, <3>1
  <2> QED
    BY <2>3, <2>5 DEF preview, ended
<1>6. CASE r.limit = 0 /\ r.from = "time"
  <2>1. /\ preview.approximate
        /\ ~preview.unbounded => ~(r.untilTime = 0 /\ r.untilSeq = 0)
    <3>1. preview = [messages |-> 0, unbounded |-> r.untilTime = 0 /\ r.untilSeq = 0,
                     approximate |-> TRUE]
      <4>1. ~(r.limit > 0) /\ r.from # "new"
        BY <1>6
      <4> QED
        BY <1>6, <4>1, Zenon DEF ComputeReplayDryRun
    <3> HIDE DEF preview
    <3>2. preview.approximate = TRUE /\ preview.unbounded = (r.untilTime = 0 /\ r.untilSeq = 0)
      BY <3>1, Zenon
    <3> QED
      BY <3>2, Zenon
  <2>2. ~OneMessage(r)
    BY <1>6 DEF OneMessage
  <2> HIDE DEF preview
  <2>3. ~preview.unbounded => ended
    <3>1. CASE r.untilSeq > 0
      BY <1>1, <3>1
    <3>2. CASE r.untilTime > 0
      BY <1>1, <2>2, <3>2
    <3> QED
      BY <1>1, <2>1, <3>1, <3>2
  <2> QED
    BY <2>1, <2>3 DEF preview
<1> QED
  BY <1>1, <1>3, <1>4, <1>5, <1>6

(* For any stream, any subjects of its messages and any request to replay    *)
(* it: a preview that claims a count covers what the replay delivers, one    *)
(* with an end is of a replay with an end, and the count is exact for all of *)
(* an interval without gaps (ComputeReplayDryRun, ReplayConsumer).           *)
THEOREM PreviewSafe == ReplaySpec => []DryRunCovers
<1>1. ReplayInit => ReplayLog
  BY ReplayConstants DEF ReplayInit, ReplayLog
<1> QED
  BY <1>1, ReplayStep, PreviewCovers, PTL DEF ReplaySpec
=============================================================================

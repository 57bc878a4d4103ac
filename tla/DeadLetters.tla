---------------------------- MODULE DeadLetters -----------------------------
(***************************************************************************)
(* Retrying the messages of a dead-letter stream: internal/nats/dlq.go     *)
(* with internal/domain/dlq.go.  A retry reads a message, republishes it   *)
(* on its original subject and deletes it, one call each, so requests of   *)
(* several operators, deletions and failures fall between.                 *)
(*                                                                         *)
(* The stream may be deleted and made again under its name, and its        *)
(* sequences then begin at 1 again: a message is an incarnation of the     *)
(* stream and a sequence.  The original stream keeps the ids of recent     *)
(* messages (the duplicate window) and drops a message whose id it knows.  *)
(***************************************************************************)
EXTENDS Naturals, Sequences, FiniteSets, SequencesExt, FiniteSetsExt

CONSTANTS Incarnation,      \* 1 .. n
          MaxSeq,           \* bound on sequences of one incarnation
          QProc,            \* concurrent retry requests
          Named,            \* lists of sequences a request may name
          MaxDLQListLimit,  \* page size
          Limits,           \* limits a retry-all request may ask for, normalised
          Subjectless,      \* sequences whose message lacks the original subject
          MaxExpiries       \* bound on expiries of the duplicate window

ASSUME RetryConstants ==
  /\ Incarnation \subseteq Nat /\ 1 \in Incarnation
  /\ MaxSeq \in Nat /\ MaxExpiries \in Nat

ASSUME RetryLimits == MaxDLQListLimit \in Nat \ {0} /\ Limits \subseteq Nat \ {0}

Seq1 == 1 .. MaxSeq
Message == Incarnation \X Seq1

VARIABLES inc,        \* incarnation of the stream
          stored,     \* sequences in the stream
          lastSeq,    \* its highest sequence ever
          copies,     \* message -> copies in the original stream
          window,     \* ids in the duplicate window
          expiries,   \* times the window has moved past everything
          removed,    \* messages a retry deleted
          qproc       \* request -> progress

streamVars == <<inc, stored, lastSeq>>
originVars == <<copies, window, expiries>>
qVars == <<streamVars, originVars, removed, qproc>>

QIdle == [pc |-> "idle"]

QInit ==
  /\ inc = 1 /\ stored = {} /\ lastSeq = 0
  /\ copies = [m \in Message |-> 0] /\ window = {} /\ expiries = 0
  /\ removed = {}
  /\ qproc = [p \in QProc |-> QIdle]

QGo(p, next) == qproc' = [qproc EXCEPT ![p] = next]

-----------------------------------------------------------------------------
(* The stream and its surroundings.                                        *)

\* A consumer gives up on a message.
DeadLetter ==
  /\ lastSeq < MaxSeq
  /\ lastSeq' = lastSeq + 1 /\ stored' = stored \cup {lastSeq + 1}
  /\ UNCHANGED <<inc, originVars, removed, qproc>>

\* An operator deletes a message, and the stream's limits discard one.
DeleteMessage ==
  /\ \E s \in stored : stored' = stored \ {s}
  /\ UNCHANGED <<inc, lastSeq, originVars, removed, qproc>>

\* The stream is deleted and created again.
Recreate ==
  /\ inc + 1 \in Incarnation
  /\ inc' = inc + 1 /\ stored' = {} /\ lastSeq' = 0
  /\ UNCHANGED <<originVars, removed, qproc>>

\* The original stream forgets ids.
WindowPasses ==
  /\ window # {} /\ expiries < MaxExpiries
  /\ window' = {} /\ expiries' = expiries + 1
  /\ UNCHANGED <<streamVars, copies, removed, qproc>>

-----------------------------------------------------------------------------
(* RetryDLQMessages.                                                       *)

\* Begin: the sequences named, in that order, or all of them up to a limit, to be collected
\* page by page.  msgs (history): the messages that are there now.
RetryDLQMessages(p) ==
  /\ qproc[p].pc = "idle"
  /\ \/ \E seqs \in Named : QGo(p, [pc |-> "retry", todo |-> seqs])
     \/ \E limit \in Limits :
          QGo(p, [pc |-> "collect", start |-> 0, limit |-> limit, found |-> {},
                  msgs |-> {<<inc, s>> : s \in stored}])
  /\ UNCHANGED <<streamVars, originVars, removed>>

FirstSeq == IF stored = {} THEN lastSeq + 1 ELSE Min(stored)

\* A page begins behind the one before it, so the sequences found are all different and their
\* number is the length of the list.
PageLimit(q) ==
  LET left == q.limit - Cardinality(q.found)
  IN  IF left < MaxDLQListLimit THEN left ELSE MaxDLQListLimit

\* ListDLQMessages, its first call: the stream's bounds.  A stream that is empty or ends before
\* start has no page, and ends the collection.
StreamInfo(p) ==
  LET q == qproc[p]
      from == IF q.start < FirstSeq THEN FirstSeq ELSE q.start
  IN  /\ q.pc = "collect"
      /\ IF stored = {} \/ from > lastSeq
         THEN QGo(p, [pc |-> "collected", found |-> q.found, msgs |-> q.msgs, truncated |-> FALSE])
         ELSE QGo(p, [pc |-> "range", start |-> from, last |-> lastSeq, limit |-> q.limit,
                      found |-> q.found, msgs |-> q.msgs])
      /\ UNCHANGED <<streamVars, originVars, removed>>

\* Either call of ListDLQMessages fails: the request ends, and nothing is retried.
ListFails(p) ==
  /\ qproc[p].pc \in {"collect", "range"}
  /\ QGo(p, QIdle)
  /\ UNCHANGED <<streamVars, originVars, removed>>

\* ListDLQMessages of what is there by now: the first sequences of the range, and where the
\* next page begins (0: nowhere).
Here(q) == {s \in stored : s >= q.start /\ s <= q.last}
FirstOf(S, n) == {s \in S : Cardinality({x \in S : x < s}) < n}

Page_SkipsOne(q) ==
  LET page == FirstOf(Here(q), PageLimit(q))
  IN  [seqs |-> page, next |-> IF page # Here(q) THEN Max(page) + 2 ELSE 0]
Page(q) ==
  LET page == FirstOf(Here(q), PageLimit(q))
      moreRemain == page # {} /\ Max(page) < q.last
      truncated == Cardinality(Here(q)) > PageLimit(q)
      fullPage == Cardinality(page) >= PageLimit(q)
  IN  [seqs |-> page, next |-> IF moreRemain /\ (truncated \/ fullPage) THEN Max(page) + 1 ELSE 0]

\* collectDLQRetryAllSequences: the page is added, and the next one asked for unless there is
\* none or the limit is reached.
CollectPage(p) ==
  LET q == qproc[p]
      listed == Page(q)
      all == q.found \cup listed.seqs
  IN  /\ q.pc = "range"
      /\ IF listed.next # 0 /\ Cardinality(all) < q.limit
         THEN QGo(p, [pc |-> "collect", start |-> listed.next, limit |-> q.limit, found |-> all,
                      msgs |-> q.msgs])
         ELSE QGo(p, [pc |-> "collected", found |-> all, msgs |-> q.msgs,
                      truncated |-> listed.next # 0])
      /\ UNCHANGED <<streamVars, originVars, removed>>

\* The sequences found are retried in the order of the pages.
Ascending(S) == SetToSortSeq(S, LAMBDA a, b : a < b)
RetryCollected(p) ==
  /\ qproc[p].pc = "collected"
  /\ QGo(p, [pc |-> "retry", todo |-> Ascending(qproc[p].found)])
  /\ UNCHANGED <<streamVars, originVars, removed>>

\* retryOneDLQMessage, its read: a message that is gone or has no original subject is reported
\* as failed, and the batch goes on.
GetMessage(p) ==
  LET q == qproc[p]
      s == Head(q.todo)
  IN  /\ q.pc = "retry" /\ q.todo # <<>>
      /\ \/ /\ s \in stored \ Subjectless
            /\ QGo(p, [pc |-> "publish", m |-> <<inc, s>>, todo |-> q.todo])
         \/ (s \notin stored \/ s \in Subjectless) /\ QGo(p, [q EXCEPT !.todo = Tail(@)])
      /\ UNCHANGED <<streamVars, originVars, removed>>

\* RetryPublishHeaders: the id is the stream's name and the sequence.
MsgId(m) == m[2]

\* What the original stream does with a message.
Stored_NoMsgId(m) ==
  /\ copies' = [copies EXCEPT ![m] = IF @ < 3 THEN @ + 1 ELSE @]
  /\ UNCHANGED window
Stored(m) ==
  /\ copies' = IF MsgId(m) \in window THEN copies ELSE [copies EXCEPT ![m] = @ + 1]
  /\ window' = window \cup {MsgId(m)}

Skip(p) == QGo(p, [pc |-> "retry", todo |-> Tail(qproc[p].todo)])

\* PublishRaw.  The error of a publish whose acknowledgement is lost hides that it was stored.
PublishRaw(p) ==
  /\ qproc[p].pc = "publish"
  /\ \/ Stored(qproc[p].m) /\ (QGo(p, [qproc[p] EXCEPT !.pc = "delete"]) \/ Skip(p))
     \/ UNCHANGED <<copies, window>> /\ Skip(p)
  /\ UNCHANGED <<streamVars, expiries, removed>>

\* DeleteMessage of the sequence, in whatever the stream holds by now.
DeleteRetried(p) ==
  LET s == qproc[p].m[2]
  IN  /\ qproc[p].pc = "delete"
      /\ \/ /\ s \in stored
            /\ stored' = stored \ {s}
            /\ removed' = removed \cup {<<inc, s>>}
         \/ UNCHANGED <<stored, removed>>
      /\ Skip(p)
      /\ UNCHANGED <<inc, lastSeq, originVars>>

Finish(p) ==
  /\ qproc[p].pc = "retry" /\ qproc[p].todo = <<>>
  /\ QGo(p, QIdle)
  /\ UNCHANGED <<streamVars, originVars, removed>>

QNext ==
  \/ DeadLetter \/ DeleteMessage \/ Recreate \/ WindowPasses
  \/ \E p \in QProc :
       \/ RetryDLQMessages(p) \/ StreamInfo(p) \/ ListFails(p) \/ CollectPage(p) \/ RetryCollected(p)
       \/ GetMessage(p) \/ PublishRaw(p) \/ DeleteRetried(p) \/ Finish(p)

QSpec == QInit /\ [][QNext]_qVars

-----------------------------------------------------------------------------
\* The type invariant.
QTypeOK ==
  /\ inc \in Incarnation /\ stored \subseteq 1 .. lastSeq /\ lastSeq \in 0 .. MaxSeq
  /\ removed \subseteq Message /\ window \subseteq Seq1 /\ expiries \in 0 .. MaxExpiries

\* A message a retry deletes from the dead-letter stream is in the original stream, unless one
\* of another incarnation was stored under its sequence, and requests that race, are
\* repeated or fail half way store it once more only when the duplicate window has passed
\* (retryOneDLQMessage, RetryPublishHeaders).
RetryDelivers ==
  \A m \in Message :
    /\ m \in removed /\ copies[m] = 0 =>
         \E i \in Incarnation \ {m[1]} : copies[<<i, m[2]>>] > 0
    /\ copies[m] <= 1 + expiries

\* A retry of everything that does not report itself truncated has collected every message
\* that was there when it began and still is, whatever was deleted or added while it paged
\* (collectDLQRetryAllSequences, ListDLQMessages).
RetryAllComplete ==
  \A p \in QProc : qproc[p].pc = "collected" /\ ~qproc[p].truncated =>
    \A m \in qproc[p].msgs : m[1] = inc /\ m[2] \in stored => m[2] \in qproc[p].found
=============================================================================

--------------------------- MODULE ReplayPreview ----------------------------
(***************************************************************************)
(* The preview of a replay: internal/domain/replay_dry_run.go, from the    *)
(* bounds of the stream alone, against what ReplayConsumer of              *)
(* internal/nats/client.go asks the server for while messages come and go. *)
(***************************************************************************)
EXTENDS Naturals, FiniteSets, FiniteSetsExt

CONSTANTS
  MaxReplay,   \* bound on sequences of the stream
  Selected     \* the sequences whose subject a request's filterSubject selects

ASSUME ReplayConstants == MaxReplay \in Nat

VARIABLES replayMsgs,  \* sequences stored
          replayLast   \* highest sequence ever

replayVars == <<replayMsgs, replayLast>>

ReplayInit == replayMsgs = {} /\ replayLast = 0

ReplayFirst == IF replayMsgs = {} THEN replayLast + 1 ELSE Min(replayMsgs)

ReplayPublish ==
  /\ replayLast < MaxReplay
  /\ replayLast' = replayLast + 1 /\ replayMsgs' = replayMsgs \cup {replayLast + 1}

ReplayDelete ==
  /\ \E s \in replayMsgs : replayMsgs' = replayMsgs \ {s}
  /\ UNCHANGED replayLast

\* The stream is deleted and created again.
ReplayRecreate == replayLast > 0 /\ replayLast' = 0 /\ replayMsgs' = {}

ReplayNext == ReplayPublish \/ ReplayDelete \/ ReplayRecreate

ReplaySpec == ReplayInit /\ [][ReplayNext]_replayVars

-----------------------------------------------------------------------------
(* Replay requests: 0 stands for an absent seq, untilSeq, untilTime or      *)
(* limit.  Publication times grow with sequences, so a time is the sequence *)
(* it falls before: seq is that of from = "seq", or of the first message    *)
(* since the time of from = "time", and untilTime that of the first message *)
(* after it.                                                                *)

ReplayRequest ==
  [from : {"seq", "time", "beginning", "new"}, seq : 0 .. MaxReplay, untilSeq : 0 .. MaxReplay,
   untilTime : 0 .. MaxReplay + 1, limit : 0 .. 2, filter : BOOLEAN]

\* Validate of a request.
ValidReplay(r) ==
  /\ r.from \in {"seq", "time"} => r.seq > 0
  /\ r.from = "new" => r.untilSeq = 0 /\ r.untilTime = 0 /\ r.limit = 0
  /\ r.from = "seq" /\ r.untilSeq > 0 => r.untilSeq >= r.seq
  /\ r.from = "time" /\ r.untilTime > 0 => r.untilTime >= r.seq

ResolveReplayStartSeq(r, first) ==
  IF r.from = "beginning" THEN (IF first = 0 THEN 1 ELSE first)
  ELSE IF r.from = "seq" THEN r.seq ELSE 0

\* The preview: how many messages, whether the replay has no end, whether the count is a guess.
ComputeReplayDryRun_OffByOne(r, first, last) ==
  LET start == ResolveReplayStartSeq(r, first)
      end == IF r.untilSeq > 0 /\ r.untilSeq <= last THEN r.untilSeq ELSE last
  IN  [messages |-> IF r.limit > 0 THEN r.limit ELSE IF end >= start THEN end - start ELSE 0,
       unbounded |-> FALSE, approximate |-> r.from \in {"new", "time"}]
ComputeReplayDryRun(r, first, last) ==
  LET start == ResolveReplayStartSeq(r, first)
      end == IF r.untilSeq > 0 /\ (last = 0 \/ r.untilSeq <= last) THEN r.untilSeq ELSE last
      count == IF start > 0 /\ end >= start THEN end - start + 1 ELSE 0
  IN  IF r.limit > 0 THEN [messages |-> r.limit, unbounded |-> FALSE, approximate |-> FALSE]
      ELSE IF r.from = "new" THEN [messages |-> 0, unbounded |-> TRUE, approximate |-> FALSE]
      ELSE IF r.from = "time"
           THEN [messages |-> 0, unbounded |-> r.untilTime = 0 /\ r.untilSeq = 0,
                 approximate |-> TRUE]
      ELSE [messages |-> count, unbounded |-> r.untilSeq = 0, approximate |-> FALSE]

OneMessage(r) == r.from = "seq" /\ r.untilSeq = r.seq /\ r.limit = 1

\* ReplayConsumer's options to the library: where to begin and to end (0: no end), how many, of
\* which subject.  The option for one message comes without the end by time.
ReplayOpts(r) ==
  [start |-> IF r.from \in {"seq", "time"} THEN r.seq
             ELSE IF r.from = "new" THEN replayLast + 1 ELSE 1,
   until |-> r.untilSeq, untilTime |-> IF OneMessage(r) THEN 0 ELSE r.untilTime,
   limit |-> r.limit, filter |-> r.filter]

\* What a replay with these options has to deliver of the messages stored now.
Delivered(o) ==
  {s \in replayMsgs : /\ s >= o.start
                      /\ o.until = 0 \/ s <= o.until
                      /\ o.untilTime = 0 \/ s < o.untilTime
                      /\ o.filter => s \in Selected}
DeliveredCount(o) ==
  IF o.limit > 0 /\ o.limit < Cardinality(Delivered(o)) THEN o.limit ELSE Cardinality(Delivered(o))

\* The request asks for all of what lies between its sequences, and the stream has it all.
AsksForAll(r) ==
  /\ r.limit = 0 /\ r.untilTime = 0 /\ ~r.filter
  /\ replayMsgs = ReplayFirst .. replayLast /\ ReplayOpts(r).start >= ReplayFirst

-----------------------------------------------------------------------------
\* Of a stream that has had messages, the preview of a replay that claims a count never promises
\* fewer messages than the replay has to deliver, whatever ends or filters it, and one it says
\* has an end has one; the count is exact for a replay with no limit, no end by time and no
\* filter of a stream without a gap (ComputeReplayDryRun against ReplayConsumer).
DryRunCovers ==
  replayLast > 0 => \A r \in ReplayRequest : ValidReplay(r) =>
    LET preview == ComputeReplayDryRun(r, ReplayFirst, replayLast)
        o == ReplayOpts(r)
    IN  /\ ~preview.unbounded => o.limit > 0 \/ o.until > 0 \/ o.untilTime > 0
        /\ ~preview.approximate => DeliveredCount(o) <= preview.messages
        /\ ~preview.approximate /\ AsksForAll(r) => DeliveredCount(o) = preview.messages
=============================================================================

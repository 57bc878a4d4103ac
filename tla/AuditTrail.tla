----------------------------- MODULE AuditTrail ----------------------------
(***************************************************************************)
(* What the audit log promises (internal/audit, internal/api/middleware/   *)
(* audit.go): it may miss a request, but what it holds are requests the    *)
(* console answered with success, each once and in the order in which they *)
(* were answered: mutations through the API by somebody who may make them, *)
(* and strays, which change nothing.                                       *)
(***************************************************************************)
EXTENDS Naturals, Sequences, FiniteSets

VARIABLES mutation,  \* the requests that change something and may do so; fixed
          stray,     \* those to a page of the web application, other than
                     \* reads; anybody may send them; fixed
          answered,  \* of both, the successful, in the order they were answered
          position,  \* how many of them the log has dealt with
          rows       \* the log, oldest first

TrailInit == answered = <<>> /\ position = 0 /\ rows = <<>>

Answer(r) ==
  /\ \A i \in 1 .. Len(answered) : answered[i] # r
  /\ answered' = Append(answered, r)
  /\ UNCHANGED <<mutation, stray, position, rows>>

\* The i-th answer is stored; the ones skipped are missed for good.
Store(i) ==
  /\ position' = i
  /\ rows' = Append(rows, answered[i])
  /\ UNCHANGED <<mutation, stray, answered>>

TrailNext ==
  \/ \E r \in mutation \cup stray : Answer(r)
  \/ \E i \in position + 1 .. Len(answered) : Store(i)

TrailSpec == TrailInit /\ [][TrailNext]_<<mutation, stray, answered, position, rows>>
=============================================================================

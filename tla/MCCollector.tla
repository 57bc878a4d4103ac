---------------------------- MODULE MCCollector ----------------------------
(* What the collector drives, explored one part at a time: the alerts of    *)
(* its rules, the edits of a rule that race with one console, the store of  *)
(* its samples and the node events.  Bound keeps the parts small: no rule   *)
(* is edited while two consoles evaluate or something fails, two tasks of   *)
(* the store are under way at a time, node events on their own and without  *)
(* a cleanup.                                                               *)
EXTENDS AlertLifecycle, SampleStore, TLC

VARIABLE part

Symmetry == Permutations(Console) \cup Permutations(Alert)

MCInit ==
  /\ Init /\ SsInit /\ part \in {"alerts", "edits", "store", "nodes"}
  /\ part \notin {"alerts", "edits"} => \A c \in Console : smtp[c] = "ready"

Under(tasks) == Cardinality({r \in Replica : tasks[r].pc # "idle"})
Bound ==
  /\ Under(scrape) + Under(cleanup) <= 2
  /\ part = "store" => events = {} /\ routes = Node
  /\ part = "nodes" => now = Start /\ Under(cleanup) = 0

BoundEdits ==
  /\ part = "alerts" => \A e \in Editor : edit[e] = None
  /\ part = "edits" => faults = 0 /\ Cardinality({c \in Console : pc[c] # "idle"}) <= 1

MCNext ==
  \/ part \in {"alerts", "edits"} /\ Next /\ UNCHANGED <<part, ssVars>> /\ BoundEdits'
  \/ part \in {"store", "nodes"} /\ SsNext /\ UNCHANGED <<part, vars>> /\ Bound'

MCSpec == MCInit /\ [][MCNext]_<<part, vars, ssVars>>
=============================================================================

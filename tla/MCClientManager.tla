-------------------------- MODULE MCClientManager --------------------------
(* The connection manager, the status it shows and the table of clusters,   *)
(* explored one at a time: part names the one that moves.  MCNext bounds    *)
(* the status part: while an event stream is open, at most one request is   *)
(* under way.                                                               *)
EXTENDS ClientManager, ConnectionStatus, ClusterRegistry

VARIABLE part

MCInit == Init /\ CsInit /\ RegInit /\ part \in {"manager", "status", "registry"}

Crowded ==
  /\ \E w \in Watcher : watcher[w].on
  /\ Cardinality({p \in Caller : caller[p].pc # "idle"}) > 1

MCNext ==
  \/ part = "manager" /\ Next /\ UNCHANGED <<part, csVars, regVars>>
  \/ part = "status" /\ CsNext /\ ~Crowded' /\ UNCHANGED <<part, vars, regVars>>
  \/ part = "registry" /\ RegNext /\ UNCHANGED <<part, vars, csVars>>

MCSpec == MCInit /\ [][MCNext]_<<part, vars, csVars, regVars>>
MCFairSpec == MCSpec /\ Fairness
=============================================================================

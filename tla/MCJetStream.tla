---------------------------- MODULE MCJetStream ----------------------------
(* The JetStream side of the console in one run: the caches that show a     *)
(* cluster with every request that writes to it, the retries of a           *)
(* dead-letter stream, the walk through one stream and the preview of a     *)
(* replay.  They share no state, so each is explored with the others at     *)
(* rest: part names the one that moves.  At most one retry pages at a time  *)
(* (paging only reads), and two navigations are under way at once only      *)
(* while the cache is empty and the stream below its bound: then they race  *)
(* for the cache, and later they meet in nothing but what each one leaves   *)
(* in it.                                                                   *)
EXTENDS ClusterReads, DeadLetters, StreamNav, ReplayPreview

CONSTANT Parts

MCNamed == {<<1, 1>>, <<2, 1>>}

VARIABLE part

jetVars == <<vVars, qVars, navVars, replayVars, part>>

Init == VInit /\ QInit /\ NavInit /\ ReplayInit /\ part \in Parts

BothPage == \A p \in QProc : qproc[p].pc \in {"collect", "range", "collected"}
BothWalk ==
  (present \cup absent # {} \/ navLast = MaxNav) /\ \A w \in Walker : nav[w].pc # "idle"

Next ==
  \/ part = "reads" /\ VNext /\ UNCHANGED <<part, qVars, navVars, replayVars>>
  \/ part = "retries" /\ QNext /\ ~BothPage' /\ UNCHANGED <<part, vVars, navVars, replayVars>>
  \/ part = "walk" /\ NavNext /\ ~BothWalk' /\ UNCHANGED <<part, vVars, qVars, replayVars>>
  \/ part = "replay" /\ ReplayNext /\ UNCHANGED <<part, vVars, qVars, navVars>>

Spec == Init /\ [][Next]_jetVars /\ VFairness
=============================================================================

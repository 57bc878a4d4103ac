--------------------------- MODULE MCConnzBroker ---------------------------
(* The event-feed broker and the Replicas page, whose feed is one of the    *)
(* broker's, explored one at a time: part names the one that moves.  The    *)
(* page's cluster has one monitoring URL, or one per server and one of them *)
(* twice; between requests an operator may take the second away, or give    *)
(* it, whichever is preferred (a request works on the list it began with).  *)
(* At most one of the page and the scrape is between its routes and its     *)
(* answer, where neither writes what the other reads.                       *)
EXTENDS ConnzBroker, Replicas

CONSTANTS s1, s2, b1, b2

MCServerAt == (b1 :> s1) @@ (b2 :> s2)
MCRegistered == {[primary |-> b1, derived |-> <<b1>>], [primary |-> b1, derived |-> <<b1, b2, b2>>]}

BothRead == \A p \in Poll \cup {Scraper} : poll[p].pc \in {"varz", "build"}
Quiet == \A p \in Poll \cup {Scraper} : ~Asking(p)

VARIABLE part

MCInit == Init /\ ReplicasInit /\ part \in {"broker", "replicas"}

MCNext ==
  \/ part = "broker" /\ Next /\ UNCHANGED <<part, repVars>>
  \/ part = "replicas" /\ ReplicasNext /\ (cluster' = cluster \/ Quiet) /\ ~BothRead' /\ UNCHANGED <<part, vars>>

MCSpec == MCInit /\ [][MCNext]_<<part, vars, repVars>> /\ Fairness
=============================================================================

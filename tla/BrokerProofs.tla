--------------------------- MODULE BrokerProofs ---------------------------
(***************************************************************************)
(* What the event-feed broker promises its subscribers, proved for any     *)
(* number of them, any buffer and any error threshold; and what the        *)
(* Replicas page shows and reaches, proved for any cluster, any lists of   *)
(* monitoring URLs and any number of requests.                             *)
(***************************************************************************)
EXTENDS ConnzBroker, Replicas, SequenceTheorems, FiniteSetTheorems, WellFoundedInduction, TLAPS

(* The types of the variables, and what a channel holds.                     *)
Types ==
  /\ entry     \in Sub \cup {None}
  /\ listeners \in [Sub -> SUBSET Sub]
  /\ stop      \in [Sub -> BOOLEAN]
  /\ loop      \in [Sub -> {"none", "start", "run", "done"}]
  /\ scraping  \in [Sub -> BOOLEAN]
  /\ scr       \in [Sub -> {"none", "fetch", "failed", "publish", "send"}]
  /\ data      \in [Sub -> Payload \cup {Offline, None}]
  /\ targets   \in [Sub -> SUBSET Sub]
  /\ latest    \in [Sub -> Payload \cup {Offline, None}]
  /\ failCount \in [Sub -> 0..Threshold]
  /\ pc        \in [Sub -> {"idle", "on", "closeStop", "wait", "gone"}]
  /\ mine      \in [Sub -> Sub \cup {None}]
  /\ view      \in [Sub -> Payload \cup {Offline, None}]
  /\ dropped   \in SUBSET Sub
  /\ ch        = [s \in Sub |-> ch[s]]
Channels == \A s \in Sub : ch[s] \in Seq(Payload \cup {Offline}) /\ Len(ch[s]) <= Buffer

(* A subscriber has an entry from the moment it subscribes, an entry is      *)
(* named by one that did, and only an entry that was removed is stopped.     *)
Entries ==
  /\ entry # None => pc[entry] # "idle"
  /\ \A s \in Sub :
       /\ mine[s] = None <=> pc[s] = "idle"
       /\ mine[s] # None => pc[mine[s]] # "idle"
       /\ pc[s] = "idle" => ch[s] = <<>> /\ loop[s] = "none" /\ scr[s] = "none"
       /\ pc[s] = "closeStop" => mine[s] # entry
       /\ stop[s] => pc[s] # "idle" /\ s # entry
       /\ \A q \in listeners[s] : mine[q] = s

(* The one scrape of an entry: it holds a payload from the fetch on, and it  *)
(* sends the latest one, to subscribers of that entry.                       *)
Scrapes ==
  \A e \in Sub :
    /\ scraping[e] <=> scr[e] # "none"
    /\ scr[e] \in {"publish", "send"} => data[e] # None
    /\ scr[e] = "send" /\ entry = e => data[e] = latest[e]
    /\ targets[e] # {} => scr[e] = "send"
    /\ \A s \in targets[e] : mine[s] = e

(* The inductive invariant of the broker.                                    *)
BrokerInv == Types /\ Channels /\ Entries /\ Scrapes /\ LoopWhileListened /\ NoMissedUpdate

(* What a subscriber was given last, when it reads and when it is sent more. *)
LEMMA NewestKept ==
  ASSUME NEW S, NEW q \in Seq(S), q # <<>>
  PROVE  /\ Tail(q) \in Seq(S) /\ Len(Tail(q)) <= Len(q)
         /\ Tail(q) = <<>> => Head(q) = Last(q)
         /\ Tail(q) # <<>> => Last(Tail(q)) = Last(q)
         /\ Head(q) \in S
<1>1. Len(q) \in Nat \ {0} /\ Len(Tail(q)) = Len(q) - 1 /\ Head(q) = q[1] /\ Tail(q) \in Seq(S)
  BY EmptySeq, HeadTailProperties
<1>2. Tail(q) = <<>> => Len(q) = 1
  <2>1. Tail(q) = <<>> => Len(Tail(q)) = 0
    BY EmptySeq
  <2> QED
    BY <1>1, <2>1
<1>3. Tail(q) # <<>> => Len(Tail(q)) \in 1 .. Len(Tail(q))
  BY <1>1, EmptySeq
<1> QED
  BY <1>1, <1>2, <1>3, HeadTailProperties DEF Last

LEMMA NewestSent ==
  ASSUME NEW S, NEW q \in Seq(S), NEW x \in S
  PROVE  /\ Append(q, x) \in Seq(S) /\ Append(q, x) # <<>>
         /\ Last(Append(q, x)) = x /\ Len(Append(q, x)) = Len(q) + 1
  BY DEF Last

LEMMA BrokerStart == Init => BrokerInv
  BY ConnzConstants
  DEF Init, BrokerInv, Types, Channels, Entries, Scrapes, LoopWhileListened, NoMissedUpdate

(* A scrape that ends with nobody left to serve changes nothing else.        *)
LEMMA ScrapeEnds ==
  ASSUME BrokerInv, NEW e \in Sub, EndScrape(e), scr[e] = "send" => targets[e] = {},
         failCount' \in [Sub -> 0 .. Threshold],
         UNCHANGED <<entry, listeners, stop, latest, loop, targets, subVars>>
  PROVE  BrokerInv'
<1>1. Types'
  BY DEF BrokerInv, EndScrape, Types, subVars
<1>2. Channels' /\ Entries' /\ LoopWhileListened' /\ NoMissedUpdate'
  BY
  DEF BrokerInv, EndScrape, Types, Channels, Entries, LoopWhileListened, NoMissedUpdate, Newest,
      subVars
<1>3. Scrapes'
  BY DEF BrokerInv, EndScrape, Types, Scrapes, subVars
<1> QED
  BY <1>1, <1>2, <1>3 DEF BrokerInv

LEMMA BrokerStep == ASSUME BrokerInv, [Next]_vars PROVE BrokerInv'
<1> USE ConnzConstants DEF BrokerInv, entryVars, scrVars, subVars
<1>1. ASSUME NEW s \in Sub, Subscribe(s) PROVE BrokerInv'
  <2>1. Types' /\ Channels'
    BY <1>1 DEF Subscribe, Types, Channels
  <2>2. Entries'
    BY <1>1 DEF Subscribe, Types, Entries, LoopWhileListened
  <2>3. Scrapes'
    <3>1. pc[s] = "idle" /\ scr[s] = "none" /\ entry' \in {s, entry} /\ mine' = [mine EXCEPT ![s] = entry']
      BY <1>1 DEF Subscribe, Entries
    <3>2. \A e \in Sub : s \notin targets[e]
      BY <3>1 DEF Entries, Scrapes, Types
    <3>3. UNCHANGED <<scraping, scr, data, targets, latest>>
      BY <1>1 DEF Subscribe
    <3> QED
      BY <3>1, <3>2, <3>3 DEF Scrapes, Types
  <2>4. LoopWhileListened'
    <3> DEFINE e == IF entry = None THEN s ELSE entry
    <3>1. /\ e \in Sub /\ entry' = e /\ mine' = [mine EXCEPT ![s] = e]
          /\ listeners' = [listeners EXCEPT ![e] = @ \cup {s}]
          /\ pc' = [pc EXCEPT ![s] = "on"] /\ stop' = stop /\ pc[s] = "idle"
      BY <1>1 DEF Subscribe, Types
    <3>2. loop'[e] \in {"start", "run"}
      BY <1>1 DEF Subscribe, Types, LoopWhileListened
    <3>3. ~stop[e]
      BY <3>1 DEF Entries
    <3>4. \A q \in Sub \ {s} : pc[q] = "on" => mine[q] = e /\ q \in listeners[e]
      BY DEF Entries, LoopWhileListened
    <3>5. \A f \in Sub \ {e} : listeners[f] = {}
      BY DEF LoopWhileListened
    <3> HIDE DEF e
    <3> QED
      BY <3>1, <3>2, <3>3, <3>4, <3>5 DEF LoopWhileListened, Types
  <2>5. NoMissedUpdate'
    BY <1>1 DEF Subscribe, Types, Entries, LoopWhileListened, NoMissedUpdate, Newest
  <2> QED
    BY <2>1, <2>2, <2>3, <2>4, <2>5
<1>2. ASSUME NEW s \in Sub, Read(s) PROVE BrokerInv'
  <2>1. ch[s] \in Seq(Payload \cup {Offline}) /\ ch[s] # <<>> /\ pc[s] = "on"
    BY <1>2 DEF Read, Channels
  <2>a. Types'
    <3>1. Head(ch[s]) \in Payload \cup {Offline}
      BY <2>1, NewestKept
    <3> QED
      BY <1>2, <3>1 DEF Read, Types
  <2>b. Channels'
    BY <1>2, <2>1, NewestKept DEF Read, Types, Channels
  <2>2. Entries' /\ Scrapes' /\ LoopWhileListened'
    BY <1>2 DEF Read, Types, Entries, Scrapes, LoopWhileListened
  <2>3. \A q \in Sub : Newest(q)' = Newest(q)
    <3>2. /\ ch'[s] = Tail(ch[s]) /\ view'[s] = Head(ch[s])
          /\ \A q \in Sub \ {s} : ch'[q] = ch[q] /\ view'[q] = view[q]
      BY <1>2 DEF Read, Types
    <3>3. Newest(s)' = Newest(s)
      BY <2>1, <3>2, NewestKept DEF Newest
    <3> QED
      BY <3>2, <3>3 DEF Newest
  <2>4. NoMissedUpdate'
    BY <1>2, <2>3 DEF Read, NoMissedUpdate
  <2> QED
    BY <2>a, <2>b, <2>2, <2>4
<1>3. ASSUME NEW s \in Sub, Unsubscribe(s) PROVE BrokerInv'
  <2>1. entry \in Sub /\ mine[s] = entry /\ s \in listeners[entry]
    BY <1>3 DEF Unsubscribe, Types, Entries, LoopWhileListened
  <2>2. Types' /\ Channels'
    <3>a. listeners' \in [Sub -> SUBSET Sub] /\ entry' \in Sub \cup {None}
      BY <1>3, <2>1 DEF Unsubscribe, Types
    <3>b. latest' \in [Sub -> Payload \cup {Offline, None}] /\ failCount' \in [Sub -> 0 .. Threshold]
      BY <1>3, <2>1 DEF Unsubscribe, Types
    <3>c. pc' \in [Sub -> {"idle", "on", "closeStop", "wait", "gone"}]
      BY <1>3 DEF Unsubscribe, Types
    <3>d. /\ view' \in [Sub -> Payload \cup {Offline, None}] /\ dropped' \in SUBSET Sub
          /\ ch' = [q \in Sub |-> ch'[q]]
      BY <1>3 DEF Unsubscribe, Types
    <3>1. Types'
      BY <1>3, <3>a, <3>b, <3>c, <3>d DEF Unsubscribe, Types
    <3>2. Channels'
      BY <1>3 DEF Unsubscribe, Types, Channels
    <3> QED
      BY <3>1, <3>2
  <2>3. Entries'
    BY <1>3, <2>1 DEF Unsubscribe, Types, Entries
  <2>4. Scrapes'
    BY <1>3, <2>1 DEF Unsubscribe, Types, Scrapes
  <2>5. LoopWhileListened'
    BY <1>3, <2>1, SMTT(30) DEF Unsubscribe, Types, LoopWhileListened
  <2>6. NoMissedUpdate'
    BY <1>3, <2>1 DEF Unsubscribe, Types, LoopWhileListened, NoMissedUpdate, Newest
  <2> QED
    BY <2>2, <2>3, <2>4, <2>5, <2>6
<1>4. ASSUME NEW s \in Sub, CloseStop(s) PROVE BrokerInv'
  <2>1. Types'
    BY <1>4 DEF CloseStop, Types, Entries
  <2>2. Channels' /\ NoMissedUpdate'
    BY <1>4 DEF CloseStop, Types, Channels, NoMissedUpdate, Newest
  <2>3. Entries' /\ LoopWhileListened'
    BY <1>4 DEF CloseStop, Types, Entries, LoopWhileListened
  <2>4. Scrapes'
    BY <1>4 DEF CloseStop, Types, Scrapes
  <2> QED
    BY <2>1, <2>2, <2>3, <2>4
<1>5. ASSUME NEW s \in Sub, WaitLoop(s) PROVE BrokerInv'
  <2>1. Types'
    BY <1>5 DEF WaitLoop, Types, Entries
  <2>2. Channels' /\ NoMissedUpdate'
    BY <1>5 DEF WaitLoop, Types, Channels, NoMissedUpdate, Newest
  <2>3. Entries' /\ LoopWhileListened'
    BY <1>5 DEF WaitLoop, Types, Entries, LoopWhileListened
  <2>4. Scrapes'
    BY <1>5 DEF WaitLoop, Types, Scrapes
  <2> QED
    BY <2>1, <2>2, <2>3, <2>4
<1>6. ASSUME NEW e \in Sub, Kick(e) PROVE BrokerInv'
  <2>1. Types'
    BY <1>6 DEF Kick, Types, Entries
  <2>2. Channels' /\ NoMissedUpdate'
    BY <1>6 DEF Kick, Types, Channels, NoMissedUpdate, Newest
  <2>3. Entries' /\ LoopWhileListened'
    BY <1>6 DEF Kick, Types, Entries, LoopWhileListened
  <2>4. Scrapes'
    BY <1>6 DEF Kick, Types, Scrapes
  <2> QED
    BY <2>1, <2>2, <2>3, <2>4
<1>7. ASSUME NEW e \in Sub, LoopExit(e) PROVE BrokerInv'
  BY <1>7, SMTT(30)
  DEF LoopExit, Types, Channels, Entries, Scrapes, LoopWhileListened, NoMissedUpdate, Newest
<1>8. ASSUME NEW e \in Sub, Fetch(e) PROVE BrokerInv'
  <2>0. /\ scr[e] = "fetch" /\ UNCHANGED <<entry, entryVars, loop, scraping, targets, subVars>>
        /\ \/ scr' = [scr EXCEPT ![e] = "failed"] /\ data' = data
           \/ scr' = [scr EXCEPT ![e] = "publish"] /\ \E w \in Payload : data' = [data EXCEPT ![e] = w]
    BY <1>8 DEF Fetch
  <2>1. Types'
    BY <2>0 DEF Types
  <2>2. Channels' /\ Entries' /\ LoopWhileListened' /\ NoMissedUpdate'
    BY <1>8 DEF Fetch, Types, Channels, Entries, LoopWhileListened, NoMissedUpdate, Newest
  <2>3. Scrapes'
    BY <2>0 DEF Types, Scrapes
  <2> QED
    BY <2>1, <2>2, <2>3
<1>9. ASSUME NEW e \in Sub, FetchFailed(e) PROVE BrokerInv'
  <2>1. failCount' \in [Sub -> 0 .. Threshold]
    BY <1>9 DEF FetchFailed, Saturate, Types
  <2>2. CASE EndScrape(e)
    BY <1>9, <2>1, <2>2, ScrapeEnds DEF FetchFailed
  <2>3. CASE /\ scr'  = [scr EXCEPT ![e] = "publish"]
             /\ data' = [data EXCEPT ![e] = Offline]
             /\ UNCHANGED scraping
    <3>1. scr[e] = "failed" /\ UNCHANGED <<entry, listeners, stop, latest, loop, targets, subVars>>
      BY <1>9 DEF FetchFailed
    <3>2. Types'
      BY <2>1, <2>3, <3>1 DEF Types
    <3>3. Channels' /\ Entries' /\ LoopWhileListened' /\ NoMissedUpdate'
      BY <2>3, <3>1, SMTT(30)
      DEF Types, Channels, Entries, LoopWhileListened, NoMissedUpdate, Newest
    <3>4. Scrapes'
      BY <2>3, <3>1 DEF Types, Scrapes
    <3> QED
      BY <3>2, <3>3, <3>4
  <2> QED
    BY <1>9, <2>2, <2>3 DEF FetchFailed
<1>10. ASSUME NEW e \in Sub, Publish(e) PROVE BrokerInv'
  <2>1. /\ scr[e] = "publish" /\ failCount' \in [Sub -> 0 .. Threshold]
        /\ UNCHANGED <<entry, listeners, stop, loop, subVars>>
    BY <1>10 DEF Publish, Types
  <2>2. CASE EndScrape(e) /\ UNCHANGED <<latest, targets>>
    BY <2>1, <2>2, ScrapeEnds
  <2>3. CASE /\ entry = e
             /\ latest'  = [latest EXCEPT ![e] = data[e]]
             /\ targets' = [targets EXCEPT ![e] = listeners[e]]
             /\ scr'     = [scr EXCEPT ![e] = "send"]
             /\ UNCHANGED <<scraping, data>>
    <3>1. Types'
      BY <2>1, <2>3 DEF Types
    <3>2. Channels' /\ Entries' /\ LoopWhileListened'
      <4>1. Channels'
        BY <2>1, <2>3 DEF Channels
      <4>2. Entries'
        BY <2>1, <2>3 DEF Types, Entries
      <4>3. LoopWhileListened'
        BY <2>1, <2>3 DEF Types, LoopWhileListened
      <4> QED
        BY <4>1, <4>2, <4>3
    <3>3. \A s \in Sub : s \in listeners[e] => mine[s] = e
      BY <2>3 DEF Entries
    <3>4. Scrapes'
      BY <2>1, <2>3, <3>3 DEF Types, Scrapes
    <3>5. NoMissedUpdate'
      BY <2>1, <2>3 DEF Types, LoopWhileListened, NoMissedUpdate, Newest
    <3> QED
      BY <3>1, <3>2, <3>4, <3>5
  <2> QED
    BY <1>10, <2>2, <2>3 DEF Publish
<1>11. ASSUME NEW e \in Sub, Send(e) PROVE BrokerInv'
  <2>1. PICK s \in targets[e] :
          /\ targets' = [targets EXCEPT ![e] = @ \ {s}]
          /\ ch'      = [ch EXCEPT ![s] = IF Len(ch[s]) = Buffer \/ pc[s] # "on" THEN @ ELSE Append(@, data[e])]
          /\ dropped' = IF Len(ch[s]) = Buffer THEN dropped \cup {s} ELSE dropped
    BY <1>11 DEF Send
  <2>2. scr[e] = "send" /\ UNCHANGED <<entry, entryVars, loop, scraping, scr, data, pc, mine, view>>
    BY <1>11 DEF Send
  <2>3. s \in Sub /\ mine[s] = e /\ data[e] \in Payload \cup {Offline}
    BY <2>1, <2>2 DEF Types, Scrapes
  <2>4. Types'
    BY <2>1, <2>2, <2>3, ZenonT(60) DEF Types
  <2>a. Channels'
    BY <2>1, <2>2, <2>3, NewestSent DEF Types, Channels
  <2>5. Entries' /\ Scrapes' /\ LoopWhileListened'
    BY <2>1, <2>2, <2>3 DEF Types, Entries, Scrapes, LoopWhileListened
  <2>6. ASSUME pc[s] = "on", s \notin dropped' PROVE Newest(s)' = latest[e]
    <3>1. ch'[s] = Append(ch[s], data[e])
      BY <2>1, <2>3, <2>6 DEF Types
    <3>2. Newest(s)' = data[e]
      BY <2>3, <3>1, NewestSent DEF Channels, Newest
    <3> QED
      BY <2>2, <2>3, <2>6, <3>2 DEF Scrapes, LoopWhileListened
  <2>7. NoMissedUpdate'
    BY <2>1, <2>2, <2>3, <2>6 DEF Types, NoMissedUpdate, Newest
  <2> QED
    BY <2>4, <2>a, <2>5, <2>7
<1>12. ASSUME NEW e \in Sub, SendDone(e) PROVE BrokerInv'
  BY <1>12, ScrapeEnds DEF SendDone, Types
<1>13. CASE Finished \/ UNCHANGED vars
  <2>1. UNCHANGED vars
    BY <1>13 DEF Finished
  <2>2. Types' /\ Channels'
    BY <2>1 DEF vars, Types, Channels
  <2>3. Entries' /\ Scrapes' /\ LoopWhileListened' /\ NoMissedUpdate'
    BY <2>1 DEF vars, Entries, Scrapes, LoopWhileListened, NoMissedUpdate, Newest
  <2> QED
    BY <2>2, <2>3
<1> HIDE DEF BrokerInv
<1> QED
  BY <1>1, <1>2, <1>3, <1>4, <1>5, <1>6, <1>7, <1>8, <1>9, <1>10, <1>11, <1>12, <1>13
  DEF Next, LeaveStep, ScrapeStep

(* The broker has a loop exactly while somebody listens, and a subscriber    *)
(* falls behind only through a full channel, for any interleaving of         *)
(* subscribers that come and go, scrapes and sends made outside b.mu         *)
(* (Subscribe, unsubscribe, publishPayload).                                 *)
THEOREM BrokerSafe == Spec => [](TypeOK /\ LoopWhileListened /\ NoMissedUpdate)
<1>1. BrokerInv => TypeOK /\ LoopWhileListened /\ NoMissedUpdate
  <2>1. BrokerInv => ch \in [Sub -> Seq(Payload \cup {Offline})]
    BY DEF BrokerInv, Types, Channels
  <2> QED
    BY <2>1 DEF BrokerInv, Types, Channels, TypeOK
<1> QED
  BY <1>1, BrokerStart, BrokerStep, PTL DEF Spec

-----------------------------------------------------------------------------
(* The Replicas page.                                                      *)

(* What a request works on, step by step.                                    *)
RequestShape(q) ==
  \/ q = [pc |-> "idle"]
  \/ q = [pc |-> "routez", todo |-> q.todo, bases |-> q.bases,
          of |-> q.of, during |-> q.during, stable |-> q.stable]
  \/ q = [pc |-> "varz", bases |-> q.bases, reporter |-> q.reporter, routes |-> q.routes,
          of |-> q.of, during |-> q.during, stable |-> q.stable]
  \/ q = [pc |-> "build", monitorBases |-> q.monitorBases, reporter |-> q.reporter,
          routes |-> q.routes, seen |-> q.seen, monitored |-> q.monitored,
          of |-> q.of, during |-> q.during, stable |-> q.stable]
  \/ q = [pc |-> "remember", kept |-> q.kept, ghosts |-> q.ghosts,
          of |-> q.of, during |-> q.during, stable |-> q.stable]
  \/ q = [pc |-> "failed", of |-> q.of, during |-> q.during, stable |-> q.stable]
  \/ q = [pc |-> "storeOffline", during |-> q.during, stable |-> q.stable]

(* Every candidate is among the bases a request asks, and one that it has    *)
(* asked in vain is not of a stable server.                                  *)
Reaching(q) ==
  /\ q.pc \in {"routez", "varz"} => q.bases \in Seq(Base) /\ q.of \subseteq ToSet(q.bases)
  /\ q.pc = "routez" => /\ q.todo \subseteq ToSet(q.bases) /\ q.todo # {}
                        /\ \A b \in q.of : b \in q.todo \/ ServerAt[b] \notin q.stable
  /\ q.pc = "failed" => \A b \in q.of : ServerAt[b] \notin q.stable

(* What a request has seen answered during it, and its servers up now are    *)
(* among the ones that did; with several candidates it has several bases.    *)
Seeing(q, u) ==
  /\ q.pc \in {"routez", "varz"} => u \subseteq q.during
  /\ q.pc \in {"varz", "build"} => q.reporter \in q.during
  /\ q.pc = "build" => /\ q.seen \subseteq q.during /\ q.monitored \in q.during
                       /\ Cardinality(q.of) > 1 => q.monitorBases > 1
  /\ q.pc = "remember" /\ Cardinality(q.of) > 1 => q.ghosts = {}

RequestOK(q, u) == RequestShape(q) /\ Reaching(q) /\ Seeing(q, u)

(* The inductive invariant of the page.                                      *)
PageInv ==
  /\ ReplicasTypeOK
  /\ poll = [p \in Poll \cup {Scraper} |-> poll[p]]
  /\ \A p \in Poll \cup {Scraper} : RequestOK(poll[p], up)

LEMMA LeastOf ==
  ASSUME NEW S, S \subseteq Nat, S # {}
  PROVE  Min(S) \in S /\ \A y \in S : Min(S) <= y
<1> DEFINE less == OpToRel(<, Nat)
<1>1. PICK x \in S : \A y \in S : <<y, x>> \notin less
  <2>1. IsWellFoundedOn(less, Nat)
    BY NatLessThanWellFounded, Zenon
  <2> HIDE DEF less
  <2> QED
    BY <2>1, WFMin
<1>2. ASSUME NEW y \in S PROVE x <= y
  <2>1. ~(y < x)
    BY <1>1 DEF OpToRel
  <2> QED
    BY <2>1
<1> QED
  BY <1>2 DEF Min

(* The first of the bases that are in a set is one of the set.               *)
LEMMA FirstIsOne ==
  ASSUME NEW bases \in Seq(Base), NEW among, among \subseteq ToSet(bases), among # {}
  PROVE  First(bases, among) \in among
<1> DEFINE at == {i \in DOMAIN bases : bases[i] \in among}
<1>1. at \subseteq Nat /\ at # {}
  <2>1. DOMAIN bases \subseteq Nat
    BY LenProperties
  <2>2. PICK b \in among : b \in ToSet(bases)
    OBVIOUS
  <2>3. PICK i \in DOMAIN bases : bases[i] = b
    BY <2>2 DEF ToSet
  <2> QED
    BY <2>1, <2>2, <2>3
<1>2. Min(at) \in at
  BY <1>1, LeastOf
<1> QED
  BY <1>2 DEF First

(* A list has finitely many bases, and one put in front is one more of them. *)
LEMMA BasesFinite ==
  ASSUME NEW bases \in Seq(Base)
  PROVE  IsFiniteSet(ToSet(bases)) /\ ToSet(bases) \subseteq Base
<1>1. Len(bases) \in Nat /\ DOMAIN bases = 1 .. Len(bases) /\ bases \in [1 .. Len(bases) -> Base]
  BY LenProperties
<1>2. bases \in [1 .. Len(bases) -> ToSet(bases)]
  BY <1>1 DEF ToSet
<1>3. bases \in Surjection(1 .. Len(bases), ToSet(bases))
  BY <1>1, <1>2 DEF Surjection, ToSet
<1>4. IsFiniteSet(ToSet(bases))
  BY <1>1, <1>3, FS_NatSurjection DEF ExistsSurjection
<1> QED
  BY <1>1, <1>4 DEF ToSet

LEMMA InFront ==
  ASSUME NEW b \in Base, NEW bases \in Seq(Base)
  PROVE  /\ <<b>> \o bases \in Seq(Base)
         /\ ToSet(<<b>> \o bases) = {b} \cup ToSet(bases)
<1>1. <<b>> \in Seq(Base) /\ Len(<<b>>) = 1 /\ <<b>>[1] = b
  OBVIOUS
<1>2. /\ <<b>> \o bases \in Seq(Base) /\ Len(<<b>> \o bases) = 1 + Len(bases)
      /\ \A i \in 1 .. Len(bases) + 1 : (<<b>> \o bases)[i] = IF i <= 1 THEN b ELSE bases[i - 1]
  BY <1>1, ConcatProperties
<1> DEFINE all == <<b>> \o bases
<1>3. all \in Seq(Base) /\ DOMAIN all = 1 .. Len(bases) + 1 /\ DOMAIN bases = 1 .. Len(bases) /\ Len(bases) \in Nat
  BY <1>2, LenProperties
<1>4. \A i \in DOMAIN all : all[i] \in {b} \cup ToSet(bases)
  BY <1>2, <1>3 DEF ToSet
<1>5. all[1] = b /\ \A i \in DOMAIN bases : i + 1 \in DOMAIN all /\ all[i + 1] = bases[i]
  BY <1>2, <1>3
<1>6. 1 \in DOMAIN all
  BY <1>3
<1> HIDE DEF all
<1>7. ToSet(all) = {b} \cup ToSet(bases)
  BY <1>4, <1>5, <1>6 DEF ToSet
<1> QED
  BY <1>3, <1>7 DEF all

(* preferBase loses no candidate.                                            *)
LEMMA PreferKeeps ==
  ASSUME NEW bases \in Seq(Base), NEW base \in Base \cup {NoPeer}
  PROVE  /\ PreferBase(bases, base) \in Seq(Base)
         /\ ToSet(bases) \subseteq ToSet(PreferBase(bases, base))
<1>1. CASE base = NoPeer
  BY <1>1 DEF PreferBase
<1>2. CASE base # NoPeer
  BY <1>2, InFront DEF PreferBase
<1> QED
  BY <1>1, <1>2

LEMMA CandidatesListed ==
  ASSUME cluster \in Registered
  PROVE  MonitoringCandidates \in Seq(Base) /\ ToSet(MonitoringCandidates) # {}
<1>1. cluster.primary \in Base /\ cluster.derived \in Seq(Base)
  BY ReplicaConstants
<1> QED
  BY <1>1, InFront DEF MonitoringCandidates

(* One request's step, the servers as they were.                             *)
LEMMA OneRequest ==
  ASSUME PageInv, NEW p \in Poll \cup {Scraper}, NEW next,
         PollGo(p, next), UNCHANGED natsVars, preferred' \in Base \cup {NoPeer},
         RequestOK(next, up)
  PROVE  PageInv'
<1>1. poll' = [poll EXCEPT ![p] = next] /\ up' = up /\ linger' = linger /\ cluster' = cluster
  BY DEF PollGo, natsVars
<1>2. poll' = [r \in Poll \cup {Scraper} |-> poll'[r]]
  BY <1>1 DEF PageInv
<1>3. ASSUME NEW r \in Poll \cup {Scraper} PROVE RequestOK(poll'[r], up')
  <2>1. poll'[r] = IF r = p THEN next ELSE poll[r]
    BY <1>1 DEF PageInv
  <2> QED
    BY <1>1, <2>1 DEF PageInv
<1>4. ReplicasTypeOK'
  BY <1>1 DEF PageInv, ReplicasTypeOK
<1> QED
  BY <1>2, <1>3, <1>4 DEF PageInv

LEMMA RestOK ==
  ASSUME NEW u PROVE RequestOK([pc |-> "idle"], u)
BY DEF RequestOK, RequestShape, Reaching, Seeing

(* A server that crashes is stable for nobody, and one that recovers counts  *)
(* for everybody who is asking.                                              *)
LEMMA CrashNoted ==
  ASSUME NEW q, NEW u, RequestOK(q, u), q.pc # "idle", NEW s
  PROVE  RequestOK([q EXCEPT !.stable = @ \ {s}], u \ {s})
<1> DEFINE r == [q EXCEPT !.stable = @ \ {s}]
<1>1. r.pc = q.pc /\ r.stable = q.stable \ {s} /\ r.during = q.during
  BY DEF RequestOK, RequestShape
<1>0. RequestShape(r)
  BY SMTT(30) DEF RequestOK, RequestShape
<1>2. /\ q.pc \in {"routez", "varz"} => r.bases = q.bases
      /\ q.pc = "routez" => r.todo = q.todo
      /\ q.pc # "storeOffline" => r.of = q.of
      /\ q.pc \in {"varz", "build"} => r.reporter = q.reporter
      /\ q.pc = "build" => r.seen = q.seen /\ r.monitored = q.monitored /\ r.monitorBases = q.monitorBases
      /\ q.pc = "remember" => r.ghosts = q.ghosts
  BY DEF RequestOK, RequestShape
<1> HIDE DEF r
<1>3. Reaching(r)
  BY <1>1, <1>2 DEF RequestOK, Reaching
<1>4. Seeing(r, u \ {s})
  BY <1>1, <1>2 DEF RequestOK, Seeing
<1>5. RequestOK(r, u \ {s})
  BY <1>0, <1>3, <1>4 DEF RequestOK
<1> QED
  BY <1>5 DEF r

LEMMA RecoveryNoted ==
  ASSUME NEW q, NEW u, RequestOK(q, u), q.pc # "idle", NEW s
  PROVE  RequestOK([q EXCEPT !.during = @ \cup {s}], u \cup {s})
<1> DEFINE r == [q EXCEPT !.during = @ \cup {s}]
<1>1. r.pc = q.pc /\ r.during = q.during \cup {s} /\ r.stable = q.stable
  BY DEF RequestOK, RequestShape
<1>0. RequestShape(r)
  BY SMTT(30) DEF RequestOK, RequestShape
<1>2. /\ q.pc \in {"routez", "varz"} => r.bases = q.bases
      /\ q.pc = "routez" => r.todo = q.todo
      /\ q.pc # "storeOffline" => r.of = q.of
      /\ q.pc \in {"varz", "build"} => r.reporter = q.reporter
      /\ q.pc = "build" => r.seen = q.seen /\ r.monitored = q.monitored /\ r.monitorBases = q.monitorBases
      /\ q.pc = "remember" => r.ghosts = q.ghosts
  BY DEF RequestOK, RequestShape
<1> HIDE DEF r
<1>3. Reaching(r)
  BY <1>1, <1>2 DEF RequestOK, Reaching
<1>4. Seeing(r, u \cup {s})
  BY <1>1, <1>2 DEF RequestOK, Seeing
<1>5. RequestOK(r, u \cup {s})
  BY <1>0, <1>3, <1>4 DEF RequestOK
<1> QED
  BY <1>5 DEF r

LEMMA ServersChange ==
  ASSUME PageInv, NEW s \in Server, Crash(s) \/ RouteDrops(s) \/ Recover(s)
  PROVE  PageInv'
<1>1. CASE Crash(s)
  <2>1. ReplicasTypeOK' /\ up' = up \ {s}
    BY <1>1 DEF PageInv, ReplicasTypeOK, Crash
  <2>2. poll' = [p \in Poll \cup {Scraper} |->
                   IF Asking(p) THEN [poll[p] EXCEPT !.stable = @ \ {s}] ELSE poll[p]]
    BY <1>1 DEF PageInv, Crash
  <2>3. ASSUME NEW p \in Poll \cup {Scraper} PROVE RequestOK(poll'[p], up')
    <3>1. RequestOK(poll[p], up)
      BY DEF PageInv
    <3>2. CASE Asking(p)
      BY <2>1, <2>2, <3>1, <3>2, CrashNoted DEF Asking
    <3>3. CASE ~Asking(p)
      BY <2>1, <2>2, <3>1, <3>3 DEF Asking, RequestOK, Reaching, Seeing
    <3> QED
      BY <3>2, <3>3
  <2>4. poll' = [p \in Poll \cup {Scraper} |-> poll'[p]]
    BY <2>2
  <2> QED
    BY <2>1, <2>3, <2>4 DEF PageInv
<1>2. CASE RouteDrops(s)
  BY <1>2 DEF PageInv, ReplicasTypeOK, RouteDrops
<1>3. CASE Recover(s)
  <2>1. ReplicasTypeOK' /\ up' = up \cup {s}
    BY <1>3 DEF PageInv, ReplicasTypeOK, Recover
  <2>2. poll' = [p \in Poll \cup {Scraper} |->
                   IF Asking(p) THEN [poll[p] EXCEPT !.during = @ \cup {s}] ELSE poll[p]]
    BY <1>3 DEF PageInv, Recover
  <2>3. ASSUME NEW p \in Poll \cup {Scraper} PROVE RequestOK(poll'[p], up')
    <3>1. RequestOK(poll[p], up)
      BY DEF PageInv
    <3>2. CASE Asking(p)
      BY <2>1, <2>2, <3>1, <3>2, RecoveryNoted DEF Asking
    <3>3. CASE ~Asking(p)
      BY <2>1, <2>2, <3>1, <3>3 DEF Asking, RequestOK, Reaching, Seeing
    <3> QED
      BY <3>2, <3>3
  <2>4. poll' = [p \in Poll \cup {Scraper} |-> poll'[p]]
    BY <2>2
  <2> QED
    BY <2>1, <2>3, <2>4 DEF PageInv
<1> QED
  BY <1>1, <1>2, <1>3

LEMMA RequestStarts ==
  ASSUME PageInv, NEW p \in Poll \cup {Scraper}, LoadReplicasMonitoring(p)
  PROVE  PageInv'
<1> DEFINE bases == PreferBase(MonitoringCandidates, preferred)
           next == [pc |-> "routez", todo |-> ToSet(bases), bases |-> bases,
                    of |-> ToSet(MonitoringCandidates), during |-> up, stable |-> up]
<1>1. PollGo(p, next) /\ UNCHANGED natsVars /\ preferred' \in Base \cup {NoPeer}
  BY DEF LoadReplicasMonitoring, PageInv, ReplicasTypeOK
<1>2. /\ bases \in Seq(Base) /\ ToSet(MonitoringCandidates) \subseteq ToSet(bases)
      /\ ToSet(bases) # {}
  BY CandidatesListed, PreferKeeps DEF PageInv, ReplicasTypeOK
<1> HIDE DEF bases
<1>3. RequestOK(next, up)
  BY <1>2 DEF RequestOK, RequestShape, Reaching, Seeing
<1> HIDE DEF next
<1> QED
  BY <1>1, <1>3, OneRequest

(* An answer leaves every candidate listed; an error takes one candidate     *)
(* away and its server out of the stable ones.                               *)
LEMMA RoutesRead ==
  ASSUME PageInv, NEW p \in Poll \cup {Scraper}, FetchRoutez(p)
  PROVE  PageInv'
<1> DEFINE q == poll[p]
           b == First(q.bases, q.todo)
           s == ServerAt[b]
<1>1. RequestOK(q, up) /\ q.pc = "routez" /\ UNCHANGED natsVars
  BY DEF PageInv, FetchRoutez
<1>2. /\ q.bases \in Seq(Base) /\ q.of \subseteq ToSet(q.bases)
      /\ q.todo \subseteq ToSet(q.bases) /\ q.todo # {} /\ up \subseteq q.during
      /\ \A c \in q.of : c \in q.todo \/ ServerAt[c] \notin q.stable
  BY <1>1 DEF RequestOK, Reaching, Seeing
<1>3. b \in q.todo /\ b \in Base
  BY <1>2, FirstIsOne, BasesFinite
<1>4. \/ /\ s \in up /\ preferred' = b
         /\ PollGo(p, [pc |-> "varz", bases |-> PreferBase(q.bases, b), reporter |-> s,
                       routes |-> (up \cup linger) \ {s},
                       of |-> q.of, during |-> q.during, stable |-> {}])
      \/ /\ preferred' = preferred
         /\ PollGo(p, IF q.todo = {b}
                      THEN [pc |-> "failed", of |-> q.of, during |-> {}, stable |-> q.stable \ {s}]
                      ELSE [pc |-> "routez", todo |-> q.todo \ {b}, bases |-> q.bases,
                            of |-> q.of, during |-> q.during, stable |-> q.stable \ {s}])
  BY DEF FetchRoutez
<1> DEFINE asked == PreferBase(q.bases, b)
<1>5. asked \in Seq(Base) /\ q.of \subseteq ToSet(asked)
  BY <1>2, <1>3, PreferKeeps
<1>6. preferred \in Base \cup {NoPeer}
  BY DEF PageInv, ReplicasTypeOK
<1> HIDE DEF asked, s, b, q
<1>7. CASE s \in up /\ preferred' = b
           /\ PollGo(p, [pc |-> "varz", bases |-> asked, reporter |-> s,
                         routes |-> (up \cup linger) \ {s},
                         of |-> q.of, during |-> q.during, stable |-> {}])
  <2> DEFINE next == [pc |-> "varz", bases |-> asked, reporter |-> s,
                      routes |-> (up \cup linger) \ {s},
                      of |-> q.of, during |-> q.during, stable |-> {}]
  <2>1. RequestOK(next, up)
    BY <1>2, <1>5, <1>7 DEF RequestOK, RequestShape, Reaching, Seeing
  <2> HIDE DEF next
  <2>2. PollGo(p, next)
    BY <1>7 DEF next
  <2> QED
    BY <1>1, <1>3, <1>7, <2>1, <2>2, OneRequest
<1>8. CASE q.todo = {b} /\ preferred' = preferred
           /\ PollGo(p, [pc |-> "failed", of |-> q.of, during |-> {}, stable |-> q.stable \ {s}])
  <2> DEFINE next == [pc |-> "failed", of |-> q.of, during |-> {}, stable |-> q.stable \ {s}]
  <2>1. \A c \in q.of : ServerAt[c] \notin q.stable \ {s}
    BY <1>2, <1>8 DEF s
  <2>2. RequestOK(next, up)
    BY <2>1 DEF RequestOK, RequestShape, Reaching, Seeing
  <2> HIDE DEF next
  <2>3. PollGo(p, next)
    BY <1>8 DEF next
  <2> QED
    BY <1>1, <1>6, <1>8, <2>2, <2>3, OneRequest
<1>9. CASE q.todo # {b} /\ preferred' = preferred
           /\ PollGo(p, [pc |-> "routez", todo |-> q.todo \ {b}, bases |-> q.bases,
                         of |-> q.of, during |-> q.during, stable |-> q.stable \ {s}])
  <2> DEFINE next == [pc |-> "routez", todo |-> q.todo \ {b}, bases |-> q.bases,
                      of |-> q.of, during |-> q.during, stable |-> q.stable \ {s}]
  <2>1. /\ \A c \in q.of : c \in q.todo \ {b} \/ ServerAt[c] \notin q.stable \ {s}
        /\ q.todo \ {b} # {} /\ q.todo \ {b} \subseteq ToSet(q.bases)
    BY <1>2, <1>3, <1>9 DEF s
  <2>2. RequestOK(next, up)
    BY <1>2, <2>1 DEF RequestOK, RequestShape, Reaching, Seeing
  <2> HIDE DEF next
  <2>3. PollGo(p, next)
    BY <1>9 DEF next
  <2> QED
    BY <1>1, <1>6, <1>9, <2>2, <2>3, OneRequest
<1> QED
  BY <1>4, <1>7, <1>8, <1>9 DEF asked

(* A list that holds several candidates has several bases.                   *)
LEMMA SeveralBases ==
  ASSUME NEW bases \in Seq(Base), NEW of, of \subseteq ToSet(bases), Cardinality(of) > 1
  PROVE  Cardinality(ToSet(bases)) > 1
<1>1. IsFiniteSet(ToSet(bases))
  BY BasesFinite
<1>2. /\ Cardinality(of) <= Cardinality(ToSet(bases))
      /\ Cardinality(of) \in Nat /\ Cardinality(ToSet(bases)) \in Nat
  BY <1>1, FS_Subset, FS_CardinalityType
<1> QED
  BY <1>2

LEMMA ServersRead ==
  ASSUME PageInv, NEW p \in Poll \cup {Scraper}, FetchMonitoringAll(p)
  PROVE  PageInv'
<1> DEFINE q == poll[p]
<1>1. RequestOK(q, up) /\ q.pc = "varz" /\ UNCHANGED natsVars /\ preferred' = preferred
  BY DEF PageInv, FetchMonitoringAll
<1>2. /\ q.bases \in Seq(Base) /\ q.of \subseteq ToSet(q.bases)
      /\ up \subseteq q.during /\ q.reporter \in q.during
  BY <1>1 DEF RequestOK, Reaching, Seeing
<1>3. preferred' \in Base \cup {NoPeer}
  BY <1>1 DEF PageInv, ReplicasTypeOK
<1>4. PICK ok \in SUBSET {b \in ToSet(q.bases) : ServerAt[b] \in up} :
        IF ok = {} THEN PollGo(p, [pc |-> "failed", of |-> q.of, during |-> {}, stable |-> {}])
        ELSE PollGo(p, [pc |-> "build", monitorBases |-> Cardinality(ToSet(q.bases)),
                        reporter |-> q.reporter, routes |-> q.routes,
                        seen |-> {ServerAt[b] : b \in ok},
                        monitored |-> ServerAt[First(q.bases, ok)],
                        of |-> q.of, during |-> q.during, stable |-> {}])
  BY DEF FetchMonitoringAll
<1> HIDE DEF q
<1>5. CASE ok = {}
  <2> DEFINE next == [pc |-> "failed", of |-> q.of, during |-> {}, stable |-> {}]
  <2>1. RequestOK(next, up)
    BY DEF RequestOK, RequestShape, Reaching, Seeing
  <2> HIDE DEF next
  <2>2. PollGo(p, next)
    BY <1>4, <1>5 DEF next
  <2> QED
    BY <1>1, <1>3, <2>1, <2>2, OneRequest
<1>6. CASE ok # {}
  <2> DEFINE bases == Cardinality(ToSet(q.bases))
             seen == {ServerAt[b] : b \in ok}
             monitored == ServerAt[First(q.bases, ok)]
             next == [pc |-> "build", monitorBases |-> bases,
                      reporter |-> q.reporter, routes |-> q.routes,
                      seen |-> seen, monitored |-> monitored,
                      of |-> q.of, during |-> q.during, stable |-> {}]
  <2>1. seen \subseteq q.during
    BY <1>2
  <2>2. First(q.bases, ok) \in ok
    BY <1>2, <1>6, FirstIsOne
  <2>3. monitored \in q.during
    BY <1>2, <2>2
  <2>4. Cardinality(q.of) > 1 => bases > 1
    BY <1>2, SeveralBases
  <2>5. PollGo(p, next)
    BY <1>4, <1>6
  <2> HIDE DEF bases, seen, monitored
  <2>6. RequestOK(next, up)
    BY <1>2, <2>1, <2>3, <2>4 DEF RequestOK, RequestShape, Reaching, Seeing
  <2> HIDE DEF next
  <2> QED
    BY <1>1, <1>3, <2>5, <2>6, OneRequest
<1> QED
  BY <1>5, <1>6

(* With several bases the routes count for nothing, and whoever is online    *)
(* by its own answer answered during the request.                            *)
LEMMA PageBuilt ==
  ASSUME PageInv, NEW p \in Poll \cup {Scraper}, Build(p)
  PROVE  PageInv'
<1> DEFINE q == poll[p]
<1>1. RequestOK(q, up) /\ q.pc = "build" /\ UNCHANGED natsVars /\ preferred' = preferred
  BY DEF PageInv, Build
<1>2. /\ q.reporter \in q.during /\ q.seen \subseteq q.during /\ q.monitored \in q.during
      /\ Cardinality(q.of) > 1 => q.monitorBases > 1
  BY <1>1 DEF RequestOK, Seeing
<1>3. preferred' \in Base \cup {NoPeer}
  BY <1>1 DEF PageInv, ReplicasTypeOK
<1>4. \/ \E m \in JszForReplicas(p) :
           PollGo(p, [pc |-> "remember", kept |-> Kept(BuildReplicasSnapshot(q, m)),
                      ghosts |-> BuildReplicasSnapshot(q, m).online \ q.during,
                      of |-> q.of, during |-> {}, stable |-> {}])
      \/ PollGo(p, [pc |-> "failed", of |-> q.of, during |-> {}, stable |-> {}])
  BY DEF Build
<1> HIDE DEF q
<1>5. CASE PollGo(p, [pc |-> "failed", of |-> q.of, during |-> {}, stable |-> {}])
  <2> DEFINE next == [pc |-> "failed", of |-> q.of, during |-> {}, stable |-> {}]
  <2>1. RequestOK(next, up)
    BY DEF RequestOK, RequestShape, Reaching, Seeing
  <2> HIDE DEF next
  <2>2. PollGo(p, next)
    BY <1>5 DEF next
  <2> QED
    BY <1>1, <1>3, <2>1, <2>2, OneRequest
<1>6. ASSUME NEW m \in JszForReplicas(p),
             PollGo(p, [pc |-> "remember", kept |-> Kept(BuildReplicasSnapshot(q, m)),
                        ghosts |-> BuildReplicasSnapshot(q, m).online \ q.during,
                        of |-> q.of, during |-> {}, stable |-> {}])
      PROVE  PageInv'
  <2> DEFINE kept == Kept(BuildReplicasSnapshot(q, m))
             ghosts == BuildReplicasSnapshot(q, m).online \ q.during
             next == [pc |-> "remember", kept |-> kept, ghosts |-> ghosts,
                      of |-> q.of, during |-> {}, stable |-> {}]
  <2>1. BuildReplicasSnapshot(q, m).online \subseteq OnlineByLink(q)
    BY DEF BuildReplicasSnapshot
  <2>2. q.monitorBases > 1 => OnlineByLink(q) \subseteq q.during
    BY <1>2 DEF OnlineByLink
  <2>3. Cardinality(q.of) > 1 => ghosts = {}
    BY <1>2, <2>1, <2>2
  <2>4. PollGo(p, next)
    BY <1>6
  <2> HIDE DEF kept, ghosts
  <2>5. RequestOK(next, up)
    BY <2>3 DEF RequestOK, RequestShape, Reaching, Seeing
  <2> HIDE DEF next
  <2> QED
    BY <1>1, <1>3, <2>4, <2>5, OneRequest
<1> QED
  BY <1>4, <1>5, <1>6

(* The steps that end a request, and the one before its end.                 *)
LEMMA RequestEnds ==
  ASSUME PageInv, NEW p \in Poll \cup {Scraper},
         \/ RememberReplicasSnapshot(p) \/ ReplicasDegraded(p) \/ StoreOffline(p)
         \/ p = Scraper /\ ScrapeFailed
  PROVE  PageInv'
<1> DEFINE stored == [pc |-> "storeOffline", during |-> {}, stable |-> {}]
<1>1. preferred \in Base \cup {NoPeer}
  BY DEF PageInv, ReplicasTypeOK
<1>2. UNCHANGED natsVars /\ preferred' \in Base \cup {NoPeer}
  BY <1>1 DEF RememberReplicasSnapshot, ReplicasDegraded, StoreOffline, ScrapeFailed, Forgets
<1>3. PollGo(p, [pc |-> "idle"]) \/ PollGo(p, stored)
  BY DEF RememberReplicasSnapshot, ReplicasDegraded, StoreOffline, ScrapeFailed, Rest
<1>4. RequestOK(stored, up)
  BY DEF RequestOK, RequestShape, Reaching, Seeing
<1> HIDE DEF stored
<1> QED
  BY <1>2, <1>3, <1>4, RestOK, OneRequest

LEMMA PageStart == ReplicasInit => PageInv
<1> SUFFICES ASSUME ReplicasInit PROVE PageInv
  OBVIOUS
<1>1. ReplicasTypeOK
  BY DEF ReplicasInit, ReplicasTypeOK
<1>2. poll = [p \in Poll \cup {Scraper} |-> [pc |-> "idle"]]
  BY DEF ReplicasInit
<1> QED
  BY <1>1, <1>2, RestOK DEF PageInv

LEMMA PageStep == PageInv /\ [ReplicasNext]_repVars => PageInv'
<1> SUFFICES ASSUME PageInv, [ReplicasNext]_repVars PROVE PageInv'
  OBVIOUS
<1>1. CASE UNCHANGED repVars
  BY <1>1 DEF PageInv, ReplicasTypeOK, repVars, natsVars
<1>2. CASE UpdateCluster
  BY <1>2 DEF PageInv, ReplicasTypeOK, UpdateCluster
<1> QED
  BY <1>1, <1>2, ServersChange, RequestStarts, RoutesRead, ServersRead, PageBuilt, RequestEnds
  DEF ReplicasNext

(* With several monitoring URLs every peer an answer shows online answered   *)
(* during the request, and a request fails only when every candidate's       *)
(* server was down at some time during it or did not answer in time, for     *)
(* any cluster, any lists of URLs, whatever an operator registers meanwhile  *)
(* and whatever base an earlier request preferred (buildReplicasSnapshot,    *)
(* FetchMonitoringWithFailover, preferBase).                                 *)
THEOREM ReplicasSafe == ReplicasSpec => [](ReplicasTypeOK /\ PeersAreReal /\ FailoverFindsServer)
<1>1. PageInv => ReplicasTypeOK /\ PeersAreReal /\ FailoverFindsServer
  BY DEF PageInv, RequestOK, Reaching, Seeing, PeersAreReal, FailoverFindsServer
<1> QED
  BY <1>1, PageStart, PageStep, PTL DEF ReplicasSpec
=============================================================================

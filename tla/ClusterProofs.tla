---------------------------- MODULE ClusterProofs ----------------------------
(***************************************************************************)
(* The safety of the connection manager, of the connection status and of   *)
(* the table of clusters, for any number of requests, connections, event   *)
(* streams, consoles and clusters.                                         *)
(***************************************************************************)
EXTENDS ClientManager, ConnectionStatus, ClusterRegistry, FiniteSetTheorems, SequenceTheorems, TLAPS

(* The callback goroutine of a connection runs only once it is closed. *)
CallbackAfterClose == \A c \in Client : pc[c] # "idle" => conn[c] = "closed"

(* A goroutine that closes a client goes on outside any critical section. *)
BackIsOpen == \A t \in Thread : back[t] \in {"idle", "flight", "dial", "finish", "deleted"}

(* A request between the dial or the cache hit and the end of its session    *)
(* holds a client.                                                           *)
HoldsClient == \A p \in Proc : pc[p] \in {"install", "probe", "session", "held"} => got[p] \in Client

(* p runs the single-flight dial, or closes a client in the middle of it. *)
Dialling(p) == pc[p] \in InFlight \/ (pc[p] = "close" /\ back[p] \in {"dial", "finish"})

(* Only the leader dials, so two requests never dial one cluster together,   *)
(* and the leader is on its way to Finish, so that no request waits for a    *)
(* flight that nobody runs (singleflight.Group.Do in connect).               *)
SingleFlight ==
  /\ \A p \in Proc : Dialling(p) <=> leader = p
  /\ \A p \in Proc : pc[p] = "join" => leader \in Proc /\ Dialling(leader)

ManagerInv ==
  /\ TypeOK
  /\ NoConnectionLeak
  /\ SessionTracksCache
  /\ CallbackAfterClose
  /\ BackIsOpen
  /\ HoldsClient
  /\ SingleFlight
----------------------------------------------------------------------------
(* Taking a client out of the cache, by any goroutine that is outside the    *)
(* flight or stays in it, keeps the invariant: the client passes from the    *)
(* cache to the goroutine that closes it.                                    *)
LEMMA TakeOutStep ==
  ASSUME ManagerInv, NEW t \in Thread,
         NEW next \in {"idle", "flight", "dial", "deleted"},
         TakeOut(t, next), UNCHANGED <<conn, leader, born>>,
         pc[t] \notin {"close", "install", "join", "held"},
         t \in Client => conn[t] = "closed",
         row' \in BOOLEAN, creds' \in BOOLEAN,
         got' \in [Proc -> Client \cup {None}],
         \A p \in Proc : p # t => got'[p] = got[p],
         t \in Proc => (Dialling(t) <=> next = "dial")
  PROVE  ManagerInv'
<1> USE NamesDistinct DEF ManagerInv, TypeOK, PC, InFlight, Thread, TakeOut
<1>1. TypeOK'
  OBVIOUS
<1>2. NoConnectionLeak'
  BY DEF NoConnectionLeak
<1>3. SessionTracksCache'
  BY DEF SessionTracksCache
<1>4. CallbackAfterClose'
  BY DEF CallbackAfterClose
<1>5. BackIsOpen'
  BY DEF BackIsOpen
<1>6. HoldsClient'
  BY DEF HoldsClient
<1>7. SingleFlight'
  BY DEF SingleFlight, Dialling
<1> QED
  BY <1>1, <1>2, <1>3, <1>4, <1>5, <1>6, <1>7

(* Every step keeps the inductive invariant. *)
LEMMA ManagerStep ==
  ASSUME ManagerInv, [Next]_vars
  PROVE  ManagerInv'
<1> USE NamesDistinct DEF ManagerInv, TypeOK, PC, InFlight, Thread, Goto, reqVars
<1>1. ASSUME NEW p \in Proc, Session(p) PROVE ManagerInv'
  BY <1>1
  DEF Session, NoConnectionLeak, SessionTracksCache, CallbackAfterClose, BackIsOpen, HoldsClient,
      SingleFlight, Dialling
<1>2. ASSUME NEW p \in Proc, ReadRow(p) PROVE ManagerInv'
  BY <1>2
  DEF ReadRow, NoConnectionLeak, SessionTracksCache, CallbackAfterClose, BackIsOpen, HoldsClient,
      SingleFlight, Dialling
<1>3. ASSUME NEW p \in Proc, StoreCreds(p) PROVE ManagerInv'
  BY <1>3
  DEF StoreCreds, NoConnectionLeak, SessionTracksCache, CallbackAfterClose, BackIsOpen,
      HoldsClient, SingleFlight, Dialling
<1>4. ASSUME NEW p \in Proc, Connect(p) PROVE ManagerInv'
  BY <1>4
  DEF Connect, CheckCache, Alive, NoConnectionLeak, SessionTracksCache, CallbackAfterClose,
      BackIsOpen, HoldsClient, SingleFlight, Dialling
<1>5. ASSUME NEW p \in Proc, EvictDead(p) PROVE ManagerInv'
  <2>1. /\ TakeOut(p, "flight")
        /\ UNCHANGED <<conn, leader, born>>
        /\ row' \in BOOLEAN /\ creds' \in BOOLEAN
        /\ got' \in [Proc -> Client \cup {None}]
        /\ \A q \in Proc : q # p => got'[q] = got[q]
    BY <1>5 DEF EvictDead, Evict
  <2>2. /\ pc[p] \notin {"close", "install", "join", "held"}
        /\ p \in Client => conn[p] = "closed"
        /\ p \in Proc => (Dialling(p) <=> "flight" = "dial")
    BY <1>5 DEF EvictDead, Evict, Dialling, CallbackAfterClose
  <2> QED
    BY <2>1, <2>2, TakeOutStep
<1>6. ASSUME NEW p \in Proc, EnterFlight(p) PROVE ManagerInv'
  BY <1>6
  DEF EnterFlight, NoConnectionLeak, SessionTracksCache, CallbackAfterClose, BackIsOpen,
      HoldsClient, SingleFlight, Dialling
<1>7. ASSUME NEW p \in Proc, Recheck(p) PROVE ManagerInv'
  BY <1>7
  DEF Recheck, CheckCache, Alive, NoConnectionLeak, SessionTracksCache, CallbackAfterClose,
      BackIsOpen, HoldsClient, SingleFlight, Dialling
<1>8. ASSUME NEW p \in Proc, EvictInFlight(p) PROVE ManagerInv'
  <2>1. /\ TakeOut(p, "dial")
        /\ UNCHANGED <<conn, leader, born>>
        /\ row' \in BOOLEAN /\ creds' \in BOOLEAN
        /\ got' \in [Proc -> Client \cup {None}]
        /\ \A q \in Proc : q # p => got'[q] = got[q]
    BY <1>8 DEF EvictInFlight, Evict
  <2>2. /\ pc[p] \notin {"close", "install", "join", "held"}
        /\ p \in Client => conn[p] = "closed"
        /\ p \in Proc => (Dialling(p) <=> "dial" = "dial")
    BY <1>8 DEF EvictInFlight, Evict, Dialling, CallbackAfterClose
  <2> QED
    BY <2>1, <2>2, TakeOutStep
<1>9. ASSUME NEW p \in Proc, Dial(p) PROVE ManagerInv'
  <2>1. TypeOK'
    BY <1>9 DEF Dial
  <2>2. NoConnectionLeak'
    BY <1>9 DEF Dial, NoConnectionLeak
  <2>3. SessionTracksCache'
    BY <1>9 DEF Dial, SessionTracksCache
  <2>4. CallbackAfterClose'
    BY <1>9 DEF Dial, CallbackAfterClose
  <2>5. BackIsOpen'
    BY <1>9 DEF Dial, BackIsOpen
  <2>6. HoldsClient'
    BY <1>9 DEF Dial, HoldsClient
  <2>7. SingleFlight'
    BY <1>9 DEF Dial, SingleFlight, Dialling
  <2> QED
    BY <2>1, <2>2, <2>3, <2>4, <2>5, <2>6, <2>7
<1>10. ASSUME NEW p \in Proc, Install(p) PROVE ManagerInv'
  <2>1. TypeOK'
    BY <1>10 DEF Install
  <2>2. NoConnectionLeak'
    BY <1>10 DEF Install, NoConnectionLeak
  <2>3. SessionTracksCache'
    BY <1>10 DEF Install, SessionTracksCache, HoldsClient
  <2>4. CallbackAfterClose'
    BY <1>10 DEF Install, CallbackAfterClose
  <2>5. BackIsOpen'
    BY <1>10 DEF Install, BackIsOpen
  <2>6. HoldsClient'
    BY <1>10 DEF Install, HoldsClient
  <2>7. SingleFlight'
    BY <1>10 DEF Install, SingleFlight, Dialling
  <2> QED
    BY <2>1, <2>2, <2>3, <2>4, <2>5, <2>6, <2>7
<1>11. ASSUME NEW p \in Proc, Finish(p) PROVE ManagerInv'
  <2>1. TypeOK'
    BY <1>11 DEF Finish
  <2>2. NoConnectionLeak'
    BY <1>11 DEF Finish, NoConnectionLeak
  <2>3. SessionTracksCache'
    BY <1>11 DEF Finish, SessionTracksCache
  <2>4. CallbackAfterClose'
    BY <1>11 DEF Finish, CallbackAfterClose
  <2>5. BackIsOpen'
    BY <1>11 DEF Finish, BackIsOpen
  <2>6. HoldsClient'
    BY <1>11 DEF Finish, HoldsClient
  <2>7. SingleFlight'
    BY <1>11 DEF Finish, SingleFlight, Dialling
  <2> QED
    BY <2>1, <2>2, <2>3, <2>4, <2>5, <2>6, <2>7
<1>12. ASSUME NEW p \in Proc, Probe(p) PROVE ManagerInv'
  BY <1>12
  DEF Probe, NoConnectionLeak, SessionTracksCache, CallbackAfterClose, BackIsOpen, HoldsClient,
      SingleFlight, Dialling
<1>13. ASSUME NEW p \in Proc, Unhealthy(p) PROVE ManagerInv'
  <2>1. /\ TakeOut(p, "idle")
        /\ UNCHANGED <<conn, leader, born>>
        /\ row' \in BOOLEAN /\ creds' \in BOOLEAN
        /\ got' \in [Proc -> Client \cup {None}]
        /\ \A q \in Proc : q # p => got'[q] = got[q]
    BY <1>13 DEF Unhealthy, Evict
  <2>2. /\ pc[p] \notin {"close", "install", "join", "held"}
        /\ p \in Client => conn[p] = "closed"
        /\ p \in Proc => (Dialling(p) <=> "idle" = "dial")
    BY <1>13 DEF Unhealthy, Evict, Dialling, CallbackAfterClose
  <2> QED
    BY <2>1, <2>2, TakeOutStep
<1>14. ASSUME NEW p \in Proc, NewSession(p) PROVE ManagerInv'
  <2>1. TypeOK'
    BY <1>14 DEF NewSession
  <2>2. (NoConnectionLeak /\ SessionTracksCache /\ CallbackAfterClose
         /\ BackIsOpen /\ HoldsClient /\ SingleFlight)'
    BY <1>14, <2>1
    DEF NewSession, NoConnectionLeak, SessionTracksCache, CallbackAfterClose, BackIsOpen,
        HoldsClient, SingleFlight, Dialling
  <2> QED
    BY <2>1, <2>2
<1>15. ASSUME NEW p \in Proc, UseSession(p) PROVE ManagerInv'
  <2>1. TypeOK'
    BY <1>15 DEF UseSession
  <2>2. (NoConnectionLeak /\ SessionTracksCache /\ CallbackAfterClose
         /\ BackIsOpen /\ HoldsClient /\ SingleFlight)'
    BY <1>15, <2>1
    DEF UseSession, NoConnectionLeak, SessionTracksCache, CallbackAfterClose, BackIsOpen,
        HoldsClient, SingleFlight, Dialling
  <2> QED
    BY <2>1, <2>2
<1>16. ASSUME NEW p \in Proc, EndSession(p) PROVE ManagerInv'
  BY <1>16
  DEF EndSession, NoConnectionLeak, SessionTracksCache, CallbackAfterClose, BackIsOpen,
      HoldsClient, SingleFlight, Dialling
<1>17. ASSUME NEW p \in Proc, DeleteRow(p) PROVE ManagerInv'
  <2>1. TypeOK'
    BY <1>17 DEF DeleteRow
  <2>2. (NoConnectionLeak /\ SessionTracksCache /\ CallbackAfterClose
         /\ BackIsOpen /\ HoldsClient /\ SingleFlight)'
    BY <1>17, <2>1
    DEF DeleteRow, NoConnectionLeak, SessionTracksCache, CallbackAfterClose, BackIsOpen,
        HoldsClient, SingleFlight, Dialling
  <2> QED
    BY <2>1, <2>2
<1>18. ASSUME NEW p \in Proc, DeleteEvict(p) PROVE ManagerInv'
  <2>1. /\ TakeOut(p, "deleted")
        /\ UNCHANGED <<conn, leader, born>>
        /\ row' \in BOOLEAN /\ creds' \in BOOLEAN
        /\ got' \in [Proc -> Client \cup {None}]
        /\ \A q \in Proc : q # p => got'[q] = got[q]
    BY <1>18 DEF DeleteEvict, Evict
  <2>2. /\ pc[p] \notin {"close", "install", "join", "held"}
        /\ p \in Client => conn[p] = "closed"
        /\ p \in Proc => (Dialling(p) <=> "deleted" = "dial")
    BY <1>18 DEF DeleteEvict, Evict, Dialling, CallbackAfterClose
  <2> QED
    BY <2>1, <2>2, TakeOutStep
<1>19. ASSUME NEW t \in Thread, Close(t) PROVE ManagerInv'
  <2> DEFINE c == victim[t]
  <2>0. c \in Client /\ (t \in Client => conn[t] = "closed")
    BY <1>19 DEF Close, CallbackAfterClose
  <2>1. \A s \in Thread :
          pc'[s] = IF s = c /\ conn[c] # "closed" THEN "onClosed"
                   ELSE IF s = t THEN back[t] ELSE pc[s]
    BY <1>19, <2>0 DEF Close
  <2>2. /\ conn' = [conn EXCEPT ![c] = "closed"]
        /\ victim' = [victim EXCEPT ![t] = None]
        /\ back' = [back EXCEPT ![t] = "idle"]
        /\ UNCHANGED <<row, creds, cached, stale, leader, got, valid, born>>
        /\ pc[t] = "close" /\ pc' \in [Thread -> PC]
    BY <1>19, <2>0 DEF Close, BackIsOpen
  <2>3. \A s \in Client : pc[s] # "idle" => conn[s] = "closed"
    BY DEF CallbackAfterClose
  <2> HIDE DEF c
  <2>4. TypeOK'
    BY <2>0, <2>1, <2>2 DEF BackIsOpen
  <2>5. NoConnectionLeak'
    BY <2>0, <2>1, <2>2, <2>3 DEF NoConnectionLeak, c
  <2>6. SessionTracksCache'
    BY <2>0, <2>1, <2>2 DEF SessionTracksCache, BackIsOpen
  <2>7. CallbackAfterClose'
    BY <2>0, <2>1, <2>2, <2>3 DEF CallbackAfterClose
  <2>8. BackIsOpen'
    BY <2>2 DEF BackIsOpen
  <2>9. HoldsClient'
    BY <2>0, <2>1, <2>2 DEF HoldsClient, BackIsOpen
  <2>10. SingleFlight'
    BY <2>0, <2>1, <2>2 DEF SingleFlight, Dialling, BackIsOpen
  <2> QED
    BY <2>4, <2>5, <2>6, <2>7, <2>8, <2>9, <2>10
<1>20. ASSUME NEW c \in Client, OnClosed(c) PROVE ManagerInv'
  <2>1. /\ TakeOut(c, "idle")
        /\ UNCHANGED <<conn, leader, born>>
        /\ row' \in BOOLEAN /\ creds' \in BOOLEAN
        /\ got' \in [Proc -> Client \cup {None}]
        /\ \A q \in Proc : q # c => got'[q] = got[q]
    BY <1>20 DEF OnClosed, Evict
  <2>2. /\ pc[c] \notin {"close", "install", "join", "held"}
        /\ c \in Client => conn[c] = "closed"
        /\ c \in Proc => (Dialling(c) <=> "idle" = "dial")
    BY <1>20 DEF OnClosed, Evict, Dialling, CallbackAfterClose
  <2> QED
    BY <2>1, <2>2, TakeOutStep
<1>21. CASE Sweep
  <2>1. /\ TakeOut(Sweeper, "idle")
        /\ UNCHANGED <<conn, leader, born>>
        /\ row' \in BOOLEAN /\ creds' \in BOOLEAN
        /\ got' \in [Proc -> Client \cup {None}]
        /\ \A q \in Proc : q # Sweeper => got'[q] = got[q]
    BY <1>21 DEF Sweep
  <2>2. /\ pc[Sweeper] \notin {"close", "install", "join", "held"}
        /\ Sweeper \in Client => conn[Sweeper] = "closed"
        /\ Sweeper \in Proc => (Dialling(Sweeper) <=> "idle" = "dial")
    BY <1>21 DEF Sweep, Dialling, CallbackAfterClose
  <2> QED
    BY <2>1, <2>2, TakeOutStep
<1>22. ASSUME NEW c \in Client, Disconnect(c) PROVE ManagerInv'
  BY <1>22
  DEF Disconnect, NoConnectionLeak, SessionTracksCache, CallbackAfterClose, BackIsOpen,
      HoldsClient, SingleFlight, Dialling
<1>23. ASSUME NEW c \in Client, Reconnect(c) PROVE ManagerInv'
  BY <1>23
  DEF Reconnect, NoConnectionLeak, SessionTracksCache, CallbackAfterClose, BackIsOpen,
      HoldsClient, SingleFlight, Dialling
<1>24. ASSUME NEW c \in Client, GiveUp(c) PROVE ManagerInv'
  <2>1. TypeOK'
    BY <1>24 DEF GiveUp
  <2>2. NoConnectionLeak'
    BY <1>24 DEF GiveUp, NoConnectionLeak, CallbackAfterClose
  <2>3. SessionTracksCache'
    BY <1>24 DEF GiveUp, SessionTracksCache
  <2>4. CallbackAfterClose'
    BY <1>24 DEF GiveUp, CallbackAfterClose
  <2>5. BackIsOpen'
    BY <1>24 DEF GiveUp, BackIsOpen
  <2>6. HoldsClient'
    BY <1>24 DEF GiveUp, HoldsClient
  <2>7. SingleFlight'
    BY <1>24 DEF GiveUp, SingleFlight, Dialling
  <2> QED
    BY <2>1, <2>2, <2>3, <2>4, <2>5, <2>6, <2>7
<1>25. CASE ExpireEntry
  BY <1>25
  DEF ExpireEntry, NoConnectionLeak, SessionTracksCache, CallbackAfterClose, BackIsOpen,
      HoldsClient, SingleFlight, Dialling
<1>26. CASE ExpireCreds
  <2>1. TypeOK'
    BY <1>26 DEF ExpireCreds
  <2>2. (NoConnectionLeak /\ SessionTracksCache /\ CallbackAfterClose
         /\ BackIsOpen /\ HoldsClient /\ SingleFlight)'
    BY <1>26, <2>1
    DEF ExpireCreds, NoConnectionLeak, SessionTracksCache, CallbackAfterClose, BackIsOpen,
        HoldsClient, SingleFlight, Dialling
  <2> QED
    BY <2>1, <2>2
<1>27. CASE UNCHANGED vars
  BY <1>27
  DEF vars, NoConnectionLeak, SessionTracksCache, CallbackAfterClose, BackIsOpen, HoldsClient,
      SingleFlight, Dialling
<1> QED
  BY <1>1, <1>2, <1>3, <1>4, <1>5, <1>6, <1>7, <1>8, <1>9, <1>10, <1>11, <1>12, <1>13, <1>14,
     <1>15, <1>16, <1>17, <1>18, <1>19, <1>20, <1>21, <1>22, <1>23, <1>24, <1>25, <1>26, <1>27
  DEF Next, RequestStep, CallbackStep, SweeperStep

(* The initial state satisfies the inductive invariant. *)
LEMMA ManagerStart == Init => ManagerInv
  BY NamesDistinct
  DEF Init, ManagerInv, TypeOK, PC, InFlight, Thread, NoConnectionLeak, SessionTracksCache,
     CallbackAfterClose, BackIsOpen, HoldsClient, SingleFlight, Dialling

(* The connection manager keeps its types, leaks no connection and never     *)
(* lets a session made on the cached client outlive it, and it dials once at *)
(* a time, with every waiting request behind a running dial (connect,        *)
(* evict, sweepExpired, OnClosed and ensureValid of the manager).            *)
THEOREM ManagerSafe ==
  Spec => [](TypeOK /\ NoConnectionLeak /\ SessionTracksCache /\ SingleFlight)
<1>1. ManagerInv => TypeOK /\ NoConnectionLeak /\ SessionTracksCache /\ SingleFlight
  BY DEF ManagerInv
<1> QED
  BY ManagerStart, ManagerStep, <1>1, PTL DEF Spec

----------------------------------------------------------------------------
(* The shapes of the open transactions and of the delete requests. *)
RegShapes ==
  /\ creating \in [Console \cup {Tool} ->
       [open : {FALSE}] \cup [open : {TRUE}, isDefault : BOOLEAN, cleared : SUBSET RegId]]
  /\ delete \in [Deleter -> [pc : {"idle"}] \cup [pc : {"count", "delete"}, id : RegId]]

(* A transaction that adds a plain cluster clears no flag. *)
PlainClearsNothing ==
  \A x \in Console \cup {Tool} : creating[x].open /\ ~creating[x].isDefault => creating[x].cleared = {}

(* A row that a delete request has read as plain never becomes the default. *)
DeletesPlainRow ==
  \A d \in Deleter : delete[d].pc # "idle" => clusters[delete[d].id] \in {"plain", "deleted"}

RegistryInv ==
  /\ RegTypeOK
  /\ RegShapes
  /\ PlainClearsNothing
  /\ DeletesPlainRow

(* Every step of the table keeps the inductive invariant. *)
LEMMA RegistryStep ==
  ASSUME RegistryInv, [RegNext]_regVars
  PROVE  RegistryInv'
<1> USE ToolIsNoConsole
    DEF RegistryInv, RegTypeOK, RegShapes, PlainClearsNothing, DeletesPlainRow, NoTx, Proceed
<1>1. ASSUME NEW x \in Console, BootstrapDefaultCluster(x) PROVE RegistryInv'
  <2> HIDE DEF RegShapes, PlainClearsNothing, DeletesPlainRow
  <2>1. RegTypeOK'
    BY <1>1 DEF BootstrapDefaultCluster
  <2>2. RegShapes' /\ PlainClearsNothing' /\ DeletesPlainRow'
    BY <1>1 DEF BootstrapDefaultCluster, RegShapes, PlainClearsNothing, DeletesPlainRow
  <2> QED
    BY <2>1, <2>2
<1>2. ASSUME NEW x \in Console, BootstrapCreate(x) PROVE RegistryInv'
  <2>1. RegTypeOK'
    BY <1>2 DEF BootstrapCreate, CreateCluster
  <2>2. RegShapes'
    BY <1>2 DEF BootstrapCreate, CreateCluster
  <2>3. PlainClearsNothing'
    BY <1>2, <2>2 DEF BootstrapCreate, CreateCluster
  <2>4. DeletesPlainRow'
    BY <1>2 DEF BootstrapCreate
  <2> QED
    BY <2>1, <2>2, <2>3, <2>4
<1>3. ASSUME NEW x \in Console, RestartConsole(x) PROVE RegistryInv'
  <2>1. RegTypeOK'
    BY <1>3 DEF RestartConsole
  <2>2. RegShapes' /\ PlainClearsNothing' /\ DeletesPlainRow'
    BY <1>3 DEF RestartConsole
  <2> QED
    BY <2>1, <2>2
<1>4. ASSUME NEW x \in Console \cup {Tool}, Commit(x) PROVE RegistryInv'
  <2>1. RegTypeOK'
    BY <1>4 DEF Commit, Row
  <2>2. RegShapes'
    BY <1>4 DEF Commit
  <2>3. PlainClearsNothing'
    BY <1>4, <2>2 DEF Commit
  <2>4. DeletesPlainRow'
    BY <1>4 DEF Commit, Row
  <2> QED
    BY <2>1, <2>2, <2>3, <2>4
<1>5. ASSUME NEW x \in Console \cup {Tool}, Rollback(x) PROVE RegistryInv'
  BY <1>5, ZenonT(60) DEF Rollback
<1>6. CASE Register
  <2>1. RegTypeOK'
    BY <1>6 DEF Register, CreateCluster
  <2>2. RegShapes'
    <3>1. PICK tx \in [open : {TRUE}, isDefault : BOOLEAN, cleared : SUBSET RegId] :
            creating' = [creating EXCEPT ![Tool] = tx]
      BY <1>6 DEF Register, CreateCluster
    <3> QED
      BY <1>6, <3>1 DEF Register
  <2>3. PlainClearsNothing'
    BY <1>6, <2>2 DEF Register, CreateCluster
  <2>4. DeletesPlainRow'
    BY <1>6 DEF Register
  <2> QED
    BY <2>1, <2>2, <2>3, <2>4
<1>7. ASSUME NEW d \in Deleter, GetCluster(d) PROVE RegistryInv'
  <2>1. RegTypeOK'
    BY <1>7 DEF GetCluster
  <2>2. RegShapes'
    <3>1. PICK q \in [pc : {"count", "delete"}, id : RegId] : delete' = [delete EXCEPT ![d] = q]
      BY <1>7 DEF GetCluster
    <3> QED
      BY <1>7, <3>1 DEF GetCluster
  <2>3. PlainClearsNothing'
    BY <1>7 DEF GetCluster
  <2>4. DeletesPlainRow'
    BY <1>7 DEF GetCluster, Row, Default
  <2> QED
    BY <2>1, <2>2, <2>3, <2>4
<1>8. ASSUME NEW d \in Deleter, Count(d) PROVE RegistryInv'
  <2>1. RegTypeOK'
    BY <1>8 DEF Count
  <2>2. RegShapes'
    <3>1. delete[d] \in [pc : {"count", "delete"}, id : RegId]
      BY <1>8 DEF Count
    <3>2. [delete[d] EXCEPT !.pc = "delete"] \in [pc : {"count", "delete"}, id : RegId]
      BY <3>1
    <3> QED
      BY <1>8, <3>2 DEF Count
  <2>3. PlainClearsNothing'
    BY <1>8 DEF Count
  <2>4. DeletesPlainRow'
    BY <1>8 DEF Count
  <2> QED
    BY <2>1, <2>2, <2>3, <2>4
<1>9. ASSUME NEW d \in Deleter, DeleteCluster(d) PROVE RegistryInv'
  BY <1>9 DEF DeleteCluster
<1>10. CASE UNCHANGED regVars
  BY <1>10 DEF regVars
<1> QED
  BY <1>1, <1>2, <1>3, <1>4, <1>5, <1>6, <1>7, <1>8, <1>9, <1>10 DEF RegNext

(* A row changes its default flag only in the commit of another default, and *)
(* only a row that was read as plain is deleted.                             *)
LEMMA SomeDefaultStays ==
  ASSUME RegistryInv, [RegNext]_regVars, Default # {}
  PROVE  Default' # {}
<1> PICK c \in RegId : clusters[c] = "default"
  BY DEF Default
<1> SUFFICES \E r \in RegId : clusters'[r] = "default"
  BY DEF Default
<1>1. ASSUME NEW x \in Console \cup {Tool}, Commit(x) PROVE \E r \in RegId : clusters'[r] = "default"
  <2>1. PICK new \in RegId :
          /\ clusters[new] = "free"
          /\ clusters' = [r \in RegId |->
               CASE r = new -> IF creating[x].isDefault THEN "default" ELSE "plain"
                 [] Row(r) /\ r \in creating[x].cleared -> "plain"
                 [] OTHER -> clusters[r]]
    BY <1>1 DEF Commit
  <2>2. CASE creating[x].isDefault
    <3>1. clusters'[new] = "default"
      BY <2>1, <2>2 DEF Row
    <3> QED
      BY <3>1
  <2>3. CASE ~creating[x].isDefault
    <3>1. creating[x].cleared = {}
      BY <1>1, <2>3 DEF Commit, RegistryInv, PlainClearsNothing
    <3> QED
      BY <2>1, <3>1
  <2> QED
    BY <2>2, <2>3
<1>2. ASSUME NEW d \in Deleter, DeleteCluster(d) PROVE \E r \in RegId : clusters'[r] = "default"
  <2>1. c # delete[d].id
    BY <1>2 DEF DeleteCluster, RegistryInv, DeletesPlainRow
  <2> QED
    BY <1>2, <2>1 DEF DeleteCluster, RegistryInv, RegTypeOK
<1>3. CASE UNCHANGED clusters
  BY <1>3
<1> QED
  BY <1>1, <1>2, <1>3
  DEF RegNext, BootstrapDefaultCluster, BootstrapCreate, RestartConsole, Rollback, Register,
      GetCluster, Count, regVars

(* Once there is a default cluster there is always one, and a health probe   *)
(* can be "ok", whichever consoles, tooling and delete requests share the    *)
(* database (BootstrapDefaultCluster, CreateCluster, ClusterService.Delete   *)
(* and HealthService.Check).                                                 *)
THEOREM RegistrySafe == RegSpec => []RegTypeOK /\ DefaultStays
<1>1. RegInit => RegistryInv
  BY ToolIsNoConsole
  DEF RegInit, RegistryInv, RegTypeOK, RegShapes, PlainClearsNothing, DeletesPlainRow, NoTx
<1>2. RegistryInv => RegTypeOK
  BY DEF RegistryInv
<1>3. RegistryInv /\ [RegNext]_regVars =>
        [ "ok" \in NATSDefaultCluster => "ok" \in NATSDefaultCluster' ]_regVars
  BY SomeDefaultStays DEF NATSDefaultCluster
<1> QED
  BY <1>1, <1>2, <1>3, RegistryStep, PTL DEF RegSpec, DefaultStays

----------------------------------------------------------------------------
(* The cached client and those to be closed were dialled. *)
LinkInv ==
  /\ kept \in Link \cup {NoLink} /\ doomed \subseteq Link /\ kept \notin doomed
  /\ link \in [Link -> {"free", "up", "down", "closed"}]
  /\ \A c \in Link : c = kept \/ c \in doomed => link[c] # "free"

(* The progress of a request: what it has looked at, and whether it is old. *)
CallerState ==
  [pc : {"idle", "dial"}] \cup [pc : {"failed"}, old : BOOLEAN]
  \cup [pc : {"observe"}, conn : Link, dialled : BOOLEAN, old : BOOLEAN]
  \cup [pc : {"probe"}, conn : BOOLEAN, dialled : BOOLEAN, old : BOOLEAN]
CallerInv == caller \in [Caller -> CallerState]

Listening == [on : {TRUE}, chan : Seq(BOOLEAN), seen : BOOLEAN, missed : BOOLEAN]
WatcherInv ==
  /\ status \in {"none", "connected", "disconnected"}
  /\ watcher \in [Watcher -> [on : {FALSE}] \cup Listening]
  /\ \A w \in Watcher : watcher[w].on => Len(watcher[w].chan) <= StatusBuffer
  /\ WatchersAgree

StatusInv == LinkInv /\ CallerInv /\ WatcherInv

(* Reading the head of a queue leaves its last element, unless it was the    *)
(* only one.                                                                 *)
LEMMA LastOfTail ==
  ASSUME NEW S, NEW s \in Seq(S), s # <<>>
  PROVE  /\ Head(s) \in S /\ Tail(s) \in Seq(S) /\ Len(Tail(s)) <= Len(s)
         /\ Tail(s) = <<>> => Head(s) = s[Len(s)]
         /\ Tail(s) # <<>> => Tail(s)[Len(Tail(s))] = s[Len(s)]
<1>1. Len(s) \in Nat \ {0} /\ Len(Tail(s)) = Len(s) - 1 /\ Head(s) = s[1] /\ Tail(s) \in Seq(S)
  BY EmptySeq, HeadTailProperties
<1>2. Tail(s) = <<>> => Len(s) = 1
  <2>1. Tail(s) = <<>> => Len(Tail(s)) = 0
    BY EmptySeq
  <2> QED
    BY <1>1, <2>1
<1>3. Tail(s) # <<>> => Len(Tail(s)) \in 1 .. Len(Tail(s))
  BY <1>1, EmptySeq
<1> QED
  BY <1>1, <1>2, <1>3, HeadTailProperties

(* Publishing the status that is being written keeps the listeners in        *)
(* agreement with it.                                                        *)
LEMMA PublishAgrees ==
  ASSUME WatcherInv, NEW st \in BOOLEAN, PublishStatusLocked(st), SnapshotLocked' = st,
         status' \in {"none", "connected", "disconnected"}
  PROVE  WatcherInv'
<1> USE StatusConstants DEF WatcherInv, Listening
<1>1. ASSUME NEW w \in Watcher
      PROVE  /\ watcher'[w] \in [on : {FALSE}] \cup Listening
             /\ watcher'[w].on => Len(watcher'[w].chan) <= StatusBuffer
             /\ watcher'[w].on /\ ~watcher'[w].missed =>
                  watcher'[w].chan # <<>> /\ watcher'[w].chan[Len(watcher'[w].chan)] = st
  <2>1. CASE ~watcher[w].on
    BY <2>1 DEF PublishStatusLocked
  <2>2. CASE watcher[w].on /\ Len(watcher[w].chan) < StatusBuffer
    <3>1. watcher'[w] = [watcher[w] EXCEPT !.chan = Append(@, st), !.missed = FALSE]
      BY <2>2 DEF PublishStatusLocked
    <3>2. watcher[w] \in Listening
      BY <2>2
    <3> DEFINE chan == Append(watcher[w].chan, st)
    <3>3. /\ chan \in Seq(BOOLEAN) /\ chan # <<>>
          /\ Len(chan) = Len(watcher[w].chan) + 1 /\ Len(watcher[w].chan) \in Nat
          /\ chan[Len(chan)] = st
      BY <3>2
    <3> HIDE DEF chan
    <3>4. watcher'[w].chan = chan /\ watcher'[w].on /\ watcher'[w] \in Listening
      BY <3>1, <3>2, <3>3 DEF chan
    <3>5. Len(chan) <= StatusBuffer
      BY <2>2, <3>3
    <3> QED
      BY <3>3, <3>4, <3>5, Zenon
  <2>3. CASE watcher[w].on /\ ~(Len(watcher[w].chan) < StatusBuffer)
    <3>1. watcher'[w] = [watcher[w] EXCEPT !.missed = TRUE]
      BY <2>3 DEF PublishStatusLocked
    <3>2. watcher[w] \in Listening
      BY <2>3
    <3> QED
      BY <2>3, <3>1, <3>2
  <2> QED
    BY <2>1, <2>2, <2>3
<1>2. watcher' = [w \in Watcher |-> watcher'[w]]
  BY DEF PublishStatusLocked
<1> QED
  BY <1>1, <1>2 DEF WatchersAgree

(* Writing an entry publishes it. *)
LEMMA WriteAgrees ==
  ASSUME WatcherInv, NEW connected \in BOOLEAN, NEW old, Write(connected, old)
  PROVE  WatcherInv'
  BY PublishAgrees DEF Write, Says, SnapshotLocked

(* Taking the client out of the cache ends the status in the map and for the *)
(* listeners.                                                                *)
LEMMA TakeOutClientAgrees ==
  ASSUME WatcherInv, TakeOutClient
  PROVE  WatcherInv'
<1>1. CASE status = "none"
  BY <1>1 DEF TakeOutClient, WatcherInv, WatchersAgree, SnapshotLocked
<1>2. CASE status # "none"
  BY <1>2, PublishAgrees DEF TakeOutClient, SnapshotLocked
<1> QED
  BY <1>1, <1>2

(* An observation that is overtaken keeps its shape. *)
LEMMA OvertakeShape ==
  ASSUME CallerInv, Overtake
  PROVE  CallerInv'
<1> SUFFICES ASSUME NEW p \in Caller PROVE caller'[p] \in CallerState
  BY DEF Overtake, CallerInv
<1>1. caller[p] \in CallerState
  BY DEF CallerInv
<1>2. CASE caller[p].pc \in {"observe", "probe", "failed"}
  BY <1>1, <1>2 DEF Overtake, CallerState
<1>3. CASE caller[p].pc \notin {"observe", "probe", "failed"}
  BY <1>1, <1>3 DEF Overtake
<1> QED
  BY <1>2, <1>3

(* Every step of the status map keeps the inductive invariant. *)
LEMMA StatusStep ==
  ASSUME StatusInv, [CsNext]_csVars
  PROVE  StatusInv'
<1> USE StatusConstants DEF linkVars, StatusInv
<1>1. ASSUME UNCHANGED <<status, watcher>> PROVE WatcherInv'
  BY <1>1 DEF WatcherInv, WatchersAgree, SnapshotLocked
<1>2. ASSUME UNCHANGED <<kept, link, doomed>> PROVE LinkInv'
  BY <1>2 DEF LinkInv
<1>3. ASSUME TakeOutClient, UNCHANGED link PROVE LinkInv'
  BY <1>3 DEF LinkInv, TakeOutClient
<1>4. ASSUME UNCHANGED caller PROVE CallerInv'
  BY <1>4 DEF CallerInv
<1>5. ASSUME NEW p \in Caller, NEW q \in CallerState, Step(p, q) PROVE CallerInv'
  BY <1>5 DEF CallerInv, Step
<1>6. ASSUME NEW c \in Link, NEW to \in {"up", "down", "closed"}, NEW called, LinkChanges(c, to, called)
      PROVE  CallerInv' /\ WatcherInv' /\ (doomed' \subseteq doomed => LinkInv')
  BY <1>6, <1>1, OvertakeShape DEF LinkChanges, LinkInv
<1>11. ASSUME NEW c \in Link, LinkDown(c) PROVE StatusInv'
  BY <1>11, <1>6 DEF LinkDown
<1>12. ASSUME NEW c \in Link, LinkUp(c) PROVE StatusInv'
  BY <1>12, <1>6 DEF LinkUp
<1>13. ASSUME NEW c \in Link, LinkGivesUp(c) PROVE StatusInv'
  BY <1>13, <1>6 DEF LinkGivesUp
<1>14. ASSUME NEW c \in Link, CloseLink(c) PROVE StatusInv'
  <2>1. CASE link[c] = "closed"
    BY <1>14, <2>1, <1>1, <1>4 DEF CloseLink, LinkInv, LinkChanges
  <2>2. CASE link[c] # "closed"
    BY <1>14, <2>2, <1>6 DEF CloseLink
  <2> QED
    BY <2>1, <2>2
<1>15. ASSUME NEW c \in Link, MarkDisconnected(c) PROVE StatusInv'
  BY <1>15, <1>2, <1>4, WriteAgrees DEF MarkDisconnected
<1>16. ASSUME NEW c \in Link, MarkReconnected(c) PROVE StatusInv'
  BY <1>16, <1>2, <1>4, WriteAgrees DEF MarkReconnected
<1>17. ASSUME NEW c \in Link, OnClosedEvicts(c) PROVE StatusInv'
  BY <1>17, <1>3, TakeOutClientAgrees, OvertakeShape DEF OnClosedEvicts
<1>18. CASE EvictClient
  BY <1>18, <1>3, TakeOutClientAgrees, OvertakeShape DEF EvictClient
<1>19. CASE StopManager
  <2>1. WatcherInv'
    BY <1>19 DEF StopManager, WatcherInv, WatchersAgree
  <2>2. LinkInv'
    BY <1>19 DEF StopManager, LinkInv
  <2> QED
    BY <1>19, <2>1, <2>2, OvertakeShape DEF StopManager
<1>20. ASSUME NEW p \in Caller, Get(p) PROVE StatusInv'
  <2>1. /\ [pc |-> "dial"] \in CallerState
        /\ kept # NoLink =>
             [pc |-> "observe", conn |-> kept, dialled |-> FALSE, old |-> FALSE] \in CallerState
    BY DEF CallerState, LinkInv
  <2> QED
    BY <1>20, <2>1, <1>1, <1>2, <1>3, <1>5, TakeOutClientAgrees DEF Get
<1>21. ASSUME NEW p \in Caller, DialAndKeep(p) PROVE StatusInv'
  <2>1. WatcherInv'
    BY <1>21, <1>1 DEF DialAndKeep
  <2>2. LinkInv'
    BY <1>21 DEF DialAndKeep, LinkInv
  <2>3. CallerInv'
    <3>1. [pc |-> "failed", old |-> kept # NoLink] \in CallerState /\ CsIdle \in CallerState
      BY DEF CallerState, CsIdle
    <3>2. ASSUME NEW c \in Link, NEW q \in Caller
          PROVE  /\ [pc |-> "observe", conn |-> c, dialled |-> q = p, old |-> FALSE] \in CallerState
                 /\ caller[q].pc \in {"observe", "probe", "failed"} =>
                      [caller[q] EXCEPT !.old = TRUE] \in CallerState
                 /\ caller[q] \in CallerState
      BY DEF CallerInv, CallerState
    <3>3. CASE Step(p, [pc |-> "failed", old |-> kept # NoLink]) \/ Step(p, CsIdle)
      BY <3>1, <3>3, <1>5
    <3>4. CASE \E c \in Link : caller' = [q \in Caller |->
               CASE caller[q].pc = "dial" ->
                      [pc |-> "observe", conn |-> c, dialled |-> q = p, old |-> FALSE]
                 [] caller[q].pc \in {"observe", "probe", "failed"} -> [caller[q] EXCEPT !.old = TRUE]
                 [] OTHER -> caller[q]]
      BY <3>2, <3>4 DEF CallerInv
    <3> QED
      BY <1>21, <3>3, <3>4 DEF DialAndKeep
  <2> QED
    BY <2>1, <2>2, <2>3
<1>22. ASSUME NEW p \in Caller, ObserveAlive(p) PROVE StatusInv'
  <2>1. [caller[p] EXCEPT !.pc = "probe", !.conn = link[caller[p].conn] = "up"] \in CallerState
    BY <1>22 DEF ObserveAlive, CallerInv, CallerState
  <2> QED
    BY <1>22, <2>1, <1>1, <1>2, <1>5 DEF ObserveAlive
<1>23. ASSUME NEW p \in Caller, MarkConnected(p) PROVE StatusInv'
  <2>1. caller[p].conn \in BOOLEAN /\ CsIdle \in CallerState
    BY <1>23 DEF MarkConnected, CallerInv, CallerState, CsIdle
  <2> QED
    BY <1>23, <2>1, <1>2, <1>5, WriteAgrees DEF MarkConnected
<1>24. ASSUME NEW p \in Caller, MarkFailed(p) PROVE StatusInv'
  <2>1. CsIdle \in CallerState
    BY DEF CallerState, CsIdle
  <2> QED
    BY <1>24, <2>1, <1>2, <1>5, WriteAgrees DEF MarkFailed
<1>25. ASSUME NEW w \in Watcher, SubscribeStatus(w) PROVE StatusInv'
  <2> DEFINE new == [on |-> TRUE, chan |-> <<>>, seen |-> SnapshotLocked, missed |-> FALSE]
  <2>0. new \in Listening /\ new.on /\ new.chan = <<>> /\ new.seen = SnapshotLocked /\ Len(<<>>) = 0
    BY DEF Listening, SnapshotLocked
  <2> HIDE DEF new
  <2>1. WatcherInv'
    <3>1. watcher' = [watcher EXCEPT ![w] = new] /\ status' = status
      BY <1>25 DEF SubscribeStatus, new
    <3>2. watcher'[w] = new /\ \A x \in Watcher : x # w => watcher'[x] = watcher[x]
      BY <3>1 DEF WatcherInv
    <3>3. SnapshotLocked' = SnapshotLocked
      BY <3>1 DEF SnapshotLocked
    <3>4. WatchersAgree'
      BY <2>0, <3>2, <3>3, Zenon DEF WatcherInv, WatchersAgree
    <3>5. \A x \in Watcher : watcher'[x].on => Len(watcher'[x].chan) <= StatusBuffer
      BY <2>0, <3>2 DEF WatcherInv
    <3> QED
      BY <2>0, <3>1, <3>4, <3>5 DEF WatcherInv
  <2> QED
    BY <1>25, <2>1, <1>2, <1>4 DEF SubscribeStatus
<1>26. ASSUME NEW w \in Watcher, ConnectionEventsSSE(w) PROVE StatusInv'
  <2> DEFINE chan == watcher[w].chan
             new  == [watcher[w] EXCEPT !.seen = Head(chan), !.chan = Tail(chan)]
  <2>0. watcher[w] \in Listening /\ chan \in Seq(BOOLEAN) /\ chan # <<>>
    BY <1>26 DEF ConnectionEventsSSE, WatcherInv, Listening
  <2>a. /\ Head(chan) \in BOOLEAN /\ Tail(chan) \in Seq(BOOLEAN) /\ Len(Tail(chan)) <= Len(chan)
        /\ Tail(chan) = <<>> => Head(chan) = chan[Len(chan)]
        /\ Tail(chan) # <<>> => Tail(chan)[Len(Tail(chan))] = chan[Len(chan)]
    BY <2>0, LastOfTail
  <2>b. new \in Listening /\ new.on /\ new.chan = Tail(chan) /\ new.seen = Head(chan)
        /\ new.missed = watcher[w].missed
    BY <2>0, <2>a DEF Listening
  <2>1. WatcherInv'
    <3>1. watcher' = [watcher EXCEPT ![w] = new] /\ status' = status
      BY <1>26, <2>0 DEF ConnectionEventsSSE, WatcherInv
    <3>2. Len(Tail(chan)) <= StatusBuffer
      BY <2>0, <2>a, <1>26 DEF ConnectionEventsSSE, WatcherInv
    <3> HIDE DEF new
    <3>3. watcher'[w] = new /\ \A x \in Watcher : x # w => watcher'[x] = watcher[x]
      BY <3>1 DEF WatcherInv
    <3>4. WatchersAgree'
      <4>1. SnapshotLocked' = SnapshotLocked
        BY <3>1 DEF SnapshotLocked
      <4>2. watcher[w].on /\ (~watcher[w].missed => SnapshotLocked = chan[Len(chan)])
        BY <2>0, <1>26 DEF ConnectionEventsSSE, WatcherInv, WatchersAgree
      <4>3. ~new.missed =>
              SnapshotLocked = IF new.chan = <<>> THEN new.seen ELSE new.chan[Len(new.chan)]
        BY <2>a, <2>b, <4>2, Zenon
      <4>4. \A x \in Watcher : x # w /\ watcher[x].on /\ ~watcher[x].missed =>
              SnapshotLocked = IF watcher[x].chan = <<>> THEN watcher[x].seen
                               ELSE watcher[x].chan[Len(watcher[x].chan)]
        BY DEF WatcherInv, WatchersAgree
      <4> QED
        BY <3>3, <4>1, <4>3, <4>4, Zenon DEF WatchersAgree
    <3> QED
      BY <2>b, <3>1, <3>2, <3>3, <3>4 DEF WatcherInv
  <2> QED
    BY <1>26, <2>1, <1>2, <1>4 DEF ConnectionEventsSSE
<1>27. ASSUME NEW w \in Watcher, UnsubscribeStatus(w) PROVE StatusInv'
  <2>1. WatcherInv'
    BY <1>27 DEF UnsubscribeStatus, WatcherInv, WatchersAgree, SnapshotLocked
  <2> QED
    BY <1>27, <2>1, <1>2, <1>4 DEF UnsubscribeStatus
<1>28. CASE UNCHANGED csVars
  BY <1>28, <1>1, <1>2, <1>4 DEF csVars
<1> QED
  BY <1>11, <1>12, <1>13, <1>14, <1>15, <1>16, <1>17, <1>18, <1>19, <1>20, <1>21, <1>22, <1>23,
     <1>24, <1>25, <1>26, <1>27, <1>28 DEF CsNext

-----------------------------------------------------------------------------
(* Why the status is what it is.                                             *)
Hook == {"disconnect", "reconnect", "closed"}
HookOf(state) ==
  IF state = "up" THEN "reconnect" ELSE IF state = "down" THEN "disconnect" ELSE "closed"

(* The last hook yet to run is about the state the connection is in.         *)
HooksInv ==
  /\ hooks = [c \in Link |-> hooks[c]]
  /\ \A c \in Link : hooks[c] \in Seq(Hook)
  /\ \A c \in Link : hooks[c] # <<>> =>
       link[c] # "free" /\ hooks[c][Len(hooks[c])] = HookOf(link[c])

(* Whoever keeps a connection open: the cache, or a close that is due.       *)
OwnedInv == \A c \in Link : link[c] \in {"up", "down"} => c = kept \/ c \in doomed

KeptIsUp == kept # NoLink /\ link[kept] = "up"

(* What a request saw is still so, unless it has been overtaken.             *)
SawRight(q) ==
  ~q.old => /\ q.pc = "observe" => q.conn = kept /\ KeptIsUp
            /\ q.pc = "probe" => q.conn = TRUE /\ KeptIsUp
            /\ q.pc = "failed" => kept = NoLink
ObservedInv == \A p \in Caller : caller[p].pc \in {"observe", "probe", "failed"} => SawRight(caller[p])

(* A step that will set the status right is yet to come: a hook of the       *)
(* cached connection or of a closed one, a close, or the mark of a dial.     *)
Marks(q) == q.pc \in {"observe", "probe"} /\ q.dialled
Pending ==
  \/ \E c \in Link : hooks[c] # <<>> /\ (c = kept \/ link[c] = "closed")
  \/ \E c \in doomed : link[c] \in {"up", "down"}
  \/ \E p \in Caller : Marks(caller[p])

Explained == overtaken \/ (SnapshotLocked = KeptIsUp) \/ Pending

ExplainedInv == HooksInv /\ OwnedInv /\ ObservedInv /\ Explained

LEMMA LastOfConcat ==
  ASSUME NEW S, NEW s \in Seq(S), NEW u \in Seq(S), u # <<>>
  PROVE  /\ s \o u \in Seq(S) /\ s \o u # <<>>
         /\ (s \o u)[Len(s \o u)] = u[Len(u)]
<1>1. Len(s) \in Nat /\ Len(u) \in Nat \ {0}
  BY EmptySeq, LenProperties
<1>2. s \o u \in Seq(S) /\ Len(s \o u) = Len(s) + Len(u)
  BY ConcatProperties
<1>3. \A i \in 1 .. Len(s) + Len(u) : (s \o u)[i] = IF i <= Len(s) THEN s[i] ELSE u[i - Len(s)]
  BY ConcatProperties
<1>4. Len(s) + Len(u) \in 1 .. Len(s) + Len(u) /\ ~(Len(s) + Len(u) <= Len(s))
  BY <1>1
<1>5. s \o u # <<>>
  BY <1>1, <1>2, EmptySeq
<1> QED  BY <1>1, <1>2, <1>3, <1>4, <1>5

(* After the cache or a connection changed, every observation is old.        *)
LEMMA OvertakesAll ==
  ASSUME CallerInv, Overtake
  PROVE  /\ ObservedInv'
         /\ \A p \in Caller : Marks(caller[p]) => Marks(caller'[p])
<1>1. ASSUME NEW p \in Caller
      PROVE  /\ caller'[p].pc \in {"observe", "probe", "failed"} => caller'[p].old
             /\ Marks(caller[p]) => Marks(caller'[p])
  <2>1. caller[p] \in CallerState
    BY DEF CallerInv
  <2>2. CASE caller[p].pc \in {"observe", "probe", "failed"}
    <3>1. caller'[p] = [caller[p] EXCEPT !.old = TRUE]
      BY <2>2 DEF Overtake
    <3> QED  BY <2>1, <2>2, <3>1 DEF CallerState, Marks
  <2>3. CASE caller[p].pc \notin {"observe", "probe", "failed"}
    <3>1. caller'[p] = caller[p]
      BY <2>3 DEF Overtake
    <3> QED  BY <2>3, <3>1 DEF Marks
  <2> QED  BY <2>2, <2>3
<1> QED  BY <1>1 DEF ObservedInv, SawRight

(* A change of a connection has its hook, so that something is pending.      *)
LEMMA ChangePends ==
  ASSUME StatusInv, ExplainedInv, NEW c \in Link, NEW to \in {"up", "down", "closed"},
         NEW called \in Seq(Hook), called # <<>>, called[Len(called)] = HookOf(to),
         link[c] \in {"up", "down"}, LinkChanges(c, to, called),
         doomed' = doomed \/ (doomed' = doomed \ {c} /\ to = "closed")
  PROVE  ExplainedInv'
<1>1. /\ link' = [link EXCEPT ![c] = to] /\ hooks' = [hooks EXCEPT ![c] = @ \o called]
      /\ kept' = kept /\ Overtake
  BY DEF LinkChanges, Queue
<1>2. link'[c] = to /\ \A d \in Link : d # c => link'[d] = link[d]
  BY <1>1 DEF StatusInv, LinkInv
<1>3. hooks'[c] = hooks[c] \o called /\ \A d \in Link : d # c => hooks'[d] = hooks[d]
  BY <1>1 DEF ExplainedInv, HooksInv
<1>4. /\ hooks'[c] \in Seq(Hook) /\ hooks'[c] # <<>>
      /\ hooks'[c][Len(hooks'[c])] = HookOf(to)
  BY <1>3, LastOfConcat DEF ExplainedInv, HooksInv
<1>5. HooksInv'
  <2>1. hooks' = [d \in Link |-> hooks'[d]]
    BY <1>1 DEF ExplainedInv, HooksInv
  <2>2. ASSUME NEW d \in Link
        PROVE  /\ hooks'[d] \in Seq(Hook)
               /\ hooks'[d] # <<>> =>
                    link'[d] # "free" /\ hooks'[d][Len(hooks'[d])] = HookOf(link'[d])
    BY <1>2, <1>3, <1>4 DEF ExplainedInv, HooksInv
  <2> QED  BY <2>1, <2>2 DEF HooksInv, HookOf
<1>6. c = kept \/ c \in doomed
  BY DEF ExplainedInv, OwnedInv
<1>7. OwnedInv'
  BY <1>1, <1>2, <1>6 DEF ExplainedInv, OwnedInv
<1>8. Pending'
  BY <1>1, <1>2, <1>4, <1>6 DEF Pending
<1>9. ObservedInv'
  BY <1>1, OvertakesAll DEF StatusInv
<1> QED  BY <1>5, <1>7, <1>8, <1>9 DEF ExplainedInv, Explained

(* A hook that has run was the last one and about what is, or another is     *)
(* still to come.                                                            *)
LEMMA HookRuns ==
  ASSUME StatusInv, ExplainedInv, NEW c \in Link, NEW hook \in Hook, Runs(c, hook)
  PROVE  /\ (link' = link) => HooksInv'
         /\ hooks'[c] = <<>> => hook = HookOf(link[c])
         /\ link[c] # "free"
<1>1. hooks[c] # <<>> /\ Head(hooks[c]) = hook /\ hooks' = [hooks EXCEPT ![c] = Tail(@)]
  BY DEF Runs
<1>2. hooks'[c] = Tail(hooks[c]) /\ \A d \in Link : d # c => hooks'[d] = hooks[d]
  BY <1>1 DEF ExplainedInv, HooksInv
<1>3. /\ hooks[c] \in Seq(Hook) /\ link[c] # "free"
      /\ hooks[c][Len(hooks[c])] = HookOf(link[c])
  BY <1>1 DEF ExplainedInv, HooksInv
<1>4. /\ Tail(hooks[c]) \in Seq(Hook)
      /\ Tail(hooks[c]) = <<>> => hook = HookOf(link[c])
      /\ Tail(hooks[c]) # <<>> => Tail(hooks[c])[Len(Tail(hooks[c]))] = HookOf(link[c])
  BY <1>1, <1>3, LastOfTail
<1>5. ASSUME link' = link PROVE HooksInv'
  <2>1. hooks' = [d \in Link |-> hooks'[d]]
    BY <1>1 DEF ExplainedInv, HooksInv
  <2>2. ASSUME NEW d \in Link
        PROVE  /\ hooks'[d] \in Seq(Hook)
               /\ hooks'[d] # <<>> =>
                    link'[d] # "free" /\ hooks'[d][Len(hooks'[d])] = HookOf(link'[d])
    BY <1>2, <1>3, <1>4, <1>5 DEF ExplainedInv, HooksInv
  <2> QED  BY <2>1, <2>2 DEF HooksInv, HookOf
<1> QED  BY <1>2, <1>3, <1>4, <1>5

(* What a hook writes is so, or a later hook or close will set it right.     *)
LEMMA MarkExplained ==
  ASSUME StatusInv, ExplainedInv, NEW c \in Link, NEW hook \in {"disconnect", "reconnect"},
         Runs(c, hook), UNCHANGED <<kept, link, doomed, caller>>,
         SnapshotLocked' = (hook = "reconnect" /\ link[c] = "up")
  PROVE  ExplainedInv'
<1>1. HooksInv' /\ (hooks'[c] = <<>> => hook = HookOf(link[c])) /\ link[c] # "free"
  BY HookRuns DEF Hook
<1>2. OwnedInv' /\ ObservedInv'
  BY DEF ExplainedInv, OwnedInv, ObservedInv, SawRight, KeptIsUp
<1>3. link[c] \in {"up", "down", "closed"}
  BY <1>1 DEF StatusInv, LinkInv
<1>4. CASE hooks'[c] # <<>> /\ (c = kept \/ link[c] = "closed")
  BY <1>1, <1>2, <1>4 DEF ExplainedInv, Explained, Pending
<1>5. CASE c # kept /\ link[c] # "closed"
  <2>1. c \in doomed /\ link[c] \in {"up", "down"}
    BY <1>3, <1>5 DEF ExplainedInv, OwnedInv
  <2> QED  BY <1>1, <1>2, <2>1 DEF ExplainedInv, Explained, Pending
<1>6. CASE hooks'[c] = <<>> /\ (c = kept \/ link[c] = "closed")
  <2>1. hook = HookOf(link[c])
    BY <1>1, <1>6
  <2>2. c = kept /\ c # NoLink /\ (link[c] = "up" <=> hook = "reconnect")
    BY <1>3, <1>6, <2>1, StatusConstants DEF HookOf
  <2>3. (SnapshotLocked = KeptIsUp)'
    BY <2>2 DEF KeptIsUp
  <2> QED  BY <1>1, <1>2, <2>3 DEF ExplainedInv, Explained
<1> QED  BY <1>4, <1>5, <1>6

(* An eviction leaves no client and no status.                               *)
LEMMA EvictionExplained ==
  ASSUME StatusInv, ExplainedInv, TakeOutClient, UNCHANGED link, HooksInv', ObservedInv'
  PROVE  ExplainedInv'
<1>1. kept' = NoLink /\ doomed' = doomed \cup ({kept} \ {NoLink}) /\ status' = "none"
  BY DEF TakeOutClient
<1>2. OwnedInv'
  BY <1>1, StatusConstants DEF ExplainedInv, OwnedInv, StatusInv, LinkInv
<1>3. (SnapshotLocked = KeptIsUp)'
  BY <1>1 DEF SnapshotLocked, KeptIsUp
<1> QED  BY <1>2, <1>3 DEF ExplainedInv, Explained

LEMMA ExplainedStep ==
  ASSUME StatusInv, ExplainedInv, [CsNext]_csVars
  PROVE  ExplainedInv'
<1> USE DEF linkVars
<1>0. /\ <<"disconnect">> \in Seq(Hook) /\ <<"reconnect">> \in Seq(Hook) /\ <<"closed">> \in Seq(Hook)
      /\ <<"disconnect", "closed">> \in Seq(Hook)
      /\ Len(<<"disconnect">>) = 1 /\ Len(<<"reconnect">>) = 1 /\ Len(<<"closed">>) = 1
      /\ Len(<<"disconnect", "closed">>) = 2
  BY DEF Hook
<1>1. ASSUME UNCHANGED <<linkVars, status, overtaken, caller>> PROVE ExplainedInv'
  BY <1>1 DEF ExplainedInv, HooksInv, OwnedInv, ObservedInv, SawRight, KeptIsUp, Explained,
              SnapshotLocked, Pending
<1>2. ASSUME UNCHANGED <<link, hooks>> PROVE HooksInv'
  BY <1>2 DEF ExplainedInv, HooksInv
<1>3. ASSUME UNCHANGED <<kept, link, doomed>> PROVE OwnedInv'
  BY <1>3 DEF ExplainedInv, OwnedInv
<1>4. ASSUME NEW p \in Caller, NEW q, Step(p, q)
      PROVE  caller'[p] = q /\ \A x \in Caller : x # p => caller'[x] = caller[x]
  BY <1>4 DEF Step, StatusInv, CallerInv
<1>5. ASSUME NEW p \in Caller, NEW q, Step(p, q), UNCHANGED <<kept, link>>,
             q.pc \in {"observe", "probe", "failed"} => SawRight(q)
      PROVE  ObservedInv'
  <2>1. ASSUME NEW x \in Caller, caller'[x].pc \in {"observe", "probe", "failed"}
        PROVE  SawRight(caller'[x])
    BY <1>4, <1>5, <2>1 DEF ExplainedInv, ObservedInv
  <2> QED  BY <1>5, <2>1 DEF ObservedInv, SawRight, KeptIsUp
<1>11. ASSUME NEW c \in Link, LinkDown(c) PROVE ExplainedInv'
  BY <1>0, <1>11, ChangePends DEF LinkDown, HookOf
<1>12. ASSUME NEW c \in Link, LinkUp(c) PROVE ExplainedInv'
  BY <1>0, <1>12, ChangePends DEF LinkUp, HookOf
<1>13. ASSUME NEW c \in Link, LinkGivesUp(c) PROVE ExplainedInv'
  BY <1>0, <1>13, ChangePends DEF LinkGivesUp, HookOf
<1>14. ASSUME NEW c \in Link, CloseLink(c) PROVE ExplainedInv'
  <2>1. CASE link[c] = "up"
    BY <1>0, <1>14, <2>1, ChangePends DEF CloseLink, HookOf
  <2>2. CASE link[c] = "down"
    BY <1>0, <1>14, <2>2, ChangePends DEF CloseLink, HookOf
  <2>3. CASE link[c] = "closed"
    <3>1. doomed' = doomed \ {c} /\ UNCHANGED <<kept, link, hooks, status, overtaken, caller>>
      BY <1>14, <2>3 DEF CloseLink
    <3>2. OwnedInv'
      BY <2>3, <3>1 DEF ExplainedInv, OwnedInv
    <3>3. ObservedInv'
      BY <3>1 DEF ExplainedInv, ObservedInv, SawRight, KeptIsUp
    <3>4. Explained'
      BY <2>3, <3>1 DEF ExplainedInv, Explained, SnapshotLocked, KeptIsUp, Pending
    <3> QED  BY <1>2, <3>1, <3>2, <3>3, <3>4 DEF ExplainedInv
  <2> QED  BY <1>14, <2>1, <2>2, <2>3 DEF CloseLink
<1>15. ASSUME NEW c \in Link, MarkDisconnected(c) PROVE ExplainedInv'
  BY <1>15, MarkExplained DEF MarkDisconnected, Write, Says, SnapshotLocked
<1>16. ASSUME NEW c \in Link, MarkReconnected(c) PROVE ExplainedInv'
  BY <1>16, MarkExplained DEF MarkReconnected, Write, Says, SnapshotLocked
<1>17. ASSUME NEW c \in Link, OnClosedEvicts(c) PROVE ExplainedInv'
  <2>1. HooksInv'
    BY <1>17, HookRuns DEF OnClosedEvicts, Hook
  <2>2. ObservedInv'
    BY <1>17, OvertakesAll DEF OnClosedEvicts, StatusInv
  <2> QED  BY <1>17, <2>1, <2>2, EvictionExplained DEF OnClosedEvicts
<1>18. CASE EvictClient
  <2>1. ObservedInv'
    BY <1>18, OvertakesAll DEF EvictClient, StatusInv
  <2> QED  BY <1>2, <1>18, <2>1, EvictionExplained DEF EvictClient
<1>19. CASE StopManager
  <2>1. /\ kept # NoLink /\ kept \in Link /\ link[kept] \in {"up", "down", "closed"}
        /\ kept' = NoLink /\ doomed' = doomed \cup {kept}
        /\ UNCHANGED <<link, hooks, status, overtaken>> /\ Overtake
    BY <1>19 DEF StopManager, StatusInv, LinkInv
  <2>2. ObservedInv' /\ \A p \in Caller : Marks(caller[p]) => Marks(caller'[p])
    BY <2>1, OvertakesAll DEF StatusInv
  <2>3. OwnedInv'
    BY <2>1 DEF ExplainedInv, OwnedInv
  <2>4. Pending => Pending'
    BY <2>1, <2>2 DEF Pending
  <2>5. KeptIsUp => Pending'
    BY <2>1 DEF KeptIsUp, Pending
  <2>6. ~KeptIsUp'
    BY <2>1 DEF KeptIsUp
  <2>7. SnapshotLocked' = SnapshotLocked
    BY <2>1 DEF SnapshotLocked
  <2>8. Explained'
    BY <2>1, <2>4, <2>5, <2>6, <2>7 DEF ExplainedInv, Explained, SnapshotLocked, KeptIsUp
  <2> QED  BY <1>2, <2>1, <2>2, <2>3, <2>8 DEF ExplainedInv
<1>20. ASSUME NEW p \in Caller, Get(p) PROVE ExplainedInv'
  <2> DEFINE seen == [pc |-> "observe", conn |-> kept, dialled |-> FALSE, old |-> FALSE]
             dial == [pc |-> "dial"]
  <2>0. caller[p].pc = "idle" /\ ~Marks(caller[p])
    BY <1>20 DEF Get, Marks
  <2>1. /\ seen.pc = "observe" /\ seen.conn = kept /\ dial.pc = "dial"
    OBVIOUS
  <2> HIDE DEF seen, dial
  <2>2. ASSUME NEW q, Step(p, q), UNCHANGED <<linkVars, status, overtaken>>
        PROVE  Explained'
    <3>1. Pending => Pending'
      BY <1>4, <2>0, <2>2 DEF Pending
    <3> QED  BY <2>2, <3>1 DEF ExplainedInv, Explained, SnapshotLocked, KeptIsUp
  <2>3. CASE /\ KeptIsUp /\ Step(p, seen)
             /\ UNCHANGED <<linkVars, status, overtaken, watcher>>
    <3>1. SawRight(seen)
      BY <2>1, <2>3 DEF SawRight
    <3> QED  BY <1>2, <1>3, <1>5, <2>2, <2>3, <3>1 DEF ExplainedInv
  <2>4. CASE Step(p, dial) /\ UNCHANGED <<linkVars, status, overtaken, watcher>>
    BY <1>2, <1>3, <1>5, <2>1, <2>2, <2>4 DEF ExplainedInv
  <2>5. CASE kept # NoLink /\ link[kept] # "up" /\ TakeOutClient /\ Step(p, dial) /\ UNCHANGED <<link, hooks>>
    <3>1. \A x \in Caller : caller[x].pc \in {"observe", "probe", "failed"} => caller[x].old
      BY <2>5 DEF ExplainedInv, ObservedInv, SawRight, KeptIsUp
    <3>2. \A x \in Caller : caller'[x].pc \in {"observe", "probe", "failed"} => caller'[x].old
      BY <1>4, <2>1, <2>5, <3>1
    <3>3. ObservedInv'
      BY <3>2 DEF ObservedInv, SawRight
    <3> QED  BY <1>2, <2>5, <3>3, EvictionExplained
  <2> QED  BY <1>20, <2>3, <2>4, <2>5 DEF Get, KeptIsUp, seen, dial
<1>21. ASSUME NEW p \in Caller, DialAndKeep(p) PROVE ExplainedInv'
  <2>0. caller[p].pc = "dial" /\ ~Marks(caller[p]) /\ UNCHANGED <<hooks, status, overtaken>>
    BY <1>21 DEF DialAndKeep, Marks
  <2>1. ASSUME NEW c \in Link, link[c] = "free",
               link' = [link EXCEPT ![c] = "up"], kept' = c,
               doomed' = doomed \cup ({kept} \ {NoLink}),
               caller' = [q \in Caller |->
                 CASE caller[q].pc = "dial" ->
                        [pc |-> "observe", conn |-> c, dialled |-> q = p, old |-> FALSE]
                   [] caller[q].pc \in {"observe", "probe", "failed"} -> [caller[q] EXCEPT !.old = TRUE]
                   [] OTHER -> caller[q]]
        PROVE  ExplainedInv'
    <3>1. link'[c] = "up" /\ \A d \in Link : d # c => link'[d] = link[d]
      BY <2>1 DEF StatusInv, LinkInv
    <3>2. hooks[c] = <<>>
      BY <2>1 DEF ExplainedInv, HooksInv
    <3>3. HooksInv'
      BY <2>0, <3>1, <3>2 DEF ExplainedInv, HooksInv
    <3>4. OwnedInv'
      BY <2>1, <3>1, StatusConstants DEF ExplainedInv, OwnedInv
    <3>5. KeptIsUp'
      BY <2>1, <3>1, StatusConstants DEF KeptIsUp
    <3>6. ASSUME NEW q \in Caller, caller'[q].pc \in {"observe", "probe", "failed"}
          PROVE  caller'[q].old \/ (caller'[q].pc = "observe" /\ caller'[q].conn = c)
      <4>0. caller[q] \in CallerState
        BY DEF StatusInv, CallerInv
      <4>1. CASE caller[q].pc = "dial"
        <5>1. caller'[q] = [pc |-> "observe", conn |-> c, dialled |-> q = p, old |-> FALSE]
          BY <2>1, <4>1
        <5> QED  BY <5>1
      <4>2. CASE caller[q].pc \in {"observe", "probe", "failed"}
        <5>1. caller'[q] = [caller[q] EXCEPT !.old = TRUE]
          BY <2>1, <4>2
        <5> QED  BY <4>0, <4>2, <5>1 DEF CallerState
      <4>3. CASE caller[q].pc \notin {"dial", "observe", "probe", "failed"}
        <5>1. caller'[q] = caller[q]
          BY <2>1, <4>3
        <5> QED  BY <3>6, <4>3, <5>1
      <4> QED  BY <4>1, <4>2, <4>3
    <3>7. ObservedInv'
      BY <2>1, <3>5, <3>6 DEF ObservedInv, SawRight
    <3>8. Pending'
      <4>1. caller'[p] = [pc |-> "observe", conn |-> c, dialled |-> TRUE, old |-> FALSE]
        BY <2>0, <2>1
      <4> QED  BY <4>1 DEF Pending, Marks
    <3> QED  BY <3>3, <3>4, <3>7, <3>8 DEF ExplainedInv, Explained
  <2>2. ASSUME Step(p, [pc |-> "failed", old |-> kept # NoLink]) \/ Step(p, CsIdle),
               UNCHANGED <<link, kept, doomed>>
        PROVE  ExplainedInv'
    <3>1. /\ SawRight([pc |-> "failed", old |-> kept # NoLink])
          /\ CsIdle.pc = "idle"
      BY DEF SawRight, CsIdle
    <3>2. ObservedInv'
      BY <1>5, <2>2, <3>1
    <3>3. Pending => Pending'
      BY <1>4, <2>0, <2>2 DEF Pending
    <3>4. Explained'
      BY <2>0, <2>2, <3>3 DEF ExplainedInv, Explained, SnapshotLocked, KeptIsUp
    <3> QED  BY <1>2, <1>3, <2>0, <2>2, <3>2, <3>4 DEF ExplainedInv
  <2> QED  BY <1>21, <2>1, <2>2 DEF DialAndKeep
<1>22. ASSUME NEW p \in Caller, ObserveAlive(p) PROVE ExplainedInv'
  <2> DEFINE up == link[caller[p].conn] = "up"
             q == [caller[p] EXCEPT !.pc = "probe", !.conn = up]
  <2>1. caller[p].pc = "observe" /\ Step(p, q) /\ UNCHANGED <<linkVars, status, overtaken>>
    BY <1>22 DEF ObserveAlive
  <2>2. caller[p] \in CallerState
    BY DEF StatusInv, CallerInv
  <2>3. /\ q.pc = "probe" /\ q.conn = up /\ q.old = caller[p].old /\ q.dialled = caller[p].dialled
    BY <2>1, <2>2 DEF CallerState
  <2>4. SawRight(caller[p])
    BY <2>1 DEF ExplainedInv, ObservedInv
  <2> HIDE DEF q
  <2>5. SawRight(q)
    BY <2>1, <2>3, <2>4 DEF SawRight, KeptIsUp
  <2>6. ObservedInv'
    BY <1>5, <2>1, <2>5
  <2>7. Pending => Pending'
    BY <1>4, <2>1, <2>3 DEF Pending, Marks
  <2>8. Explained'
    BY <2>1, <2>7 DEF ExplainedInv, Explained, SnapshotLocked, KeptIsUp
  <2> QED  BY <1>2, <1>3, <2>1, <2>6, <2>8 DEF ExplainedInv
<1>23. ASSUME NEW p \in Caller, MarkConnected(p) \/ MarkFailed(p) PROVE ExplainedInv'
  <2>1. /\ Step(p, CsIdle) /\ UNCHANGED linkVars /\ overtaken' = caller[p].old
        /\ caller[p].pc \in {"probe", "failed"}
        /\ caller[p].pc = "probe" => SnapshotLocked' = (caller[p].conn = TRUE)
        /\ caller[p].pc = "failed" => SnapshotLocked' = FALSE
    BY <1>23 DEF MarkConnected, MarkFailed, Write, Says, SnapshotLocked
  <2>2. ObservedInv'
    BY <1>5, <2>1 DEF CsIdle
  <2>3. ~caller[p].old => SnapshotLocked' = KeptIsUp
    BY <2>1 DEF ExplainedInv, ObservedInv, SawRight, KeptIsUp
  <2>4. KeptIsUp' = KeptIsUp
    BY <2>1 DEF KeptIsUp
  <2>5. Explained'
    BY <2>1, <2>3, <2>4 DEF Explained
  <2> QED  BY <1>2, <1>3, <2>1, <2>2, <2>5 DEF ExplainedInv
<1>24. ASSUME NEW w \in Watcher, SubscribeStatus(w) \/ ConnectionEventsSSE(w) \/ UnsubscribeStatus(w)
       PROVE  ExplainedInv'
  BY <1>1, <1>24 DEF SubscribeStatus, ConnectionEventsSSE, UnsubscribeStatus
<1>25. CASE UNCHANGED csVars
  BY <1>1, <1>25 DEF csVars
<1> QED
  BY <1>11, <1>12, <1>13, <1>14, <1>15, <1>16, <1>17, <1>18, <1>19, <1>20, <1>21, <1>22, <1>23,
     <1>24, <1>25 DEF CsNext

(* A listener that missed nothing holds the status of the map, however hooks, *)
(* requests and evictions of any number of connections interleave            *)
(* (SubscribeStatus, publishStatusLocked, evict); and once nothing is        *)
(* pending, a status that is wrong was written by a request that had been    *)
(* overtaken (markConnected, OnDisconnect, OnReconnect, OnClosed).           *)
THEOREM StatusSafe == CsSpec => [](CsTypeOK /\ WatchersAgree /\ StatusExplained)
<1>1. CsInit => StatusInv
  <2> USE StatusConstants DEF CsInit
  <2>1. CsInit => LinkInv
    BY DEF LinkInv
  <2>2. CsInit => CallerInv
    BY DEF CallerInv, CallerState, CsIdle
  <2>3. CsInit => WatcherInv
    BY DEF WatcherInv, WatchersAgree
  <2> QED
    BY <2>1, <2>2, <2>3 DEF StatusInv
<1>2. CsInit => ExplainedInv
  <2> SUFFICES ASSUME CsInit PROVE ExplainedInv
    OBVIOUS
  <2>1. HooksInv
    BY DEF CsInit, HooksInv
  <2>2. OwnedInv /\ ObservedInv
    BY DEF CsInit, OwnedInv, ObservedInv, CsIdle
  <2>3. Explained
    BY DEF CsInit, Explained, SnapshotLocked, KeptIsUp
  <2> QED  BY <2>1, <2>2, <2>3 DEF ExplainedInv
<1>3. StatusInv => CsTypeOK /\ WatchersAgree
  BY DEF StatusInv, LinkInv, WatcherInv, CsTypeOK
<1>4. StatusInv /\ ExplainedInv => StatusExplained
  <2> SUFFICES ASSUME StatusInv, ExplainedInv, doomed = {}, \A c \in Link : hooks[c] = <<>>,
                      \A p \in Caller : caller[p].pc \in {"observe", "probe"} => ~caller[p].dialled
               PROVE  SnapshotLocked = (kept # NoLink /\ link[kept] = "up") \/ overtaken
    BY DEF StatusExplained
  <2>1. ~Pending
    BY DEF Pending, Marks
  <2> QED  BY <2>1 DEF ExplainedInv, Explained, KeptIsUp
<1> QED
  BY <1>1, <1>2, <1>3, <1>4, StatusStep, ExplainedStep, PTL DEF CsSpec
============================================================================

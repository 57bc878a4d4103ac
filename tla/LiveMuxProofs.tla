--------------------------- MODULE LiveMuxProofs ---------------------------
(***************************************************************************)
(* The safety of the live multiplexer, for any number of keys, viewers,    *)
(* queue slots and client epochs.                                          *)
(***************************************************************************)
EXTENDS LiveMux, TLAPS

(* Program points between Attach and Detach: the session is a viewer of its *)
(* sharedSub.                                                               *)
Inside == Subscribing \cup {"wait", "attached", "detach"}

(* A session is a viewer of exactly the sharedSub it joined, from attach to  *)
(* detach.                                                                   *)
InsideIsMember ==
  /\ \A v \in Viewer : pc[v] \in Inside => joined[v] \in Viewer /\ v \in members[joined[v]]
  /\ \A s, v \in Viewer : v \in members[s] => pc[v] \in Inside

(* A registered sharedSub has viewers, was registered by its creator and has *)
(* its one subscribe attempt started.                                        *)
RegisteredIsAlive ==
  \A k \in Key : \A s \in Viewer :
    subs[k] = s => members[s] # {} /\ started[s] /\ key[s] = k /\ pc[s] \notin {"idle", "attach"}

(* A session that has not attached has not created a sharedSub. *)
NotYetCreated ==
  \A s \in Viewer :
    pc[s] \in {"idle", "attach"} =>
      /\ members[s] = {} /\ ~started[s] /\ ~live[s] /\ ~outClosed[s]
      /\ \A v \in Viewer : taken[v] # s

(* The subscribe attempt belongs to the creator, and its result is visible   *)
(* before ready is closed.                                                   *)
AttemptByCreator ==
  /\ \A v \in Viewer : pc[v] \in Subscribing => joined[v] = v
  /\ \A s \in Viewer :
       pc[s] \in {"idle", "attach", "subscribe", "storeOk", "storeErr"} => ~subErr[s] /\ ~sub[s]
  /\ \A s \in Viewer : pc[s] \in {"idle", "attach"} \cup Subscribing => ~ready[s]
  /\ \A s \in Viewer : pc[s] = "signalErr" => subErr[s]

(* A sharedSub that has viewers, is ready and did not fail holds a           *)
(* subscription made on its creator's client.                                *)
Fed(s) == live[s] \/ client[s] # epoch
ReadyIsFed ==
  /\ \A s \in Viewer : pc[s] = "storeOk" => Fed(s)
  /\ \A s \in Viewer : pc[s] = "signalOk" => sub[s] /\ ~subErr[s] /\ Fed(s)
  /\ \A s \in Viewer : ready[s] /\ ~subErr[s] /\ members[s] # {} => sub[s] /\ Fed(s)
  /\ \A v \in Viewer : pc[v] = "attached" => ready[joined[v]] /\ ~subErr[joined[v]]
  /\ \A v \in Viewer : client[v] <= epoch

(* A handle is in exactly one place: the sharedSub, while it has viewers, or *)
(* the detach that emptied it.                                               *)
HandleHeld ==
  /\ \A s \in Viewer : sub[s] => members[s] # {}
  /\ \A v, s \in Viewer : taken[v] = s => members[s] = {} /\ pc[v] \in {"stop", "unsub"}
  /\ \A s \in Viewer : live[s] => sub[s] \/ pc[s] = "storeOk" \/ \E v \in Viewer : taken[v] = s

(* A channel is closed behind a closed session or a failed attach. *)
ClosedBehind ==
  \A v \in Viewer :
    /\ outClosed[v] => pc[v] \in {"unsub", "done"}
    /\ pc[v] \in {"detach", "stop", "unsub", "done"} =>
         joined[v] \in Viewer /\ (closed[v] \/ subErr[joined[v]])

IInv ==
  /\ TypeOK
  /\ MembersMapped
  /\ InsideIsMember
  /\ RegisteredIsAlive
  /\ NotYetCreated
  /\ AttemptByCreator
  /\ ReadyIsFed
  /\ HandleHeld
  /\ ClosedBehind

----------------------------------------------------------------------------
(* Every step keeps the types. *)
LEMMA TypeStep ==
  ASSUME TypeOK, [Next]_vars
  PROVE  TypeOK'
<1> USE ConstantsOK DEF TypeOK, PC, Subscribing, muxVars, fanVars, sessionVars, viewerVars
<1>1. ASSUME NEW v \in Viewer, Handle(v) PROVE TypeOK'
  BY <1>1 DEF Handle
<1>2. ASSUME NEW v \in Viewer, Attach(v) PROVE TypeOK'
  BY <1>2 DEF Attach, NeedSubscribe
<1>3. ASSUME NEW v \in Viewer, Subscribe(v) PROVE TypeOK'
  <2>1. pc' \in [Viewer -> PC]
    BY <1>3 DEF Subscribe
  <2>2. live' \in [Viewer -> BOOLEAN]
    BY <1>3 DEF Subscribe
  <2> QED
    BY <1>3, <2>1, <2>2 DEF Subscribe
<1>4. ASSUME NEW v \in Viewer, StoreResult(v) PROVE TypeOK'
  BY <1>4 DEF StoreResult
<1>5. ASSUME NEW v \in Viewer, SignalReady(v) PROVE TypeOK'
  BY <1>5 DEF SignalReady
<1>6. ASSUME NEW v \in Viewer, AwaitReady(v) PROVE TypeOK'
  BY <1>6 DEF AwaitReady
<1>7. ASSUME NEW v \in Viewer, EndSession(v) PROVE TypeOK'
  BY <1>7 DEF EndSession
<1>8. ASSUME NEW v \in Viewer, Detach(v) PROVE TypeOK'
  <2>1. CASE subs[key[v]] = None
    BY <1>8, <2>1 DEF Detach
  <2>2. CASE subs[key[v]] # None
    <3> DEFINE s == subs[key[v]]
    <3>1. s \in Viewer
      BY <2>2
    <3>2. members' = [members EXCEPT ![s] = members[s] \ {v}]
      BY <1>8, <2>2 DEF Detach
    <3>3. sub' = [sub EXCEPT ![s] = sub[s] /\ ~LastOut(s, v)]
      BY <1>8, <2>2 DEF Detach
    <3>4. members' \in [Viewer -> SUBSET Viewer]
      BY <3>1, <3>2
    <3>5. sub' \in [Viewer -> BOOLEAN]
      BY <3>1, <3>3
    <3>6. taken' \in [Viewer -> Viewer \cup {None}] /\ subs' \in [Key -> Viewer \cup {None}]
      BY <1>8, <2>2, <3>1, SMTT(30) DEF Detach
    <3>7. UNCHANGED <<started, ready, subErr, live, todo, chk, key, client, joined, closed, out,
                      outClosed, exited, writing, farewell, epoch, crashed>> /\ pc' \in [Viewer -> PC]
      BY <1>8 DEF Detach
    <3> HIDE DEF s
    <3> QED
      BY <3>4, <3>5, <3>6, <3>7
  <2> QED
    BY <2>1, <2>2
<1>9. ASSUME NEW v \in Viewer, StopViewer(v) PROVE TypeOK'
  BY <1>9 DEF StopViewer
<1>10. ASSUME NEW v \in Viewer, Unsubscribe(v) PROVE TypeOK'
  BY <1>10 DEF Unsubscribe
<1>11. ASSUME NEW v \in Viewer, CloseSession(v) PROVE TypeOK'
  BY <1>11 DEF CloseSession
<1>12. ASSUME NEW v \in Viewer, FarewellReturns(v) PROVE TypeOK'
  BY <1>12 DEF FarewellReturns
<1>13. ASSUME NEW v \in Viewer, TakeFrame(v) PROVE TypeOK'
  BY <1>13 DEF TakeFrame
<1>20. ASSUME NEW v \in Viewer, WriteReturns(v) PROVE TypeOK'
  BY <1>20 DEF WriteReturns
<1>14. ASSUME NEW v \in Viewer, WriteExit(v) PROVE TypeOK'
  BY <1>14 DEF WriteExit
<1>15. ASSUME NEW v \in Viewer, FanoutBegin(v) PROVE TypeOK'
  BY <1>15 DEF FanoutBegin
<1>16. ASSUME NEW v \in Viewer, FanoutCheck(v) PROVE TypeOK'
  BY <1>16 DEF FanoutCheck
<1>17. ASSUME NEW v \in Viewer, FanoutSend(v) PROVE TypeOK'
  <2>1. chk[v] \in Viewer
    BY <1>17 DEF FanoutSend
  <2>2. crashed' \in BOOLEAN
    BY <1>17, <2>1 DEF FanoutSend
  <2>3. out' \in [Viewer -> 0..Buffer]
    BY <1>17, <2>1, SMTT(30) DEF FanoutSend
  <2> QED
    BY <1>17, <2>2, <2>3 DEF FanoutSend
<1>18. CASE EvictClient
  BY <1>18 DEF EvictClient
<1>19. CASE UNCHANGED vars
  BY <1>19 DEF vars
<1>q. QED
  BY <1>1, <1>2, <1>3, <1>4, <1>5, <1>6, <1>7, <1>8, <1>9, <1>10, <1>11, <1>12, <1>13, <1>14,
     <1>15, <1>16, <1>17, <1>18, <1>19, <1>20
  DEF Next, Step, SessionStep, WriterStep, Browser, FanStep, Finished




(* Every step keeps the inductive invariant. *)
LEMMA InvStep ==
  ASSUME IInv, [Next]_vars
  PROVE  IInv'
<1> TypeOK'
  BY TypeStep DEF IInv
<1> USE ConstantsOK DEF IInv, TypeOK, Inside, PC, Subscribing, Fed, muxVars, fanVars, sessionVars, viewerVars
(* What the writers, the fan-out and the browser touch is outside   *)
(* the invariant, except closed, which they only set.                      *)
<1>0. ASSUME UNCHANGED <<subs, members, started, ready, sub, subErr, live, pc, key, client,
                         joined, taken, outClosed, epoch>>,
             \A v \in Viewer : closed[v] => closed'[v]
      PROVE  IInv'
  BY <1>0 DEF MembersMapped, InsideIsMember, RegisteredIsAlive, NotYetCreated, AttemptByCreator,
              ReadyIsFed, HandleHeld, ClosedBehind
<1>1. ASSUME NEW v \in Viewer, Handle(v) PROVE IInv'
  <2>1. MembersMapped'
    BY <1>1 DEF Handle, MembersMapped
  <2>2. InsideIsMember'
    BY <1>1 DEF Handle, InsideIsMember
  <2>3. RegisteredIsAlive'
    BY <1>1 DEF Handle, RegisteredIsAlive
  <2>4. NotYetCreated'
    BY <1>1 DEF Handle, NotYetCreated
  <2>5. AttemptByCreator'
    BY <1>1 DEF Handle, AttemptByCreator
  <2>6. ReadyIsFed'
    BY <1>1 DEF Handle, AttemptByCreator, ReadyIsFed
  <2>7. HandleHeld'
    BY <1>1 DEF Handle, HandleHeld
  <2>8. ClosedBehind'
    BY <1>1 DEF Handle, ClosedBehind
  <2> QED
    BY <2>1, <2>2, <2>3, <2>4, <2>5, <2>6, <2>7, <2>8
<1>2. ASSUME NEW v \in Viewer, Attach(v) PROVE IInv'
  <2>1. MembersMapped'
    BY <1>2 DEF Attach, NeedSubscribe, MembersMapped
  <2>2. InsideIsMember'
    BY <1>2, SMTT(30) DEF Attach, NeedSubscribe, InsideIsMember
  <2>3. RegisteredIsAlive'
    BY <1>2 DEF Attach, NeedSubscribe, InsideIsMember, RegisteredIsAlive
  <2>4. NotYetCreated'
    BY <1>2 DEF Attach, NeedSubscribe, RegisteredIsAlive, NotYetCreated
  <2>5. AttemptByCreator'
    BY <1>2, SMTT(30) DEF Attach, NeedSubscribe, RegisteredIsAlive, NotYetCreated, AttemptByCreator
  <2>6. ReadyIsFed'
    BY <1>2, SMTT(30)
    DEF Attach, NeedSubscribe, InsideIsMember, RegisteredIsAlive, NotYetCreated, AttemptByCreator,
        ReadyIsFed
  <2>7. HandleHeld'
    BY <1>2, SMTT(30) DEF Attach, NeedSubscribe, RegisteredIsAlive, NotYetCreated, HandleHeld
  <2>8. ClosedBehind'
    BY <1>2 DEF Attach, NeedSubscribe, ClosedBehind
  <2> QED
    BY <2>1, <2>2, <2>3, <2>4, <2>5, <2>6, <2>7, <2>8
<1>3. ASSUME NEW v \in Viewer, Subscribe(v) PROVE IInv'
  <2>1. MembersMapped'
    BY <1>3 DEF Subscribe, MembersMapped
  <2>2. InsideIsMember'
    BY <1>3 DEF Subscribe, InsideIsMember
  <2>3. RegisteredIsAlive'
    BY <1>3 DEF Subscribe, RegisteredIsAlive
  <2>4. NotYetCreated'
    BY <1>3 DEF Subscribe, InsideIsMember, NotYetCreated
  <2>5. AttemptByCreator'
    BY <1>3 DEF Subscribe, AttemptByCreator
  <2>6. ReadyIsFed'
    BY <1>3 DEF Subscribe, AttemptByCreator, ReadyIsFed
  <2>7. HandleHeld'
    <3>1. /\ UNCHANGED <<members, sub, taken>>
          /\ pc[v] = "subscribe" /\ joined[v] = v
          /\ pc' = [pc EXCEPT ![v] = "storeOk"] \/ pc' = [pc EXCEPT ![v] = "storeErr"]
      BY <1>3 DEF Subscribe, AttemptByCreator
    <3>2. ASSUME NEW t \in Viewer, live'[t]
          PROVE  sub'[t] \/ pc'[t] = "storeOk" \/ \E w \in Viewer : taken'[w] = t
      <4>1. CASE t = v
        BY <1>3, <3>1, <3>2, <4>1 DEF Subscribe, HandleHeld
      <4>2. CASE t # v
        <5>1. live[t] /\ pc'[t] = pc[t]
          BY <1>3, <3>1, <3>2, <4>2 DEF Subscribe
        <5> QED
          BY <3>1, <5>1 DEF HandleHeld
      <4> QED
        BY <4>1, <4>2
    <3>3. \A w, t \in Viewer : taken'[w] = t => members'[t] = {} /\ pc'[w] \in {"stop", "unsub"}
      BY <3>1, SMTT(30) DEF HandleHeld
    <3> QED
      BY <3>1, <3>2, <3>3 DEF HandleHeld
  <2>8. ClosedBehind'
    BY <1>3 DEF Subscribe, ClosedBehind
  <2> QED
    BY <2>1, <2>2, <2>3, <2>4, <2>5, <2>6, <2>7, <2>8
<1>4. ASSUME NEW v \in Viewer, StoreResult(v) PROVE IInv'
  <2>1. MembersMapped'
    BY <1>4 DEF StoreResult, MembersMapped
  <2>2. InsideIsMember'
    BY <1>4 DEF StoreResult, InsideIsMember
  <2>3. RegisteredIsAlive'
    BY <1>4 DEF StoreResult, RegisteredIsAlive
  <2>4. NotYetCreated'
    BY <1>4 DEF StoreResult, NotYetCreated
  <2>a. /\ joined[v] = v
        /\ UNCHANGED <<members, ready, live, client, joined, epoch>>
    BY <1>4 DEF StoreResult, AttemptByCreator
  <2>b. \/ /\ pc[v] = "storeOk" /\ pc' = [pc EXCEPT ![v] = "signalOk"]
           /\ sub' = [sub EXCEPT ![v] = TRUE] /\ subErr' = [subErr EXCEPT ![v] = FALSE]
        \/ /\ pc[v] = "storeErr" /\ pc' = [pc EXCEPT ![v] = "signalErr"]
           /\ sub' = [sub EXCEPT ![v] = FALSE] /\ subErr' = [subErr EXCEPT ![v] = TRUE]
    BY <1>4, <2>a DEF StoreResult
  <2>5. AttemptByCreator'
    <3>1. \A s \in Viewer : s # v => pc'[s] = pc[s] /\ sub'[s] = sub[s] /\ subErr'[s] = subErr[s]
      BY <2>b
    <3>2. pc'[v] = "signalOk" \/ (pc'[v] = "signalErr" /\ subErr'[v])
      BY <2>b
    <3>3. AttemptByCreator /\ ~ready[v]
      BY <2>b DEF AttemptByCreator
    <3> HIDE DEF IInv, TypeOK
    <3> QED
      BY <2>a, <3>1, <3>2, <3>3 DEF AttemptByCreator
  <2>6. ReadyIsFed'
    <3>1. \A s \in Viewer : s # v => pc'[s] = pc[s] /\ sub'[s] = sub[s] /\ subErr'[s] = subErr[s]
      BY <2>b
    <3>2. (pc'[v] = "signalOk" /\ sub'[v] /\ ~subErr'[v] /\ Fed(v)) \/ pc'[v] = "signalErr"
      BY <2>b DEF ReadyIsFed
    <3>3. ~ready[v]
      BY <2>b DEF AttemptByCreator
    <3>4. ReadyIsFed /\ \A w \in Viewer : pc[w] = "attached" => joined[w] \in Viewer
      BY DEF InsideIsMember
    <3> HIDE DEF IInv, TypeOK
    <3> QED
      BY <2>a, <3>1, <3>2, <3>3, <3>4 DEF ReadyIsFed
  <2>7. HandleHeld'
    BY <1>4 DEF StoreResult, InsideIsMember, AttemptByCreator, HandleHeld
  <2>8. ClosedBehind'
    BY <1>4 DEF StoreResult, AttemptByCreator, ClosedBehind
  <2> QED
    BY <2>1, <2>2, <2>3, <2>4, <2>5, <2>6, <2>7, <2>8
<1>5. ASSUME NEW v \in Viewer, SignalReady(v) PROVE IInv'
  <2>1. MembersMapped'
    BY <1>5 DEF SignalReady, MembersMapped
  <2>2. InsideIsMember'
    BY <1>5 DEF SignalReady, InsideIsMember
  <2>3. RegisteredIsAlive'
    BY <1>5 DEF SignalReady, RegisteredIsAlive
  <2>4. NotYetCreated'
    BY <1>5 DEF SignalReady, NotYetCreated
  <2>5. AttemptByCreator'
    BY <1>5 DEF SignalReady, AttemptByCreator
  <2>6. ReadyIsFed'
    BY <1>5 DEF SignalReady, AttemptByCreator, ReadyIsFed
  <2>7. HandleHeld'
    BY <1>5 DEF SignalReady, HandleHeld
  <2>8. ClosedBehind'
    BY <1>5 DEF SignalReady, AttemptByCreator, ClosedBehind
  <2> QED
    BY <2>1, <2>2, <2>3, <2>4, <2>5, <2>6, <2>7, <2>8
<1>6. ASSUME NEW v \in Viewer, AwaitReady(v) PROVE IInv'
  <2>1. MembersMapped'
    BY <1>6 DEF AwaitReady, MembersMapped
  <2>2. InsideIsMember'
    BY <1>6 DEF AwaitReady, InsideIsMember
  <2>3. RegisteredIsAlive'
    BY <1>6 DEF AwaitReady, RegisteredIsAlive
  <2>4. NotYetCreated'
    BY <1>6 DEF AwaitReady, NotYetCreated
  <2>5. AttemptByCreator'
    BY <1>6 DEF AwaitReady, AttemptByCreator
  <2>6. ReadyIsFed'
    BY <1>6 DEF AwaitReady, ReadyIsFed
  <2>7. HandleHeld'
    BY <1>6 DEF AwaitReady, HandleHeld
  <2>8. ClosedBehind'
    BY <1>6 DEF AwaitReady, InsideIsMember, ClosedBehind
  <2> QED
    BY <2>1, <2>2, <2>3, <2>4, <2>5, <2>6, <2>7, <2>8
<1>7. ASSUME NEW v \in Viewer, EndSession(v) PROVE IInv'
  <2>1. MembersMapped'
    BY <1>7 DEF EndSession, MembersMapped
  <2>2. InsideIsMember'
    BY <1>7 DEF EndSession, InsideIsMember
  <2>3. RegisteredIsAlive'
    BY <1>7 DEF EndSession, RegisteredIsAlive
  <2>4. NotYetCreated'
    BY <1>7 DEF EndSession, NotYetCreated
  <2>5. AttemptByCreator'
    BY <1>7 DEF EndSession, AttemptByCreator
  <2>6. ReadyIsFed'
    BY <1>7 DEF EndSession, ReadyIsFed
  <2>7. HandleHeld'
    BY <1>7 DEF EndSession, HandleHeld
  <2>8. ClosedBehind'
    BY <1>7 DEF EndSession, Leaving, InsideIsMember, ClosedBehind
  <2> QED
    BY <2>1, <2>2, <2>3, <2>4, <2>5, <2>6, <2>7, <2>8
<1>8. ASSUME NEW v \in Viewer, Detach(v) PROVE IInv'
  <2> DEFINE s == joined[v]
  <2>1. s \in Viewer /\ v \in members[s] /\ subs[key[v]] = s /\ s # None
    BY <1>8 DEF Detach, InsideIsMember, MembersMapped
  <2>2. /\ pc[v] = "detach"
        /\ members' = [members EXCEPT ![s] = members[s] \ {v}]
        /\ taken' = [taken EXCEPT ![v] = IF members[s] \ {v} = {} /\ sub[s] THEN s ELSE None]
        /\ sub' = [sub EXCEPT ![s] = sub[s] /\ members[s] \ {v} # {}]
        /\ subs' = [subs EXCEPT ![key[v]] = IF members[s] \ {v} = {} THEN None ELSE s]
        /\ pc' = [pc EXCEPT ![v] = "stop"]
        /\ UNCHANGED <<started, ready, subErr, live, todo, chk, key, client, joined, closed, out,
                       outClosed, exited, writing, farewell, epoch, crashed>>
    BY <1>8, <2>1 DEF Detach, LastOut
  <2> HIDE DEF s
  <2>3. MembersMapped'
    BY <2>1, <2>2 DEF MembersMapped, InsideIsMember
  <2>4. InsideIsMember'
    BY <2>1, <2>2 DEF s, InsideIsMember, MembersMapped
  <2>5. RegisteredIsAlive'
    BY <2>1, <2>2 DEF RegisteredIsAlive, MembersMapped
  <2>6. NotYetCreated'
    BY <2>1, <2>2 DEF NotYetCreated
  <2>7. AttemptByCreator'
    BY <2>1, <2>2 DEF AttemptByCreator
  <2>a. ASSUME NEW t \in Viewer PROVE sub'[t] <=> sub[t] /\ members'[t] # {}
    <3>1. CASE t = s
      <4>1. members'[s] = members[s] \ {v}
        BY <2>1, <2>2
      <4>2. sub'[s] = (sub[s] /\ members[s] \ {v} # {})
        BY <2>1, <2>2
      <4> QED
        BY <3>1, <4>1, <4>2
    <3>2. CASE t # s
      BY <2>1, <2>2, <3>2 DEF HandleHeld
    <3> QED
      BY <3>1, <3>2
  <2>b. ASSUME NEW t \in Viewer, pc[t] = "signalOk" PROVE members'[t] # {}
    BY <2>1, <2>2, <2>b DEF InsideIsMember, AttemptByCreator
  <2>c. \A t \in Viewer : members'[t] # {} => members[t] # {}
    BY <2>1, <2>2
  <2>8. ReadyIsFed'
    BY <2>2, <2>a, <2>b, <2>c DEF ReadyIsFed
  <2>9. HandleHeld'
    <3>1. \A t \in Viewer : sub'[t] => members'[t] # {}
      BY <2>a
    <3>2. \A w, t \in Viewer : taken'[w] = t => members'[t] = {} /\ pc'[w] \in {"stop", "unsub"}
      BY <2>1, <2>2 DEF HandleHeld
    <3>3. ASSUME NEW t \in Viewer, live'[t]
          PROVE  sub'[t] \/ pc'[t] = "storeOk" \/ \E w \in Viewer : taken'[w] = t
      BY <2>1, <2>2, <3>3 DEF HandleHeld
    <3> QED
      BY <3>1, <3>2, <3>3 DEF HandleHeld
  <2>10. ClosedBehind'
    BY <2>1, <2>2 DEF ClosedBehind, ReadyIsFed
  <2> QED
    BY <2>3, <2>4, <2>5, <2>6, <2>7, <2>8, <2>9, <2>10
<1>9. ASSUME NEW v \in Viewer, StopViewer(v) PROVE IInv'
  <2>1. MembersMapped'
    BY <1>9 DEF StopViewer, MembersMapped
  <2>2. InsideIsMember'
    BY <1>9 DEF StopViewer, InsideIsMember
  <2>3. RegisteredIsAlive'
    BY <1>9 DEF StopViewer, RegisteredIsAlive
  <2>4. NotYetCreated'
    BY <1>9 DEF StopViewer, NotYetCreated
  <2>5. AttemptByCreator'
    BY <1>9 DEF StopViewer, AttemptByCreator
  <2>6. ReadyIsFed'
    BY <1>9 DEF StopViewer, ReadyIsFed
  <2>7. HandleHeld'
    BY <1>9 DEF StopViewer, HandleHeld
  <2>8. ClosedBehind'
    BY <1>9 DEF StopViewer, ClosedBehind
  <2> QED
    BY <2>1, <2>2, <2>3, <2>4, <2>5, <2>6, <2>7, <2>8
<1>10. ASSUME NEW v \in Viewer, Unsubscribe(v) PROVE IInv'
  <2>1. MembersMapped'
    BY <1>10 DEF Unsubscribe, MembersMapped
  <2>2. InsideIsMember'
    BY <1>10 DEF Unsubscribe, InsideIsMember
  <2>3. RegisteredIsAlive'
    BY <1>10 DEF Unsubscribe, RegisteredIsAlive
  <2>4. NotYetCreated'
    BY <1>10 DEF Unsubscribe, NotYetCreated
  <2>5. AttemptByCreator'
    BY <1>10 DEF Unsubscribe, AttemptByCreator
  <2>6. ReadyIsFed'
    BY <1>10 DEF Unsubscribe, InsideIsMember, AttemptByCreator, ReadyIsFed, HandleHeld
  <2>7. HandleHeld'
    BY <1>10 DEF Unsubscribe, HandleHeld
  <2>8. ClosedBehind'
    BY <1>10 DEF Unsubscribe, ClosedBehind
  <2> QED
    BY <2>1, <2>2, <2>3, <2>4, <2>5, <2>6, <2>7, <2>8
<1>11. ASSUME NEW v \in Viewer, CloseSession(v) PROVE IInv'
  BY <1>0, <1>11 DEF CloseSession
<1>12. ASSUME NEW v \in Viewer, FarewellReturns(v) PROVE IInv'
  BY <1>0, <1>12 DEF FarewellReturns
<1>13. ASSUME NEW v \in Viewer, TakeFrame(v) PROVE IInv'
  BY <1>0, <1>13 DEF TakeFrame
<1>20. ASSUME NEW v \in Viewer, WriteReturns(v) PROVE IInv'
  BY <1>0, <1>20 DEF WriteReturns
<1>14. ASSUME NEW v \in Viewer, WriteExit(v) PROVE IInv'
  BY <1>0, <1>14 DEF WriteExit
<1>15. ASSUME NEW v \in Viewer, FanoutBegin(v) PROVE IInv'
  BY <1>0, <1>15 DEF FanoutBegin
<1>16. ASSUME NEW v \in Viewer, FanoutCheck(v) PROVE IInv'
  BY <1>0, <1>16 DEF FanoutCheck
<1>17. ASSUME NEW v \in Viewer, FanoutSend(v) PROVE IInv'
  BY <1>0, <1>17 DEF FanoutSend
<1>18. CASE EvictClient
  BY <1>18 DEF EvictClient, MembersMapped, InsideIsMember, RegisteredIsAlive, NotYetCreated,
              AttemptByCreator, ReadyIsFed, HandleHeld, ClosedBehind
<1>19. CASE UNCHANGED vars
  BY <1>0, <1>19 DEF vars
<1>q. QED
  BY <1>1, <1>2, <1>3, <1>4, <1>5, <1>6, <1>7, <1>8, <1>9, <1>10, <1>11, <1>12, <1>13, <1>14,
     <1>15, <1>16, <1>17, <1>18, <1>19, <1>20
  DEF Next, Step, SessionStep, WriterStep, Browser, FanStep, Finished

(* The inductive invariant holds in every reachable state. *)
THEOREM Inductive == Spec => []IInv
<1>1. Init => IInv
  <2> SUFFICES ASSUME Init PROVE IInv
    OBVIOUS
  <2>1. TypeOK
    <3>1. epoch \in 1..MaxEpoch /\ 0 \in 0..MaxEpoch /\ 0 \in 0..Buffer
      BY ConstantsOK DEF Init
    <3> QED
      BY <3>1 DEF Init, TypeOK, PC
  <2>2. MembersMapped /\ InsideIsMember /\ RegisteredIsAlive /\ NotYetCreated
    BY ConstantsOK DEF Init, MembersMapped, InsideIsMember, RegisteredIsAlive, NotYetCreated,
                       Inside, Subscribing
  <2>3. AttemptByCreator /\ ReadyIsFed /\ HandleHeld /\ ClosedBehind
    BY ConstantsOK DEF Init, AttemptByCreator, ReadyIsFed, HandleHeld, ClosedBehind, Subscribing
  <2> QED
    BY <2>1, <2>2, <2>3 DEF IInv
<1>2. IInv /\ [Next]_vars => IInv'
  BY InvStep
<1> QED
  BY <1>1, <1>2, PTL DEF Spec

(* The variables keep their types: in particular no viewer's queue exceeds   *)
(* viewerOutboundBuffer.                                                     *)
THEOREM TypeCorrect == Spec => []TypeOK
<1>1. IInv => TypeOK
  BY DEF IInv
<1> QED
  BY <1>1, Inductive, PTL

(* detach, which looks the sharedSub up by key, always finds the one the     *)
(* viewer is a member of.                                                    *)
THEOREM DetachFindsOwn == Spec => []MembersMapped
<1>1. IInv => MembersMapped
  BY DEF IInv
<1> QED
  BY <1>1, Inductive, PTL

(* A successful attach leaves the viewer in the fan-out set of a sharedSub   *)
(* that holds a subscription.                                                *)
THEOREM AttachGivesFeed == Spec => []AttachedHasFeed
<1>1. IInv => AttachedHasFeed
  <2> SUFFICES ASSUME IInv, NEW v \in Viewer, pc[v] = "attached"
               PROVE  LET s == joined[v]
                      IN  v \in members[s] /\ sub[s] /\ (live[s] \/ client[s] # epoch)
    BY DEF AttachedHasFeed
  <2>1. joined[v] \in Viewer /\ v \in members[joined[v]]
    BY DEF IInv, InsideIsMember, Inside
  <2> QED
    BY <2>1 DEF IInv, ReadyIsFed, Fed
<1> QED
  BY <1>1, Inductive, PTL

(* Only one session ever attempts the subscription of a sharedSub. *)
THEOREM OneAttempt == Spec => []SingleSubscriber
<1>1. IInv => SingleSubscriber
  BY DEF IInv, AttemptByCreator, SingleSubscriber
<1> QED
  BY <1>1, Inductive, PTL

(* No subscription is left behind when its last viewer detaches. *)
THEOREM NoOrphan == Spec => []NoOrphanSubscription
<1>1. IInv => NoOrphanSubscription
  <2> SUFFICES ASSUME IInv, NEW s \in Viewer, live[s]
               PROVE  \/ \E k \in Key : subs[k] = s
                      \/ \E v \in Viewer : taken[v] = s /\ pc[v] \in {"stop", "unsub"}
    BY DEF NoOrphanSubscription
  <2>1. CASE sub[s] \/ pc[s] = "storeOk"
    <3>1. PICK v \in Viewer : v \in members[s]
      BY <2>1 DEF IInv, TypeOK, HandleHeld, InsideIsMember, AttemptByCreator, Inside, Subscribing
    <3>2. key[v] \in Key /\ subs[key[v]] = s
      BY <3>1 DEF IInv, TypeOK, MembersMapped
    <3> QED
      BY <3>2
  <2>2. CASE \E v \in Viewer : taken[v] = s
    BY <2>2 DEF IInv, HandleHeld
  <2> QED
    BY <2>1, <2>2 DEF IInv, HandleHeld
<1> QED
  BY <1>1, Inductive, PTL

(* A viewer's channel is closed only behind a closed session or a failed     *)
(* subscribe.                                                                *)
THEOREM ClosedFirst == Spec => []StopAfterClosed
<1>1. IInv => StopAfterClosed
  BY DEF IInv, ClosedBehind, StopAfterClosed
<1> QED
  BY <1>1, Inductive, PTL
=============================================================================

------------------------------ MODULE LiveMux ------------------------------
(***************************************************************************)
(* The shared-subscription multiplexer of the live view                    *)
(* (internal/live/mux.go) together with the part of a WebSocket session    *)
(* (internal/live/hub.go) that drives it.                                  *)
(*                                                                         *)
(* Every WebSocket session owns one muxViewer.  Viewers of the same        *)
(* (cluster, stream, filter, fromSeq) key share one JetStream subscription *)
(* (a sharedSub).  The goroutines that interleave are: one per session     *)
(* (attach, wait for the end, detach), one writeLoop per viewer, and the   *)
(* NATS callback of each subscription, which fans a message out.           *)
(*                                                                         *)
(* A write to the browser has no deadline: it returns when the browser     *)
(* reads or goes away, which it may never do.  What ends a write for       *)
(* certain is the return of serveConn, after which fasthttp closes the     *)
(* connection it had handed over.                                          *)
(*                                                                         *)
(* A sharedSub is an object created by the attach of exactly one viewer,   *)
(* so it is named by the viewer that created it.                           *)
(***************************************************************************)
EXTENDS Naturals

CONSTANTS
  Key,      \* muxKey values
  Viewer,   \* sessions; each attaches at most once
  None,     \* nil pointer
  Buffer,   \* viewerOutboundBuffer, the capacity of muxViewer.out
  MaxEpoch  \* bound: NATS clients the manager dials in turn for the cluster

ASSUME ConstantsOK ==
  /\ None \notin Viewer
  /\ Buffer \in Nat \ {0}
  /\ MaxEpoch \in Nat \ {0}

VARIABLES
  subs,      \* subMux.subs: the sharedSub registered under a key
  members,   \* sharedSub.viewers
  started,   \* sharedSub.subStarted
  ready,     \* sharedSub.ready is closed
  sub,       \* sharedSub.sub # nil
  subErr,    \* sharedSub.subErr # nil
  live,      \* the JetStream subscription made for a sharedSub is active
  todo,      \* viewers the running fanout has yet to serve
  chk,       \* viewer that passed trySendFrame's checks and is about to be sent to
  pc,        \* program counter of a session
  key,       \* key a session asked for
  client,    \* epoch of the NATS client Handle acquired; 0 before
  joined,    \* local ss of attachWithSubscriber
  taken,     \* local sub of detach: whose subscription to cancel
  closed,    \* session closed flag
  out,       \* frames queued in muxViewer.out
  outClosed, \* muxViewer.out is closed
  exited,    \* writeLoop has returned
  writing,   \* writeLoop is inside a write to the connection
  farewell,  \* closeSession(message) is inside the write of its error frame
  epoch,     \* the NATS client the manager holds now; older ones are closed
  crashed    \* a goroutine panicked without recovery: the process is gone

muxVars     == <<subs, members, started, ready, sub, subErr>>
fanVars     == <<live, todo, chk>>
sessionVars == <<pc, key, client, joined, taken>>
viewerVars  == <<closed, out, outClosed, exited, writing, farewell>>
vars == <<muxVars, fanVars, sessionVars, viewerVars, epoch, crashed>>

Subscribing == {"subscribe", "storeOk", "storeErr", "signalOk", "signalErr"}
PC == Subscribing \cup {"idle", "attach", "wait", "attached", "detach", "stop", "unsub", "done"}

----------------------------------------------------------------------------
(* newSubMux and one newMuxViewer per session. *)
Init ==
  /\ subs      = [k \in Key |-> None]
  /\ members   = [s \in Viewer |-> {}]
  /\ started   = [s \in Viewer |-> FALSE]
  /\ ready     = [s \in Viewer |-> FALSE]
  /\ sub       = [s \in Viewer |-> FALSE]
  /\ subErr    = [s \in Viewer |-> FALSE]
  /\ live      = [s \in Viewer |-> FALSE]
  /\ todo      = [s \in Viewer |-> {}]
  /\ chk       = [s \in Viewer |-> None]
  /\ pc        = [v \in Viewer |-> "idle"]
  /\ key       \in [Viewer -> Key]
  /\ client    = [v \in Viewer |-> 0]
  /\ joined    = [v \in Viewer |-> None]
  /\ taken     = [v \in Viewer |-> None]
  /\ closed    = [v \in Viewer |-> FALSE]
  /\ out       = [v \in Viewer |-> 0]
  /\ outClosed = [v \in Viewer |-> FALSE]
  /\ exited    = [v \in Viewer |-> FALSE]
  /\ writing   = [v \in Viewer |-> FALSE]
  /\ farewell  = [v \in Viewer |-> FALSE]
  /\ epoch     = 1
  /\ crashed   = FALSE

----------------------------------------------------------------------------
(* attachWithSubscriber: the first caller on a key subscribes. *)
NeedSubscribe_ByHandle(s) == ~sub[s]
NeedSubscribe(s) == ~started[s]

(* Handle acquires the cluster's client, upgrades, and sends "connected". *)
Handle(v) ==
  /\ pc[v] = "idle"
  /\ client' = [client EXCEPT ![v] = epoch]
  /\ pc'     = [pc EXCEPT ![v] = "attach"]
  /\ UNCHANGED <<muxVars, fanVars, key, joined, taken, viewerVars, epoch, crashed>>

(* Find or create the sharedSub and join it, under subMux.mu and ss.mu. *)
Attach(v) ==
  /\ pc[v] = "attach"
  /\ LET s == IF subs[key[v]] = None THEN v ELSE subs[key[v]]
     IN  /\ subs'    = [subs EXCEPT ![key[v]] = s]
         /\ members' = [members EXCEPT ![s] = @ \cup {v}]
         /\ started' = [started EXCEPT ![s] = TRUE]
         /\ joined'  = [joined EXCEPT ![v] = s]
         /\ pc'      = [pc EXCEPT ![v] = IF NeedSubscribe(s) THEN "subscribe" ELSE "wait"]
  /\ UNCHANGED <<ready, sub, subErr, fanVars, key, client, taken, viewerVars, epoch, crashed>>

(* JetStream().Subscribe on the client of the first caller, outside every   *)
(* lock: it may fail, it fails on a closed client, and on success callbacks *)
(* may run before the handle is stored.                                     *)
Subscribe(v) ==
  /\ pc[v] = "subscribe"
  /\ \/ /\ client[v] = epoch
        /\ live' = [live EXCEPT ![joined[v]] = TRUE]
        /\ pc'   = [pc EXCEPT ![v] = "storeOk"]
     \/ /\ pc'   = [pc EXCEPT ![v] = "storeErr"]
        /\ UNCHANGED live
  /\ UNCHANGED <<muxVars, todo, chk, key, client, joined, taken, viewerVars, epoch, crashed>>

(* ss.sub, ss.subErr = sub, subErr under ss.mu. *)
StoreResult(v) ==
  /\ pc[v] \in {"storeOk", "storeErr"}
  /\ sub'    = [sub EXCEPT ![joined[v]] = pc[v] = "storeOk"]
  /\ subErr' = [subErr EXCEPT ![joined[v]] = pc[v] = "storeErr"]
  /\ pc'     = [pc EXCEPT ![v] = IF @ = "storeOk" THEN "signalOk" ELSE "signalErr"]
  /\ UNCHANGED <<subs, members, started, ready, fanVars, key, client, joined, taken, viewerVars, epoch, crashed>>

(* close(ready), then return the unsubscribe function or detach on error. *)
SignalReady_OnlyOnSuccess(v) ==
  /\ pc[v] \in {"signalOk", "signalErr"}
  /\ ready' = [ready EXCEPT ![joined[v]] = pc[v] = "signalOk"]
  /\ pc'    = [pc EXCEPT ![v] = IF @ = "signalOk" THEN "attached" ELSE "detach"]
  /\ UNCHANGED <<subs, members, started, sub, subErr, fanVars, key, client, joined, taken, viewerVars, epoch, crashed>>
SignalReady(v) ==
  /\ pc[v] \in {"signalOk", "signalErr"}
  /\ ready' = [ready EXCEPT ![joined[v]] = TRUE]
  /\ pc'    = [pc EXCEPT ![v] = IF @ = "signalOk" THEN "attached" ELSE "detach"]
  /\ UNCHANGED <<subs, members, started, sub, subErr, fanVars, key, client, joined, taken, viewerVars, epoch, crashed>>

(* <-ready in a viewer that found the subscription started. *)
AwaitReady_NoBlock(v) ==
  /\ pc[v] = "wait"
  /\ pc' = [pc EXCEPT ![v] = IF subErr[joined[v]] THEN "detach" ELSE "attached"]
  /\ UNCHANGED <<muxVars, fanVars, key, client, joined, taken, viewerVars, epoch, crashed>>
AwaitReady(v) ==
  /\ pc[v] = "wait"
  /\ ready[joined[v]]
  /\ pc' = [pc EXCEPT ![v] = IF subErr[joined[v]] THEN "detach" ELSE "attached"]
  /\ UNCHANGED <<muxVars, fanVars, key, client, joined, taken, viewerVars, epoch, crashed>>

----------------------------------------------------------------------------
(* The session.  closeSession sets closed and, when it has a message (idle   *)
(* timeout, the session's own client is gone), writes it before it closes    *)
(* the connection; a read error has none.                                    *)
CloseSession(v) ==
  /\ pc[v] = "attached"
  /\ ~closed[v]
  /\ closed' = [closed EXCEPT ![v] = TRUE]
  /\ \E message \in BOOLEAN : farewell' = [farewell EXCEPT ![v] = message]
  /\ UNCHANGED <<muxVars, fanVars, sessionVars, out, outClosed, exited, writing, epoch, crashed>>

(* The error frame is written or fails; conn.Close follows. *)
FarewellReturns(v) ==
  /\ farewell[v]
  /\ farewell' = [farewell EXCEPT ![v] = FALSE]
  /\ UNCHANGED <<muxVars, fanVars, sessionVars, closed, out, outClosed, exited, writing, epoch, crashed>>

(* serveConn returns: every return path after attach has set closed, and the *)
(* paths that have a message to write are the serving goroutine's own.  It   *)
(* does not wait for the writeLoop.                                          *)
Leaving_JoinsWriter(v) == closed[v] /\ ~farewell[v] /\ ~writing[v]
Leaving(v) == closed[v] /\ ~farewell[v]

EndSession(v) ==
  /\ pc[v] = "attached"
  /\ Leaving(v)
  /\ pc' = [pc EXCEPT ![v] = "detach"]
  /\ UNCHANGED <<muxVars, fanVars, key, client, joined, taken, viewerVars, epoch, crashed>>

(* detach under subMux.mu: the sharedSub is looked up by key again; the last *)
(* viewer out removes the entry and takes the subscription with it.          *)
LastOut(s, v) == members[s] \ {v} = {}

Detach(v) ==
  /\ pc[v] = "detach"
  /\ LET s == subs[key[v]]
     IN  IF s = None
         THEN UNCHANGED <<subs, members, sub, taken>>
         ELSE /\ members' = [members EXCEPT ![s] = @ \ {v}]
              /\ taken'   = [taken EXCEPT ![v] = IF LastOut(s, v) /\ sub[s] THEN s ELSE None]
              /\ sub'     = [sub EXCEPT ![s] = @ /\ ~LastOut(s, v)]
              /\ subs'    = [subs EXCEPT ![key[v]] = IF LastOut(s, v) THEN None ELSE @]
  /\ pc' = [pc EXCEPT ![v] = "stop"]
  /\ UNCHANGED <<started, ready, subErr, fanVars, key, client, joined, viewerVars, epoch, crashed>>

(* viewer.stop(): close(v.out), after every lock is released. *)
StopViewer(v) ==
  /\ pc[v] = "stop"
  /\ outClosed' = [outClosed EXCEPT ![v] = TRUE]
  /\ pc'        = [pc EXCEPT ![v] = "unsub"]
  /\ UNCHANGED <<muxVars, fanVars, key, client, joined, taken, closed, out, exited, writing, farewell, epoch, crashed>>

(* sub.Unsubscribe() for the viewer that took the handle; a session whose    *)
(* attach failed then calls closeSession(err), whose frame may hang too.     *)
Unsubscribe_Skipped(v) ==
  /\ pc[v] = "unsub"
  /\ closed'   = [closed EXCEPT ![v] = TRUE]
  /\ farewell' = [farewell EXCEPT ![v] = ~closed[v]]
  /\ taken'    = [taken EXCEPT ![v] = None]
  /\ pc'       = [pc EXCEPT ![v] = "done"]
  /\ UNCHANGED <<muxVars, fanVars, key, client, joined, out, outClosed, exited, writing, epoch, crashed>>
Unsubscribe(v) ==
  /\ pc[v] = "unsub"
  /\ live'     = [s \in Viewer |-> live[s] /\ taken[v] # s]
  /\ closed'   = [closed EXCEPT ![v] = TRUE]
  /\ farewell' = [farewell EXCEPT ![v] = ~closed[v]]
  /\ taken'    = [taken EXCEPT ![v] = None]
  /\ pc'       = [pc EXCEPT ![v] = "done"]
  /\ UNCHANGED <<muxVars, todo, chk, key, client, joined, out, outClosed, exited, writing, epoch, crashed>>

----------------------------------------------------------------------------
(* The NATS callback of subscription s.  nats.go runs the callbacks of one   *)
(* subscription one at a time, so a fanout starts when the last one is over. *)
(* The snapshot of the viewers is taken under ss.mu.  The reader goroutine   *)
(* sets and clears a session's paused flag between any two steps, so a       *)
(* paused viewer is one the choice leaves out; so is everybody when the      *)
(* frame cannot be encoded.                                                  *)
FanoutBegin(s) ==
  /\ live[s]
  /\ todo[s] = {} /\ chk[s] = None
  /\ \E served \in SUBSET {v \in members[s] : ~closed[v]} :
       todo' = [todo EXCEPT ![s] = served]
  /\ UNCHANGED <<muxVars, live, chk, sessionVars, viewerVars, epoch, crashed>>

(* trySendFrame, first half: the closed and paused flags are read. *)
FanoutCheck(s) ==
  /\ chk[s] = None
  /\ \E v \in todo[s], paused \in BOOLEAN :
       /\ todo' = [todo EXCEPT ![s] = @ \ {v}]
       /\ chk'  = [chk EXCEPT ![s] = IF closed[v] \/ paused THEN None ELSE v]
  /\ UNCHANGED <<muxVars, live, sessionVars, viewerVars, epoch, crashed>>

(* trySendFrame, second half: the select.  A send on a closed channel        *)
(* panics, and nothing recovers a panic of the callback; a full channel      *)
(* drops the frame.                                                          *)
FanoutSend(s) ==
  /\ chk[s] # None
  /\ LET v == chk[s]
     IN  /\ crashed' = outClosed[v]
         /\ out' = IF outClosed[v] \/ out[v] = Buffer THEN out
                   ELSE [out EXCEPT ![v] = @ + 1]
  /\ chk' = [chk EXCEPT ![s] = None]
  /\ UNCHANGED <<muxVars, live, todo, sessionVars, closed, outClosed, exited, writing, farewell, epoch>>

(* writeLoop: one receive.  The frame is skipped if closed, dropped by the   *)
(* rate limit, or handed to the connection.                                  *)
TakeFrame(v) ==
  /\ out[v] > 0 /\ ~writing[v]
  /\ out' = [out EXCEPT ![v] = @ - 1]
  /\ \E written \in BOOLEAN : writing' = [writing EXCEPT ![v] = written /\ ~closed[v]]
  /\ UNCHANGED <<muxVars, fanVars, sessionVars, closed, outClosed, exited, farewell, epoch, crashed>>

(* deliver's write returns; a failed one, or the message limit, closes the   *)
(* session without a further word.                                           *)
WriteReturns(v) ==
  /\ writing[v]
  /\ writing' = [writing EXCEPT ![v] = FALSE]
  /\ \E fails \in BOOLEAN : closed' = [closed EXCEPT ![v] = @ \/ fails]
  /\ UNCHANGED <<muxVars, fanVars, sessionVars, out, outClosed, exited, farewell, epoch, crashed>>

(* range over v.out ends once the channel is closed and drained. *)
WriteExit(v) ==
  /\ outClosed[v] /\ out[v] = 0 /\ ~writing[v] /\ ~exited[v]
  /\ exited' = [exited EXCEPT ![v] = TRUE]
  /\ UNCHANGED <<muxVars, fanVars, sessionVars, closed, out, outClosed, writing, farewell, epoch, crashed>>

(* The manager evicts the cluster's client and closes it (credential        *)
(* rotation, sweeper, lost connection); its subscriptions deliver no more.  *)
EvictClient ==
  /\ epoch < MaxEpoch
  /\ epoch' = epoch + 1
  /\ live'  = [s \in Viewer |-> FALSE]
  /\ UNCHANGED <<muxVars, todo, chk, sessionVars, viewerVars, crashed>>

----------------------------------------------------------------------------
SessionStep(v) ==
  \/ Subscribe(v)
  \/ StoreResult(v)
  \/ SignalReady(v)
  \/ AwaitReady(v)
  \/ EndSession(v)
  \/ Detach(v)
  \/ StopViewer(v)
  \/ Unsubscribe(v)
WriterStep(v) == TakeFrame(v) \/ WriteExit(v)
Browser(v) == FarewellReturns(v) \/ WriteReturns(v)
FanStep(s) == FanoutCheck(s) \/ FanoutSend(s)

Finished ==
  /\ crashed \/ \A v \in Viewer : pc[v] = "done"
  /\ UNCHANGED vars

Step ==
  \/ \E v \in Viewer :
       \/ Handle(v)
       \/ Attach(v)
       \/ SessionStep(v)
       \/ CloseSession(v)
       \/ WriterStep(v)
       \/ Browser(v)
       \/ FanoutBegin(v)
       \/ FanStep(v)
  \/ EvictClient

Next ==
  \/ ~crashed /\ Step
  \/ Finished

Spec == Init /\ [][Next]_vars

(* The Go scheduler runs every runnable goroutine; clients, operators and    *)
(* the NATS server owe nothing.  Attach is a session's own code.  A write    *)
(* returns for certain only once serveConn has returned.                     *)
Returned(v) == pc[v] = "done" /\ ~farewell[v]

Fairness ==
  \A v \in Viewer :
    /\ WF_vars(~crashed /\ Attach(v))
    /\ WF_vars(~crashed /\ SessionStep(v))
    /\ WF_vars(~crashed /\ WriterStep(v))
    /\ WF_vars(~crashed /\ Returned(v) /\ WriteReturns(v))
    /\ WF_vars(~crashed /\ FanStep(v))

FairSpec == Spec /\ Fairness

----------------------------------------------------------------------------
(* Every variable keeps its type. *)
TypeOK ==
  /\ subs      \in [Key -> Viewer \cup {None}]
  /\ members   \in [Viewer -> SUBSET Viewer]
  /\ started   \in [Viewer -> BOOLEAN]
  /\ ready     \in [Viewer -> BOOLEAN]
  /\ sub       \in [Viewer -> BOOLEAN]
  /\ subErr    \in [Viewer -> BOOLEAN]
  /\ live      \in [Viewer -> BOOLEAN]
  /\ todo      \in [Viewer -> SUBSET Viewer]
  /\ chk       \in [Viewer -> Viewer \cup {None}]
  /\ pc        \in [Viewer -> PC]
  /\ key       \in [Viewer -> Key]
  /\ client    \in [Viewer -> 0..MaxEpoch]
  /\ joined    \in [Viewer -> Viewer \cup {None}]
  /\ taken     \in [Viewer -> Viewer \cup {None}]
  /\ closed    \in [Viewer -> BOOLEAN]
  /\ out       \in [Viewer -> 0..Buffer]
  /\ outClosed \in [Viewer -> BOOLEAN]
  /\ exited    \in [Viewer -> BOOLEAN]
  /\ writing   \in [Viewer -> BOOLEAN]
  /\ farewell  \in [Viewer -> BOOLEAN]
  /\ epoch     \in 1..MaxEpoch
  /\ crashed   \in BOOLEAN

(* detach finds the sharedSub by key, not by pointer: whoever still is a     *)
(* viewer of a sharedSub finds that very sharedSub under its key.            *)
MembersMapped ==
  \A s, v \in Viewer : v \in members[s] => subs[key[v]] = s /\ joined[v] = s

(* Once attach has returned successfully the viewer is in the fan-out set of *)
(* a sharedSub that holds a subscription, live unless the client it was made *)
(* on has been evicted since.                                                *)
AttachedHasFeed ==
  \A v \in Viewer :
    pc[v] = "attached" =>
      LET s == joined[v]
      IN  v \in members[s] /\ sub[s] /\ (live[s] \/ client[s] # epoch)

(* H3: late-arriving attach calls wait for the single subscribe attempt of a *)
(* key instead of racing to subscribe themselves.                            *)
SingleSubscriber ==
  \A v, w \in Viewer :
    pc[v] \in Subscribing /\ pc[w] \in Subscribing /\ joined[v] = joined[w] => v = w

(* No subscription outlives its last viewer: one that still delivers is      *)
(* reachable under its key, or some detach holds its handle.                 *)
NoOrphanSubscription ==
  \A s \in Viewer :
    live[s] => \/ \E k \in Key : subs[k] = s
               \/ \E v \in Viewer : taken[v] = s /\ pc[v] \in {"stop", "unsub"}

(* The channel of a viewer is closed only after its session is closed, or    *)
(* when the subscription never came to be: trySendFrame's closed check       *)
(* depends on it.                                                            *)
StopAfterClosed ==
  \A v \in Viewer : outClosed[v] => closed[v] \/ subErr[joined[v]]

(* The live view is advertised as a "race-safe hub": no callback ever sends  *)
(* on a channel detach has closed, which would panic and end the process.    *)
NoSendOnClosed == ~crashed

(* A session that waits for somebody else's subscribe attempt is released.   *)
WaitersReleased ==
  \A v \in Viewer : pc[v] = "wait" ~> (pc[v] # "wait" \/ crashed)

(* A closed session gives up its subscription share and its writeLoop ends,  *)
(* even one whose writeLoop hangs on a browser that does not read, with one  *)
(* exception: closeSession(message) writes its error frame before serveConn  *)
(* can return, and may wait there for ever, with its share of the            *)
(* subscription.                                                             *)
ClosedSessionsEnd ==
  \A v \in Viewer : closed[v] ~> ((pc[v] = "done" /\ exited[v]) \/ farewell[v] \/ crashed)
=============================================================================

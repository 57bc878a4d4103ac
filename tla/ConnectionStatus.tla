-------------------------- MODULE ConnectionStatus --------------------------
(***************************************************************************)
(* What the console says of its connection to one cluster: the status map  *)
(* and its listeners in internal/nats/connection.go, with what evict,      *)
(* connect and Stop of manager.go do to them.  ClientManager has the cache *)
(* in detail; here a caller gets a client in one step and dials in another.*)
(*                                                                         *)
(* nats.go runs the hooks of one connection in order on a goroutine of its *)
(* own, so a hook may run long after the event it is about.  A status is   *)
(* abstracted to whether it says connected.                                *)
(***************************************************************************)
EXTENDS Naturals, Sequences, FiniteSets

CONSTANTS Caller,       \* requests that get a client or ask for the status
          Link,         \* connections that can be dialled; the bound on dials
          Watcher,      \* event streams of the status
          StatusBuffer, \* statusSubscriberBuffer
          NoLink,       \* nil
          MaxHooks      \* bound: hooks of a connection yet to run

ASSUME StatusConstants ==
  /\ NoLink \notin Link
  /\ StatusBuffer \in Nat \ {0}
  /\ MaxHooks \in Nat

VARIABLES kept,     \* the cached client, or NoLink
          link,     \* connection -> "free", "up", "down" or "closed"
          doomed,   \* clients taken out of the cache and yet to be closed
          hooks,    \* connection -> hooks yet to run
          status,   \* the entry of the status map, or "none"
          overtaken,\* history: the entry is of an observation that was out of date when written
          caller,   \* request -> progress
          watcher   \* event stream -> [on, chan, seen, missed]

linkVars == <<kept, link, doomed, hooks>>
csVars == <<linkVars, status, overtaken, caller, watcher>>

\* snapshotLocked: a cluster without an entry gets a zero one.
SnapshotLocked == status = "connected"

Says(connected) == IF connected THEN "connected" ELSE "disconnected"

CsIdle == [pc |-> "idle"]
CsInit ==
  /\ kept = NoLink /\ doomed = {} /\ status = "none" /\ overtaken = FALSE
  /\ link = [c \in Link |-> "free"] /\ hooks = [c \in Link |-> <<>>]
  /\ caller = [p \in Caller |-> CsIdle]
  /\ watcher = [w \in Watcher |-> [on |-> FALSE]]

Step(p, next) == caller' = [caller EXCEPT ![p] = next]

\* The cache or a connection changes: whoever has looked at it holds an old observation.
Overtake == caller' = [p \in Caller |-> IF caller[p].pc \in {"observe", "probe", "failed"}
                                        THEN [caller[p] EXCEPT !.old = TRUE] ELSE caller[p]]

\* publishStatusLocked: a listener whose channel is full misses the update.
PublishStatusLocked(st) ==
  watcher' = [w \in Watcher |->
    IF ~watcher[w].on THEN watcher[w]
    ELSE IF Len(watcher[w].chan) < StatusBuffer
         THEN [watcher[w] EXCEPT !.chan = Append(@, st), !.missed = FALSE]
         ELSE [watcher[w] EXCEPT !.missed = TRUE]]

Write(connected, old) ==
  status' = Says(connected) /\ overtaken' = old /\ PublishStatusLocked(connected)

-----------------------------------------------------------------------------
(* Connections and their hooks.                                            *)

Queue(c, called) == hooks' = [hooks EXCEPT ![c] = @ \o called]

LinkChanges(c, to, called) ==
  /\ Len(hooks[c]) + Len(called) <= MaxHooks
  /\ link' = [link EXCEPT ![c] = to] /\ Queue(c, called)
  /\ Overtake
  /\ UNCHANGED <<kept, status, overtaken, watcher>>

LinkDown(c) == link[c] = "up" /\ LinkChanges(c, "down", <<"disconnect">>) /\ UNCHANGED doomed
LinkUp(c) == link[c] = "down" /\ LinkChanges(c, "up", <<"reconnect">>) /\ UNCHANGED doomed
LinkGivesUp(c) == link[c] = "down" /\ LinkChanges(c, "closed", <<"closed">>) /\ UNCHANGED doomed

\* client.Close(), after the lock; a connection in use is disconnected first.
CloseLink(c) ==
  /\ c \in doomed
  /\ doomed' = doomed \ {c}
  /\ \/ link[c] = "up" /\ LinkChanges(c, "closed", <<"disconnect", "closed">>)
     \/ link[c] = "down" /\ LinkChanges(c, "closed", <<"closed">>)
     \/ link[c] = "closed" /\ UNCHANGED <<kept, link, hooks, status, overtaken, caller, watcher>>

Runs(c, hook) ==
  /\ hooks[c] # <<>> /\ Head(hooks[c]) = hook
  /\ hooks' = [hooks EXCEPT ![c] = Tail(@)]

\* OnDisconnect and OnReconnect; neither looks whether its connection is the cached one.
MarkDisconnected_KeepsConnected(c) ==
  /\ Runs(c, "disconnect")
  /\ Write(SnapshotLocked, FALSE)
  /\ UNCHANGED <<kept, link, doomed, caller>>
MarkDisconnected(c) ==
  /\ Runs(c, "disconnect")
  /\ Write(FALSE, FALSE)
  /\ UNCHANGED <<kept, link, doomed, caller>>

MarkReconnected(c) ==
  /\ Runs(c, "reconnect")
  /\ Write(link[c] = "up", FALSE)
  /\ UNCHANGED <<kept, link, doomed, caller>>

\* What evict and sweepExpired do under the lock: the listeners hear of the end, then the
\* entry goes.
TakeOutClient ==
  /\ kept' = NoLink /\ doomed' = doomed \cup ({kept} \ {NoLink})
  /\ status' = "none" /\ overtaken' = FALSE
  /\ IF status = "none" THEN UNCHANGED watcher ELSE PublishStatusLocked(FALSE)

\* OnClosed evicts whatever is cached.
OnClosedEvicts(c) ==
  /\ Runs(c, "closed")
  /\ TakeOutClient /\ Overtake
  /\ UNCHANGED link

\* An eviction for another reason: a deleted cluster, an unhealthy or expired client.
EvictClient ==
  /\ kept # NoLink
  /\ TakeOutClient /\ Overtake
  /\ UNCHANGED <<link, hooks>>

-----------------------------------------------------------------------------
(* Callers.                                                                *)

\* Get: the cached client if it is alive, else a dial, after a dead one was evicted.  An entry
\* that has expired is not looked at.
Get(p) ==
  /\ caller[p].pc = "idle"
  /\ \/ /\ kept # NoLink /\ link[kept] = "up"
        /\ Step(p, [pc |-> "observe", conn |-> kept, dialled |-> FALSE, old |-> FALSE])
        /\ UNCHANGED <<linkVars, status, overtaken, watcher>>
     \/ /\ kept # NoLink /\ link[kept] # "up"
        /\ TakeOutClient /\ Step(p, [pc |-> "dial"])
        /\ UNCHANGED <<link, hooks>>
     \/ /\ Step(p, [pc |-> "dial"])
        /\ UNCHANGED <<linkVars, status, overtaken, watcher>>

\* The dial that one caller makes for all who wait, and the new cache entry; or its error, of
\* which only Status tells.
DialAndKeep(p) ==
  /\ caller[p].pc = "dial"
  /\ \/ \E c \in Link :
          /\ link[c] = "free"
          /\ link' = [link EXCEPT ![c] = "up"]
          /\ kept' = c /\ doomed' = doomed \cup ({kept} \ {NoLink})
          /\ caller' = [q \in Caller |->
               CASE caller[q].pc = "dial" ->
                      [pc |-> "observe", conn |-> c, dialled |-> q = p, old |-> FALSE]
                 [] caller[q].pc \in {"observe", "probe", "failed"} -> [caller[q] EXCEPT !.old = TRUE]
                 [] OTHER -> caller[q]]
     \/ /\ Step(p, [pc |-> "failed", old |-> kept # NoLink]) \/ Step(p, CsIdle)
        /\ UNCHANGED <<link, kept, doomed>>
  /\ UNCHANGED <<hooks, status, overtaken, watcher>>

\* markConnected: IsAlive is read, AccountInfo is asked, and only then is the lock taken.
ObserveAlive(p) ==
  /\ caller[p].pc = "observe"
  /\ Step(p, [caller[p] EXCEPT !.pc = "probe", !.conn = link[caller[p].conn] = "up"])
  /\ UNCHANGED <<linkVars, status, overtaken, watcher>>

MarkConnected(p) ==
  /\ caller[p].pc = "probe"
  /\ Write(caller[p].conn, caller[p].old)
  /\ Step(p, CsIdle)
  /\ UNCHANGED linkVars

\* Status, when it got no client.
MarkFailed_Silent(p) ==
  /\ caller[p].pc = "failed"
  /\ status' = Says(FALSE) /\ overtaken' = caller[p].old
  /\ Step(p, CsIdle)
  /\ UNCHANGED <<linkVars, watcher>>
MarkFailed(p) ==
  /\ caller[p].pc = "failed"
  /\ Write(FALSE, caller[p].old)
  /\ Step(p, CsIdle)
  /\ UNCHANGED linkVars

-----------------------------------------------------------------------------
(* Event streams.                                                          *)

SubscribeStatus(w) ==
  /\ ~watcher[w].on
  /\ watcher' = [watcher EXCEPT ![w] =
       [on |-> TRUE, chan |-> <<>>, seen |-> SnapshotLocked, missed |-> FALSE]]
  /\ UNCHANGED <<linkVars, status, overtaken, caller>>

ConnectionEventsSSE(w) ==
  /\ watcher[w].on /\ watcher[w].chan # <<>>
  /\ watcher' = [watcher EXCEPT ![w].seen = Head(watcher[w].chan), ![w].chan = Tail(@)]
  /\ UNCHANGED <<linkVars, status, overtaken, caller>>

UnsubscribeStatus(w) ==
  /\ watcher[w].on
  /\ watcher' = [watcher EXCEPT ![w] = [on |-> FALSE]]
  /\ UNCHANGED <<linkVars, status, overtaken, caller>>

\* Stop: the cache is emptied and the listeners' channels are closed; the entry stays.
StopManager ==
  /\ kept # NoLink
  /\ kept' = NoLink /\ doomed' = doomed \cup {kept}
  /\ watcher' = [w \in Watcher |-> [on |-> FALSE]]
  /\ Overtake
  /\ UNCHANGED <<link, hooks, status, overtaken>>

CsNext ==
  \/ \E c \in Link :
       \/ LinkDown(c) \/ LinkUp(c) \/ LinkGivesUp(c) \/ CloseLink(c)
       \/ MarkDisconnected(c) \/ MarkReconnected(c) \/ OnClosedEvicts(c)
  \/ EvictClient \/ StopManager
  \/ \E p \in Caller :
       Get(p) \/ DialAndKeep(p) \/ ObserveAlive(p) \/ MarkConnected(p) \/ MarkFailed(p)
  \/ \E w \in Watcher : SubscribeStatus(w) \/ ConnectionEventsSSE(w) \/ UnsubscribeStatus(w)

CsSpec == CsInit /\ [][CsNext]_csVars

-----------------------------------------------------------------------------
\* The type invariant.
CsTypeOK ==
  /\ kept \in Link \cup {NoLink} /\ doomed \subseteq Link /\ kept \notin doomed
  /\ \A w \in Watcher : watcher[w].on => Len(watcher[w].chan) <= StatusBuffer

\* With no client left to be closed, no hook to be run and no new client to be marked, a
\* status that says connected without a live cached client, or the reverse, was written by a
\* probe or a failed request that an eviction, a dial or a change of the connection had
\* overtaken (markConnected): the hooks of an old connection, however late, leave no wrong
\* status behind.
StatusExplained ==
  /\ doomed = {}
  /\ \A c \in Link : hooks[c] = <<>>
  /\ \A p \in Caller : caller[p].pc \in {"observe", "probe"} => ~caller[p].dialled
  => SnapshotLocked = (kept # NoLink /\ link[kept] = "up") \/ overtaken

\* A listener that missed nothing since the last update has, read or waiting in its channel, the
\* status the map holds, whoever wrote it (SubscribeStatus, publishStatusLocked).
WatchersAgree ==
  \A w \in Watcher : watcher[w].on /\ ~watcher[w].missed =>
    LET chan == watcher[w].chan
    IN  SnapshotLocked = IF chan = <<>> THEN watcher[w].seen ELSE chan[Len(chan)]
=============================================================================

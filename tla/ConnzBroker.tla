---------------------------- MODULE ConnzBroker ----------------------------
(***************************************************************************)
(* The demand-driven scraper behind the SSE feeds (connections, replicas,  *)
(* account overview): internal/snapshot/connz_broker.go and the stream     *)
(* writers that consume it (internal/api/insights/connz_sse.go).           *)
(*                                                                         *)
(* The first subscriber of a cluster starts a loop that scrapes it; the    *)
(* last one to leave stops the loop.  One cluster is modelled: the broker  *)
(* never relates two.  A connzCluster entry is created by exactly one      *)
(* Subscribe call, so it is named by that subscriber.  Per entry there is  *)
(* one loop goroutine and at most one scrape goroutine.                    *)
(***************************************************************************)
EXTENDS Naturals, Sequences, SequencesExt

CONSTANTS
  Sub,        \* SSE clients; each subscribes once
  Payload,    \* what the monitoring endpoint can answer
  Offline,    \* the degraded payload the fallback makes of a good one
  None,
  Buffer,     \* connzSubscriberBuffer
  Threshold   \* fetchErrorThreshold

ASSUME ConnzConstants ==
  /\ None \notin Sub \cup Payload \cup {Offline}
  /\ Offline \notin Payload
  /\ Buffer \in Nat \ {0}
  /\ Threshold \in Nat \ {0}

VARIABLES
  entry,      \* b.clusters[id]
  listeners,  \* entry.listeners
  stop,       \* entry.stop is closed
  loop,       \* program counter of the loop goroutine
  scraping,   \* entry.scraping
  scr,        \* program counter of the scrape goroutine
  data,       \* its local payload
  targets,    \* listeners its send loop has yet to serve
  latest,     \* entry.latest; the fingerprint identifies it
  failCount,  \* entry.failCount, saturated at Threshold, where it is compared
  pc,         \* program counter of a subscriber
  mine,       \* entry a subscriber is attached to
  ch,         \* its channel
  view,       \* what it has shown last
  dropped     \* subscribers a send found full (history)

entryVars == <<listeners, stop, latest, failCount>>
scrVars   == <<scraping, scr, data, targets>>
subVars   == <<pc, mine, ch, view, dropped>>
vars == <<entry, entryVars, loop, scrVars, subVars>>

Init ==
  /\ entry     = None
  /\ listeners = [e \in Sub |-> {}]
  /\ stop      = [e \in Sub |-> FALSE]
  /\ loop      = [e \in Sub |-> "none"]
  /\ scraping  = [e \in Sub |-> FALSE]
  /\ scr       = [e \in Sub |-> "none"]
  /\ data      = [e \in Sub |-> None]
  /\ targets   = [e \in Sub |-> {}]
  /\ latest    = [e \in Sub |-> None]
  /\ failCount = [e \in Sub |-> 0]
  /\ pc        = [s \in Sub |-> "idle"]
  /\ mine      = [s \in Sub |-> None]
  /\ ch        = [s \in Sub |-> <<>>]
  /\ view      = [s \in Sub |-> None]
  /\ dropped   = {}

Saturate(n) == IF n > Threshold THEN Threshold ELSE n

----------------------------------------------------------------------------
(* Subscribe: under b.mu the entry is found or created with its loop, the    *)
(* channel is added and the latest payload is read.  The stream writer       *)
(* shows that payload first.                                                 *)
Subscribe_NoLatest(s) ==
  /\ pc[s] = "idle"
  /\ LET e == IF entry = None THEN s ELSE entry
     IN  /\ entry'     = e
         /\ loop'      = [loop EXCEPT ![e] = IF entry = None THEN "start" ELSE @]
         /\ listeners' = [listeners EXCEPT ![e] = @ \cup {s}]
         /\ mine'      = [mine EXCEPT ![s] = e]
  /\ pc' = [pc EXCEPT ![s] = "on"]
  /\ UNCHANGED <<stop, latest, failCount, scrVars, ch, view, dropped>>
Subscribe(s) ==
  /\ pc[s] = "idle"
  /\ LET e == IF entry = None THEN s ELSE entry
     IN  /\ entry'     = e
         /\ loop'      = [loop EXCEPT ![e] = IF entry = None THEN "start" ELSE @]
         /\ listeners' = [listeners EXCEPT ![e] = @ \cup {s}]
         /\ view'      = [view EXCEPT ![s] = latest[e]]
         /\ mine'      = [mine EXCEPT ![s] = e]
  /\ pc' = [pc EXCEPT ![s] = "on"]
  /\ UNCHANGED <<stop, latest, failCount, scrVars, ch, dropped>>

(* The stream writer sends the next payload to the browser. *)
Read(s) ==
  /\ pc[s] = "on"
  /\ ch[s] # <<>>
  /\ view' = [view EXCEPT ![s] = Head(ch[s])]
  /\ ch'   = [ch EXCEPT ![s] = Tail(@)]
  /\ UNCHANGED <<entry, entryVars, loop, scrVars, pc, mine, dropped>>

(* unsubscribe, once per subscriber: the entry is looked up again under     *)
(* b.mu; the last listener removes it, and with it all that only a          *)
(* registered entry is asked for.  Nobody reads the channel from now on.    *)
Unsubscribe_KeepsEntry(s) ==
  /\ pc[s] = "on"
  /\ listeners' = [listeners EXCEPT ![entry] = @ \ {s}]
  /\ pc' = [pc EXCEPT ![s] = IF listeners[entry] = {s} THEN "closeStop" ELSE "gone"]
  /\ UNCHANGED <<entry, stop, latest, failCount, loop, scrVars, mine, ch, view, dropped>>
Unsubscribe(s) ==
  /\ pc[s] = "on"
  /\ listeners' = IF entry = None THEN listeners
                  ELSE [listeners EXCEPT ![entry] = @ \ {s}]
  /\ LET last == entry # None /\ listeners'[entry] = {}
     IN  /\ entry' = IF last THEN None ELSE entry
         /\ pc'    = [pc EXCEPT ![s] = IF last THEN "closeStop" ELSE "gone"]
         /\ latest' = IF last THEN [latest EXCEPT ![entry] = None] ELSE latest
         /\ failCount' = IF last THEN [failCount EXCEPT ![entry] = 0] ELSE failCount
  /\ ch'      = [ch EXCEPT ![s] = <<>>]
  /\ view'    = [view EXCEPT ![s] = None]
  /\ dropped' = dropped \ {s}
  /\ UNCHANGED <<stop, loop, scrVars, mine>>

(* close(stop), then entry.wg.Wait(). *)
CloseStop_Forgotten(s) ==
  /\ pc[s] = "closeStop"
  /\ pc' = [pc EXCEPT ![s] = "wait"]
  /\ UNCHANGED <<entry, entryVars, loop, scrVars, mine, ch, view, dropped>>
CloseStop(s) ==
  /\ pc[s] = "closeStop"
  /\ stop' = [stop EXCEPT ![mine[s]] = TRUE]
  /\ pc'   = [pc EXCEPT ![s] = "wait"]
  /\ UNCHANGED <<entry, listeners, latest, failCount, loop, scrVars, mine, ch, view, dropped>>

WaitLoop(s) ==
  /\ pc[s] = "wait"
  /\ loop[mine[s]] = "done"
  /\ pc' = [pc EXCEPT ![s] = "gone"]
  /\ UNCHANGED <<entry, entryVars, loop, scrVars, mine, ch, view, dropped>>

----------------------------------------------------------------------------
(* loop: one kickScrape at the start and one per tick.  The compare-and-swap *)
(* skips a kick while a scrape is in flight.                                 *)
Kick(e) ==
  /\ \/ loop[e] = "start"
     \/ loop[e] = "run"
  /\ scraping' = [scraping EXCEPT ![e] = TRUE]
  /\ scr'      = [scr EXCEPT ![e] = IF scraping[e] THEN @ ELSE "fetch"]
  /\ loop'     = [loop EXCEPT ![e] = "run"]
  /\ UNCHANGED <<entry, entryVars, data, targets, subVars>>

LoopExit(e) ==
  /\ loop[e] = "run"
  /\ stop[e]
  /\ loop' = [loop EXCEPT ![e] = "done"]
  /\ UNCHANGED <<entry, entryVars, scrVars, subVars>>

(* scrape: the fetch, without any lock, answers with the state of the        *)
(* cluster at that moment, or fails.                                         *)
Fetch(e) ==
  /\ scr[e] = "fetch"
  /\ \/ /\ \E w \in Payload : data' = [data EXCEPT ![e] = w]
        /\ scr'    = [scr EXCEPT ![e] = "publish"]
     \/ /\ scr'    = [scr EXCEPT ![e] = "failed"]
        /\ UNCHANGED data
  /\ UNCHANGED <<entry, entryVars, loop, scraping, targets, subVars>>

(* The scrape goroutine of e is over: its deferred scraping.Store(false). *)
EndScrape(e) ==
  /\ scraping' = [scraping EXCEPT ![e] = FALSE]
  /\ scr'      = [scr EXCEPT ![e] = "none"]
  /\ data'     = [data EXCEPT ![e] = None]

(* publishFetchError: the failure is counted under b.mu; from the threshold  *)
(* on a degraded payload is made of the latest one, or of the last good one  *)
(* kept elsewhere.  A degraded payload is not degraded again.                *)
FetchFailed(e) ==
  /\ scr[e] = "failed"
  /\ IF entry = e
     THEN /\ failCount' = [failCount EXCEPT ![e] = Saturate(@ + 1)]
          /\ \/ /\ failCount'[e] >= Threshold
                /\ latest[e] # Offline
                /\ scr'  = [scr EXCEPT ![e] = "publish"]
                /\ data' = [data EXCEPT ![e] = Offline]
                /\ UNCHANGED scraping
             \/ /\ failCount'[e] < Threshold \/ latest[e] \in {None, Offline}
                /\ EndScrape(e)
     ELSE EndScrape(e) /\ UNCHANGED failCount
  /\ UNCHANGED <<entry, listeners, stop, latest, loop, targets, subVars>>

(* publishPayload under b.mu: nothing for a removed entry, nothing but the   *)
(* failure count for a known fingerprint; else the payload becomes the       *)
(* latest one and the listeners are copied.                                  *)
Publish(e) ==
  /\ scr[e] = "publish"
  /\ failCount' = [failCount EXCEPT ![e] = IF entry = e /\ data[e] # Offline THEN 0 ELSE @]
  /\ IF entry # e \/ latest[e] = data[e]
     THEN EndScrape(e) /\ UNCHANGED <<latest, targets>>
     ELSE /\ latest'  = [latest EXCEPT ![e] = data[e]]
          /\ targets' = [targets EXCEPT ![e] = listeners[e]]
          /\ scr'     = [scr EXCEPT ![e] = "send"]
          /\ UNCHANGED <<scraping, data>>
  /\ UNCHANGED <<entry, listeners, stop, loop, subVars>>

(* The send loop, outside b.mu: a full channel loses the payload. *)
Send(e) ==
  /\ scr[e] = "send"
  /\ \E s \in targets[e] :
       LET full == Len(ch[s]) = Buffer
       IN  /\ targets' = [targets EXCEPT ![e] = @ \ {s}]
           /\ ch'      = [ch EXCEPT ![s] = IF full \/ pc[s] # "on" THEN @ ELSE Append(@, data[e])]
           /\ dropped' = IF full THEN dropped \cup {s} ELSE dropped
  /\ UNCHANGED <<entry, entryVars, loop, scraping, scr, data, pc, mine, view>>

SendDone(e) ==
  /\ scr[e] = "send"
  /\ targets[e] = {}
  /\ EndScrape(e)
  /\ UNCHANGED <<entry, entryVars, loop, targets, subVars>>

Finished ==
  /\ \A s \in Sub : pc[s] = "gone"
  /\ UNCHANGED vars

----------------------------------------------------------------------------
LeaveStep(s) == CloseStop(s) \/ WaitLoop(s)
ScrapeStep(e) == Fetch(e) \/ FetchFailed(e) \/ Publish(e) \/ Send(e) \/ SendDone(e)

Next ==
  \/ \E s \in Sub :
       \/ Subscribe(s) \/ Read(s) \/ Unsubscribe(s) \/ LeaveStep(s)
       \/ Kick(s) \/ LoopExit(s) \/ ScrapeStep(s)
  \/ Finished

Spec == Init /\ [][Next]_vars

(* Goroutines run; a fetch ends by its timeout; the ticker ticks; and Go's   *)
(* select, which chooses at random, takes a closed stop channel sooner or    *)
(* later although the ticker is ready as well.                               *)
Fairness ==
  \A s \in Sub :
    /\ WF_vars(LeaveStep(s))
    /\ WF_vars(ScrapeStep(s))
    /\ WF_vars(Kick(s))
    /\ SF_vars(LoopExit(s))

FairSpec == Spec /\ Fairness

----------------------------------------------------------------------------
(* The variables keep their types and a channel never holds more than its    *)
(* capacity.                                                                 *)
TypeOK ==
  /\ entry     \in Sub \cup {None}
  /\ listeners \in [Sub -> SUBSET Sub]
  /\ stop      \in [Sub -> BOOLEAN]
  /\ loop      \in [Sub -> {"none", "start", "run", "done"}]
  /\ scraping  \in [Sub -> BOOLEAN]
  /\ scr       \in [Sub -> {"none", "fetch", "failed", "publish", "send"}]
  /\ data      \in [Sub -> Payload \cup {Offline, None}]
  /\ targets   \in [Sub -> SUBSET Sub]
  /\ latest    \in [Sub -> Payload \cup {Offline, None}]
  /\ failCount \in [Sub -> 0..Threshold]
  /\ pc        \in [Sub -> {"idle", "on", "closeStop", "wait", "gone"}]
  /\ mine      \in [Sub -> Sub \cup {None}]
  /\ view      \in [Sub -> Payload \cup {Offline, None}]
  /\ dropped   \in SUBSET Sub
  /\ ch        \in [Sub -> Seq(Payload \cup {Offline})]
  /\ \A s \in Sub : Len(ch[s]) <= Buffer

(* The newest payload a subscriber has been given. *)
Newest(s) == IF ch[s] = <<>> THEN view[s] ELSE Last(ch[s])

(* A subscriber falls behind the latest payload only through a full channel: *)
(* the payload read by Subscribe and the sends made outside the lock leave   *)
(* no gap.                                                                   *)
NoMissedUpdate ==
  \A s \in Sub :
    pc[s] = "on" /\ s \notin dropped =>
      Newest(s) = latest[mine[s]] \/ s \in targets[mine[s]]

(* The broker "scrapes connz only while at least one subscriber is           *)
(* attached", and always then: the registered entry has listeners and a loop *)
(* that was not told to stop, every subscriber is attached to that entry,    *)
(* and any other entry has none.                                             *)
LoopWhileListened ==
  /\ entry # None => listeners[entry] # {} /\ ~stop[entry] /\ loop[entry] \in {"start", "run"}
  /\ \A s \in Sub : pc[s] = "on" => mine[s] = entry /\ s \in listeners[entry]
  /\ \A e \in Sub : e # entry => listeners[e] = {}

(* A last subscriber that leaves, and waits for the loop, is let go. *)
UnsubscribeReturns ==
  \A s \in Sub : pc[s] = "closeStop" ~> pc[s] = "gone"
=============================================================================

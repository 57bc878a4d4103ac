--------------------------- MODULE PipelineProofs --------------------------
(***************************************************************************)
(* What the request pipeline promises, proved for any number of requests,  *)
(* addresses and attempts, any limit and window, and any size of the audit *)
(* queue.                                                                  *)
(***************************************************************************)
EXTENDS Pipeline, FiniteSetTheorems, SequenceTheorems, TLAPS

(* The stages of the process, and the ones in which requests are served.     *)
Stages == {"serving", "shutdown", "stopMetrics", "stopAudit", "stopGateway", "closingDB",
           "stopMailer", "settle", "exited"}
Serving == {"serving", "shutdown"}
BeforeStop == Serving \cup {"stopMetrics", "stopAudit"}

(* Order names each stage once, so that Advance leaves each for the next     *)
(* (Close of bootstrap/app.go, main).                                        *)
LEMMA AdvancesInOrder ==
  ASSUME NEW from, Advance(from), stage \in Stages, stage # "exited"
  PROVE  /\ stage = from /\ stage' \in Stages
         /\ stage = "serving" => stage' = "shutdown"
         /\ stage = "shutdown" => stage' = "stopMetrics"
         /\ stage = "stopMetrics" => stage' = "stopAudit"
         /\ stage = "stopAudit" => stage' = "stopGateway"
         /\ stage \notin BeforeStop => stage' \notin BeforeStop
<1> DEFINE Next(i) == Order[i - 1] = from
           next == CHOOSE i \in 2 .. Len(Order) : Next(i)
<1>1. stage = from /\ stage' = Order[next]
  BY DEF Advance
<1>2. Len(Order) = 9
  BY DEF Order
<1>3. /\ Order[1] = "serving" /\ Order[2] = "shutdown" /\ Order[3] = "stopMetrics"
      /\ Order[4] = "stopAudit" /\ Order[5] = "stopGateway" /\ Order[6] = "closingDB"
      /\ Order[7] = "stopMailer" /\ Order[8] = "settle" /\ Order[9] = "exited"
  BY DEF Order
<1>4. \E i \in 2 .. Len(Order) : Next(i)
  <2>1. \E j \in 1 .. 8 : Order[j] = from
    BY <1>1, <1>3 DEF Stages
  <2>2. PICK j \in 1 .. 8 : Order[j] = from
    BY <2>1
  <2>3. j + 1 \in 2 .. Len(Order) /\ Next(j + 1)
    BY <2>2, <1>2
  <2> QED  BY <2>3
<1>5. next \in 2 .. 9 /\ Next(next)
  <2> HIDE DEF Next
  <2> QED  BY <1>2, <1>4
<1> HIDE DEF next
<1>6. next - 1 \in 1 .. 8 /\ Order[next - 1] = from
  BY <1>5
<1>7. next \in {2, 3, 4, 5, 6, 7, 8, 9}
  BY <1>5
<1> QED  BY <1>1, <1>3, <1>6, <1>7 DEF Stages, Serving, BeforeStop

-----------------------------------------------------------------------------
(* The limiter.                                                              *)
Attempt == Request \X (0 .. Window)

(* What a map of the limiter knows of an address.                            *)
RecentIn(map, a) == IF a \in DOMAIN map THEN Fresh(map[a]) ELSE {}

IsLimiterMap(map) ==
  /\ map = [a \in DOMAIN map |-> map[a]]
  /\ DOMAIN map \subseteq Address
  /\ \A a \in DOMAIN map : map[a] \subseteq Attempt

(* It knows exactly the attempts let through, and they are at most Limit.    *)
LimiterInv ==
  /\ IsLimiterMap(events)
  /\ allowCount \in 0 .. PurgeEvery - 1
  /\ granted = [a \in Address |-> granted[a]]
  /\ Limit > 0 => \A a \in Address :
       /\ RecentIn(events, a) = granted[a]
       /\ IsFiniteSet(granted[a]) /\ Cardinality(granted[a]) <= Limit

LEMMA FreshIsFresh ==
  ASSUME NEW s, s \subseteq Attempt
  PROVE  /\ Fresh(s) \subseteq Attempt /\ Fresh(Fresh(s)) = Fresh(s)
         /\ \A r \in Request : <<r, 0>> \in Attempt /\ <<r, 0>>[2] = 0
         /\ \A r \in Request : Fresh(Fresh(s) \cup {<<r, 0>>}) = Fresh(s) \cup {<<r, 0>>}
<1>1. Window \in Nat /\ 0 < Window
  BY PipelineConstants
<1>2. \A r \in Request : <<r, 0>> \in Attempt /\ <<r, 0>>[2] = 0
  BY <1>1 DEF Attempt
<1>3. Fresh(s) \subseteq Attempt /\ Fresh(Fresh(s)) = Fresh(s)
  BY DEF Fresh
<1>4. ASSUME NEW r \in Request
      PROVE  Fresh(Fresh(s) \cup {<<r, 0>>}) = Fresh(s) \cup {<<r, 0>>}
  BY <1>1, <1>2 DEF Fresh
<1> QED  BY <1>2, <1>3, <1>4

(* Purging loses nothing the limiter still counts (purgeStaleLocked).        *)
LEMMA PurgeKeepsRecent ==
  ASSUME NEW map, IsLimiterMap(map)
  PROVE  /\ IsLimiterMap(PurgeStale(map))
         /\ \A a \in Address : RecentIn(PurgeStale(map), a) = RecentIn(map, a)
<1> DEFINE kept == {b \in DOMAIN map : Fresh(map[b]) # {}}
           purged == [a \in kept |-> Fresh(map[a])]
<1>1. PurgeStale(map) = purged
  BY DEF PurgeStale
<1>2. DOMAIN purged = kept /\ \A a \in kept : purged[a] = Fresh(map[a])
  OBVIOUS
<1>3. \A b \in DOMAIN map : Fresh(map[b]) \subseteq Attempt /\ Fresh(Fresh(map[b])) = Fresh(map[b])
  BY FreshIsFresh DEF IsLimiterMap
<1>4. IsLimiterMap(purged)
  <2>1. purged = [a \in DOMAIN purged |-> purged[a]]
    OBVIOUS
  <2>2. DOMAIN purged \subseteq Address /\ \A a \in DOMAIN purged : purged[a] \subseteq Attempt
    BY <1>2, <1>3 DEF IsLimiterMap
  <2> HIDE DEF purged
  <2> QED  BY <2>1, <2>2 DEF IsLimiterMap
<1>5. ASSUME NEW a \in Address
      PROVE  RecentIn(purged, a) = RecentIn(map, a)
  <2>1. CASE a \in kept
    <3>1. RecentIn(purged, a) = Fresh(Fresh(map[a])) /\ RecentIn(map, a) = Fresh(map[a])
      BY <1>2, <2>1 DEF RecentIn
    <3> QED  BY <1>3, <3>1, <2>1
  <2>2. CASE a \notin kept
    <3>1. RecentIn(purged, a) = {}
      BY <1>2, <2>2 DEF RecentIn
    <3>2. RecentIn(map, a) = {}
      BY <2>2 DEF RecentIn
    <3> QED  BY <3>1, <3>2
  <2> QED  BY <2>1, <2>2
<1> QED  BY <1>1, <1>4, <1>5

(* Time takes attempts out of both sides alike, and adds none.               *)
LEMMA AgeingIsExact ==
  ASSUME NEW s, s \subseteq Attempt
  PROVE  /\ {Older(t) : t \in s} \subseteq Attempt
         /\ Fresh({Older(t) : t \in s}) = Fresh({Older(t) : t \in Fresh(s)})
<1>1. Window \in Nat /\ 0 < Window
  BY PipelineConstants
<1>2. ASSUME NEW t \in Attempt
      PROVE  /\ Older(t) \in Attempt
             /\ Older(t)[2] < Window => t[2] < Window
  <2>1. PICK r \in Request, n \in 0 .. Window : t = <<r, n>>
    BY DEF Attempt
  <2>2. Older(t) = <<r, IF n < Window THEN n + 1 ELSE Window>>
    BY <2>1 DEF Older
  <2> QED  BY <1>1, <2>1, <2>2 DEF Attempt
<1>3. {Older(t) : t \in s} \subseteq Attempt
  BY <1>2
<1>4. Fresh({Older(t) : t \in s}) \subseteq Fresh({Older(t) : t \in Fresh(s)})
  <2> SUFFICES ASSUME NEW u \in Fresh({Older(t) : t \in s})
               PROVE  u \in Fresh({Older(t) : t \in Fresh(s)})
    OBVIOUS
  <2>1. PICK t \in s : u = Older(t)
    BY DEF Fresh
  <2>2. u[2] < Window
    BY DEF Fresh
  <2>3. t \in Fresh(s)
    BY <1>2, <2>1, <2>2 DEF Fresh
  <2> QED  BY <2>1, <2>2, <2>3 DEF Fresh
<1>5. Fresh({Older(t) : t \in Fresh(s)}) \subseteq Fresh({Older(t) : t \in s})
  BY DEF Fresh
<1> QED  BY <1>3, <1>4, <1>5

LEMMA AgeingIsFinite ==
  ASSUME NEW s, IsFiniteSet(s), Cardinality(s) <= Limit
  PROVE  LET aged == Fresh({Older(t) : t \in s})
         IN  IsFiniteSet(aged) /\ Cardinality(aged) <= Limit
<1> DEFINE all == {Older(t) : t \in s}
           f == [t \in s |-> Older(t)]
<1>1. f \in Surjection(s, all)
  BY DEF Surjection
<1> HIDE DEF f
<1>2. IsFiniteSet(all) /\ Cardinality(all) <= Cardinality(s)
  BY <1>1, FS_Surjection
<1>3. Fresh(all) \in SUBSET all
  BY DEF Fresh
<1> HIDE DEF all
<1>4. IsFiniteSet(Fresh(all)) /\ Cardinality(Fresh(all)) <= Cardinality(all)
  BY <1>2, <1>3, FS_Subset
<1>5. Cardinality(s) \in Nat /\ Cardinality(all) \in Nat /\ Cardinality(Fresh(all)) \in Nat
  BY <1>2, <1>4, FS_CardinalityType
<1>6. Limit \in Nat
  BY PipelineConstants
<1> QED  BY <1>2, <1>4, <1>5, <1>6 DEF all

(* The limiter's critical section keeps its books (allow).                   *)
LEMMA AllowKeepsBooks ==
  ASSUME LimiterInv, NEW r \in Request, NEW a \in Address, Allow(r, a)
  PROVE  LimiterInv'
<1>0. /\ Limit \in Nat /\ Window \in Nat \ {0} /\ PurgeEvery \in Nat \ {0}
  BY PipelineConstants
<1>1. CASE Limit = 0
  <2>1. UNCHANGED limiterVars
    BY <1>1 DEF Allow
  <2> QED  BY <2>1 DEF LimiterInv, limiterVars, IsLimiterMap, RecentIn
<1>2. CASE Limit # 0
  <2> DEFINE times == IF Allowed(a) THEN Recent(a) \cup {<<r, 0>>} ELSE Recent(a)
             map == [b \in DOMAIN events \cup {a} |-> IF b = a THEN times ELSE events[b]]
             count == (allowCount + 1) % PurgeEvery
  <2>1. Recent(a) = RecentIn(events, a) /\ Recent(a) = granted[a]
    BY <1>0, <1>2 DEF Recent, RecentIn, LimiterInv
  <2>2. /\ Recent(a) \subseteq Attempt /\ Fresh(Recent(a)) = Recent(a)
        /\ Fresh(Recent(a) \cup {<<r, 0>>}) = Recent(a) \cup {<<r, 0>>}
        /\ <<r, 0>> \in Attempt
    <3>1. CASE a \in DOMAIN events
      <4>1. events[a] \subseteq Attempt
        BY <3>1 DEF LimiterInv, IsLimiterMap
      <4>2. Recent(a) = Fresh(events[a])
        BY <3>1 DEF Recent
      <4> QED  BY <4>1, <4>2, FreshIsFresh
    <3>2. CASE a \notin DOMAIN events
      <4>1. Recent(a) = {} /\ Fresh({}) = {}
        BY <3>2 DEF Recent, Fresh
      <4>2. {} \subseteq Attempt
        OBVIOUS
      <4>3. Fresh(Fresh({}) \cup {<<r, 0>>}) = Fresh({}) \cup {<<r, 0>>} /\ <<r, 0>> \in Attempt
        BY <4>2, FreshIsFresh
      <4> QED  BY <4>1, <4>2, <4>3
    <3> QED  BY <3>1, <3>2
  <2>3. times \subseteq Attempt /\ Fresh(times) = times
    BY <2>2
  <2> HIDE DEF times
  <2>4. /\ DOMAIN map = DOMAIN events \cup {a} /\ map[a] = times
        /\ \A b \in DOMAIN events : b # a => map[b] = events[b]
    OBVIOUS
  <2>5. map = [b \in DOMAIN map |-> map[b]]
    OBVIOUS
  <2> HIDE DEF map
  <2>6. IsLimiterMap(map)
    BY <2>3, <2>4, <2>5 DEF LimiterInv, IsLimiterMap
  <2>7. RecentIn(map, a) = times
    BY <2>3, <2>4 DEF RecentIn
  <2>8. \A b \in Address : b # a => RecentIn(map, b) = RecentIn(events, b)
    BY <2>4 DEF RecentIn
  <2>9. CASE ~Allowed(a)
    <3>1. events' = map /\ allowCount' = allowCount /\ granted' = granted
      BY <1>2, <2>9 DEF Allow, map, times
    <3>2. times = granted[a]
      BY <2>1, <2>9 DEF times
    <3>3. ASSUME NEW b \in Address PROVE RecentIn(map, b) = granted[b]
      BY <1>0, <1>2, <2>7, <2>8, <3>2 DEF LimiterInv
    <3> QED  BY <2>6, <3>1, <3>3 DEF LimiterInv, RecentIn, IsLimiterMap
  <2>10. CASE Allowed(a)
    <3>1. /\ events' = map \/ events' = PurgeStale(map)
          /\ allowCount' = count
          /\ granted' = [granted EXCEPT ![a] = @ \cup {<<r, 0>>}]
      BY <1>2, <2>10 DEF Allow, map, times
    <3>2. /\ IsLimiterMap(PurgeStale(map))
          /\ \A b \in Address : RecentIn(PurgeStale(map), b) = RecentIn(map, b)
      BY <2>6, PurgeKeepsRecent
    <3>3. IsLimiterMap(events') /\ \A b \in Address : RecentIn(events', b) = RecentIn(map, b)
      BY <2>6, <3>1, <3>2
    <3>4. count \in 0 .. PurgeEvery - 1
      BY <1>0 DEF LimiterInv
    <3>5. /\ granted' = [b \in Address |-> granted'[b]]
          /\ granted'[a] = times
          /\ \A b \in Address : b # a => granted'[b] = granted[b]
      BY <3>1, <2>1, <2>10 DEF LimiterInv, times
    <3>6. \A b \in Address : RecentIn(events', b) = granted'[b]
      BY <1>0, <1>2, <2>7, <2>8, <3>3, <3>5 DEF LimiterInv
    <3>7. IsFiniteSet(times) /\ Cardinality(times) <= Limit
      <4>1. IsFiniteSet(Recent(a)) /\ Cardinality(Recent(a)) < Limit
        BY <1>0, <1>2, <2>1, <2>10 DEF LimiterInv, Allowed
      <4>2. Cardinality(Recent(a)) \in Nat
        BY <4>1, FS_CardinalityType
      <4>3. /\ IsFiniteSet(Recent(a) \cup {<<r, 0>>})
            /\ Cardinality(Recent(a) \cup {<<r, 0>>}) =
                 IF <<r, 0>> \in Recent(a) THEN Cardinality(Recent(a)) ELSE Cardinality(Recent(a)) + 1
        BY <4>1, FS_AddElement
      <4> QED  BY <1>0, <4>1, <4>2, <4>3, <2>10 DEF times
    <3>8. \A b \in Address : IsFiniteSet(granted'[b]) /\ Cardinality(granted'[b]) <= Limit
      BY <1>0, <1>2, <3>5, <3>7 DEF LimiterInv
    <3> QED
      <4>1. IsLimiterMap(events)'
        BY <3>3 DEF IsLimiterMap
      <4>2. \A b \in Address : (RecentIn(events, b) = granted[b])'
        BY <3>6 DEF RecentIn
      <4>3. allowCount' \in 0 .. PurgeEvery - 1
        BY <3>1, <3>4
      <4> QED  BY <4>1, <4>2, <4>3, <3>5, <3>8 DEF LimiterInv
  <2> QED  BY <2>9, <2>10
<1> QED  BY <1>1, <1>2

(* A tick ages what the limiter knows and what it let through alike.         *)
LEMMA TickKeepsBooks ==
  ASSUME LimiterInv, Tick
  PROVE  LimiterInv'
<1>1. /\ events' = [a \in DOMAIN events |-> {Older(t) : t \in events[a]}]
      /\ granted' = [a \in Address |-> Fresh({Older(t) : t \in granted[a]})]
      /\ allowCount' = allowCount
  BY DEF Tick
<1>2. /\ DOMAIN events' = DOMAIN events
      /\ \A a \in DOMAIN events : events'[a] = {Older(t) : t \in events[a]}
  BY <1>1
<1>3. \A a \in DOMAIN events : events[a] \subseteq Attempt
  BY DEF LimiterInv, IsLimiterMap
<1>4. \A a \in DOMAIN events :
        /\ events'[a] \subseteq Attempt
        /\ Fresh(events'[a]) = Fresh({Older(t) : t \in Fresh(events[a])})
  BY <1>2, <1>3, AgeingIsExact
<1>5. IsLimiterMap(events)'
  <2>1. events' = [a \in DOMAIN events' |-> events'[a]]
    BY <1>1
  <2> QED  BY <2>1, <1>2, <1>4 DEF LimiterInv, IsLimiterMap
<1>6. ASSUME NEW a \in Address, Limit > 0
      PROVE  /\ (RecentIn(events, a) = granted[a])'
             /\ IsFiniteSet(granted'[a]) /\ Cardinality(granted'[a]) <= Limit
  <2>1. granted'[a] = Fresh({Older(t) : t \in granted[a]})
    BY <1>1
  <2>2. RecentIn(events, a) = granted[a]
    BY <1>6 DEF LimiterInv
  <2>3. CASE a \in DOMAIN events
    <3>1. granted[a] = Fresh(events[a])
      BY <2>2, <2>3 DEF RecentIn
    <3>2. (RecentIn(events, a))' = Fresh(events'[a])
      BY <1>2, <2>3 DEF RecentIn
    <3>3. (RecentIn(events, a))' = granted'[a]
      BY <1>4, <2>1, <2>3, <3>1, <3>2
    <3>4. IsFiniteSet(granted[a]) /\ Cardinality(granted[a]) <= Limit
      BY <1>6 DEF LimiterInv
    <3>5. IsFiniteSet(granted'[a]) /\ Cardinality(granted'[a]) <= Limit
      BY <2>1, <3>4, AgeingIsFinite
    <3> QED  BY <3>3, <3>5
  <2>4. CASE a \notin DOMAIN events
    <3>1. granted[a] = {}
      BY <2>2, <2>4 DEF RecentIn
    <3>2. granted'[a] = {}
      BY <2>1, <3>1 DEF Fresh
    <3>3. (RecentIn(events, a))' = {}
      BY <1>2, <2>4 DEF RecentIn
    <3> QED  BY <3>2, <3>3, <1>6, FS_EmptySet, PipelineConstants
  <2> QED  BY <2>3, <2>4
<1>7. granted' = [a \in Address |-> granted'[a]] /\ allowCount' \in 0 .. PurgeEvery - 1
  BY <1>1 DEF LimiterInv
<1> QED  BY <1>5, <1>6, <1>7 DEF LimiterInv

-----------------------------------------------------------------------------
(* Requests and the stages of the process.                                   *)
Over == {"none", "refused", "failed", "answered"}
Steps == Over \cup {"admitted", "handler", "log", "streaming"}

(* What the layers in front of a step have let through.                      *)
RightTo(q, step) ==
  /\ step \in {"admitted", "handler", "log"} => ~ApplyDebugPprof(q)
  /\ step \in {"handler", "log"} => ~AnsweredAfter(q)
  /\ step = "log" => Audited(q)

(* No request is under way once Shutdown returned, and Stop comes later.     *)
ServeInv ==
  /\ pc \in [Request -> Steps] /\ in \in [Request -> Traffic]
  /\ stage \in Stages /\ closed \in BOOLEAN
  /\ stage \notin Serving => \A r \in Request : pc[r] \in Over
  /\ closed => stage \notin BeforeStop
  /\ \A r \in Request : RightTo(in[r], pc[r])

(* What VerifyAudit records of the API, an administrator did: the checks     *)
(* behind it let nobody else through to a handler that changes something.    *)
LEMMA AuditedIsAdmins ==
  ASSUME NEW q \in Traffic, RightTo(q, "log")
  PROVE  Audited(q) /\ (q.path = "page" \/ (RequiresAuth(q) /\ q.user = "admin"))
<1>1. /\ q.path \in {"login", "refresh", "public", "api", "stream", "page", "pprof"}
      /\ q.user \in {"none", "observer", "admin"}
  BY PipelineConstants
<1>2. q.path # "pprof" /\ ~AnsweredAfter(q) /\ Audited(q)
  BY DEF RightTo, ApplyDebugPprof
<1>3. ~IsRead(q) /\ (q.path = "page" \/ RequiresAuth(q))
  BY <1>1, <1>2 DEF Audited, RequiresAuth, IsAPIPath, IsPublicPath
<1>4. ~VerifyAuth(q) /\ ~VerifyRBAC(q)
  BY <1>2, Zenon DEF AnsweredAfter
<1>5. ASSUME RequiresAuth(q) PROVE q.user = "admin"
  <2>1. q.user # "none" /\ q.user # "observer"
    BY <1>3, <1>4, <1>5, Zenon DEF VerifyAuth, VerifyRBAC
  <2> QED  BY <1>1, <2>1, Zenon
<1> QED  BY <1>2, <1>3, <1>5, Zenon

(* A request goes to a step it has a right to.                               *)
LEMMA RequestGoes ==
  ASSUME ServeInv, NEW r \in Request, NEW step \in Steps, GoTo(r, step),
         UNCHANGED <<in, stage, closed>>, stage \in Serving \/ step \in Over,
         RightTo(in[r], step)
  PROVE  ServeInv'
<1>1. pc' = [pc EXCEPT ![r] = step] /\ pc' \in [Request -> Steps]
  BY DEF ServeInv, GoTo
<1>2. \A s \in Request : pc'[s] = IF s = r THEN step ELSE pc[s]
  BY <1>1 DEF ServeInv
<1>3. stage' \notin Serving => \A s \in Request : pc'[s] \in Over
  BY <1>2 DEF ServeInv
<1>4. ASSUME NEW s \in Request PROVE RightTo(in[s], pc'[s])
  BY <1>2 DEF ServeInv
<1>5. \A s \in Request : RightTo(in'[s], pc'[s])
  BY <1>4
<1> QED  BY <1>1, <1>3, <1>5 DEF ServeInv

LEMMA ServeStep ==
  ASSUME ServeInv, [PipelineNext]_pipelineVars
  PROVE  ServeInv'
<1>0. Over \subseteq Steps /\ \A r \in Request : pc[r] \in Steps
  BY DEF Steps, ServeInv
<1>1. CASE UNCHANGED <<pc, in, stage, closed>>
  BY <1>1 DEF ServeInv
<1>2. ASSUME NEW r \in Request, Admit(r) PROVE ServeInv'
  <2>1. /\ stage = "serving" /\ UNCHANGED <<in, stage, closed>>
        /\ \/ GoTo(r, "refused")
           \/ ~AnsweredBefore(in[r]) /\ GoTo(r, "admitted")
    BY <1>2 DEF Admit, auditVars
  <2>2. CASE GoTo(r, "refused")
    BY <2>1, <2>2, RequestGoes DEF Serving, Steps, Over, RightTo
  <2>3. CASE ~AnsweredBefore(in[r]) /\ GoTo(r, "admitted")
    BY <2>1, <2>3, RequestGoes DEF Serving, Steps, RightTo, AnsweredBefore
  <2> QED  BY <2>1, <2>2, <2>3
<1>3. ASSUME NEW r \in Request, Serve(r) \/ EndStream(r) PROVE ServeInv'
  <2>1. pc[r] \in {"admitted", "handler", "log", "streaming"} /\ UNCHANGED <<in, stage, closed>>
    BY <1>3 DEF Serve, Authorize, Handle, LogAudit, EndStream, auditVars
  <2>2. stage \in Serving /\ ~closed /\ RightTo(in[r], pc[r])
    BY <2>1 DEF ServeInv, Over, BeforeStop
  <2>3. CASE GoTo(r, "refused") \/ GoTo(r, "failed") \/ GoTo(r, "answered") \/ GoTo(r, "streaming")
    <3>1. PICK step \in {"refused", "failed", "answered", "streaming"} : GoTo(r, step)
      BY <2>3
    <3>2. RightTo(in[r], step) /\ step \in Steps
      BY DEF RightTo, Steps, Over
    <3> QED  BY <2>1, <2>2, <3>1, <3>2, RequestGoes
  <2>4. CASE GoTo(r, "handler") /\ pc[r] = "admitted" /\ ~AnsweredAfter(in[r])
    <3>1. RightTo(in[r], "handler")
      BY <2>2, <2>4 DEF RightTo
    <3> QED  BY <2>1, <2>2, <2>4, <3>1, RequestGoes DEF Steps
  <2>5. CASE GoTo(r, "log") /\ pc[r] = "handler" /\ Audited(in[r])
    <3>1. RightTo(in[r], "log")
      BY <2>2, <2>5 DEF RightTo
    <3> QED  BY <2>1, <2>2, <2>5, <3>1, RequestGoes DEF Steps
  <2>6. CASE Authorize(r)
    BY <2>6, <2>3, <2>4 DEF Authorize
  <2>7. CASE Handle(r)
    BY <2>7, <2>3, <2>5 DEF Handle
  <2>8. CASE LogAudit(r)
    BY <2>8, <2>2, <2>3 DEF LogAudit
  <2>9. CASE EndStream(r)
    BY <2>9, <2>3 DEF EndStream
  <2> QED  BY <1>3, <2>6, <2>7, <2>8, <2>9 DEF Serve
<1>4. CASE Signal
  <2>1. stage = "serving" /\ stage' = "shutdown" /\ UNCHANGED <<pc, in, closed>>
    BY <1>4, AdvancesInOrder DEF Signal, ServeInv, Advance, auditVars
  <2> QED  BY <2>1 DEF ServeInv, Stages, Serving, BeforeStop
<1>5. CASE ServerShutdown
  <2>1. stage = "shutdown" /\ stage' = "stopMetrics" /\ UNCHANGED <<pc, in, closed>>
    BY <1>5, AdvancesInOrder DEF ServerShutdown, ServeInv, Advance, auditVars
  <2>2. \A r \in Request : pc[r] \in Over
    BY <1>0, <1>5 DEF ServerShutdown, Ended, Steps, Over
  <2> QED  BY <2>1, <2>2 DEF ServeInv, Stages, Serving, BeforeStop
<1>6. CASE StopAudit
  <2>1. stage = "stopAudit" /\ stage' = "stopGateway" /\ UNCHANGED <<pc, in>> /\ closed' = TRUE
    BY <1>6, AdvancesInOrder DEF StopAudit, ServeInv, Advance
  <2> QED  BY <2>1 DEF ServeInv, Stages, Serving, BeforeStop
<1>7. CASE StopDB \/ StopOther
  <2>1. PICK s \in {"closingDB", "stopMetrics", "stopGateway", "stopMailer", "settle"} : Advance(s)
    BY <1>7 DEF StopDB, StopOther
  <2>2. UNCHANGED <<pc, in, closed>>
    BY <1>7 DEF StopDB, StopOther, auditVars
  <2>3. stage = s /\ stage \notin Serving /\ stage # "exited" /\ stage # "stopAudit"
    BY <2>1 DEF Advance, Serving
  <2>4. /\ stage' \in Stages
        /\ stage = "stopMetrics" => stage' = "stopAudit"
        /\ stage \notin BeforeStop => stage' \notin BeforeStop
    BY <2>1, <2>3, AdvancesInOrder DEF ServeInv
  <2>5. stage' \notin Serving
    BY <2>3, <2>4 DEF BeforeStop, Serving
  <2>6. closed => stage' \notin BeforeStop
    BY <2>4 DEF ServeInv
  <2> QED  BY <2>2, <2>3, <2>4, <2>5, <2>6 DEF ServeInv
<1>8. CASE Tick \/ Writer
  BY <1>1, <1>8 DEF Tick, Writer, WriterGoes, Take, Acquire, Insert, EndWriter, auditVars
<1>9. CASE UNCHANGED pipelineVars
  BY <1>1, <1>9 DEF pipelineVars, auditVars
<1> QED  BY <1>2, <1>3, <1>4, <1>5, <1>6, <1>7, <1>8, <1>9 DEF PipelineNext, Close

LEMMA LimiterStep ==
  ASSUME ServeInv, LimiterInv, [PipelineNext]_pipelineVars
  PROVE  LimiterInv'
<1>1. CASE UNCHANGED limiterVars
  BY <1>1 DEF LimiterInv, limiterVars, IsLimiterMap, RecentIn
<1>2. CASE Tick
  BY <1>2, TickKeepsBooks
<1>3. ASSUME NEW r \in Request, Admit(r) PROVE LimiterInv'
  <2>1. UNCHANGED limiterVars \/ Allow(r, in[r].address)
    BY <1>3 DEF Admit
  <2>2. in[r].address \in Address
    BY PipelineConstants DEF ServeInv
  <2> QED  BY <2>1, <2>2, <1>1, AllowKeepsBooks
<1>4. ASSUME NEW r \in Request, Serve(r) \/ EndStream(r) PROVE LimiterInv'
  BY <1>1, <1>4 DEF Serve, Authorize, Handle, LogAudit, EndStream
<1>5. CASE Signal \/ ServerShutdown \/ Close \/ Writer
  BY <1>1, <1>5 DEF Signal, ServerShutdown, Close, StopAudit, StopDB, StopOther,
                    Writer, WriterGoes, Take, Acquire, Insert, EndWriter
<1>6. CASE UNCHANGED pipelineVars
  BY <1>1, <1>6 DEF pipelineVars, limiterVars
<1> QED  BY <1>2, <1>3, <1>4, <1>5, <1>6 DEF PipelineNext

-----------------------------------------------------------------------------
(* The audit writer.                                                         *)
InLog(log, x) == \E i \in 1 .. Len(log) : log[i] = x
Before(log, x, y) == \E i, j \in 1 .. Len(log) : i < j /\ log[i] = x /\ log[j] = y

Last(log) == log[Len(log)]

(* The last row, the record in hand and the queue, in the order of Log.      *)
InOrder ==
  /\ \A k \in 1 .. Len(queue) : InLog(logged, queue[k])
  /\ \A k, l \in 1 .. Len(queue) : k < l => Before(logged, queue[k], queue[l])
  /\ holds # Nobody =>
       InLog(logged, holds) /\ \A k \in 1 .. Len(queue) : Before(logged, holds, queue[k])
  /\ rows # <<>> =>
       /\ InLog(logged, Last(rows))
       /\ holds # Nobody => Before(logged, Last(rows), holds)
       /\ \A k \in 1 .. Len(queue) : Before(logged, Last(rows), queue[k])

AuditTypes ==
  /\ queue \in Seq(Request) /\ Len(queue) <= QueueSize
  /\ rows \in Seq(Request) /\ logged \in Seq(Request)
  /\ writer \in {"wait", "took", "insert", "ended"}
  /\ writer \in {"took", "insert"} => holds \in Request
  /\ writer \in {"wait", "ended"} => holds = Nobody

(* Each answered mutation is logged once.                                    *)
LoggedOnce ==
  /\ \A i, j \in 1 .. Len(logged) : logged[i] = logged[j] => i = j
  /\ \A i \in 1 .. Len(logged) : pc[logged[i]] = "answered"

AuditInv == AuditTypes /\ LoggedOnce /\ InOrder

(* What is logged last comes after everything else.                          *)
LEMMA LoggedLast ==
  ASSUME NEW log \in Seq(Request), NEW r \in Request
  PROVE  /\ InLog(Append(log, r), r)
         /\ \A x : InLog(log, x) => InLog(Append(log, r), x) /\ Before(Append(log, r), x, r)
         /\ \A x, y : Before(log, x, y) => Before(Append(log, r), x, y)
<1> DEFINE longer == Append(log, r)
<1>1. /\ Len(log) \in Nat /\ Len(longer) = Len(log) + 1
      /\ longer[Len(log) + 1] = r
      /\ \A i \in 1 .. Len(log) : longer[i] = log[i]
  BY AppendProperties
<1> HIDE DEF longer
<1>2. InLog(longer, r)
  BY <1>1 DEF InLog
<1>3. ASSUME NEW x, InLog(log, x) PROVE InLog(longer, x) /\ Before(longer, x, r)
  <2>1. PICK i \in 1 .. Len(log) : log[i] = x
    BY <1>3 DEF InLog
  <2>2. /\ i \in 1 .. Len(longer) /\ Len(log) + 1 \in 1 .. Len(longer)
        /\ i < Len(log) + 1 /\ longer[i] = x
    BY <1>1, <2>1
  <2> QED  BY <1>1, <2>2 DEF InLog, Before
<1>4. ASSUME NEW x, NEW y, Before(log, x, y) PROVE Before(longer, x, y)
  <2>1. PICK i, j \in 1 .. Len(log) : i < j /\ log[i] = x /\ log[j] = y
    BY <1>4 DEF Before
  <2>2. i \in 1 .. Len(longer) /\ j \in 1 .. Len(longer) /\ longer[i] = x /\ longer[j] = y
    BY <1>1, <2>1
  <2> QED  BY <2>1, <2>2 DEF Before
<1> QED  BY <1>2, <1>3, <1>4 DEF longer

(* A request that is answered stays so.                                      *)
LEMMA AnsweredStays ==
  ASSUME ServeInv, [PipelineNext]_pipelineVars, NEW s \in Request, pc[s] = "answered"
  PROVE  pc'[s] = "answered"
<1>1. CASE pc' = pc
  BY <1>1
<1>2. ASSUME NEW r \in Request, NEW step, pc[r] # "answered", GoTo(r, step)
      PROVE  pc'[s] = "answered"
  BY <1>2 DEF GoTo, ServeInv
<1>3. ASSUME NEW r \in Request, Admit(r) \/ Serve(r) \/ EndStream(r)
      PROVE  pc'[s] = "answered"
  <2>1. pc[r] # "answered"
    BY <1>3 DEF Admit, Serve, Authorize, Handle, LogAudit, EndStream
  <2>2. \E step \in Steps \cup {"panicked"} : GoTo(r, step)
    BY <1>3 DEF Admit, Serve, Authorize, Handle, LogAudit, EndStream, Steps, Over
  <2> QED  BY <1>2, <2>1, <2>2
<1>4. CASE Tick \/ Signal \/ ServerShutdown \/ Close \/ Writer \/ UNCHANGED pipelineVars
  BY <1>1, <1>4 DEF Tick, Signal, ServerShutdown, Close, StopAudit, StopDB, StopOther,
                    Writer, WriterGoes, Take, Acquire, Insert, EndWriter, pipelineVars
<1> QED  BY <1>3, <1>4 DEF PipelineNext

(* What every step that logs nothing does to the log.                        *)
LEMMA LogStays ==
  ASSUME ServeInv, AuditInv, [PipelineNext]_pipelineVars, logged' = logged
  PROVE  LoggedOnce'
<1>1. \A i \in 1 .. Len(logged) : logged[i] \in Request
  BY DEF AuditInv, AuditTypes
<1>2. \A i \in 1 .. Len(logged) : pc'[logged[i]] = "answered"
  BY <1>1, AnsweredStays DEF AuditInv, LoggedOnce
<1> QED  BY <1>2 DEF AuditInv, LoggedOnce

LEMMA LogAuditStep ==
  ASSUME ServeInv, AuditInv, NEW r \in Request, LogAudit(r)
  PROVE  AuditInv'
<1>1. ~closed /\ pc[r] = "log"
  BY DEF LogAudit, ServeInv, BeforeStop, Over
<1>2. /\ pc' = [pc EXCEPT ![r] = "answered"] /\ logged' = Append(logged, r)
      /\ queue' = IF Len(queue) < QueueSize THEN Append(queue, r) ELSE queue
      /\ UNCHANGED <<writer, holds, rows>>
  BY <1>1 DEF LogAudit, GoTo
<1>3. /\ logged \in Seq(Request) /\ queue \in Seq(Request) /\ rows \in Seq(Request)
      /\ QueueSize \in Nat /\ Len(queue) <= QueueSize
  BY PipelineConstants DEF AuditInv, AuditTypes
<1>4. /\ logged' \in Seq(Request) /\ Len(logged) \in Nat /\ Len(logged') = Len(logged) + 1
      /\ \A i \in 1 .. Len(logged) : logged'[i] = logged[i] /\ logged[i] \in Request
      /\ logged'[Len(logged) + 1] = r
  BY <1>2, <1>3, AppendProperties
<1>5. LoggedOnce'
  <2>1. \A i \in 1 .. Len(logged) : logged[i] # r
    BY <1>1 DEF AuditInv, LoggedOnce
  <2>2. \A i, j \in 1 .. Len(logged') : logged'[i] = logged'[j] => i = j
    BY <1>4, <2>1 DEF AuditInv, LoggedOnce
  <2>3. \A i \in 1 .. Len(logged') : pc'[logged'[i]] = "answered"
    BY <1>2, <1>4, <2>1 DEF AuditInv, LoggedOnce, ServeInv
  <2> QED  BY <2>2, <2>3 DEF LoggedOnce
<1>6. AuditTypes'
  <2>1. queue' \in Seq(Request) /\ Len(queue') <= QueueSize
    BY <1>2, <1>3, AppendProperties
  <2> QED  BY <1>2, <1>4, <2>1 DEF AuditInv, AuditTypes
<1>7. /\ InLog(logged', r)
      /\ \A x : InLog(logged, x) => InLog(logged', x) /\ Before(logged', x, r)
      /\ \A x, y : Before(logged, x, y) => Before(logged', x, y)
  BY <1>2, <1>3, LoggedLast
<1>8. InOrder'
  <2> DEFINE n == Len(queue)
  <2>1. /\ n \in Nat
        /\ \/ queue' = queue
           \/ /\ Len(queue') = n + 1 /\ queue'[n + 1] = r
              /\ \A k \in 1 .. n : queue'[k] = queue[k]
    BY <1>2, <1>3, AppendProperties
  <2>2. \A k \in 1 .. Len(queue') : (k \in 1 .. n /\ queue'[k] = queue[k]) \/ (k = n + 1 /\ queue'[k] = r)
    BY <2>1
  <2>3. \A k \in 1 .. Len(queue') : InLog(logged', queue'[k])
    BY <1>7, <2>2 DEF AuditInv, InOrder
  <2>4. ASSUME NEW x, \A k \in 1 .. n : Before(logged, x, queue[k]), InLog(logged, x)
        PROVE  \A k \in 1 .. Len(queue') : Before(logged', x, queue'[k])
    BY <1>7, <2>2, <2>4
  <2>5. \A k, l \in 1 .. Len(queue') : k < l => Before(logged', queue'[k], queue'[l])
    <3> SUFFICES ASSUME NEW k \in 1 .. Len(queue'), NEW l \in 1 .. Len(queue'), k < l
                 PROVE  Before(logged', queue'[k], queue'[l])
      OBVIOUS
    <3>1. k \in 1 .. n /\ queue'[k] = queue[k] /\ InLog(logged, queue[k])
      BY <2>1, <2>2 DEF AuditInv, InOrder
    <3>2. CASE l \in 1 .. n /\ queue'[l] = queue[l]
      <4>1. Before(logged, queue[k], queue[l])
        BY <3>1, <3>2 DEF AuditInv, InOrder
      <4> QED  BY <1>7, <3>1, <3>2, <4>1
    <3>3. CASE queue'[l] = r
      BY <1>7, <3>1, <3>3
    <3> QED  BY <2>2, <3>2, <3>3
  <2>6. holds' # Nobody =>
          InLog(logged', holds') /\ \A k \in 1 .. Len(queue') : Before(logged', holds', queue'[k])
    <3> SUFFICES ASSUME holds # Nobody
                 PROVE  /\ InLog(logged', holds)
                        /\ \A k \in 1 .. Len(queue') : Before(logged', holds, queue'[k])
      BY <1>2
    <3>1. InLog(logged, holds) /\ \A k \in 1 .. n : Before(logged, holds, queue[k])
      BY DEF AuditInv, InOrder
    <3> QED  BY <1>7, <2>4, <3>1
  <2>7. rows' # <<>> =>
          /\ InLog(logged', Last(rows'))
          /\ holds' # Nobody => Before(logged', Last(rows'), holds')
          /\ \A k \in 1 .. Len(queue') : Before(logged', Last(rows'), queue'[k])
    <3> SUFFICES ASSUME rows # <<>>
                 PROVE  /\ InLog(logged', Last(rows))
                        /\ holds # Nobody => Before(logged', Last(rows), holds)
                        /\ \A k \in 1 .. Len(queue') : Before(logged', Last(rows), queue'[k])
      BY <1>2
    <3>1. /\ InLog(logged, Last(rows)) /\ \A k \in 1 .. n : Before(logged, Last(rows), queue[k])
      BY DEF AuditInv, InOrder
    <3>2. holds # Nobody => Before(logged, Last(rows), holds)
      BY DEF AuditInv, InOrder
    <3> HIDE DEF n
    <3> QED  BY <1>7, <2>4, <3>1, <3>2
  <2> QED  BY <2>3, <2>5, <2>6, <2>7 DEF InOrder, InLog, Before, Last
<1> QED  BY <1>5, <1>6, <1>8 DEF AuditInv

LEMMA TakeStep ==
  ASSUME AuditInv, Take
  PROVE  AuditTypes' /\ InOrder'
<1>1. /\ writer = "wait" /\ queue # <<>> /\ writer' = "took" /\ holds' = Head(queue)
      /\ queue' = Tail(queue) /\ UNCHANGED <<rows, logged>>
  BY DEF Take
<1>2. queue \in Seq(Request) /\ rows \in Seq(Request) /\ logged \in Seq(Request)
  BY DEF AuditInv, AuditTypes
<1>3. /\ Len(queue) \in Nat \ {0} /\ queue' \in Seq(Request) /\ Len(queue') = Len(queue) - 1
      /\ holds' = queue[1] /\ holds' \in Request
      /\ \A k \in 1 .. Len(queue') : queue'[k] = queue[k + 1]
  BY <1>1, <1>2, HeadTailProperties
<1>4. AuditTypes'
  BY <1>1, <1>2, <1>3, PipelineConstants DEF AuditInv, AuditTypes
<1>5. \A k \in 1 .. Len(queue') : k + 1 \in 1 .. Len(queue) /\ 1 < k + 1
  BY <1>3
<1>6. 1 \in 1 .. Len(queue)
  BY <1>3
<1>7. \A k \in 1 .. Len(queue') : InLog(logged, queue'[k]) /\ Before(logged, holds', queue'[k])
  BY <1>3, <1>5, <1>6 DEF AuditInv, InOrder
<1>8. \A k, l \in 1 .. Len(queue') : k < l => Before(logged, queue'[k], queue'[l])
  <2> SUFFICES ASSUME NEW k \in 1 .. Len(queue'), NEW l \in 1 .. Len(queue'), k < l
               PROVE  Before(logged, queue'[k], queue'[l])
    OBVIOUS
  <2>1. k + 1 \in 1 .. Len(queue) /\ l + 1 \in 1 .. Len(queue) /\ k + 1 < l + 1
    BY <1>5
  <2> QED  BY <1>3, <2>1 DEF AuditInv, InOrder
<1>9. InLog(logged, holds')
  BY <1>3, <1>6 DEF AuditInv, InOrder
<1>10. rows # <<>> =>
         /\ InLog(logged, Last(rows)) /\ Before(logged, Last(rows), holds')
         /\ \A k \in 1 .. Len(queue') : Before(logged, Last(rows), queue'[k])
  BY <1>3, <1>5, <1>6 DEF AuditInv, InOrder
<1> QED  BY <1>1, <1>4, <1>7, <1>8, <1>9, <1>10, SMTT(30) DEF InOrder, InLog, Before, Last

LEMMA InsertStep ==
  ASSUME AuditInv, Insert
  PROVE  AuditTypes' /\ InOrder'
<1>1. /\ writer = "insert" /\ writer' = "wait" /\ holds' = Nobody
      /\ rows' = Append(rows, holds) \/ rows' = rows
      /\ UNCHANGED <<queue, logged>>
  BY DEF Insert
<1>2. /\ queue \in Seq(Request) /\ rows \in Seq(Request) /\ logged \in Seq(Request)
      /\ holds \in Request /\ holds # Nobody
  BY <1>1, PipelineConstants DEF AuditInv, AuditTypes
<1>3. /\ Append(rows, holds) \in Seq(Request)
      /\ Last(Append(rows, holds)) = holds
  BY <1>2, AppendProperties DEF Last
<1>4. AuditTypes'
  BY <1>1, <1>2, <1>3 DEF AuditInv, AuditTypes
<1>5. CASE rows' = rows
  BY <1>1, <1>4, <1>5 DEF AuditInv, InOrder, InLog, Before, Last
<1>6. CASE rows' = Append(rows, holds)
  <2>1. Last(rows') = holds
    BY <1>3, <1>6
  <2>2. InLog(logged, holds) /\ \A k \in 1 .. Len(queue) : Before(logged, holds, queue[k])
    BY <1>2 DEF AuditInv, InOrder
  <2>3. /\ \A k \in 1 .. Len(queue) : InLog(logged, queue[k])
        /\ \A k, l \in 1 .. Len(queue) : k < l => Before(logged, queue[k], queue[l])
    BY DEF AuditInv, InOrder
  <2> QED  BY <1>1, <1>4, <2>1, <2>2, <2>3 DEF InOrder, InLog, Before, Last
<1> QED  BY <1>1, <1>5, <1>6

LEMMA AuditStep ==
  ASSUME ServeInv, AuditInv, [PipelineNext]_pipelineVars
  PROVE  AuditInv'
<1>1. CASE UNCHANGED <<queue, writer, holds, rows, logged>>
  <2>1. AuditTypes' /\ InOrder'
    BY <1>1 DEF AuditInv, AuditTypes, InOrder, InLog, Before, Last
  <2> QED  BY <1>1, <2>1, LogStays DEF AuditInv
<1>2. ASSUME NEW r \in Request, LogAudit(r) PROVE AuditInv'
  BY <1>2, LogAuditStep
<1>3. ASSUME NEW r \in Request, Admit(r) \/ Authorize(r) \/ Handle(r) \/ EndStream(r)
      PROVE  AuditInv'
  BY <1>1, <1>3 DEF Admit, Authorize, Handle, EndStream, auditVars
<1>4. CASE Tick \/ Signal \/ ServerShutdown \/ Close \/ UNCHANGED pipelineVars
  BY <1>1, <1>4 DEF Tick, Signal, ServerShutdown, Close, StopAudit, StopDB, StopOther,
                    pipelineVars, auditVars
<1>5. CASE Take
  <2>1. logged' = logged
    BY <1>5 DEF Take
  <2> QED  BY <1>5, <2>1, LogStays, TakeStep DEF AuditInv
<1>6. CASE Insert
  <2>1. logged' = logged
    BY <1>6 DEF Insert
  <2> QED  BY <1>6, <2>1, LogStays, InsertStep DEF AuditInv
<1>7. CASE Acquire
  <2>1. /\ writer = "took" /\ UNCHANGED <<queue, rows, logged>>
        /\ \/ writer' = "wait" /\ holds' = Nobody
           \/ writer' = "insert" /\ holds' = holds
    BY <1>7 DEF Acquire
  <2>2. AuditTypes'
    BY <2>1 DEF AuditInv, AuditTypes
  <2>3. ASSUME holds' = Nobody PROVE InOrder'
    <3>1. /\ \A k \in 1 .. Len(queue) : InLog(logged, queue[k])
          /\ \A k, l \in 1 .. Len(queue) : k < l => Before(logged, queue[k], queue[l])
          /\ rows # <<>> => /\ InLog(logged, Last(rows))
                           /\ \A k \in 1 .. Len(queue) : Before(logged, Last(rows), queue[k])
      BY DEF AuditInv, InOrder
    <3>2. /\ \A k \in 1 .. Len(queue') : InLog(logged', queue'[k])
          /\ \A k, l \in 1 .. Len(queue') : k < l => Before(logged', queue'[k], queue'[l])
          /\ rows' # <<>> =>
               /\ InLog(logged', Last(rows'))
               /\ \A k \in 1 .. Len(queue') : Before(logged', Last(rows'), queue'[k])
      BY <2>1, <3>1, Zenon
    <3> QED  BY <2>3, <3>2, Zenon DEF InOrder, InLog, Before, Last
  <2>4. ASSUME holds' = holds PROVE InOrder'
    BY <2>1, <2>4 DEF AuditInv, InOrder, InLog, Before, Last
  <2> QED  BY <2>1, <2>2, <2>3, <2>4, LogStays DEF AuditInv
<1>8. CASE EndWriter
  <2>1. writer = "wait" /\ writer' = "ended" /\ UNCHANGED <<queue, holds, rows, logged>>
    BY <1>8 DEF EndWriter
  <2>2. AuditTypes' /\ InOrder'
    BY <2>1 DEF AuditInv, AuditTypes, InOrder, InLog, Before, Last
  <2> QED  BY <2>1, <2>2, LogStays DEF AuditInv
<1> QED  BY <1>2, <1>3, <1>4, <1>5, <1>6, <1>7, <1>8 DEF PipelineNext, Serve, Writer, WriterGoes

-----------------------------------------------------------------------------
PipelineInv == ServeInv /\ LimiterInv /\ AuditInv

LEMMA PipelineStarts ==
  ASSUME PipelineInit
  PROVE  PipelineInv
<1>1. ServeInv
  <2>1. in \in [Request -> Traffic]
    BY PipelineConstants DEF PipelineInit
  <2> QED  BY <2>1 DEF PipelineInit, ServeInv, Steps, Over, Stages, Serving, RightTo
<1>2. LimiterInv
  <2>1. /\ events = <<>> /\ DOMAIN events = {} /\ allowCount = 0
        /\ granted = [a \in Address |-> {}]
    BY DEF PipelineInit
  <2>2. IsLimiterMap(events)
    BY <2>1 DEF IsLimiterMap
  <2>3. \A a \in Address : RecentIn(events, a) = {}
    BY <2>1 DEF RecentIn
  <2> QED  BY <2>1, <2>2, <2>3, FS_EmptySet, PipelineConstants DEF LimiterInv
<1>3. AuditInv
  BY PipelineConstants DEF PipelineInit, AuditInv, AuditTypes, LoggedOnce, InOrder
<1> QED  BY <1>1, <1>2, <1>3 DEF PipelineInv

LEMMA PipelineSteps ==
  ASSUME PipelineInv, [PipelineNext]_pipelineVars
  PROVE  PipelineInv'
BY ServeStep, LimiterStep, AuditStep DEF PipelineInv

(* The pipeline never leaves its types; the limiter counts exactly what it   *)
(* let through and lets through at most its limit in a window (allow,        *)
(* purgeStaleLocked); and no request logs on the closed channel (Log, Stop). *)
THEOREM PipelineSafe == PipelineSpec => [](PipelineTypeOK /\ LimiterExact /\ NoLogAfterStop)
<1>1. PipelineInit => PipelineInv
  BY PipelineStarts
<1>2. PipelineInv /\ [PipelineNext]_pipelineVars => PipelineInv'
  BY PipelineSteps
<1>3. PipelineInv => PipelineTypeOK /\ LimiterExact /\ NoLogAfterStop
  <2> SUFFICES ASSUME PipelineInv PROVE PipelineTypeOK /\ LimiterExact /\ NoLogAfterStop
    OBVIOUS
  <2>1. LimiterExact
    BY DEF PipelineInv, LimiterInv, LimiterExact, Recent, RecentIn
  <2>2. NoLogAfterStop
    BY DEF PipelineInv, ServeInv, NoLogAfterStop, Serving, BeforeStop, Over
  <2>3. pc \in [Request -> Ended \cup {"admitted", "handler", "log", "streaming"}]
    BY DEF PipelineInv, ServeInv, Steps, Over, Ended
  <2>4. stage \in {Order[i] : i \in 1 .. Len(Order)}
    <3>1. Len(Order) = 9
      BY DEF Order
    <3>2. /\ Order[1] = "serving" /\ Order[2] = "shutdown" /\ Order[3] = "stopMetrics"
          /\ Order[4] = "stopAudit" /\ Order[5] = "stopGateway" /\ Order[6] = "closingDB"
          /\ Order[7] = "stopMailer" /\ Order[8] = "settle" /\ Order[9] = "exited"
      BY DEF Order
    <3>3. \E i \in 1 .. 9 : stage = Order[i]
      BY <3>2 DEF PipelineInv, ServeInv, Stages
    <3> QED  BY <3>1, <3>3
  <2>5. /\ DOMAIN events \subseteq Address
        /\ \A a \in DOMAIN events : events[a] \subseteq Request \X (0 .. Window)
        /\ allowCount \in 0 .. PurgeEvery - 1
    BY DEF PipelineInv, LimiterInv, IsLimiterMap, Attempt
  <2>6. PipelineTypeOK
    BY <2>3, <2>4, <2>5 DEF PipelineInv, ServeInv, AuditInv, AuditTypes, PipelineTypeOK
  <2> QED  BY <2>1, <2>2, <2>6
<1> QED  BY <1>1, <1>2, <1>3, PTL DEF PipelineSpec

-----------------------------------------------------------------------------
(* The refinement: answers are logged and rows are stored in AuditTrail's    *)
(* order, and no other step touches either.                                  *)
Mutations == {r \in Request : Audited(in[r]) /\ RequiresAuth(in[r]) /\ in[r].user = "admin"}
Strays == {r \in Request : Audited(in[r]) /\ in[r].path = "page"}

(* The place of the last row of list in log.                                 *)
Place(log, list) == CHOOSE i \in 1 .. Len(log) : log[i] = list[Len(list)]

(* There is one such place.                                                  *)
LEMMA PlaceIs ==
  ASSUME NEW log, NEW list, \A i, j \in 1 .. Len(log) : log[i] = log[j] => i = j,
         NEW i \in 1 .. Len(log), log[i] = list[Len(list)]
  PROVE  Place(log, list) = i
<1> DEFINE At(j) == log[j] = list[Len(list)]
           place == CHOOSE j \in 1 .. Len(log) : At(j)
<1>1. \A j \in 1 .. Len(log) : At(j) => j = i
  OBVIOUS
<1>2. At(i) /\ Place(log, list) = place
  BY DEF Place
<1> HIDE DEF At
<1>3. place \in 1 .. Len(log) /\ At(place)
  BY <1>2
<1> QED  BY <1>1, <1>2, <1>3

LEMMA AnswerStored ==
  ASSUME ServeInv, AuditInv, AuditInv', NEW r \in Request, LogAudit(r)
  PROVE  r \in Mutations \cup Strays /\ Trail!Answer(r)
<1>1. ~closed /\ pc[r] = "log" /\ RightTo(in[r], "log") /\ in[r] \in Traffic
  BY DEF LogAudit, ServeInv, BeforeStop, Over
<1>2. r \in Mutations \cup Strays
  BY <1>1, AuditedIsAdmins DEF Mutations, Strays
<1>3. logged' = Append(logged, r) /\ rows' = rows /\ in' = in
  BY <1>1 DEF LogAudit
<1>4. \A i \in 1 .. Len(logged) : logged[i] # r
  BY <1>1 DEF AuditInv, LoggedOnce
<1>5. Position' = Position
  <2>1. CASE rows = <<>>
    BY <1>3, <2>1 DEF Position
  <2>2. CASE rows # <<>>
    <3>1. PICK i \in 1 .. Len(logged) : logged[i] = rows[Len(rows)]
      BY <2>2 DEF AuditInv, InOrder, InLog, Last
    <3>2. logged \in Seq(Request)
      BY DEF AuditInv, AuditTypes
    <3>3. i \in 1 .. Len(logged') /\ logged'[i] = rows[Len(rows)]
      BY <1>3, <3>1, <3>2, AppendProperties
    <3>4. Position = Place(logged, rows) /\ Position' = Place(logged', rows)
      BY <1>3, <2>2 DEF Position, Place
    <3>5. Place(logged, rows) = i
      BY <3>1, PlaceIs, SMTT(30) DEF AuditInv, LoggedOnce
    <3>6. Place(logged', rows) = i
      BY <3>3, PlaceIs DEF AuditInv, LoggedOnce
    <3> QED  BY <3>4, <3>5, <3>6
  <2> QED  BY <2>1, <2>2
<1> QED  BY <1>2, <1>3, <1>4, <1>5 DEF Trail!Answer

(* An inserted row is the next of the answers, or a later one.               *)
LEMMA RowStored ==
  ASSUME AuditInv, Insert, rows' = Append(rows, holds)
  PROVE  \E i \in Position + 1 .. Len(logged) : Trail!Store(i)
<1>1. logged' = logged /\ in' = in /\ writer = "insert"
  BY DEF Insert
<1>2. /\ rows \in Seq(Request) /\ logged \in Seq(Request) /\ Len(logged) \in Nat
      /\ holds \in Request /\ holds # Nobody
  BY <1>1, PipelineConstants DEF AuditInv, AuditTypes
<1>3. rows' # <<>> /\ rows'[Len(rows')] = holds
  BY <1>2, AppendProperties
<1>4. \E i \in 1 .. Len(logged) : logged[i] = holds /\ Position < i /\ Position \in Nat
  <2>1. CASE rows = <<>>
    <3>1. PICK i \in 1 .. Len(logged) : logged[i] = holds
      BY <1>2 DEF AuditInv, InOrder, InLog
    <3> QED  BY <2>1, <3>1 DEF Position
  <2>2. CASE rows # <<>>
    <3>1. PICK j, i \in 1 .. Len(logged) : j < i /\ logged[j] = rows[Len(rows)] /\ logged[i] = holds
      BY <1>2, <2>2 DEF AuditInv, InOrder, Before, Last
    <3>2. Position = Place(logged, rows)
      BY <2>2 DEF Position, Place
    <3>3. Place(logged, rows) = j
      BY <3>1, PlaceIs DEF AuditInv, LoggedOnce
    <3> QED  BY <3>1, <3>2, <3>3
  <2> QED  BY <2>1, <2>2
<1>5. PICK i \in 1 .. Len(logged) : logged[i] = holds /\ Position < i /\ Position \in Nat
  BY <1>4
<1>6. Position' = i
  <2>1. Position' = Place(logged, rows')
    BY <1>1, <1>3 DEF Position, Place
  <2>2. Place(logged, rows') = i
    BY <1>3, <1>5, PlaceIs DEF AuditInv, LoggedOnce
  <2> QED  BY <2>1, <2>2
<1>7. Trail!Store(i)
  BY <1>1, <1>5, <1>6 DEF Trail!Store
<1> QED  BY <1>2, <1>5, <1>7

LEMMA TrailStep ==
  ASSUME PipelineInv, PipelineInv', [PipelineNext]_pipelineVars
  PROVE  [Trail!TrailNext]_<<Mutations, Strays, logged, Position, rows>>
<1>1. CASE UNCHANGED <<in, logged, rows>>
  BY <1>1 DEF Mutations, Strays, Position
<1>2. ASSUME NEW r \in Request, LogAudit(r)
      PROVE  Trail!TrailNext
  BY <1>2, AnswerStored DEF PipelineInv, Trail!TrailNext, Mutations, Strays
<1>3. CASE Insert
  <2>1. CASE rows' = Append(rows, holds)
    BY <1>3, <2>1, RowStored DEF PipelineInv, Trail!TrailNext
  <2>2. CASE rows' = rows
    BY <1>1, <1>3, <2>2 DEF Insert
  <2> QED  BY <1>3, <2>1, <2>2 DEF Insert
<1>4. ASSUME NEW r \in Request, Admit(r) \/ Authorize(r) \/ Handle(r) \/ EndStream(r)
      PROVE  UNCHANGED <<in, logged, rows>>
  BY <1>4 DEF Admit, Authorize, Handle, EndStream, auditVars
<1>5. ASSUME Tick \/ Signal \/ ServerShutdown \/ Close \/ Take \/ Acquire \/ EndWriter
             \/ UNCHANGED pipelineVars
      PROVE  UNCHANGED <<in, logged, rows>>
  BY <1>5 DEF Tick, Signal, ServerShutdown, Close, StopAudit, StopDB, StopOther,
              Take, Acquire, EndWriter, pipelineVars, auditVars
<1> QED  BY <1>1, <1>2, <1>3, <1>4, <1>5 DEF PipelineNext, Serve, Writer, WriterGoes

(* The audit writer implements what the audit log promises: it holds         *)
(* requests the console answered, each once, in the order they were logged,  *)
(* and of the API only an administrator's (VerifyAudit, Log, Start).         *)
THEOREM TrailImplemented == PipelineSpec => ImplementsTrail
<1>1. PipelineInit => PipelineInv
  BY PipelineStarts
<1>2. PipelineInv /\ [PipelineNext]_pipelineVars => PipelineInv'
  BY PipelineSteps
<1>3. PipelineInit => Trail!TrailInit
  BY DEF PipelineInit, Trail!TrailInit, Position
<1>4. PipelineInv /\ PipelineInv' /\ [PipelineNext]_pipelineVars
        => [Trail!TrailNext]_<<Mutations, Strays, logged, Position, rows>>
  BY TrailStep
<1> QED
  BY <1>1, <1>2, <1>3, <1>4, PTL
  DEF PipelineSpec, ImplementsTrail, Trail!TrailSpec, Mutations, Strays
=============================================================================

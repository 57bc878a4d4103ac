-------------------------- MODULE CollectorProofs --------------------------
(***************************************************************************)
(* What the alert feed and the sample store promise, proved for any number *)
(* of consoles, rules, editors, alerts, nodes and ticks.                   *)
(***************************************************************************)
EXTENDS AlertLifecycle, SampleStore, FiniteSetTheorems, TLAPS

(* A console notifies the alert it remembers, no other console notifies it,  *)
(* and no mail was begun for it.                                             *)
Notifying ==
  /\ \A c \in Console : cur[c] # None <=> pc[c] \in {"claim", "recipients", "release"}
  /\ \A c \in Console : cur[c] # None => job[cur[c]] = "none"
  /\ \A c, d \in Console : cur[c] # None /\ cur[c] = cur[d] => c = d

(* A goroutine runs in a console, and what was mailed for an alert is what   *)
(* its goroutine got to.                                                     *)
Mailing ==
  \A a \in Alert :
    /\ by[a] # None <=> job[a] \in {"send", "quit", "release"}
    /\ job[a] \in {"none", "send"} => mails[a] = 0
    /\ job[a] = "quit" => mails[a] = 1
    /\ mails[a] <= 1

(* An open alert is of a rule that exists and has no other.                  *)
Feed ==
  /\ \A a \in Alert : IsOpen(a) => ruleOf[a] \in Rule /\ rule[ruleOf[a]] # "gone"
  /\ \A a, b \in Alert : IsOpen(a) /\ IsOpen(b) /\ ruleOf[a] = ruleOf[b] => a = b

(* The inductive invariant of the alerts.                                    *)
AlertInv == TypeOK /\ Notifying /\ Mailing /\ Feed /\ ClaimIsBacked

LEMMA ReleasedIs ==
  ASSUME notified \in [Alert -> BOOLEAN], NEW a \in Alert
  PROVE  /\ Released(a) \in [Alert -> BOOLEAN]
         /\ \A b \in Alert : Released(a)[b] => notified[b] /\ (b = a => ~IsOpen(b))
  BY Zenon DEF Released

LEMMA AlertStep == ASSUME AlertInv, [Next]_vars PROVE AlertInv'
<1> USE AlertConstants
    DEF AlertInv, TypeOK, Over, dbVars, mailVars, evalVars, Notifying, Mailing, Feed, IsOpen,
        ClaimIsBacked
<1>1. ASSUME NEW c \in Console, Evaluate(c) PROVE AlertInv'
  BY <1>1 DEF Evaluate, Sampled, Fault, Goto
<1>2. ASSUME NEW c \in Console, ListAlertRules(c) PROVE AlertInv'
  BY <1>2 DEF ListAlertRules, Goto, Fault
<1>3. ASSUME NEW c \in Console, ListOpenAlertRuleIDs(c) PROVE AlertInv'
  BY <1>3 DEF ListOpenAlertRuleIDs, Goto
<1>4. ASSUME NEW c \in Console, ThresholdMet(c) PROVE AlertInv'
  <2>1. PICK r \in todo[c] \cap sample[c] : UpsertOpenAlert(c, r) /\ Handled(c, r)
    BY <1>4 DEF ThresholdMet
  <2>2. r \in Rule
    BY <2>1
  <2>3. todo' \in [Console -> SUBSET Rule] /\ sample' \in [Console -> SUBSET Rule]
          /\ openRules' \in [Console -> SUBSET Rule]
    BY <2>1 DEF Handled
  <2>4. UNCHANGED <<metric, rule, edit, by, smtp, faults>>
    BY <1>4 DEF ThresholdMet
  <2>5. CASE NothingToNotify
    BY <2>3, <2>4, <2>5 DEF NothingToNotify
  <2>6. CASE rule[r] # "gone" /\ Open(r) = {} /\ InsertAlert(c, r)
    <3>1. PICK a \in Alert :
            /\ Fresh(a)
            /\ status'   = [status EXCEPT ![a] = "open"]
            /\ ruleOf'   = [ruleOf EXCEPT ![a] = r]
            /\ notified' = [notified EXCEPT ![a] = FALSE]
            /\ job'      = [job EXCEPT ![a] = "none"]
            /\ mails'    = [mails EXCEPT ![a] = 0]
            /\ cur'      = [cur EXCEPT ![c] = a]
            /\ pc'       = [pc EXCEPT ![c] = "claim"]
      BY <2>6 DEF InsertAlert, Goto
    <3>2. TypeOK'
      BY <2>2, <2>3, <2>4, <3>1
    <3>3. Notifying' /\ Mailing'
      BY <2>4, <3>1, <1>4 DEF Fresh, ThresholdMet
    <3>4. Feed'
      <4>1. \A b \in Alert : IsOpen(b) => ruleOf[b] # r
        BY <2>6 DEF Open
      <4>2. \A b \in Alert : IsOpen(b)' <=> (IsOpen(b) \/ b = a)
        BY <3>1
      <4>3. \A b \in Alert : ruleOf'[b] = IF b = a THEN r ELSE ruleOf[b]
        BY <3>1
      <4> QED
        BY <4>1, <4>2, <4>3, <2>2, <2>4, <2>6, SMTT(30)
    <3>5. ClaimIsBacked'
      BY <2>4, <3>1, <1>4 DEF ThresholdMet
    <3> QED
      BY <3>2, <3>3, <3>4, <3>5
  <2> QED
    BY <2>1, <2>5, <2>6 DEF UpsertOpenAlert
<1>5. ASSUME NEW c \in Console, CloseOpenAlert(c) PROVE AlertInv'
  BY <1>5 DEF CloseOpenAlert, Handled, Open
<1>6. ASSUME NEW c \in Console, EvaluateDone(c) PROVE AlertInv'
  BY <1>6, SMTT(30) DEF EvaluateDone, Goto
<1>7. ASSUME NEW c \in Console, ClaimAlertEmailNotify(c) PROVE AlertInv'
  BY <1>7, SMTT(30) DEF ClaimAlertEmailNotify, Goto
<1>8. ASSUME NEW c \in Console, RecipientEmails(c) PROVE AlertInv'
  <2>1. /\ pc[c] = "recipients" /\ cur[c] \in Alert
        /\ UNCHANGED <<metric, dbVars, mails, smtp, sample, todo, openRules, faults>>
    BY <1>8 DEF RecipientEmails
  <2>2. CASE /\ job' = [job EXCEPT ![cur[c]] = "send"]
             /\ by'  = [by EXCEPT ![cur[c]] = c]
             /\ cur' = [cur EXCEPT ![c] = None]
             /\ Goto(c, "loop")
    <3>1. TypeOK'
      BY <2>1, <2>2 DEF Goto
    <3>2. Notifying' /\ Mailing'
      BY <2>1, <2>2 DEF Goto
    <3>3. Feed' /\ ClaimIsBacked'
      BY <2>1, <2>2 DEF Goto
    <3> QED
      BY <3>1, <3>2, <3>3
  <2>3. CASE Goto(c, "release") /\ UNCHANGED <<job, by, cur>>
    BY <2>1, <2>3 DEF Goto
  <2> QED
    BY <1>8, <2>2, <2>3 DEF RecipientEmails
<1>9. ASSUME NEW c \in Console, ReleaseUnsent(c) PROVE AlertInv'
  <2>1. cur[c] \in Alert /\ pc[c] = "release"
    BY <1>9 DEF ReleaseUnsent
  <2>2. notified' \in [Alert -> BOOLEAN]
    BY <1>9, <2>1, ReleasedIs DEF ReleaseUnsent
  <2>3. \A a \in Alert : notified'[a] => notified[a] /\ (a = cur[c] => ~IsOpen(a))
    BY <1>9, <2>1, ReleasedIs DEF ReleaseUnsent
  <2>4. /\ cur' = [cur EXCEPT ![c] = None]
        /\ pc'  = [pc EXCEPT ![c] = "loop"]
        /\ UNCHANGED <<metric, rule, edit, status, ruleOf, mailVars, sample, todo, openRules, faults>>
    BY <1>9 DEF ReleaseUnsent, Goto
  <2>5. TypeOK' /\ Notifying' /\ Mailing' /\ Feed'
    BY <2>1, <2>2, <2>4
  <2>6. ClaimIsBacked'
    BY <2>1, <2>3, <2>4
  <2> QED
    BY <2>5, <2>6
<1>10. ASSUME NEW c \in Console, StatementFails(c) PROVE AlertInv'
  <2>1. /\ cur' = [cur EXCEPT ![c] = None]
        /\ UNCHANGED <<metric, dbVars, by, mails, smtp>>
        /\ faults' \in 0 .. MaxFaults
    BY <1>10 DEF StatementFails, Fault
  <2>2. CASE /\ pc[c] \in {"rules", "open"}
             /\ Goto(c, "idle")
             /\ sample' = [sample EXCEPT ![c] = {}]
             /\ todo'   = [todo EXCEPT ![c] = {}]
             /\ UNCHANGED <<job, openRules>>
    BY <2>1, <2>2, SMTT(30) DEF Goto
  <2>3. CASE /\ pc[c] = "loop"
             /\ \E r \in todo[c] : Handled(c, r)
             /\ UNCHANGED <<job, pc>>
    BY <2>1, <2>3, SMTT(30) DEF Handled
  <2>4. CASE /\ pc[c] \in {"claim", "release"}
             /\ job' = [job EXCEPT ![cur[c]] = IF pc[c] = "release" THEN "lost" ELSE @]
             /\ Goto(c, "loop")
             /\ UNCHANGED <<sample, todo, openRules>>
    <3>1. TypeOK'
      BY <2>1, <2>4 DEF Goto
    <3>2. Notifying' /\ Mailing'
      BY <2>1, <2>4 DEF Goto
    <3>3. Feed' /\ ClaimIsBacked'
      BY <2>1, <2>4 DEF Goto
    <3> QED
      BY <3>1, <3>2, <3>3
  <2> QED
    BY <1>10, <2>2, <2>3, <2>4 DEF StatementFails
<1>11. ASSUME NEW c \in Console, Restart(c) PROVE AlertInv'
  BY <1>11 DEF Restart, Goto, Fault
<1>12. ASSUME NEW a \in Alert, SendData(a) PROVE AlertInv'
  <2>1. by[a] \in Console /\ mails[a] = 0 /\ job[a] = "send" /\ faults' \in 0 .. MaxFaults
    BY <1>12 DEF SendData, Fault
  <2>2. TypeOK'
    BY <1>12, <2>1, SMTT(30) DEF SendData, SendFails, EndJob
  <2>3. Notifying' /\ Mailing'
    BY <1>12, <2>1 DEF SendData, SendFails, EndJob
  <2>4. Feed' /\ ClaimIsBacked'
    BY <1>12, <2>1, SMTT(30) DEF SendData, SendFails, EndJob
  <2> QED
    BY <2>2, <2>3, <2>4
<1>13. ASSUME NEW a \in Alert, SendQuit(a) PROVE AlertInv'
  <2>1. by[a] \in Console /\ mails[a] = 1 /\ job[a] = "quit" /\ faults' \in 0 .. MaxFaults
    BY <1>13 DEF SendQuit, Fault
  <2>2. /\ smtp' \in [Console -> {"ready", "quit", "off"}]
        /\ job' \in [Alert -> Over \cup {"send", "quit", "release"}]
        /\ by' \in [Alert -> Console \cup {None}]
    <3>1. CASE smtp' = [smtp EXCEPT ![by[a]] = "quit"] /\ EndJob(a, "sent")
      BY <3>1, <2>1 DEF EndJob
    <3>2. CASE SendFails(a) /\ UNCHANGED smtp
      BY <3>2, <2>1 DEF SendFails
    <3> QED
      BY <1>13, <3>1, <3>2 DEF SendQuit
  <2>3. TypeOK'
    BY <1>13, <2>1, <2>2 DEF SendQuit
  <2>4. Notifying' /\ Mailing'
    BY <1>13, <2>1 DEF SendQuit, SendFails, EndJob
  <2>5. Feed' /\ ClaimIsBacked'
    BY <1>13, <2>1, SMTT(30) DEF SendQuit, SendFails, EndJob
  <2> QED
    BY <2>3, <2>4, <2>5
<1>14. ASSUME NEW a \in Alert, ReleaseFailed(a) PROVE AlertInv'
  <2>1. /\ by[a] \in Console /\ job[a] = "release" /\ faults' \in 0 .. MaxFaults
        /\ UNCHANGED <<metric, rule, edit, status, ruleOf, mails, smtp, evalVars>>
    BY <1>14 DEF ReleaseFailed, Fault
  <2>2. notified' \in [Alert -> BOOLEAN]
    BY <1>14, ReleasedIs DEF ReleaseFailed
  <2>3. PICK how \in {"failed", "lost"} : EndJob(a, how) /\
          \A b \in Alert : notified'[b] => notified[b] /\ (b = a /\ how = "failed" => ~IsOpen(b))
    BY <1>14, ReleasedIs DEF ReleaseFailed
  <2>4. TypeOK' /\ Notifying' /\ Mailing' /\ Feed'
    BY <2>1, <2>2, <2>3 DEF EndJob
  <2>5. ClaimIsBacked'
    BY <2>1, <2>3 DEF EndJob
  <2> QED
    BY <2>4, <2>5
<1>15. ASSUME NEW a \in Alert, AcknowledgeAlert(a) PROVE AlertInv'
  BY <1>15 DEF AcknowledgeAlert
<1>16. ASSUME NEW r \in Rule, MetricMoves(r) PROVE AlertInv'
  BY <1>16 DEF MetricMoves
<1>17. ASSUME NEW r \in Rule, CreateRule(r) PROVE AlertInv'
  BY <1>17 DEF CreateRule
<1>18. ASSUME NEW r \in Rule, DeleteAlertRule(r) PROVE AlertInv'
  BY <1>18 DEF DeleteAlertRule, Delete
<1>19. ASSUME NEW e \in Editor, UpdateAlertRule(e) PROVE AlertInv'
  BY <1>19 DEF UpdateAlertRule
<1>20. ASSUME NEW e \in Editor, NEW r \in Rule, UpdateRule(e, r) PROVE AlertInv'
  BY <1>20 DEF UpdateRule
<1>21. CASE DeleteClosedAlerts
  BY <1>21 DEF DeleteClosedAlerts, Delete
<1>22. CASE UNCHANGED vars
  BY <1>22 DEF vars
<1> HIDE DEF AlertInv
<1> QED
  BY <1>1, <1>2, <1>3, <1>4, <1>5, <1>6, <1>7, <1>8, <1>9, <1>10, <1>11, <1>12, <1>13, <1>14,
     <1>15, <1>16, <1>17, <1>18, <1>19, <1>20, <1>21, <1>22 DEF Next, EvalStep, MailStep

LEMMA AlertStart == Init => AlertInv
  BY AlertConstants
  DEF Init, AlertInv, TypeOK, Over, Notifying, Mailing, Feed, IsOpen, ClaimIsBacked

(* What the feed and the mail promise follows: at most one open alert of a   *)
(* rule is at most one by cardinality.                                       *)
LEMMA FeedIsSingle == AlertInv => OneOpenPerRule /\ EmailedAtMostOnce
<1> SUFFICES ASSUME AlertInv PROVE OneOpenPerRule /\ EmailedAtMostOnce
  OBVIOUS
<1>1. ASSUME NEW r \in Rule PROVE Cardinality(Open(r)) <= 1
  <2>1. CASE Open(r) = {}
    BY <2>1, FS_EmptySet
  <2>2. CASE \E a \in Alert : Open(r) = {a}
    BY <2>2, FS_Singleton
  <2>3. \A a, b \in Open(r) : a = b
    BY DEF AlertInv, Feed, Open
  <2> QED
    BY <2>1, <2>2, <2>3 DEF Open
<1>2. \A r \in Rule : rule[r] = "gone" => Open(r) = {}
  BY DEF AlertInv, Feed, Open
<1> QED
  BY <1>1, <1>2 DEF AlertInv, Mailing, EmailedAtMostOnce, OneOpenPerRule

(* However many consoles evaluate the rules, whatever fails, and whoever     *)
(* edits the rules meanwhile: a rule has at most one open alert, an alert is *)
(* mailed at most once, and a claim on an open alert is backed               *)
(* (UpsertOpenAlert, ClaimAlertEmailNotify, ReleaseAlertEmailNotify,         *)
(* sendAlertEmail).                                                          *)
THEOREM FeedSafe ==
  Spec => [](TypeOK /\ OneOpenPerRule /\ EmailedAtMostOnce /\ ClaimIsBacked)
<1>1. AlertInv => TypeOK /\ ClaimIsBacked
  BY DEF AlertInv
<1> QED
  BY <1>1, AlertStart, AlertStep, FeedIsSingle, PTL DEF Spec

----------------------------------------------------------------------------
(* The day of a time, and the first time after a day.                        *)
LEMMA TimesOfDay ==
  ASSUME NEW t \in Nat
  PROVE  Day(t) \in Nat /\ Upper(Day(t)) \in Nat /\ t < Upper(Day(t)) /\ Day(t) * DayLen <= t
<1>1. Day(t) \in Nat
  BY StoreConstants DEF Day
<1>2. t < Upper(Day(t))
  BY StoreConstants DEF Day, Upper
<1>3. Upper(Day(t)) \in Nat
  BY <1>1, StoreConstants DEF Upper
<1>4. Day(t) * DayLen <= t
  BY StoreConstants DEF Day
<1> QED
  BY <1>1, <1>2, <1>3, <1>4

LEMMA DaysInOrder ==
  ASSUME NEW t \in Nat, NEW u \in Nat, t <= u
  PROVE  Day(t) <= Day(u)
<1> SUFFICES ASSUME Day(u) < Day(t)
             PROVE  FALSE
  BY TimesOfDay
<1>1. Upper(Day(u)) <= Day(t) * DayLen
  <2>1. ASSUME NEW d \in Nat, NEW e \in Nat, d < e
        PROVE  (d + 1) * DayLen <= e * DayLen
    BY <2>1, StoreConstants
  <2> QED
    BY <2>1, TimesOfDay DEF Upper
<1>2. Day(t) * DayLen \in Nat
  BY TimesOfDay, StoreConstants
<1> QED
  BY <1>1, <1>2, TimesOfDay

LEMMA DayHasPlace ==
  ASSUME NEW t \in Nat, t <= LastTick
  PROVE  Day(t) \in Days /\ 0 .. Day(t) + Forward \subseteq Days
<1>1. Day(t) <= Day(LastTick) /\ Day(t) \in Nat /\ Day(LastTick) \in Nat
  BY DaysInOrder, TimesOfDay, StoreConstants
<1> QED
  BY <1>1, StoreConstants DEF Days

(* The records of the tasks, and the types of what they work on.             *)
ScrapeRow ==
  [pc : {"idle", "ensureIncidents", "incidents", "routes", "ensureMetrics", "metrics"},
   at : Nat, nodes : SUBSET Node, why : SUBSET Node]
CleanupRow == [pc : {"metrics", "incidents"}, cutoff : Nat]

StoreShapes ==
  /\ now \in Start .. LastTick
  /\ partitions \in [Parent -> SUBSET Days]
  /\ samples \in [Parent -> SUBSET Nat]
  /\ taken \in [Parent -> SUBSET Nat]
  /\ ensured \in [Replica -> SUBSET (Parent \X Days)]
  /\ lastRoutes \in [Replica -> {NoRoutes} \cup SUBSET Node]
  /\ routes \in SUBSET Node
  /\ stirred \in [Replica -> SUBSET Node]
  /\ scrape \in [Replica -> {SsIdle} \cup ScrapeRow]
  /\ cleanup \in [Replica -> {SsIdle} \cup CleanupRow]

(* Rows are in partitions.                                                   *)
RowsStored ==
  \A p \in Parent : samples[p] \subseteq taken[p] /\ \A t \in samples[p] : Day(t) \in partitions[p]

(* No task is of the future, and a cleanup leaves what the retention keeps.  *)
Timely ==
  \A r \in Replica :
    /\ scrape[r].pc # "idle" => scrape[r].at <= now
    /\ cleanup[r].pc # "idle" => Retention > 0 /\ cleanup[r].cutoff + Retention <= now

(* As old as the retention.                                                  *)
Expired(t) == Retention > 0 /\ t + Retention <= now

(* A partition a console remembers exists, unless all of its day expired.    *)
PartitionLasts ==
  \A r \in Replica : \A p \in Parent : \A d \in Days :
    <<p, d>> \in ensured[r] => d \in partitions[p] \/ Expired(Upper(d))

(* A scrape that is about to insert rows has its partition remembered.       *)
InsertIsEnsured ==
  \A r \in Replica : \A p \in Parent :
    scrape[r].pc = p => <<p, Day(scrape[r].at)>> \in ensured[r]

(* The inductive invariant of the store.                                     *)
StoreInv ==
  StoreShapes /\ RowsStored /\ Timely /\ PartitionLasts /\ InsertIsEnsured /\ SamplesKept

(* What a console will compare with its next reading differs from the routes *)
(* only in stirred nodes, and what it is about to compare only in the nodes  *)
(* that explain it.                                                          *)
Differ(A, B) == (A \ B) \cup (B \ A)
RoutesExplained ==
  \A r \in Replica :
    IF scrape[r].pc \in {"ensureIncidents", "incidents", "routes"}
    THEN /\ Differ(scrape[r].nodes, routes) \subseteq stirred[r]
         /\ lastRoutes[r] # NoRoutes => Differ(lastRoutes[r], scrape[r].nodes) \subseteq scrape[r].why
    ELSE lastRoutes[r] # NoRoutes => Differ(lastRoutes[r], routes) \subseteq stirred[r]

(* A scrape that goes on changes its pc, and nothing else of it.             *)
ScrapePc == {"idle", "ensureIncidents", "incidents", "routes", "ensureMetrics", "metrics"}
LEMMA ScrapeGoesOn ==
  ASSUME StoreShapes, NEW r \in Replica, scrape[r].pc # "idle", NEW l \in ScrapePc,
         Scraping(r, l)
  PROVE  /\ scrape[r] \in ScrapeRow
         /\ scrape' \in [Replica -> {SsIdle} \cup ScrapeRow]
         /\ scrape'[r] = [scrape[r] EXCEPT !.pc = l]
         /\ scrape'[r].pc = l /\ scrape'[r].at = scrape[r].at
         /\ scrape'[r].nodes = scrape[r].nodes /\ scrape'[r].why = scrape[r].why
         /\ \A q \in Replica \ {r} : scrape'[q] = scrape[q]
<1>1. scrape[r] \in ScrapeRow
  BY DEF StoreShapes, SsIdle
<1>2. [scrape[r] EXCEPT !.pc = l] \in ScrapeRow
  BY <1>1 DEF ScrapeRow, ScrapePc
<1>3. scrape'[r] = [scrape[r] EXCEPT !.pc = l] /\ \A q \in Replica \ {r} : scrape'[q] = scrape[q]
  BY DEF Scraping, StoreShapes
<1>4. scrape' \in [Replica -> {SsIdle} \cup ScrapeRow]
  BY <1>2 DEF Scraping, StoreShapes
<1> QED
  BY <1>1, <1>3, <1>4 DEF ScrapeRow

(* A partition that lasts is there for a row that is not expired.            *)
LEMMA RowFindsPartition ==
  ASSUME StoreInv, NEW r \in Replica, NEW p \in Parent, scrape[r].pc = p, ~Expired(scrape[r].at)
  PROVE  Day(scrape[r].at) \in partitions[p]
<1>1. scrape[r] \in ScrapeRow /\ scrape[r].at \in Nat /\ scrape[r].at <= now /\ now <= LastTick /\ now \in Nat
  BY StoreConstants DEF StoreInv, StoreShapes, Timely, Parent, ScrapeRow, SsIdle
<1>2. Day(scrape[r].at) \in Days
  BY <1>1, DayHasPlace, StoreConstants
<1>3. <<p, Day(scrape[r].at)>> \in ensured[r]
  BY DEF StoreInv, InsertIsEnsured
<1>4. ~Expired(Upper(Day(scrape[r].at)))
  BY <1>1, TimesOfDay, StoreConstants DEF Expired
<1> QED
  BY <1>2, <1>3, <1>4 DEF StoreInv, PartitionLasts

LEMMA StoreStep == ASSUME StoreInv, [SsNext]_ssVars PROVE StoreInv'
<1> USE StoreConstants
<1>0. /\ now \in Nat /\ Retention <= now /\ now - Retention \in Nat /\ now <= LastTick
      /\ Day(now) \in Days
  BY DayHasPlace DEF StoreInv, StoreShapes
<1>1. ASSUME NEW r \in Replica, CollectClusterSnapshot(r)
      PROVE  StoreInv'
  <2>1. PICK topology \in BOOLEAN, routez \in BOOLEAN :
          /\ scrape' = [scrape EXCEPT ![r] =
               [pc |-> IF topology THEN "ensureIncidents" ELSE "routes", at |-> now,
                nodes |-> IF routez THEN routes ELSE {},
                why |-> IF routez THEN stirred[r] ELSE Node]]
          /\ stirred' = [stirred EXCEPT ![r] = IF routez THEN {} ELSE Node]
    BY <1>1 DEF CollectClusterSnapshot
  <2>2. [pc |-> IF topology THEN "ensureIncidents" ELSE "routes", at |-> now,
         nodes |-> IF routez THEN routes ELSE {},
         why |-> IF routez THEN stirred[r] ELSE Node] \in ScrapeRow
    BY <1>0 DEF ScrapeRow, StoreInv, StoreShapes
  <2>3. scrape' \in [Replica -> {SsIdle} \cup ScrapeRow] /\ stirred' \in [Replica -> SUBSET Node]
    BY <2>1, <2>2 DEF StoreInv, StoreShapes
  <2>4. UNCHANGED <<now, storeVars, ensured, lastRoutes, events, routes, cleanup>>
    BY <1>1 DEF CollectClusterSnapshot
  <2>5. StoreShapes' /\ RowsStored' /\ PartitionLasts' /\ SamplesKept'
    BY <2>3, <2>4
    DEF StoreInv, StoreShapes, RowsStored, PartitionLasts, SamplesKept, storeVars, Expired
  <2>6. /\ scrape'[r].pc \notin Parent \cup {"idle"} /\ scrape'[r].at = now
        /\ \A q \in Replica \ {r} : scrape'[q] = scrape[q]
    BY <2>1 DEF StoreInv, StoreShapes, Parent
  <2>7. Timely'
    BY <1>0, <2>4, <2>6 DEF StoreInv, Timely
  <2>8. InsertIsEnsured'
    BY <2>4, <2>6 DEF StoreInv, InsertIsEnsured
  <2> QED
    BY <2>5, <2>7, <2>8 DEF StoreInv
<1>2. ASSUME NEW r \in Replica, NEW p \in Parent, NEW from \in ScrapePc \ {"idle"},
             NEW otherwise \in ScrapePc \ Parent, EnsureForInsert(r, p, from, p, otherwise)
      PROVE  StoreInv'
  <2> DEFINE d == Day(scrape[r].at)
  <2>0. scrape[r].pc # "idle" /\ p \in ScrapePc /\ UNCHANGED <<now, samples, taken, nodeVars, cleanup>>
    BY <1>2 DEF EnsureForInsert, Parent, ScrapePc
  <2>1. scrape[r] \in ScrapeRow /\ scrape[r].at \in Nat /\ scrape[r].at <= now
    BY <2>0 DEF StoreInv, StoreShapes, Timely, ScrapeRow, SsIdle
  <2>2. d \in Days
    BY <2>1, <1>0, DayHasPlace
  <2> HIDE DEF d
  <2>3. CASE EnsureDayPartition(r, p, d) /\ Scraping(r, p)
    <3>1. /\ scrape' \in [Replica -> {SsIdle} \cup ScrapeRow]
          /\ scrape'[r].pc = p /\ scrape'[r].at = scrape[r].at
          /\ \A q \in Replica \ {r} : scrape'[q] = scrape[q]
      BY <2>0, <2>3, ScrapeGoesOn DEF StoreInv
    <3>2. /\ partitions' \in [Parent -> SUBSET Days]
          /\ \A q \in Parent : partitions[q] \subseteq partitions'[q]
          /\ <<p, d>> \in ensured[r] \/ d \in partitions'[p]
      BY <2>2, <2>3 DEF EnsureDayPartition, StoreInv, StoreShapes
    <3>3. /\ ensured' \in [Replica -> SUBSET (Parent \X Days)]
          /\ ensured'[r] = ensured[r] \cup {<<p, d>>}
          /\ \A q \in Replica \ {r} : ensured'[q] = ensured[q]
      BY <2>2, <2>3 DEF EnsureDayPartition, StoreInv, StoreShapes
    <3>4. StoreShapes'
      BY <2>0, <3>1, <3>2, <3>3 DEF StoreInv, StoreShapes, nodeVars
    <3>5. RowsStored' /\ SamplesKept'
      BY <2>0, <3>2 DEF StoreInv, RowsStored, SamplesKept
    <3>6. Timely'
      BY <2>0, <3>1, <2>1 DEF StoreInv, Timely
    <3>7. PartitionLasts'
      <4>1. \A q \in Parent, e \in Days :
              <<q, e>> \in ensured'[r] => <<q, e>> \in ensured[r] \/ e \in partitions'[q]
        BY <3>2, <3>3
      <4>2. \A e : Expired(e)' = Expired(e)
        BY <2>0 DEF Expired
      <4> QED
        BY <4>1, <4>2, <3>2, <3>3 DEF StoreInv, PartitionLasts
    <3>8. InsertIsEnsured'
      BY <3>1, <3>3 DEF StoreInv, InsertIsEnsured, d
    <3> QED
      BY <3>4, <3>5, <3>6, <3>7, <3>8 DEF StoreInv
  <2>4. CASE Scraping(r, otherwise) /\ UNCHANGED <<partitions, ensured>>
    <3>1. /\ scrape' \in [Replica -> {SsIdle} \cup ScrapeRow]
          /\ scrape'[r].pc = otherwise /\ scrape'[r].at = scrape[r].at
          /\ \A q \in Replica \ {r} : scrape'[q] = scrape[q]
      BY <2>0, <2>4, ScrapeGoesOn DEF StoreInv
    <3>2. StoreShapes' /\ RowsStored' /\ SamplesKept' /\ PartitionLasts'
      BY <2>0, <2>4, <3>1
      DEF StoreInv, StoreShapes, RowsStored, SamplesKept, PartitionLasts, Expired, nodeVars
    <3>3. Timely' /\ InsertIsEnsured'
      BY <2>0, <2>1, <2>4, <3>1 DEF StoreInv, Timely, InsertIsEnsured
    <3> QED
      BY <3>2, <3>3 DEF StoreInv
  <2> QED
    BY <1>2, <2>3, <2>4 DEF EnsureForInsert, d
<1>3. ASSUME NEW r \in Replica, NEW p \in Parent, NEW to \in ScrapePc \ Parent, InsertRows(r, p, p, to)
      PROVE  StoreInv'
  <2> DEFINE t == scrape[r].at
  <2>0. /\ scrape[r].pc = p /\ p # "idle" /\ Scraping(r, to)
        /\ UNCHANGED <<now, partitions, ensured, nodeVars, cleanup>>
    BY <1>3 DEF InsertRows, Parent
  <2>1. scrape[r] \in ScrapeRow /\ t \in Nat /\ t <= now
    BY <2>0 DEF StoreInv, StoreShapes, Timely, ScrapeRow, SsIdle
  <2>2. /\ scrape' \in [Replica -> {SsIdle} \cup ScrapeRow]
        /\ scrape'[r].pc = to /\ scrape'[r].at = t
        /\ \A q \in Replica \ {r} : scrape'[q] = scrape[q]
    BY <2>0, ScrapeGoesOn DEF StoreInv
  <2>3. ~Expired(t) => Day(t) \in partitions[p]
    BY <2>0, RowFindsPartition
  <2> HIDE DEF t
  <2>4. Timely' /\ InsertIsEnsured' /\ PartitionLasts'
    BY <2>0, <2>1, <2>2 DEF StoreInv, Timely, InsertIsEnsured, PartitionLasts, Expired
  <2>5. CASE /\ samples' = [samples EXCEPT ![p] = IF Day(t) \in partitions[p] THEN @ \cup {t} ELSE @]
             /\ taken' = [taken EXCEPT ![p] = @ \cup {t}]
    <3>1. StoreShapes'
      BY <2>0, <2>1, <2>2, <2>5 DEF StoreInv, StoreShapes, nodeVars
    <3>2. /\ samples'[p] = IF Day(t) \in partitions[p] THEN samples[p] \cup {t} ELSE samples[p]
          /\ taken'[p] = taken[p] \cup {t}
          /\ \A q \in Parent \ {p} : samples'[q] = samples[q] /\ taken'[q] = taken[q]
      BY <2>5 DEF StoreInv, StoreShapes
    <3>3. RowsStored'
      BY <2>0, <3>2 DEF StoreInv, RowsStored
    <3>4. Retention = 0 \/ now < t + Retention => t \in samples'[p]
      BY <2>1, <2>3, <3>2, <1>0 DEF Expired
    <3>5. SamplesKept'
      BY <2>0, <3>2, <3>4 DEF StoreInv, SamplesKept
    <3> QED
      BY <2>4, <3>1, <3>3, <3>5 DEF StoreInv
  <2>6. CASE UNCHANGED <<samples, taken>>
    BY <2>0, <2>2, <2>4, <2>6 DEF StoreInv, StoreShapes, RowsStored, SamplesKept, nodeVars
  <2> QED
    BY <1>3, <2>5, <2>6 DEF InsertRows, t
<1>4. ASSUME NEW r \in Replica, PersistRouteTransitions(r)
      PROVE  StoreInv'
  <2>1. /\ scrape[r].pc = "routes" /\ Scraping(r, "ensureMetrics")
        /\ lastRoutes' = [lastRoutes EXCEPT ![r] = scrape[r].nodes]
        /\ UNCHANGED <<now, storeVars, ensured, routes, stirred, cleanup>>
    BY <1>4 DEF PersistRouteTransitions
  <2>2. /\ scrape[r] \in ScrapeRow
        /\ scrape' \in [Replica -> {SsIdle} \cup ScrapeRow]
        /\ scrape'[r].pc = "ensureMetrics" /\ scrape'[r].at = scrape[r].at
        /\ \A q \in Replica \ {r} : scrape'[q] = scrape[q]
    BY <2>1, ScrapeGoesOn DEF StoreInv, ScrapePc
  <2>3. lastRoutes' \in [Replica -> {NoRoutes} \cup SUBSET Node]
    BY <2>1, <2>2 DEF StoreInv, StoreShapes, ScrapeRow
  <2>4. StoreShapes' /\ RowsStored' /\ SamplesKept' /\ PartitionLasts'
    BY <2>1, <2>2, <2>3
    DEF StoreInv, StoreShapes, RowsStored, SamplesKept, PartitionLasts, Expired, storeVars
  <2>5. Timely' /\ InsertIsEnsured'
    BY <2>1, <2>2 DEF StoreInv, Timely, InsertIsEnsured, Parent
  <2> QED
    BY <2>4, <2>5 DEF StoreInv
<1>5. ASSUME NEW r \in Replica, EnsureSamplePartitions(r)
      PROVE  StoreInv'
  <2> DEFINE Wanted(u) == Parent \X (Day(now - Retention) .. u)
  <2>1. PICK upto \in Days \cup {Day(now) + Forward} :
          /\ upto <= Day(now) + Forward
          /\ partitions' = [p \in Parent |->
               partitions[p] \cup {d \in Days : <<p, d>> \in Wanted(upto) \ ensured[r]}]
          /\ ensured' = [ensured EXCEPT ![r] = @ \cup Wanted(upto)]
    BY <1>5 DEF EnsureSamplePartitions
  <2> DEFINE wanted == Wanted(upto)
  <2>2. /\ cleanup[r].pc = "idle" /\ Retention > 0
        /\ cleanup' = [cleanup EXCEPT ![r] = [pc |-> "metrics", cutoff |-> now - Retention]]
        /\ UNCHANGED <<now, samples, taken, nodeVars, scrape>>
    BY <1>5 DEF EnsureSamplePartitions
  <2>3. wanted \subseteq Parent \X Days
    <3>1. /\ Day(now - Retention) \in Nat /\ Day(now) \in Nat
          /\ upto \in Nat /\ upto <= Day(now) + Forward
      BY <1>0, <2>1, TimesOfDay DEF Days
    <3>2. \A d \in Day(now - Retention) .. upto : d \in 0 .. Day(now) + Forward
      BY <3>1
    <3>3. \A d \in Day(now - Retention) .. upto : d \in Days
      BY <1>0, <3>2, DayHasPlace
    <3> QED
      BY <3>3
  <2>4. partitions' = [p \in Parent |-> partitions[p] \cup {d \in Days : <<p, d>> \in wanted \ ensured[r]}]
          /\ ensured' = [ensured EXCEPT ![r] = @ \cup wanted]
    BY <2>1
  <2> HIDE DEF wanted
  <2>5. /\ partitions' \in [Parent -> SUBSET Days]
        /\ \A p \in Parent : partitions[p] \subseteq partitions'[p]
        /\ \A p \in Parent, d \in Days : <<p, d>> \in wanted => <<p, d>> \in ensured[r] \/ d \in partitions'[p]
    BY <2>4 DEF StoreInv, StoreShapes
  <2>6. /\ ensured' \in [Replica -> SUBSET (Parent \X Days)]
        /\ ensured'[r] = ensured[r] \cup wanted
        /\ \A q \in Replica \ {r} : ensured'[q] = ensured[q]
    BY <2>3, <2>4 DEF StoreInv, StoreShapes
  <2>7. [pc |-> "metrics", cutoff |-> now - Retention] \in CleanupRow
    BY <1>0 DEF CleanupRow
  <2>8. /\ cleanup' \in [Replica -> {SsIdle} \cup CleanupRow]
        /\ cleanup'[r].cutoff = now - Retention
        /\ \A q \in Replica \ {r} : cleanup'[q] = cleanup[q]
    BY <2>2, <2>7 DEF StoreInv, StoreShapes
  <2>9. StoreShapes'
    BY <2>2, <2>5, <2>6, <2>8 DEF StoreInv, StoreShapes, nodeVars
  <2>10. RowsStored' /\ SamplesKept'
    BY <2>2, <2>5 DEF StoreInv, RowsStored, SamplesKept
  <2>11. Timely'
    BY <1>0, <2>2, <2>8 DEF StoreInv, Timely
  <2>12. PartitionLasts'
    <3>1. \A e : Expired(e)' = Expired(e)
      BY <2>2 DEF Expired
    <3> QED
      BY <3>1, <2>5, <2>6 DEF StoreInv, PartitionLasts
  <2>13. InsertIsEnsured'
    BY <2>2, <2>6 DEF StoreInv, InsertIsEnsured
  <2> QED
    BY <2>9, <2>10, <2>11, <2>12, <2>13 DEF StoreInv
<1>6. ASSUME NEW r \in Replica, cleanup[r].pc # "idle", NEW p \in Parent,
             NEW gone \in SUBSET {d \in partitions[p] : Outdated(d, cleanup[r].cutoff)},
             DropPartitions(p, gone), cleanup' \in [Replica -> {SsIdle} \cup CleanupRow],
             \A q \in Replica : cleanup'[q].pc # "idle" =>
                                  cleanup[q].pc # "idle" /\ cleanup'[q].cutoff = cleanup[q].cutoff,
             UNCHANGED <<now, taken, ensured, lastRoutes, routes, stirred, scrape>>
      PROVE  StoreInv'
  <2>1. /\ partitions' = [partitions EXCEPT ![p] = @ \ gone]
        /\ samples' = [samples EXCEPT ![p] = {t \in @ : Day(t) \notin gone}]
    BY <1>6 DEF DropPartitions
  <2>2. StoreShapes'
    BY <1>6, <2>1 DEF StoreInv, StoreShapes
  <2>3. /\ partitions'[p] = partitions[p] \ gone /\ samples'[p] = {t \in samples[p] : Day(t) \notin gone}
        /\ \A q \in Parent \ {p} : partitions'[q] = partitions[q] /\ samples'[q] = samples[q]
    BY <2>1 DEF StoreInv, StoreShapes
  <2>4. RowsStored'
    BY <1>6, <2>3 DEF StoreInv, RowsStored
  <2>5. Timely' /\ InsertIsEnsured'
    BY <1>6 DEF StoreInv, Timely, InsertIsEnsured
  <2>6. Retention > 0 /\ cleanup[r].cutoff \in Nat /\ cleanup[r].cutoff + Retention <= now
    BY <1>6 DEF StoreInv, StoreShapes, Timely, CleanupRow, SsIdle
  <2>7. \A d \in gone : d \in Nat /\ Upper(d) \in Nat /\ Expired(Upper(d))
    <3> SUFFICES ASSUME NEW d \in gone PROVE d \in Nat /\ Upper(d) \in Nat /\ Expired(Upper(d))
      OBVIOUS
    <3>1. d \in Days /\ Upper(d) <= cleanup[r].cutoff
      BY DEF StoreInv, StoreShapes, Outdated
    <3>2. d \in Nat
      BY <3>1 DEF Days
    <3>3. Upper(d) \in Nat
      BY <3>2 DEF Upper
    <3> QED
      BY <1>0, <2>6, <3>1, <3>2, <3>3 DEF Expired
  <2>8. PartitionLasts'
    <3>1. \A e : Expired(e)' = Expired(e)
      BY <1>6 DEF Expired
    <3> QED
      BY <1>6, <2>3, <2>7, <3>1 DEF StoreInv, PartitionLasts
  <2>9. SamplesKept'
    <3>1. ASSUME NEW t \in taken[p], Retention = 0 \/ now < t + Retention, Day(t) \in gone
          PROVE  FALSE
      <4>1. t \in Nat
        BY DEF StoreInv, StoreShapes
      <4> QED
        BY <1>0, <2>7, <3>1, <4>1, TimesOfDay DEF Expired
    <3> QED
      BY <1>6, <2>3, <3>1 DEF StoreInv, SamplesKept
  <2> QED
    BY <2>2, <2>4, <2>5, <2>8, <2>9 DEF StoreInv
<1>7. ASSUME NEW r \in Replica, cleanup[r].pc # "idle"
      PROVE  LET on   == [cleanup EXCEPT ![r].pc = "incidents"]
                 over == [cleanup EXCEPT ![r] = SsIdle]
             IN  \A c \in {on, over} :
                   /\ c \in [Replica -> {SsIdle} \cup CleanupRow]
                   /\ \A q \in Replica : c[q].pc # "idle" =>
                                           cleanup[q].pc # "idle" /\ c[q].cutoff = cleanup[q].cutoff
  <2>1. cleanup \in [Replica -> {SsIdle} \cup CleanupRow] /\ cleanup[r] \in CleanupRow
    BY <1>7 DEF StoreInv, StoreShapes, SsIdle
  <2>2. [cleanup[r] EXCEPT !.pc = "incidents"] \in CleanupRow
    BY <2>1 DEF CleanupRow
  <2>3. [cleanup[r] EXCEPT !.pc = "incidents"].cutoff = cleanup[r].cutoff
    BY <2>1 DEF CleanupRow
  <2>4. SsIdle.pc = "idle"
    BY DEF SsIdle
  <2> QED
    BY <1>7, <2>1, <2>2, <2>3, <2>4
<1>8. ASSUME NEW r \in Replica, DeleteMetricSamples(r)
      PROVE  StoreInv'
  <2>1. cleanup[r].pc # "idle"
    BY <1>8 DEF DeleteMetricSamples
  <2>2. PICK gone \in SUBSET {d \in partitions["metrics"] : Outdated(d, cleanup[r].cutoff)} :
          DropPartitions("metrics", gone)
    BY <1>8 DEF DeleteMetricSamples
  <2>3. cleanup' \in {[cleanup EXCEPT ![r].pc = "incidents"], [cleanup EXCEPT ![r] = SsIdle]}
          /\ UNCHANGED <<now, taken, ensured, lastRoutes, routes, stirred, scrape>>
    BY <1>8 DEF DeleteMetricSamples, nodeVars
  <2> QED
    BY <1>6, <1>7, <2>1, <2>2, <2>3, ZenonT(60) DEF Parent
<1>9. ASSUME NEW r \in Replica, DeleteIncidentData(r)
      PROVE  StoreInv'
  <2>1. cleanup[r].pc # "idle"
    BY <1>9 DEF DeleteIncidentData
  <2>2. PICK gone \in SUBSET {d \in partitions["incidents"] : Outdated(d, cleanup[r].cutoff)} :
          DropPartitions("incidents", gone)
    BY <1>9 DEF DeleteIncidentData
  <2>3. cleanup' = [cleanup EXCEPT ![r] = SsIdle]
          /\ UNCHANGED <<now, taken, ensured, lastRoutes, routes, stirred, scrape>>
    BY <1>9 DEF DeleteIncidentData
  <2> QED
    BY <1>6, <1>7, <2>1, <2>2, <2>3 DEF Parent
<1>10. ASSUME NEW r \in Replica, RestartConsole(r)
       PROVE  StoreInv'
  <2>1. UNCHANGED <<now, storeVars, routes>>
    BY <1>10 DEF RestartConsole
  <2>2. StoreShapes'
    BY <1>10 DEF RestartConsole, StoreInv, StoreShapes, storeVars
  <2>3. /\ scrape'[r].pc = "idle" /\ cleanup'[r].pc = "idle" /\ ensured'[r] = {}
        /\ \A q \in Replica \ {r} :
             scrape'[q] = scrape[q] /\ cleanup'[q] = cleanup[q] /\ ensured'[q] = ensured[q]
    BY <1>10 DEF RestartConsole, StoreInv, StoreShapes, SsIdle
  <2>4. RowsStored' /\ SamplesKept'
    BY <2>1 DEF StoreInv, RowsStored, SamplesKept, storeVars
  <2>5. Timely' /\ InsertIsEnsured' /\ PartitionLasts'
    BY <2>1, <2>3 DEF StoreInv, Timely, InsertIsEnsured, PartitionLasts, Expired, storeVars, Parent
  <2> QED
    BY <2>2, <2>4, <2>5 DEF StoreInv
<1>11. ASSUME NEW n \in Node, NodeMoves(n)
       PROVE  StoreInv'
  BY <1>11
  DEF NodeMoves, StoreInv, StoreShapes, RowsStored, Timely, PartitionLasts, InsertIsEnsured,
      SamplesKept, Expired, storeVars
<1>12. CASE Tick
  <2>1. /\ now' \in Start .. LastTick /\ now' = now + 1
        /\ UNCHANGED <<storeVars, ensured, nodeVars, scrape, cleanup>>
    BY <1>12, <1>0 DEF Tick, StoreInv, StoreShapes
  <2>2. StoreShapes' /\ RowsStored' /\ InsertIsEnsured'
    BY <2>1 DEF StoreInv, StoreShapes, RowsStored, InsertIsEnsured, storeVars, nodeVars
  <2>3. Timely'
    BY <1>0, <2>1 DEF StoreInv, StoreShapes, Timely, ScrapeRow, CleanupRow, SsIdle
  <2>4. PartitionLasts'
    <3>1. \A d \in Days : Expired(Upper(d)) => Expired(Upper(d))'
      <4>1. \A d \in Days : Upper(d) \in Nat
        BY DEF Days, Upper
      <4> QED
        BY <1>0, <2>1, <4>1 DEF Expired
    <3> QED
      BY <2>1, <3>1 DEF StoreInv, PartitionLasts, storeVars
  <2>5. SamplesKept'
    BY <1>0, <2>1 DEF StoreInv, StoreShapes, SamplesKept, storeVars
  <2> QED
    BY <2>2, <2>3, <2>4, <2>5 DEF StoreInv
<1>13. CASE UNCHANGED ssVars
  BY <1>13
  DEF ssVars, StoreInv, StoreShapes, RowsStored, Timely, PartitionLasts, InsertIsEnsured,
      SamplesKept, Expired, storeVars, nodeVars
<1>14. ASSUME NEW r \in Replica, InsertIncidentConsumerSamples(r) \/ InsertMetricSamples(r)
       PROVE  StoreInv'
  BY <1>2, <1>3, <1>14 DEF InsertIncidentConsumerSamples, InsertMetricSamples, Parent, ScrapePc
<1> QED
  BY <1>1, <1>4, <1>5, <1>8, <1>9, <1>10, <1>11, <1>12, <1>13, <1>14 DEF SsNext

(* Each step keeps the nodes explained: only CollectClusterSnapshot forgets  *)
(* the stirred nodes, and it hands them to the comparison.                   *)
LEMMA RoutesStep ==
  ASSUME StoreShapes, RoutesExplained, NoFalseStorm, [SsNext]_ssVars
  PROVE  RoutesExplained' /\ NoFalseStorm'
<1>1. ASSUME NEW r \in Replica, CollectClusterSnapshot(r)
      PROVE  RoutesExplained' /\ NoFalseStorm'
  <2>1. PICK topology \in BOOLEAN, routez \in BOOLEAN :
          /\ scrape' = [scrape EXCEPT ![r] =
               [pc |-> IF topology THEN "ensureIncidents" ELSE "routes", at |-> now,
                nodes |-> IF routez THEN routes ELSE {},
                why |-> IF routez THEN stirred[r] ELSE Node]]
          /\ stirred' = [stirred EXCEPT ![r] = IF routez THEN {} ELSE Node]
    BY <1>1 DEF CollectClusterSnapshot
  <2>2. scrape[r].pc = "idle" /\ UNCHANGED <<lastRoutes, events, routes>>
    BY <1>1 DEF CollectClusterSnapshot
  <2>3. /\ scrape'[r].pc \in {"ensureIncidents", "routes"}
        /\ scrape'[r].nodes = IF routez THEN routes ELSE {}
        /\ scrape'[r].why = IF routez THEN stirred[r] ELSE Node
        /\ stirred'[r] = IF routez THEN {} ELSE Node
        /\ \A q \in Replica \ {r} : scrape'[q] = scrape[q] /\ stirred'[q] = stirred[q]
    BY <2>1 DEF StoreShapes
  <2>4. routes \subseteq Node /\ (lastRoutes[r] # NoRoutes => lastRoutes[r] \subseteq Node)
    BY DEF StoreShapes
  <2> QED
    BY <2>2, <2>3, <2>4 DEF RoutesExplained, NoFalseStorm, Differ
<1>2. ASSUME NEW r \in Replica, NEW from \in ScrapePc \ {"idle"}, NEW to \in ScrapePc,
             scrape[r].pc = from, Scraping(r, to), UNCHANGED nodeVars,
             from \in {"ensureIncidents", "incidents", "routes"} <=> to \in {"ensureIncidents", "incidents", "routes"}
      PROVE  RoutesExplained' /\ NoFalseStorm'
  <2>1. /\ scrape'[r].pc = to
        /\ scrape'[r].nodes = scrape[r].nodes /\ scrape'[r].why = scrape[r].why
        /\ \A q \in Replica \ {r} : scrape'[q] = scrape[q]
    BY <1>2, ScrapeGoesOn
  <2> QED
    BY <1>2, <2>1 DEF RoutesExplained, NoFalseStorm, nodeVars
<1>3. ASSUME NEW r \in Replica, InsertIncidentConsumerSamples(r) \/ InsertMetricSamples(r)
      PROVE  RoutesExplained' /\ NoFalseStorm'
  BY <1>2, <1>3
  DEF InsertIncidentConsumerSamples, InsertMetricSamples, EnsureForInsert, InsertRows, ScrapePc
<1>4. ASSUME NEW r \in Replica, PersistRouteTransitions(r)
      PROVE  RoutesExplained' /\ NoFalseStorm'
  <2> DEFINE found == DiffRouteNodes(Baseline(r), scrape[r].nodes, scrape[r].at, scrape[r].why)
  <2>1. /\ scrape[r].pc = "routes" /\ Scraping(r, "ensureMetrics")
        /\ lastRoutes' = [lastRoutes EXCEPT ![r] = scrape[r].nodes]
        /\ events' \subseteq events \cup found
        /\ UNCHANGED <<routes, stirred>>
    BY <1>4 DEF PersistRouteTransitions
  <2>2. /\ scrape'[r].pc = "ensureMetrics" /\ lastRoutes'[r] = scrape[r].nodes
        /\ \A q \in Replica \ {r} : scrape'[q] = scrape[q] /\ lastRoutes'[q] = lastRoutes[q]
    BY <2>1, ScrapeGoesOn DEF StoreShapes, ScrapePc
  <2>3. RoutesExplained'
    BY <2>1, <2>2 DEF RoutesExplained
  <2>4. Differ(Baseline(r), scrape[r].nodes) \subseteq scrape[r].why
    BY <2>1 DEF RoutesExplained, Baseline, Differ
  <2>5. \A e \in found : e.real
    <3> SUFFICES ASSUME NEW e \in found PROVE e.real
      OBVIOUS
    <3>1. PICK n \in Differ(Baseline(r), scrape[r].nodes), type \in {"disconnect", "reconnect"} :
            e = [at |-> scrape[r].at, node |-> n, type |-> type, real |-> n \in scrape[r].why]
      BY DEF DiffRouteNodes, Differ
    <3>2. n \in scrape[r].why
      BY <2>4, <3>1
    <3> QED
      BY <3>1, <3>2, Zenon
  <2> QED
    BY <2>1, <2>3, <2>5 DEF NoFalseStorm
<1>5. ASSUME NEW r \in Replica, EnsureSamplePartitions(r) \/ DeleteMetricSamples(r)
      PROVE  RoutesExplained' /\ NoFalseStorm'
  BY <1>5 DEF EnsureSamplePartitions, DeleteMetricSamples, RoutesExplained, NoFalseStorm, nodeVars
<1>6. ASSUME NEW r \in Replica, DeleteIncidentData(r)
      PROVE  RoutesExplained' /\ NoFalseStorm'
  <2>1. events' \subseteq events /\ UNCHANGED <<lastRoutes, routes, stirred, scrape>>
    BY <1>6 DEF DeleteIncidentData
  <2> QED
    BY <2>1 DEF RoutesExplained, NoFalseStorm
<1>7. ASSUME NEW r \in Replica, RestartConsole(r)
      PROVE  RoutesExplained' /\ NoFalseStorm'
  <2>1. /\ scrape'[r].pc = "idle" /\ lastRoutes'[r] = NoRoutes
        /\ \A q \in Replica \ {r} :
             scrape'[q] = scrape[q] /\ lastRoutes'[q] = lastRoutes[q] /\ stirred'[q] = stirred[q]
        /\ UNCHANGED <<events, routes>>
    BY <1>7 DEF RestartConsole, StoreShapes, SsIdle
  <2> QED
    BY <2>1 DEF RoutesExplained, NoFalseStorm
<1>8. ASSUME NEW n \in Node, NodeMoves(n)
      PROVE  RoutesExplained' /\ NoFalseStorm'
  <2>1. /\ \A A : Differ(A, routes') \subseteq Differ(A, routes) \cup {n}
        /\ \A r \in Replica : stirred'[r] = stirred[r] \cup {n}
        /\ UNCHANGED <<lastRoutes, events, scrape>>
    BY <1>8 DEF NodeMoves, Differ
  <2> QED
    BY <2>1 DEF RoutesExplained, NoFalseStorm
<1>9. CASE Tick \/ UNCHANGED ssVars
  BY <1>9 DEF Tick, ssVars, nodeVars, RoutesExplained, NoFalseStorm
<1> QED
  BY <1>1, <1>3, <1>4, <1>5, <1>6, <1>7, <1>8, <1>9 DEF SsNext

LEMMA StoreStart == SsInit => StoreInv /\ RoutesExplained /\ NoFalseStorm
<1> SUFFICES ASSUME SsInit PROVE StoreInv /\ RoutesExplained /\ NoFalseStorm
  OBVIOUS
<1>1. 0 .. Day(Start) + Forward \subseteq Days
  BY DayHasPlace, StoreConstants
<1>2. StoreShapes
  BY <1>1, StoreConstants DEF SsInit, StoreShapes
<1>3. RowsStored /\ Timely /\ PartitionLasts /\ InsertIsEnsured /\ SamplesKept
  BY DEF SsInit, RowsStored, Timely, PartitionLasts, InsertIsEnsured, SamplesKept, SsIdle, Parent
<1> QED
  BY <1>2, <1>3 DEF SsInit, StoreInv, RoutesExplained, NoFalseStorm, SsIdle

(* For any retention and any length of a day, with any number of consoles    *)
(* that scrape, clean up, fail and restart: a sample that was inserted stays *)
(* until it is as old as the retention (InsertMetricSamples,                 *)
(* ensureDayPartition, dropParentPartitionsOlderThan), and every node event  *)
(* has a change or a misread behind it (persistRouteTransitions).            *)
THEOREM StoreSafe == SsSpec => [](SsTypeOK /\ SamplesKept /\ NoFalseStorm)
<1> DEFINE I == StoreInv /\ RoutesExplained /\ NoFalseStorm
<1>1. SsInit => I
  BY StoreStart
<1>2. I /\ [SsNext]_ssVars => I'
  BY StoreStep, RoutesStep DEF StoreInv
<1>3. I => SsTypeOK /\ SamplesKept /\ NoFalseStorm
  BY DEF StoreInv, StoreShapes, RowsStored, SsTypeOK
<1> HIDE DEF I
<1> QED
  BY <1>1, <1>2, <1>3, PTL DEF SsSpec
=============================================================================

-------------------------- MODULE AlertLifecycle --------------------------
(***************************************************************************)
(* Alert rules, the alert feed and alert email for one cluster             *)
(* (internal/alerter, internal/repo/alerts.go and alerts_queries.go,       *)
(* internal/mail/smtp.go, internal/api/alerts_handlers.go), driven by the  *)
(* snapshot collector and by the people who edit rules and acknowledge     *)
(* alerts.                                                                 *)
(*                                                                         *)
(* Several consoles may share the database: each scrapes the cluster and   *)
(* evaluates the rules on its own, and administrators edit the rules       *)
(* meanwhile.  A step is one database statement, or one leg of the SMTP    *)
(* dialogue; every mail is sent by a goroutine of its own, all of them on  *)
(* the one SMTP session the console opened when it started.                *)
(***************************************************************************)
EXTENDS Naturals, FiniteSets

CONSTANTS
  Rule,
  Console,
  Editor,    \* requests that change a rule at the same time
  Alert,     \* bound: rows of the alerts table at a time
  None,
  MaxFaults  \* bound: failed statements and scrapes, failed sends, restarts

ASSUME AlertConstants ==
  /\ None \notin Rule \cup Console \cup Alert \cup Editor
  /\ MaxFaults \in Nat

VARIABLES
  metric,    \* the metric of a rule: "met" (the threshold) or "below" it, or
             \* "zero", which is below it and which the scrape leaves out
  rule,      \* alert_rules: "on" (enabled), "off" or "gone"
  edit,      \* a PATCH between its read and its write: None or [rule, state]
  status,    \* alerts.status; "acked" is open with acknowledged_at set, and
             \* "free" a row that does not exist
  ruleOf,    \* alerts.rule_id
  notified,  \* alerts.email_notified_at is set
  job,       \* the goroutine that mails an alert, and how it ended: "sent",
             \* "failed" and released, or "lost" with nobody left to release
  by,        \* the console it runs in
  mails,     \* mails delivered for an alert (history)
  smtp,      \* a console's SMTP session; "off" is SMTP_ENABLED=false
  pc,        \* a console's evaluation
  sample,    \* the scraped metrics: the rules whose threshold they meet
  todo,      \* rules with a scraped metric that it has yet to look at
  openRules, \* its snapshot of the rules with an open alert
  cur,       \* the alert it is notifying
  faults

dbVars   == <<rule, edit, status, ruleOf, notified>>
mailVars == <<job, by, mails, smtp>>
evalVars == <<pc, sample, todo, openRules, cur>>
vars == <<metric, dbVars, mailVars, evalVars, faults>>

IsOpen(a) == status[a] \in {"open", "acked"}
Open(r) == {a \in Alert : IsOpen(a) /\ ruleOf[a] = r}

(* No mail goroutine works on the alert. *)
Over == {"none", "sent", "failed", "lost"}

(* A row, and the goroutine that mailed it, that nothing refers to. *)
Fresh(a) ==
  /\ status[a] = "free"
  /\ job[a] \in Over
  /\ \A c \in Console : cur[c] # a

Fault == faults < MaxFaults /\ faults' = faults + 1

Init ==
  /\ metric    = [r \in Rule |-> "below"]
  /\ rule      = [r \in Rule |-> "on"]
  /\ edit      = [e \in Editor |-> None]
  /\ status    = [a \in Alert |-> "free"]
  /\ ruleOf    = [a \in Alert |-> None]
  /\ notified  = [a \in Alert |-> FALSE]
  /\ job       = [a \in Alert |-> "none"]
  /\ by        = [a \in Alert |-> None]
  /\ mails     = [a \in Alert |-> 0]
  /\ smtp      \in {[c \in Console |-> m] : m \in {"ready", "off"}}
  /\ pc        = [c \in Console |-> "idle"]
  /\ sample    = [c \in Console |-> {}]
  /\ todo      = [c \in Console |-> {}]
  /\ openRules = [c \in Console |-> {}]
  /\ cur       = [c \in Console |-> None]
  /\ faults    = 0

Goto(c, l) == pc' = [pc EXCEPT ![c] = l]

(* The evaluation is through with rule r. *)
Handled(c, r) ==
  /\ todo'      = [todo EXCEPT ![c] = @ \ {r}]
  /\ sample'    = [sample EXCEPT ![c] = @ \ {r}]
  /\ openRules' = [openRules EXCEPT ![c] = @ \ {r}]

----------------------------------------------------------------------------
(* The rules that have a sample.  ExtractVarzMetrics puts out no CPU and no  *)
(* memory that is 0, ...                                                     *)
Sampled == {r \in Rule : metric[r] # "zero"}

(* ... and the metrics of an endpoint that did not answer are not there      *)
(* either.  A rule without a sample is skipped.  Without any sample, or      *)
(* after a scrape that failed, nothing is evaluated.                         *)
Evaluate(c) ==
  /\ pc[c] = "idle"
  /\ \E missed \in SUBSET Sampled :
       /\ \/ missed = {} /\ UNCHANGED faults
          \/ missed # {} /\ Fault
       /\ todo'   = [todo EXCEPT ![c] = Sampled \ missed]
       /\ sample' = [sample EXCEPT ![c] = {r \in Sampled \ missed : metric[r] = "met"}]
  /\ Goto(c, "rules")
  /\ UNCHANGED <<metric, dbVars, mailVars, openRules, cur>>

(* ListAlertRules(enabledOnly): an empty list ends the evaluation. *)
ListAlertRules(c) ==
  /\ pc[c] = "rules"
  /\ LET on == {r \in Rule : rule[r] = "on"}
     IN  /\ Goto(c, IF on = {} THEN "idle" ELSE "open")
         /\ todo'   = [todo EXCEPT ![c] = @ \cap on]
         /\ sample' = [sample EXCEPT ![c] = @ \cap on]
  /\ UNCHANGED <<metric, dbVars, mailVars, openRules, cur, faults>>

ListOpenAlertRuleIDs(c) ==
  /\ pc[c] = "open"
  /\ openRules' = [openRules EXCEPT ![c] = {r \in Rule : Open(r) # {}}]
  /\ Goto(c, "loop")
  /\ UNCHANGED <<metric, dbVars, mailVars, sample, todo, cur, faults>>

(* A statement of the evaluation fails.  The two lists end it, an upsert or  *)
(* a close loses its rule for this time, a claim or a release is given up;   *)
(* a claim that is not released stays.                                       *)
StatementFails(c) ==
  /\ pc[c] # "idle" /\ Fault
  /\ \/ /\ pc[c] \in {"rules", "open"}
        /\ Goto(c, "idle")
        /\ sample' = [sample EXCEPT ![c] = {}]
        /\ todo'   = [todo EXCEPT ![c] = {}]
        /\ UNCHANGED <<job, openRules>>
     \/ /\ pc[c] = "loop"
        /\ \E r \in todo[c] : Handled(c, r)
        /\ UNCHANGED <<job, pc>>
     \/ /\ pc[c] \in {"claim", "release"}
        /\ job' = [job EXCEPT ![cur[c]] = IF pc[c] = "release" THEN "lost" ELSE @]
        /\ Goto(c, "loop")
        /\ UNCHANGED <<sample, todo, openRules>>
  /\ cur' = [cur EXCEPT ![c] = None]
  /\ UNCHANGED <<metric, dbVars, by, mails, smtp>>

(* A new open row for rule r, which console c goes on to notify. *)
InsertAlert(c, r) ==
  \E a \in Alert :
    /\ Fresh(a)
    /\ status'   = [status EXCEPT ![a] = "open"]
    /\ ruleOf'   = [ruleOf EXCEPT ![a] = r]
    /\ notified' = [notified EXCEPT ![a] = FALSE]
    /\ job'      = [job EXCEPT ![a] = "none"]
    /\ mails'    = [mails EXCEPT ![a] = 0]
    /\ cur'      = [cur EXCEPT ![c] = a]
    /\ Goto(c, "claim")

(* Console c goes on to notify alert a, a row that is there already. *)
NotifyAgain(c, a) ==
  /\ cur' = [cur EXCEPT ![c] = a]
  /\ Goto(c, "claim")
  /\ UNCHANGED <<status, ruleOf, notified, job, mails>>

NothingToNotify == UNCHANGED <<status, ruleOf, notified, job, mails, pc, cur>>

(* UpsertOpenAlert for a rule whose threshold is met.  A deleted rule        *)
(* violates the foreign key; an open alert of the rule is refreshed; else a  *)
(* row is inserted, and only then is mail considered.                        *)
UpsertOpenAlert_AlwaysInserts(c, r) ==
  \/ rule[r] = "gone" /\ NothingToNotify
  \/ rule[r] # "gone" /\ InsertAlert(c, r)
UpsertOpenAlert_NotifiesRefreshed(c, r) ==
  \/ rule[r] = "gone" /\ NothingToNotify
  \/ \E a \in Open(r) : NotifyAgain(c, a)
  \/ rule[r] # "gone" /\ Open(r) = {} /\ InsertAlert(c, r)
UpsertOpenAlert(c, r) ==
  \/ (rule[r] = "gone" \/ Open(r) # {}) /\ NothingToNotify
  \/ rule[r] # "gone" /\ Open(r) = {} /\ InsertAlert(c, r)

ThresholdMet(c) ==
  /\ pc[c] = "loop"
  /\ \E r \in todo[c] \cap sample[c] : UpsertOpenAlert(c, r) /\ Handled(c, r)
  /\ UNCHANGED <<metric, rule, edit, by, smtp, faults>>

(* CloseOpenAlert for a rule whose threshold is not met, if the snapshot     *)
(* showed an open alert.                                                     *)
CloseOpenAlert(c) ==
  /\ pc[c] = "loop"
  /\ \E r \in todo[c] \ sample[c] :
       /\ Handled(c, r)
       /\ status' = IF r \notin openRules[c] THEN status
                    ELSE [a \in Alert |-> IF a \in Open(r) THEN "closed" ELSE status[a]]
  /\ UNCHANGED <<metric, rule, edit, ruleOf, notified, mailVars, pc, cur, faults>>

EvaluateDone(c) ==
  /\ pc[c] = "loop"
  /\ todo[c] = {}
  /\ sample'    = [sample EXCEPT ![c] = {}]
  /\ openRules' = [openRules EXCEPT ![c] = {}]
  /\ Goto(c, "idle")
  /\ UNCHANGED <<metric, dbVars, mailVars, todo, cur, faults>>

----------------------------------------------------------------------------
(* notifyNewAlert.  Its check for a nil Mailer is no guard: the collector    *)
(* hands on a nil *SMTPSender, which the interface does not compare as nil.  *)
ClaimAlertEmailNotify(c) ==
  /\ pc[c] = "claim"
  /\ LET a   == cur[c]
         won == IsOpen(a) /\ ~notified[a]
     IN  /\ notified' = [notified EXCEPT ![a] = @ \/ won]
         /\ Goto(c, IF won THEN "recipients" ELSE "loop")
         /\ cur' = [cur EXCEPT ![c] = IF won THEN a ELSE None]
  /\ UNCHANGED <<metric, rule, edit, status, ruleOf, mailVars, sample, todo, openRules, faults>>

(* recipientEmails: with nobody to write to, or an error, the claim is       *)
(* released; else a goroutine is started for the mail, whose queue of its    *)
(* own cannot be full.                                                       *)
RecipientEmails_NoRelease(c) ==
  /\ pc[c] = "recipients"
  /\ \/ /\ job' = [job EXCEPT ![cur[c]] = "send"]
        /\ by'  = [by EXCEPT ![cur[c]] = c]
        /\ cur' = [cur EXCEPT ![c] = None]
        /\ Goto(c, "loop")
     \/ /\ Goto(c, "loop")
        /\ cur' = [cur EXCEPT ![c] = None]
        /\ UNCHANGED <<job, by>>
  /\ UNCHANGED <<metric, dbVars, mails, smtp, sample, todo, openRules, faults>>
RecipientEmails(c) ==
  /\ pc[c] = "recipients"
  /\ \/ /\ job' = [job EXCEPT ![cur[c]] = "send"]
        /\ by'  = [by EXCEPT ![cur[c]] = c]
        /\ cur' = [cur EXCEPT ![c] = None]
        /\ Goto(c, "loop")
     \/ /\ Goto(c, "release")
        /\ UNCHANGED <<job, by, cur>>
  /\ UNCHANGED <<metric, dbVars, mails, smtp, sample, todo, openRules, faults>>

(* ReleaseAlertEmailNotify touches open alerts only. *)
Released(a) == [notified EXCEPT ![a] = @ /\ ~IsOpen(a)]

ReleaseUnsent(c) ==
  /\ pc[c] = "release"
  /\ notified' = Released(cur[c])
  /\ cur' = [cur EXCEPT ![c] = None]
  /\ Goto(c, "loop")
  /\ UNCHANGED <<metric, rule, edit, status, ruleOf, mailVars, sample, todo, openRules, faults>>

----------------------------------------------------------------------------
(* The goroutine that mails alert a ends. *)
EndJob(a, how) ==
  /\ job' = [job EXCEPT ![a] = how]
  /\ by'  = [by EXCEPT ![a] = None]

SendFails(a) ==
  /\ job' = [job EXCEPT ![a] = "release"]
  /\ UNCHANGED by

(* sendAlertEmail.  Send first runs MAIL, RCPT and DATA on the session: a    *)
(* session that was quit refuses; a nil sender panics, which safe.Run        *)
(* recovers, and then nobody releases the claim.                             *)
SendData(a) ==
  /\ job[a] = "send"
  /\ \/ /\ smtp[by[a]] = "ready"
        /\ mails' = [mails EXCEPT ![a] = @ + 1]
        /\ job'   = [job EXCEPT ![a] = "quit"]
        /\ UNCHANGED <<by, faults>>
     \/ smtp[by[a]] = "ready" /\ Fault /\ SendFails(a) /\ UNCHANGED mails
     \/ smtp[by[a]] = "quit" /\ SendFails(a) /\ UNCHANGED <<mails, faults>>
     \/ smtp[by[a]] = "off" /\ EndJob(a, "lost") /\ UNCHANGED <<mails, faults>>
  /\ UNCHANGED <<metric, dbVars, smtp, evalVars>>

(* ... and ends with Quit, which ends the session.  If that fails, because   *)
(* another mail was quicker or the server is gone, Send fails.               *)
SendQuit(a) ==
  /\ job[a] = "quit"
  /\ \/ /\ smtp[by[a]] = "ready"
        /\ smtp' = [smtp EXCEPT ![by[a]] = "quit"]
        /\ EndJob(a, "sent")
        /\ UNCHANGED faults
     \/ smtp[by[a]] = "ready" /\ Fault /\ SendFails(a) /\ UNCHANGED smtp
     \/ smtp[by[a]] = "quit" /\ SendFails(a) /\ UNCHANGED <<smtp, faults>>
  /\ UNCHANGED <<metric, dbVars, mails, evalVars>>

ReleaseFailed(a) ==
  /\ job[a] = "release"
  /\ \/ /\ notified' = Released(a)
        /\ EndJob(a, "failed")
        /\ UNCHANGED faults
     \/ Fault /\ EndJob(a, "lost") /\ UNCHANGED notified
  /\ UNCHANGED <<metric, rule, edit, status, ruleOf, mails, smtp, evalVars>>

(* A console is restarted: its goroutines are gone, its SMTP session is new. *)
Restart(c) ==
  /\ Fault
  /\ job'       = [a \in Alert |-> IF by[a] = c \/ cur[c] = a THEN "lost" ELSE job[a]]
  /\ by'        = [a \in Alert |-> IF by[a] = c THEN None ELSE by[a]]
  /\ smtp'      = [smtp EXCEPT ![c] = IF @ = "off" THEN @ ELSE "ready"]
  /\ sample'    = [sample EXCEPT ![c] = {}]
  /\ todo'      = [todo EXCEPT ![c] = {}]
  /\ openRules' = [openRules EXCEPT ![c] = {}]
  /\ cur'       = [cur EXCEPT ![c] = None]
  /\ Goto(c, "idle")
  /\ UNCHANGED <<metric, dbVars, mails>>

----------------------------------------------------------------------------
(* The cluster's metric crosses a rule's threshold, or comes to 0. *)
MetricMoves(r) ==
  /\ \E m \in {"met", "below", "zero"} \ {metric[r]} : metric' = [metric EXCEPT ![r] = m]
  /\ UNCHANGED <<dbVars, mailVars, evalVars, faults>>

(* CreateRule: enabled unless the request says otherwise.  Rule ids are new, *)
(* so an id is taken again only when nothing remembers it.                   *)
CreateRule(r) ==
  /\ rule[r] = "gone"
  /\ \A c \in Console : pc[c] # "rules" => r \notin todo[c] \cup openRules[c]
  /\ \A e \in Editor : edit[e] # None => edit[e].rule # r
  /\ \E enabled \in {"on", "off"} : rule' = [rule EXCEPT ![r] = enabled]
  /\ UNCHANGED <<metric, edit, status, ruleOf, notified, mailVars, evalVars, faults>>

(* UpdateRule: the row is read and the fields of the request put into it,    *)
(* as far as Enabled goes ...                                                *)
UpdateRule(e, r) ==
  /\ edit[e] = None
  /\ rule[r] # "gone"
  /\ \E enabled \in {"on", "off"} : edit' = [edit EXCEPT ![e] = [rule |-> r, state |-> enabled]]
  /\ UNCHANGED <<metric, rule, status, ruleOf, notified, mailVars, evalVars, faults>>

(* ... and all its columns are written back, over any change made meanwhile; *)
(* a rule that was deleted meanwhile stays deleted.                          *)
UpdateAlertRule(e) ==
  /\ edit[e] # None
  /\ rule' = [rule EXCEPT ![edit[e].rule] = IF @ = "gone" THEN @ ELSE edit[e].state]
  /\ edit' = [edit EXCEPT ![e] = None]
  /\ UNCHANGED <<metric, status, ruleOf, notified, mailVars, evalVars, faults>>

(* Acknowledge: an alert that is closed, or acknowledged already, is         *)
(* answered as it is.                                                        *)
AcknowledgeAlert(a) ==
  /\ status[a] = "open"
  /\ status' = [status EXCEPT ![a] = "acked"]
  /\ UNCHANGED <<metric, rule, edit, ruleOf, notified, mailVars, evalVars, faults>>

(* Rows are deleted; what was recorded of a mail that is over goes as well.  *)
Delete(gone) ==
  LET forgotten == {a \in gone : job[a] \in Over}
  IN  /\ status'   = [a \in Alert |-> IF a \in gone THEN "free" ELSE status[a]]
      /\ ruleOf'   = [a \in Alert |-> IF a \in gone THEN None ELSE ruleOf[a]]
      /\ notified' = [a \in Alert |-> notified[a] /\ a \notin gone]
      /\ job'      = [a \in Alert |-> IF a \in forgotten THEN "none" ELSE job[a]]
      /\ mails'    = [a \in Alert |-> IF a \in forgotten THEN 0 ELSE mails[a]]

(* DeleteAlertRule: the foreign key deletes the rule's alerts with it. *)
DeleteAlertRule(r) ==
  /\ rule[r] # "gone"
  /\ rule' = [rule EXCEPT ![r] = "gone"]
  /\ Delete({a \in Alert : ruleOf[a] = r})
  /\ UNCHANGED <<metric, edit, by, smtp, evalVars, faults>>

(* The cleanup job: DeleteClosedAlertsOlderThan. *)
DeleteClosedAlerts ==
  /\ \E a \in Alert : status[a] = "closed"
  /\ Delete({a \in Alert : status[a] = "closed"})
  /\ UNCHANGED <<metric, rule, edit, by, smtp, evalVars, faults>>

----------------------------------------------------------------------------
EvalStep(c) ==
  \/ Evaluate(c) \/ ListAlertRules(c) \/ ListOpenAlertRuleIDs(c)
  \/ ThresholdMet(c) \/ CloseOpenAlert(c) \/ EvaluateDone(c)
  \/ ClaimAlertEmailNotify(c) \/ RecipientEmails(c) \/ ReleaseUnsent(c)
MailStep(a) == SendData(a) \/ SendQuit(a) \/ ReleaseFailed(a)

Next ==
  \/ \E c \in Console : EvalStep(c) \/ StatementFails(c) \/ Restart(c)
  \/ \E a \in Alert : MailStep(a) \/ AcknowledgeAlert(a)
  \/ \E r \in Rule : MetricMoves(r) \/ CreateRule(r) \/ DeleteAlertRule(r)
  \/ \E e \in Editor : UpdateAlertRule(e) \/ \E r \in Rule : UpdateRule(e, r)
  \/ DeleteClosedAlerts

Spec == Init /\ [][Next]_vars

(* The collector ticks for ever and each of its statements returns by the    *)
(* request timeout; a mail goroutine runs; the cleanup ticker ticks.         *)
Fairness ==
  /\ \A c \in Console : WF_vars(EvalStep(c))
  /\ \A a \in Alert : WF_vars(MailStep(a))
  /\ WF_vars(DeleteClosedAlerts)

FairSpec == Spec /\ Fairness

----------------------------------------------------------------------------
(* The variables keep their types, and a console that notifies knows the     *)
(* alert's id.                                                               *)
TypeOK ==
  /\ metric    \in [Rule -> {"met", "below", "zero"}]
  /\ rule      \in [Rule -> {"on", "off", "gone"}]
  /\ edit      \in [Editor -> {None} \cup [rule : Rule, state : {"on", "off"}]]
  /\ status    \in [Alert -> {"free", "open", "acked", "closed"}]
  /\ ruleOf    \in [Alert -> Rule \cup {None}]
  /\ notified  \in [Alert -> BOOLEAN]
  /\ job       \in [Alert -> Over \cup {"send", "quit", "release"}]
  /\ by        \in [Alert -> Console \cup {None}]
  /\ mails     \in [Alert -> Nat]
  /\ smtp      \in [Console -> {"ready", "quit", "off"}]
  /\ pc        \in [Console -> {"idle", "rules", "open", "loop", "claim", "recipients", "release"}]
  /\ sample    \in [Console -> SUBSET Rule]
  /\ todo      \in [Console -> SUBSET Rule]
  /\ openRules \in [Console -> SUBSET Rule]
  /\ cur       \in [Console -> Alert \cup {None}]
  /\ faults    \in 0..MaxFaults
  /\ \A c \in Console : pc[c] \in {"claim", "recipients", "release"} => cur[c] # None

(* The feed has one open alert per rule however many consoles evaluate it,   *)
(* and an alert that is open belongs to a rule that exists.                  *)
OneOpenPerRule ==
  /\ \A r \in Rule : Cardinality(Open(r)) <= 1
  /\ \A r \in Rule : rule[r] = "gone" => Open(r) = {}

(* "Email is sent once per open incident": failed sends, released claims,    *)
(* restarts and a second console never mail an alert twice.                  *)
EmailedAtMostOnce == \A a \in Alert : mails[a] <= 1

(* A claim on an open alert stands for a mail that was delivered or is being *)
(* worked on, unless the console died, panicked or could not release it.     *)
ClaimIsBacked ==
  \A a \in Alert :
    IsOpen(a) /\ notified[a] /\ job[a] # "lost" =>
      \/ mails[a] = 1
      \/ job[a] \in {"send", "quit", "release"}
      \/ \E c \in Console : cur[c] = a /\ pc[c] \in {"recipients", "release"}

(* An open alert of an enabled rule "stays open until the metric recovers,   *)
(* then auto-closes".                                                        *)
RecoveredAlertCloses ==
  \A r \in Rule :
    <>[](metric[r] # "met" /\ rule[r] = "on") => <>[](Open(r) = {})

(* "Each newly opened alert is emailed": a console with SMTP enabled, and a  *)
(* server that never fails it, delivers every mail it sets out to send.      *)
NewAlertsAreMailed ==
  \A a \in Alert : job[a] = "failed" => mails[a] = 1
=============================================================================

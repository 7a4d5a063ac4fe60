-------------------------- MODULE NoticeEscalation --------------------------
(***************************************************************************)
(* Risk scoring and escalation of one notice: tasks/compliance_tasks.py,   *)
(* ml/compliance/risk_scorer.py, ml/compliance/escalation.py and the alert *)
(* task it ends in.                                                        *)
(*                                                                         *)
(* Time is the number of days to the deadline; a day below zero is all the *)
(* same to the scorer.  Points are counted in 84ths, in which every weight *)
(* of the scorer is a whole number.  A worker goes through the stages of   *)
(* classify_and_score_notice that end in a commit or wait for the lock.    *)
(*                                                                         *)
(* Left out: the entities and the review queue row the same task writes    *)
(* (NoticeReview); the recipients beyond the compliance head, who get the  *)
(* same alert; whom the notice is assigned to, which nothing here reads;   *)
(* the deadline's own alerts (DeadlineAlerts).                             *)
(***************************************************************************)
EXTENDS Integers, FiniteSets

CONSTANTS Workers,
          NoWorker,
          Profile,    \* what the scorer reads of the notice, the deadline apart
          MaxDays,    \* bound: days to the deadline at the start
          AlertRetries, \* max_retries of the alert task (3)
          MaxTasks,   \* bound: scoring tasks queued or with a worker
          MaxFaults   \* bound: crashes, failed attempts and outages

ASSUME EscalationAssumption ==
  /\ NoWorker \notin Workers
  /\ Profile \in [authority : STRING, decades : 0..16, section : BOOLEAN, chain : BOOLEAN]
  /\ {MaxDays, AlertRetries, MaxTasks, MaxFaults} \subseteq Nat

VARIABLES
  notice,     \* status and tier of the compliance_notices row
  head,       \* has the client an active compliance head?
  days,       \* days to the deadline
  nightly,    \* the recompute of today is still to come
  tasks,      \* queued classify_and_score_notice messages
  worker,     \* tasks in progress
  lock,       \* holder of the advisory lock of the notice
  last,       \* the latest escalation in the timeline
  alerts,     \* retries left to each queued dispatch_notice_alert; two with
              \* as many left act as one
  log,        \* the head's notice_alert_log row for an escalation by mail
  faults,     \* bound: faults so far
  count,      \* history: escalations since the cool-down last ran out
  cut         \* history: a fault cost the latest escalation its alert

vars == << notice, head, days, nightly, tasks, worker, lock, last, alerts, log,
           faults, count, cut >>

Idle  == [at |-> "idle", tier |-> "low", loaded |-> "low"]
Tiers == {"low", "medium", "high", "critical"}

Init ==
  /\ notice = [open |-> TRUE, tier |-> "low"]
  /\ head \in BOOLEAN
  /\ days = MaxDays
  /\ nightly = FALSE
  /\ tasks = 1
  /\ worker = [w \in Workers |-> Idle]
  /\ lock = NoWorker
  /\ last = "never"
  /\ alerts = {}
  /\ log = "none"
  /\ faults = 0
  /\ count = 0
  /\ cut = FALSE

-----------------------------------------------------------------------------
(***************************************************************************)
(* The rule-based score.                                                   *)
(***************************************************************************)
AtMost(a, b) == IF a < b THEN a ELSE b

Severity(authority) ==
  CASE authority = "GST"  -> 1470
    [] authority = "IT"   -> 1680
    [] authority = "MCA"  -> 1260
    [] authority = "RBI"  -> 1995
    [] authority = "SEBI" -> 1890
    [] OTHER              -> 1050

\* 30/7 points for every power of ten of the larger of penalty and demand.
Magnitude(decades) == AtMost(360 * decades, 2520)

\* Seeded fault: the distance to the deadline, whichever side of it.
DistancePressure(d) == 2100 - 70 * AtMost(IF d < 0 THEN -d ELSE d, 30)

\* All 25 points when overdue, none a month before.
DeadlinePressure(d) == IF d < 0 THEN 2100 ELSE 2100 - 70 * AtMost(d, 30)

Points(d) ==
  AtMost(8400, Severity(Profile.authority) + Magnitude(Profile.decades)
               + DeadlinePressure(d)
               + (IF Profile.section THEN 1260 ELSE 0)
               + (IF Profile.chain THEN 420 ELSE 0))

TierOf(d) == CASE Points(d) >= 7140 -> "critical"
               [] Points(d) >= 5040 -> "high"
               [] Points(d) >= 2520 -> "medium"
               [] OTHER             -> "low"

Rank(tier) == CASE tier = "low" -> 0 [] tier = "medium" -> 1
                [] tier = "high" -> 2 [] OTHER -> 3

-----------------------------------------------------------------------------
(***************************************************************************)
(* Time, people and the schedule.                                          *)
(***************************************************************************)
Busy(w) == worker[w] # Idle

Enough == tasks + Cardinality({w \in Workers : Busy(w)}) < MaxTasks

\* One of the faults this instance allows.
Fault == faults < MaxFaults /\ faults' = faults + 1

\* An overdue notice stays overdue.
Midnight ==
  /\ ~nightly /\ nightly' = TRUE
  /\ days' = IF days < 0 THEN days ELSE days - 1
  /\ UNCHANGED << notice, head, tasks, worker, lock, last, alerts, log,
                  faults, count, cut >>

\* Seeded fault: the recompute leaves this notice to its next transition.
NothingToScore == tasks

\* Open notices get a task each; the broker takes the message or the run fails.
Dispatched == IF notice.open THEN tasks + 1 ELSE tasks

RecomputeAllRiskScores ==
  /\ nightly /\ nightly' = FALSE
  /\ \/ (notice.open => Enough) /\ tasks' = Dispatched /\ UNCHANGED faults
     \/ Fault /\ UNCHANGED tasks
  /\ UNCHANGED << notice, head, days, worker, lock, last, alerts, log, count, cut >>

\* An intake after a document was read, or the transition to under review.
ScoreAgain ==
  /\ Enough /\ tasks' = tasks + 1
  /\ UNCHANGED << notice, head, days, nightly, worker, lock, last, alerts, log,
                  faults, count, cut >>

\* 24 hours are over.  The nightly run may come a little before or after.
CooldownEnds ==
  /\ last = "recent" /\ last' = "old"
  /\ \A w \in Workers : worker[w].at \notin {"may", "commit"}
  /\ count' = 0
  /\ UNCHANGED << notice, head, days, nightly, tasks, worker, lock, alerts, log,
                  faults, cut >>

CloseNotice ==
  /\ notice.open /\ notice' = [notice EXCEPT !.open = FALSE]
  /\ UNCHANGED << head, days, nightly, tasks, worker, lock, last, alerts, log,
                  faults, count, cut >>

-----------------------------------------------------------------------------
(***************************************************************************)
(* classify_and_score_notice.                                              *)
(***************************************************************************)
To(w, stage) == worker' = [worker EXCEPT ![w].at = stage]
Done(w)      == worker' = [worker EXCEPT ![w] = Idle]

\* The notice is read and scored for today; a closed one too.
Score(w) ==
  /\ ~Busy(w) /\ tasks > 0 /\ tasks' = tasks - 1
  /\ worker' = [worker EXCEPT ![w] =
                  [at |-> "scored", tier |-> TierOf(days), loaded |-> notice.tier]]
  /\ UNCHANGED << notice, head, days, nightly, lock, last, alerts, log,
                  faults, count, cut >>

\* The commit writes the tier if it differs from the one read.
CommitScore(w) ==
  /\ worker[w].at = "scored"
  /\ notice' = IF worker[w].tier = worker[w].loaded THEN notice
               ELSE [notice EXCEPT !.tier = worker[w].tier]
  /\ IF worker[w].tier = "critical" THEN To(w, "waiting") ELSE Done(w)
  /\ UNCHANGED << head, days, nightly, tasks, lock, last, alerts, log,
                  faults, count, cut >>

\* Seeded fault: the escalation is not serialised.
NoLock == TRUE

LockFree == lock = NoWorker

\* pg_advisory_xact_lock, held until the next commit or the end of the session.
TakeLock(w) ==
  /\ worker[w].at = "waiting" /\ LockFree
  /\ lock' = w /\ To(w, "may")
  /\ UNCHANGED << notice, head, days, nightly, tasks, last, alerts, log,
                  faults, count, cut >>

\* should_escalate.
Check(w) ==
  /\ worker[w].at = "may"
  /\ \/ last # "recent" /\ To(w, "commit") /\ UNCHANGED lock
     \/ last = "recent" /\ Done(w) /\ lock' = NoWorker
  /\ UNCHANGED << notice, head, days, nightly, tasks, last, alerts, log,
                  faults, count, cut >>

\* escalate up to its commit, which also frees the lock: the timeline gets the
\* entry of the cool-down.
Escalate(w) ==
  /\ worker[w].at = "commit"
  /\ last' = "recent" /\ count' = count + 1 /\ cut' = FALSE
  /\ lock' = NoWorker /\ To(w, "audit")
  /\ UNCHANGED << notice, head, days, nightly, tasks, alerts, log, faults >>

\* log_audit_event_strict.  When it raises, the task goes on without an alert.
Audit(w) ==
  /\ worker[w].at = "audit"
  /\ \/ To(w, "announce") /\ UNCHANGED << faults, cut >>
     \/ Fault /\ Done(w) /\ cut' = TRUE
  /\ UNCHANGED << notice, head, days, nightly, tasks, lock, last, alerts, log, count >>

\* The alert is queued for the alert task ...
Announce(w) ==
  /\ worker[w].at = "announce"
  /\ alerts' = alerts \cup {AlertRetries} /\ Done(w)
  /\ UNCHANGED << notice, head, days, nightly, tasks, lock, last, log,
                  faults, count, cut >>

\* Seeded fault: the failed dispatch is only logged.
NotPersisted == log

\* The row of a dispatch that failed; an earlier row of the head stays.
FailedRow == IF log = "none" THEN "failed" ELSE log

\* ... or, when the broker is down, recorded as failed.
AnnounceFails(w) ==
  /\ worker[w].at = "announce" /\ Fault
  /\ \/ log' = FailedRow /\ UNCHANGED cut
     \/ cut' = TRUE /\ UNCHANGED log
  /\ Done(w)
  /\ UNCHANGED << notice, head, days, nightly, tasks, lock, last, alerts, count >>

Freed(w) == IF lock = w THEN NoWorker ELSE lock

\* An error before escalate's commit is rolled back; the task itself succeeds.
EscalationFails(w) ==
  /\ worker[w].at \in {"waiting", "may", "commit"} /\ Fault
  /\ Done(w) /\ lock' = Freed(w)
  /\ UNCHANGED << notice, head, days, nightly, tasks, last, alerts, log, count, cut >>

\* The worker dies, or an error outside the escalation makes the task retry:
\* the message is delivered again, and the server frees the lock.
Crash(w) ==
  /\ Busy(w) /\ Fault
  /\ Done(w) /\ tasks' = tasks + 1
  /\ lock' = Freed(w)
  /\ cut' = (cut \/ worker[w].at \in {"audit", "announce"})
  /\ UNCHANGED << notice, head, days, nightly, last, alerts, log, count >>

\* dispatch_notice_alert: the first row of the head takes the claim, and every
\* later alert of the type is skipped, whatever became of the first.
Deliver(left) ==
  /\ left \in alerts /\ alerts' = alerts \ {left}
  /\ IF head /\ log = "none" THEN log' \in {"sent", "failed"} ELSE UNCHANGED log
  /\ UNCHANGED << notice, head, days, nightly, tasks, worker, lock, last,
                  faults, count, cut >>

\* An attempt that raises rolls its rows back and is retried; the last one
\* returns retries_exhausted and leaves no row.
DeliverFails(left) ==
  /\ left \in alerts /\ Fault
  /\ alerts' = (alerts \ {left}) \cup (IF left > 0 THEN {left - 1} ELSE {})
  /\ cut' = (cut \/ left = 0)
  /\ UNCHANGED << notice, head, days, nightly, tasks, worker, lock, last, log, count >>

\* The hard time limit kills the attempt: its message is acknowledged.
DeliverKilled(left) ==
  /\ left \in alerts /\ Fault
  /\ alerts' = alerts \ {left} /\ cut' = TRUE
  /\ UNCHANGED << notice, head, days, nightly, tasks, worker, lock, last, log, count >>

\* An attempt of a queued alert task, whatever becomes of it.  A process that
\* dies in it changes nothing: the message is delivered again.
Attempt(left) == Deliver(left) \/ DeliverFails(left) \/ DeliverKilled(left)

-----------------------------------------------------------------------------
Step(w) == Score(w) \/ CommitScore(w) \/ Check(w) \/ Escalate(w) \/ Audit(w) \/ Announce(w)

Next ==
  \/ Midnight \/ RecomputeAllRiskScores \/ ScoreAgain \/ CooldownEnds
  \/ CloseNotice
  \/ \E left \in alerts : Attempt(left)
  \/ \E w \in Workers : Step(w) \/ TakeLock(w) \/ AnnounceFails(w) \/ EscalationFails(w) \/ Crash(w)

(***************************************************************************)
(* Nights come and their recompute runs, and 24 hours pass; workers take   *)
(* tasks and finish what they began; queued alert tasks are attempted; a   *)
(* worker waiting for the lock is served when it is free again and again.  *)
(***************************************************************************)
Fairness ==
  /\ WF_vars(Midnight) /\ WF_vars(RecomputeAllRiskScores) /\ SF_vars(CooldownEnds)
  /\ WF_vars(\E left \in alerts : Attempt(left))
  /\ \A w \in Workers : WF_vars(Step(w)) /\ SF_vars(TakeLock(w))

Spec == Init /\ [][Next]_vars /\ Fairness

-----------------------------------------------------------------------------
(***************************************************************************)
(* Properties.                                                             *)
(***************************************************************************)
\* The rows, the queues and the workers keep their types.
EscalationTypeOK ==
  /\ notice \in [open : BOOLEAN, tier : Tiers]
  /\ days \in -1..MaxDays /\ tasks \in Nat /\ faults \in 0..MaxFaults
  /\ worker \in [Workers -> [at : {"idle", "scored", "waiting", "may", "commit",
                                   "audit", "announce"},
                             tier : Tiers, loaded : Tiers]]
  /\ lock \in Workers \cup {NoWorker}
  /\ last \in {"never", "recent", "old"} /\ log \in {"none", "sent", "failed"}
  /\ alerts \subseteq 0..AlertRetries
  /\ head \in BOOLEAN /\ cut \in BOOLEAN /\ nightly \in BOOLEAN

\* However many workers score the notice, it is escalated once in a cool-down.
OneEscalationPerCooldown == count <= 1

\* An escalation is on its way to the head or leaves a row that says whether
\* the mail went out, unless a fault after its commit cost it its alert: the
\* worker or its audit row failed, the broker and the row of the failure did, or
\* the alert task was killed or used up its retries (alert_tasks.py:91).
EscalationLeavesRow ==
  last # "never" /\ head /\ ~cut =>
    \/ log # "none" \/ alerts # {}
    \/ \E w \in Workers : worker[w].at \in {"audit", "announce"}

\* As the deadline comes nearer and passes, the risk of a notice nobody edits
\* never falls, not even when several workers score it: only a scoring that a
\* night overtook between its reading and its commit can put it back.
RiskNeverFalls ==
  [][Rank(notice'.tier) < Rank(notice.tier) =>
       \E w \in Workers : worker[w].at = "scored" /\ worker[w].tier # TierOf(days)]_vars

\* A notice that is critical and stays open reaches its head or a row records
\* the failure, whichever workers die and alert tasks give up on the way: what
\* one escalation loses, that of a later cool-down makes up for.
CriticalReachesHead ==
  (head /\ notice.open /\ TierOf(days) = "critical") ~> (log # "none" \/ ~notice.open)
=============================================================================

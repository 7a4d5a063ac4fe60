--------------------------- MODULE DeadlineAlerts ---------------------------
(***************************************************************************)
(* The deadline alerts of one notice: services/scheduler.py over the       *)
(* persistent APScheduler job store, services/alert_service.dispatch_alert *)
(* over notice_alert_log, and the requests that drive them, which first    *)
(* commit the notice row and only then, outside the transaction, cancel    *)
(* and schedule jobs (the tails of transition_notice_status, update_notice *)
(* and process_notice_intake).                                             *)
(*                                                                         *)
(* Several processes run a scheduler on the one job store: the API process *)
(* starts it at boot and every Celery worker that schedules an alert       *)
(* starts its own (get_scheduler is a per-process singleton).              *)
(*                                                                         *)
(* Time is counted in days, the unit of the offsets; a request and a       *)
(* dispatch are short against a day.  A deadline is the one after the      *)
(* holiday adjustment.  One recipient on one channel stands for all: their *)
(* rows are inserted, sent and committed in one transaction.               *)
(***************************************************************************)
EXTENDS ResponseStates, Naturals, FiniteSets

CONSTANTS
  AlertTypes,   \* the alerts under study: the overdue one and some before it
  Deadlines,    \* days a response may be due
  NoDeadline,   \* response_deadline IS NULL
  Slots,        \* request slots: how many requests may overlap
  Schedulers,   \* processes with a scheduler running
  Horizon,      \* bound: last day
  MaxFaults     \* bound: post-commit tails and due jobs lost to an outage,
                \* and dispatches that die half way

\* How many days before its deadline each alert is due (delta_days); the
\* overdue one is due the day after.
DaysBefore == [ deadline_t7 |-> 7, deadline_t3 |-> 3, deadline_t1 |-> 1 ]

ASSUME AlertTypesAssumption ==
  "overdue" \in AlertTypes /\ AlertTypes \subseteq DOMAIN DaysBefore \cup {"overdue"}
ASSUME DeadlinesAssumption == Deadlines \subseteq Nat /\ NoDeadline \notin Deadlines
ASSUME AlertBoundsAssumption ==
  Horizon \in Nat /\ MaxFaults \in Nat

VARIABLES
  now,        \* the day
  notice,     \* status column
  deadline,   \* response_deadline column
  tail,       \* per slot: what the request still has to do after its commit
  jobs,       \* apscheduler_jobs: at most one per alert type
  run,        \* per scheduler process: the dispatch in progress
  log,        \* committed notice_alert_log rows: type, deadline in the payload
  sent,       \* per alert type: messages that left
  silent,     \* history variable: a deadline was written that no tail follows
  losses, crashes

alertVars == << now, notice, deadline, tail, jobs, run, log, sent,
                silent, losses, crashes >>

OpenStatus   == { "received", "under_review", "response_drafted" }
ClosedStatus == NoticeStatus \ OpenStatus

\* An alert that would have been due before day 0 has no day.
DueDays(type, d) ==
  IF type = "overdue" THEN {d + 1}
  ELSE {day \in 0..d : day + DaysBefore[type] = d}

\* Nothing is due later than the day after the last deadline, or than today.
Job == [type : AlertTypes,
        at   : (0..Horizon) \cup UNION {0..(d + 1) : d \in Deadlines}]

NoTail == [cancel |-> FALSE, schedule |-> NoDeadline]
Quiet  == \A r \in Slots : tail[r] = NoTail

NoRun  == [type |-> "none", step |-> "idle", deadline |-> NoDeadline]
Idle(p) == run[p] = NoRun
Resting == \A p \in Schedulers : Idle(p)

AlertInit ==
  /\ now = 0
  /\ notice = "received"
  /\ deadline \in Deadlines \cup {NoDeadline}
  \* create_notice or ingestion has committed; its intake tail is to run
  /\ \E r \in Slots :
       tail = [q \in Slots |->
                 IF q = r THEN [cancel |-> FALSE, schedule |-> deadline] ELSE NoTail]
  /\ jobs = {}
  /\ run = [p \in Schedulers |-> NoRun]
  /\ log = {}
  /\ sent = [t \in AlertTypes |-> 0]
  /\ silent = FALSE
  /\ losses = 0 /\ crashes = 0

-----------------------------------------------------------------------------
(***************************************************************************)
(* Requests: commit the row, then the tail.                                *)
(***************************************************************************)
\* Seeded fault: alerts are scheduled when the review first begins only.
TailOfTransitionFault(target) ==
  [cancel   |-> target \in ClosedStatus,
   schedule |-> IF target = "under_review" /\ notice = "received"
                THEN deadline ELSE NoDeadline]

TailOfTransition(target) ==
  [cancel   |-> target \in ClosedStatus,
   schedule |-> IF target = "under_review" THEN deadline ELSE NoDeadline]

\* transition_notice_status; the approval gate of submitted is left open.
Transition(r, target) ==
  /\ tail[r] = NoTail
  /\ target \in AllowedTransitions[notice]
  /\ notice' = target
  /\ tail' = [tail EXCEPT ![r] = TailOfTransition(target)]
  /\ silent' = (silent /\ target \in OpenStatus)
  /\ UNCHANGED << now, deadline, jobs, run, log, sent, losses, crashes >>

\* Seeded fault: old jobs are only cancelled when a new deadline replaces them.
TailOfChangeFault(d) ==
  [cancel |-> d # NoDeadline, schedule |-> IF notice \in OpenStatus THEN d ELSE NoDeadline]

\* update_notice: cancel, then schedule when the notice is open.
TailOfChange(d) ==
  [cancel |-> TRUE, schedule |-> IF notice \in OpenStatus THEN d ELSE NoDeadline]

ChangeDeadline(r, d) ==
  /\ tail[r] = NoTail
  /\ d # deadline
  /\ deadline' = d
  /\ tail' = [tail EXCEPT ![r] = TailOfChange(d)]
  /\ silent' = FALSE
  /\ UNCHANGED << now, notice, jobs, run, log, sent, losses, crashes >>

\* accept_extraction copies a reviewed deadline onto the notice, and
\* _maybe_autoextract_from_upload one it has just read: neither touches a job.
AcceptExtraction(d) ==
  /\ d # deadline
  /\ deadline' = d
  /\ silent' = TRUE
  /\ UNCHANGED << now, notice, tail, jobs, run, log, sent, losses, crashes >>

\* after_document_intelligence: extraction fills an empty deadline, and the
\* intake runs again whatever the status of the notice is by now.
Extracted(r) ==
  /\ tail[r] = NoTail
  /\ deadline' \in IF deadline = NoDeadline THEN Deadlines ELSE {deadline}
  /\ tail' = [tail EXCEPT ![r] = [cancel |-> FALSE, schedule |-> deadline']]
  /\ UNCHANGED << now, notice, jobs, run, log, sent, silent, losses, crashes >>

\* cancel_deadline_alerts.
Cancel(r) ==
  /\ tail[r].cancel
  /\ jobs' = {}
  /\ tail' = [tail EXCEPT ![r].cancel = FALSE]
  /\ UNCHANGED << now, notice, deadline, run, log, sent, silent, losses, crashes >>

Upcoming(d) ==
  {job \in UNION {{[type |-> t, at |-> day] : day \in DueDays(t, d)} : t \in AlertTypes} :
     job.at > now}

\* Seeded fault: a deadline all in the past schedules nothing.
UpcomingOnly(d) == Upcoming(d)

\* What schedule_deadline_alerts adds: the alerts still to come, or at once an
\* overdue one when none is.
Planned(d) ==
  IF Upcoming(d) = {} THEN {[type |-> "overdue", at |-> now]} ELSE Upcoming(d)

\* add_job(replace_existing): a type that is in the past keeps its old job.
Schedule(r) ==
  /\ ~tail[r].cancel
  /\ tail[r].schedule # NoDeadline
  /\ LET new == Planned(tail[r].schedule) IN
     jobs' = {job \in jobs : \A n \in new : n.type # job.type} \cup new
  /\ tail' = [tail EXCEPT ![r] = NoTail]
  /\ UNCHANGED << now, notice, deadline, run, log, sent, silent, losses, crashes >>

\* The process dies after its commit, or the job store refuses: the tail is
\* best effort and what is left of it is dropped.
LoseTail(r) ==
  /\ tail[r] # NoTail
  /\ losses + crashes < MaxFaults
  /\ losses' = losses + 1
  /\ tail' = [tail EXCEPT ![r] = NoTail]
  /\ UNCHANGED << now, notice, deadline, jobs, run, log, sent, silent, crashes >>

-----------------------------------------------------------------------------
(***************************************************************************)
(* The schedulers and the dispatch of an alert.                            *)
(***************************************************************************)
Due(job) == job.at <= now

\* Every process that reads the store before the job is deleted runs it.
Fire(ps, job) ==
  /\ Due(job)
  /\ ps # {} /\ \A p \in ps : Idle(p)
  /\ jobs' = jobs \ {job}
  /\ run' = [p \in Schedulers |->
       IF p \in ps THEN [NoRun EXCEPT !.type = job.type, !.step = "fired"] ELSE run[p]]
  /\ UNCHANGED << now, notice, deadline, tail, log, sent, silent, losses, crashes >>

\* misfire_grace_time: no scheduler was up for an hour after the run date.
Misfire(job) ==
  /\ Due(job)
  /\ losses + crashes < MaxFaults
  /\ losses' = losses + 1
  /\ jobs' = jobs \ {job}
  /\ UNCHANGED << now, notice, deadline, tail, run, log, sent, silent, crashes >>

\* _dispatch_scheduled_alert loads the notice and skips a closed one.
Load(p) ==
  /\ run[p].step = "fired"
  /\ run' = [run EXCEPT ![p] =
       IF notice \in ClosedStatus THEN NoRun
       ELSE [@ EXCEPT !.step = "loaded", !.deadline = deadline]]
  /\ UNCHANGED << now, notice, deadline, tail, jobs, log, sent, silent, losses, crashes >>

\* Another dispatch of the type holds an uncommitted row.
Held(p) == \E q \in Schedulers \ {p} :
             run[q].type = run[p].type /\ run[q].step \in {"claimed", "sent"}

\* Seeded fault: only the row of the same deadline makes the insert conflict.
LoggedForDeadline(type) ==
  [type |-> type, deadline |-> deadline] \in log

\* ON CONFLICT DO NOTHING found a committed row.
AlreadyLogged(type) == \E row \in log : row.type = type

\* INSERT ... ON CONFLICT DO NOTHING RETURNING id: an uncommitted row makes it
\* wait, a committed one makes the dispatch skip the recipient.
Claim(p) ==
  /\ run[p].step = "loaded"
  /\ ~Held(p)
  /\ run' = [run EXCEPT ![p] =
       IF AlreadyLogged(run[p].type) THEN NoRun ELSE [@ EXCEPT !.step = "claimed"]]
  /\ UNCHANGED << now, notice, deadline, tail, jobs, log, sent, silent, losses, crashes >>

\* sender.send, with the deadline of the loaded notice in the body.  A message
\* the provider refuses is logged as failed, and its row stays all the same.
Send(p) ==
  /\ run[p].step = "claimed"
  /\ run' = [run EXCEPT ![p].step = "sent"]
  /\ sent' \in {sent, [sent EXCEPT ![run[p].type] = @ + 1]}
  /\ UNCHANGED << now, notice, deadline, tail, jobs, log, silent, losses, crashes >>

\* db.commit() at the end of dispatch_alert.
Commit(p) ==
  /\ run[p].step = "sent"
  /\ log' = log \cup {[type |-> run[p].type, deadline |-> run[p].deadline]}
  /\ run' = [run EXCEPT ![p] = NoRun]
  /\ UNCHANGED << now, notice, deadline, tail, jobs, sent, silent, losses, crashes >>

\* The process dies in the middle: the uncommitted row goes with it.
Crash(p) ==
  /\ ~Idle(p)
  /\ losses + crashes < MaxFaults
  /\ crashes' = crashes + 1
  /\ run' = [run EXCEPT ![p] = NoRun]
  /\ UNCHANGED << now, notice, deadline, tail, jobs, log, sent, silent, losses >>

\* The day ends when its requests, its due jobs and their dispatches are done.
Tick ==
  /\ now < Horizon
  /\ Quiet /\ Resting
  /\ \A job \in jobs : ~Due(job)
  /\ now' = now + 1
  /\ UNCHANGED << notice, deadline, tail, jobs, run, log, sent, silent, losses, crashes >>

AlertNext ==
  \/ \E r \in Slots :
       \/ \E target \in NoticeStatus : Transition(r, target)
       \/ \E d \in Deadlines \cup {NoDeadline} : ChangeDeadline(r, d)
       \/ Extracted(r)
       \/ Cancel(r)
       \/ Schedule(r)
       \/ LoseTail(r)
  \/ \E d \in Deadlines \cup {NoDeadline} : AcceptExtraction(d)
  \/ \E job \in jobs :
       \/ \E ps \in SUBSET Schedulers : Fire(ps, job)
       \/ Misfire(job)
  \/ \E p \in Schedulers :
       \/ Load(p)
       \/ Claim(p)
       \/ Send(p)
       \/ Commit(p)
       \/ Crash(p)
  \/ Tick

AlertSpec == AlertInit /\ [][AlertNext]_alertVars

-----------------------------------------------------------------------------
Steps == { "idle", "fired", "loaded", "claimed", "sent" }

AlertTypeOK ==
  /\ now \in 0..Horizon
  /\ notice \in NoticeStatus
  /\ deadline \in Deadlines \cup {NoDeadline}
  /\ tail \in [Slots -> [cancel : BOOLEAN, schedule : Deadlines \cup {NoDeadline}]]
  /\ jobs \subseteq Job
  /\ run \in [Schedulers -> [type : AlertTypes \cup {"none"}, step : Steps,
                             deadline : Deadlines \cup {NoDeadline}]]
  /\ log \subseteq [type : AlertTypes, deadline : Deadlines \cup {NoDeadline}]
  /\ sent \in [AlertTypes -> Nat]
  /\ silent \in BOOLEAN
  /\ losses \in Nat /\ crashes \in Nat /\ losses + crashes <= MaxFaults

\* An alert leaves once, whatever processes fire its job and however often it
\* is rescheduled, unless a dispatcher died after sending and before its commit
\* ("retries are no-ops", alert_service.py).
SentOnce == \A t \in AlertTypes : sent[t] <= 1 + crashes

\* No request, dispatch or due job is under way, none was ever lost, and the
\* deadline in the row is one the jobs were told about.
Settled ==
  /\ Quiet /\ Resting
  /\ \A job \in jobs : ~Due(job)
  /\ losses = 0 /\ crashes = 0
  /\ ~silent

Watched == Upcoming(deadline) \subseteq jobs

\* An open notice has a job on the right day for every alert to come, once the
\* requests that touched it are over and nothing was lost.
OpenIsWatched ==
  /\ Quiet /\ losses = 0 /\ ~silent
  /\ notice \in OpenStatus /\ deadline # NoDeadline
  => Watched

\* No job of an open notice is left over from another deadline.
NoStrayJobs ==
  /\ Quiet /\ losses = 0 /\ ~silent /\ notice \in OpenStatus
  => \A job \in jobs :
       \/ deadline # NoDeadline /\ job \in Upcoming(deadline)
       \/ Due(job)

IsOverdue == notice \in OpenStatus /\ deadline # NoDeadline /\ now > deadline

\* A notice left open past its deadline has been reported overdue.
OverdueIsReported == Settled /\ IsOverdue => AlreadyLogged("overdue")

=============================================================================

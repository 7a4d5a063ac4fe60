------------------------- MODULE DeadlineAlertsProofs -------------------------
(***************************************************************************)
(* What holds of the alerts of a notice for any number of requests, of     *)
(* scheduler processes and of deadlines, and however many processes fire   *)
(* one job; and, with one request at a time, that the jobs follow the      *)
(* notice and that its overdue alert is reported.                          *)
(***************************************************************************)
EXTENDS DeadlineAlerts, TLAPS

\* A dispatch that has inserted its row and not committed it.
HoldsRow(p, t) == run[p].type = t /\ run[p].step \in {"claimed", "sent"}

HasSent(p, t) == run[p].type = t /\ run[p].step = "sent"

\* The row of an alert is held once, and not when it is committed; without a
\* row, held by a sender or committed, every message that left is the message
\* of a dispatcher that died.
OneRow ==
  \A t \in AlertTypes :
    /\ \A p, q \in Schedulers : HoldsRow(p, t) /\ HoldsRow(q, t) => p = q
    /\ AlreadyLogged(t) => \A p \in Schedulers : ~HoldsRow(p, t)
    /\ ~AlreadyLogged(t) /\ (\A p \in Schedulers : ~HasSent(p, t)) => sent[t] <= crashes

\* Only a scheduler at rest has no alert.
RunsAlerts == \A p \in Schedulers : run[p].step # "idle" => run[p].type \in AlertTypes

AlertInv == AlertTypeOK /\ RunsAlerts /\ OneRow /\ SentOnce

Dates == Deadlines \cup {NoDeadline}

\* Every planned job names an alert and a day up to the one after the deadline.
LEMMA PlannedTyped ==
  ASSUME now \in 0..Horizon, NEW d \in Deadlines
  PROVE  Planned(d) \subseteq Job
<1>1. ASSUME NEW t \in AlertTypes, NEW day \in DueDays(t, d)
      PROVE  day \in 0..(d + 1)
  BY <1>1, DeadlinesAssumption DEF DueDays
<1>2. Upcoming(d) \subseteq Job
  BY <1>1 DEF Upcoming, Job
<1>3. [type |-> "overdue", at |-> now] \in Job
  BY AlertTypesAssumption DEF Job
<1> QED
  BY <1>2, <1>3 DEF Planned

LEMMA AlertInitOK == AlertInit => AlertInv
<1> SUFFICES ASSUME AlertInit
             PROVE  AlertInv
  OBVIOUS
<1>1. tail \in [Slots -> [cancel : BOOLEAN, schedule : Dates]]
  BY DEF AlertInit, NoTail, Dates
<1>2. run \in [Schedulers -> [type : AlertTypes \cup {"none"}, step : Steps, deadline : Dates]]
  BY DEF AlertInit, NoRun, Steps, Dates
<1>3. now \in 0..Horizon /\ losses \in Nat /\ crashes \in Nat /\ losses + crashes <= MaxFaults
  BY AlertBoundsAssumption DEF AlertInit
<1>4. AlertTypeOK
  BY <1>1, <1>2, <1>3 DEF AlertInit, AlertTypeOK, NoticeStatus, Dates
<1>5. OneRow /\ SentOnce /\ RunsAlerts
  BY DEF AlertInit, OneRow, SentOnce, RunsAlerts, HoldsRow, HasSent, AlreadyLogged, NoRun
<1> QED
  BY <1>4, <1>5 DEF AlertInv

\* The columns, the tails, the job store and the schedulers keep their types.
LEMMA AlertTypeStep ==
  AlertTypeOK /\ RunsAlerts /\ [AlertNext]_alertVars => AlertTypeOK'
<1> SUFFICES ASSUME AlertTypeOK, RunsAlerts, [AlertNext]_alertVars
             PROVE  AlertTypeOK'
  OBVIOUS
<1> USE AlertBoundsAssumption
<1>1. ASSUME NEW r \in Slots, NEW target \in NoticeStatus, Transition(r, target)
      PROVE  AlertTypeOK'
  BY <1>1 DEF Transition, TailOfTransition, AlertTypeOK
<1>2. ASSUME NEW r \in Slots, NEW d \in Dates, ChangeDeadline(r, d)
      PROVE  AlertTypeOK'
  BY <1>2 DEF ChangeDeadline, TailOfChange, AlertTypeOK, Dates
<1>3. ASSUME NEW d \in Dates, AcceptExtraction(d)
      PROVE  AlertTypeOK'
  BY <1>3 DEF AcceptExtraction, AlertTypeOK, Dates
<1>4. ASSUME NEW r \in Slots, Extracted(r)
      PROVE  AlertTypeOK'
  BY <1>4 DEF Extracted, AlertTypeOK
<1>5. ASSUME NEW r \in Slots, Cancel(r)
      PROVE  AlertTypeOK'
  BY <1>5 DEF Cancel, AlertTypeOK
<1>6. ASSUME NEW r \in Slots, Schedule(r)
      PROVE  AlertTypeOK'
  <2>1. tail[r].schedule \in Deadlines
    BY <1>6 DEF Schedule, AlertTypeOK
  <2>2. jobs' \subseteq Job
    BY <1>6, <2>1, PlannedTyped DEF Schedule, AlertTypeOK
  <2> QED
    BY <1>6, <2>2 DEF Schedule, NoTail, AlertTypeOK
<1>7. ASSUME NEW r \in Slots, LoseTail(r)
      PROVE  AlertTypeOK'
  BY <1>7 DEF LoseTail, NoTail, AlertTypeOK
<1>8. ASSUME NEW job \in jobs, NEW ps \in SUBSET Schedulers, Fire(ps, job)
      PROVE  AlertTypeOK'
  <2>1. job.type \in AlertTypes
    BY DEF AlertTypeOK, Job
  <2> QED
    BY <1>8, <2>1 DEF Fire, NoRun, Steps, AlertTypeOK
<1>9. ASSUME NEW job \in jobs, Misfire(job)
      PROVE  AlertTypeOK'
  BY <1>9 DEF Misfire, AlertTypeOK
<1>10. ASSUME NEW p \in Schedulers, Load(p)
       PROVE  AlertTypeOK'
  BY <1>10 DEF Load, NoRun, Steps, AlertTypeOK
<1>11. ASSUME NEW p \in Schedulers, Claim(p)
       PROVE  AlertTypeOK'
  BY <1>11 DEF Claim, NoRun, Steps, AlertTypeOK
<1>12. ASSUME NEW p \in Schedulers, Send(p)
       PROVE  AlertTypeOK'
  BY <1>12 DEF Send, Steps, AlertTypeOK
<1>13. ASSUME NEW p \in Schedulers, Commit(p)
       PROVE  AlertTypeOK'
  BY <1>13 DEF RunsAlerts, Commit, NoRun, Steps, AlertTypeOK
<1>14. ASSUME NEW p \in Schedulers, Crash(p)
       PROVE  AlertTypeOK'
  BY <1>14 DEF Crash, NoRun, Steps, AlertTypeOK
<1>15. CASE Tick
  BY <1>15 DEF Tick, AlertTypeOK
<1>16. CASE UNCHANGED alertVars
  BY <1>16 DEF alertVars, AlertTypeOK
<1> QED
  BY <1>1, <1>2, <1>3, <1>4, <1>5, <1>6, <1>7, <1>8, <1>9, <1>10, <1>11, <1>12,
     <1>13, <1>14, <1>15, <1>16 DEF AlertNext, Dates

\* The requests, the clock and the job store leave the dispatches alone.
Dispatches == << run, log, sent, crashes >>

LEMMA WhoDispatches ==
  ASSUME [AlertNext]_alertVars
  PROVE  \/ UNCHANGED Dispatches
         \/ \E job \in jobs, ps \in SUBSET Schedulers : Fire(ps, job)
         \/ \E p \in Schedulers : Load(p) \/ Claim(p) \/ Send(p) \/ Commit(p) \/ Crash(p)
BY DEF AlertNext, alertVars, Dispatches, Transition, ChangeDeadline, AcceptExtraction,
       Extracted, Cancel, Schedule, LoseTail, Misfire, Tick

\* A dispatch starts with the alert of its job and keeps it.
LEMMA RunsStep == AlertTypeOK /\ RunsAlerts /\ [AlertNext]_alertVars => RunsAlerts'
<1> SUFFICES ASSUME AlertTypeOK, RunsAlerts, [AlertNext]_alertVars
             PROVE  RunsAlerts'
  OBVIOUS
<1>1. CASE UNCHANGED Dispatches
  BY <1>1 DEF Dispatches, RunsAlerts
<1>2. ASSUME NEW job \in jobs, NEW ps \in SUBSET Schedulers, Fire(ps, job)
      PROVE  RunsAlerts'
  <2>1. job.type \in AlertTypes
    BY DEF AlertTypeOK, Job
  <2> QED
    BY <1>2, <2>1 DEF Fire, NoRun, AlertTypeOK, RunsAlerts
<1>3. ASSUME NEW p \in Schedulers, Load(p) \/ Claim(p) \/ Send(p) \/ Commit(p) \/ Crash(p)
      PROVE  RunsAlerts'
  <2>1. /\ \A q \in Schedulers \ {p} : run'[q] = run[q]
        /\ \/ run'[p].step = "idle"
           \/ run[p].step # "idle" /\ run'[p].type = run[p].type
    <3>1. run[p] \in [type : AlertTypes \cup {"none"}, step : Steps, deadline : Dates]
      BY DEF AlertTypeOK, Dates
    <3>2. CASE Load(p)
      <4>1. CASE notice \in ClosedStatus
        BY <3>2, <4>1 DEF Load, NoRun, AlertTypeOK
      <4>2. CASE notice \notin ClosedStatus
        BY <3>1, <3>2, <4>2 DEF Load, AlertTypeOK
      <4> QED
        BY <4>1, <4>2
    <3>3. CASE Claim(p)
      <4>1. CASE AlreadyLogged(run[p].type)
        BY <3>3, <4>1 DEF Claim, NoRun, AlertTypeOK
      <4>2. CASE ~AlreadyLogged(run[p].type)
        BY <3>1, <3>3, <4>2 DEF Claim, AlertTypeOK
      <4> QED
        BY <4>1, <4>2
    <3>4. CASE Send(p)
      BY <3>1, <3>4 DEF Send, AlertTypeOK
    <3>5. CASE Commit(p) \/ Crash(p)
      BY <3>5 DEF Commit, Crash, NoRun, AlertTypeOK
    <3> QED
      BY <1>3, <3>2, <3>3, <3>4, <3>5
  <2> QED
    BY <2>1 DEF RunsAlerts
<1> QED
  BY <1>1, <1>2, <1>3, WhoDispatches

\* The unique key of notice_alert_log makes the second dispatch of an alert
\* wait for the first and skip, so only one that died leaves room for another.
LEMMA DispatchStep ==
  ASSUME AlertTypeOK, RunsAlerts, OneRow, SentOnce, [AlertNext]_alertVars
  PROVE  OneRow' /\ SentOnce'
<1>1. CASE UNCHANGED Dispatches
  BY <1>1 DEF Dispatches, OneRow, SentOnce, HoldsRow, HasSent, AlreadyLogged
<1>2. ASSUME NEW job \in jobs, NEW ps \in SUBSET Schedulers, Fire(ps, job)
      PROVE  OneRow' /\ SentOnce'
  <2>1. \A q \in Schedulers :
           run'[q] = run[q] \/ (run[q].step = "idle" /\ run'[q].step = "fired")
    <3>1. ASSUME NEW q \in ps
          PROVE  run[q].step = "idle" /\ run'[q].step = "fired"
      <4>1. run[q] = NoRun
        BY <1>2, <3>1 DEF Fire, Idle
      <4>2. run'[q] = [NoRun EXCEPT !.type = job.type, !.step = "fired"]
        BY <1>2, <3>1 DEF Fire
      <4>3. run[q].step = "idle"
        BY <4>1 DEF NoRun
      <4>4. [NoRun EXCEPT !.type = job.type, !.step = "fired"].step = "fired"
        BY DEF NoRun
      <4> QED
        BY <4>2, <4>3, <4>4
    <3>2. ASSUME NEW q \in Schedulers \ ps
          PROVE  run'[q] = run[q]
      BY <1>2, <3>2 DEF Fire
    <3> QED
      BY <3>1, <3>2
  <2>2. \A q \in Schedulers, t \in AlertTypes :
          (HoldsRow(q, t)' <=> HoldsRow(q, t)) /\ (HasSent(q, t)' <=> HasSent(q, t))
    BY <2>1 DEF HoldsRow, HasSent
  <2>3. UNCHANGED << log, sent, crashes >>
    BY <1>2 DEF Fire
  <2> QED
    BY <2>2, <2>3 DEF OneRow, SentOnce, AlreadyLogged
<1>3. ASSUME NEW p \in Schedulers, Load(p)
      PROVE  OneRow' /\ SentOnce'
  <2>1. /\ \A q \in Schedulers \ {p} : run'[q] = run[q]
        /\ run[p].step = "fired" /\ run'[p].step \in {"idle", "loaded"}
    BY <1>3 DEF Load, NoRun, AlertTypeOK
  <2>2. \A q \in Schedulers, t \in AlertTypes :
          (HoldsRow(q, t)' <=> HoldsRow(q, t)) /\ (HasSent(q, t)' <=> HasSent(q, t))
    BY <2>1 DEF HoldsRow, HasSent
  <2>3. UNCHANGED << log, sent, crashes >>
    BY <1>3 DEF Load
  <2> QED
    BY <2>2, <2>3 DEF OneRow, SentOnce, AlreadyLogged
<1>4. ASSUME NEW p \in Schedulers, Claim(p)
      PROVE  OneRow' /\ SentOnce'
  <2>1. /\ \A q \in Schedulers \ {p} : run'[q] = run[q]
        /\ run[p].step = "loaded"
        /\ \/ run'[p] = NoRun
           \/ run'[p].step = "claimed" /\ run'[p].type = run[p].type /\ ~AlreadyLogged(run[p].type)
    BY <1>4 DEF Claim, AlertTypeOK
  <2>2. \A q \in Schedulers \ {p} : ~HoldsRow(q, run[p].type)
    BY <1>4 DEF Claim, Held, HoldsRow
  <2>3. /\ \A q \in Schedulers, t \in AlertTypes : HasSent(q, t)' <=> HasSent(q, t)
        /\ \A q \in Schedulers \ {p}, t \in AlertTypes : HoldsRow(q, t)' <=> HoldsRow(q, t)
        /\ \A t \in AlertTypes : HoldsRow(p, t)' => t = run[p].type /\ ~AlreadyLogged(t)
    BY <2>1 DEF HoldsRow, HasSent, NoRun
  <2>4. UNCHANGED << log, sent, crashes >>
    BY <1>4 DEF Claim
  <2> QED
    BY <2>2, <2>3, <2>4 DEF OneRow, SentOnce, AlreadyLogged
<1>5. ASSUME NEW p \in Schedulers, Send(p)
      PROVE  OneRow' /\ SentOnce'
  <2>0. PICK type \in AlertTypes : type = run[p].type
    BY <1>5 DEF Send, RunsAlerts
  <2>1. /\ \A q \in Schedulers \ {p} : run'[q] = run[q]
        /\ run'[p].step = "sent" /\ run'[p].type = type /\ run[p].step = "claimed"
        /\ UNCHANGED << log, crashes >>
    BY <1>5, <2>0 DEF Send, AlertTypeOK, RunsAlerts
  <2>2. /\ \A q \in Schedulers, t \in AlertTypes : HoldsRow(q, t)' <=> HoldsRow(q, t)
        /\ \A q \in Schedulers, t \in AlertTypes \ {type} : HasSent(q, t)' <=> HasSent(q, t)
        /\ HasSent(p, type)' /\ HoldsRow(p, type) /\ ~HasSent(p, type)
    BY <2>0, <2>1 DEF HoldsRow, HasSent
  <2>3. sent[type] <= crashes
    <3>1. \A q \in Schedulers : ~HasSent(q, type)
      BY <2>1, <2>2 DEF OneRow, HasSent, HoldsRow
    <3> QED
      BY <2>1, <2>2, <3>1 DEF OneRow
  <2>4. /\ \A t \in AlertTypes : sent'[t] \in Nat
        /\ \A t \in AlertTypes \ {type} : sent'[t] = sent[t]
        /\ sent'[type] <= sent[type] + 1
    BY <1>5, <2>0 DEF Send, AlertTypeOK
  <2>5. SentOnce'
    <3>1. crashes \in Nat /\ sent[type] \in Nat /\ sent'[type] \in Nat
      BY <2>1, <2>4 DEF AlertTypeOK
    <3>2. sent'[type] <= 1 + crashes
      BY <2>3, <2>4, <3>1
    <3> QED
      BY <2>1, <2>4, <3>2 DEF SentOnce
  <2>6. \A t \in AlertTypes : AlreadyLogged(t)' <=> AlreadyLogged(t)
    BY <2>1 DEF AlreadyLogged
  <2>7. ASSUME NEW t \in AlertTypes, ~AlreadyLogged(t), \A q \in Schedulers : ~HasSent(q, t)'
        PROVE  sent'[t] <= crashes'
    <3>1. t # type
      BY <2>2, <2>7
    <3> QED
      BY <2>1, <2>2, <2>4, <2>7, <3>1 DEF OneRow
  <2> QED
    BY <2>2, <2>5, <2>6, <2>7 DEF OneRow
<1>6. ASSUME NEW p \in Schedulers, Commit(p)
      PROVE  OneRow' /\ SentOnce'
  <2>0. PICK type \in AlertTypes : type = run[p].type
    BY <1>6 DEF Commit, RunsAlerts
  <2>1. /\ \A q \in Schedulers \ {p} : run'[q] = run[q]
        /\ run'[p] = NoRun /\ run[p].step = "sent"
        /\ UNCHANGED << sent, crashes >>
    BY <1>6 DEF Commit, AlertTypeOK, RunsAlerts
  <2>2. \A t \in AlertTypes : AlreadyLogged(t)' <=> AlreadyLogged(t) \/ t = type
    <3>1. PICK row : row.type = type /\ log' = log \cup {row}
      BY <1>6, <2>0 DEF Commit
    <3> QED
      BY <3>1 DEF AlreadyLogged
  <2>3. /\ \A q \in Schedulers, t \in AlertTypes : HoldsRow(q, t)' => HoldsRow(q, t) /\ q # p
        /\ \A q \in Schedulers, t \in AlertTypes \ {type} : HasSent(q, t) => HasSent(q, t)'
        /\ HoldsRow(p, type)
    BY <2>0, <2>1 DEF HoldsRow, HasSent, NoRun
  <2> QED
    BY <2>1, <2>2, <2>3 DEF OneRow, SentOnce
<1>7. ASSUME NEW p \in Schedulers, Crash(p)
      PROVE  OneRow' /\ SentOnce'
  <2>1. /\ \A q \in Schedulers \ {p} : run'[q] = run[q]
        /\ run'[p] = NoRun
        /\ crashes' = crashes + 1 /\ UNCHANGED << log, sent >>
    BY <1>7 DEF Crash, AlertTypeOK
  <2>2. \A q \in Schedulers, t \in AlertTypes : HoldsRow(q, t)' => HoldsRow(q, t)
    BY <2>1 DEF HoldsRow, NoRun
  <2>3. \A t \in AlertTypes : sent'[t] <= crashes'
    BY <2>1 DEF SentOnce, AlertTypeOK
  <2>4. SentOnce'
    BY <2>1 DEF SentOnce, AlertTypeOK
  <2>5. \A t \in AlertTypes : AlreadyLogged(t)' <=> AlreadyLogged(t)
    BY <2>1 DEF AlreadyLogged
  <2> QED
    BY <2>2, <2>3, <2>4, <2>5 DEF OneRow
<1> QED
  BY <1>1, <1>2, <1>3, <1>4, <1>5, <1>6, <1>7, WhoDispatches

\* The inductive invariant of the job store, the dispatches and the alert log.
THEOREM AlertInvariance == AlertSpec => []AlertInv
<1>1. AlertInv /\ [AlertNext]_alertVars => AlertInv'
  BY AlertTypeStep, RunsStep, DispatchStep DEF AlertInv
<1> QED
  BY AlertInitOK, <1>1, PTL DEF AlertSpec

\* Type correctness: among others, no job is ever planned for a day after the
\* one that follows the last deadline.
THEOREM AlertsTypeCorrect == AlertSpec => []AlertTypeOK
  BY AlertInvariance, PTL DEF AlertInv

\* dispatch_alert: an alert leaves once, however many processes fire its job
\* and however often it is rescheduled, and once more for each dispatcher that
\* died between its sending and its commit.
THEOREM AlertLeavesOnce == AlertSpec => []SentOnce
  BY AlertInvariance, PTL DEF AlertInv
-----------------------------------------------------------------------------
(***************************************************************************)
(* One request at a time.  A tail then tells the jobs of the deadline in   *)
(* the row, and the store holds the jobs of that deadline and late ones.   *)
(***************************************************************************)
OneAtATime == \A r, q \in Slots : r = q

\* Nothing was lost and no deadline was written behind the jobs' back.
Told == losses = 0 /\ ~silent

TailsTell ==
  Told => \A r \in Slots :
    /\ tail[r].schedule \in {NoDeadline, deadline}
    /\ tail[r].schedule = NoDeadline /\ tail[r] # NoTail
         => notice \in ClosedStatus \/ deadline = NoDeadline

Belongs(job) == (deadline # NoDeadline /\ job \in Upcoming(deadline)) \/ Due(job)

\* Whatever the next tail will not cancel is late or of this deadline.
JobsBelong ==
  Told /\ (\A r \in Slots : ~tail[r].cancel) => \A job \in jobs : Belongs(job)

WatchInv == TailsTell /\ OpenIsWatched /\ JobsBelong

LEMMA NoTailIs == NoTail.cancel = FALSE /\ NoTail.schedule = NoDeadline
  BY DEF NoTail

LEMMA TailIs ==
  ASSUME AlertTypeOK, NEW r \in Slots
  PROVE  /\ tail[r].cancel \in BOOLEAN
         /\ ~tail[r].cancel /\ tail[r].schedule = NoDeadline => tail[r] = NoTail
  BY DEF AlertTypeOK, NoTail

LEMMA UpcomingIs ==
  ASSUME AlertTypeOK, NEW d \in Deadlines, NEW job \in Upcoming(d)
  PROVE  /\ job.at \in Nat /\ now \in Nat /\ job.at > now
         /\ job.at <= d + 1
  BY DeadlinesAssumption, AlertBoundsAssumption DEF Upcoming, DueDays, AlertTypeOK

\* A day later less is upcoming, and what is not any more is due.
LEMMA ADayLater ==
  ASSUME AlertTypeOK, now' = now + 1, NEW d \in Deadlines
  PROVE  /\ Upcoming(d)' \subseteq Upcoming(d)
         /\ \A job \in Upcoming(d) : job \in Upcoming(d)' \/ Due(job)'
<1>1. now \in Nat
  BY AlertBoundsAssumption DEF AlertTypeOK
<1>2. \A job \in Upcoming(d) : job.at \in Nat
  BY UpcomingIs
<1>3. \A job \in Upcoming(d)' : job.at \in Nat
  BY DeadlinesAssumption DEF Upcoming, DueDays
<1> QED
  BY <1>1, <1>2, <1>3 DEF Upcoming, Due

\* Steps that leave the row, the tails and the clock alone and lose no job
\* that is still to come.
LEMMA JobsRun ==
  ASSUME AlertTypeOK, WatchInv,
         UNCHANGED << now, notice, deadline, tail, silent, losses >>,
         jobs' \subseteq jobs, \A job \in jobs \ jobs' : Due(job)
  PROVE  WatchInv'
<1>1. \A d \in Deadlines : Upcoming(d)' = Upcoming(d)
  BY DEF Upcoming
<1>2. \A job \in jobs : Belongs(job)' <=> Belongs(job)
  BY DEF Belongs, Upcoming, Due
<1>3. TailsTell' /\ JobsBelong'
  BY <1>2 DEF WatchInv, TailsTell, JobsBelong, Told, ClosedStatus
<1>4. ASSUME NEW d \in Deadlines, NEW job \in Upcoming(d), job \in jobs
      PROVE  job \in jobs'
  BY <1>4, UpcomingIs DEF Due
<1>5. OpenIsWatched'
  BY <1>1, <1>4 DEF WatchInv, OpenIsWatched, Watched, Quiet, AlertTypeOK
<1> QED
  BY <1>3, <1>5 DEF WatchInv

LEMMA WatchStep ==
  OneAtATime /\ AlertTypeOK /\ WatchInv /\ [AlertNext]_alertVars => WatchInv'
<1> SUFFICES ASSUME OneAtATime, AlertTypeOK, WatchInv, [AlertNext]_alertVars
             PROVE  WatchInv'
  OBVIOUS
<1> USE DEF OneAtATime
<1>1. ASSUME NEW r \in Slots, NEW target \in NoticeStatus, Transition(r, target)
      PROVE  WatchInv'
  <2>1. \A q \in Slots : tail'[q] = TailOfTransition(target) /\ tail[q] = NoTail
    BY <1>1 DEF Transition, AlertTypeOK
  <2>2. UNCHANGED << now, deadline, jobs, losses >> /\ notice' = target
        /\ silent' = (silent /\ target \in OpenStatus)
    BY <1>1 DEF Transition
  <2>3. CASE target \in ClosedStatus
    <3>1. \A q \in Slots : tail'[q].cancel /\ tail'[q].schedule = NoDeadline
      <4>1. (target \in ClosedStatus) = TRUE
        BY <2>3
      <4>2. target # "under_review"
        BY <2>3 DEF ClosedStatus, OpenStatus
      <4>3. TailOfTransition(target).cancel = (target \in ClosedStatus)
        BY DEF TailOfTransition
      <4>4. TailOfTransition(target).schedule = NoDeadline
        BY <4>2 DEF TailOfTransition
      <4>5. TailOfTransition(target).cancel = TRUE
        BY <4>1, <4>3
      <4> QED
        BY <2>1, <4>4, <4>5
    <3>2. notice' \in ClosedStatus /\ notice' \notin OpenStatus
      BY <2>2, <2>3 DEF ClosedStatus
    <3> QED
      BY <3>1, <3>2 DEF WatchInv, TailsTell, OpenIsWatched, JobsBelong, ClosedStatus
  <2>4. CASE target \notin ClosedStatus
    <3>0. (target \in ClosedStatus) = FALSE
      BY <2>4
    <3>1. silent' = silent /\ target \in OpenStatus
      BY <2>2, <2>4 DEF ClosedStatus, AlertTypeOK
    <3>2. Told' <=> Told
      BY <2>2, <3>1 DEF Told
    <3>3. JobsBelong'
      BY <2>1, <2>2, <3>2, NoTailIs DEF WatchInv, JobsBelong, Belongs, Upcoming, Due
    <3>4. CASE target = "under_review"
      <4>1. \A q \in Slots : tail'[q] = [cancel |-> FALSE, schedule |-> deadline]
        BY <2>1, <3>0, <3>4 DEF TailOfTransition
      <4>2. TailsTell'
        BY <2>2, <4>1 DEF TailsTell, NoTail
      <4>3. OpenIsWatched'
        BY <1>1, <2>2, <4>1 DEF OpenIsWatched, Quiet, NoTail
      <4> QED
        BY <3>3, <4>2, <4>3 DEF WatchInv
    <3>5. CASE target # "under_review"
      <4>1. \A q \in Slots : tail'[q] = NoTail
        BY <2>1, <3>0, <3>5 DEF TailOfTransition, NoTail
      <4>2. TailsTell'
        BY <4>1, NoTailIs DEF TailsTell
      <4>3. notice \in OpenStatus
        BY <1>1, <3>1, <3>5 DEF Transition, AllowedTransitions, OpenStatus, AlertTypeOK, NoticeStatus
      <4>4. OpenIsWatched'
        BY <2>1, <2>2, <3>1, <4>3 DEF WatchInv, OpenIsWatched, Quiet, Watched, Upcoming
      <4> QED
        BY <3>3, <4>2, <4>4 DEF WatchInv
    <3> QED
      BY <3>4, <3>5
  <2> QED
    BY <2>3, <2>4
<1>2. ASSUME NEW r \in Slots, NEW d \in Dates, ChangeDeadline(r, d)
      PROVE  WatchInv'
  <2>1. \A q \in Slots : tail'[q] = TailOfChange(d)
    BY <1>2 DEF ChangeDeadline, AlertTypeOK
  <2>2. deadline' = d /\ notice' = notice
    BY <1>2 DEF ChangeDeadline
  <2>3. notice \notin OpenStatus => notice \in ClosedStatus
    BY DEF ClosedStatus, AlertTypeOK
  <2> QED
    BY <1>2, <2>1, <2>2, <2>3
       DEF WatchInv, TailsTell, OpenIsWatched, JobsBelong, TailOfChange, Quiet, NoTail, ClosedStatus
<1>3. ASSUME NEW d \in Dates, AcceptExtraction(d)
      PROVE  WatchInv'
  BY <1>3 DEF AcceptExtraction, WatchInv, TailsTell, OpenIsWatched, JobsBelong, Told
<1>4. ASSUME NEW r \in Slots, Extracted(r)
      PROVE  WatchInv'
  <2>1. \A q \in Slots : tail'[q] = [cancel |-> FALSE, schedule |-> deadline'] /\ tail[q] = NoTail
    BY <1>4 DEF Extracted, AlertTypeOK
  <2>2. UNCHANGED << now, notice, jobs, losses, silent >>
        /\ (deadline # NoDeadline => deadline' = deadline)
    BY <1>4 DEF Extracted
  <2>3. TailsTell' /\ OpenIsWatched'
    BY <1>4, <2>1 DEF TailsTell, OpenIsWatched, Quiet, NoTail
  <2>4. JobsBelong'
    BY <2>1, <2>2, NoTailIs DEF WatchInv, JobsBelong, Told, Belongs, Upcoming, Due
  <2> QED
    BY <2>3, <2>4 DEF WatchInv
<1>5. ASSUME NEW r \in Slots, Cancel(r)
      PROVE  WatchInv'
  <2>1. /\ \A q \in Slots : tail'[q] = [cancel |-> FALSE, schedule |-> tail[r].schedule]
        /\ tail[r] # NoTail
    BY <1>5, NoTailIs DEF Cancel, AlertTypeOK
  <2>2. jobs' = {} /\ UNCHANGED << now, notice, deadline, losses, silent >>
    BY <1>5 DEF Cancel
  <2>3. TailsTell'
    BY <2>1, <2>2 DEF WatchInv, TailsTell, Told, ClosedStatus
  <2>4. OpenIsWatched'
    BY <1>5, <2>1, <2>2 DEF WatchInv, TailsTell, Told, OpenIsWatched, Quiet, NoTail, ClosedStatus
  <2> QED
    BY <2>2, <2>3, <2>4 DEF WatchInv, JobsBelong
<1>6. ASSUME NEW r \in Slots, Schedule(r)
      PROVE  WatchInv'
  <2> DEFINE d == tail[r].schedule
  <2>1. /\ \A q \in Slots : tail'[q] = NoTail
        /\ \A q \in Slots : ~tail[q].cancel
        /\ d \in Deadlines
        /\ UNCHANGED << now, notice, deadline, losses, silent >>
    BY <1>6 DEF Schedule, AlertTypeOK
  <2>2. /\ Planned(d) \subseteq jobs'
        /\ \A job \in jobs' : job \in jobs \/ job \in Planned(d)
    BY <1>6 DEF Schedule
  <2>3. Told' <=> Told
    BY <2>1 DEF Told
  <2>4. Told => d = deadline
    BY <1>6, <2>1 DEF WatchInv, TailsTell, Schedule
  <2>5. TailsTell'
    BY <2>1, NoTailIs DEF TailsTell
  <2>6. Upcoming(d) \subseteq Planned(d)
    BY DEF Planned
  <2>7. \A job \in Planned(d) : job \in Upcoming(d) \/ Due(job)
    BY DEF Planned, Due, AlertTypeOK
  <2>8. \A e : Upcoming(e)' = Upcoming(e)
    BY <2>1 DEF Upcoming
  <2>9. OpenIsWatched'
    BY <2>1, <2>2, <2>3, <2>4, <2>6, <2>8 DEF OpenIsWatched, Watched, Told, Upcoming
  <2>10. ASSUME Told, NEW job \in jobs'
         PROVE  Belongs(job)'
    <3>1. Belongs(job)
      BY <2>1, <2>2, <2>4, <2>7, <2>10, DeadlinesAssumption DEF WatchInv, JobsBelong, Belongs
    <3> QED
      BY <2>1, <3>1 DEF Belongs, Upcoming, Due
  <2> QED
    BY <2>3, <2>5, <2>9, <2>10 DEF WatchInv, JobsBelong
<1>7. ASSUME \/ \E r \in Slots : LoseTail(r)
             \/ \E job \in jobs : Misfire(job)
      PROVE  WatchInv'
  <2>1. losses' # 0
    BY <1>7 DEF LoseTail, Misfire, AlertTypeOK
  <2> QED
    BY <2>1 DEF WatchInv, TailsTell, OpenIsWatched, JobsBelong, Told
<1>8. ASSUME \/ \E job \in jobs, ps \in SUBSET Schedulers : Fire(ps, job)
             \/ \E p \in Schedulers : Load(p) \/ Claim(p) \/ Send(p) \/ Commit(p) \/ Crash(p)
             \/ UNCHANGED alertVars
      PROVE  WatchInv'
  BY <1>8, JobsRun DEF Fire, Load, Claim, Send, Commit, Crash, alertVars
<1>9. CASE Tick
  <2>1. now' = now + 1 /\ UNCHANGED << notice, deadline, tail, jobs, losses, silent >>
    BY <1>9 DEF Tick
  <2>2. TailsTell'
    BY <2>1 DEF WatchInv, TailsTell, Told, ClosedStatus
  <2>3. deadline # NoDeadline => deadline \in Deadlines
    BY DEF AlertTypeOK
  <2>4. OpenIsWatched'
    BY <2>1, <2>3, ADayLater DEF WatchInv, OpenIsWatched, Quiet, Watched
  <2>5. ASSUME NEW job \in jobs, Belongs(job)
        PROVE  Belongs(job)'
    <3>1. Due(job) => Due(job)'
      BY <2>1, AlertBoundsAssumption, DeadlinesAssumption DEF Due, AlertTypeOK, Job
    <3> QED
      BY <2>1, <2>3, <2>5, <3>1, ADayLater DEF Belongs
  <2> QED
    BY <2>1, <2>2, <2>4, <2>5 DEF WatchInv, JobsBelong, Told
<1> QED
  BY <1>1, <1>2, <1>3, <1>4, <1>5, <1>6, <1>7, <1>8, <1>9 DEF AlertNext, Dates
-----------------------------------------------------------------------------
(***************************************************************************)
(* The overdue alert.                                                      *)
(***************************************************************************)
UnderWay ==
  \/ \E job \in jobs : job.type = "overdue"
  \/ \E p \in Schedulers : run[p].type = "overdue" /\ run[p].step # "idle"

\* A notice open past its deadline has an overdue job, a dispatch of one or a row.
Reporting ==
  Told /\ crashes = 0 /\ Quiet /\ IsOverdue => UnderWay \/ AlreadyLogged("overdue")

\* Past the deadline nothing is to come; the day before, the overdue job is.
LEMMA OverdueDays ==
  ASSUME AlertTypeOK, deadline \in Deadlines
  PROVE  /\ now > deadline => Upcoming(deadline) = {}
         /\ now <= deadline => [type |-> "overdue", at |-> deadline + 1] \in Upcoming(deadline)
<1>1. now \in Nat /\ deadline \in Nat
  BY AlertBoundsAssumption, DeadlinesAssumption DEF AlertTypeOK
<1>2. ASSUME now > deadline, NEW job \in Upcoming(deadline)
      PROVE  FALSE
  BY <1>1, <1>2, UpcomingIs
<1>3. ASSUME now <= deadline
      PROVE  [type |-> "overdue", at |-> deadline + 1] \in Upcoming(deadline)
  BY <1>1, <1>3, AlertTypesAssumption DEF Upcoming, DueDays
<1> QED
  BY <1>2, <1>3

\* What keeps an alert under way: its job or its dispatch.
LEMMA StillUnderWay ==
  ASSUME UnderWay, \A job \in jobs : job.type = "overdue" => job \in jobs',
         \A p \in Schedulers : run[p].type = "overdue" /\ run[p].step # "idle"
           => run'[p].type = "overdue" /\ run'[p].step # "idle"
  PROVE  UnderWay'
  BY DEF UnderWay

LEMMA SettledReported ==
  ASSUME AlertTypeOK, WatchInv, Reporting
  PROVE  OverdueIsReported
<1> SUFFICES ASSUME Settled, IsOverdue, ~AlreadyLogged("overdue")
             PROVE  FALSE
  BY DEF OverdueIsReported
<1>1. UnderWay /\ deadline \in Deadlines /\ now > deadline
  BY DEF Reporting, Settled, Told, IsOverdue, AlertTypeOK
<1>2. \A p \in Schedulers : run[p].step = "idle"
  BY DEF Settled, Resting, Idle, NoRun
<1>3. PICK job \in jobs : job.type = "overdue"
  BY <1>1, <1>2 DEF UnderWay
<1>4. ~Due(job) /\ \A r \in Slots : ~tail[r].cancel
  BY NoTailIs DEF Settled, Quiet
<1>5. job \in Upcoming(deadline)
  BY <1>4 DEF WatchInv, JobsBelong, Belongs, Told, Settled
<1> QED
  BY <1>1, <1>5, OverdueDays

LEMMA ReportingStep ==
  OneAtATime /\ AlertTypeOK /\ RunsAlerts /\ WatchInv /\ Reporting /\ [AlertNext]_alertVars
    => Reporting'
<1> SUFFICES ASSUME OneAtATime, AlertTypeOK, RunsAlerts, WatchInv, Reporting,
                    [AlertNext]_alertVars,
                    Told', crashes' = 0, Quiet', IsOverdue'
             PROVE  UnderWay' \/ AlreadyLogged("overdue")'
  BY DEF Reporting
<1> USE DEF OneAtATime
<1>1. ASSUME NEW r \in Slots, NEW target \in NoticeStatus, Transition(r, target)
      PROVE  UnderWay' \/ AlreadyLogged("overdue")'
  <2>1. tail'[r] = TailOfTransition(target) /\ tail'[r] = NoTail
    BY <1>1 DEF Transition, AlertTypeOK, Quiet
  <2>2. /\ \A q \in Slots : tail[q] = NoTail
        /\ notice' = target /\ target \in OpenStatus
        /\ deadline # NoDeadline /\ now > deadline
        /\ UNCHANGED << now, deadline, jobs, run, log, losses, crashes >>
    BY <1>1 DEF Transition, IsOverdue
  <2>3. target # "under_review"
    BY <2>1, <2>2 DEF TailOfTransition, NoTail
  <2>4. notice \in OpenStatus /\ Told
    BY <1>1, <2>2, <2>3
       DEF Transition, AllowedTransitions, OpenStatus, AlertTypeOK, NoticeStatus, Told
  <2>5. UnderWay \/ AlreadyLogged("overdue")
    BY <2>2, <2>4 DEF Reporting, Quiet, IsOverdue
  <2> QED
    BY <2>2, <2>5 DEF UnderWay, AlreadyLogged
<1>2. ASSUME NEW r \in Slots, NEW d \in Dates, ChangeDeadline(r, d)
      PROVE  FALSE
  <2>1. tail'[r].cancel = TRUE
    BY <1>2 DEF ChangeDeadline, TailOfChange, AlertTypeOK
  <2> QED
    BY <2>1, NoTailIs DEF Quiet
<1>3. ASSUME NEW d \in Dates, AcceptExtraction(d)
      PROVE  FALSE
  BY <1>3 DEF AcceptExtraction, Told
<1>4. ASSUME NEW r \in Slots, Extracted(r)
      PROVE  FALSE
  <2>1. tail'[r].schedule = deadline'
    BY <1>4 DEF Extracted, AlertTypeOK
  <2> QED
    BY <2>1, NoTailIs DEF Quiet, IsOverdue
<1>5. ASSUME NEW r \in Slots, Cancel(r)
      PROVE  FALSE
  <2>1. tail'[r].schedule = tail[r].schedule /\ tail[r] # NoTail
    BY <1>5, NoTailIs DEF Cancel, AlertTypeOK
  <2>2. tail[r].schedule = NoDeadline
    BY <2>1, NoTailIs DEF Quiet
  <2>3. notice \in ClosedStatus \/ deadline = NoDeadline
    BY <1>5, <2>1, <2>2 DEF WatchInv, TailsTell, Told, Cancel
  <2> QED
    BY <1>5, <2>3 DEF Cancel, IsOverdue, ClosedStatus
<1>6. ASSUME NEW r \in Slots, Schedule(r)
      PROVE  UnderWay'
  <2>1. tail[r].schedule = deadline /\ deadline \in Deadlines /\ now > deadline
    BY <1>6 DEF Schedule, WatchInv, TailsTell, Told, IsOverdue, AlertTypeOK
  <2>2. Planned(deadline) = {[type |-> "overdue", at |-> now]}
    BY <2>1, OverdueDays DEF Planned
  <2>3. Planned(deadline) \subseteq jobs'
    BY <1>6, <2>1 DEF Schedule
  <2> QED
    BY <2>2, <2>3 DEF UnderWay
<1>7. ASSUME \/ \E r \in Slots : LoseTail(r)
             \/ \E job \in jobs : Misfire(job)
             \/ \E p \in Schedulers : Crash(p)
      PROVE  FALSE
  BY <1>7 DEF LoseTail, Misfire, Crash, Told, AlertTypeOK
\* The dispatches touch no request and no row of the notice.
<1>8. ASSUME UNCHANGED << now, notice, deadline, tail, silent, losses, crashes >>
      PROVE  UnderWay \/ AlreadyLogged("overdue")
  BY <1>8 DEF Reporting, Told, Quiet, IsOverdue
<1>9. ASSUME NEW job \in jobs, NEW ps \in SUBSET Schedulers, Fire(ps, job)
      PROVE  UnderWay' \/ AlreadyLogged("overdue")'
  <2>1. log' = log /\ jobs' = jobs \ {job}
    BY <1>9 DEF Fire
  <2>2. \A p \in Schedulers : run[p].step # "idle" => run'[p] = run[p]
    BY <1>9 DEF Fire, Idle, NoRun
  <2>3. CASE job.type = "overdue"
    <3>1. PICK p \in Schedulers : p \in ps
      BY <1>9 DEF Fire
    <3>2. run'[p].type = "overdue" /\ run'[p].step = "fired"
      BY <1>9, <2>3, <3>1 DEF Fire, NoRun
    <3> QED
      BY <3>2 DEF UnderWay
  <2>4. CASE job.type # "overdue"
    <3>1. UnderWay => UnderWay'
      BY <2>1, <2>2, <2>4, StillUnderWay
    <3> QED
      BY <1>8, <1>9, <2>1, <3>1 DEF Fire, AlreadyLogged
  <2> QED
    BY <2>3, <2>4
<1>10. ASSUME NEW p \in Schedulers, Load(p)
       PROVE  UnderWay' \/ AlreadyLogged("overdue")'
  <2>1. /\ notice \notin ClosedStatus
        /\ log' = log /\ jobs' = jobs
    BY <1>10 DEF Load, IsOverdue, ClosedStatus
  <2>2. /\ \A q \in Schedulers \ {p} : run'[q] = run[q]
        /\ run'[p].type = run[p].type /\ run'[p].step = "loaded"
    BY <1>10, <2>1 DEF Load, AlertTypeOK
  <2>3. UnderWay => UnderWay'
    BY <2>1, <2>2, StillUnderWay
  <2> QED
    BY <1>8, <1>10, <2>1, <2>3 DEF Load, AlreadyLogged
<1>11. ASSUME NEW p \in Schedulers, Claim(p)
       PROVE  UnderWay' \/ AlreadyLogged("overdue")'
  <2>1. log' = log /\ jobs' = jobs
    BY <1>11 DEF Claim
  <2>2. CASE AlreadyLogged(run[p].type)
    <3>1. \A q \in Schedulers \ {p} : run'[q] = run[q]
      BY <1>11 DEF Claim, AlertTypeOK
    <3>2. run[p].type = "overdue" => AlreadyLogged("overdue")
      BY <2>2
    <3>3. run[p].type # "overdue" /\ UnderWay => UnderWay'
      BY <2>1, <3>1, StillUnderWay
    <3> QED
      BY <1>8, <1>11, <2>1, <3>2, <3>3 DEF Claim, AlreadyLogged
  <2>3. CASE ~AlreadyLogged(run[p].type)
    <3>1. /\ \A q \in Schedulers \ {p} : run'[q] = run[q]
          /\ run'[p].type = run[p].type /\ run'[p].step = "claimed"
      BY <1>11, <2>3 DEF Claim, AlertTypeOK
    <3>2. UnderWay => UnderWay'
      BY <2>1, <3>1, StillUnderWay
    <3> QED
      BY <1>8, <1>11, <2>1, <3>2 DEF Claim, AlreadyLogged
  <2> QED
    BY <2>2, <2>3
<1>12. ASSUME NEW p \in Schedulers, Send(p)
       PROVE  UnderWay' \/ AlreadyLogged("overdue")'
  <2>1. log' = log /\ jobs' = jobs
    BY <1>12 DEF Send
  <2>2. /\ \A q \in Schedulers \ {p} : run'[q] = run[q]
        /\ run'[p].type = run[p].type /\ run'[p].step = "sent"
    BY <1>12 DEF Send, AlertTypeOK
  <2>3. UnderWay => UnderWay'
    BY <2>1, <2>2, StillUnderWay
  <2> QED
    BY <1>8, <1>12, <2>1, <2>3 DEF Send, AlreadyLogged
<1>13. ASSUME NEW p \in Schedulers, Commit(p)
       PROVE  UnderWay' \/ AlreadyLogged("overdue")'
  <2>1. /\ jobs' = jobs
        /\ log' = log \cup {[type |-> run[p].type, deadline |-> run[p].deadline]}
        /\ \A q \in Schedulers \ {p} : run'[q] = run[q]
    BY <1>13 DEF Commit, AlertTypeOK
  <2>2. run[p].type = "overdue" => AlreadyLogged("overdue")'
    <3> DEFINE row == [type |-> run[p].type, deadline |-> run[p].deadline]
    <3>1. row \in log' /\ row.type = run[p].type
      BY <2>1
    <3> HIDE DEF row
    <3> QED
      BY <3>1 DEF AlreadyLogged
  <2>3. run[p].type # "overdue" /\ UnderWay => UnderWay'
    BY <2>1, StillUnderWay
  <2>4. AlreadyLogged("overdue") => AlreadyLogged("overdue")'
    BY <2>1 DEF AlreadyLogged
  <2> QED
    BY <1>8, <1>13, <2>2, <2>3, <2>4 DEF Commit
<1>14. CASE Tick
  <2>1. /\ now' = now + 1 /\ Quiet /\ Settled
        /\ UNCHANGED << notice, deadline, jobs, run, log >>
    BY <1>14 DEF Tick, Told, Settled
  <2>2. deadline \in Deadlines /\ notice \in OpenStatus /\ now + 1 > deadline
    BY <2>1 DEF IsOverdue, AlertTypeOK
  <2>3. CASE now > deadline
    <3>1. AlreadyLogged("overdue")
      BY <2>1, <2>2, <2>3, SettledReported, DeadlinesAssumption DEF OverdueIsReported, IsOverdue
    <3> QED
      BY <2>1, <3>1 DEF AlreadyLogged
  <2>4. CASE ~(now > deadline)
    <3>1. now <= deadline
      BY <2>2, <2>4, AlertBoundsAssumption, DeadlinesAssumption DEF AlertTypeOK
    <3>2. Watched
      BY <2>1, <2>2, DeadlinesAssumption DEF WatchInv, OpenIsWatched, Settled
    <3>3. [type |-> "overdue", at |-> deadline + 1] \in jobs
      BY <2>2, <3>1, <3>2, OverdueDays DEF Watched
    <3> QED
      BY <2>1, <3>3 DEF UnderWay
  <2> QED
    BY <2>3, <2>4
<1>15. CASE UNCHANGED alertVars
  BY <1>8, <1>15 DEF alertVars, UnderWay, AlreadyLogged
<1> QED
  BY <1>1, <1>2, <1>3, <1>4, <1>5, <1>6, <1>7, <1>9, <1>10, <1>11, <1>12, <1>13, <1>14, <1>15
     DEF AlertNext, Dates

SerialInv == AlertInv /\ WatchInv /\ Reporting

\* With one request at a time the store follows the row: the inductive invariant.
THEOREM SerialInvariance == ASSUME OneAtATime PROVE AlertSpec => []SerialInv
<1>1. AlertInit => WatchInv /\ Reporting
  <2> SUFFICES ASSUME AlertInit PROVE WatchInv /\ Reporting
    OBVIOUS
  <2>1. jobs = {} /\ now = 0 /\ deadline \in Dates
    BY DEF AlertInit, Dates
  <2>2. \A r \in Slots : tail[r] = [cancel |-> FALSE, schedule |-> deadline]
    BY DEF AlertInit, OneAtATime
  <2>3. \E r \in Slots : TRUE
    BY DEF AlertInit
  <2>4. Quiet => deadline = NoDeadline
    BY <2>2, <2>3, NoTailIs DEF Quiet
  <2>5. \A r \in Slots : tail[r].schedule = NoDeadline => deadline = NoDeadline
    BY <2>2
  <2> QED
    BY <2>1, <2>2, <2>4, <2>5
       DEF WatchInv, TailsTell, OpenIsWatched, JobsBelong, Reporting, IsOverdue
<1>2. AlertInv /\ (WatchInv /\ Reporting) /\ [AlertNext]_alertVars => (WatchInv /\ Reporting)'
  BY WatchStep, ReportingStep DEF AlertInv
<1>3. AlertInv /\ (WatchInv /\ Reporting) <=> SerialInv
  BY DEF SerialInv
<1> QED
  BY <1>1, <1>2, <1>3, AlertInvariance, PTL DEF AlertSpec

\* schedule_deadline_alerts: an open notice has its job for every alert to come.
THEOREM OpenStaysWatched == ASSUME OneAtATime PROVE AlertSpec => []OpenIsWatched
<1>1. SerialInv => OpenIsWatched
  BY DEF SerialInv, WatchInv
<1> QED
  BY <1>1, SerialInvariance, PTL

\* cancel_deadline_alerts: no job of another deadline is left to an open notice.
THEOREM NoJobStrays == ASSUME OneAtATime PROVE AlertSpec => []NoStrayJobs
<1>1. SerialInv => NoStrayJobs
  BY NoTailIs DEF SerialInv, WatchInv, JobsBelong, Belongs, NoStrayJobs, Told, Quiet
<1> QED
  BY <1>1, SerialInvariance, PTL

\* A notice left open past its deadline has been reported overdue once all is
\* settled (schedule_deadline_alerts with all dates past, dispatch_alert).
THEOREM OverdueGetsReported == ASSUME OneAtATime PROVE AlertSpec => []OverdueIsReported
<1>1. SerialInv => OverdueIsReported
  BY SettledReported DEF SerialInv, AlertInv
<1> QED
  BY <1>1, SerialInvariance, PTL
=============================================================================

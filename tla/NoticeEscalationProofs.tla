----------------------- MODULE NoticeEscalationProofs -----------------------
(***************************************************************************)
(* What holds of every run of NoticeEscalation: for any number of workers  *)
(* and tasks, whatever the notice is worth and however many nights pass,   *)
(* workers die or brokers fail.                                            *)
(***************************************************************************)
EXTENDS NoticeEscalation, TLAPS

LEMMA BoundsAreNatural ==
  /\ MaxDays \in Nat /\ AlertRetries \in Nat /\ MaxFaults \in Nat
  /\ NoWorker \notin Workers
  BY EscalationAssumption

-----------------------------------------------------------------------------
(***************************************************************************)
(* The score.                                                              *)
(***************************************************************************)
LEMMA SeverityTyped == Severity(Profile.authority) \in Nat
  BY DEF Severity

LEMMA MagnitudeTyped == Magnitude(Profile.decades) \in Nat
  BY EscalationAssumption DEF Magnitude, AtMost

\* The points of a notice are the pressure of its deadline and what it is worth
\* on any day, up to one hundred points.
LEMMA PointsSplit ==
  \E worth \in Nat : \A d \in Int : Points(d) = AtMost(8400, worth + DeadlinePressure(d))
<1>1. PICK x \in Nat : x = (IF Profile.section THEN 1260 ELSE 0)
  OBVIOUS
<1>2. PICK y \in Nat : y = (IF Profile.chain THEN 420 ELSE 0)
  OBVIOUS
<1>3. PICK a \in Nat : a = Severity(Profile.authority)
  BY SeverityTyped
<1>4. PICK b \in Nat : b = Magnitude(Profile.decades)
  BY MagnitudeTyped
<1> DEFINE worth == a + b + x + y
<1>5. worth \in Nat
  OBVIOUS
<1>6. ASSUME NEW d \in Int
      PROVE  Points(d) = AtMost(8400, worth + DeadlinePressure(d))
  <2>1. DeadlinePressure(d) \in Nat
    BY DEF DeadlinePressure, AtMost
  <2>2. Points(d) = AtMost(8400, a + b + DeadlinePressure(d) + x + y)
    BY <1>1, <1>2, <1>3, <1>4 DEF Points
  <2>3. a + b + DeadlinePressure(d) + x + y = worth + DeadlinePressure(d)
    BY <2>1
  <2> QED
    BY <2>2, <2>3
<1> HIDE DEF worth
<1> QED
  BY <1>5, <1>6

\* Coming nearer to the deadline costs no points.
LEMMA NearerIsNoSafer ==
  ASSUME NEW d \in Int, NEW e \in Int, d <= e
  PROVE  Points(d) \in Int /\ Points(e) \in Int /\ Points(e) <= Points(d)
<1>1. PICK worth \in Nat : \A c \in Int : Points(c) = AtMost(8400, worth + DeadlinePressure(c))
  BY PointsSplit
<1>2. Points(d) = AtMost(8400, worth + DeadlinePressure(d))
  BY <1>1
<1>3. Points(e) = AtMost(8400, worth + DeadlinePressure(e))
  BY <1>1
<1> QED
  BY <1>2, <1>3 DEF DeadlinePressure, AtMost

LEMMA TierTyped ==
  ASSUME NEW d \in Int
  PROVE  TierOf(d) \in Tiers
  BY DEF TierOf, Tiers

\* Nor does it lower the tier.
LEMMA TierMonotone ==
  ASSUME NEW d \in Int, NEW e \in Int, d <= e
  PROVE  Rank(TierOf(e)) <= Rank(TierOf(d))
<1>1. PICK m \in Int : m = Points(d)
  BY NearerIsNoSafer
<1>2. PICK n \in Int : n = Points(e)
  BY NearerIsNoSafer
<1>3. n <= m
  BY <1>1, <1>2, NearerIsNoSafer
<1> QED
  BY <1>1, <1>2, <1>3 DEF TierOf, Rank

LEMMA RankTyped ==
  ASSUME NEW t \in Tiers
  PROVE  Rank(t) \in 0..3
  BY DEF Rank, Tiers

-----------------------------------------------------------------------------
(***************************************************************************)
(* The inductive invariant.                                                *)
(***************************************************************************)
\* The lock is held exactly by the worker between the check and the commit of
\* an escalation; who found the cool-down over still finds it over; and the
\* escalations counted since it ran out are the latest one, if any.
LockedCheck ==
  /\ \A w \in Workers : worker[w].at \in {"may", "commit"} <=> lock = w
  /\ \A w \in Workers : worker[w].at = "commit" => last # "recent"
  /\ count \in 0..1
  /\ last # "recent" => count = 0

\* No tier stored or about to be stored is above that of today.
NoTierAhead ==
  /\ Rank(notice.tier) <= Rank(TierOf(days))
  /\ \A w \in Workers : Rank(worker[w].tier) <= Rank(TierOf(days))

EscalationInv == EscalationTypeOK /\ LockedCheck /\ EscalationLeavesRow /\ NoTierAhead

-----------------------------------------------------------------------------
(***************************************************************************)
(* Its proof.                                                              *)
(***************************************************************************)
\* The flags apart: they are Boolean, which is not the SMT solver's strength.
FlagsTyped == head \in BOOLEAN /\ cut \in BOOLEAN /\ nightly \in BOOLEAN

LEMMA FlagsKept ==
  ASSUME FlagsTyped, [Next]_vars
  PROVE  FlagsTyped'
<1>1. UNCHANGED head
  BY DEF vars, Next, Midnight, RecomputeAllRiskScores, ScoreAgain,
         CooldownEnds, CloseNotice, Attempt, Deliver, DeliverFails, DeliverKilled, Step, Score, CommitScore,
         TakeLock, Check, Escalate, Audit, Announce, AnnounceFails, EscalationFails, Crash
<1>2. nightly' \in {nightly, TRUE, FALSE}
  BY DEF vars, Next, Midnight, RecomputeAllRiskScores, ScoreAgain,
         CooldownEnds, CloseNotice, Attempt, Deliver, DeliverFails, DeliverKilled, Step, Score, CommitScore,
         TakeLock, Check, Escalate, Audit, Announce, AnnounceFails, EscalationFails, Crash
<1>3. cut' = cut \/ cut' \in BOOLEAN
  BY DEF vars, Next, Midnight, RecomputeAllRiskScores, ScoreAgain,
         CooldownEnds, CloseNotice, Attempt, Deliver, DeliverFails, DeliverKilled, Step, Score, CommitScore,
         TakeLock, Check, Escalate, Audit, Announce, AnnounceFails, EscalationFails, Crash
<1> QED
  BY <1>1, <1>2, <1>3 DEF FlagsTyped

LEMMA EscalationInitially == Init => EscalationInv
<1> SUFFICES ASSUME Init PROVE EscalationInv
  OBVIOUS
<1>1. EscalationTypeOK
  <2>1. FlagsTyped
    BY ZenonT(20) DEF Init, FlagsTyped
  <2>2. notice \in [open : BOOLEAN, tier : Tiers]
    BY DEF Init, Tiers
  <2>3. days \in -1..MaxDays /\ tasks \in Nat /\ faults \in 0..MaxFaults
    BY BoundsAreNatural DEF Init
  <2>4. worker \in [Workers -> [at : {"idle", "scored", "waiting", "may", "commit",
                                    "audit", "announce"},
                              tier : Tiers, loaded : Tiers]]
    BY DEF Init, Idle, Tiers
  <2> QED
    BY <2>1, <2>2, <2>3, <2>4 DEF Init, EscalationTypeOK, FlagsTyped
<1>2. LockedCheck
  BY EscalationAssumption DEF Init, LockedCheck, Idle
<1>3. EscalationLeavesRow
  BY DEF Init, EscalationLeavesRow
<1>4. NoTierAhead
  <2>1. TierOf(days) \in Tiers
    BY <1>1, TierTyped DEF EscalationTypeOK
  <2>2. Rank(TierOf(days)) \in 0..3
    BY <2>1, RankTyped
  <2>3. Rank("low") = 0
    BY DEF Rank
  <2> QED
    BY <2>2, <2>3 DEF Init, NoTierAhead, Idle
<1> QED
  BY <1>1, <1>2, <1>3, <1>4 DEF EscalationInv

\* The actions of the calendar, the broker and the people: no worker moves.
Outside ==
  \/ Midnight \/ RecomputeAllRiskScores \/ ScoreAgain \/ CooldownEnds
  \/ CloseNotice \/ \E left \in alerts : Attempt(left)

\* The actions of one worker.
OfWorker(w) ==
  Step(w) \/ TakeLock(w) \/ AnnounceFails(w) \/ EscalationFails(w) \/ Crash(w)

LEMMA TypesKept ==
  ASSUME EscalationTypeOK, [Next]_vars
  PROVE  EscalationTypeOK'
<1> USE BoundsAreNatural
<1>0. FlagsTyped'
  BY FlagsKept DEF EscalationTypeOK, FlagsTyped
<1>1. CASE UNCHANGED vars
  BY <1>1 DEF EscalationTypeOK, vars
<1>2. CASE Outside
  <2>1. UNCHANGED << worker, lock >>
    BY <1>2 DEF Outside, Midnight, RecomputeAllRiskScores, ScoreAgain, CooldownEnds,
                CloseNotice, Attempt, Deliver, DeliverFails, DeliverKilled
  <2>2. notice' \in [open : BOOLEAN, tier : Tiers]
    BY <1>2 DEF Outside, Midnight, RecomputeAllRiskScores, ScoreAgain, CooldownEnds,
                CloseNotice, Attempt, Deliver, DeliverFails, DeliverKilled, EscalationTypeOK
  <2>3. days' \in -1..MaxDays
    BY <1>2 DEF Outside, Midnight, RecomputeAllRiskScores, ScoreAgain, CooldownEnds,
                CloseNotice, Attempt, Deliver, DeliverFails, DeliverKilled, EscalationTypeOK
  <2>4. tasks' \in Nat
    BY <1>2 DEF Outside, Midnight, RecomputeAllRiskScores, ScoreAgain, CooldownEnds,
                CloseNotice, Attempt, Deliver, DeliverFails, DeliverKilled, Dispatched, EscalationTypeOK
  <2>5. faults' \in 0..MaxFaults
    BY <1>2 DEF Outside, Midnight, RecomputeAllRiskScores, ScoreAgain, CooldownEnds,
                CloseNotice, Attempt, Deliver, DeliverFails, DeliverKilled, Fault, EscalationTypeOK
  <2>6. last' \in {"never", "recent", "old"} /\ log' \in {"none", "sent", "failed"}
    BY <1>2 DEF Outside, Midnight, RecomputeAllRiskScores, ScoreAgain, CooldownEnds,
                CloseNotice, Attempt, Deliver, DeliverFails, DeliverKilled, EscalationTypeOK
  <2>7. alerts' \subseteq 0..AlertRetries
    BY <1>2 DEF Outside, Midnight, RecomputeAllRiskScores, ScoreAgain, CooldownEnds,
                CloseNotice, Attempt, Deliver, DeliverFails, DeliverKilled, EscalationTypeOK
  <2> QED
    BY <1>0, <2>1, <2>2, <2>3, <2>4, <2>5, <2>6, <2>7 DEF EscalationTypeOK, FlagsTyped
<1>3. ASSUME NEW w \in Workers, OfWorker(w)
      PROVE  EscalationTypeOK'
  <2>0. Idle.at = "idle" /\ Idle.tier = "low" /\ Idle.loaded = "low"
    BY DEF Idle
  <2>1. CASE Score(w)
    <3>1. TierOf(days) \in Tiers
      BY TierTyped DEF EscalationTypeOK
    <3> QED
      BY <2>1, <3>1 DEF Score, EscalationTypeOK, Busy
  <2>2. CASE CommitScore(w)
    BY <2>2 DEF CommitScore, To, Done, Idle, Tiers, EscalationTypeOK
  <2>3. CASE TakeLock(w)
    BY <2>3 DEF TakeLock, To, EscalationTypeOK
  <2>4. CASE Check(w)
    BY <2>4 DEF Check, To, Done, Idle, Tiers, EscalationTypeOK
  <2>5. CASE Escalate(w)
    BY <2>5 DEF Escalate, To, EscalationTypeOK
  <2>6. CASE Audit(w)
    <3>1. faults' \in 0..MaxFaults
      BY <2>6 DEF Audit, Fault, EscalationTypeOK
    <3>2. worker' \in [Workers -> [at : {"idle", "scored", "waiting", "may", "commit",
                                        "audit", "announce"},
                                  tier : Tiers, loaded : Tiers]]
      BY <2>6 DEF Audit, To, Done, Idle, Tiers, EscalationTypeOK
    <3> QED
      BY <1>0, <2>6, <3>1, <3>2 DEF Audit, FlagsTyped, EscalationTypeOK
  <2>7. CASE Announce(w)
    BY <2>7 DEF Announce, Done, Idle, Tiers, EscalationTypeOK
  <2>8. CASE AnnounceFails(w)
    <3>1. faults' \in 0..MaxFaults
      BY <2>8 DEF AnnounceFails, Fault, EscalationTypeOK
    <3>2. worker' \in [Workers -> [at : {"idle", "scored", "waiting", "may", "commit",
                                        "audit", "announce"},
                                  tier : Tiers, loaded : Tiers]]
      BY <2>8 DEF AnnounceFails, Done, Idle, Tiers, EscalationTypeOK
    <3>3. log' \in {"none", "sent", "failed"}
      BY <2>8 DEF AnnounceFails, FailedRow, EscalationTypeOK
    <3> QED
      BY <1>0, <2>8, <3>1, <3>2, <3>3 DEF AnnounceFails, FlagsTyped, EscalationTypeOK
  <2>9. CASE EscalationFails(w)
    BY <2>9 DEF EscalationFails, Freed, Done, Idle, Tiers, Fault, EscalationTypeOK
  <2>10. CASE Crash(w)
    BY <2>10 DEF Crash, Freed, Done, Idle, Tiers, Fault, EscalationTypeOK
  <2> QED
    BY <1>3, <2>1, <2>2, <2>3, <2>4, <2>5, <2>6, <2>7, <2>8, <2>9, <2>10 DEF OfWorker, Step
<1> QED
  BY <1>1, <1>2, <1>3 DEF Next, Outside, OfWorker

\* What a worker's action does to the stages: only its own worker moves.
LEMMA OthersStand ==
  ASSUME EscalationTypeOK, NEW w \in Workers, OfWorker(w)
  PROVE  /\ DOMAIN worker' = Workers
         /\ \A v \in Workers \ {w} : worker'[v] = worker[v]
  BY DEF OfWorker, Step, Score, CommitScore, TakeLock, Check, Escalate, Audit,
         Announce, AnnounceFails, EscalationFails, Crash, To, Done, EscalationTypeOK

LEMMA LockKept ==
  ASSUME EscalationTypeOK, LockedCheck, [Next]_vars
  PROVE  LockedCheck'
<1> USE EscalationAssumption
<1>1. CASE UNCHANGED vars
  BY <1>1 DEF LockedCheck, vars
<1>2. CASE Outside
  BY <1>2 DEF Outside, Midnight, RecomputeAllRiskScores, ScoreAgain, CooldownEnds,
              CloseNotice, Attempt, Deliver, DeliverFails, DeliverKilled, LockedCheck
<1>3. ASSUME NEW w \in Workers, OfWorker(w)
      PROVE  LockedCheck'
  <2>0. /\ DOMAIN worker' = Workers
        /\ \A v \in Workers \ {w} : worker'[v] = worker[v]
    BY <1>3, OthersStand
  <2>1. CASE Score(w)
    <3>1. worker[w].at \notin {"may", "commit"} /\ worker'[w].at = "scored"
      BY <2>1 DEF Score, Busy, Idle, EscalationTypeOK
    <3> QED
      BY <2>0, <2>1, <3>1 DEF Score, LockedCheck
  <2>2. CASE CommitScore(w)
    <3>1. worker[w].at = "scored" /\ worker'[w].at \in {"waiting", "idle"}
      BY <2>2 DEF CommitScore, To, Done, Idle, EscalationTypeOK
    <3> QED
      BY <2>0, <2>2, <3>1 DEF CommitScore, LockedCheck
  <2>3. CASE TakeLock(w)
    <3>1. worker[w].at = "waiting" /\ worker'[w].at = "may" /\ lock = NoWorker /\ lock' = w
      BY <2>3 DEF TakeLock, LockFree, To, EscalationTypeOK
    <3> QED
      BY <2>0, <2>3, <3>1 DEF TakeLock, LockedCheck
  <2>4. CASE Check(w)
    <3>1. worker[w].at = "may" /\ lock = w
      BY <2>4 DEF Check, LockedCheck
    <3>2. \/ last # "recent" /\ worker'[w].at = "commit" /\ lock' = lock
          \/ worker'[w].at = "idle" /\ lock' = NoWorker
      BY <2>4 DEF Check, To, Done, Idle, EscalationTypeOK
    <3> QED
      BY <2>0, <2>4, <3>1, <3>2 DEF Check, LockedCheck
  <2>5. CASE Escalate(w)
    <3>1. worker[w].at = "commit" /\ lock = w /\ last # "recent" /\ count = 0
      BY <2>5 DEF Escalate, LockedCheck
    <3>2. worker'[w].at = "audit" /\ lock' = NoWorker /\ last' = "recent" /\ count' = 1
      BY <2>5, <3>1 DEF Escalate, To, EscalationTypeOK
    <3> QED
      BY <2>0, <3>1, <3>2 DEF LockedCheck
  <2>6. CASE Audit(w) \/ Announce(w) \/ AnnounceFails(w)
    <3>1. /\ worker[w].at \in {"audit", "announce"}
          /\ worker'[w].at \in {"announce", "idle"}
          /\ UNCHANGED << lock, last, count >>
      BY <2>6 DEF Audit, Announce, AnnounceFails, To, Done, Idle, EscalationTypeOK
    <3> QED
      BY <2>0, <3>1 DEF LockedCheck
  <2>7. CASE EscalationFails(w) \/ Crash(w)
    <3>1. /\ worker'[w].at = "idle"
          /\ lock' = IF lock = w THEN NoWorker ELSE lock
          /\ UNCHANGED << last, count >>
      BY <2>7 DEF EscalationFails, Crash, Freed, Done, Idle, EscalationTypeOK
    <3> QED
      BY <2>0, <3>1 DEF LockedCheck
  <2> QED
    BY <1>3, <2>1, <2>2, <2>3, <2>4, <2>5, <2>6, <2>7 DEF OfWorker, Step
<1> QED
  BY <1>1, <1>2, <1>3 DEF Next, Outside, OfWorker

LEMMA RowKept ==
  ASSUME EscalationTypeOK, EscalationLeavesRow, [Next]_vars
  PROVE  EscalationLeavesRow'
<1>1. CASE UNCHANGED vars
  BY <1>1 DEF EscalationLeavesRow, vars
<1>2. CASE Outside
  <2>1. ASSUME NEW left \in alerts, Attempt(left) PROVE EscalationLeavesRow'
    <3>1. CASE Deliver(left)
      BY <3>1 DEF Deliver, EscalationLeavesRow
    <3>2. CASE DeliverFails(left)
      <4>1. left \in Nat /\ MaxFaults \in Nat
        BY BoundsAreNatural DEF EscalationTypeOK
      <4>2. left = 0 \/ alerts' # {}
        BY <3>2, <4>1 DEF DeliverFails
      <4>3. left = 0 => cut'
        BY <3>2 DEF DeliverFails
      <4> QED
        BY <4>2, <4>3 DEF EscalationLeavesRow
    <3>3. CASE DeliverKilled(left)
      BY <3>3 DEF DeliverKilled, EscalationLeavesRow
    <3> QED
      BY <2>1, <3>1, <3>2, <3>3 DEF Attempt
  <2> QED
    BY <1>2, <2>1 DEF Outside, Midnight, RecomputeAllRiskScores, ScoreAgain, CooldownEnds,
                      CloseNotice, EscalationLeavesRow
<1>3. ASSUME NEW w \in Workers, OfWorker(w)
      PROVE  EscalationLeavesRow'
  <2>0. /\ DOMAIN worker' = Workers
        /\ \A v \in Workers \ {w} : worker'[v] = worker[v]
    BY <1>3, OthersStand
  \* A worker that was not on its way to announce leaves the others on theirs.
  <2>1. ASSUME worker[w].at \notin {"audit", "announce"},
               UNCHANGED << last, head, cut, log, alerts >>
        PROVE  EscalationLeavesRow'
    BY <2>0, <2>1 DEF EscalationLeavesRow
  <2>2. CASE Score(w)
    BY <2>1, <2>2 DEF Score, Busy, Idle
  <2>3. CASE CommitScore(w)
    BY <2>1, <2>3 DEF CommitScore
  <2>4. CASE TakeLock(w) \/ Check(w)
    BY <2>1, <2>4 DEF TakeLock, Check
  <2>5. CASE Escalate(w)
    <3>1. worker'[w].at = "audit"
      BY <2>5 DEF Escalate, To, EscalationTypeOK
    <3> QED
      BY <3>1 DEF EscalationLeavesRow
  <2>6. CASE Audit(w)
    <3>1. worker'[w].at = "announce" \/ cut'
      BY <2>6 DEF Audit, To, EscalationTypeOK
    <3> QED
      BY <3>1 DEF EscalationLeavesRow
  <2>7. CASE Announce(w)
    BY <2>7 DEF Announce, EscalationLeavesRow
  <2>8. CASE AnnounceFails(w)
    BY <2>8 DEF AnnounceFails, FailedRow, EscalationLeavesRow
  <2>9. CASE EscalationFails(w)
    BY <2>1, <2>9 DEF EscalationFails
  <2>10. CASE Crash(w)
    <3>1. CASE worker[w].at \in {"audit", "announce"}
      BY <2>10, <3>1 DEF Crash, EscalationLeavesRow
    <3>2. CASE worker[w].at \notin {"audit", "announce"}
      <4>1. UNCHANGED << last, head, log, alerts >> /\ (cut' <=> cut)
        BY <2>10, <3>2 DEF Crash
      <4> QED
        BY <2>0, <3>2, <4>1 DEF EscalationLeavesRow
    <3> QED
      BY <3>1, <3>2
  <2> QED
    BY <1>3, <2>2, <2>3, <2>4, <2>5, <2>6, <2>7, <2>8, <2>9, <2>10 DEF OfWorker, Step
<1> QED
  BY <1>1, <1>2, <1>3 DEF Next, Outside, OfWorker

LEMMA TiersKept ==
  ASSUME EscalationTypeOK, NoTierAhead, [Next]_vars
  PROVE  NoTierAhead'
<1>0. days \in Int /\ days' \in Int /\ days' <= days
  BY DEF EscalationTypeOK, Next, vars, Midnight, RecomputeAllRiskScores, ScoreAgain,
         CooldownEnds, CloseNotice, Attempt, Deliver, DeliverFails, DeliverKilled, Step, Score, CommitScore,
         TakeLock, Check, Escalate, Audit, Announce, AnnounceFails, EscalationFails, Crash
<1>1. Rank(TierOf(days)) <= Rank(TierOf(days'))
  BY <1>0, TierMonotone
<1>2. Rank(TierOf(days)) \in 0..3 /\ Rank(TierOf(days')) \in 0..3
  BY <1>0, TierTyped, RankTyped
<1>3. \A t \in Tiers : Rank(t) \in 0..3
  BY RankTyped
<1>4. Rank("low") = 0
  BY DEF Rank
\* A stored tier is an old one or one a worker had; a worker's is an old one,
\* none, or today's.
<1>5. \/ notice'.tier = notice.tier
      \/ \E w \in Workers : notice'.tier = worker[w].tier
  BY DEF EscalationTypeOK, Next, vars, Midnight, RecomputeAllRiskScores, ScoreAgain,
         CooldownEnds, CloseNotice, Attempt, Deliver, DeliverFails, DeliverKilled, Step, Score, CommitScore,
         TakeLock, Check, Escalate, Audit, Announce, AnnounceFails, EscalationFails, Crash
<1>6. \A w \in Workers : worker'[w].tier \in {worker[w].tier, "low", TierOf(days)}
  <2>1. CASE UNCHANGED vars \/ Outside
    BY <2>1 DEF vars, Outside, Midnight, RecomputeAllRiskScores, ScoreAgain,
                CooldownEnds, CloseNotice, Attempt, Deliver, DeliverFails, DeliverKilled
  <2>2. ASSUME NEW v \in Workers, OfWorker(v)
        PROVE  \A w \in Workers : worker'[w].tier \in {worker[w].tier, "low", TierOf(days)}
    <3>1. worker'[v].tier \in {worker[v].tier, "low", TierOf(days)}
      BY <2>2 DEF OfWorker, Step, Score, CommitScore, TakeLock, Check, Escalate, Audit,
                  Announce, AnnounceFails, EscalationFails, Crash, To, Done, Idle,
                  EscalationTypeOK
    <3> QED
      BY <2>2, <3>1, OthersStand
  <2> QED
    BY <2>1, <2>2 DEF Next, Outside, OfWorker
<1>7. notice.tier \in Tiers /\ \A w \in Workers : worker[w].tier \in Tiers
  BY DEF EscalationTypeOK
<1>8. Rank(notice'.tier) <= Rank(TierOf(days'))
  BY <1>1, <1>2, <1>3, <1>5, <1>7 DEF NoTierAhead
<1>9. ASSUME NEW w \in Workers
      PROVE  Rank(worker'[w].tier) <= Rank(TierOf(days'))
  BY <1>1, <1>2, <1>3, <1>4, <1>6, <1>7 DEF NoTierAhead
<1> QED
  BY <1>8, <1>9 DEF NoTierAhead

-----------------------------------------------------------------------------
(***************************************************************************)
(* The theorems.                                                           *)
(***************************************************************************)
\* The inductive invariant holds in every reachable state.
THEOREM EscalationInvariance == Spec => []EscalationInv
<1>1. EscalationInv /\ [Next]_vars => EscalationInv'
  BY TypesKept, LockKept, RowKept, TiersKept DEF EscalationInv
<1> QED
  BY EscalationInitially, <1>1, PTL DEF Spec

\* However many workers score the notice, whichever die and whatever the
\* broker refuses, it is escalated once in a cool-down (should_escalate under
\* pg_advisory_xact_lock).
THEOREM EscalatedOnce == Spec => []OneEscalationPerCooldown
<1>1. EscalationInv => OneEscalationPerCooldown
  BY DEF EscalationInv, LockedCheck, OneEscalationPerCooldown
<1> QED
  BY EscalationInvariance, <1>1, PTL

\* An escalation is being announced, or was, or a row says why not, unless a
\* fault cut it short (escalate after its commit).
THEOREM EscalationIsTold == Spec => []EscalationLeavesRow
<1>1. EscalationInv => EscalationLeavesRow
  BY DEF EscalationInv
<1> QED
  BY EscalationInvariance, <1>1, PTL

\* For every profile the scorer can read: the stored tier falls only by a
\* scoring that began on an earlier day (score, classify_and_score_notice).
THEOREM RiskOnlyRises == Spec => RiskNeverFalls
<1> DEFINE Falls == Rank(notice'.tier) < Rank(notice.tier)
           Overtaken == \E w \in Workers : worker[w].at = "scored" /\ worker[w].tier # TierOf(days)
<1>1. EscalationInv /\ [Next]_vars => [Falls => Overtaken]_vars
  <2> SUFFICES ASSUME EscalationInv, Next, Falls PROVE Overtaken
    OBVIOUS
  <2>1. notice.tier \in Tiers /\ Rank(notice.tier) <= Rank(TierOf(days))
    BY DEF EscalationInv, EscalationTypeOK, NoTierAhead
  <2>2. days \in Int
    BY DEF EscalationInv, EscalationTypeOK
  <2>3. Rank(notice.tier) \in 0..3 /\ Rank(TierOf(days)) \in 0..3
    BY <2>1, <2>2, RankTyped, TierTyped
  <2>4. notice'.tier # notice.tier
    BY <2>3
  <2>5. PICK w \in Workers : worker[w].at = "scored" /\ notice'.tier = worker[w].tier
    BY <2>4 DEF EscalationInv, EscalationTypeOK, Next, Midnight, RecomputeAllRiskScores, ScoreAgain,
         CooldownEnds, CloseNotice, Attempt, Deliver, DeliverFails, DeliverKilled, Step, Score, CommitScore,
         TakeLock, Check, Escalate, Audit, Announce, AnnounceFails, EscalationFails, Crash
  <2>6. worker[w].tier # TierOf(days)
    BY <2>1, <2>3, <2>5
  <2> QED
    BY <2>5, <2>6
<1>2. Spec => [][Falls => Overtaken]_vars
  BY EscalationInvariance, <1>1, PTL DEF Spec
<1> QED
  BY <1>2 DEF RiskNeverFalls
=============================================================================

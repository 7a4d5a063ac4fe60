-------------------------- MODULE MCDeadlineAlerts --------------------------
(* Instances of DeadlineAlerts for TLC. *)
EXTENDS DeadlineAlerts, TLC

CONSTANTS r1, r2, api, worker

\* A deadline whose early alert is still to come on day 0, and one of today:
\* the second leaves the overdue alert alone.
MCDeadlines == {0, 2}

\* Two deadlines that are both overdue within three days.
MCDeadlinesNear == {0, 1}

MCSymmetry == Permutations({api, worker}) \cup Permutations({r1, r2})
=============================================================================

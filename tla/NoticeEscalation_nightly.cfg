SPECIFICATION Spec
CONSTANTS
  Workers = {w1, w2}
  NoWorker = none
  Profile <- Section454
  MaxDays = 1
  AlertRetries = 1
  MaxTasks = 2
  MaxFaults = 2
INVARIANTS
  OneEscalationPerCooldown
  EscalationLeavesRow
PROPERTIES
  RiskNeverFalls
  CriticalReachesHead

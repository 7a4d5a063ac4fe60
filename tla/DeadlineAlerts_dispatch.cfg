SPECIFICATION AlertSpec
CONSTANTS
  r1 = r1
  r2 = r2
  api = api
  worker = worker
  AlertTypes = {"overdue"}
  Deadlines <- MCDeadlinesNear
  NoDeadline = NoDeadline
  Slots = {r1, r2}
  Schedulers = {api, worker}
  Horizon = 2
  MaxFaults = 1
INVARIANTS
  SentOnce
SYMMETRY MCSymmetry

SPECIFICATION AlertSpec
CONSTANTS
  r1 = r1
  r2 = r2
  api = api
  worker = worker
  AlertTypes = {"deadline_t1", "overdue"}
  Deadlines <- MCDeadlines
  NoDeadline = NoDeadline
  Slots = {r1}
  Schedulers = {api}
  Horizon = 3
  MaxFaults = 1
INVARIANTS
  OpenIsWatched
  NoStrayJobs
  OverdueIsReported
SYMMETRY MCSymmetry

SPECIFICATION Spec
CONSTANTS
  Users = {u1, u2}
  MaxGrants = 2
  MaxFaults = 1
  MaxBills = 2
  Dated = {1}
  Scans = {s1, s2}
  Schedulers = {p1, p2}
  LastMail = 1
  MaxBillFaults = 1
CONSTRAINT OnePart
INVARIANTS
  ActiveIsPolled
PROPERTIES
  RevokedForCause
  RemindersAreDue
  DeadGrantIsNoticed

SPECIFICATION Spec
CONSTANTS
  Users = {u1, u2}
  NoUser = none
  Admin = {}
  Sharable = {2}
  Grants = {"edit"}
  Uploaders = {u1}
  Slots = {s1, s2}
  Single = {"delete"}
  MaxDocs = 2
  MaxFiles = 3
  MaxTasks = 2
  MaxRetries = 1
  MaxFaults = 1
  MaxVersion = 3
CHECK_DEADLOCK FALSE
INVARIANTS
  UnsettledHasTask
  NoFileLeaks
  
PROPERTIES
  KeepsHistory
SYMMETRY SlotSymmetry

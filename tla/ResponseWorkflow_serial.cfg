SPECIFICATION Spec
CONSTANTS
  dana = dana
  carl = carl
  cleo = cleo
  lena = lena
  s1 = s1
  s2 = s2
  Users = {dana, carl, cleo, lena}
  NoUser = NoUser
  RoleOf <- MCRoleOf
  Sessions = {s1}
  MaxVersions = 2
  MaxDecisions = 5
INVARIANTS
  ApprovedTextClearedEveryGate
  FiledStaysApproved
PROPERTIES
  ImplementsChain
CHECK_DEADLOCK FALSE

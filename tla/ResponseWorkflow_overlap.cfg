SPECIFICATION Spec
CONSTANTS
  dana = dana
  carl = carl
  cleo = cleo
  lena = lena
  s1 = s1
  s2 = s2
  Users = {dana, carl, cleo, lena}
  NoUser = NoUser
  RoleOf <- MCRoleOf
  Sessions = {s1, s2}
  MaxVersions = 2
  MaxDecisions = 3
INVARIANTS
  TypeOK
  FiledPassedEveryGate
  MakerNeverChecks
  OneActPerVersion
CHECK_DEADLOCK FALSE
SYMMETRY MCSymmetry

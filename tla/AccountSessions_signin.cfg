SPECIFICATION Spec
CONSTANTS
  gita = gita
  lou = lou
  lou2 = lou2
  s1 = s1
  s2 = s2
  Accounts = {gita, lou, lou2}
  Local = {lou, lou2}
  EmailOf <- MCEmailOf
  NoAccount = NoAccount
  Slots = {s1, s2}
  Together = {{"register"}, {"rotate"}, {"rotate", "off"}, {"rotate", "mfa_on"}}
  TenantAsserted = FALSE
  Invitees = {lou, lou2}
  MaxTokens = 3
  MaxSignIns = 2
  MaxCodes = 1
INVARIANTS
  OneLivePerLogin
  InactiveHoldsNoSession
  PasswordAloneIsNotEnough
  BootstrapOnce
  InvitationBuysOneAccount
CONSTRAINT MCBounds
CHECK_DEADLOCK FALSE
SYMMETRY MCSymmetry

SPECIFICATION Spec
CONSTANTS
  u1 = u1
  u2 = u2
  c1 = c1
  c2 = c2
  Users = {u1, u2}
  NoUser = none
  Clients = {c1, c2}
  NoClient = noclient
  Admins = {u1}
  Founding <- FoundingTeams
  Grants <- TeamGrants
  Invitees <- Invited
  Subscribers = {u2}
  Behalf = {u1}
  Touched = {c1}
  Workers = {r1, r2, t1}
  NoWorker = pool
  AsyncPool = {a1}
  SyncPool = {s1}
  Tasks = {t1}
  AtOnce = 2
  MaxFaults = 1
  MaxUnread = 1
INVARIANTS
  StatementsInOwnContext
  RequestsStayInTenant
  ChangesAreAudited
PROPERTIES
  SocketsFollowMembership

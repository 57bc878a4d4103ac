SPECIFICATION Spec
CONSTANTS
  u1 = u1
  u2 = u2
  u3 = u3
  c1 = c1
  c2 = c2
  a1 = a1
  n1 = n1
  admin = admin
  guest = guest
  None = None
  Keep = Keep
  UserId = {u1, u2, u3}
  Req = {p1, p2}
  Token = {t1}
  AdminName = {"admin", "ops"}
  RolesIn <- MCRoles
  RulesIn <- MCRules
  GrantIn <- MCGrants
  StoredUsers <- MCStored
  Person = {admin, guest}
  PersonBase <- MCPersonBase
  NUser = {n1}
  GroupName = {"Default", "team"}
  DefaultGroup = "Default"
  Perms = {"some"}
  ExportName = {"orders"}
  ExportBody = {"old", "new"}
  Unrestricted = "all"
  ClusterOf = c1
  AccountOf = a1
  TokenCluster = {}
  EncKey = {k1, k2}
  NProc = {p1, p2}
  MaxKey = 2
  Replica = {x1, x2}
  CProc = {p1, p2}
  CToken = {s1}
  NoValue = None
  MaxGen = 1
  Slack = 1
  DReplica = {x1, x2}
  DProc = {p1, p2}
  DToken = {s1}
  NoEntry = None
  DSlack = 1
  RToken = {f1, f2, f3}
  RProc = {p1, p2}
  NoToken = None
SYMMETRY Symmetry
INVARIANTS
  StoredCredentialsReadable
CHECK_DEADLOCK FALSE

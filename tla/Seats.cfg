SPECIFICATION Spec
CHECK_DEADLOCK FALSE
CONSTANTS
  Orgs = {1, 2}
  Place <- MCPlace
  Logins = {"octo"}
  NeverDays = 3
  DormantDays = 4
  Sessions = {s1, s2}
  Invocations <- MCInvocations
  Pools <- MCPools
  Today = 10
  LastDay = 11
SYMMETRY AnySession
INVARIANTS
  TypeOK
  SessionSparesUsers
  WorkingUsersKeepSeat
  ResultsTellTheTruth

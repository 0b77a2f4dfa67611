SPECIFICATION Spec
CONSTANTS
  a = a
  b = b
  Orgs <- MCOrgs
  OrgList <- MCOrgList
  Main = main
  Readers = {r1}
  Nobody = nobody
  Keys <- MCKeys
  ListKey <- MCListKey
  Settings <- MCSettings
  Repos <- MCRepos
  PassKeys <- MCPassKeys
  Offered <- MCOffered
  Plans <- RulePlans
  Concurrency = 1
  MaxChanges = 1
INVARIANTS
  TypeOK
  WorkersBounded
  WarmMeansWarm
  OneCallPerKey
  NoDeadlock
PROPERTIES
  AllReadsReturn
  ImplementsMemo
CHECK_DEADLOCK FALSE

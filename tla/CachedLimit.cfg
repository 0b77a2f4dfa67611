SPECIFICATION Spec
CONSTANTS
  a = a
  b = b
  Orgs <- MCOrgs
  OrgList <- MCOrgList
  Main = main
  Readers = {}
  Nobody = nobody
  Keys <- MCKeys
  ListKey <- MCListKey
  Settings <- MCSettings
  Repos <- MCRepos
  PassKeys <- MCPassKeys
  Offered <- MCOffered
  Plans <- RulePlans
  Concurrency = 1
  MaxChanges = 1
INVARIANTS
  UnlimitedReadsSeeAll
CHECK_DEADLOCK FALSE

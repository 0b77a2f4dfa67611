SPECIFICATION Spec
CHECK_DEADLOCK FALSE
CONSTANTS
  Orgs = {1, 2}
  Users = {"contractor", "partner"}
  NoUser = "nobody"
  Sessions = {"s1", "s2"}
  Worlds <- MCWorlds
  Outages <- MCOutages
  OrgEdits <- MCOrgEdits
  EntEdits <- MCEntEdits
  MaxEdits = 1
INVARIANTS
  TypeOK
  CleanApplyFixes
  ResultsTellTheTruth
PROPERTIES
  NeverWorsens
  ImplementsRepair

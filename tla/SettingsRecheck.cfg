SPECIFICATION Spec
CHECK_DEADLOCK FALSE
CONSTANTS
  Orgs = {1}
  Users = {"contractor", "partner"}
  NoUser = "nobody"
  Sessions = {"s1"}
  Worlds <- BasePermission
  Outages <- MCOutages
  OrgEdits <- MCOrgEdits
  EntEdits <- MCEntEdits
  MaxEdits = 1
PROPERTIES
  RemediationsRecheck

SPECIFICATION Spec
CHECK_DEADLOCK FALSE
CONSTANTS
  Orgs = {1, 2}
  Logins = {1, 2, 3}
  Addrs = {1, 2, 3}
  Domains = {"acme", "partner"}
  DomainOf <- MCDomainOf
  PageSize = 1
  Worlds <- MCWorlds
  MaxChanges = 1
  MaxCampaigns = 2
INVARIANTS
  TypeOK
  CountsTellTheTruth
  RulesAgree
  StrangersWhenAllRead
  CompliedNotWarnedAgain
PROPERTIES
  CampaignsEndOrHang
  ImplementsOutbox

SPECIFICATION Spec
CONSTANTS
  Rules <- PairRules
  Domains <- MCDomains
  Meta <- PairMeta
  Sessions = {s1, s2}
  Invocations <- PairInvocations
  MaxAdmin = 0
INVARIANTS
  AppliedMeansFixed
  BulkFixesFindings
PROPERTIES
  UnattendedSessionsEnd
  ImplementsRepair
CHECK_DEADLOCK FALSE

SPECIFICATION Spec
CHECK_DEADLOCK FALSE
CONSTANTS
  Enterprises = {"acme", "beta"}
  Sessions = {s1, s2}
  Rules = {1, 2}
  Domains <- MCDomains
  Meta <- MCMeta
  Invocations <- PairInvocations
  MaxAdmin = 1
SYMMETRY AnySession
INVARIANTS
  TypeOK
  NewFailuresAlert
  GateStopsFindings
PROPERTIES
  ImplementsChronicle

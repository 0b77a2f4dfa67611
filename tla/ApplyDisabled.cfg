SPECIFICATION Spec
CONSTANTS
  Rules = {1, 2, 3, 4}
  Domains <- MCDomains
  Meta <- MCMeta
  Sessions = {s1}
  Invocations <- DisablingInvocations
  MaxAdmin = 0
INVARIANTS
  DisabledNeverRemediated
CHECK_DEADLOCK FALSE

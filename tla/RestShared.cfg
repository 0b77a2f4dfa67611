SPECIFICATION Spec
CONSTANTS
  Callers = {c1, c2}
  Nobody = nobody
  MaxAttempts = 2
  Timeout = 1
  MaxWait = 1
  Margin = 3
  Hour = 4
  Issued = {4}
INVARIANTS
  TypeOK
PROPERTIES
  CallsReturn
  ImplementsLease

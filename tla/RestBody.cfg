SPECIFICATION Spec
CONSTANTS
  Callers = {c1}
  Nobody = nobody
  MaxAttempts = 4
  Timeout = 1
  MaxWait = 2
  Margin = 10
  Hour = 12
  Issued = {11, 12}
INVARIANTS
  BackoffKeepsRequest

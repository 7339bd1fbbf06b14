CONSTANTS
  Sessions = {s1}
  NoSession = none
  Workers = {w1}
  MaxRuns = 2
  MaxAttempts = 2
  MaxRestarts = 0
  MaxRetryCount = 1
SPECIFICATION Spec
INVARIANTS
  DeletedSessionHasNoDir
CHECK_DEADLOCK FALSE

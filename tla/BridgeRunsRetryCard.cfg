CONSTANTS
  Sessions = {s1}
  NoSession = none
  Workers = {w1}
  MaxRuns = 2
  MaxAttempts = 2
  MaxRestarts = 0
  MaxRetryCount = 1
SPECIFICATION Spec
PROPERTIES
  FailedRunOffersRetry
CHECK_DEADLOCK FALSE

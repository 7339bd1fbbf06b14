CONSTANTS
  Sessions = {s1}
  NoSession = none
  Workers = {w1, w2}
  MaxRuns = 2
  MaxAttempts = 3
  MaxRestarts = 1
  MaxRetryCount = 1
SPECIFICATION FairSpec
INVARIANTS
  TypeOK
  TeeChainIsGrounded
  StdoutRestoredAfterRuns
  BusyHasActor
  EndedMeansQuiet
PROPERTIES
  AttemptGoesBackOnlyByRefusal
  RunsAreReported
CHECK_DEADLOCK FALSE

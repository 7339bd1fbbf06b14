SPECIFICATION Spec
INVARIANTS
  StageIsFirstFailedPhase
CHECK_DEADLOCK FALSE

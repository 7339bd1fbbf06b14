SPECIFICATION Spec
INVARIANTS
  TypeOK
  SuccessIsClean
  FailedRunStoppedAtGate
  DegradedNamesFailedPhases
  ResultIsOnFile
  ConversationDestroyed
PROPERTIES
  ImplementsContract
CHECK_DEADLOCK FALSE

SPECIFICATION Spec
CONSTANTS
  Retries = 1
  MaxFaults = 2
  MaxOpen = 1
  NoFamily = NoFamily
  Order <- MCOrder
  HelperNames <- MCHelperNames
  BaseOf <- MCBaseOf
  Designs <- MCDesigns
  Jobs <- MCJobs
INVARIANTS
  TypeOK
  AnswerIsOwn
  CopiesBounded
  CrashLosesOneTurn
  VerdictIsRecorded
  NoFamilyLost
  CleanPlanIsExecutable
PROPERTIES
  ModeratorSettles
  PlanningEnds
CHECK_DEADLOCK FALSE

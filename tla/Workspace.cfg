SPECIFICATION Spec
CONSTANTS
  known = known
  created = created
  NoSession = NoSession
  Sessions <- MCSessions
  MaxEvents = 1
  MaxWrites = 1
  MaxFrames = 1
  MaxRequests = 2
  Scripts <- MCScripts
SYMMETRY MCSymmetry
INVARIANTS
  TypeOK
  ShownAsItIs
  NoItemTwice
  OneListener
PROPERTIES
  UpdatesAreSerial
CHECK_DEADLOCK FALSE

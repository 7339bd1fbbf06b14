CONSTANTS
  Writers = {w1, w2}
  Threshold = 2
  MaxEvents = 3
  MaxFaults = 1
SPECIFICATION FairSpec
INVARIANTS
  TypeOK
  NoEventLost
  EventsInOrder
  OnceWithoutFault
  EndedRunIsOnDisk
PROPERTIES
  BufferDrains
CHECK_DEADLOCK FALSE

SPECIFICATION FairSpec
CONSTANTS
  RingSize = 2
  IndexLimit = 4
  MaxCalls = 3
  MaxWatches = 1
  MaxNoMemory = 1
  OldSession = "quiet"
INVARIANTS
  RingsSound
  PayloadsHeld
PROPERTIES
  CallsReturn
CHECK_DEADLOCK FALSE

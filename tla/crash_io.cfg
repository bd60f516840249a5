SPECIFICATION FairSpec
CONSTANTS
  Disks = {d1}
  MaxFailures = 0
  Srbs = {s1, s2}
  Shapes <- MCShapes
  SegsPerRequest = 1
  NumBuffers = 1
  NumGrants = 4
  NrEnts = 3
  IndexLimit = 6
  MaxCalls = 3
INVARIANTS
  TrafficSound
  MemoryOwned
PROPERTIES
  SrbsEnd
CHECK_DEADLOCK FALSE

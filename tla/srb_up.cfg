SPECIFICATION FairSpec
CONSTANTS
  None = None
  w = w
  Cpus = {c1}
  ReadWrites = {w}
  Syncs = {y}
  Flushes = {f}
  Answers = {"Okay", "Error"}
  NumRequests <- MCNumRequests
  RingSize = 3
  MaxPrepareFailures = 1
  MaxResets = 0
  MaxPowerCycles = 1
  MaxSuspends = 1
INVARIANTS
  RingSound
  GoodMeansDone
PROPERTIES
  FlushAfterData
  DataCompletes
  FlushCompletes
CHECK_DEADLOCK FALSE

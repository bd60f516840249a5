SPECIFICATION Spec
CONSTANTS
  None = None
  w = w
  Cpus = {c1, c2}
  ReadWrites = {w}
  Syncs = {y}
  Flushes = {}
  Answers = {"Okay", "NotSupp"}
  NumRequests <- MCNumRequests
  RingSize = 4
  MaxPrepareFailures = 0
  MaxResets = 1
  MaxPowerCycles = 1
  MaxSuspends = 0
INVARIANTS
  InsertSafe
  CompletedOnce
  Accounted
  ResponseIdsLive
CHECK_DEADLOCK FALSE
SYMMETRY CpuSymmetry

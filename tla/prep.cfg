SPECIFICATION Spec
CONSTANTS
  r1 = r1
  w1 = w1
  Cpus = {c1, c2}
  Reads = {r1}
  Writes = {w1}
  Lists <- MCLists
  SectorSize = 2
  PageSize = 4
  NumPages = 3
  MaxSegments = 2
  MinBuffers = 1
  Buffers = {b1, b2}
  MaxFailures = 1
INVARIANTS
  RequestsTile
  Delivered
  ResourcesOwned
SYMMETRY Symmetric
CHECK_DEADLOCK FALSE

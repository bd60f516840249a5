SPECIFICATION Spec
CONSTANTS
  NumHeapPages = 4
  SubHeapSize = 4
  Slack = 1
  SmallSizes = {1, 3}
  BigSizes = {1, 3}
  MaxLive = 4
INVARIANTS
  HeapSound
CHECK_DEADLOCK FALSE

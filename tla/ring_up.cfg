SPECIFICATION FairSpec
CONSTANTS
  None = None
  Cpus = {c1}
  Ids = {1, 2, 3}
  RingSize = 3
  IndexSpan = 6
  MaxBatch = 2
INVARIANT IndicesSound
PROPERTIES
  IsChannel
  EveryRequestAnswered
ACTION_CONSTRAINT LowestFirst

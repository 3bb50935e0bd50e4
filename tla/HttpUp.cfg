SPECIFICATION FairSpec
CONSTANTS
  Workers = 2
  ChanLen = 2
  MaxBatch = 2
  PendMax = 2
  MaxChunks = 3
  Sizes = {1, 2}
  Repeats = 1
INVARIANT PooledNeverWaits
PROPERTIES ImplementsPipe Delivers SessionsEnd
CHECK_DEADLOCK FALSE

SPECIFICATION FairSpec
CONSTANTS
  Kinds = {TRUE, FALSE}
  Streams = 2
  QueueLen = 1
  Batch = 2
  Floor = 1
  PerStream = 1
  MaxRecords = 3
  MaxBreaks <- Breaks
INVARIANT NoneVanishes
PROPERTIES ImplementsPipe Delivers Unwinds
CHECK_DEADLOCK FALSE

SPECIFICATION FairSpec
CONSTANTS
  MaxFrames <- FramesOfCode
  KeepBlocks = 2
  MaxBytes = 3
  MaxSessions = 2
INVARIANTS AnyCountSuffices OncePerStay BytesAccounted
PROPERTY PartialBlockLeaves
CHECK_DEADLOCK FALSE

SPECIFICATION FairSpec
CONSTANTS
  Addrs = {a, b, c}
  None = None
  Parts = {1, 2}
  MaxLinger = 1
  Lists = {{}, {a, b}}
  MaxMoves = 2
  MaxFails = 2
INVARIANTS  HeldIsIn
PROPERTY EndsCovered
CHECK_DEADLOCK FALSE

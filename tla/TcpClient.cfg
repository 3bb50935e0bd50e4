SPECIFICATION FairSpec
CONSTANTS
  Lanes = {0, 1}
  Addrs = {a, b}
  None = None
  MaxMoves = 1
  MaxDeaths = 1
INVARIANTS ServedIsKnown SilentDeathsBounded
PROPERTY ComesUp
CHECK_DEADLOCK FALSE

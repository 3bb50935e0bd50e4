SPECIFICATION FairSpec
CONSTANTS
  Conns = {c1, c2}
  Lanes = 2
  PreAuth = 1
  MaxAuth = 1
  Loops = {1, 2}
  None = None
INVARIANTS TypeOK LaneNeverDangles DownstreamElected
PROPERTIES  AdmitsAgain
CHECK_DEADLOCK FALSE

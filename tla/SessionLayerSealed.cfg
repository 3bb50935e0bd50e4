CONSTANTS
  Carrier = "raw"
  MaxInit = 1
  MaxResp = 1
  MaxSeq = 1
  MaxStaged = 2
  CacheSize = 2
  Disturbances <- LandingOnly
SPECIFICATION Spec
INVARIANT AlwaysSealed

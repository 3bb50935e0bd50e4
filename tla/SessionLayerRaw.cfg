CONSTANTS
  Carrier = "raw"
  MaxInit = 2
  MaxResp = 2
  MaxSeq = 1
  MaxStaged = 2
  CacheSize = 2
  Disturbances <- RawDisturbances
SPECIFICATION FairSpec
INVARIANT SessionsSound
PROPERTY DataResumes

CONSTANTS
  Carrier = "udp"
  MaxInit = 3
  MaxResp = 3
  MaxSeq = 1
  MaxStaged = 2
  CacheSize = 2
  Disturbances <- UdpDisturbances
SPECIFICATION FairSpec
INVARIANTS DeliveredOnce ServerFollowsClient ClientSessionHeld CachedAnswerUsable
PROPERTY Reconverges

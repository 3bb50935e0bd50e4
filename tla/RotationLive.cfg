SPECIFICATION FairSpec
CONSTANTS
  SuspectBackoff <- LongBackoff
  DeadRetest = 5
  Sizes <- ManyOrOne
  PortTries = 1
  Revive <- ReviveTwice
  SessionRung = TRUE
  PortMayFail = TRUE
  BindMayFail = FALSE
  MaxOutside = 0
  Good <- LastGood
  MayMisjudge = FALSE
  MaxTicks = 1
PROPERTIES FindsGood LadderRevives

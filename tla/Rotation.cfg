SPECIFICATION Spec
CONSTANTS
  SuspectBackoff <- ShortBackoff
  DeadRetest = 1
  Sizes <- TwoByTwo
  PortTries = 1
  Revive <- ReviveOnce
  SessionRung = FALSE
  PortMayFail = FALSE
  BindMayFail = TRUE
  MaxOutside = 1
  Good <- NoneGood
  MayMisjudge = TRUE
  MaxTicks = 1
INVARIANTS TypeOK ReadsNeverMove LandedWhereThePoolsSay
PROPERTIES WalksOnItsOwnRungs ChargesTheMeasuredPath

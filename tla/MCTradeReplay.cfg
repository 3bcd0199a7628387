SPECIFICATION Spec
CONSTANTS
  NoOrder = NoOrder
  Prices <- FewPrices
  Plans <- TwoPlans
  Runs <- FourRuns
  LastBar = 4
  Size = 10
  BarLength = 3
  FundingPeriod = 2
  ValidBars = 1
  Maintenance = 1
  Slippage = 1
INVARIANTS NothingSoldTwice BarIsHonest BankedIsProtected FundingOncePerSettlement
CHECK_DEADLOCK FALSE

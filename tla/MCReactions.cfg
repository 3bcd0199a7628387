CONSTANTS
  good = good  bad = bad
  None = None
  Pairs <- MCPairs
  Broken <- MCBroken
  SeenAt <- MCSeenAt
  Horizons <- MCHorizons
  Grace = 1
  Poll = 1
  Limit = 2
  MaxTime = 6
  MaxFaults = 1
SPECIFICATION FairSpec
INVARIANT ExtremesCoverReturns
PROPERTIES MeasuredStays HealthyPairsEnd
CHECK_DEADLOCK FALSE

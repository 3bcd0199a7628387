SPECIFICATION Spec
CONSTANTS
  NoReading = NoReading
  EqualTolerance = 120
  RangeLookback = 60
  MaxAge = 40
  DivergenceLookback = 120
  MinBarsApart = 4
  MaxBarsApart = 60
  FastChannel = 20
  SlowChannel = 28
  AtrPeriod = 10
  TrendPeriod = 28
  TrailingMoveLookback = 10
  Yardstick = 20
  MinCandles = 30
  MaxSeries = 33
  Starts <- MCStarts
  Shapes <- MCShapes
  Absent = Absent
  Unknown = Unknown
  Missing = Missing
  p1 = p1
  p2 = p2
  c1 = c1
  c2 = c2
  OpenPositions = {p1}
  ShownClusters = {c1}
  Price = 100
  Replies <- MCReplies
  Offered <- MCOffered
  Situations <- MCSituations
  Policies <- MCPolicies
  Followed <- MCFollowed
  Watched <- MCWatched
  Bars <- MCBars
  PerCoarse = 2
  Day = 2
  Offsets = {1, 2}
  Discussed <- MCDiscussed
INVARIANTS PlanIsBracket ExposureBounded VerdictIsTrue SupportNeverHurtsYet MirrorFairYet
PROPERTIES NoRepaint
CHECK_DEADLOCK FALSE

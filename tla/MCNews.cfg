CONSTANTS
  s1 = s1  s2 = s2
  x1 = x1  y1 = y1  z1 = z1  x2 = x2  y2 = y2
  None = None
  Sources <- MCSources
  Articles <- MCArticles
  SourceOf <- MCSourceOf
  UrlOf <- MCUrlOf
  TitleOf <- MCTitleOf
  Early <- MCEarly
  Usable <- MCUsable
  Paged <- MCPaged
  Alike <- MCAlike
  Priority <- MCPriority
  Concurrency = 2
  FirstWindow = 0
  Overlap = 1
  Lag = 1
  SameStory = 1
  Window = 1
  PassLimit = 2
  MaxTime = 1
  MaxFaults = 1
  MaxEdits = 1
SPECIFICATION FairSpec
INVARIANTS NothingMissed ClusterAddsUp DisabledStaysDisabled
PROPERTY BacklogClears
CHECK_DEADLOCK FALSE

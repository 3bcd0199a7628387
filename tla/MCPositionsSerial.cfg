SPECIFICATION Spec
CONSTANTS
  c1 = c1
  c2 = c2
  p1 = p1
  r1 = r1
  planA = planA
  planB = planB
  None = None
  Clients <- OneClient
  Ids <- OneId
  Recs <- OneRec
  Plans <- TwoPlans
  Sizes <- ZeroAndThree
  MaxCloses = 4
  MaxCash = 1
INVARIANT CacheMatchesFills
PROPERTY KeepsLedger

SPECIFICATION Spec
CONSTANTS
  c1 = c1
  c2 = c2
  p1 = p1
  r1 = r1
  planA = planA
  planB = planB
  None = None
  Clients <- TwoClients
  Ids <- OneId
  Recs <- OneRec
  Plans <- OnePlan
  Sizes <- ZeroAndThree
  MaxCloses = 3
  MaxCash = 1
SYMMETRY Symmetric
INVARIANTS NeverUnderstated ViewCoversRow CacheAgreesWithLastClose

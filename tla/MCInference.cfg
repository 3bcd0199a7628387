SPECIFICATION InferenceFairSpec
CONSTANTS
  a = a
  b = b
  m1 = m1
  Callers <- TwoCallers
  Models <- OneModel
  Slots <- OneOrTwo
  MaxResizes = 1
  MaxTraces = 2
INVARIANTS SlotsAccounted CachedHasOrigin
PROPERTY EveryRequestEnds

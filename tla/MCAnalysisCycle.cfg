SPECIFICATION FairSpec
CONSTANTS
  x = x
  y = y
  c = c
  d = d
  p = p
  Assets <- TwoAssets
  Callers <- TwoCallers
  Positions <- OnePosition
  AssetOf <- OfX
  Wants <- BothX
  Slots = 2
  Intervals <- Every
  Grace = 0
  Cooldown = 1
  MaxEvents = 1
  MaxTime = 2
  Loop = Loop
  Nothing = Nothing
INVARIANTS CooldownIsFair NamesOpenPosition
PROPERTIES CycleIsComplete EverythingEnds
CHECK_DEADLOCK FALSE

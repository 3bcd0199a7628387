SPECIFICATION Spec
CONSTANTS
  hourly = hourly
  added = added
  manual = manual
  Backfills <- OneBackfill
  Imports <- OneImport
  Window = 4
  Cap = 5
  MaxWork = 1
  MaxNow = 6
INVARIANTS BackfillsLeaveNoGap BothEndsReached NothingForming

SPECIFICATION FairSpec
CONSTANTS
  j1 = j1
  j2 = j2
  NoJob = NoJob
  JobIds <- TwoJobs
  MaxUnits = 3
INVARIANTS OneWorker VerdictIsTrue
PROPERTY ImportEnds
CHECK_DEADLOCK FALSE

SPECIFICATION Spec
CONSTANTS
  None = None
  serve = serve
  k1 = k1
  e1 = e1
  e2 = e2
  Procs <- OneProc
  Apis <- OneProc
  Clients <- OneClient
  Edits <- TwoEdits
  Faults <- PutFaults
INVARIANT AppliedEverywhere
PROPERTY NothingUnstoredRuns

SPECIFICATION FairSpec
CONSTANTS
  r1 = r1
  r2 = r2
  serve = serve
  RunIds <- TwoRuns
  Procs <- OneProc
  Servers <- OneProc
  Faults <- AllFaults
INVARIANTS CompletedIsWhole AbandonedOnlyByFault
PROPERTY Settles

SPECIFICATION FairSpec
CONSTANTS
  WaitFails = TRUE
INVARIANTS
  EndIsExplained
  ConnectedIsComplete
  ThreadsEndFirst
PROPERTIES
  RunEnds

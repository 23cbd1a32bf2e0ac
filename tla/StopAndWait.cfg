CONSTANTS
  NChunks <- MCNChunks
  Attempts <- MCAttempts
  CloseAttempts <- MCCloseAttempts
  DupCap <- MCDupCap
SPECIFICATION FairSpec
INVARIANTS
  LagOnlyAfterRepeat ClosedOnFin
PROPERTIES
  MainEnds Implements
\* Nothing happens after main has returned.
CHECK_DEADLOCK FALSE

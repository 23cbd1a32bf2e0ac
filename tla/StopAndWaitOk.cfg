CONSTANTS
  NChunks <- MCNChunks
  Attempts <- MCAttempts
  CloseAttempts <- MCCloseAttempts
  DupCap <- MCDupCap
SPECIFICATION Spec
INVARIANTS
  OkMeansAcked
\* Nothing happens after main has returned.
CHECK_DEADLOCK FALSE

CONSTANTS
  W <- MCW
  NChunks <- MCFewChunks
  Wnds <- MCFullWnds
  ChunkBytes <- MCChunkBytes
  LastBytes <- MCLastBytes
  DupCap <- MCDupCap
  DataCap = 1
  AckCap = 1
  Duplicates = FALSE
  RecvErrors = TRUE
  TrackRtt = FALSE
SPECIFICATION FairSpec
PROPERTIES
  Termination Implements
\* Nothing happens after main has joined the worker.
CHECK_DEADLOCK FALSE

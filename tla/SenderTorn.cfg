CONSTANTS
  W <- MCW
  NChunks <- MCFewChunks
  Wnds <- MCFullWnds
  ChunkBytes <- MCChunkBytes
  LastBytes <- MCLastBytes
  DupCap <- MCDupCap
  DataCap = 2
  AckCap = 2
  Duplicates = FALSE
  RecvErrors = FALSE
  TrackRtt = FALSE
SPECIFICATION Spec
INVARIANTS
  DataIntact
CHECK_DEADLOCK FALSE

CONSTANTS
  W <- MCW
  NChunks <- MCNChunks
  Wnds <- MCMixedWnds
  ChunkBytes <- MCChunkBytes
  LastBytes <- MCLastBytes
  DupCap <- MCDupCap
  DataCap = 1
  AckCap = 2
  Duplicates = TRUE
  RecvErrors = FALSE
  TrackRtt = FALSE
SPECIFICATION Spec
INVARIANTS
  TokenAccount OutstandingIntact FlowControl
  TornLoadIsAcked DoneMeansDelivered GoodputExact DupsAreOfBase
PROPERTIES
  GrantNeverShrinks FullLostOnlyBehindAck
\* Nothing happens after main has joined the worker.
CHECK_DEADLOCK FALSE

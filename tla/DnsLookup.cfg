CONSTANTS
  MAX_ATTEMPTS <- MCAttempts
  Offsets <- MCOffsets
  QName <- MCQName
  Contains <- MCContains
  Size <- MCSize
  MaxRecords <- MCRecords
SPECIFICATION FairSpec
INVARIANTS
  WalkBounded LoopsReported SoundReadWhole
PROPERTIES
  LookupEnds
\* The client ends.
CHECK_DEADLOCK FALSE

CONSTANTS
  N <- MCN
  NUrls <- MCNUrls
  Rows <- MCRows
  NetCap <- MCNetCap
SPECIFICATION FairSpec
INVARIANTS
  GiveUpTogether IndexInRange RowsFollowHosts
PROPERTIES
  ReportIsFinite
\* The report ends.
CHECK_DEADLOCK FALSE

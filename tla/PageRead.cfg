CONSTANTS
  INITIAL_BUF_SIZE <- MCInitial
  ROBOT_MAX <- MCRobotMax
  PAGE_MAX <- MCPageMax
  MinHeader <- MCMinHeader
  Limit <- MCLimit
  MaxUrls <- MCMaxUrls
SPECIFICATION FairSpec
INVARIANTS
  BufferSuffices TimeAccount HandlesAccounted StatusesAddUp
PROPERTIES
  DownloadsEnd
\* The thread ends.
CHECK_DEADLOCK FALSE

CONSTANTS
  Attempts <- MCAttempts
  PrintCap <- MCPrintCap
SPECIFICATION FairSpec
PROPERTIES
  StatsCloseReturns
\* main may wait forever, and nothing happens after it has returned.
CHECK_DEADLOCK FALSE

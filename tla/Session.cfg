CONSTANTS
  Attempts <- MCAttempts
  PrintCap <- MCPrintCap
SPECIFICATION FairSpec
INVARIANTS
  WakeupLostOnlyIfCaught CloseFindsConnection ClosedOnFinAck
PROPERTIES
  StatsStops MainReturns
\* main may wait forever, and nothing happens after it has returned.
CHECK_DEADLOCK FALSE

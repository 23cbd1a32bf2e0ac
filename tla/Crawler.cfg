CONSTANTS
  N <- MCN
  Hosts <- MCHosts
  Ips <- MCIps
  Files <- MCFiles
  Malformed = Malformed
  Blank = Blank
  h1 = h1
  h2 = h2
  a1 = a1
  a2 = a2
SPECIFICATION FairSpec
INVARIANTS
  EachIpOnce StatsAgree TotalsAccount FinalPrintIsLast
PROPERTIES
  DriftSettles CrawlersEnd RaiseIsHeard
\* Crawlers may spin on an empty URL, and nothing happens after finalPrint.
CHECK_DEADLOCK FALSE

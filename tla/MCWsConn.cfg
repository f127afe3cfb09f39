SPECIFICATION ConnFairSpec
CONSTANTS
  Configs <- MCConfigs
  Requests <- MCRequests
  Extensions <- MCExtensions
  Acts = {"send", "ping", "shutdown", "close", "destroy"}
  Outcomes = {"ok", "fatal", "nomem"}
  LateFails = FALSE
  Talkative = FALSE
  MaxRedirects = 2
  Cap = 3
  MaxSends = 3
CHECK_DEADLOCK FALSE
INVARIANTS NotificationOrder InSync
PROPERTIES OpeningEnds

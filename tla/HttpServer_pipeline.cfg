SPECIFICATION FairSpec
CONSTANTS
  Conn = {c1}
  None = none
  Kind = {"part", "get", "last", "up", "bad"}
  Cap = 2
  Budget = 1
  Limit = 1
  MaxChunk = 2
  MaxCells = 4
  WalkWrites = FALSE
  Posted = {TRUE}
CHECK_DEADLOCK FALSE
INVARIANTS RequestsOnce IdleGuard
PROPERTY RequestServed

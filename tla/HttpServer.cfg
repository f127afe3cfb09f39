SPECIFICATION FairSpec
CONSTANTS
  Conn = {c1, c2}
  None = none
  Kind = {"part", "get", "last", "up", "bad"}
  Cap = 2
  Budget = 1
  Limit = 1
  MaxChunk = 1
  MaxCells = 1
  WalkWrites = FALSE
  Posted = {TRUE}
CHECK_DEADLOCK FALSE
INVARIANTS NoUseAfterFree CloseOnce
PROPERTIES DestroyEnds

SPECIFICATION Spec
CONSTANTS
  OutCap = 3
  FeedCap = 3
  Flight = 4
  MaxNeed = 1
  ChannelEnd = {"eof"}
  MaxOpen = 2
  MaxByte = 3
  MaxChunk = 3
  MaxRecv = 4
  MaxDepth = 5
  Reopens = FALSE
  RegFails = FALSE
  NestedClose = FALSE
CHECK_DEADLOCK FALSE
INVARIANTS NotificationOrder EndTold NothingStuck WriteOrder

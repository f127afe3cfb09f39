SPECIFICATION RecvSpec
CONSTANTS
  Cap = 18
  Clients = {TRUE, FALSE}
  Deflate = TRUE
  Batch = 4
  Sizes = {0, 6, 14}
  ZSizes = {0, 7}
  Chunks = {1, 9}
  Roles = {"one", "bad", "corrupt", "lead"}
  Acts = {"close"}
  Mixed = FALSE
  Reserved = {}
  MaxFrag = 3
  MaxPipe = 4
CHECK_DEADLOCK FALSE
INVARIANTS MessagesIntact BufferFits AllDelivered

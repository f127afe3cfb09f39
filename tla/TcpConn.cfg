SPECIFICATION FairSpec
CONSTANTS
  Loop = loop
  Worker = {w1, w2}
  Fd = {f1, f2}
  None = none
  DestroyAt = {"rest", "loop_cb"}
  AllocFails = TRUE
  PostFails = TRUE
  MaxByte = 4
  MaxDepth = 3
CHECK_DEADLOCK FALSE
INVARIANTS InOrder FinLast FdOwned NoUseAfterFree
PROPERTIES CallbackOrder AcceptedSent OpeningEnds

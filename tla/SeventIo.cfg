SPECIFICATION FairSpec
CONSTANTS
  Loop = loop
  Worker = {w1}
  Node = {n1, n2}
  Fd = {f1, f2}
  None = none
  MaxReg = 2
  Repeat = TRUE
CHECK_DEADLOCK FALSE
INVARIANTS HandlesConsistent SnapshotIntact
PROPERTIES OwnUnregisterFinal RegistrationSeen

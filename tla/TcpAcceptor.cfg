SPECIFICATION AcceptorFairSpec
CONSTANTS
  Loop = loop
  Worker = {w1}
  Fd = {f1, f2, f3}
  None = none
  Backlog = 2
  MaxListen = 3
  MaxConn = 3
CHECK_DEADLOCK FALSE
INVARIANTS OwnedOnce HandedRight
PROPERTIES BacklogServed

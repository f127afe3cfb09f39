SPECIFICATION Spec
CONSTANTS
  Timer = {a, b}
  Interval = {1, 2}
  IntMax = 100
  MaxExpired = 1
  MaxFire = 2
  IdleWait = 2
  TicksPerMs = 2
  MsPerSec = 2
  ClosedFd = TRUE
  HasIo = TRUE
  RegAt <- AnyPoint
  UnregAt <- AnyPoint
  MinWait = 0
  MaxWait = 5
  MaxLag = 1
  MaxSlack = 12
INVARIANTS SelectBounded NoDrift UnregisterTakesHold NotEarly
SYMMETRY Alike

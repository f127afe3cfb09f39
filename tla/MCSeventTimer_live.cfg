SPECIFICATION FairSpec
CONSTANTS
  Timer = {a, b}
  Interval = {1, 2}
  IntMax = 100
  MaxExpired = 2
  MaxFire = 4
  IdleWait = 2
  TicksPerMs = 1
  MsPerSec = 2
  ClosedFd = FALSE
  HasIo = TRUE
  RegAt = {"rest", "select", "timer_cb"}
  UnregAt = {"select", "timer_cb"}
  MinWait = 1
  MaxWait = 2
  MaxLag = 0
  MaxSlack = 0
PROPERTIES TimerFires

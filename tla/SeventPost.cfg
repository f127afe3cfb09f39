SPECIFICATION FairSpec
CONSTANTS
  Loop = loop
  Worker = {w1, w2}
  Task = {t1, t2, t3}
CHECK_DEADLOCK FALSE
INVARIANTS NoLostPost
PROPERTIES TaskQueueSpec PostsRun StopExits

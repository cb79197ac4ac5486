SPECIFICATION FairSpec
CONSTANTS
  Jobs = {j1, j2}
  Observers = {o1, o2}
  maxThreads = 2
  Ops = {"timeout", "pause", "move"}
  None = None
INVARIANTS
  CHECKCOUNT
  NoLostJob
  JobLife
PROPERTIES
  PoolProgress
CHECK_DEADLOCK FALSE

SPECIFICATION FairSpec
CONSTANTS
  Timers = {t1, t2}
  Threads = {c1, c2}
  MaxTime = 1
  Ops = {"destroy", "release"}
  None = None
INVARIANTS
  ListAgrees
  CancelBlocks
  NoOversleep
PROPERTIES
  TimerProgress
CHECK_DEADLOCK FALSE

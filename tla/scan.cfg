SPECIFICATION ScanFairSpec
CONSTANTS
  Periodic <- OnePeriodic
  InitScan <- AllPeriodic
  phas <- TwoPhases
  r1 = r1
  r2 = r2
  r3 = r3
  periodic = periodic
  event = event
  Records = {r1, r2, r3}
  EventLists = {event}
  IoLists = {event}
  onceQueueSize = 1
  MaxRequests = 1
  MaxPuts = 2
  None = None
INVARIANTS
  ListsAgree
  WalkIsOnList
  WalkIsComplete
PROPERTIES
  StopReturns
CHECK_DEADLOCK FALSE

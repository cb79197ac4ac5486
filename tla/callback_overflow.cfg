SPECIFICATION FairSpec
CONSTANTS
  Cbs = {c1}
  Askers = {a1, a2}
  NUM_CALLBACK_PRIORITIES = 1
  callbackThreadsDefault = 1
  QueueSizes = {1}
  MaxThreads = 1
  MaxLate = 1
  Ops = {}
PROPERTIES
  OverflowClears

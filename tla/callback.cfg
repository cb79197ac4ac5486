SPECIFICATION FairSpec
CONSTANTS
  Cbs = {c1}
  Askers = {"timer"}
  NUM_CALLBACK_PRIORITIES = 1
  callbackThreadsDefault = 1
  QueueSizes = {2}
  MaxThreads = 2
  MaxLate = 1
  Ops = {"configure", "delay", "stop", "sync"}
INVARIANTS
  NoIdleWorker
  CleanupSafe
PROPERTIES
  RequestRuns
  CallsReturn

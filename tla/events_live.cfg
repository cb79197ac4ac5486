SPECIFICATION FairSpec
CONSTANTS
  Subs = {s1}
  ValSubs = {s1}
  Recs = {r1}
  Clients = {c1}
  EVENTSPERQUE = 2
  EVENTENTRIES = 2
  MaxQueues = 1
  MaxVal = 2
  Ops = {"flow", "suicide", "labor", "single", "disable"}
INVARIANTS
  GivenBackIsUnused
PROPERTIES
  Delivered
  CallsReturn
  LaborGetsDone

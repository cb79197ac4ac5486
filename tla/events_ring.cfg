SPECIFICATION Spec
CONSTANTS
  Subs = {s1, s2}
  ValSubs = {s1}
  Recs = {r1}
  Clients = {c1, c2}
  EVENTSPERQUE = 3
  EVENTENTRIES = 2
  MaxQueues = 1
  MaxVal = 3
  Ops = {"suicide"}
INVARIANTS
  TypeOK
  CountsAgree
  RingShape
  NoLostUpdate
  NoDanglingEvent
  CancelDiscipline
  NoLostWakeup
PROPERTIES
  RefinesMonitor
SYMMETRY Symmetry

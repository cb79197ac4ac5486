SPECIFICATION Spec
CONSTANTS
  Subs = {s1, s2}
  ValSubs = {s1}
  Recs = {r1}
  Clients = {c1}
  EVENTSPERQUE = 3
  EVENTENTRIES = 4
  MaxQueues = 1
  MaxVal = 1
  Ops = {}
INVARIANTS
  EntryAvailable
SYMMETRY Symmetry

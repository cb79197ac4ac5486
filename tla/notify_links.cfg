SPECIFICATION Spec
CONSTANTS
  Flnk <- Chain2
  ChanRec <- Three
  requestType <- PutThree
  r1 = r1
  r2 = r2
  n1 = n1
  n2 = n2
  n3 = n3
  p1 = p1
  p2 = p2
  p3 = p3
  Recs = {r1, r2}
  Notifies = {n1, n2, n3}
  Pvts = {p1, p2, p3}
  None = None
  Async = {r2}
  Passive = {r1, r2}
  Ops = {"scan", "relink", "again"}
INVARIANTS
  NoAssertFails
  Ownership
SYMMETRY PvtSymmetry

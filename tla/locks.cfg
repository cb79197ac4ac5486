SPECIFICATION Spec
CONSTANTS
  Puts <- Retarget
  InitLink <- Chain
  Thread = {t1, t2}
  Record = {a, b, c}
  MaxPuts = 3
  a = a
  b = b
  c = c
  None = None
  NumSets = 6
INVARIANTS
  RefsCounted
  SetsAreComponents
  NoDeadlock
PROPERTIES
  RefinesRecordLock
SYMMETRY ThreadSymmetry

SPECIFICATION RingsSpec
CONSTANTS
  Bytes = {0, 1}
  Capacity = 3
  SLOP = 2
  Sizes = {0, 1, 2, 3}
  Items = {p1, p2}
  Size = 3
INVARIANTS
  QueriesAgree
PROPERTIES
  BytesAreFifo
  PointersAreFifo

SPECIFICATION Spec
CONSTANTS
  Nil = Nil
  Pages = {p1, p2}
  Requests = {0, 1, 2}
  PageUnits = 7
  IndexLimit = 1
SYMMETRY Interchangeable
INVARIANTS
  TypeOK
  Tiled
  UsedIsExact
  Merged
PROPERTIES
  ContentsKept

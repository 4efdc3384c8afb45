SPECIFICATION Spec
CONSTANTS
  Nil = Nil
  Pages = {p1, p2, p3, p4, p5}
  Requests = {0, 1, 4}
  PageUnits = 4
  IndexLimit = 1
SYMMETRY Interchangeable
INVARIANTS
  PagesAccounted
PROPERTIES
  ImplementsHeap

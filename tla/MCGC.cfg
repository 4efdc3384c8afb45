SPECIFICATION Spec
CONSTANTS
  root = root
  a = a
  b = b
  c = c
  Objects <- FourBlocks
  Root <- root
  Nil = Nil
  Adjacent <- Apart
  Stale <- OneStale
SYMMETRY MCSymmetry
INVARIANTS TypeOK OneColour
PROPERTIES ReleasedUnused GarbageGoes

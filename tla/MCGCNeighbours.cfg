SPECIFICATION Spec
CONSTANTS
  root = root
  a = a
  b = b
  c = c
  Objects <- ThreeBlocks
  Root <- root
  Nil = Nil
  Adjacent <- Neighbours
  Stale <- NoneStale
PROPERTY ReleasedUnused

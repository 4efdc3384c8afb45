SPECIFICATION Spec
CONSTANTS
  Items = {a, b}
  Unset = Unset
  Limits = {0, 3}
  LengthBound = 6
  Capacity = 4
  MaxBatch = 3
  Keys = {0, 1, 2, 3, 8, 9, 16}
  Values = {v, w}
  None = None
  Hash <- MCHash
  Requested = {0}
  Capacities = {8, 16}
  CacheKeys = {k, l}
  CacheHash <- MCCacheHash
  Blocks = {b1, b2, b3}
  TimeoutLen = 2
  MaxTime = 4
  Nodes = {1, 2, 3, 4, 5}
  Data = {1, 2, 3}
  ChunkSize = 2
  MaxChunks = 3
SYMMETRY MCSymmetry
VIEW MCView
INVARIANTS TypeOK Linked OnTime
PROPERTIES ImplementsFifo ImplementsDict ImplementsSequence

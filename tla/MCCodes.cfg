SPECIFICATION CSpec
CONSTANTS
  Size = 18
  Word = 3
  Wide = 6
  CopyBatches = {1, 2}
  MoveBatches = {1, 2, 3}
  Contents <- MCContents
  Kinds = {"moves", "words", "inflate", "queue", "regex", "format", "serial", "tokens", "json", "formats"}
  Patterns <- MCPatterns
  Unknown = Unknown
  Most = 99
  Handles = {h1, h2}
  Asks = {0, 1, 2, 3, 5}
  MaxBlocks = 6
INVARIANTS
  MovedOnly
  Served
  Inflated
  Optimal
  Searched
  ReadBack
  InOrder
  Owned
  Reproduced
PROPERTY
  Halts
CHECK_DEADLOCK FALSE

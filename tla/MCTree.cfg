SPECIFICATION Spec
CONSTANTS
  Nodes = {1, 2, 3, 4, 5}
  Nil = Nil
  Keys = {1, 2, 3, 4, 5}
  Data = {x, y}
  Repeated = {3}
VIEW View
INVARIANTS TypeOK Findable Walkable RedBlack
PROPERTIES EntriesKept

SPECIFICATION Spec
CONSTANTS
  Clients = {c1, c2}
  Nil = Nil
  MaxFiles = 3
  MaxSize = 2
  MaxEntries = 2
  MaxOpen = 2
  Modules = {m1, m2, m3}
VIEW MCView
INVARIANT Forwarded

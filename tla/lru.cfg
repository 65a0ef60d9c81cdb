SPECIFICATION Spec
CONSTANTS
  Keys <- MCKeys
  Values = {v1, v2}
  Nodes = {n1, n2, n3, n4}
  None = None
  Holders = {h1, h2}
  cap = 2
  Releases = "listed"
  MaxGets = 2
INVARIANTS
  TypeOK
  HeldStayAlive
  RefsCounted
  StationAlive
PROPERTY ImplementsLRU
SYMMETRY Symmetry
CHECK_DEADLOCK FALSE

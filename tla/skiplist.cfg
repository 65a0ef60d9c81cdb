SPECIFICATION Spec
CONSTANTS
  Keys <- MCKeys
  Values = {"", "v"}
  Absent = Absent
  KeyLen <- MCKeyLen
  ValLen <- MCValLen
  Nodes = {n1, n2, n3, n4}
  Nil = Nil
  kMaxHeight = 2
INVARIANTS
  TypeOK
  LevelsNested
  CountersMatch
  SearchFindsLinked
PROPERTY ImplementsOrderedMap
SYMMETRY Symmetry
VIEW Reachable
CHECK_DEADLOCK FALSE

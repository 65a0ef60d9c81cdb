SPECIFICATION Spec
CONSTANTS
  BUFFER_SIZE = 3
  kHeaderSize = 2
  LogLens <- MCLogLens
  MaxLogs = 3
  MaxDeaths = 2
  MaxErrors = 1
INVARIANTS
  TypeOK
  NothingLostOnTheWay
  AckedIsWhole
PROPERTY ImplementsDurableLog
CHECK_DEADLOCK FALSE

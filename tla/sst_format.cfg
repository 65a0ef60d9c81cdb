SPECIFICATION Spec
CONSTANTS
  Keys <- MCNested
  ValLens = {1}
  Space = 32
  Byte = 256
  RESTART_INTERVAL = 3
  MAX_DATA_BLOCK_SIZE = 40
  KeyNums = {3}
  HashBits = 8
  Turn = 5
  Hash <- MCHash
  None = None
  Fault = Fault
  Fill = 118
  Newline = 10
  MaxAdds = 3
INVARIANT FileFollowsSchema
CHECK_DEADLOCK FALSE

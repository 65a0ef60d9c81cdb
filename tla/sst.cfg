SPECIFICATION Spec
CONSTANTS
  Keys <- MCKeys
  ValLens = {1, 30}
  Space = 32
  Byte = 256
  RESTART_INTERVAL = 3
  MAX_DATA_BLOCK_SIZE = 43
  KeyNums = {1, 5}
  HashBits = 8
  Turn = 5
  Hash <- MCHash
  None = None
  Fault = Fault
  Fill = 118
  Newline = 10
  MaxAdds = 5
INVARIANTS
  TypeOK
  BlocksReadBack
  IndexSeparates
  ParseReadsBack
  RestartsLeadToKeys
  FilterAdmitsKeys
CHECK_DEADLOCK FALSE

SPECIFICATION Spec
CONSTANTS
  Sizes <- MCSizes
  ALIGN_BYTES = 8
  MAX_OBJ_SIZE = 24
  CHUNK_SIZE = 8
  FILL_BLOCK_CNT = 2
  MaxChunks = 2
  Nil = Nil
  Data = Data
  MaxLive = 3
INVARIANTS
  TypeOK
  Apart
  NothingLost
  FitsItsChunk
CHECK_DEADLOCK FALSE

SPECIFICATION Spec
CONSTANTS
  Clients = {c1, c2}
  Keys <- MCKeys
  Values = {v1}
  Empty = Empty
  Absent = Absent
  KeyLen <- MCKeyLen
  ValLen <- MCValLen
  Shards = {0}
  ShardOf <- MCShardOf
  CACHE_SIZE = 1
  MEM_TABLE_MAX_SIZE = 100
  Kinds = {"put", "close"}
  ScanOnOpen = TRUE
  CloseAlone = FALSE
  MaxCalls = 4
  MaxOpens = 1
INVARIANT ClosePersistsAcknowledged
CHECK_DEADLOCK FALSE

SPECIFICATION Spec
CONSTANTS
  Clients = {c1}
  Keys <- MCKeys
  Values = {v1}
  Empty = Empty
  Absent = Absent
  KeyLen <- MCKeyLen
  ValLen <- MCValLen
  Shards = {0}
  ShardOf <- MCShardOf
  CACHE_SIZE = 1
  MEM_TABLE_MAX_SIZE = 100
  Kinds = {"put"}
  ScanOnOpen = TRUE
  CloseAlone = TRUE
  MaxCalls = 2
  MaxOpens = 1
INVARIANT LogTellsWritesApart
CHECK_DEADLOCK FALSE

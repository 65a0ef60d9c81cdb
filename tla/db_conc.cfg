SPECIFICATION LiveSpec
CONSTANTS
  Clients = {c1, c2}
  Keys <- MCKeys
  Values = {v1}
  Empty = Empty
  Absent = Absent
  KeyLen <- MCKeyLen
  ValLen <- MCValLen
  Shards = {0}
  ShardOf <- MCShardOf
  CACHE_SIZE = 1
  MEM_TABLE_MAX_SIZE = 4
  Kinds = {"put", "delete", "get", "batch", "close"}
  ScanOnOpen = TRUE
  CloseAlone = TRUE
  MaxCalls = 4
  MaxOpens = 2
INVARIANTS
  TypeOK
  WriteAhead
  LogMatchesStore
  NoResurrection
  CacheIndexed
  CacheHitStable
  OneTablePerFile
  CloseDurable
  MemBounded
PROPERTIES
  CallsReturn
  TablesStayReadable
  ImplementsKVStore
CHECK_DEADLOCK FALSE

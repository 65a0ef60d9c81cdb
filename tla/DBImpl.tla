------------------------------- MODULE DBImpl -------------------------------
(***************************************************************************)
(* DBImpl (src/db/db_impl.cpp): the threads of one process inside Put,     *)
(* Delete, Get, BatchPut/BatchDelete and Close, the reader-writer lock,    *)
(* the memtable, the cache, the write-ahead log, the SST files, and the    *)
(* death and reopening of the process.  Close takes no lock, so the        *)
(* memtable is walked key by key and an update is an erase followed by an  *)
(* insert, as in MemTable::Insert.                                         *)
(***************************************************************************)
EXTENDS LRUList, FiniteSets, FiniteSetsExt, Functions

CONSTANTS
  Clients,            \* threads that share one DB
  Keys,               \* keys, positive integers in their string order
  Values,             \* non-empty values
  Empty,              \* the empty string: the tombstone
  Absent,             \* "no entry here"
  KeyLen, ValLen,     \* sizes in bytes
  Shards, ShardOf,    \* the cache's shards, and hash(key) % SHARDING_NUM
  CACHE_SIZE,         \* capacity of each shard
  MEM_TABLE_MAX_SIZE,
  Kinds,              \* the calls this instance makes
  ScanOnOpen,         \* the caller sets LISST_NUM as options.h asks
  CloseAlone,         \* no call overlaps Close
  MaxCalls, MaxOpens  \* bounds: calls in all, openings of the database

Vals == Values \cup {Empty}
MaybeVals == Vals \cup {Absent}
MemTables == [Keys -> MaybeVals]
Ops == [kind : Kinds, key : Keys, val : Vals]

ASSUME KeyAssumption == /\ Keys \subseteq Nat \ {0}
                        /\ KeyLen \in [Keys -> Nat]
                        /\ ValLen \in [Vals -> Nat]
                        /\ ValLen[Empty] = 0
ASSUME SentinelAssumption == /\ Empty \notin Values
                             /\ Absent \notin Vals /\ Absent \notin Nat \cup MemTables
ASSUME ShardAssumption == ShardOf \in [Keys -> Shards]
ASSUME SizeAssumption == CACHE_SIZE \in Nat /\ MEM_TABLE_MAX_SIZE \in Nat
ASSUME KindAssumption == Kinds \subseteq {"put", "delete", "get", "batch", "close"}
ASSUME BoundAssumption == MaxCalls \in Nat /\ MaxOpens \in Nat
ASSUME CallerAssumption == ScanOnOpen \in BOOLEAN /\ CloseAlone \in BOOLEAN

VARIABLES
  proc,      \* the process: up, or brought down by a crash or by its own abort
  closed,    \* DBImpl::closed
  wlock,     \* rwlock_: the thread that holds it exclusively, if any
  rlock,     \*          the threads that share it
  pc, op,    \* each thread's place and call
  ret,       \* what its last Get put in *ret_value_ptr
  mem,       \* the active memtable
  cached,    \* the cache's nodes: key -> value
  order,     \* each shard's list, most recently used first
  wal,       \* records on disk, each with the call it was written for
  base,      \* (history) the records that were there when the database opened
  ssts,      \* what was appended to SST files, in order
  num,       \* options_.LISST_NUM
  it,        \* each flush in progress
  calls, opens

memory == <<closed, wlock, rlock, pc, op, ret, mem, cached, order, num, it>>
disk == <<wal, ssts>>
vars == <<proc, memory, base, disk, calls, opens>>

-----------------------------------------------------------------------------
(* The data each step works on. *)

EmptyMem == [k \in Keys |-> Absent]

\* SkipList::Insert returns early on a key it already holds.
InsertNew(m, k, v) == IF m[k] = Absent THEN [m EXCEPT ![k] = v] ELSE m

Erased(m, k) == [m EXCEPT ![k] = Absent]

\* MemTable::GetMemUsage: the bytes of the keys and values held.
Held(m) == {k \in Keys : m[k] # Absent}
MemUsage(m) == SumFunctionOnSet([k \in Held(m) |-> KeyLen[k] + ValLen[m[k]]], Held(m))

LE32(n) == [i \in 1..4 |-> (n \div 256^(i - 1)) % 256]

\* The bytes of a payload, none of them zero, stand as one symbol.
Payload(v) == IF v = Empty THEN <<>> ELSE <<v>>

EncodeKV(k, v) == LE32(KeyLen[k]) \o <<k>> \o LE32(ValLen[v]) \o Payload(v)

\* char[] to string_view: what comes before the first zero byte.
CString(s) == SubSeq(s, 1, Min({i \in DOMAIN s : s[i] = 0}) - 1)

LogString(o) == CString(EncodeKV(o.key, o.val))

NoOp == [kind |-> "none", key |-> 0, val |-> Empty]

\* A flush in progress: its file, the key of the last entry added, the table
\* built so far; `ghost` and `join` tell where the iterator goes from there.
FlushTo(n, owed) == [file |-> n, pos |-> 0, tab |-> EmptyMem,
                     ghost |-> EmptyMem, join |-> 0, owed |-> owed]

NoFlush == FlushTo(0, {})

Flushing(c) == pc[c] = "add"

\* A dying process may leave an unfinished file of a flush behind.
Remains == {ssts} \cup {Append(ssts, [file |-> it[c].file, tab |-> Absent]) :
                          c \in {d \in Clients : Flushing(d)}}

\* What a scan of STORAGE_DIR finds: the number after the last one used.
NextNumber(n) == /\ \A i \in DOMAIN ssts : ssts[i].file < n
                 /\ n = 0 \/ \E i \in DOMAIN ssts : ssts[i].file = n - 1

Nowhere == [c \in Clients |-> "idle"]
NoOps == [c \in Clients |-> NoOp]
NoResults == [c \in Clients |-> Absent]
NoFlushes == [c \in Clients |-> NoFlush]
EmptyLists == [s \in Shards |-> <<>>]

\* The constructor with the default Options.
Init == /\ proc = "up" /\ closed = FALSE
        /\ wlock = {} /\ rlock = {}
        /\ pc = Nowhere /\ op = NoOps /\ ret = NoResults
        /\ mem = EmptyMem /\ cached = EmptyMem /\ order = EmptyLists
        /\ wal = <<>> /\ base = 0 /\ ssts = <<>>
        /\ num = 0 /\ it = NoFlushes
        /\ calls = 0 /\ opens = 1

\* Everything in memory is gone, whichever thread brought the process down.
Die(how) ==
       /\ proc' = how /\ closed' = FALSE
       /\ wlock' = {} /\ rlock' = {}
       /\ pc' = Nowhere /\ op' = NoOps /\ ret' = NoResults
       /\ mem' = EmptyMem /\ cached' = EmptyMem /\ order' = EmptyLists
       /\ num' = 0 /\ it' = NoFlushes
       /\ base' = Len(wal)
       /\ ssts' \in Remains
       /\ UNCHANGED <<wal, calls, opens>>

At(c, place) == proc = "up" /\ pc[c] = place
Goto(c, place) == pc' = [pc EXCEPT ![c] = place]
Return(c) == /\ Goto(c, "idle")
             /\ op' = [op EXCEPT ![c] = NoOp]
             /\ ret' = [ret EXCEPT ![c] = Absent]

-----------------------------------------------------------------------------
(* Calls.  Put, Delete and Get assert that the database is open before they *)
(* touch the lock; Close looks at closed and at the memtable's size.        *)

Idle(c) == /\ At(c, "idle")
           /\ calls < MaxCalls                                      \* bound
           /\ calls' = calls + 1
           /\ CloseAlone => \A d \in Clients : op[d].kind # "close"

Call(c, o, place) == /\ op' = [op EXCEPT ![c] = o]
                     /\ Goto(c, place)
                     /\ UNCHANGED <<proc, closed, wlock, rlock, ret, mem, cached, order,
                                    num, it, base, disk, opens>>

CallWrite(c) == /\ Idle(c)
                /\ ~closed
                /\ \E o \in Ops : /\ o.kind = "put" \/ (o.kind = "delete" /\ o.val = Empty)
                                  /\ Call(c, o, "wlock")

CallGet(c) == /\ Idle(c)
              /\ ~closed
              /\ \E o \in Ops : o.kind = "get" /\ o.val = Empty /\ Call(c, o, "rlock")

\* assert(closed == false) fails, and asserts are compiled in.
CallClosed(c) == /\ At(c, "idle")
                 /\ closed
                 /\ Kinds \cap {"put", "delete", "get"} # {}
                 /\ Die("abort")

CallBatch(c) == /\ Idle(c)
                /\ "batch" \in Kinds
                /\ Call(c, [NoOp EXCEPT !.kind = "batch"], "wlock")

CallClose(c) == /\ Idle(c)
                /\ "close" \in Kinds
                /\ CloseAlone => \A d \in Clients : pc[d] = "idle"
                /\ IF ~closed /\ mem # EmptyMem
                   THEN Call(c, [NoOp EXCEPT !.kind = "close"], "open")
                   ELSE Call(c, NoOp, "idle")

-----------------------------------------------------------------------------
(* The write path, under the exclusive lock. *)

\* (Mutants of LockExclusive: shared_lock where unique_lock is meant; the log
\* record left out.)
LockAsReader(c) ==
  /\ At(c, "wlock")
  /\ wlock' = wlock \cup {c}
  /\ Goto(c, IF op[c].kind = "batch" THEN "batch" ELSE "wal")
  /\ UNCHANGED <<proc, closed, rlock, op, ret, mem, cached, order, num, it,
                 base, disk, calls, opens>>

LockUnlogged(c) ==
  /\ At(c, "wlock")
  /\ wlock = {} /\ rlock = {}
  /\ wlock' = {c}
  /\ Goto(c, IF op[c].kind = "batch" THEN "batch" ELSE "mem")
  /\ UNCHANGED <<proc, closed, rlock, op, ret, mem, cached, order, num, it,
                 base, disk, calls, opens>>

LockExclusive(c) ==
  /\ At(c, "wlock")
  /\ wlock = {} /\ rlock = {}
  /\ wlock' = {c}
  /\ Goto(c, IF op[c].kind = "batch" THEN "batch" ELSE "wal")
  /\ UNCHANGED <<proc, closed, rlock, op, ret, mem, cached, order, num, it,
                 base, disk, calls, opens>>

\* BatchPut and BatchDelete check closed under the lock and return NotImpl.
Batch(c) ==
  /\ At(c, "batch")
  /\ IF closed THEN Die("abort")
     ELSE /\ Goto(c, "wunlock")
          /\ UNCHANGED <<proc, closed, wlock, rlock, op, ret, mem, cached, order, num, it,
                         base, disk, calls, opens>>

AddLog(c) ==
  /\ At(c, "wal")
  /\ wal' = Append(wal, [op |-> op[c], bytes |-> LogString(op[c])])
  /\ Goto(c, "mem")
  /\ UNCHANGED <<proc, closed, wlock, rlock, op, ret, mem, cached, order, num, it,
                 base, ssts, calls, opens>>

\* The node that follows k in the skip list, if any.
Follows(n, k) == LET after == {j \in Keys : mem[j] # Absent /\ j > k}
                 IN  IF after = {} THEN n = Absent
                     ELSE n \in after /\ \A j \in after : n <= j

\* SkipList::Delete unlinks a node and keeps it, with its next pointer: to an
\* iterator whose way leads over it, it is there still.
Unlinked(k, n) == [d \in Clients |->
                     IF Flushing(d) /\ it[d].join = k
                     THEN [it[d] EXCEPT !.ghost[k] = mem[k], !.join = n]
                     ELSE it[d]]

\* MemTable::Add, or the first half of Update and Delete.
WriteMem(c) ==
  /\ At(c, "mem")
  /\ IF mem[op[c].key] = Absent
     THEN /\ mem' = InsertNew(mem, op[c].key, op[c].val)
          /\ Goto(c, "cache")
          /\ UNCHANGED it
     ELSE /\ mem' = Erased(mem, op[c].key)
          /\ Goto(c, "reinsert")
          /\ \E n \in Keys \cup {Absent} : /\ Follows(n, op[c].key)
                                         /\ it' = Unlinked(op[c].key, n)
  /\ UNCHANGED <<proc, closed, wlock, rlock, op, ret, cached, order, num,
                 base, disk, calls, opens>>

Reinsert(c) ==
  /\ At(c, "reinsert")
  /\ mem' = InsertNew(mem, op[c].key, op[c].val)
  /\ Goto(c, "cache")
  /\ UNCHANGED <<proc, closed, wlock, rlock, op, ret, cached, order, num, it,
                 base, disk, calls, opens>>

\* (Mutant of CacheInsert: the evicted key stays in the index.)
EvictListOnly(k, v) ==
  LET s == ShardOf[k]
      full == PushFront(order[s], k)
  IN  IF Listed(order[s], k)
      THEN /\ order' = [order EXCEPT ![s] = Touch(@, k)]
           /\ UNCHANGED cached
      ELSE /\ order' = [order EXCEPT ![s] = IF Len(full) <= CACHE_SIZE
                                           THEN full ELSE DropOldest(full)]
           /\ cached' = [cached EXCEPT ![k] = v]

\* LRU::insert: a key already there keeps its node, value included.
CacheInsert(k, v) ==
  LET s == ShardOf[k]
      full == PushFront(order[s], k)
  IN  IF Listed(order[s], k)
      THEN /\ order' = [order EXCEPT ![s] = Touch(@, k)]
           /\ UNCHANGED cached
      ELSE IF Len(full) <= CACHE_SIZE
      THEN /\ order' = [order EXCEPT ![s] = full]
           /\ cached' = [cached EXCEPT ![k] = v]
      ELSE /\ order' = [order EXCEPT ![s] = DropOldest(full)]
           /\ cached' = [cached EXCEPT ![k] = v, ![Oldest(full)] = Absent]

\* (Mutant of CacheErase: Delete leaves the cache alone.)
KeepCached(k) == UNCHANGED <<order, cached>>

CacheErase(k) ==
  LET s == ShardOf[k]
  IN  IF Listed(order[s], k)
      THEN /\ order' = [order EXCEPT ![s] = Unlink(@, k)]
           /\ cached' = [cached EXCEPT ![k] = Absent]
      ELSE UNCHANGED <<order, cached>>

WriteCache(c) ==
  /\ At(c, "cache")
  /\ IF op[c].kind = "put" THEN CacheInsert(op[c].key, op[c].val) ELSE CacheErase(op[c].key)
  /\ Goto(c, "check")
  /\ UNCHANGED <<proc, closed, wlock, rlock, op, ret, mem, num, it, base, disk, calls, opens>>

\* (Mutants of CheckFull: > for >=; a new memtable without the flush.)
CheckOverfull(c) ==
  /\ At(c, "check")
  /\ Goto(c, IF MemUsage(mem) > MEM_TABLE_MAX_SIZE THEN "open" ELSE "wunlock")
  /\ UNCHANGED <<proc, closed, wlock, rlock, op, ret, mem, cached, order, num, it,
                 base, disk, calls, opens>>

SwapUnflushed(c) ==
  /\ At(c, "check")
  /\ Goto(c, IF MemUsage(mem) >= MEM_TABLE_MAX_SIZE THEN "swap" ELSE "wunlock")
  /\ UNCHANGED <<proc, closed, wlock, rlock, op, ret, mem, cached, order, num, it,
                 base, disk, calls, opens>>

CheckFull(c) ==
  /\ At(c, "check")
  /\ Goto(c, IF MemUsage(mem) >= MEM_TABLE_MAX_SIZE THEN "open" ELSE "wunlock")
  /\ UNCHANGED <<proc, closed, wlock, rlock, op, ret, mem, cached, order, num, it,
                 base, disk, calls, opens>>

\* (Mutant of UnlockExclusive: a return that forgets the lock.)
ReturnLocked(c) ==
  /\ At(c, "wunlock")
  /\ Return(c)
  /\ UNCHANGED <<proc, closed, wlock, rlock, mem, cached, order, num, it,
                 base, disk, calls, opens>>

UnlockExclusive(c) ==
  /\ At(c, "wunlock")
  /\ wlock' = wlock \ {c}
  /\ Return(c)
  /\ UNCHANGED <<proc, closed, rlock, mem, cached, order, num, it,
                 base, disk, calls, opens>>

-----------------------------------------------------------------------------
(* MemTableToSST and ConvertToL1SST, called by a full Put or Delete and by  *)
(* Close.                                                                   *)

\* Written before this flush, by calls that have returned.
Acknowledged(c) == {k \in Keys : /\ mem[k] # Absent
                                 /\ \A d \in Clients \ {c} : pc[d] # "idle" => op[d].key # k}

\* (Mutant of FlushOpen: the number of the file before.)
FlushPrevious(c) ==
  /\ At(c, "open")
  /\ it' = [it EXCEPT ![c] = FlushTo(num - 1, Acknowledged(c))]
  /\ Goto(c, "add")
  /\ UNCHANGED <<proc, closed, wlock, rlock, op, ret, mem, cached, order, num,
                 base, disk, calls, opens>>

FlushOpen(c) ==
  /\ At(c, "open")
  /\ it' = [it EXCEPT ![c] = FlushTo(num, Acknowledged(c))]
  /\ Goto(c, "add")
  /\ UNCHANGED <<proc, closed, wlock, rlock, op, ret, mem, cached, order, num,
                 base, disk, calls, opens>>

\* What the iterator walks over: the ghosts ahead of it, then the list from
\* `join` on.
GhostsAhead(c) == {k \in Keys : it[c].ghost[k] # Absent /\ k > it[c].pos}

LiveAhead(c) == IF it[c].join = Absent THEN {}
                ELSE {k \in Keys : mem[k] # Absent /\ k > it[c].pos /\ k >= it[c].join}

\* (Mutant of Ahead: the table leaves tombstones out.)
AheadLive(c) == GhostsAhead(c) \cup {k \in LiveAhead(c) : mem[k] # Empty}

Ahead(c) == GhostsAhead(c) \cup LiveAhead(c)

\* SSTableBuilder::add stores nothing under the empty key.
InTable(k, v) == IF KeyLen[k] = 0 THEN Absent ELSE v

\* add(iter->key(), iter->value()), for the node that Next or MoveToFirst gave.
FlushAdd(c) ==
  /\ At(c, "add")
  /\ \E k \in Ahead(c) :
       /\ \A j \in Ahead(c) : k <= j
       /\ it' = [it EXCEPT ![c] =
                   IF k \in GhostsAhead(c)
                   THEN [@ EXCEPT !.pos = k, !.tab[k] = InTable(k, it[c].ghost[k])]
                   ELSE [@ EXCEPT !.pos = k, !.tab[k] = InTable(k, mem[k]), !.join = k]]
  /\ UNCHANGED <<proc, closed, wlock, rlock, pc, op, ret, mem, cached, order, num,
                 base, disk, calls, opens>>

\* finish_sst asserts that the index is not empty, then appends the table.
FlushFinish(c) ==
  /\ At(c, "add")
  /\ Ahead(c) = {}
  /\ IF it[c].tab = EmptyMem THEN Die("abort")
     ELSE /\ ssts' = Append(ssts, [file |-> it[c].file, tab |-> it[c].tab])
          /\ Goto(c, "num")
          /\ UNCHANGED <<proc, closed, wlock, rlock, op, ret, mem, cached, order, num, it,
                         base, wal, calls, opens>>

\* (Mutant of BumpNum: LISST_NUM is not advanced.)
KeepNum(c) ==
  /\ At(c, "num")
  /\ Goto(c, IF op[c].kind = "close" THEN "setclosed" ELSE "swap")
  /\ UNCHANGED <<proc, closed, wlock, rlock, op, ret, mem, cached, order, num, it,
                 base, disk, calls, opens>>

BumpNum(c) ==
  /\ At(c, "num")
  /\ num' = num + 1
  /\ Goto(c, IF op[c].kind = "close" THEN "setclosed" ELSE "swap")
  /\ UNCHANGED <<proc, closed, wlock, rlock, op, ret, mem, cached, order, it,
                 base, disk, calls, opens>>

\* The nodes of the old memtable are never freed: the iterator stays on them.
AllGhosts(d) ==
  [it[d] EXCEPT !.ghost = [k \in Keys |-> IF k \in LiveAhead(d) THEN mem[k] ELSE @[k]],
                !.join = Absent]

\* mem_table = make_shared<MemTable>
SwapMem(c) ==
  /\ At(c, "swap")
  /\ mem' = EmptyMem
  /\ it' = [d \in Clients |-> IF d = c THEN NoFlush
                              ELSE IF Flushing(d) THEN AllGhosts(d)
                              ELSE it[d]]
  /\ Goto(c, "wunlock")
  /\ UNCHANGED <<proc, closed, wlock, rlock, op, ret, cached, order, num,
                 base, disk, calls, opens>>

SetClosed(c) ==
  /\ At(c, "setclosed")
  /\ closed' = TRUE
  /\ Return(c)
  /\ UNCHANGED <<proc, wlock, rlock, mem, cached, order, num, it,
                 base, disk, calls, opens>>

-----------------------------------------------------------------------------
(* The read path, under the shared lock. *)

\* (Mutant of LockShared: Get takes no lock.)
ReadUnlocked(c) ==
  /\ At(c, "rlock")
  /\ Goto(c, "look")
  /\ UNCHANGED <<proc, closed, wlock, rlock, op, ret, mem, cached, order, num, it,
                 base, disk, calls, opens>>

LockShared(c) ==
  /\ At(c, "rlock")
  /\ wlock = {}
  /\ rlock' = rlock \cup {c}
  /\ Goto(c, "look")
  /\ UNCHANGED <<proc, closed, wlock, op, ret, mem, cached, order, num, it,
                 base, disk, calls, opens>>

LookInCache(c) ==
  /\ At(c, "look")
  /\ Goto(c, IF Listed(order[ShardOf[op[c].key]], op[c].key) THEN "hit" ELSE "miss")
  /\ UNCHANGED <<proc, closed, wlock, rlock, op, ret, mem, cached, order, num, it,
                 base, disk, calls, opens>>

\* cache->get(key)->val: a null node if the key has left the cache since.
GetCached(c) ==
  /\ At(c, "hit")
  /\ LET k == op[c].key
         s == ShardOf[k]
     IN  IF ~Listed(order[s], k) THEN Die("abort")
         ELSE /\ ret' = [ret EXCEPT ![c] = cached[k]]
              /\ order' = [order EXCEPT ![s] = Touch(@, k)]
              /\ Goto(c, "runlock")
              /\ UNCHANGED <<proc, closed, wlock, rlock, op, mem, cached, num, it,
                             base, disk, calls, opens>>

GetMem(c) ==
  /\ At(c, "miss")
  /\ mem[op[c].key] # Absent
  /\ ret' = [ret EXCEPT ![c] = mem[op[c].key]]
  /\ Goto(c, "runlock")
  /\ UNCHANGED <<proc, closed, wlock, rlock, op, mem, cached, order, num, it,
                 base, disk, calls, opens>>

\* SSTParser and its Parse.  The path lacks its "/", and the constructor
\* asserts that the file exists; with a STORAGE_DIR that ends in "/", Parse
\* reads the filter's trailer at an address without sst_ptr in it.  Either
\* way the process never comes back.
ParseSST == Die("abort")

GetSST(c) ==
  /\ At(c, "miss")
  /\ mem[op[c].key] = Absent
  /\ ParseSST

UnlockShared(c) ==
  /\ At(c, "runlock")
  /\ rlock' = rlock \ {c}
  /\ Return(c)
  /\ UNCHANGED <<proc, closed, wlock, mem, cached, order, num, it,
                 base, disk, calls, opens>>

-----------------------------------------------------------------------------
(* The process. *)

Crash == proc = "up" /\ Die("crash")

\* The constructor neither scans STORAGE_DIR nor reads the log.
Open ==
  /\ proc # "up"
  /\ opens < MaxOpens                                               \* bound
  /\ opens' = opens + 1
  /\ proc' = "up"
  /\ \E n \in 0..Len(ssts) : /\ IF ScanOnOpen THEN NextNumber(n) ELSE n = 0
                             /\ num' = n
  /\ UNCHANGED <<closed, wlock, rlock, pc, op, ret, mem, cached, order, it,
                 base, disk, calls>>

Begin(c) == CallWrite(c) \/ CallGet(c) \/ CallClosed(c) \/ CallBatch(c) \/ CallClose(c)

Step(c) == \/ LockExclusive(c) \/ Batch(c) \/ AddLog(c) \/ WriteMem(c) \/ Reinsert(c)
           \/ WriteCache(c) \/ CheckFull(c) \/ UnlockExclusive(c)
           \/ FlushOpen(c) \/ FlushAdd(c) \/ FlushFinish(c) \/ BumpNum(c)
           \/ SwapMem(c) \/ SetClosed(c)
           \/ LockShared(c) \/ LookInCache(c) \/ GetCached(c) \/ GetMem(c) \/ GetSST(c)
           \/ UnlockShared(c)

Next == (\E c \in Clients : Begin(c) \/ Step(c)) \/ Crash \/ Open

Spec == Init /\ [][Next]_vars

\* A thread that can run is scheduled; nothing obliges anyone to make a call,
\* to crash or to open the database again.
Fairness == \A c \in Clients : WF_vars(Step(c))

LiveSpec == Spec /\ Fairness
=============================================================================

------------------------------- MODULE DBProps -------------------------------
(***************************************************************************)
(* The correctness properties of DBImpl.                                   *)
(***************************************************************************)
EXTENDS DBImpl

Places == {"idle", "wlock", "batch", "wal", "mem", "reinsert", "cache", "check", "wunlock",
           "open", "add", "num", "swap", "setclosed",
           "rlock", "look", "hit", "miss", "runlock"}

Calls == Ops \cup {NoOp, [NoOp EXCEPT !.kind = "batch"], [NoOp EXCEPT !.kind = "close"]}

Records == [op : Ops, bytes : {LogString(o) : o \in Ops}]
Chunks == [file : Nat, tab : MemTables \cup {Absent}]
Flushes == [file : Nat, pos : Nat, tab : MemTables, ghost : MemTables,
            join : Nat \cup {Absent}, owed : SUBSET Keys]

\* Every variable of DBImpl holds a value of its type.
TypeOK == /\ proc \in {"up", "crash", "abort"} /\ closed \in BOOLEAN
          /\ wlock \in SUBSET Clients /\ rlock \in SUBSET Clients
          /\ pc \in [Clients -> Places]
          /\ op \in [Clients -> Calls]
          /\ ret \in [Clients -> MaybeVals]
          /\ mem \in MemTables
          /\ cached \in [Keys -> MaybeVals]
          /\ order \in [Shards -> Seq(Keys)]
          /\ wal \in Seq(Records)
          /\ base \in Nat
          /\ ssts \in Seq(Chunks)
          /\ num \in Nat
          /\ it \in [Clients -> Flushes]
          /\ calls \in Nat /\ opens \in Nat

-----------------------------------------------------------------------------
(* The contents of the database. *)

\* The tables a reader could use: a file that holds one whole table.
Readable == {i \in DOMAIN ssts : /\ ssts[i].tab # Absent
                                 /\ \A j \in DOMAIN ssts : ssts[j].file = ssts[i].file => j = i}

\* The newest entry on disk for k.
OnDisk(k) == LET holding == {i \in Readable : ssts[i].tab[k] # Absent}
             IN  IF holding = {} THEN Absent ELSE ssts[Max(holding)].tab[k]

\* An update that erased the old node and has not yet linked the new one.
Replacing(c, k) == pc[c] = "reinsert" /\ op[c].key = k

InMemory(k) == IF \E c \in Clients : Replacing(c, k)
               THEN op[CHOOSE c \in Clients : Replacing(c, k)].val
               ELSE mem[k]

Stored(k) == IF InMemory(k) = Absent THEN OnDisk(k) ELSE InMemory(k)

\* To a caller a tombstone and a missing key are the same.
AsValue(v) == IF v = Absent THEN Empty ELSE v

-----------------------------------------------------------------------------
(* Safety. *)

\* The log runs with the memtable: for every key no call is between its log
\* record and its memtable write for, what DB stores is what the key's last
\* log record of this process says, and what is on disk if there is none.
\* (Put and Delete write the log, then the memtable, under one lock.)
LogRecords(k) == {i \in base + 1 .. Len(wal) : wal[i].op.key = k}

LogMatchesStore ==
  \A k \in Keys :
    (\A c \in Clients : ~(pc[c] = "mem" /\ op[c].key = k)) =>
      AsValue(Stored(k)) = IF LogRecords(k) = {} THEN AsValue(OnDisk(k))
                           ELSE wal[Max(LogRecords(k))].op.val

\* Write-ahead: what the memtable and the tables hold was logged before, even
\* when Close walks the memtable while others write to it.
WasLogged(k, v) == \E i \in DOMAIN wal : wal[i].op.key = k /\ wal[i].op.val = v

WriteAhead ==
  \A k \in Keys :
    /\ mem[k] # Absent => WasLogged(k, mem[k])
    /\ \A i \in DOMAIN ssts :
         (ssts[i].tab # Absent /\ ssts[i].tab[k] # Absent) => WasLogged(k, ssts[i].tab[k])

\* The cache never brings a deleted key back: a cached value was put after
\* the key's last Delete, unless the call that changes it is still running.
\* (It may be an older one of those values: see ReadsLatestWrite.)
BeingWritten(k) == \E c \in Clients : /\ pc[c] \in {"mem", "reinsert", "cache"}
                                      /\ op[c].key = k

NoResurrection ==
  \A k \in Keys :
    (cached[k] # Absent /\ ~BeingWritten(k)) =>
      \E i \in LogRecords(k) :
        /\ wal[i].op.kind = "put" /\ wal[i].op.val = cached[k]
        /\ \A j \in LogRecords(k) : j > i => wal[j].op.kind # "delete"

\* The list and the index of every shard describe the same nodes, at most
\* CACHE_SIZE of them, each in the shard its key hashes to.
CacheIndexed ==
  /\ \A k \in Keys : cached[k] # Absent <=> Listed(order[ShardOf[k]], k)
  /\ \A s \in Shards : /\ Distinct(order[s])
                       /\ Len(order[s]) <= CACHE_SIZE
                       /\ \A i \in DOMAIN order[s] : ShardOf[order[s][i]] = s

\* A Get that saw its key in the cache still finds it there: nothing leaves
\* the cache between contains and get while the reader holds the lock.
CacheHitStable ==
  \A c \in Clients : pc[c] = "hit" => Listed(order[ShardOf[op[c].key]], op[c].key)

\* A table is written once, to a file of its own.
OneTablePerFile ==
  \A i, j \in DOMAIN ssts :
    (ssts[i].file = ssts[j].file /\ ssts[i].tab # Absent /\ ssts[j].tab # Absent) => i = j

\* A table that could be read from disk stays readable: later flushes, and the
\* flushes of later processes, go to other files (options.h:26, given that
\* the caller scans for the next number).
TablesStayReadable == [][Readable \subseteq Readable']_vars

\* Once Close has closed the database all it stores is on disk.
CloseDurable == closed => \A k \in Keys : Stored(k) = OnDisk(k)

\* Whenever no writer holds rwlock_ the memtable is below its limit, whoever
\* closes the database meanwhile.
MemBounded == wlock = {} => MemUsage(mem) < MEM_TABLE_MAX_SIZE

-----------------------------------------------------------------------------
(* Liveness and refinement. *)

\* Every call returns, or its process dies: no thread waits for ever for
\* rwlock_.
CallsReturn == \A c \in Clients : pc[c] # "idle" ~> pc[c] = "idle"

KV == INSTANCE KVStore WITH running <- (proc = "up"),
                            store <- [k \in Keys |-> AsValue(Stored(k))],
                            persisted <- [k \in Keys |-> AsValue(OnDisk(k))]

\* DBImpl implements the map: a write takes effect at the memtable, a flush
\* and Close persist everything at once, death keeps what was persisted, and
\* nothing else - flushing, swapping the memtable, the cache - changes what
\* is stored.
ImplementsKVStore == KV!Spec

-----------------------------------------------------------------------------
(* What the documentation claims and the code does not do: each is refuted *)
(* by a run of its own.                                                     *)

\* db_impl.h:34, Put is Set and Update: a Get under the shared lock returns
\* the latest value stored.
ReadsLatestWrite ==
  \A c \in Clients : pc[c] = "runlock" => ret[c] = AsValue(Stored(op[c].key))

\* README 4.2, the log keeps data safe: two different writes have different
\* records, so that the log tells them apart.
LogTellsWritesApart ==
  \A i, j \in DOMAIN wal : wal[i].bytes = wal[j].bytes => wal[i].op = wal[j].op

\* db_impl.h:25 and 47, thread-safe and Close persists all data written: a
\* key whose Put had returned when Close began its flush is in the table
\* Close wrote, as a value or a tombstone.
ClosePersistsAcknowledged ==
  \A c \in Clients : pc[c] = "setclosed" => \A k \in it[c].owed : it[c].tab[k] # Absent

\* README 4.1 and cli/parse.cpp:55, a key found nowhere is answered with
\* "not found": no call of an open database aborts the process.
MissIsNotFatal == proc # "abort"
=============================================================================

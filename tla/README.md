# A TLA+ model of smallkv

smallkv is a small LSM key-value store in C++: a write-ahead log, a memtable
on a skip list, a sharded LRU cache, SST files, a DB class around them, and a
command line. These modules model the parts that hold its logic, check them
with TLC on small instances and prove the most important invariants with
TLAPS for every instance.

`tlc -config X.cfg M.tla` runs a check, `tlapm M.tla` checks a module's
proofs. `PROJECT.json` has the machine-readable side: which source lines each
definition stands for, the runs, a mutant for every property, the findings,
the hazards and the theorems. Paths below are relative to the repository.

## 1. Inventory

| Component | State | Operations | Interacts with | Modelled in |
|---|---|---|---|---|
| `DBImpl` (`src/db`) | `mem_table`, `cache`, `wal_writer`, `options_.LISST_NUM`, `rwlock_`, `closed` | Put, Delete, Get, BatchPut, BatchDelete (stubs), Close, MemTableToSST | everything; its callers are threads | `DBImpl`, `DBProps`, `KVStore` |
| `MemTable` and iterator (`src/memtable`) | a skip list | Add, Update, Delete, Get, ConvertToL1SST | SkipList, SSTableBuilder | inside `DBImpl` |
| `SkipList` | `head_`, nodes with levels, `max_level`, `size`, `mem_usage` | Insert, Delete, Contains, Get, iterator | MemTable | `SkipList`, `OrderedMap` |
| `LRU`, `Cache` (`src/cache`) | `nodes`, `index`, `garbage_station`, counts | insert, erase, get, contains, release | DBImpl; a mutex per shard | `LRU`, `LRUSpec`, `LRUList` |
| `WALWriter`, `FileWriter` (`src/wal`, `src/file`) | a 64 KB buffer, a file descriptor | AddLog, append, flush, sync, close | the kernel | `FileWriter`, `DurableLog` |
| SST builders (`src/table`) | the current block, index, offsets, `pre_key`, filter | add, finish_data_block, finish_sst | FileWriter | `SSTable` (fields), `SSTParser` (their bytes) |
| `BloomFilter` (`src/filter`) | bit array, number of hashes | create_filter, exists | SST builders, parser | `BloomFilter` |
| `SSTParser` (`src/sst_parser`) | a whole file in memory | ReadAll, Parse, Seek | Get | `SSTParser`; how Parse ends a Get: `DBImpl` |
| codec (`src/utils`) | none | Fixed32 to bytes and back | log records, builders, parser | `DBImpl`, `SSTParser` |
| `FreeListAllocate` (`src/memory`) | slots, a pool | Allocate, Deallocate, Reallocate | nobody: NewNode uses `new` | `FreeListAllocate` |
| `FileReader`, CLI, locks, log, config, comparator, LFU, murmur hash | - | - | - | no (section 6) |

How they interact. Any number of threads call one `DBImpl`. Put and Delete
take `rwlock_` exclusively and then log, write the memtable, write the cache,
and flush the memtable if it is full. Get shares the lock and looks in the
cache, in the memtable and at last in a file. Close takes no lock. The log
and the tables are files; the process can die at any step, by itself (asserts
are compiled in: the build is Release without NDEBUG) or from outside.

What is hard. Close overlaps everything else. An iterator walks a list that
others change. The cache has a lock of its own under the database's. A flush
is file, number, new memtable, in steps. A log record is two appends and an
fsync over a buffer whose boundaries fall anywhere. A data block's keys are cut
relative to other keys, and the separators of the index compare bytes.
`PROJECT.json` lists all these hazards at their lines.

What makes each part correct:

- DBImpl: it is a map; a write that is acknowledged is logged first; flushes
  keep every table in a file of its own; Close leaves everything on disk; the
  cache agrees with the store; every call returns.
- SkipList: an ordered map whose iterator sees what it should, whatever is
  inserted and deleted under way; every level is a sublist of the one below.
- LRU: least recently used leaves first; a node that is held stays alive, and
  no longer than that.
- WAL: what AddLog acknowledged is in the file for good; a crash takes back
  only the end of the log that was never acknowledged.
- SST: the file, read as it was written, gives back the entries; index and
  filter lead to them; the parser finds in the bytes what the builder put there.
- FreeListAllocate: no word of memory is in two places, and none gets lost.

## 2. Modules

```
KVStore  <-implements-  DBImpl  -EXTENDS->  LRUList  <-EXTENDS-  LRUSpec  <-implements-  LRU
                          |                                            MCLRU, LRUProofs -'
      DBProps (properties, refinement) - MCDB,        DBProofs
OrderedMap  <-implements-  SkipList    - MCSkipList,  SkipListProofs
DurableLog  <-implements-  FileWriter  - MCWAL,       FileWriterProofs
BloomFilter <-EXTENDS-     SSTable     - MCSSTable,   SSTableProofs
                SSTable  <-EXTENDS-  SSTParser  - MCSSTable,   SSTParserProofs
                           FreeListAllocate  - MCAllocate,  AllocateProofs
DataProofs: lists, least elements, walks and sums, for all of the proofs
```

**DBImpl** is the centre. `pc[c]` says where thread `c` is and `op[c]` what
it was called with; each action is what a thread does between two points where
another could see a difference: `LockExclusive`, `AddLog`, `WriteMem`
(and `Reinsert`: MemTable::Update and Delete erase the node, then insert a new
one), `WriteCache`, `CheckFull`, `FlushOpen`, `FlushAdd` for each key,
`FlushFinish`, `BumpNum`, `SwapMem`, `UnlockExclusive`; `LockShared`,
`LookInCache`, `GetCached`, `GetMem`, `GetSST`; `SetClosed`. The constants
`Clients`, `Keys`, `Values`, `Shards`, `CACHE_SIZE`, `MEM_TABLE_MAX_SIZE` are
the instance. Two constants name what the callers do. `ScanOnOpen`: the
program sets `LISST_NUM` to the number after the last file, as `options.h:26`
asks. `CloseAlone`: no call overlaps Close, as in the command line, which has
one thread; with `FALSE` Close runs as the code allows.

- *Lock.* `wlock`/`rlock` are the holders of the `shared_mutex`. No queue is
  modelled: the standard gives no order.
- *Memtable.* A function from keys to values. A flush's iterator is the key it
  stands on and where its way leads: the skip list keeps unlinked nodes with
  their next pointers, so an iterator whose next node is removed goes over
  that node (a *ghost*) and joins the list again behind it. `OrderedMap` has
  the same rules; the `skiplist` run checks, and `ListIsAMap` proves, that
  SkipList's pointers follow them.
- *Cache.* A list per shard and the cached values. DBImpl uses the list
  operators of `LRUList`, as `LRUSpec` does, which `LRU` implements: the node
  counts, which DBImpl never gives back, matter only there.
- *Log.* A record is the bytes that reach AddLog: the encoded length, key,
  length, value up to the first zero byte. A payload, which holds no zero byte,
  is one symbol. The append is one step here; `FileWriter` models it in its parts.
- *SST files.* What was appended, in order, with the file's number: a whole
  table, or the remains of a flush that a death cut off. A table is the map
  it holds; `SSTable` models its bytes.
- *GetSST.* A lookup that leaves the memtable ends the process (section 5).
  So a table is never read by the program; `OnDisk` in `DBProps` is
  what a reader of files that hold one whole table each would find.
- *Death.* `Die` clears memory, keeps the disk. `Crash` is a kill at any
  step; `closed` asserts, an empty index in `finish_sst` and a null node from
  the cache are deaths too. `Open` starts a new process on the same files.

**KVStore** is what the callers are promised: a map that is written, persisted
at once, lost back to what was persisted, and reopened.

**LRU** has addresses, reference counts, the garbage station and holders that
keep the pointer `get` returned. Every operation holds the shard's mutex, so
each is one action; its list is that of `LRUList`, of nodes. `Releases` chooses the callers: `never` (DBImpl), `listed`
(release only while the key still leads to the held node) or `always`.
`undefined` is set by a step that C++ gives no meaning to.

**SkipList** has a pointer per node and level; `Insert` takes any level that
`RandomLevel` may draw; the iterator moves while the list changes.

**FileWriter** takes `append` apart: the copy into the buffer, the write of a
full one, the rest, the flush, the fsync. A byte is named by its entry
and its place in it, so that a lost, repeated or swapped byte shows. `ShortWrite` is a
write that takes less than all and fails the assert; `Kill` ends the process,
`PowerLoss` also takes any part of the file that was not synced. `FsyncFails`
is the fsync whose result the code ignores (`file_writer.cpp:92`): AddLog
returns, and what was not synced waits for the next fsync that works. DurableLog
counts such calls as faults of the device and promises nothing of them.

**SSTable** keeps sizes and offsets as they are in the file, keys as sequences
of bytes and values as their lengths. **BloomFilter** computes size, number of
hashes and bits as the code does, from a hash function that is a parameter.

**SSTParser** puts the fields of SSTable into bytes (`File`), as codec and the
builders do, and reads them as the parser does: `ReadAll`, which loses the
newlines, `Parse` (footer and index) and `Seek` (`FindKeyDBIndex` on the parsed
index, `FindKeyInDB` on the block's bytes, `FindFullKeyByRP`). A failed assert
or a read outside the file is `Fault`. The third step of Parse, which takes the
filter's trailer from a wrong address and ends the process, is
`DBImpl!ParseSST`; here the parser is taken to be past it. Its loops are recursive
functions over places in the file.

**FreeListAllocate** counts memory in words: a list of free blocks for each size,
linked through the blocks' first words, the pool they are cut from and the
chunks that malloc gives. `live` and `large` are what callers have; `hung` says that a rest of
the pool was put on a list that had blocks, which makes a ring of them
(`allocate.cpp:86`); on an empty list the same code dereferences null, and `dead` is
set: the process is gone, also when that happens in the middle of `NewChunk`. It is
not composed with the rest, since the code does not: `NewNode` uses `new`.

## 3. Runs

| Run | Instance | Question |
|---|---|---|
| `db_conc` | 2 threads, 2 keys, 1 value and the tombstone, 1 shard of capacity 1, a memtable that is full at 4 bytes, 4 calls, 1 reopening | all of DBImpl with Close alone: safety, `WriteAhead`, liveness, `ImplementsKVStore` |
| `lru` | 3 keys, 2 values, 4 nodes, 2 holders, capacity 2 | counts, lifetimes, `ImplementsLRU` |
| `skiplist` | 3 keys, 2 values, 4 nodes, 2 levels | levels, counters, `ImplementsOrderedMap` |
| `wal` | buffer 3, header 2, entries of 0, 1, 2, 4, 7 bytes, 3 entries, 2 deaths, 1 fsync that fails | `ImplementsDurableLog` and the buffer's arithmetic |
| `sst` | the letters a and b, keys up to 3, values of 1 and 30 bytes, restart every 3, blocks of 43 bytes, 5 entries, filters sized for 1 and 5 keys | the file gives back what was added, its bytes parse to its index and lead to its keys |
| `alloc` | requests of 0, 5, 16, 20 and 40 bytes, words of 8, blocks up to 24 bytes, 2 chunks of 8 words, fillings of 2 blocks, 3 live blocks | the allocator neither gives a word twice nor loses one |
| `db_stale`, `db_log`, `db_close_race`, `db_miss`, `sst_format`, `sst_seek` | as small as the question allows | what a document claims and the code does not do |

Why the bounds are enough for what the properties speak of:

- Two keys and a capacity of 1 make every insert of the other key an eviction.
  A key and a value take a byte each, so that two puts fill the memtable, or
  two tombstones do not; four calls reach a flush, a second write and a Close,
  or a flush, a death, a reopening and more writes. One shard: shards share nothing,
  and the theorems hold for any number. One value and the tombstone: no
  property compares two values of one key except `ReadsLatestWrite`, which
  fails with these, and `NoResurrection`, where the theorem covers the rest.
- Four calls in all (`MaxCalls`), two openings (`MaxOpens`) are the only bounds
  on a behaviour of DBImpl. `SkipList` ends when its nodes are used up;
  `LRU` never ends, its nodes are reused, and `MaxGets` bounds the count of a node.
- The buffer of 3 with a header of 2 puts record boundaries before, at and
  behind the buffer's end, with entries that span it more than twice (7 + 2).
- The letters are the bytes 97 and 98, above the byte that is appended to a
  separator (' ', 32) and below the last byte (255): the instance's keys are
  printable text. The wrap of the last byte is in the model (`Bumped`) and is a
  hazard of its own. A value's bytes are all 118. The parser's properties are
  stated of files without a newline byte, since `ReadAll` drops it; more than
  40000 of the 112464 finished files of `sst` have none.
- A restart every 3 records makes groups of three in which each key begins with the one
  before (a, ab, abb), where a key cut against the key before is not one cut against the
  restart point's, and blocks of four records, with two restart points.
- Chunks of 8 words, blocks of 1 to 3: a filling of two fits twice, once or not
  at all, and the pool's rest is 0, 1 or 2 words.
- `skiplist` uses symmetry of node addresses and a view that forgets nodes that
  nothing reaches any more; `lru` uses symmetry of nodes, holders and values.
  Neither checks liveness.

Deadlock checking is off everywhere: with its bound on calls used up a system
may stop, and a database no one calls rightly does nothing.

What the properties say (the modules state each in words):

- `LogMatchesStore`: the log and what DB stores agree on the last write of
  every key. `WriteAhead`: nothing is in memory or in a table that was not logged.
- `NoResurrection`: a value in the cache was put after the key's last delete.
  Together with `ReadsLatestWrite`, which fails, it is how stale a read may be.
- `CacheIndexed`, `CacheHitStable`: list and index agree; what a reader saw
  in the cache it can still get, since whoever could remove it needs the
  exclusive lock.
- `OneTablePerFile`, `TablesStayReadable`, `CloseDurable`, `MemBounded`:
  flushes do not overwrite each other, earlier tables survive later
  processes, a closed database is on disk; whenever no writer holds the lock, the
  memtable is below its limit, so that a write never begins on a full one.
- `CallsReturn`: every call returns or its process dies.
- `ImplementsKVStore`: for all of these together, a step of DBImpl is a step of
  the map or no step.
- `HeldStayAlive`, `RefsCounted`, `StationAlive`, `ImplementsLRU`;
  `LevelsNested`, `CountersMatch`, `SearchFindsLinked`, `ImplementsOrderedMap`;
  `NothingLostOnTheWay`, `AckedIsWhole`, `ImplementsDurableLog`;
  `BlocksReadBack`, `IndexSeparates`, `FilterAdmitsKeys`; `ParseReadsBack`,
  `RestartsLeadToKeys`; `Apart`, `NothingLost`, `FitsItsChunk`.

**Fairness.** Only `CallsReturn` needs any: weak fairness of each thread's
`Step`, that is, a thread that can run goes on. No one has to make a call,
crash or reopen. A writer that waits is enabled again and again but not
continuously while readers come and go, so weak fairness alone does not bring it to
the lock; the bound on calls does, since readers run out. With unbounded
readers a writer's turn is up to `std::shared_mutex`, about whose order the
standard says nothing: `CallsReturn` says that no path keeps the lock or waits
in a circle, and not that the lock is fair.

## 4. Proofs

All by TLAPS, for any number of threads, keys, values, nodes, words and shards, any
capacity and limits, with no bound on calls, deaths or reopenings. What is
assumed are the named assumptions on the constants, each in its module:

- `DBImpl`: keys are positive integers, sizes are naturals, sentinels are not
  values, numbers or tables, each key has a shard.
- `LRU`: the holders are finitely many, a null pointer is no node.
- `FileWriter`: buffer and header are not empty.
- `SkipList`: keys are positive integers with sizes, there is a level at least, and
  the null pointer and `head_` are not among the nodes that `new` gives; "no entry" is
  not a value or a number.
- `FreeListAllocate`: a filling has a block at least, a chunk has room for the largest
  block, malloc gives a first chunk, and neither a null pointer nor a caller's data is an address.
- `SSTable`: a restart interval is not 0, a byte is one of finitely many numbers
  from 0, ' ' and the keys' letters are bytes, and a builder is made for a memtable
  that is not empty (`finish_sst` asserts as much of the index, and Close returns early).
- `SSTParser`: a byte has 256 values, and the restart interval, an `int32_t` in the code,
  is one.

The theorems of `DBProofs` up to `MemStaysBounded`, `DeletedStaysDeleted` and
`LogComesFirst` hold for any `CloseAlone` and `ScanOnOpen`. Its others are stated with what they
need of the callers: `CloseAlone`, without which `db_close_race` refutes the like;
`ScanOnOpen`, without which the second process writes into the files of the first; and
`KeysNotEmpty`, since `SSTableBuilder::add` stores nothing under an empty key.
`MemStaysBounded` needs a limit above 0, since an empty memtable is not below 0, and
`IndexLeads` keys of printable text (`Printable`).

The library's induction theorems take an operator and cannot be used here. Where a proof
needs induction over data, `DataProofs` has what stands in for it, from facts about finite
sets: a set of naturals has a least element (`HasLeast`), from which `Induction` over
sets of naturals follows; a function that is defined by a walk (`Walked`, `Collects`) or by
iteration exists and is unique; and a fold over a finite set is the sum of its
values in any order (`FoldIsSum`), which one more element changes by its value
(`SumOfOneMore`).

**DB.**

- `TypeCorrect`, `CacheAlwaysIndexed`. Types alone are not inductive: that
  the cache step stores a value relies on the call being a put or a delete, and
  eviction and touch keep types only on a list that agrees with the index. The
  invariant is `Typed == TypeOK /\ CallsFit /\ CacheIndexed`, proved action by action,
  with what Unlink, PushFront, Touch and DropOldest do to a duplicate-free list
  from `DataProofs`.
- `HitsAreStable`. `CacheHitStable` rests on `Locked`: a thread at a
  place of the write path is the only one in `wlock`, with no one in `rlock`,
  and a thread on the read path is in `rlock`. The cache changes only in
  `WriteCache`, which then excludes readers between contains and get.
- `MemStaysBounded`. `DealtWith`: a full memtable has a writer, and not Close, that is
  on its way through `CheckFull` and the flush to `SwapMem`, and so has not given the lock
  back. The size is a sum over the keys the memtable holds, finitely many, so that the
  empty one has size 0.
- `DeletedStaysDeleted`. The log serves as the history. `LogTail`
  says that the write in progress is the last record; `CachedWasPut` that for every
  cached value some record of its key put it and no later record deletes the key,
  except the last record while its call has not yet reached the cache. The log
  step may break the second part for its own key only; the cache step restores
  it.
- `LogComesFirst`. `Ordered` follows an entry on its way: from
  the call, to the memtable, to the nodes an iterator may still stand on, to the
  table under construction, to the file. It uses no lock, which is why it
  holds while Close overlaps.
- `TablesKeepTheirFiles`, `TablesStay`. That files differ is not
  inductive: a flush needs its number to be one that no file has. The invariant
  `Filed` says that Close runs alone (`OneAtATime`), so that with `Locked` only
  one thread flushes; that its file has the number `LISST_NUM`; and that all other
  files are below it, but for the file whose flush has not yet advanced it
  (`NumAhead`). It holds for the stumps that deaths leave too, since they have taken
  their number. `FilesGrow` says what no step does: take a chunk back.
- `ClosedOnDisk`, `LogRunsWithStore`, `DBIsAMap`. `StoreInv` says that the table under
  construction is the memtable as far as the iterator came (`CopiesMem`: with the lock
  held nothing is unlinked under it), and that from the end of the flush until the
  memtable is replaced, and while the database is closed, what is in memory is on disk
  (`MemOnDisk`). The newest table that holds a key answers for it (`OnDiskIs`). Each step
  then has one of five `Effect`s on the contents: none, one key written, everything
  persisted, the memory lost, a process opened. `DBIsAMap` maps these to the actions of
  KVStore, `ClosedOnDisk` reads `MemOnDisk` off, and `LogRunsWithStore` adds `LogTail`:
  the write that takes effect is the log's last record.

**LRU** (`LRUProofs`): `TypeCorrect`, `CountsAreRight`, `HeldNodesLive`, `StationIsUsed`,
`ShardIsAnLRU`, for callers that release listed nodes only, or never (`Releases`):
what a release through the index does to a node that was evicted or inserted
again is section 5's. That a held node lives is not inductive: another holder
may give it back. `HeldCounted` bounds the number of holders of a node by the
gets not given back, so that the count (`Counted`) is above the cache's own
while someone holds it; `Linked` ties the index to the list, and `Stationed` keeps
the station off the listed nodes, which is why clearing a key's entry loses no
other node. The parts name their state, since `insert` evicts from a list it has
already added to. `ShardIsAnLRU` maps the list of nodes to that of their keys:
unlinking a node unlinks its key (`OrderUnlink`), and unlinking the oldest node
drops the oldest key.

**Skip list** (`SkipListProofs`): `TypeCorrect`, `EveryLevelInOrder`, `SearchesComplete`,
`CountersCorrect`. The properties are about the nodes one reaches, which a walk computes;
no step's effect can be read off a walk. The invariant instead says that there
is a set `L` of nodes such that on every level each of them, and `head_`, points to
the one with the next key among the tall enough (`List`), that a node, once written,
leads to written nodes only, unlinked ones too (`Shapes`: an iterator never leaves them),
and that the counters are those of `L`. From that the walk along the bottom reaches exactly `L` (`LinkedIs`), a search ends
at the key's node (`SearchAnswers`), and `FindPrevNode` gives on each level the last
node before the key (`PrevIsBefore`), each by descent: a search moves to a greater
key or down a level.

`ListIsAMap` is the refinement of OrderedMap, whose iterator may stand on a node that
`Delete` unlinked; `Delete` frees no node. The invariant adds the set `A` of the nodes that an iterator's
way leads over (`Trail`): in key order from where it stands, over nodes unlinked behind it
perhaps, and from the first linked node on it, over all of the list there and
nothing else. Insert adds its node to the way when the node before it is on the way or is
where the iterator stands (`TrailIn`). Delete takes its node off under the same
condition (`TrailOut`), and leaves it on the way as a ghost when the way reached it over
unlinked nodes only, and then the way joins the list again at the next key (`JoinOut`).

**Allocator** (`AllocateProofs`): `TypeCorrect`, `BlocksFitTheirChunk`, `PiecesApart`,
`WordsNotLost`. A free list is a chain of words, and that it is one, of which words, is
what every push and pop has to keep (`ChainPush`, `ChainPop`). The invariant says that there
are a set of all blocks that were ever cut and a set of those on a list, such that every word of a
chunk is in one block or in the pool's rest (`Carved`), that the slots' chains are the second set, until
a ring is hung, and lead into blocks of their slot ever after (`Sound`), and that the callers have
exactly the blocks on no list (`Owned`). It is kept across the steps of one
call, which cut a filling, hang a rest or take a chunk in between (`CutSound`, `NewChunkSound`,
`FillSlotSound`, `PopSound`). `PiecesApart` and `WordsNotLost` end with the first ring,
as their properties do; types and places of blocks hold behind it too.

**SST builders** (`SSTableProofs`): `TypeCorrect`, `BlocksGiveBack`, `FilterKnowsKeys`, `IndexLeads`. The records under
construction stand for the entries that are in no block yet, in order (`Codes`: each record
makes its entry's key from the entry before; `Restarts`: each noted place is where a
record starts that has its whole key, the first record being one of them), and what the
blocks on file read back as are consecutive pieces of the entries, up to those
(`Pieces`). That a block of such records, read from its restart points and group by group, gives
back the entries is `BlockGivesBack`: places in a block are sums of record sizes, which
grow strictly (`SizesGrow`), so that a place stands for one number of records (`BeforeIs`);
a group's keys and the flattened pieces are the only functions that solve the
equations they are defined by (`ReadsKeysOnce`, `FlattensOnce`). A record's key shares with the key before
what the longest common prefix says (`SharedIs`). `FilterKnowsKeys` needs
nothing of the hash or of the number of keys the filter was sized for.

`IndexLeads` is of keys of printable text (`Printable`: bytes from the blank, which
`find_shortest_key` appends, to the last but one, so that `back() += 1` does not wrap);
with other keys a separator can be out of order (for 0xff a hazard names it). The invariant
(`Led`) says that the entries ascend, that each block's index key is above all keys of the
block but the last and above no key behind the block, and that while the table grows no index key
is above the last key on file. `SeparatorIs` shows that of one separator, although the
code counts the places in which two keys agree instead of how far they agree: the copy
it cuts from the lower key may then be longer, but never shorter, than up to where they first
differ (`AgreeSays`), and with its last byte raised is above the lower key
and not above the higher one.

**Parser** (`SSTParserProofs`): `ParsedAsWritten`, `RestartsAreFound`, for any number and
length of keys, values, blocks and filter bits, of a finished file in which no byte is a
newline and whose length is an `int32_t` (`Legible`; without the first `ReadAll`
takes bytes away, without the second a place does not fit its field). The invariant
`Measured`, on top of that of `SSTableProofs`, says that each block on file is one the builder
made of entries that have keys (`WellMade`), that `offset` is the sum of the blocks'
sizes, that no index entry names a place or a size beyond that, and that a finished table's footer has
where the filter and the index are. `SSTableBuilder` computes all of these from
sizes it adds up, and never looks at the bytes; `FileIs` (`Written`) shows that the bytes are
as many as that, and in those places: each part of the file is a concatenation, whose pieces
`Lies` places one behind the other, and a filter byte's bits and the
little-endian words are bytes again.

From there the reader goes the other way. A file without a newline is read as it is
(`ReadAllIs`), a word or an `OffsetInfo` read where it `Holds` is the number
that was written (`WordIs`, `OffsetIs`: for the sign bit's sake the numbers must be
int32_t), and so is a string (`StringIs`). `IndexBlocks` walks forward by lengths
it has just read. That such a recursion has a value at all is `GoesForward`: every call is
further on, and at the end it stops. By descent from the last entry, the walk from where the i-th
entry starts gives the entries from the i-th on, and its last step ends where the
footer says, so that no `Fault` is reached (`IndexParses`). A restart
point's number and offset are read behind the block's records, and the offset leads to a record
whose shared length is 0 and whose rest is the whole key (`RestartIs`), which is the key that its
group, read as `ReadGroup` does, begins with (`GroupBegins`).

**Log** (`FileWriterProofs`): `BufferNeverOverrun`, `EveryByteOnItsWay`, `AckedStaysWhole`,
`WriterIsADurableLog`.
What is given to append is a prefix of the record (`GivenLast`), and at every
place of append the buffer, the rest and the room are in the relation that the three
cases of the code distinguish (`Placed`). The file only grows, but for what a power loss
takes behind `synced`, so that a record, once whole and synced, stays.

`WriterIsADurableLog` is the refinement of DurableLog, whose log gives each entry its
place in the file. Which entries a file holds is a search for their records, of which a
step's effect cannot be read off. The invariant (`Strings`) says that the file and what
is on its way there (`Way`) are `Ordered`: entry after entry, and behind each byte of a record
all before it, so that where a death cut a record off, the next byte is a later entry's.
In such a file a record is found where its last byte is (`FoundIs`, `ScannedIs`),
at one place only (`PlaceIs`), and the places ascend with the bytes (`PlacesAscend`).
During a call all behind the file is the latest entry's, so that a write adds that entry behind
the others or changes nothing (`LogGrows`), a short write nothing, since it leaves out the
way's last byte (`ShortMaps`), and fsync is reached with the last byte in the file
(`ReturnMaps`). A loss of power leaves the entries before a place (`LogCut`).

Every invariant and action property that a passing run checks, and every refinement,
is thus a theorem. Only checked by TLC is `CallsReturn`: liveness and ENABLED are
beyond the prover. What the properties of section 5 say is false, and there is nothing to prove.

## 5. Where the code and its documents part

Each is refuted by a run whose counterexample is the scenario.

1. `db_stale`: a Put of a key that is cached leaves the old value in the cache
   (`lru.h:126`), and Get answers from there; `db_impl.h:34` calls Put an update.
2. `db_log`: the log record is passed as a C string and ends at the
   first zero byte of the key's length (`db_impl.cpp:46-48`); README 4.2 relies on
   the log for safety.
3. `db_close_race`: Close takes no lock (`db_impl.cpp:205`) and can miss a key
   that was acknowledged, while a Put is replacing it; `db_impl.h:25` and `:47`
   promise thread safety and that Close persists everything.
4. `db_miss`: a Get that finds nothing in cache and memtable ends the process
   (`db_impl.cpp:142`, `sst_parser.cpp:15` and `:82`); README 4.1 says that the
   file is searched, and the command line has an answer for a missing key.
5. `sst_format`: three ways in which a file is not what its schemas say, all in the one file
   of the run, a full block of the keys a, ab and abb.
   - The index entry of a full block need not be above the block's
     last key and holds the offset behind the block (`sstable_builder.cpp:49-56`);
     README 3.3 and the parser rely on both.
   - A key is cut against the key before (`data_block_builder.cpp:34-43`; README 3.1
     says so too), while `data_block_builder.h:45` and the parser
     (`sst_parser.cpp:181`) put it together with the full key of the restart point. The
     two differ from a group's third key on. `BlocksReadBack` and `BlocksGiveBack` show that
     nothing is lost for a reader that does as README 3.1 says, which the parser does not.
   - The restart point of a full last group counts 0 records (`data_block_builder.cpp:75`);
     `data_block_builder.h:56` says that it is their number, and the parser asserts that it is
     above 0.
6. `sst_seek`: FindKeyInDB takes the number of restart points and their offset from
   the block's last 12 bytes, of which the builder writes 4, and so finds no key
   of a file that Parse has read (`sst_parser.cpp:125`, `data_block_builder.cpp:81`);
   `sst_parser.h:95` promises the value.

Without a run, since no document promises otherwise or nothing in the program gets there:

- `release` goes through the index (`lru.h:167`), where an evicted node is no
  longer found; LRU models it (`Releases`, `undefined`), and nothing calls it.
- FreeListAllocate hangs the pool's rest behind a list's first block with a link back
  to that block (`allocate.cpp:80-88`), dereferences null when the list is empty, does not
  copy in Reallocate, and calls itself without end when malloc fails. `HangRest`,
  `NewChunk` and `Reallocate` model them, and nothing in the database allocates from it.
- `ReadAll` drops newlines (`sst_parser.cpp:22`), also those inside lengths and offsets.
- An empty key is accepted and never stored in a table (`sstable_builder.cpp:29`).

## 6. Not modelled, and assumed

- After a failed fsync, a later one that works is taken to write what the failed one
  left; some kernels drop such pages. SST files are taken as written when
  `finish_sst` returns, although the code never fsyncs them.
- Memory that runs out (but for FreeListAllocate's chunks), leaks, and files that
  cannot be opened.
- A key holds no zero byte (it is passed as `char *` in places). An empty key
  is allowed in DBImpl (`KeyLen` may be 0; it is in no table).
- In DBImpl a thread reads and writes the memtable in whole
  steps. That Close's walk races with pointer writes in the list is
  undefined behaviour in C++; the model takes the outcomes in which each
  pointer is read before or after the write, and `db_close_race` fails in these already.
- A table under construction when LISST_NUM, the memtable and its size change
  under Close (two flushes at once, a memtable destroyed while it is walked) is
  in `DBImpl` as far as values go; the use of freed list heads is not.
- FileReader: the database never reads the log, and the parser uses a stream of its own.
- The CLI: one thread that splits a line and makes one call at a time. What it does to
  the database is DBImpl with one client and `CloseAlone`; it does not set `LISST_NUM`.
- Locks (a wrapper of `std::mutex`: LRU's operations are one action each because of it),
  log, config, compress types, comparator, default allocator, LFU (an empty header): no
  state of their own that anything here depends on. The murmur hash is the
  parameter `Hash`: what BloomFilter promises holds for every hash.

## 7. Plan

Done, in this order: DBImpl with KVStore; LRU; SkipList; FileWriter; SSTable
with BloomFilter; failing fsyncs; SSTParser; FreeListAllocate; the proofs of section 4,
from types and locks to the refinements of KVStore and LRUSpec, then the skip list
with its refinement of OrderedMap, the allocator, the SST builders with their index, and the refinement of
DurableLog, and at last the parser. Every refinement of an abstract specification is
proved, and every safety property.

Next: FileWriter under SSTableBuilder: a death between the appends of a table,
and what a file without fsync may hold.

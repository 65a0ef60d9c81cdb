------------------------------ MODULE DBProofs ------------------------------
(***************************************************************************)
(* DBImpl, in two parts.  First its types, the agreement of cache list and *)
(* index, the locking that makes a cache hit stable and keeps the memtable *)
(* below its limit: for any number of threads, keys, values, shards and    *)
(* any capacity, whether or not calls overlap Close and whatever LISST_NUM *)
(* a process starts from.  Then what memtable, tables, cache and log have  *)
(* to do with each other.                                                  *)
(***************************************************************************)
EXTENDS DBProps, DataProofs

WritePlaces == {"batch", "wal", "mem", "reinsert", "cache", "check", "swap", "wunlock"}
FlushPlaces == {"open", "add", "num"}
ReadPlaces == {"look", "hit", "miss", "runlock"}

\* What each place says of the call that got there.
CallsFit ==
  \A c \in Clients :
    /\ pc[c] \in {"wal", "mem", "reinsert", "cache", "check", "swap"} =>
         op[c] \in Ops /\ op[c].kind \in {"put", "delete"}
    /\ pc[c] = "wlock" => \/ op[c] \in Ops /\ op[c].kind \in {"put", "delete"}
                          \/ op[c].kind = "batch"
    /\ pc[c] \in FlushPlaces => \/ op[c] \in Ops /\ op[c].kind \in {"put", "delete"}
                                \/ op[c].kind = "close"
    /\ pc[c] \in ReadPlaces \cup {"rlock"} => op[c] \in Ops

Typed == TypeOK /\ CallsFit /\ CacheIndexed

USE KeyAssumption, SentinelAssumption, ShardAssumption, SizeAssumption,
    KindAssumption, BoundAssumption, CallerAssumption

LEMMA NoOpIsACall == NoOp \in Calls
BY DEF Calls

LEMMA OpsAreCalls == /\ Ops \subseteq Calls
                     /\ [NoOp EXCEPT !.kind = "batch"] \in Calls
                     /\ [NoOp EXCEPT !.kind = "batch"].kind = "batch"
                     /\ [NoOp EXCEPT !.kind = "close"] \in Calls
                     /\ [NoOp EXCEPT !.kind = "close"].kind = "close"
BY DEF Calls, NoOp

LEMMA NothingTyped == /\ EmptyMem \in MemTables
                      /\ EmptyMem \in [Keys -> MaybeVals]
                      /\ NoFlush \in Flushes
                      /\ NoFlushes \in [Clients -> Flushes]
                      /\ Nowhere \in [Clients -> Places]
                      /\ NoOps \in [Clients -> Calls]
                      /\ NoResults \in [Clients -> MaybeVals]
                      /\ EmptyLists \in [Shards -> Seq(Keys)]
<1>1. EmptyMem \in MemTables /\ EmptyMem \in [Keys -> MaybeVals]
  BY DEF EmptyMem, MemTables, MaybeVals
<1>2. NoFlush \in Flushes
  BY <1>1 DEF NoFlush, FlushTo, Flushes
<1>3. NoFlushes \in [Clients -> Flushes]
  BY <1>2 DEF NoFlushes
<1>4. Nowhere \in [Clients -> Places]
  BY DEF Nowhere, Places
<1>5. NoOps \in [Clients -> Calls]
  BY NoOpIsACall DEF NoOps
<1>6. NoResults \in [Clients -> MaybeVals] /\ EmptyLists \in [Shards -> Seq(Keys)]
  BY DEF NoResults, EmptyLists, MaybeVals
<1> QED BY <1>1, <1>2, <1>3, <1>4, <1>5, <1>6

\* A process that has just started: nothing is cached.
LEMMA FreshIndexed ==
  ASSUME cached = EmptyMem, order = EmptyLists
  PROVE  CacheIndexed
BY DEF CacheIndexed, EmptyMem, EmptyLists, Listed, Distinct

LEMMA InitTyped == Init => Typed
<1> SUFFICES ASSUME Init PROVE Typed
  OBVIOUS
<1>1. TypeOK
  <2>1. wal \in Seq(Records) /\ ssts \in Seq(Chunks)
    BY DEF Init
  <2>2. /\ op \in [Clients -> Calls] /\ it \in [Clients -> Flushes]
        /\ pc \in [Clients -> Places] /\ ret \in [Clients -> MaybeVals]
        /\ mem \in MemTables /\ cached \in [Keys -> MaybeVals]
        /\ order \in [Shards -> Seq(Keys)]
    BY NothingTyped DEF Init
  <2>3. /\ proc \in {"up", "crash", "abort"} /\ closed \in BOOLEAN
        /\ wlock \in SUBSET Clients /\ rlock \in SUBSET Clients
        /\ base \in Nat /\ num \in Nat /\ calls \in Nat /\ opens \in Nat
    BY DEF Init
  <2> QED BY <2>1, <2>2, <2>3 DEF TypeOK
<1>2. CallsFit
  BY DEF Init, CallsFit, Nowhere, ReadPlaces, FlushPlaces
<1>3. CacheIndexed
  BY FreshIndexed DEF Init
<1> QED BY <1>1, <1>2, <1>3 DEF Typed

LEMMA DieTyped ==
  ASSUME TypeOK, NEW how \in {"crash", "abort"}, Die(how)
  PROVE  Typed'
<1>1. ssts' \in Seq(Chunks)
  <2>1. ASSUME NEW c \in Clients
        PROVE  [file |-> it[c].file, tab |-> Absent] \in Chunks
    <3>1. it[c] \in Flushes
      BY DEF TypeOK
    <3> QED BY <3>1 DEF Chunks, Flushes
  <2>2. ssts \in Seq(Chunks)
    BY DEF TypeOK
  <2>3. CASE ssts' = ssts
    BY <2>2, <2>3
  <2>4. CASE \E c \in Clients :
               ssts' = Append(ssts, [file |-> it[c].file, tab |-> Absent])
    BY <2>1, <2>2, <2>4
  <2> QED BY <2>3, <2>4 DEF Die, Remains
<1>2. TypeOK'
  <2>1. /\ op' \in [Clients -> Calls] /\ it' \in [Clients -> Flushes]
        /\ pc' \in [Clients -> Places] /\ ret' \in [Clients -> MaybeVals]
        /\ mem' \in MemTables /\ cached' \in [Keys -> MaybeVals]
        /\ order' \in [Shards -> Seq(Keys)]
    BY NothingTyped DEF Die
  <2>2. /\ proc' \in {"up", "crash", "abort"} /\ closed' \in BOOLEAN
        /\ wlock' \in SUBSET Clients /\ rlock' \in SUBSET Clients
        /\ num' \in Nat
    BY DEF Die
  <2>3. /\ wal' \in Seq(Records) /\ base' \in Nat
        /\ calls' \in Nat /\ opens' \in Nat
    BY DEF Die, TypeOK
  <2> QED BY <1>1, <2>1, <2>2, <2>3 DEF TypeOK
<1>3. CallsFit'
  BY DEF Die, CallsFit, Nowhere, ReadPlaces, FlushPlaces
<1>4. CacheIndexed'
  BY DEF Die, CacheIndexed, EmptyMem, EmptyLists, Listed, Distinct
<1> QED BY <1>2, <1>3, <1>4 DEF Typed

\* Moving one thread to another place with nothing else of CallsFit changed.
LEMMA CallTyped ==
  ASSUME Typed, NEW c \in Clients, NEW o \in Calls, NEW place \in Places,
         Call(c, o, place), calls' \in Nat,
         \/ place = "wlock" /\ o \in Ops /\ o.kind \in {"put", "delete"}
         \/ place = "wlock" /\ o.kind = "batch"
         \/ place = "rlock" /\ o \in Ops
         \/ place = "open" /\ o.kind = "close"
         \/ place = "idle"
  PROVE  Typed'
<1>1. TypeOK'
  BY DEF Typed, TypeOK, Call, Goto, disk
<1>2. CallsFit'
  <2>1. pc \in [Clients -> Places] /\ op \in [Clients -> Calls]
    BY DEF Typed, TypeOK
  <2>2. pc' = [pc EXCEPT ![c] = place] /\ op' = [op EXCEPT ![c] = o]
    BY DEF Call, Goto
  <2> QED BY <2>1, <2>2 DEF Typed, CallsFit, FlushPlaces, ReadPlaces
<1>3. CacheIndexed'
  BY DEF Typed, CacheIndexed, Call
<1> QED BY <1>1, <1>2, <1>3 DEF Typed

LEMMA BeginTyped ==
  ASSUME Typed, NEW c \in Clients, Begin(c)
  PROVE  Typed'
<1>1. CASE CallWrite(c)
  <2>1. PICK o \in Ops : /\ o.kind = "put" \/ (o.kind = "delete" /\ o.val = Empty)
                         /\ Call(c, o, "wlock")
    BY <1>1 DEF CallWrite
  <2>2. calls' \in Nat
    BY <1>1 DEF CallWrite, Idle, Typed, TypeOK
  <2> QED BY <2>1, <2>2, OpsAreCalls, CallTyped DEF Places
<1>2. CASE CallGet(c)
  <2>1. PICK o \in Ops : Call(c, o, "rlock")
    BY <1>2 DEF CallGet
  <2>2. calls' \in Nat
    BY <1>2 DEF CallGet, Idle, Typed, TypeOK
  <2> QED BY <2>1, <2>2, OpsAreCalls, CallTyped DEF Places
<1>3. CASE CallClosed(c)
  BY <1>3, DieTyped DEF CallClosed, Typed
<1>4. CASE CallBatch(c)
  <2>1. calls' \in Nat
    BY <1>4 DEF CallBatch, Idle, Typed, TypeOK
  <2> QED BY <1>4, <2>1, OpsAreCalls, CallTyped DEF CallBatch, Places
<1>5. CASE CallClose(c)
  <2>1. calls' \in Nat
    BY <1>5 DEF CallClose, Idle, Typed, TypeOK
  <2> QED BY <1>5, <2>1, OpsAreCalls, NoOpIsACall, CallTyped DEF CallClose, Places
<1> QED BY <1>1, <1>2, <1>3, <1>4, <1>5 DEF Begin

\* A step that leaves the cache alone leaves its index in agreement.
LEMMA SameCacheIndexed ==
  ASSUME CacheIndexed, cached' = cached, order' = order
  PROVE  CacheIndexed'
BY DEF CacheIndexed

\* The write path.
LEMMA WriteTyped ==
  ASSUME Typed, NEW c \in Clients,
         \/ LockExclusive(c) \/ Batch(c) \/ AddLog(c) \/ WriteMem(c) \/ Reinsert(c)
         \/ CheckFull(c) \/ UnlockExclusive(c)
  PROVE  Typed'
<1> USE DEF Typed
<1>0. /\ pc \in [Clients -> Places] /\ op \in [Clients -> Calls]
      /\ ret \in [Clients -> MaybeVals] /\ mem \in MemTables
      /\ wal \in Seq(Records)
  BY DEF TypeOK
<1>1. CASE LockExclusive(c)
  <2>1. TypeOK'
    BY <1>1 DEF LockExclusive, Goto, disk, TypeOK, Places
  <2>2. CallsFit'
    BY <1>0, <1>1 DEF LockExclusive, At, Goto, CallsFit, FlushPlaces, ReadPlaces
  <2> QED BY <1>1, <2>1, <2>2, SameCacheIndexed DEF LockExclusive
<1>2. CASE Batch(c)
  <2>1. CASE closed
    BY <1>2, <2>1, DieTyped DEF Batch
  <2>2. CASE ~closed
    <3>1. TypeOK'
      BY <1>2, <2>2 DEF Batch, Goto, disk, TypeOK, Places
    <3>2. CallsFit'
      BY <1>0, <1>2, <2>2 DEF Batch, Goto, CallsFit, FlushPlaces, ReadPlaces
    <3> QED BY <1>2, <2>2, <3>1, <3>2, SameCacheIndexed DEF Batch
  <2> QED BY <2>1, <2>2
<1>3. CASE AddLog(c)
  <2>1. op[c] \in Ops
    BY <1>3 DEF AddLog, At, CallsFit
  <2>2. [op |-> op[c], bytes |-> LogString(op[c])] \in Records
    BY <2>1 DEF Records
  <2>3. wal' \in Seq(Records)
    BY <1>0, <1>3, <2>2 DEF AddLog
  <2>4. TypeOK'
    BY <1>3, <2>3 DEF AddLog, Goto, TypeOK, Places
  <2>5. CallsFit'
    BY <1>0, <1>3 DEF AddLog, At, Goto, CallsFit, FlushPlaces, ReadPlaces
  <2> QED BY <1>3, <2>4, <2>5, SameCacheIndexed DEF AddLog
<1>4. CASE WriteMem(c) \/ Reinsert(c)
  <2>0. it' \in [Clients -> Flushes]
    <3>0. it \in [Clients -> Flushes]
      BY DEF TypeOK
    <3>1. ASSUME NEW k \in Keys, NEW n \in Keys \cup {Absent}, NEW d \in Clients
          PROVE  [it[d] EXCEPT !.ghost[k] = mem[k], !.join = n] \in Flushes
      <4>1. it[d] \in Flushes /\ it[d].ghost \in MemTables /\ n \in Nat \cup {Absent}
        BY <3>0 DEF Flushes
      <4>2. [it[d].ghost EXCEPT ![k] = mem[k]] \in MemTables
        BY <1>0, <4>1 DEF MemTables
      <4> QED BY <4>1, <4>2 DEF Flushes
    <3>2. ASSUME NEW k \in Keys, NEW n \in Keys \cup {Absent}
          PROVE  Unlinked(k, n) \in [Clients -> Flushes]
      BY <3>0, <3>1 DEF Unlinked
    <3>3. op[c].key \in Keys
      BY <1>4 DEF WriteMem, Reinsert, At, CallsFit, Ops
    <3>4. it' = it \/ \E n \in Keys \cup {Absent} : it' = Unlinked(op[c].key, n)
      BY <1>4 DEF WriteMem, Reinsert
    <3>5. \A n \in Keys \cup {Absent} : Unlinked(op[c].key, n) \in [Clients -> Flushes]
      BY <3>2, <3>3, Zenon
    <3> QED BY <3>0, <3>4, <3>5
  <2>1. op[c] \in Ops /\ op[c].key \in Keys /\ op[c].val \in MaybeVals
    BY <1>4 DEF WriteMem, Reinsert, At, CallsFit, Ops, MaybeVals
  <2>2. mem' \in MemTables
    BY <1>0, <1>4, <2>1 DEF WriteMem, Reinsert, InsertNew, Erased, MemTables, MaybeVals
  <2>3. TypeOK'
    BY <1>4, <2>0, <2>2 DEF WriteMem, Reinsert, Goto, disk, TypeOK, Places
  <2>4. CallsFit'
    BY <1>0, <1>4 DEF WriteMem, Reinsert, At, Goto, CallsFit, FlushPlaces, ReadPlaces
  <2> QED BY <1>4, <2>3, <2>4, SameCacheIndexed DEF WriteMem, Reinsert
<1>5. CASE CheckFull(c)
  <2>1. TypeOK'
    BY <1>5 DEF CheckFull, Goto, disk, TypeOK, Places
  <2>2. CallsFit'
    BY <1>0, <1>5 DEF CheckFull, At, Goto, CallsFit, FlushPlaces, ReadPlaces
  <2> QED BY <1>5, <2>1, <2>2, SameCacheIndexed DEF CheckFull
<1>6. CASE UnlockExclusive(c)
  <2>1. TypeOK'
    BY <1>6, NoOpIsACall DEF UnlockExclusive, Return, Goto, disk, TypeOK, Places, MaybeVals
  <2>2. CallsFit'
    BY <1>0, <1>6 DEF UnlockExclusive, Return, Goto, CallsFit, FlushPlaces, ReadPlaces
  <2> QED BY <1>6, <2>1, <2>2, SameCacheIndexed DEF UnlockExclusive
<1> QED BY <1>1, <1>2, <1>3, <1>4, <1>5, <1>6

\* The flush.
LEMMA FlushTyped ==
  ASSUME Typed, NEW c \in Clients,
         \/ FlushOpen(c) \/ FlushAdd(c) \/ FlushFinish(c) \/ BumpNum(c)
         \/ SwapMem(c) \/ SetClosed(c)
  PROVE  Typed'
<1> USE DEF Typed
<1>0. /\ pc \in [Clients -> Places] /\ op \in [Clients -> Calls]
      /\ ret \in [Clients -> MaybeVals] /\ mem \in MemTables
      /\ it \in [Clients -> Flushes] /\ ssts \in Seq(Chunks) /\ num \in Nat
  BY DEF TypeOK
<1>1. CASE FlushOpen(c)
  <2>1. FlushTo(num, Acknowledged(c)) \in Flushes
    BY <1>0, NothingTyped DEF FlushTo, Flushes, Acknowledged
  <2>2. it' \in [Clients -> Flushes]
    BY <1>0, <1>1, <2>1 DEF FlushOpen
  <2>3. TypeOK'
    BY <1>1, <2>2 DEF FlushOpen, Goto, disk, TypeOK, Places
  <2>4. CallsFit'
    BY <1>0, <1>1 DEF FlushOpen, At, Goto, CallsFit, FlushPlaces, ReadPlaces
  <2> QED BY <1>1, <2>3, <2>4, SameCacheIndexed DEF FlushOpen
<1>2. CASE FlushAdd(c)
  <2>1. PICK k \in Ahead(c) :
          it' = [it EXCEPT ![c] =
                  IF k \in GhostsAhead(c)
                  THEN [@ EXCEPT !.pos = k, !.tab[k] = InTable(k, it[c].ghost[k])]
                  ELSE [@ EXCEPT !.pos = k, !.tab[k] = InTable(k, mem[k]), !.join = k]]
    BY <1>2 DEF FlushAdd
  <2>2. k \in Keys /\ k \in Nat
    BY <2>1 DEF Ahead, GhostsAhead, LiveAhead
  <2>3. it[c] \in Flushes /\ it[c].tab \in MemTables /\ it[c].ghost \in MemTables
    BY <1>0 DEF Flushes
  <2>4. /\ [it[c].tab EXCEPT ![k] = InTable(k, it[c].ghost[k])] \in MemTables
        /\ [it[c].tab EXCEPT ![k] = InTable(k, mem[k])] \in MemTables
    BY <1>0, <2>2, <2>3 DEF MemTables, MaybeVals, InTable
  <2>5. [it[c] EXCEPT !.pos = k, !.tab[k] = InTable(k, it[c].ghost[k])] \in Flushes
    BY <2>2, <2>3, <2>4 DEF Flushes
  <2>6. [it[c] EXCEPT !.pos = k, !.tab[k] = InTable(k, mem[k]), !.join = k] \in Flushes
    BY <2>2, <2>3, <2>4 DEF Flushes
  <2>7. it' \in [Clients -> Flushes]
    BY <1>0, <2>1, <2>5, <2>6
  <2>8. TypeOK'
    BY <1>2, <2>7 DEF FlushAdd, disk, TypeOK
  <2>9. CallsFit'
    BY <1>2 DEF FlushAdd, CallsFit
  <2> QED BY <1>2, <2>8, <2>9, SameCacheIndexed DEF FlushAdd
<1>3. CASE FlushFinish(c)
  <2>1. CASE it[c].tab = EmptyMem
    BY <1>3, <2>1, DieTyped DEF FlushFinish
  <2>2. CASE it[c].tab # EmptyMem
    <3>1. [file |-> it[c].file, tab |-> it[c].tab] \in Chunks
      BY <1>0 DEF Chunks, Flushes
    <3>2. ssts' \in Seq(Chunks)
      <4> DEFINE chunk == [file |-> it[c].file, tab |-> it[c].tab]
      <4>1. ssts' = Append(ssts, chunk)
        BY <1>3, <2>2 DEF FlushFinish
      <4> HIDE DEF chunk
      <4>2. chunk \in Chunks
        BY <3>1 DEF chunk
      <4> QED BY <1>0, <4>1, <4>2
    <3>3. TypeOK'
      BY <1>3, <2>2, <3>2 DEF FlushFinish, Goto, TypeOK, Places
    <3>4. CallsFit'
      BY <1>0, <1>3, <2>2 DEF FlushFinish, At, Goto, CallsFit, FlushPlaces, ReadPlaces
    <3> QED BY <1>3, <2>2, <3>3, <3>4, SameCacheIndexed DEF FlushFinish
  <2> QED BY <2>1, <2>2
<1>4. CASE BumpNum(c)
  <2>1. TypeOK'
    BY <1>4 DEF BumpNum, Goto, disk, TypeOK, Places
  <2>2. CallsFit'
    BY <1>0, <1>4 DEF BumpNum, At, Goto, CallsFit, FlushPlaces, ReadPlaces
  <2> QED BY <1>4, <2>1, <2>2, SameCacheIndexed DEF BumpNum
<1>5. CASE SwapMem(c)
  <2>1. ASSUME NEW d \in Clients
        PROVE  AllGhosts(d) \in Flushes /\ it[d] \in Flushes
    <3>1. it[d] \in Flushes /\ it[d].ghost \in MemTables
      BY <1>0 DEF Flushes
    <3>2. [k \in Keys |-> IF k \in LiveAhead(d) THEN mem[k] ELSE it[d].ghost[k]] \in MemTables
      BY <1>0, <3>1 DEF MemTables
    <3> QED BY <3>1, <3>2 DEF AllGhosts, Flushes
  <2>2. it' \in [Clients -> Flushes]
    BY <1>5, <2>1, NothingTyped DEF SwapMem
  <2>3. TypeOK'
    BY <1>5, <2>2, NothingTyped DEF SwapMem, Goto, disk, TypeOK, Places
  <2>4. CallsFit'
    BY <1>0, <1>5 DEF SwapMem, At, Goto, CallsFit, FlushPlaces, ReadPlaces
  <2> QED BY <1>5, <2>3, <2>4, SameCacheIndexed DEF SwapMem
<1>6. CASE SetClosed(c)
  <2>1. TypeOK'
    BY <1>6, NoOpIsACall DEF SetClosed, Return, Goto, disk, TypeOK, Places, MaybeVals
  <2>2. CallsFit'
    BY <1>0, <1>6 DEF SetClosed, Return, Goto, CallsFit, FlushPlaces, ReadPlaces
  <2> QED BY <1>6, <2>1, <2>2, SameCacheIndexed DEF SetClosed
<1> QED BY <1>1, <1>2, <1>3, <1>4, <1>5, <1>6

\* The read path, except the cache hit.
LEMMA ReadTyped ==
  ASSUME Typed, NEW c \in Clients,
         LockShared(c) \/ LookInCache(c) \/ GetMem(c) \/ GetSST(c) \/ UnlockShared(c)
  PROVE  Typed'
<1> USE DEF Typed
<1>0. /\ pc \in [Clients -> Places] /\ op \in [Clients -> Calls]
      /\ ret \in [Clients -> MaybeVals] /\ mem \in MemTables
  BY DEF TypeOK
<1>1. CASE LockShared(c)
  <2>1. TypeOK'
    BY <1>1 DEF LockShared, Goto, disk, TypeOK, Places
  <2>2. CallsFit'
    BY <1>0, <1>1 DEF LockShared, At, Goto, CallsFit, FlushPlaces, ReadPlaces
  <2> QED BY <1>1, <2>1, <2>2, SameCacheIndexed DEF LockShared
<1>2. CASE LookInCache(c)
  <2>1. TypeOK'
    BY <1>2 DEF LookInCache, Goto, disk, TypeOK, Places
  <2>2. CallsFit'
    BY <1>0, <1>2 DEF LookInCache, At, Goto, CallsFit, FlushPlaces, ReadPlaces
  <2> QED BY <1>2, <2>1, <2>2, SameCacheIndexed DEF LookInCache
<1>3. CASE GetMem(c)
  <2>1. op[c].key \in Keys
    BY <1>3 DEF GetMem, At, CallsFit, ReadPlaces, Ops
  <2>2. ret' \in [Clients -> MaybeVals]
    BY <1>0, <1>3, <2>1 DEF GetMem, MemTables
  <2>3. TypeOK'
    BY <1>3, <2>2 DEF GetMem, Goto, disk, TypeOK, Places
  <2>4. CallsFit'
    BY <1>0, <1>3 DEF GetMem, At, Goto, CallsFit, FlushPlaces, ReadPlaces
  <2> QED BY <1>3, <2>3, <2>4, SameCacheIndexed DEF GetMem
<1>4. CASE GetSST(c)
  BY <1>4, DieTyped DEF GetSST, ParseSST
<1>5. CASE UnlockShared(c)
  <2>1. TypeOK'
    BY <1>5, NoOpIsACall DEF UnlockShared, Return, Goto, disk, TypeOK, Places, MaybeVals
  <2>2. CallsFit'
    BY <1>0, <1>5 DEF UnlockShared, Return, Goto, CallsFit, FlushPlaces, ReadPlaces
  <2> QED BY <1>5, <2>1, <2>2, SameCacheIndexed DEF UnlockShared
<1> QED BY <1>1, <1>2, <1>3, <1>4, <1>5

LEMMA ProcessTyped ==
  ASSUME Typed, Crash \/ Open
  PROVE  Typed'
<1>1. CASE Crash
  BY <1>1, DieTyped DEF Crash, Typed
<1>2. CASE Open
  <2>1. num' \in Nat
    <3>1. Len(ssts) \in Nat
      BY DEF Typed, TypeOK
    <3> QED BY <1>2, <3>1 DEF Open
  <2>2. TypeOK'
    BY <1>2, <2>1 DEF Open, disk, Typed, TypeOK
  <2>3. CallsFit'
    BY <1>2 DEF Open, Typed, CallsFit
  <2>4. CacheIndexed'
    BY <1>2, SameCacheIndexed DEF Open, Typed
  <2> QED BY <2>2, <2>3, <2>4 DEF Typed
<1> QED BY <1>1, <1>2

\* Replacing one shard's list, with the values to match, keeps list and index
\* in agreement.
LEMMA OneShardIndexed ==
  ASSUME TypeOK, CacheIndexed, NEW s \in Shards, NEW l \in Seq(Keys),
         order' = [order EXCEPT ![s] = l],
         Distinct(l), Len(l) <= CACHE_SIZE,
         \A x : Listed(l, x) => ShardOf[x] = s,
         \A x \in Keys : ShardOf[x] = s => (cached'[x] # Absent <=> Listed(l, x)),
         \A x \in Keys : ShardOf[x] # s => cached'[x] = cached[x]
  PROVE  order' \in [Shards -> Seq(Keys)] /\ CacheIndexed'
<1>1. order \in [Shards -> Seq(Keys)]
  BY DEF TypeOK
<1>2. order'[s] = l /\ \A t \in Shards : t # s => order'[t] = order[t]
  BY <1>1
<1>3. order' \in [Shards -> Seq(Keys)]
  BY <1>1
<1>4. \A x \in Keys : cached'[x] # Absent <=> Listed(order'[ShardOf[x]], x)
  BY <1>2 DEF CacheIndexed
<1>5. ASSUME NEW t \in Shards
      PROVE  /\ Distinct(order'[t])
             /\ Len(order'[t]) <= CACHE_SIZE
             /\ \A i \in DOMAIN order'[t] : ShardOf[order'[t][i]] = t
  <2>1. CASE t = s
    BY <1>2, <2>1 DEF Listed
  <2>2. CASE t # s
    BY <1>2, <2>2 DEF CacheIndexed
  <2> QED BY <2>1, <2>2
<1> QED BY <1>3, <1>4, <1>5 DEF CacheIndexed

\* The list of the shard a key hashes to.
LEMMA ShardList ==
  ASSUME TypeOK, CacheIndexed, NEW k \in Keys
  PROVE  /\ ShardOf[k] \in Shards
         /\ order[ShardOf[k]] \in Seq(Keys)
         /\ Distinct(order[ShardOf[k]])
         /\ Len(order[ShardOf[k]]) <= CACHE_SIZE
         /\ \A x : Listed(order[ShardOf[k]], x) => ShardOf[x] = ShardOf[k]
         /\ \A x \in Keys : ShardOf[x] = ShardOf[k] =>
              (cached[x] # Absent <=> Listed(order[ShardOf[k]], x))
BY DEF TypeOK, CacheIndexed, Listed

\* A hit, or inserting a key that is there: the key moves to the front.
LEMMA TouchIndexed ==
  ASSUME TypeOK, CacheIndexed, NEW k \in Keys, Listed(order[ShardOf[k]], k),
         order' = [order EXCEPT ![ShardOf[k]] = Touch(@, k)], cached' = cached
  PROVE  order' \in [Shards -> Seq(Keys)] /\ CacheIndexed'
<1> DEFINE s == ShardOf[k]
           l == order[s]
<1>1. /\ Touch(l, k) \in Seq(Keys) /\ Len(Touch(l, k)) = Len(l) /\ Distinct(Touch(l, k))
      /\ \A x : Listed(Touch(l, k), x) <=> Listed(l, x)
  BY ShardList, TouchProps
<1>2. order' = [order EXCEPT ![s] = Touch(l, k)]
  OBVIOUS
<1>3. s \in Shards /\ Len(Touch(l, k)) <= CACHE_SIZE
  BY <1>1, ShardList
<1>4. /\ \A x : Listed(Touch(l, k), x) => ShardOf[x] = s
      /\ \A x \in Keys : ShardOf[x] = s => (cached'[x] # Absent <=> Listed(Touch(l, k), x))
      /\ \A x \in Keys : ShardOf[x] # s => cached'[x] = cached[x]
  BY <1>1, ShardList
<1> DEFINE m == Touch(l, k)
<1> HIDE DEF s, m
<1> QED BY <1>1, <1>2, <1>3, <1>4, OneShardIndexed DEF m

\* Inserting a value.
LEMMA InsertIndexed ==
  ASSUME TypeOK, CacheIndexed, NEW k \in Keys, NEW v \in Vals, CacheInsert(k, v)
  PROVE  /\ order' \in [Shards -> Seq(Keys)] /\ CacheIndexed'
         /\ cached' \in [Keys -> MaybeVals]
         /\ \A x \in Keys : cached'[x] \in {cached[x], Absent}
                            \/ (x = k /\ cached'[x] = v)
<1> DEFINE s == ShardOf[k]
           l == order[s]
           full == PushFront(l, k)
<1>0. cached \in [Keys -> MaybeVals] /\ v \in MaybeVals /\ v # Absent /\ Absent \in MaybeVals
  BY DEF TypeOK, MaybeVals
<1>1. CASE Listed(l, k)
  BY <1>0, <1>1, TouchIndexed DEF CacheInsert
<1>2. CASE ~Listed(l, k)
  <2>1. /\ full \in Seq(Keys) /\ Len(full) = Len(l) + 1 /\ Distinct(full)
        /\ \A x : Listed(full, x) <=> Listed(l, x) \/ x = k
    BY <1>2, ShardList, PushFrontProps
  <2> HIDE DEF full
  <2>2. CASE Len(full) <= CACHE_SIZE
    <3>1. order' = [order EXCEPT ![s] = full] /\ cached' = [cached EXCEPT ![k] = v]
      BY <1>2, <2>2 DEF CacheInsert, full
    <3>2. \A x \in Keys : cached'[x] = IF x = k THEN v ELSE cached[x]
      BY <1>0, <3>1
    <3>3. order' \in [Shards -> Seq(Keys)] /\ CacheIndexed'
      <4>1. s \in Shards /\ \A x : Listed(full, x) => ShardOf[x] = s
        BY <2>1, ShardList
      <4>2. \A x \in Keys : ShardOf[x] = s => (cached'[x] # Absent <=> Listed(full, x))
        BY <1>0, <2>1, <3>2, ShardList
      <4>3. \A x \in Keys : ShardOf[x] # s => cached'[x] = cached[x]
        BY <3>2
      <4> HIDE DEF s
      <4> QED BY <2>1, <2>2, <3>1, <4>1, <4>2, <4>3, OneShardIndexed
    <3> QED BY <1>0, <3>1, <3>2, <3>3
  <2>3. CASE ~(Len(full) <= CACHE_SIZE)
    <3> DEFINE old == Oldest(full)
               rest == DropOldest(full)
    <3>1. Len(l) \in Nat /\ Len(full) > 0
      BY <2>1, ShardList
    <3>2. /\ rest \in Seq(Keys) /\ Len(rest) = Len(l) /\ old \in Keys /\ Listed(full, old)
          /\ Distinct(rest)
          /\ \A x : Listed(rest, x) <=> Listed(full, x) /\ x # old
      <4>1. /\ rest \in Seq(Keys) /\ Len(rest) = Len(full) - 1
            /\ old \in Keys /\ Listed(full, old)
            /\ Distinct(rest)
            /\ \A x : Listed(rest, x) <=> Listed(full, x) /\ x # old
        BY <2>1, <3>1, DropOldestProps
      <4>2. Len(full) - 1 = Len(l)
        BY <2>1, <3>1
      <4> QED BY <4>1, <4>2
    <3>3. /\ order' = [order EXCEPT ![s] = rest]
          /\ cached' = [cached EXCEPT ![k] = v, ![old] = Absent]
      BY <1>2, <2>3 DEF CacheInsert, full
    <3> HIDE DEF old, rest
    <3>4. \A x \in Keys : cached'[x] = IF x = old THEN Absent
                                      ELSE IF x = k THEN v ELSE cached[x]
      BY <1>0, <3>3
    <3>5. ShardOf[old] = s
      BY <2>1, <3>2, ShardList
    <3>6. order' \in [Shards -> Seq(Keys)] /\ CacheIndexed'
      <4>1. /\ s \in Shards /\ Len(rest) <= CACHE_SIZE
            /\ \A x : Listed(rest, x) => ShardOf[x] = s
        BY <2>1, <3>2, ShardList
      <4>2. \A x \in Keys : ShardOf[x] = s => (cached'[x] # Absent <=> Listed(rest, x))
        BY <1>0, <2>1, <3>2, <3>4, ShardList
      <4>3. \A x \in Keys : ShardOf[x] # s => cached'[x] = cached[x]
        BY <3>4, <3>5
      <4> HIDE DEF s
      <4> QED BY <3>2, <3>3, <4>1, <4>2, <4>3, OneShardIndexed
    <3> QED BY <1>0, <3>2, <3>3, <3>4, <3>6
  <2> QED BY <2>2, <2>3
<1> QED BY <1>1, <1>2

\* Erasing a key.
LEMMA EraseIndexed ==
  ASSUME TypeOK, CacheIndexed, NEW k \in Keys, CacheErase(k)
  PROVE  /\ order' \in [Shards -> Seq(Keys)] /\ CacheIndexed'
         /\ cached' \in [Keys -> MaybeVals]
         /\ cached'[k] = Absent
         /\ \A x \in Keys : x # k => cached'[x] = cached[x]
<1> DEFINE s == ShardOf[k]
           l == order[s]
           rest == Unlink(l, k)
<1>0. /\ cached \in [Keys -> MaybeVals] /\ Absent \in MaybeVals
      /\ order \in [Shards -> Seq(Keys)]
  BY DEF TypeOK, MaybeVals
<1>1. CASE ~Listed(l, k)
  <2>1. order' = order /\ cached' = cached /\ cached[k] = Absent
    BY <1>1, ShardList DEF CacheErase
  <2> QED BY <1>0, <2>1, SameCacheIndexed
<1>2. CASE Listed(l, k)
  <2>1. /\ rest \in Seq(Keys) /\ Len(rest) = Len(l) - 1 /\ Distinct(rest)
        /\ \A x : Listed(rest, x) <=> Listed(l, x) /\ x # k
    BY <1>2, ShardList, UnlinkProps
  <2>2. order' = [order EXCEPT ![s] = rest] /\ cached' = [cached EXCEPT ![k] = Absent]
    BY <1>2 DEF CacheErase
  <2> HIDE DEF rest
  <2>3. \A x \in Keys : cached'[x] = IF x = k THEN Absent ELSE cached[x]
    BY <1>0, <2>2
  <2>4. Len(l) \in Nat /\ Len(l) <= CACHE_SIZE
    BY ShardList
  <2>5. order' \in [Shards -> Seq(Keys)] /\ CacheIndexed'
    <3>1. /\ s \in Shards /\ Len(rest) <= CACHE_SIZE
          /\ \A x : Listed(rest, x) => ShardOf[x] = s
      BY <2>1, <2>4, ShardList
    <3>2. \A x \in Keys : ShardOf[x] = s => (cached'[x] # Absent <=> Listed(rest, x))
      BY <2>1, <2>3, ShardList
    <3>3. \A x \in Keys : ShardOf[x] # s => cached'[x] = cached[x]
      BY <2>3
    <3> HIDE DEF s
    <3> QED BY <2>1, <2>2, <3>1, <3>2, <3>3, OneShardIndexed
  <2> QED BY <1>0, <2>2, <2>3, <2>5
<1> QED BY <1>1, <1>2

\* The two steps that change the cache.
LEMMA CacheTyped ==
  ASSUME Typed, NEW c \in Clients, WriteCache(c) \/ GetCached(c)
  PROVE  Typed'
<1> USE DEF Typed
<1>0. /\ pc \in [Clients -> Places] /\ op \in [Clients -> Calls]
      /\ ret \in [Clients -> MaybeVals] /\ cached \in [Keys -> MaybeVals]
  BY DEF TypeOK
<1>1. CASE WriteCache(c)
  <2>1. op[c].key \in Keys /\ op[c].val \in Vals
    BY <1>1 DEF WriteCache, At, CallsFit, Ops
  <2>2. /\ order' \in [Shards -> Seq(Keys)] /\ CacheIndexed'
        /\ cached' \in [Keys -> MaybeVals]
    BY <1>1, <2>1, InsertIndexed, EraseIndexed DEF WriteCache
  <2>3. TypeOK'
    BY <1>1, <2>2 DEF WriteCache, Goto, disk, TypeOK, Places
  <2>4. CallsFit'
    BY <1>0, <1>1 DEF WriteCache, At, Goto, CallsFit, FlushPlaces, ReadPlaces
  <2> QED BY <2>2, <2>3, <2>4
<1>2. CASE GetCached(c)
  <2> DEFINE k == op[c].key
  <2>1. k \in Keys
    BY <1>2 DEF GetCached, At, CallsFit, ReadPlaces, Ops
  <2>2. CASE ~Listed(order[ShardOf[k]], k)
    BY <1>2, <2>2, DieTyped DEF GetCached
  <2>3. CASE Listed(order[ShardOf[k]], k)
    <3>1. order' \in [Shards -> Seq(Keys)] /\ CacheIndexed'
      BY <1>2, <2>1, <2>3, TouchIndexed DEF GetCached
    <3>2. ret' \in [Clients -> MaybeVals]
      BY <1>0, <1>2, <2>1, <2>3 DEF GetCached
    <3>3. TypeOK'
      BY <1>2, <2>3, <3>1, <3>2 DEF GetCached, Goto, disk, TypeOK, Places
    <3>4. CallsFit'
      BY <1>0, <1>2, <2>3 DEF GetCached, At, Goto, CallsFit, FlushPlaces, ReadPlaces
    <3> QED BY <3>1, <3>3, <3>4
  <2> QED BY <2>2, <2>3
<1> QED BY <1>1, <1>2

LEMMA StepTyped == Typed /\ [Next]_vars => Typed'
<1> SUFFICES ASSUME Typed, [Next]_vars PROVE Typed'
  OBVIOUS
<1>1. ASSUME NEW c \in Clients, Begin(c) PROVE Typed'
  BY <1>1, BeginTyped
<1>2. ASSUME NEW c \in Clients, Step(c) PROVE Typed'
  BY <1>2, WriteTyped, FlushTyped, ReadTyped, CacheTyped DEF Step
<1>3. CASE Crash \/ Open
  BY <1>3, ProcessTyped
<1>4. CASE UNCHANGED vars
  <2>1. TypeOK' /\ CallsFit'
    BY <1>4 DEF vars, memory, disk, Typed, TypeOK, CallsFit
  <2>2. CacheIndexed'
    BY <1>4, SameCacheIndexed DEF vars, memory, Typed
  <2> QED BY <2>1, <2>2 DEF Typed
<1> QED BY <1>1, <1>2, <1>3, <1>4 DEF Next

\* Every variable of DBImpl always holds a value of its type.
THEOREM TypeCorrect == Spec => []TypeOK
<1>1. Typed => TypeOK
  BY DEF Typed
<1> QED BY InitTyped, StepTyped, <1>1, PTL DEF Spec

\* LRU keeps list and index in agreement, within its capacity, under every
\* interleaving of inserts, evictions, erasures and hits.
THEOREM CacheAlwaysIndexed == Spec => []CacheIndexed
<1>1. Typed => CacheIndexed
  BY DEF Typed
<1> QED BY InitTyped, StepTyped, <1>1, PTL DEF Spec

-----------------------------------------------------------------------------
(* The lock.  Every place of the write path holds it exclusively, every     *)
(* place of the read path shares it; Close holds nothing.                   *)

Locked ==
  /\ \A c \in Clients :
       /\ pc[c] \in WritePlaces => c \in wlock
       /\ pc[c] \in FlushPlaces /\ op[c].kind # "close" => c \in wlock
       /\ pc[c] \in ReadPlaces => c \in rlock
  /\ \A c, d \in wlock : c = d
  /\ wlock # {} => rlock = {}

LEMMA DieLocked ==
  ASSUME NEW how, Die(how)
  PROVE  Locked' /\ CacheHitStable'
BY DEF Die, Locked, CacheHitStable, Nowhere, WritePlaces, FlushPlaces, ReadPlaces

LEMMA BeginLocked ==
  ASSUME Typed, Locked, CacheHitStable, NEW c \in Clients, Begin(c)
  PROVE  Locked' /\ CacheHitStable'
<1>0. pc \in [Clients -> Places] /\ op \in [Clients -> Calls]
  BY DEF Typed, TypeOK
<1>1. ASSUME NEW o, NEW place, Call(c, o, place), place \in {"wlock", "rlock", "idle"}
      PROVE  Locked' /\ CacheHitStable'
  BY <1>0, <1>1 DEF Call, Goto, Locked, CacheHitStable, WritePlaces, FlushPlaces, ReadPlaces
<1>2. ASSUME Call(c, [NoOp EXCEPT !.kind = "close"], "open")
      PROVE  Locked' /\ CacheHitStable'
  BY <1>0, <1>2, OpsAreCalls
     DEF Call, Goto, Locked, CacheHitStable, WritePlaces, FlushPlaces, ReadPlaces
<1>3. CASE CallWrite(c) \/ CallGet(c) \/ CallBatch(c)
  BY <1>1, <1>3 DEF CallWrite, CallGet, CallBatch
<1>4. CASE CallClosed(c)
  BY <1>4, DieLocked DEF CallClosed
<1>5. CASE CallClose(c)
  BY <1>1, <1>2, <1>5 DEF CallClose
<1> QED BY <1>3, <1>4, <1>5 DEF Begin

LEMMA WriteLocked ==
  ASSUME Typed, Locked, CacheHitStable, NEW c \in Clients,
         \/ LockExclusive(c) \/ Batch(c) \/ AddLog(c) \/ WriteMem(c) \/ Reinsert(c)
         \/ WriteCache(c) \/ CheckFull(c) \/ UnlockExclusive(c)
  PROVE  Locked' /\ CacheHitStable'
<1> USE DEF Locked, CacheHitStable, At, Goto, WritePlaces, FlushPlaces, ReadPlaces
<1>0. /\ pc \in [Clients -> Places] /\ op \in [Clients -> Calls]
      /\ wlock \in SUBSET Clients /\ rlock \in SUBSET Clients
  BY DEF Typed, TypeOK
<1>1. CASE LockExclusive(c)
  BY <1>0, <1>1 DEF LockExclusive
<1>2. CASE Batch(c)
  BY <1>0, <1>2, DieLocked DEF Batch
<1>3. CASE AddLog(c) \/ WriteMem(c) \/ Reinsert(c) \/ CheckFull(c)
  BY <1>0, <1>3 DEF AddLog, WriteMem, Reinsert, CheckFull
<1>4. CASE WriteCache(c)
  BY <1>0, <1>4 DEF WriteCache
<1>5. CASE UnlockExclusive(c)
  BY <1>0, <1>5 DEF UnlockExclusive, Return
<1> QED BY <1>1, <1>2, <1>3, <1>4, <1>5

LEMMA FlushLocked ==
  ASSUME Typed, Locked, CacheHitStable, NEW c \in Clients,
         \/ FlushOpen(c) \/ FlushAdd(c) \/ FlushFinish(c) \/ BumpNum(c)
         \/ SwapMem(c) \/ SetClosed(c)
  PROVE  Locked' /\ CacheHitStable'
<1> USE DEF Locked, CacheHitStable, At, Goto, WritePlaces, FlushPlaces, ReadPlaces
<1>0. pc \in [Clients -> Places] /\ op \in [Clients -> Calls]
  BY DEF Typed, TypeOK
<1>1. CASE FlushOpen(c) \/ FlushAdd(c) \/ BumpNum(c) \/ SwapMem(c)
  BY <1>0, <1>1, ZenonT(60) DEF FlushOpen, FlushAdd, BumpNum, SwapMem
<1>2. CASE FlushFinish(c)
  <2>1. CASE it[c].tab = EmptyMem
    BY <1>2, <2>1, DieLocked DEF FlushFinish
  <2>2. CASE it[c].tab # EmptyMem
    BY <1>0, <1>2, <2>2 DEF FlushFinish
  <2> QED BY <2>1, <2>2
<1>3. CASE SetClosed(c)
  BY <1>0, <1>3 DEF SetClosed, Return
<1> QED BY <1>1, <1>2, <1>3

LEMMA ReadLocked ==
  ASSUME Typed, Locked, CacheHitStable, NEW c \in Clients,
         \/ LockShared(c) \/ LookInCache(c) \/ GetCached(c) \/ GetMem(c)
         \/ GetSST(c) \/ UnlockShared(c)
  PROVE  Locked' /\ CacheHitStable'
<1> USE DEF Locked, CacheHitStable, At, Goto, WritePlaces, FlushPlaces, ReadPlaces
<1>0. /\ pc \in [Clients -> Places] /\ op \in [Clients -> Calls]
      /\ wlock \in SUBSET Clients /\ rlock \in SUBSET Clients
      /\ order \in [Shards -> Seq(Keys)]
  BY DEF Typed, TypeOK
<1>1. CASE LockShared(c)
  BY <1>0, <1>1 DEF LockShared
<1>2. CASE LookInCache(c) \/ GetMem(c)
  BY <1>0, <1>2 DEF LookInCache, GetMem
<1>3. CASE GetCached(c)
  <2> DEFINE k == op[c].key
             s == ShardOf[k]
  <2>1. k \in Keys
    BY <1>3 DEF GetCached, Typed, CallsFit, Ops
  <2>2. CASE ~Listed(order[s], k)
    BY <1>3, <2>2, DieLocked DEF GetCached
  <2>3. CASE Listed(order[s], k)
    <3>0. TypeOK /\ CacheIndexed
      BY DEF Typed
    <3> HIDE DEF Locked, CacheHitStable, At, Goto, WritePlaces, FlushPlaces, ReadPlaces
    <3>1. s \in Shards /\ \A x : Listed(Touch(order[s], k), x) <=> Listed(order[s], x)
      <4>1. s \in Shards /\ order[s] \in Seq(Keys) /\ Distinct(order[s])
        BY <2>1, <3>0, ShardList
      <4> DEFINE l == order[s]
      <4>2. l \in Seq(Keys) /\ Distinct(l) /\ Listed(l, k) /\ k \in Keys
        BY <2>1, <2>3, <4>1
      <4> HIDE DEF l, k
      <4>3. \A x : Listed(Touch(l, k), x) <=> Listed(l, x)
        BY <4>2, TouchProps
      <4> QED BY <4>1, <4>3 DEF l
    <3> USE DEF Locked, CacheHitStable, At, Goto, WritePlaces, FlushPlaces, ReadPlaces
    <3>2. order' = [order EXCEPT ![s] = Touch(order[s], k)]
      BY <1>3, <2>3 DEF GetCached
    <3>3. \A t \in Shards : \A x : Listed(order'[t], x) <=> Listed(order[t], x)
      BY <1>0, <3>1, <3>2
    <3>4. pc' = [pc EXCEPT ![c] = "runlock"] /\ op' = op /\ wlock' = wlock /\ rlock' = rlock
      BY <1>3, <2>3 DEF GetCached
    <3>5. CacheHitStable'
      <4> SUFFICES ASSUME NEW d \in Clients, pc'[d] = "hit"
                   PROVE  Listed(order'[ShardOf[op[d].key]], op[d].key)
        BY <3>4
      <4>1. d # c /\ pc[d] = "hit"
        BY <1>0, <3>4
      <4>2. op[d].key \in Keys /\ ShardOf[op[d].key] \in Shards
        BY <4>1 DEF Typed, CallsFit, Ops
      <4> QED BY <3>3, <4>1, <4>2
    <3>6. pc[c] = "hit"
      BY <1>3 DEF GetCached
    <3> QED BY <1>0, <3>4, <3>5, <3>6
  <2> QED BY <2>2, <2>3
<1>4. CASE GetSST(c)
  BY <1>4, DieLocked DEF GetSST, ParseSST
<1>5. CASE UnlockShared(c)
  BY <1>0, <1>5 DEF UnlockShared, Return
<1> QED BY <1>1, <1>2, <1>3, <1>4, <1>5

LEMMA StepLocked ==
  Typed /\ Locked /\ CacheHitStable /\ [Next]_vars => Locked' /\ CacheHitStable'
<1> SUFFICES ASSUME Typed, Locked, CacheHitStable, [Next]_vars
             PROVE  Locked' /\ CacheHitStable'
  OBVIOUS
<1>1. ASSUME NEW c \in Clients, Begin(c) PROVE Locked' /\ CacheHitStable'
  BY <1>1, BeginLocked
<1>2. ASSUME NEW c \in Clients, Step(c) PROVE Locked' /\ CacheHitStable'
  BY <1>2, WriteLocked, FlushLocked, ReadLocked DEF Step
<1>3. CASE Crash
  BY <1>3, DieLocked DEF Crash
<1>4. CASE Open
  BY <1>4 DEF Open, Locked, CacheHitStable
<1>5. CASE UNCHANGED vars
  BY <1>5 DEF vars, memory, Locked, CacheHitStable
<1> QED BY <1>1, <1>2, <1>3, <1>4, <1>5 DEF Next

LEMMA InitLocked == Init => Locked /\ CacheHitStable
BY DEF Init, Locked, CacheHitStable, Nowhere, WritePlaces, FlushPlaces, ReadPlaces

\* Between LRU::contains and LRU::get of one Get no key leaves the cache: the
\* null node that get returns for a missing key is never dereferenced.
THEOREM HitsAreStable == Spec => []CacheHitStable
BY InitTyped, StepTyped, InitLocked, StepLocked, PTL DEF Spec

-----------------------------------------------------------------------------
(* The memtable's limit.  Only the writer that filled it can leave it full, *)
(* and it holds the lock until it has flushed it.                           *)

FullPlaces == {"reinsert", "cache", "check", "open", "add", "num", "swap"}

IsFull == MemUsage(mem) >= MEM_TABLE_MAX_SIZE

Deals(c) == pc[c] \in FullPlaces /\ op[c].kind # "close"

\* A full memtable has a writer that deals with it.
DealtWith == IsFiniteSet(Held(mem)) /\ (IsFull => \E c \in Clients : Deals(c))

LEMMA EmptyIsNothing == IsFiniteSet(Held(EmptyMem)) /\ MemUsage(EmptyMem) = 0
<1>1. Held(EmptyMem) = {}
  BY DEF Held, EmptyMem
<1> QED BY <1>1, FS_EmptySet, SumOfNone DEF MemUsage

LEMMA UsageIsANumber ==
  ASSUME NEW m \in MemTables, IsFiniteSet(Held(m))
  PROVE  MemUsage(m) \in Int
<1> DEFINE f == [k \in Held(m) |-> KeyLen[k] + ValLen[m[k]]]
<1>1. \A k \in Held(m) : f[k] \in Int
  <2> SUFFICES ASSUME NEW k \in Held(m) PROVE KeyLen[k] + ValLen[m[k]] \in Int
    OBVIOUS
  <2>1. k \in Keys /\ m[k] \in Vals
    BY DEF Held, MemTables, MaybeVals
  <2>2. KeyLen[k] \in Nat /\ ValLen[m[k]] \in Nat
    BY <2>1
  <2> QED BY <2>2
<1> HIDE DEF f
<1>2. SumFunctionOnSet(f, Held(m)) \in Int
  BY <1>1, SumType
<1> QED BY <1>2 DEF MemUsage, f

\* A step of c that leaves the memtable as it is.
LEMMA StaysDealtWith ==
  ASSUME TypeOK, DealtWith, mem' = mem, NEW c \in Clients, NEW place, Goto(c, place),
         \A d \in Clients : d # c => op'[d] = op[d],
         IsFull /\ Deals(c) => place \in FullPlaces /\ op'[c] = op[c]
  PROVE  DealtWith'
<1>1. pc \in [Clients -> Places]
  BY DEF TypeOK
<1>2. pc' = [pc EXCEPT ![c] = place]
  BY DEF Goto
<1>3. ASSUME IsFull PROVE \E d \in Clients : pc'[d] \in FullPlaces /\ op'[d].kind # "close"
  <2>1. PICK d \in Clients : Deals(d)
    BY <1>3 DEF DealtWith
  <2>2. CASE d = c
    BY <1>1, <1>2, <1>3, <2>1, <2>2 DEF Deals
  <2>3. CASE d # c
    BY <1>1, <1>2, <2>1, <2>3 DEF Deals
  <2> QED BY <2>2, <2>3
<1>4. IsFull' <=> IsFull
  BY DEF IsFull
<1> QED BY <1>3, <1>4 DEF DealtWith, Deals

\* A write of c, which goes on to deal with what it wrote.
LEMMA WritesDealtWith ==
  ASSUME TypeOK, NEW c \in Clients, NEW place \in FullPlaces, Goto(c, place),
         op' = op, op[c].kind # "close", IsFiniteSet(Held(mem'))
  PROVE  DealtWith'
<1>1. pc'[c] = place
  BY DEF TypeOK, Goto
<1> QED BY <1>1 DEF DealtWith, Deals

\* A memtable that was replaced by an empty one.
LEMMA NewDealtWith ==
  ASSUME MEM_TABLE_MAX_SIZE > 0, mem' = EmptyMem
  PROVE  DealtWith'
<1>1. IsFiniteSet(Held(mem')) /\ MemUsage(mem') = 0
  BY EmptyIsNothing
<1>2. ~IsFull'
  BY <1>1 DEF IsFull
<1> QED BY <1>1, <1>2 DEF DealtWith

LEMMA BeginDealtWith ==
  ASSUME Typed, DealtWith, MEM_TABLE_MAX_SIZE > 0, NEW c \in Clients, Begin(c)
  PROVE  DealtWith'
<1>1. ASSUME NEW o, NEW place, Call(c, o, place), pc[c] = "idle" PROVE DealtWith'
  <2>1. op \in [Clients -> Calls]
    BY DEF Typed, TypeOK
  <2>2. \A d \in Clients : d # c => op'[d] = op[d]
    BY <1>1, <2>1 DEF Call
  <2> QED BY <1>1, <2>2, StaysDealtWith DEF Call, Typed, Deals, FullPlaces
<1>2. CASE CallWrite(c) \/ CallGet(c) \/ CallBatch(c) \/ CallClose(c)
  BY <1>1, <1>2 DEF CallWrite, CallGet, CallBatch, CallClose, Idle, At
<1>3. CASE CallClosed(c)
  BY <1>3, NewDealtWith DEF CallClosed, Die
<1> QED BY <1>2, <1>3 DEF Begin

LEMMA MemDealtWith ==
  ASSUME Typed, DealtWith, NEW c \in Clients, WriteMem(c) \/ Reinsert(c)
  PROVE  DealtWith'
<1>1. pc[c] \in {"mem", "reinsert"}
  BY DEF WriteMem, Reinsert, At
<1>2. op[c].key \in Keys /\ op[c].kind # "close"
  BY <1>1 DEF Typed, CallsFit, Ops
<1>3. mem \in MemTables /\ IsFiniteSet(Held(mem))
  BY DEF Typed, TypeOK, DealtWith
<1>4. PICK v : mem' = [mem EXCEPT ![op[c].key] = v] \/ mem' = mem
  BY DEF WriteMem, Reinsert, InsertNew, Erased
<1>5. Held(mem') \subseteq Held(mem) \cup {op[c].key}
  BY <1>2, <1>3, <1>4 DEF Held, MemTables
<1>6. IsFiniteSet(Held(mem'))
  <2>1. IsFiniteSet(Held(mem) \cup {op[c].key})
    BY <1>3, FS_AddElement
  <2> QED BY <1>5, <2>1, FS_Subset
<1>7. PICK place \in {"cache", "reinsert"} : Goto(c, place) /\ op' = op
  BY DEF WriteMem, Reinsert
<1> QED BY <1>2, <1>6, <1>7, WritesDealtWith DEF Typed, FullPlaces

LEMMA StepDealtWith ==
  ASSUME Typed, DealtWith, MEM_TABLE_MAX_SIZE > 0, NEW c \in Clients, Step(c)
  PROVE  DealtWith'
<1>1. mem \in MemTables /\ op \in [Clients -> Calls] /\ TypeOK
  BY DEF Typed, TypeOK
<1> DEFINE Returns == /\ Goto(c, "idle") /\ mem' = mem
                      /\ \A d \in Clients : d # c => op'[d] = op[d]
<1>2. ASSUME NEW place, Goto(c, place), op' = op, mem' = mem, place \in FullPlaces \/ ~(IsFull /\ Deals(c))
      PROVE  DealtWith'
  BY <1>1, <1>2, StaysDealtWith
<1>3. ASSUME Returns, ~Deals(c) PROVE DealtWith'
  BY <1>1, <1>3, StaysDealtWith
<1> HIDE DEF Returns
<1>4. CASE LockExclusive(c) \/ Batch(c) \/ AddLog(c)
  <2>1. ~Deals(c)
    BY <1>4 DEF LockExclusive, Batch, AddLog, At, Deals, FullPlaces
  <2>2. CASE LockExclusive(c) \/ AddLog(c)
    BY <1>2, <2>1, <2>2 DEF LockExclusive, AddLog
  <2>3. CASE Batch(c)
    BY <1>2, <2>1, <2>3, NewDealtWith DEF Batch, Die
  <2> QED BY <1>4, <2>2, <2>3
<1>5. CASE WriteMem(c) \/ Reinsert(c)
  BY <1>5, MemDealtWith
<1>6. CASE WriteCache(c)
  BY <1>2, <1>6 DEF WriteCache, FullPlaces
<1>7. CASE CheckFull(c)
  <2>1. IsFull => Goto(c, "open")
    BY <1>7 DEF CheckFull, IsFull
  <2>2. ~IsFull => Goto(c, "wunlock")
    BY <1>7 DEF CheckFull, IsFull
  <2> QED BY <1>2, <1>7, <2>1, <2>2 DEF CheckFull, FullPlaces
<1>8. CASE UnlockExclusive(c) \/ SetClosed(c) \/ UnlockShared(c)
  <2>1. ~Deals(c)
    BY <1>8 DEF UnlockExclusive, SetClosed, UnlockShared, At, Deals, FullPlaces
  <2>2. Returns
    BY <1>1, <1>8 DEF UnlockExclusive, SetClosed, UnlockShared, Return, Returns
  <2> QED BY <1>3, <2>1, <2>2
<1>9. CASE FlushOpen(c)
  BY <1>2, <1>9 DEF FlushOpen, FullPlaces
<1>10. CASE FlushAdd(c)
  BY <1>10 DEF FlushAdd, DealtWith, IsFull, Deals
<1>11. CASE FlushFinish(c)
  BY <1>2, <1>11, NewDealtWith DEF FlushFinish, Die, FullPlaces
<1>12. CASE BumpNum(c)
  <2>1. CASE op[c].kind = "close"
    BY <1>2, <1>12, <2>1 DEF BumpNum, Deals
  <2>2. CASE op[c].kind # "close"
    BY <1>2, <1>12, <2>2 DEF BumpNum, FullPlaces
  <2> QED BY <2>1, <2>2
<1>13. CASE SwapMem(c)
  BY <1>13, NewDealtWith DEF SwapMem
<1>14. CASE LockShared(c) \/ LookInCache(c) \/ GetMem(c)
  <2>1. ~Deals(c)
    BY <1>14 DEF LockShared, LookInCache, GetMem, At, Deals, FullPlaces
  <2> QED BY <1>2, <1>14, <2>1 DEF LockShared, LookInCache, GetMem
<1>15. CASE GetCached(c)
  <2>1. ~Deals(c)
    BY <1>15 DEF GetCached, At, Deals, FullPlaces
  <2> QED BY <1>2, <1>15, <2>1, NewDealtWith DEF GetCached, Die
<1>16. CASE GetSST(c)
  BY <1>16, NewDealtWith DEF GetSST, ParseSST, Die
<1> QED BY <1>4, <1>5, <1>6, <1>7, <1>8, <1>9, <1>10, <1>11, <1>12, <1>13, <1>14, <1>15, <1>16 DEF Step

\* The memtable is full at most while the writer that filled it holds the lock:
\* Put and Delete flush and replace it before they let anyone else in.
THEOREM MemStaysBounded ==
  ASSUME MEM_TABLE_MAX_SIZE > 0
  PROVE  Spec => []MemBounded
<1>1. Init => DealtWith
  <2> SUFFICES ASSUME Init PROVE DealtWith
    OBVIOUS
  <2>1. IsFiniteSet(Held(mem)) /\ MemUsage(mem) = 0
    BY EmptyIsNothing DEF Init
  <2>2. ~IsFull
    BY <2>1 DEF IsFull
  <2> QED BY <2>1, <2>2 DEF DealtWith
<1>2. Typed /\ DealtWith /\ [Next]_vars => DealtWith'
  <2> SUFFICES ASSUME Typed, DealtWith, [Next]_vars PROVE DealtWith'
    OBVIOUS
  <2>1. CASE \E c \in Clients : Begin(c) \/ Step(c)
    BY <2>1, BeginDealtWith, StepDealtWith
  <2>2. CASE Crash
    BY <2>2, NewDealtWith DEF Crash, Die
  <2>3. CASE Open
    BY <2>3 DEF Open, DealtWith, IsFull, Deals
  <2>4. CASE UNCHANGED vars
    BY <2>4 DEF vars, memory, DealtWith, IsFull, Deals
  <2> QED BY <2>1, <2>2, <2>3, <2>4 DEF Next
<1>3. Typed /\ Locked /\ DealtWith => MemBounded
  <2> SUFFICES ASSUME Typed, Locked, DealtWith, wlock = {} PROVE MemUsage(mem) < MEM_TABLE_MAX_SIZE
    BY DEF MemBounded
  <2>1. ASSUME NEW c \in Clients, Deals(c) PROVE FALSE
    BY <2>1 DEF Locked, Deals, FullPlaces, WritePlaces, FlushPlaces
  <2>2. ~IsFull
    BY <2>1 DEF DealtWith
  <2>3. MemUsage(mem) \in Int
    BY UsageIsANumber DEF Typed, TypeOK, DealtWith
  <2> QED BY <2>2, <2>3 DEF IsFull
<1> QED BY InitTyped, StepTyped, InitLocked, StepLocked, <1>1, <1>2, <1>3, PTL DEF Spec

-----------------------------------------------------------------------------
(***************************************************************************)
(* What memtable, tables and cache have to do with the log, whatever       *)
(* overlaps Close.                                                         *)
(* For callers that let no call overlap Close and start from the number    *)
(* after the last file, whatever else they do and whenever the process     *)
(* dies: there is one flush at a time, every file it could see has a       *)
(* smaller number, and so a table has its file to itself, for good.  If    *)
(* they use no empty key either, DBImpl implements the map of KVStore, the *)
(* log agrees with what is stored, and a closed database is on disk.       *)
(***************************************************************************)

\* From here on a proof cites the assumptions it needs.
HIDE KeyAssumption
HIDE SentinelAssumption
HIDE ShardAssumption
HIDE SizeAssumption
HIDE KindAssumption
HIDE BoundAssumption
HIDE CallerAssumption

-----------------------------------------------------------------------------
(* WriteAhead: the invariant follows an entry from the log to the memtable, *)
(* to the nodes an iterator may still stand on, to the table under          *)
(* construction and to the file.  No lock is needed for it: it holds while  *)
(* Close walks the memtable and others write.                               *)

AllLogged(t) == \A k \in Keys : t[k] # Absent => WasLogged(k, t[k])

FilesLogged == \A i \in DOMAIN ssts : ssts[i].tab # Absent => AllLogged(ssts[i].tab)

FlushesLogged == \A c \in Clients : AllLogged(it[c].tab) /\ AllLogged(it[c].ghost)

CallsLogged == \A c \in Clients : pc[c] \in {"mem", "reinsert"} => WasLogged(op[c].key, op[c].val)

Ordered == AllLogged(mem) /\ FilesLogged /\ FlushesLogged /\ CallsLogged

LEMMA NothingLogged == AllLogged(EmptyMem)
BY DEF AllLogged, EmptyMem

\* A step that writes nothing, and moves no thread to where it writes.
LEMMA SameOrdered ==
  ASSUME Ordered, wal' = wal, mem' = mem, ssts' = ssts, it' = it,
         \A c \in Clients : pc'[c] \in {"mem", "reinsert"} =>
                              pc[c] \in {"mem", "reinsert"} /\ op'[c] = op[c]
  PROVE  Ordered'
<1>1. AllLogged(mem)'
  BY DEF Ordered, AllLogged, WasLogged
<1>2. FilesLogged'
  BY DEF Ordered, FilesLogged, AllLogged, WasLogged
<1>3. FlushesLogged'
  BY DEF Ordered, FlushesLogged, AllLogged, WasLogged
<1>4. CallsLogged'
  BY DEF Ordered, CallsLogged, WasLogged
<1> QED BY <1>1, <1>2, <1>3, <1>4 DEF Ordered

\* A death may leave a file without a table.
LEMMA DieOrdered ==
  ASSUME Typed, Ordered, NEW how, Die(how)
  PROVE  Ordered'
<1>0. ssts \in Seq(Chunks)
  BY DEF Typed, TypeOK
<1>1. wal' = wal /\ mem' = EmptyMem /\ it' = NoFlushes /\ pc' = Nowhere
  BY DEF Die
<1>2. AllLogged(mem)' /\ FlushesLogged' /\ CallsLogged'
  BY <1>1 DEF AllLogged, FlushesLogged, CallsLogged, EmptyMem, NoFlushes, NoFlush, FlushTo, Nowhere
<1>3. CASE ssts' = ssts
  BY <1>1, <1>2, <1>3 DEF Ordered, FilesLogged, AllLogged, WasLogged
<1>4. ASSUME NEW f, ssts' = Append(ssts, [file |-> f, tab |-> Absent])
      PROVE  Ordered'
  <2>1. \A i \in DOMAIN ssts' : ssts'[i].tab # Absent =>
            i \in DOMAIN ssts /\ ssts'[i] = ssts[i]
    BY <1>0, <1>4
  <2>2. FilesLogged'
    BY <1>1, <2>1 DEF Ordered, FilesLogged, AllLogged, WasLogged
  <2> QED BY <1>2, <2>2 DEF Ordered
<1> QED BY <1>3, <1>4 DEF Die, Remains

\* The log record of a write, before anything is written.
LEMMA AddLogOrdered ==
  ASSUME Typed, Ordered, NEW c \in Clients, AddLog(c)
  PROVE  Ordered'
<1> DEFINE r == [op |-> op[c], bytes |-> LogString(op[c])]
<1>0. wal \in Seq(Records) /\ pc \in [Clients -> Places]
  BY DEF Typed, TypeOK
<1>1. /\ pc[c] = "wal" /\ pc' = [pc EXCEPT ![c] = "mem"] /\ wal' = Append(wal, r)
      /\ op' = op /\ mem' = mem /\ ssts' = ssts /\ it' = it
  BY DEF AddLog, At, Goto
<1>2. r \in Records /\ r.op = op[c]
  BY <1>1 DEF Typed, CallsFit, Records
<1> HIDE DEF r
<1>3. /\ \A i \in DOMAIN wal : i \in DOMAIN wal' /\ wal'[i] = wal[i]
      /\ \E i \in DOMAIN wal' : wal'[i] = r
  <2>1. /\ wal' \in Seq(Records) /\ Len(wal') = Len(wal) + 1
        /\ wal'[Len(wal) + 1] = r
        /\ \A i \in 1..Len(wal) : wal'[i] = wal[i]
    BY <1>0, <1>1, <1>2
  <2>2. DOMAIN wal = 1..Len(wal) /\ DOMAIN wal' = 1..(Len(wal) + 1) /\ Len(wal) \in Nat
    BY <1>0, <2>1
  <2>3. Len(wal) + 1 \in DOMAIN wal'
    BY <2>2
  <2> QED BY <2>1, <2>2, <2>3
<1>4. \A k, v : WasLogged(k, v) => WasLogged(k, v)'
  BY <1>3 DEF WasLogged
<1>5. WasLogged(op[c].key, op[c].val)'
  BY <1>1, <1>2, <1>3 DEF WasLogged
<1>6. \A t : AllLogged(t) => AllLogged(t)'
  BY <1>4 DEF AllLogged
<1>7. AllLogged(mem)' /\ FilesLogged' /\ FlushesLogged'
  <2>1. AllLogged(mem)'
    BY <1>1, <1>4 DEF Ordered, AllLogged
  <2>2. FilesLogged'
    BY <1>1, <1>4 DEF Ordered, FilesLogged, AllLogged
  <2>3. FlushesLogged'
    BY <1>1, <1>4 DEF Ordered, FlushesLogged, AllLogged
  <2> QED BY <2>1, <2>2, <2>3
<1>8. CallsLogged'
  BY <1>0, <1>1, <1>4, <1>5 DEF Ordered, CallsLogged, WasLogged
<1> QED BY <1>7, <1>8 DEF Ordered

\* Replacing one entry by a logged one.
LEMMA OneMoreLogged ==
  ASSUME NEW t \in MemTables, AllLogged(t), NEW k \in Keys, NEW v,
         v # Absent => WasLogged(k, v)
  PROVE  AllLogged([t EXCEPT ![k] = v])
BY DEF AllLogged, MemTables

\* The memtable takes a logged entry; what it gives up an iterator may keep.
LEMMA WriteMemOrdered ==
  ASSUME Typed, Ordered, NEW c \in Clients, WriteMem(c) \/ Reinsert(c)
  PROVE  Ordered'
<1> DEFINE k == op[c].key
           v == op[c].val
<1>0. /\ mem \in MemTables /\ it \in [Clients -> Flushes] /\ pc \in [Clients -> Places]
      /\ \A d \in Clients : it[d].tab \in MemTables /\ it[d].ghost \in MemTables
  BY DEF Typed, TypeOK, Flushes
<1>1. /\ wal' = wal /\ ssts' = ssts /\ op' = op
      /\ pc[c] \in {"mem", "reinsert"}
      /\ \A d \in Clients : d # c => pc'[d] = pc[d]
  BY <1>0 DEF WriteMem, Reinsert, At, Goto, disk
<1>2. k \in Keys /\ WasLogged(k, v)
  BY <1>1 DEF Ordered, CallsLogged, Typed, CallsFit, WriteMem, Reinsert, At, Ops
<1>3. mem' \in {mem, [mem EXCEPT ![k] = v], [mem EXCEPT ![k] = Absent]}
  BY DEF WriteMem, Reinsert, InsertNew, Erased
<1>4. AllLogged(mem)'
  <2>1. AllLogged(mem)
    BY DEF Ordered
  <2>2. AllLogged([mem EXCEPT ![k] = v])
    BY <1>0, <1>2, <2>1, OneMoreLogged
  <2>3. AllLogged([mem EXCEPT ![k] = Absent])
    BY <1>0, <1>2, <2>1, OneMoreLogged
  <2>4. AllLogged(mem')
    BY <1>3, <2>1, <2>2, <2>3
  <2> QED BY <1>1, <2>4 DEF AllLogged, WasLogged
<1>5. FilesLogged'
  BY <1>1 DEF Ordered, FilesLogged, AllLogged, WasLogged
<1>6. ASSUME NEW d \in Clients
      PROVE  AllLogged(it'[d].tab) /\ AllLogged(it'[d].ghost)
  <2>0. AllLogged(it[d].tab) /\ AllLogged(it[d].ghost)
    BY DEF Ordered, FlushesLogged
  <2>1. CASE it' = it
    BY <2>0, <2>1
  <2>2. ASSUME NEW n, it' = Unlinked(k, n)
        PROVE  AllLogged(it'[d].tab) /\ AllLogged(it'[d].ghost)
    <3>1. AllLogged([it[d].ghost EXCEPT ![k] = mem[k]])
      BY <1>0, <1>2, <2>0, OneMoreLogged DEF Ordered, AllLogged
    <3>2. it[d] \in Flushes
      BY <1>0
    <3>3. /\ it'[d].tab = it[d].tab
          /\ it'[d].ghost = it[d].ghost \/ it'[d].ghost = [it[d].ghost EXCEPT ![k] = mem[k]]
      BY <2>2, <3>2 DEF Unlinked, Flushes
    <3> QED BY <2>0, <3>1, <3>3
  <2> QED BY <2>1, <2>2 DEF WriteMem, Reinsert
<1>7. FlushesLogged'
  BY <1>1, <1>6 DEF FlushesLogged, AllLogged, WasLogged
<1>8. CallsLogged'
  BY <1>1, <1>2 DEF Ordered, CallsLogged, WasLogged
<1> QED BY <1>4, <1>5, <1>7, <1>8 DEF Ordered

\* The flush copies entries of the memtable, or of the iterator's old nodes.
LEMMA FlushOrdered ==
  ASSUME Typed, Ordered, NEW c \in Clients, FlushOpen(c) \/ FlushAdd(c) \/ SwapMem(c)
  PROVE  Ordered'
<1>0. /\ mem \in MemTables /\ it \in [Clients -> Flushes] /\ pc \in [Clients -> Places]
      /\ \A d \in Clients : it[d].tab \in MemTables /\ it[d].ghost \in MemTables
  BY DEF Typed, TypeOK, Flushes
<1>1. /\ wal' = wal /\ ssts' = ssts /\ op' = op
      /\ \A d \in Clients : pc'[d] \in {"mem", "reinsert"} => pc[d] \in {"mem", "reinsert"}
      /\ mem' \in {mem, EmptyMem}
  BY <1>0 DEF FlushOpen, FlushAdd, SwapMem, At, Goto, disk
<1>2. FilesLogged' /\ CallsLogged'
  BY <1>1 DEF Ordered, FilesLogged, CallsLogged, AllLogged, WasLogged
<1>3. AllLogged(mem)'
  BY <1>1, NothingLogged DEF Ordered, AllLogged, WasLogged
<1>4. ASSUME NEW d \in Clients
      PROVE  AllLogged(it'[d].tab) /\ AllLogged(it'[d].ghost)
  <2>0. AllLogged(it[d].tab) /\ AllLogged(it[d].ghost) /\ AllLogged(mem) /\ it[d] \in Flushes
    BY <1>0 DEF Ordered, FlushesLogged
  <2>1. CASE FlushOpen(c)
    <3>1. \/ it'[d] = it[d]
          \/ it'[d] = FlushTo(num, Acknowledged(c))
      BY <1>0, <2>1 DEF FlushOpen
    <3> QED BY <2>0, <3>1, NothingLogged DEF FlushTo
  <2>2. CASE FlushAdd(c)
    <3>1. PICK k \in Ahead(c) :
            it' = [it EXCEPT ![c] =
                    IF k \in GhostsAhead(c)
                    THEN [@ EXCEPT !.pos = k, !.tab[k] = InTable(k, it[c].ghost[k])]
                    ELSE [@ EXCEPT !.pos = k, !.tab[k] = InTable(k, mem[k]), !.join = k]]
      BY <2>2 DEF FlushAdd
    <3>2. k \in Keys
      BY <3>1 DEF Ahead, GhostsAhead, LiveAhead
    <3>3. CASE d # c
      BY <1>0, <2>0, <3>1, <3>3
    <3>4. CASE d = c
      <4>1. /\ AllLogged([it[c].tab EXCEPT ![k] = InTable(k, it[c].ghost[k])])
            /\ AllLogged([it[c].tab EXCEPT ![k] = InTable(k, mem[k])])
        BY <1>0, <2>0, <3>2, <3>4, OneMoreLogged DEF AllLogged, InTable
      <4>2. /\ it'[c].ghost = it[c].ghost
            /\ it'[c].tab \in {[it[c].tab EXCEPT ![k] = InTable(k, it[c].ghost[k])],
                               [it[c].tab EXCEPT ![k] = InTable(k, mem[k])]}
        BY <1>0, <2>0, <3>1, <3>4 DEF Flushes
      <4> QED BY <2>0, <3>4, <4>1, <4>2
    <3> QED BY <3>3, <3>4
  <2>3. CASE SwapMem(c)
    <3> DEFINE g == [k \in Keys |-> IF k \in LiveAhead(d) THEN mem[k] ELSE it[d].ghost[k]]
    <3>1. AllLogged(g)
      BY <2>0 DEF AllLogged
    <3>2. AllGhosts(d).tab = it[d].tab /\ AllGhosts(d).ghost = g
      BY <2>0 DEF AllGhosts, Flushes
    <3>3. it'[d] \in {NoFlush, AllGhosts(d), it[d]}
      BY <2>3 DEF SwapMem
    <3>4. AllLogged(NoFlush.tab) /\ AllLogged(NoFlush.ghost)
      BY NothingLogged DEF NoFlush, FlushTo
    <3> QED BY <2>0, <3>1, <3>2, <3>3, <3>4
  <2> QED BY <2>1, <2>2, <2>3
<1>5. FlushesLogged'
  BY <1>1, <1>4 DEF FlushesLogged, AllLogged, WasLogged
<1> QED BY <1>2, <1>3, <1>5 DEF Ordered

\* finish_sst: the table reaches its file.
LEMMA FinishOrdered ==
  ASSUME Typed, Ordered, NEW c \in Clients, FlushFinish(c)
  PROVE  Ordered'
<1>1. CASE it[c].tab = EmptyMem
  BY <1>1, DieOrdered DEF FlushFinish
<1>2. CASE it[c].tab # EmptyMem
  <2> DEFINE chunk == [file |-> it[c].file, tab |-> it[c].tab]
  <2>0. ssts \in Seq(Chunks) /\ pc \in [Clients -> Places]
    BY DEF Typed, TypeOK
  <2>1. /\ ssts' = Append(ssts, chunk) /\ wal' = wal /\ mem' = mem /\ it' = it /\ op' = op
        /\ pc' = [pc EXCEPT ![c] = "num"]
    BY <1>2 DEF FlushFinish, Goto
  <2>2. \A i \in DOMAIN ssts' : (i \in DOMAIN ssts /\ ssts'[i] = ssts[i]) \/ ssts'[i] = chunk
    BY <2>0, <2>1
  <2>3. AllLogged(chunk.tab)
    BY DEF Ordered, FlushesLogged
  <2>4. FilesLogged'
    BY <2>1, <2>2, <2>3 DEF Ordered, FilesLogged, AllLogged, WasLogged
  <2>5. AllLogged(mem)' /\ FlushesLogged'
    BY <2>1 DEF Ordered, FlushesLogged, AllLogged, WasLogged
  <2>6. CallsLogged'
    BY <2>0, <2>1 DEF Ordered, CallsLogged, WasLogged
  <2> QED BY <2>4, <2>5, <2>6 DEF Ordered
<1> QED BY <1>1, <1>2

LEMMA BeginOrdered ==
  ASSUME Typed, Ordered, NEW c \in Clients, Begin(c)
  PROVE  Ordered'
<1>0. pc \in [Clients -> Places] /\ op \in [Clients -> Calls]
  BY DEF Typed, TypeOK
<1>1. CASE CallClosed(c)
  BY <1>1, DieOrdered DEF CallClosed
<1>2. ASSUME NEW o, NEW place, Call(c, o, place), place \notin {"mem", "reinsert"}
      PROVE  Ordered'
  BY <1>0, <1>2, SameOrdered DEF Call, Goto, disk
<1>3. CASE CallWrite(c) \/ CallGet(c) \/ CallBatch(c) \/ CallClose(c)
  BY <1>2, <1>3 DEF CallWrite, CallGet, CallBatch, CallClose
<1> QED BY <1>1, <1>3 DEF Begin

\* The steps that write neither the log, the memtable nor a table.
LEMMA OtherOrdered ==
  ASSUME Typed, Ordered, NEW c \in Clients,
         \/ LockExclusive(c) \/ Batch(c) \/ WriteCache(c) \/ CheckFull(c) \/ UnlockExclusive(c)
         \/ BumpNum(c) \/ SetClosed(c)
         \/ LockShared(c) \/ LookInCache(c) \/ GetCached(c) \/ GetMem(c) \/ GetSST(c)
         \/ UnlockShared(c)
  PROVE  Ordered'
<1>0. pc \in [Clients -> Places] /\ op \in [Clients -> Calls]
  BY DEF Typed, TypeOK
<1>1. CASE \E how : Die(how)
  BY <1>1, DieOrdered
<1>2. ASSUME NEW place, place \notin {"mem", "reinsert"},
             pc' = [pc EXCEPT ![c] = place],
             op' = [op EXCEPT ![c] = NoOp] \/ op' = op,
             wal' = wal, mem' = mem, ssts' = ssts, it' = it
      PROVE  Ordered'
  BY <1>0, <1>2, SameOrdered
<1>3. CASE LockExclusive(c) \/ WriteCache(c) \/ CheckFull(c) \/ UnlockExclusive(c)
  BY <1>2, <1>3 DEF LockExclusive, WriteCache, CheckFull, UnlockExclusive, Return, Goto, disk
<1>4. CASE Batch(c) \/ GetCached(c) \/ GetSST(c)
  BY <1>1, <1>2, <1>4 DEF Batch, GetCached, GetSST, ParseSST, Goto, disk
<1>5. CASE BumpNum(c) \/ SetClosed(c)
  BY <1>2, <1>5 DEF BumpNum, SetClosed, Return, Goto, disk
<1>6. CASE LockShared(c) \/ LookInCache(c) \/ GetMem(c) \/ UnlockShared(c)
  BY <1>2, <1>6 DEF LockShared, LookInCache, GetMem, UnlockShared, Return, Goto, disk
<1> QED BY <1>3, <1>4, <1>5, <1>6

LEMMA StepOrdered == Typed /\ Ordered /\ [Next]_vars => Ordered'
<1> SUFFICES ASSUME Typed, Ordered, [Next]_vars PROVE Ordered'
  OBVIOUS
<1>1. ASSUME NEW c \in Clients, Begin(c) PROVE Ordered'
  BY <1>1, BeginOrdered
<1>2. ASSUME NEW c \in Clients, Step(c) PROVE Ordered'
  BY <1>2, AddLogOrdered, WriteMemOrdered, FlushOrdered, FinishOrdered, OtherOrdered DEF Step
<1>3. CASE Crash
  BY <1>3, DieOrdered DEF Crash
<1>4. CASE Open
  BY <1>4, SameOrdered DEF Open, disk
<1>5. CASE UNCHANGED vars
  BY <1>5, SameOrdered DEF vars, memory, disk
<1> QED BY <1>1, <1>2, <1>3, <1>4, <1>5 DEF Next

LEMMA InitOrdered == Init => Ordered
BY NothingLogged
   DEF Init, Ordered, FilesLogged, FlushesLogged, CallsLogged, Nowhere, NoFlushes, NoFlush, FlushTo

\* Nothing reaches the memtable or a file before the log.
THEOREM LogComesFirst == Spec => []WriteAhead
<1>1. Ordered => WriteAhead
  BY DEF Ordered, FilesLogged, AllLogged, WriteAhead
<1> QED BY InitTyped, StepTyped, InitOrdered, StepOrdered, <1>1, PTL DEF Spec

-----------------------------------------------------------------------------
(* NoResurrection: the log tells the history, and its last record is the    *)
(* write in progress; a cached value was put after the last Delete of its   *)
(* key, except for the Delete whose record is that last one.                *)

\* Between its log record and its cache step.
Writing(c) == pc[c] \in {"mem", "reinsert", "cache"}

\* The write in progress wrote the last record.
LogTail == /\ base <= Len(wal)
           /\ \A c \in Clients : Writing(c) => /\ base < Len(wal)
                                               /\ wal[Len(wal)].op = op[c]

\* Record i of k put v, and no Delete of k came later - unless it is the last
\* record and its call is still running.
StillPut(i, k, v) ==
  /\ wal[i].op.kind = "put" /\ wal[i].op.val = v
  /\ \A j \in LogRecords(k) :
       (j > i /\ wal[j].op.kind = "delete") => j = Len(wal) /\ BeingWritten(k)

CachedWasPut == \A k \in Keys : cached[k] # Absent => \E i \in LogRecords(k) : StillPut(i, k, cached[k])

Logged == LogTail /\ CachedWasPut

\* A step that leaves log and cache alone, and moves no thread into or out of
\* the writing places.
LEMMA SameLogged ==
  ASSUME Logged, cached' = cached, wal' = wal, base' = base,
         \A d \in Clients : Writing(d)' = Writing(d) /\ (Writing(d) => op'[d] = op[d])
  PROVE  Logged'
<1>1. LogTail'
  BY DEF Logged, LogTail
<1>2. \A k : LogRecords(k)' = LogRecords(k) /\ (BeingWritten(k)' <=> BeingWritten(k))
  BY DEF LogRecords, BeingWritten, Writing
<1>3. CachedWasPut'
  BY <1>2 DEF Logged, CachedWasPut, StillPut
<1> QED BY <1>1, <1>3 DEF Logged

LEMMA DieLogged ==
  ASSUME Typed, NEW how, Die(how)
  PROVE  Logged'
<1>1. Len(wal) \in Nat
  BY DEF Typed, TypeOK
<1>2. /\ base' = Len(wal) /\ wal' = wal
      /\ \A k \in Keys : cached'[k] = Absent
      /\ \A c \in Clients : pc'[c] = "idle"
  BY DEF Die, EmptyMem, Nowhere
<1> QED BY <1>1, <1>2 DEF Logged, LogTail, CachedWasPut, Writing

\* Whoever writes holds the lock alone.
LEMMA OnlyWriter ==
  ASSUME Locked, NEW c \in Clients, pc[c] \in WritePlaces, NEW d \in Clients, Writing(d)
  PROVE  d = c
BY DEF Locked, Writing, WritePlaces

\* The log record of a write: it may be a Delete of a cached key, but then its
\* call is in progress.
LEMMA AddLogLogged ==
  ASSUME Typed, Locked, Logged, NEW c \in Clients, AddLog(c)
  PROVE  Logged'
<1> DEFINE r == [op |-> op[c], bytes |-> LogString(op[c])]
<1>0. /\ pc \in [Clients -> Places] /\ op \in [Clients -> Calls]
      /\ wal \in Seq(Records) /\ base \in Nat /\ Len(wal) \in Nat
  BY DEF Typed, TypeOK
<1>1. /\ pc[c] = "wal" /\ pc' = [pc EXCEPT ![c] = "mem"]
      /\ wal' = Append(wal, r) /\ base' = base /\ op' = op /\ cached' = cached
  BY DEF AddLog, At, Goto
<1>2. op[c] \in Ops
  BY <1>1 DEF Typed, CallsFit
<1>3. r \in Records
  BY <1>2 DEF Records
<1>4. /\ Len(wal') = Len(wal) + 1 /\ wal'[Len(wal) + 1] = r
      /\ \A i \in 1..Len(wal) : wal'[i] = wal[i]
  <2> HIDE DEF r
  <2> QED BY <1>0, <1>1, <1>3
<1>5. \A d \in Clients : ~Writing(d)
  <2>1. pc[c] \in WritePlaces /\ ~Writing(c)
    BY <1>1 DEF WritePlaces, Writing
  <2> QED BY <2>1, OnlyWriter
<1>6. \A d \in Clients : Writing(d)' => d = c
  BY <1>0, <1>1, <1>5 DEF Writing
<1>7. LogTail'
  BY <1>0, <1>1, <1>4, <1>6 DEF Logged, LogTail
<1>8. CachedWasPut'
  <2> SUFFICES ASSUME NEW k \in Keys, cached'[k] # Absent
               PROVE  \E i \in LogRecords(k)' : StillPut(i, k, cached[k])'
    BY <1>1 DEF CachedWasPut
  <2>1. PICK i \in LogRecords(k) : StillPut(i, k, cached[k])
    BY <1>1 DEF Logged, CachedWasPut
  <2>2. i \in LogRecords(k)' /\ wal'[i] = wal[i]
    BY <1>0, <1>1, <1>4 DEF LogRecords
  <2>3. ASSUME NEW j \in LogRecords(k)', j > i, wal'[j].op.kind = "delete"
        PROVE  j = Len(wal') /\ BeingWritten(k)'
    <3>1. j \in base + 1 .. Len(wal) + 1 /\ wal'[j].op.key = k
      BY <1>1, <1>4, <2>3 DEF LogRecords
    <3>2. ~BeingWritten(k)
      BY <1>5 DEF BeingWritten, Writing
    <3>3. ~(j \in base + 1 .. Len(wal))
      <4> SUFFICES ASSUME j \in base + 1 .. Len(wal) PROVE FALSE
        OBVIOUS
      <4>1. wal'[j] = wal[j]
        BY <1>0, <1>4
      <4>2. j \in LogRecords(k)
        BY <3>1, <4>1 DEF LogRecords
      <4> QED BY <2>1, <2>3, <3>2, <4>1, <4>2 DEF StillPut
    <3>4. j = Len(wal) + 1
      BY <1>0, <3>1, <3>3
    <3>5. op[c].key = k
      BY <1>4, <3>1, <3>4
    <3>6. BeingWritten(k)'
      BY <1>0, <1>1, <3>5 DEF BeingWritten
    <3> QED BY <1>4, <3>4, <3>6
  <2>4. StillPut(i, k, cached[k])'
    BY <1>1, <2>1, <2>2, <2>3 DEF StillPut
  <2> QED BY <2>2, <2>4
<1> QED BY <1>7, <1>8 DEF Logged

\* The cache step of a write: a Put's record is the last one, and a Delete
\* removes what was cached.
LEMMA WriteCacheLogged ==
  ASSUME Typed, Locked, Logged, NEW c \in Clients, WriteCache(c)
  PROVE  Logged'
<1> DEFINE k == op[c].key
<1>0. /\ pc \in [Clients -> Places] /\ op \in [Clients -> Calls]
      /\ wal \in Seq(Records) /\ base \in Nat /\ Len(wal) \in Nat
      /\ cached \in [Keys -> MaybeVals]
  BY DEF Typed, TypeOK
<1>1. /\ pc[c] = "cache" /\ pc' = [pc EXCEPT ![c] = "check"]
      /\ wal' = wal /\ base' = base /\ op' = op
  BY DEF WriteCache, At, Goto, disk
<1>2. op[c] \in Ops /\ op[c].kind \in {"put", "delete"} /\ k \in Keys /\ op[c].val \in Vals
  BY <1>1 DEF Typed, CallsFit, Ops
<1>3. Writing(c) /\ base < Len(wal) /\ wal[Len(wal)].op = op[c]
  BY <1>1 DEF Logged, LogTail, Writing
<1>4. \A d \in Clients : Writing(d) => d = c
  BY <1>1, OnlyWriter DEF WritePlaces
<1>5. \A d \in Clients : ~Writing(d)'
  BY <1>0, <1>1, <1>4 DEF Writing
<1>6. LogTail'
  BY <1>1, <1>5 DEF Logged, LogTail
<1>7. \A x : LogRecords(x)' = LogRecords(x)
  BY <1>1 DEF LogRecords
<1>8. Len(wal) \in LogRecords(k)
  BY <1>0, <1>3 DEF LogRecords
\* A record that stays the last word on x without the exception.
<1>9. ASSUME NEW x \in Keys, NEW i \in LogRecords(x), NEW v, StillPut(i, x, v),
             x # k \/ op[c].kind = "put", cached'[x] = v
      PROVE  StillPut(i, x, cached[x])'
  <2> SUFFICES ASSUME NEW j \in LogRecords(x), j > i, wal[j].op.kind = "delete"
               PROVE  FALSE
    BY <1>1, <1>7, <1>9 DEF StillPut
  <2>1. j = Len(wal) /\ BeingWritten(x)
    BY <1>9 DEF StillPut
  <2>2. x = k
    BY <1>4, <2>1 DEF BeingWritten, Writing
  <2> QED BY <1>3, <1>9, <2>1, <2>2
<1>10. CachedWasPut'
  <2> SUFFICES ASSUME NEW x \in Keys, cached'[x] # Absent
               PROVE  \E i \in LogRecords(x) : StillPut(i, x, cached[x])'
    BY <1>7 DEF CachedWasPut
  <2>1. CASE op[c].kind = "put" /\ x = k /\ cached'[x] = op[c].val
    <3>1. PICK last \in LogRecords(x) : last = Len(wal)
      BY <1>8, <2>1
    <3>2. \A j \in LogRecords(x) : ~(j > last)
      BY <1>0, <3>1 DEF LogRecords
    <3>3. StillPut(last, x, cached[x])'
      BY <1>1, <1>3, <1>7, <2>1, <3>1, <3>2 DEF StillPut
    <3> QED BY <3>1, <3>3
  <2>2. CASE cached'[x] = cached[x] /\ (x # k \/ op[c].kind = "put")
    <3>1. PICK i \in LogRecords(x) : StillPut(i, x, cached[x])
      BY <2>2 DEF Logged, CachedWasPut
    <3> QED BY <1>9, <2>2, <3>1
  <2>3. CASE op[c].kind = "put"
    <3>1. cached'[x] = cached[x] \/ (x = k /\ cached'[x] = op[c].val)
      BY <1>2, <2>3, InsertIndexed DEF WriteCache, Typed
    <3> QED BY <2>1, <2>2, <2>3, <3>1
  <2>4. CASE op[c].kind = "delete"
    <3>1. x # k /\ cached'[x] = cached[x]
      BY <1>2, <2>4, EraseIndexed DEF WriteCache, Typed
    <3> QED BY <2>2, <3>1
  <2> QED BY <1>2, <2>3, <2>4
<1> QED BY <1>6, <1>10 DEF Logged

LEMMA BeginLogged ==
  ASSUME Typed, Logged, NEW c \in Clients, Begin(c)
  PROVE  Logged'
<1>0. pc \in [Clients -> Places] /\ op \in [Clients -> Calls]
  BY DEF Typed, TypeOK
<1>1. CASE CallClosed(c)
  BY <1>1, DieLogged DEF CallClosed
<1>2. ASSUME NEW o, NEW place, Call(c, o, place), place \notin {"mem", "reinsert", "cache"},
             pc[c] = "idle"
      PROVE  Logged'
  BY <1>0, <1>2, SameLogged DEF Call, Goto, Writing, disk
<1>3. CASE CallWrite(c) \/ CallGet(c) \/ CallBatch(c) \/ CallClose(c)
  BY <1>2, <1>3 DEF CallWrite, CallGet, CallBatch, CallClose, Idle, At
<1> QED BY <1>1, <1>3 DEF Begin

\* The steps that touch neither the log nor the cache's contents.
LEMMA OtherLogged ==
  ASSUME Typed, Logged, NEW c \in Clients,
         \/ LockExclusive(c) \/ Batch(c) \/ WriteMem(c) \/ Reinsert(c)
         \/ CheckFull(c) \/ UnlockExclusive(c)
         \/ FlushOpen(c) \/ FlushAdd(c) \/ FlushFinish(c) \/ BumpNum(c)
         \/ SwapMem(c) \/ SetClosed(c)
         \/ LockShared(c) \/ LookInCache(c) \/ GetCached(c) \/ GetMem(c) \/ GetSST(c)
         \/ UnlockShared(c)
  PROVE  Logged'
<1>0. pc \in [Clients -> Places] /\ op \in [Clients -> Calls]
  BY DEF Typed, TypeOK
<1>1. CASE \E how : Die(how)
  BY <1>1, DieLogged
<1>2. ASSUME NEW place, ~Writing(c), place \notin {"mem", "reinsert", "cache"},
             pc' = [pc EXCEPT ![c] = place],
             op' = [op EXCEPT ![c] = NoOp] \/ op' = op,
             cached' = cached, wal' = wal, base' = base
      PROVE  Logged'
  BY <1>0, <1>2, SameLogged DEF Writing
<1>3. CASE LockExclusive(c) \/ CheckFull(c) \/ UnlockExclusive(c)
  BY <1>2, <1>3 DEF LockExclusive, CheckFull, UnlockExclusive, Return, At, Goto, Writing, disk
<1>4. CASE Batch(c) \/ FlushFinish(c) \/ GetCached(c) \/ GetSST(c)
  BY <1>1, <1>2, <1>4 DEF Batch, FlushFinish, GetCached, GetSST, ParseSST, At, Goto, Writing, disk
<1>5. CASE WriteMem(c) \/ Reinsert(c)
  BY <1>0, <1>5, SameLogged DEF WriteMem, Reinsert, At, Goto, Writing, disk
<1>6. CASE FlushOpen(c) \/ BumpNum(c) \/ SwapMem(c) \/ SetClosed(c)
  BY <1>2, <1>6 DEF FlushOpen, BumpNum, SwapMem, SetClosed, Return, At, Goto, Writing, disk
<1>7. CASE FlushAdd(c)
  BY <1>7, SameLogged DEF FlushAdd, Writing, disk
<1>8. CASE LockShared(c) \/ LookInCache(c) \/ GetMem(c) \/ UnlockShared(c)
  BY <1>2, <1>8 DEF LockShared, LookInCache, GetMem, UnlockShared, Return, At, Goto, Writing, disk
<1> QED BY <1>3, <1>4, <1>5, <1>6, <1>7, <1>8

LEMMA StepLogged ==
  Typed /\ Locked /\ Logged /\ [Next]_vars => Logged'
<1> SUFFICES ASSUME Typed, Locked, Logged, [Next]_vars PROVE Logged'
  OBVIOUS
<1>1. ASSUME NEW c \in Clients, Begin(c) PROVE Logged'
  BY <1>1, BeginLogged
<1>2. ASSUME NEW c \in Clients, Step(c) PROVE Logged'
  BY <1>2, AddLogLogged, WriteCacheLogged, OtherLogged DEF Step
<1>3. CASE Crash
  BY <1>3, DieLogged DEF Crash
<1>4. CASE Open
  BY <1>4, SameLogged DEF Open, Writing, disk
<1>5. CASE UNCHANGED vars
  BY <1>5, SameLogged DEF vars, memory, disk, Writing
<1> QED BY <1>1, <1>2, <1>3, <1>4, <1>5 DEF Next

LEMMA InitLogged == Init => Logged
BY DEF Init, Logged, LogTail, CachedWasPut, Writing, Nowhere, EmptyMem

\* A cached value was put after its key's last Delete, for any number of
\* threads, keys and shards and any capacity.
THEOREM DeletedStaysDeleted == Spec => []NoResurrection
<1>1. Logged => NoResurrection
  BY DEF Logged, CachedWasPut, StillPut, NoResurrection
<1> QED BY InitTyped, StepTyped, InitLocked, StepLocked, InitLogged, StepLogged, <1>1,
           PTL DEF Spec

-----------------------------------------------------------------------------
(* The files of the tables. *)

\* Close runs alone.
OneAtATime ==
  \A c \in Clients :
    /\ pc[c] = "idle" => op[c].kind # "close"
    /\ op[c].kind = "close" => \A d \in Clients \ {c} : pc[d] = "idle"

\* No two chunks are in one file, those of dead flushes included.
FilesDistinct == \A i, j \in DOMAIN ssts : ssts[i].file = ssts[j].file => i = j

\* Files have numbers below LISST_NUM, but for the one just written.
NumAhead ==
  proc = "up" => \A i \in DOMAIN ssts : \/ ssts[i].file < num
                                        \/ /\ ssts[i].file = num
                                           /\ \E c \in Clients : pc[c] = "num"

Filed == /\ OneAtATime /\ FilesDistinct /\ NumAhead
         /\ \A c \in Clients : pc[c] = "add" => it[c].file = num
         /\ proc # "up" => \A c \in Clients : pc[c] = "idle"

\* Of the files, what a step never does: take a chunk back.
FilesGrow == \A i \in DOMAIN ssts : i \in DOMAIN ssts' /\ ssts'[i] = ssts[i]

-----------------------------------------------------------------------------
(* One flush at a time. *)

LEMMA OneFlusher ==
  ASSUME Locked, OneAtATime, NEW c \in Clients, pc[c] \in FlushPlaces,
         NEW d \in Clients, pc[d] \in FlushPlaces \cup {"swap"}
  PROVE  d = c
BY DEF Locked, OneAtATime, FlushPlaces, WritePlaces

\* A step of a call: it goes on, or it returns.
LEMMA GoesOnAlone ==
  ASSUME Typed, OneAtATime, NEW c \in Clients, pc[c] # "idle", NEW place,
         pc' = [pc EXCEPT ![c] = place],
         \/ op' = op /\ place # "idle"
         \/ op' = [op EXCEPT ![c] = NoOp]
  PROVE  OneAtATime'
<1>1. pc \in [Clients -> Places] /\ op \in [Clients -> Calls] /\ NoOp.kind = "none"
  BY DEF Typed, TypeOK, NoOp
<1> QED BY <1>1 DEF OneAtATime

LEMMA DieAlone ==
  ASSUME NEW how, Die(how)
  PROVE  OneAtATime'
BY DEF Die, OneAtATime, Nowhere, NoOps, NoOp

LEMMA BeginAlone ==
  ASSUME CloseAlone, Typed, OneAtATime, NEW c \in Clients, Begin(c)
  PROVE  OneAtATime'
<1>0. pc \in [Clients -> Places] /\ op \in [Clients -> Calls] /\ NoOp.kind = "none"
  BY DEF Typed, TypeOK, NoOp
<1>1. ASSUME NEW o, NEW place, Idle(c), Call(c, o, place), o.kind # "close"
      PROVE  OneAtATime'
  BY <1>0, <1>1 DEF Idle, Call, Goto, OneAtATime
<1>2. CASE CallWrite(c)
  BY <1>1, <1>2 DEF CallWrite
<1>3. CASE CallGet(c)
  BY <1>1, <1>3 DEF CallGet
<1>4. CASE CallClosed(c)
  BY <1>4, DieAlone DEF CallClosed
<1>5. CASE CallBatch(c)
  <2>1. [NoOp EXCEPT !.kind = "batch"].kind # "close"
    BY OpsAreCalls
  <2> QED BY <1>1, <1>5, <2>1 DEF CallBatch
<1>6. CASE CallClose(c)
  <2>1. CASE Call(c, NoOp, "idle")
    BY <1>0, <1>1, <1>6, <2>1 DEF CallClose
  <2>2. CASE Call(c, [NoOp EXCEPT !.kind = "close"], "open")
    BY <1>0, <1>6, <2>2 DEF CallClose, Idle, Call, Goto, OneAtATime
  <2> QED BY <1>6, <2>1, <2>2 DEF CallClose
<1> QED BY <1>2, <1>3, <1>4, <1>5, <1>6 DEF Begin

LEMMA StepAlone ==
  ASSUME Typed, OneAtATime, NEW c \in Clients, Step(c)
  PROVE  OneAtATime'
<1>1. CASE \E how : Die(how)
  BY <1>1, DieAlone
<1>2. CASE \/ LockExclusive(c) \/ AddLog(c) \/ WriteMem(c) \/ Reinsert(c) \/ WriteCache(c)
           \/ CheckFull(c) \/ FlushOpen(c) \/ BumpNum(c) \/ SwapMem(c)
           \/ LockShared(c) \/ LookInCache(c) \/ GetMem(c)
  <2>1. \E place : pc[c] # "idle" /\ place # "idle" /\ pc' = [pc EXCEPT ![c] = place] /\ op' = op
    BY <1>2 DEF LockExclusive, AddLog, WriteMem, Reinsert, WriteCache, CheckFull, FlushOpen,
                BumpNum, SwapMem, LockShared, LookInCache, GetMem, At, Goto
  <2> QED BY <2>1, GoesOnAlone
<1>3. CASE UnlockExclusive(c) \/ SetClosed(c) \/ UnlockShared(c)
  <2>1. pc[c] # "idle" /\ pc' = [pc EXCEPT ![c] = "idle"] /\ op' = [op EXCEPT ![c] = NoOp]
    BY <1>3 DEF UnlockExclusive, SetClosed, UnlockShared, Return, At, Goto
  <2> QED BY <2>1, GoesOnAlone
<1>4. CASE Batch(c) \/ FlushFinish(c) \/ GetCached(c) \/ GetSST(c)
  <2>1. \/ \E how : Die(how)
        \/ \E place : /\ pc[c] # "idle" /\ place # "idle"
                      /\ pc' = [pc EXCEPT ![c] = place] /\ op' = op
    BY <1>4 DEF Batch, FlushFinish, GetCached, GetSST, ParseSST, At, Goto
  <2> QED BY <1>1, <2>1, GoesOnAlone
<1>5. CASE FlushAdd(c)
  BY <1>5 DEF FlushAdd, OneAtATime
<1> QED BY <1>2, <1>3, <1>4, <1>5 DEF Step

-----------------------------------------------------------------------------
(* The files. *)

LEMMA ChunkTypes ==
  ASSUME TypeOK
  PROVE  \A i \in DOMAIN ssts : ssts[i] \in Chunks /\ ssts[i].file \in Nat
<1>1. ssts \in Seq(Chunks)
  BY DEF TypeOK
<1>2. \A i \in DOMAIN ssts : ssts[i] \in Chunks
  BY <1>1
<1> QED BY <1>2 DEF Chunks

\* A chunk with a number above all others.
LEMMA AppendFiled ==
  ASSUME ssts \in Seq(Chunks), FilesDistinct, NEW chunk \in Chunks,
         ssts' = Append(ssts, chunk),
         \A i \in DOMAIN ssts : ssts[i].file # chunk.file
  PROVE  /\ FilesDistinct' /\ FilesGrow
         /\ DOMAIN ssts' = DOMAIN ssts \cup {Len(ssts) + 1} /\ ssts'[Len(ssts) + 1] = chunk
         /\ Len(ssts) + 1 \notin DOMAIN ssts
<1>1. /\ Len(ssts') = Len(ssts) + 1 /\ Len(ssts) \in Nat
      /\ DOMAIN ssts = 1..Len(ssts) /\ DOMAIN ssts' = 1..(Len(ssts) + 1)
      /\ ssts'[Len(ssts) + 1] = chunk
      /\ \A i \in 1..Len(ssts) : ssts'[i] = ssts[i]
  OBVIOUS
<1> QED BY <1>1 DEF FilesDistinct, FilesGrow

\* The unfinished file of a flush has a number of its own too.
LEMMA DieFiled ==
  ASSUME Typed, Locked, Filed, proc = "up", NEW how, how # "up", Die(how)
  PROVE  Filed' /\ FilesGrow
<1>0. ssts \in Seq(Chunks) /\ it \in [Clients -> Flushes] /\ num \in Nat
  BY DEF Typed, TypeOK
<1>1. proc' # "up" /\ pc' = Nowhere /\ OneAtATime'
  BY DieAlone DEF Die
<1>2. CASE ssts' = ssts
  BY <1>1, <1>2 DEF Filed, FilesDistinct, FilesGrow, NumAhead, Nowhere
<1>3. ASSUME NEW c \in Clients, pc[c] = "add",
             ssts' = Append(ssts, [file |-> it[c].file, tab |-> Absent])
      PROVE  Filed' /\ FilesGrow
  <2> DEFINE chunk == [file |-> it[c].file, tab |-> Absent]
  <2>1. chunk \in Chunks /\ chunk.file = num
    BY <1>0, <1>3 DEF Chunks, Flushes, Filed
  <2>2. \A d \in Clients : pc[d] # "num"
    BY <1>3, OneFlusher DEF Filed, FlushPlaces
  <2>3. \A i \in DOMAIN ssts : ssts[i].file < num /\ ssts[i].file \in Nat
    BY <2>2, ChunkTypes DEF Filed, NumAhead, Typed
  <2> HIDE DEF chunk
  <2>4. FilesDistinct' /\ FilesGrow
    <3>1. \A i \in DOMAIN ssts : ssts[i].file # chunk.file
      BY <1>0, <2>1, <2>3
    <3> QED BY <1>0, <1>3, <2>1, <3>1, AppendFiled DEF Filed, chunk
  <2> QED BY <1>1, <2>4 DEF Filed, NumAhead, Nowhere
<1> QED BY <1>2, <1>3 DEF Die, Remains, Flushing

\* A step that opens no file and moves no number.
LEMMA SameFiled ==
  ASSUME Filed, OneAtATime', ssts' = ssts, num' = num, proc' = proc, proc = "up",
         \A d \in Clients : /\ pc'[d] = "add" => pc[d] = "add" /\ it'[d].file = it[d].file
                            /\ pc[d] = "num" => pc'[d] = "num"
  PROVE  Filed' /\ FilesGrow
BY DEF Filed, FilesDistinct, NumAhead, FilesGrow

LEMMA BeginFiled ==
  ASSUME CloseAlone, Typed, Locked, Filed, NEW c \in Clients, Begin(c)
  PROVE  Filed' /\ FilesGrow
<1>0. pc \in [Clients -> Places] /\ op \in [Clients -> Calls]
  BY DEF Typed, TypeOK
<1>1. proc = "up" /\ pc[c] = "idle"
  BY DEF Begin, CallWrite, CallGet, CallClosed, CallBatch, CallClose, Idle, At
<1>2. CASE CallClosed(c)
  BY <1>1, <1>2, DieFiled DEF CallClosed
<1>3. ASSUME NEW o, NEW place, Call(c, o, place), place \notin {"add", "num"}
      PROVE  Filed' /\ FilesGrow
  BY <1>0, <1>1, <1>3, BeginAlone, SameFiled DEF Call, Goto, disk, Filed
<1>4. CASE CallWrite(c) \/ CallGet(c) \/ CallBatch(c) \/ CallClose(c)
  BY <1>3, <1>4 DEF CallWrite, CallGet, CallBatch, CallClose
<1> QED BY <1>2, <1>4 DEF Begin

\* A flush takes LISST_NUM, writes the file, and moves the number on.
LEMMA FlushFiled ==
  ASSUME Typed, Locked, Filed, NEW c \in Clients,
         FlushOpen(c) \/ FlushAdd(c) \/ FlushFinish(c) \/ BumpNum(c) \/ SwapMem(c)
  PROVE  Filed' /\ FilesGrow
<1>0. /\ pc \in [Clients -> Places] /\ op \in [Clients -> Calls]
      /\ it \in [Clients -> Flushes] /\ ssts \in Seq(Chunks) /\ num \in Nat
      /\ \A i \in DOMAIN ssts : ssts[i].file \in Nat
  BY ChunkTypes DEF Typed, TypeOK
<1>1. proc = "up" /\ OneAtATime'
  BY StepAlone DEF FlushOpen, FlushAdd, FlushFinish, BumpNum, SwapMem, At, Step, Filed
<1>2. CASE FlushOpen(c)
  <2>1. /\ pc[c] = "open" /\ pc' = [pc EXCEPT ![c] = "add"]
        /\ it' = [it EXCEPT ![c] = FlushTo(num, Acknowledged(c))]
        /\ ssts' = ssts /\ num' = num /\ proc' = proc
    BY <1>2 DEF FlushOpen, At, Goto, disk
  <2>2. \A d \in Clients : d # c => pc[d] \notin {"add", "num"}
    BY <2>1, OneFlusher DEF Filed, FlushPlaces
  <2>3. it'[c].file = num'
    BY <1>0, <2>1 DEF FlushTo
  <2>4. NumAhead' /\ FilesDistinct' /\ FilesGrow
    BY <2>1, <2>2 DEF Filed, NumAhead, FilesDistinct, FilesGrow
  <2> QED BY <1>0, <1>1, <2>1, <2>2, <2>3, <2>4 DEF Filed
<1>3. CASE FlushAdd(c)
  <2>1. /\ pc' = pc /\ ssts' = ssts /\ num' = num /\ proc' = proc
        /\ \A d \in Clients : it'[d].file = it[d].file
    <3>1. \A k : [it[c] EXCEPT !.pos = k, !.tab[k] = InTable(k, it[c].ghost[k])].file = it[c].file
      BY <1>0 DEF Flushes
    <3>2. \A k : [it[c] EXCEPT !.pos = k, !.tab[k] = InTable(k, mem[k]), !.join = k].file = it[c].file
      BY <1>0 DEF Flushes
    <3> QED BY <1>0, <1>3, <3>1, <3>2, ZenonT(30) DEF FlushAdd, disk
  <2> QED BY <1>1, <2>1, SameFiled
<1>4. CASE FlushFinish(c)
  <2>1. CASE it[c].tab = EmptyMem
    BY <1>1, <1>4, <2>1, DieFiled DEF FlushFinish
  <2>2. CASE it[c].tab # EmptyMem
    <3> DEFINE chunk == [file |-> it[c].file, tab |-> it[c].tab]
    <3>1. /\ pc[c] = "add" /\ pc' = [pc EXCEPT ![c] = "num"] /\ ssts' = Append(ssts, chunk)
          /\ num' = num /\ proc' = proc /\ it' = it
      BY <1>4, <2>2 DEF FlushFinish, At, Goto
    <3>2. chunk \in Chunks /\ chunk.file = num
      BY <1>0, <3>1 DEF Chunks, Flushes, Filed
    <3>3. \A d \in Clients : d # c => pc[d] \notin {"add", "num"}
      BY <3>1, OneFlusher DEF Filed, FlushPlaces
    <3>4. \A i \in DOMAIN ssts : ssts[i].file < num
      BY <1>1, <3>1, <3>3 DEF Filed, NumAhead
    <3> HIDE DEF chunk
    <3>5. /\ FilesDistinct' /\ FilesGrow
          /\ DOMAIN ssts' = DOMAIN ssts \cup {Len(ssts) + 1} /\ ssts'[Len(ssts) + 1] = chunk
      <4>1. \A i \in DOMAIN ssts : ssts[i].file # chunk.file
        BY <1>0, <3>2, <3>4
      <4> QED BY <1>0, <3>1, <3>2, <4>1, AppendFiled DEF Filed
    <3>6. NumAhead'
      BY <1>0, <3>1, <3>2, <3>4, <3>5 DEF NumAhead, FilesGrow
    <3> QED BY <1>0, <1>1, <3>1, <3>3, <3>5, <3>6 DEF Filed
  <2> QED BY <2>1, <2>2
<1>5. CASE BumpNum(c)
  <2>1. /\ pc[c] = "num" /\ pc'[c] \in {"setclosed", "swap"} /\ num' = num + 1
        /\ \A d \in Clients : d # c => pc'[d] = pc[d]
        /\ ssts' = ssts /\ proc' = proc /\ it' = it
    BY <1>0, <1>5 DEF BumpNum, At, Goto, disk
  <2>2. \A d \in Clients : d # c => pc[d] \notin {"add", "num"}
    BY <2>1, OneFlusher DEF Filed, FlushPlaces
  <2>3. \A i \in DOMAIN ssts : ssts[i].file < num + 1
    BY <1>0, <1>1 DEF Filed, NumAhead
  <2>4. NumAhead' /\ FilesDistinct' /\ FilesGrow
    BY <2>1, <2>3 DEF Filed, NumAhead, FilesDistinct, FilesGrow
  <2> QED BY <1>1, <2>1, <2>2, <2>4 DEF Filed
<1>6. CASE SwapMem(c)
  <2>1. /\ pc[c] = "swap" /\ pc' = [pc EXCEPT ![c] = "wunlock"]
        /\ ssts' = ssts /\ num' = num /\ proc' = proc
    BY <1>6 DEF SwapMem, At, Goto, disk
  <2>2. ASSUME NEW d \in Clients, pc'[d] = "add"
        PROVE  pc[d] = "add" /\ it'[d].file = it[d].file
    <3>1. d # c /\ pc[d] = "add"
      BY <1>0, <2>1, <2>2
    <3>2. it'[d] = AllGhosts(d)
      BY <1>0, <1>6, <3>1 DEF SwapMem, Flushing
    <3>3. AllGhosts(d).file = it[d].file
      BY <1>0 DEF AllGhosts, Flushes
    <3> QED BY <3>1, <3>2, <3>3
  <2>3. \A d \in Clients : pc[d] = "num" => pc'[d] = "num"
    BY <1>0, <2>1
  <2> QED BY <1>1, <2>1, <2>2, <2>3, SameFiled
<1> QED BY <1>2, <1>3, <1>4, <1>5, <1>6

\* The steps that touch neither files nor their numbers.
LEMMA OtherFiled ==
  ASSUME Typed, Locked, Filed, NEW c \in Clients,
         \/ LockExclusive(c) \/ Batch(c) \/ AddLog(c) \/ WriteMem(c) \/ Reinsert(c)
         \/ WriteCache(c) \/ CheckFull(c) \/ UnlockExclusive(c) \/ SetClosed(c)
         \/ LockShared(c) \/ LookInCache(c) \/ GetCached(c) \/ GetMem(c) \/ GetSST(c)
         \/ UnlockShared(c)
  PROVE  Filed' /\ FilesGrow
<1>0. pc \in [Clients -> Places] /\ op \in [Clients -> Calls] /\ it \in [Clients -> Flushes]
  BY DEF Typed, TypeOK
<1>1. proc = "up"
  BY DEF LockExclusive, Batch, AddLog, WriteMem, Reinsert, WriteCache, CheckFull,
         UnlockExclusive, SetClosed, LockShared, LookInCache, GetCached, GetMem, GetSST,
         UnlockShared, At
<1>2. OneAtATime'
  BY StepAlone DEF Step, Filed
<1>3. CASE Die("abort")
  BY <1>1, <1>3, DieFiled
<1>4. ASSUME NEW place, place \notin {"add", "num"}, pc[c] # "num", pc' = [pc EXCEPT ![c] = place],
             ssts' = ssts, num' = num, proc' = proc,
             \A d \in Clients : it'[d].file = it[d].file
      PROVE  Filed' /\ FilesGrow
  BY <1>0, <1>1, <1>2, <1>4, SameFiled
<1>5. CASE \/ LockExclusive(c) \/ AddLog(c) \/ Reinsert(c) \/ WriteCache(c) \/ CheckFull(c)
           \/ UnlockExclusive(c) \/ SetClosed(c)
           \/ LockShared(c) \/ LookInCache(c) \/ GetMem(c) \/ UnlockShared(c)
  <2>1. \E place : /\ place \notin {"add", "num"} /\ pc[c] # "num" /\ pc' = [pc EXCEPT ![c] = place]
                   /\ ssts' = ssts /\ num' = num /\ proc' = proc /\ it' = it
    BY <1>5 DEF LockExclusive, AddLog, Reinsert, WriteCache, CheckFull, UnlockExclusive, SetClosed,
                LockShared, LookInCache, GetMem, UnlockShared, Return, At, Goto, disk
  <2> QED BY <1>4, <2>1
<1>6. CASE Batch(c) \/ GetCached(c) \/ GetSST(c)
  <2>1. \/ Die("abort")
        \/ \E place : /\ place \notin {"add", "num"} /\ pc[c] # "num" /\ pc' = [pc EXCEPT ![c] = place]
                      /\ ssts' = ssts /\ num' = num /\ proc' = proc /\ it' = it
    BY <1>6 DEF Batch, GetCached, GetSST, ParseSST, At, Goto, disk
  <2> QED BY <1>3, <1>4, <2>1
<1>7. CASE WriteMem(c)
  <2>1. /\ pc[c] = "mem" /\ \E place \in {"cache", "reinsert"} : pc' = [pc EXCEPT ![c] = place]
        /\ ssts' = ssts /\ num' = num /\ proc' = proc
    BY <1>7 DEF WriteMem, At, Goto, disk
  <2>2. ASSUME NEW d \in Clients PROVE it'[d].file = it[d].file
    <3>1. it[d] \in Flushes
      BY <1>0
    <3>2. \A k, n : [it[d] EXCEPT !.ghost[k] = mem[k], !.join = n].file = it[d].file
      BY <3>1 DEF Flushes
    <3>3. ASSUME NEW k, NEW n, it' = Unlinked(k, n) PROVE it'[d].file = it[d].file
      BY <3>2, <3>3 DEF Unlinked
    <3>4. it' = it \/ \E k, n : it' = Unlinked(k, n)
      BY <1>7 DEF WriteMem
    <3> QED BY <3>3, <3>4
  <2> QED BY <1>4, <2>1, <2>2
<1> QED BY <1>5, <1>6, <1>7

\* The number after the last one is a number after all.
LEMMA OpenFiled ==
  ASSUME ScanOnOpen, Filed, Open
  PROVE  Filed' /\ FilesGrow
<1>1. /\ ssts' = ssts /\ pc' = pc /\ op' = op /\ proc # "up"
      /\ \A i \in DOMAIN ssts : ssts[i].file < num'
  BY DEF Open, NextNumber, disk
<1>2. OneAtATime' /\ FilesDistinct' /\ FilesGrow
  BY <1>1 DEF Filed, OneAtATime, FilesDistinct, FilesGrow
<1>3. NumAhead' /\ \A c \in Clients : pc'[c] = "idle"
  BY <1>1 DEF Filed, NumAhead
<1> QED BY <1>2, <1>3 DEF Filed

LEMMA StepFiled ==
  ASSUME CloseAlone, ScanOnOpen
  PROVE  Typed /\ Locked /\ Filed /\ [Next]_vars => Filed' /\ FilesGrow
<1> SUFFICES ASSUME Typed, Locked, Filed, [Next]_vars PROVE Filed' /\ FilesGrow
  OBVIOUS
<1>1. ASSUME NEW c \in Clients, Begin(c) PROVE Filed' /\ FilesGrow
  BY <1>1, BeginFiled
<1>2. ASSUME NEW c \in Clients, Step(c) PROVE Filed' /\ FilesGrow
  BY <1>2, FlushFiled, OtherFiled DEF Step
<1>3. CASE Crash
  BY <1>3, DieFiled DEF Crash
<1>4. CASE Open
  BY <1>4, OpenFiled
<1>5. CASE UNCHANGED vars
  BY <1>5 DEF vars, memory, disk, Filed, OneAtATime, FilesDistinct, NumAhead, FilesGrow
<1> QED BY <1>1, <1>2, <1>3, <1>4, <1>5 DEF Next

LEMMA InitFiled == Init => Filed
BY DEF Init, Filed, OneAtATime, FilesDistinct, NumAhead, Nowhere, NoOps, NoOp

LEMMA AllFiled ==
  ASSUME CloseAlone, ScanOnOpen
  PROVE  Spec => [](Typed /\ Locked /\ Filed)
BY InitTyped, StepTyped, InitLocked, StepLocked, InitFiled, StepFiled, PTL DEF Spec

\* Flushes, those of later processes included (options.h:26), write to files of
\* their own: MemTableToSST never appends a table to another one.
THEOREM TablesKeepTheirFiles ==
  ASSUME CloseAlone, ScanOnOpen
  PROVE  Spec => []OneTablePerFile
<1>1. Filed => OneTablePerFile
  BY DEF Filed, FilesDistinct, OneTablePerFile
<1> QED BY <1>1, AllFiled, PTL

\* With every chunk in a file of its own, a file that holds a table is readable.
LEMMA ReadableTables ==
  ASSUME FilesDistinct
  PROVE  Readable = {i \in DOMAIN ssts : ssts[i].tab # Absent}
BY DEF FilesDistinct, Readable

\* A table that could be read from disk stays readable, through crashes in the
\* middle of a flush and through the flushes of later processes.
THEOREM TablesStay ==
  ASSUME CloseAlone, ScanOnOpen
  PROVE  Spec => TablesStayReadable
<1>1. Filed /\ FilesGrow /\ Filed' => Readable \subseteq Readable'
  BY DEF Filed, FilesDistinct, FilesGrow, Readable
<1>2. Typed /\ Locked /\ Filed /\ [Next]_vars => [Readable \subseteq Readable']_vars
  BY <1>1, StepFiled
<1> QED BY <1>2, AllFiled, PTL DEF Spec, TablesStayReadable

-----------------------------------------------------------------------------
(* The store. *)

\* A flush stores nothing under the empty key (SSTableBuilder::add).
KeysNotEmpty == \A k \in Keys : KeyLen[k] # 0

MemOnDisk == \A k \in Keys : mem[k] # Absent => OnDisk(k) = mem[k]

\* The table under construction is the memtable as far as the iterator came:
\* nothing was unlinked under it.
CopiesMem(c) == /\ \A k \in Keys : it[c].ghost[k] = Absent
                /\ it[c].join \in Nat /\ it[c].join <= it[c].pos
                /\ \A k \in Keys : it[c].tab[k] = IF k <= it[c].pos THEN mem[k] ELSE Absent

StoreInv ==
  /\ \A c \in Clients :
       /\ pc[c] = "reinsert" => mem[op[c].key] = Absent
       /\ pc[c] = "add" => CopiesMem(c)
       /\ pc[c] \in {"num", "swap", "setclosed"} => MemOnDisk
       /\ pc[c] = "setclosed" => op[c].kind = "close"
       /\ closed => \/ pc[c] \in {"idle", "batch"}
                    \/ pc[c] = "wlock" /\ op[c].kind = "batch"
  /\ closed => MemOnDisk

-----------------------------------------------------------------------------
(* What is in memory, and what is on disk. *)

\* A set of places in a sequence has a last one.
LEMMA HasMax ==
  ASSUME NEW n \in Nat, NEW T, T \subseteq 1..n, T # {}
  PROVE  Max(T) \in T /\ \A y \in T : Max(T) >= y
BY HasGreatest DEF Max

Holding(k) == {i \in DOMAIN ssts : ssts[i].tab # Absent /\ ssts[i].tab[k] # Absent}

\* With a file for each chunk, the newest table that holds k answers for it.
LEMMA OnDiskIs ==
  ASSUME TypeOK, FilesDistinct, NEW k
  PROVE  /\ Holding(k) = {} => OnDisk(k) = Absent
         /\ Holding(k) # {} => /\ OnDisk(k) = ssts[Max(Holding(k))].tab[k]
                               /\ Max(Holding(k)) \in Holding(k)
<1>1. {i \in Readable : ssts[i].tab[k] # Absent} = Holding(k)
  BY ReadableTables DEF Holding
<1>2. Holding(k) \subseteq 1..Len(ssts) /\ Len(ssts) \in Nat
  BY DEF TypeOK, Holding
<1>3. Holding(k) # {} => Max(Holding(k)) \in Holding(k)
  BY <1>2, HasMax
<1> QED BY <1>1, <1>3 DEF OnDisk

LEMMA SameOnDisk ==
  ASSUME ssts' = ssts, NEW k
  PROVE  OnDisk(k)' = OnDisk(k)
BY DEF OnDisk, Readable

\* Chunks without a table change nothing.
LEMMA RemainsOnDisk ==
  ASSUME TypeOK, FilesDistinct, FilesDistinct', FilesGrow, NEW k,
         \A i \in DOMAIN ssts' : i \notin DOMAIN ssts => ssts'[i].tab = Absent
  PROVE  OnDisk(k)' = OnDisk(k)
<1>1. {i \in Readable : ssts[i].tab[k] # Absent} = Holding(k)
  BY ReadableTables DEF Holding
<1>2. {i \in Readable' : ssts'[i].tab[k] # Absent} = Holding(k)
  BY DEF FilesDistinct, FilesGrow, Readable, Holding
<1>3. Holding(k) # {} => Max(Holding(k)) \in Holding(k)
  BY OnDiskIs
<1>4. Holding(k) # {} => ssts'[Max(Holding(k))] = ssts[Max(Holding(k))]
  BY <1>3 DEF Holding, FilesGrow
<1> QED BY <1>1, <1>2, <1>4 DEF OnDisk

\* A table that was appended is the newest one.
LEMMA TableOnDisk ==
  ASSUME TypeOK, FilesDistinct, FilesDistinct', FilesGrow, NEW k,
         NEW chunk \in Chunks, ssts' = Append(ssts, chunk), chunk.tab # Absent
  PROVE  OnDisk(k)' = IF chunk.tab[k] # Absent THEN chunk.tab[k] ELSE OnDisk(k)
<1> DEFINE n == Len(ssts) + 1
<1>1. /\ ssts \in Seq(Chunks) /\ Len(ssts) \in Nat /\ DOMAIN ssts = 1..Len(ssts)
      /\ DOMAIN ssts' = DOMAIN ssts \cup {n} /\ ssts'[n] = chunk
      /\ \A i \in DOMAIN ssts : ssts'[i] = ssts[i]
  BY DEF TypeOK
<1>2. {i \in Readable : ssts[i].tab[k] # Absent} = Holding(k)
  BY ReadableTables DEF Holding
<1>3. {i \in Readable' : ssts'[i].tab[k] # Absent}
        = Holding(k) \cup (IF chunk.tab[k] # Absent THEN {n} ELSE {})
  BY <1>1 DEF FilesDistinct, Readable, Holding
<1>4. CASE chunk.tab[k] = Absent
  <2>1. Holding(k) # {} => Max(Holding(k)) \in Holding(k)
    BY OnDiskIs
  <2>2. Holding(k) # {} => ssts'[Max(Holding(k))] = ssts[Max(Holding(k))]
    BY <1>1, <2>1 DEF Holding
  <2> QED BY <1>2, <1>3, <1>4, <2>2 DEF OnDisk
<1>5. CASE chunk.tab[k] # Absent
  <2> DEFINE T == Holding(k) \cup {n}
  <2>1. \A y \in T : n >= y /\ (y # n => ~(y >= n))
    BY <1>1 DEF Holding
  <2>2. Max(T) = n
    BY <2>1 DEF Max
  <2> QED BY <1>1, <1>3, <1>5, <2>2 DEF OnDisk
<1> QED BY <1>4, <1>5

\* An update that is under way is under way alone.
LEMMA InMemoryIs ==
  ASSUME Locked, NEW k
  PROVE  /\ \A c \in Clients : Replacing(c, k) => InMemory(k) = op[c].val
         /\ (\A c \in Clients : ~Replacing(c, k)) => InMemory(k) = mem[k]
<1>1. \A c, d \in Clients : Replacing(c, k) /\ Replacing(d, k) => c = d
  BY DEF Replacing, Locked, WritePlaces
<1>2. ASSUME NEW c \in Clients, Replacing(c, k) PROVE InMemory(k) = op[c].val
  <2>1. (CHOOSE d \in Clients : Replacing(d, k)) = c
    BY <1>1, <1>2
  <2> QED BY <1>2, <2>1 DEF InMemory
<1> QED BY <1>2 DEF InMemory

LEMMA InMemoryNext ==
  ASSUME Locked', NEW k
  PROVE  /\ \A c \in Clients : Replacing(c, k)' => InMemory(k)' = op'[c].val
         /\ (\A c \in Clients : ~Replacing(c, k)') => InMemory(k)' = mem'[k]
<1>1. \A c, d \in Clients : Replacing(c, k)' /\ Replacing(d, k)' => c = d
  BY DEF Replacing, Locked, WritePlaces
<1>2. ASSUME NEW c \in Clients, Replacing(c, k)' PROVE InMemory(k)' = op'[c].val
  <2>1. (CHOOSE d \in Clients : Replacing(d, k)') = c
    BY <1>1, <1>2
  <2> QED BY <1>2, <2>1 DEF InMemory
<1> QED BY <1>2 DEF InMemory

LEMMA SameInMemory ==
  ASSUME Locked, Locked', mem' = mem, NEW k,
         \A d \in Clients : /\ pc'[d] = "reinsert" <=> pc[d] = "reinsert"
                            /\ pc[d] = "reinsert" => op'[d] = op[d]
  PROVE  InMemory(k)' = InMemory(k)
<1>1. \A d \in Clients : Replacing(d, k)' <=> Replacing(d, k)
  BY DEF Replacing
<1>2. CASE \A d \in Clients : ~Replacing(d, k)
  BY <1>1, <1>2, InMemoryIs, InMemoryNext
<1>3. ASSUME NEW d \in Clients, Replacing(d, k) PROVE InMemory(k)' = InMemory(k)
  <2>1. InMemory(k) = op[d].val /\ InMemory(k)' = op'[d].val
    BY <1>1, <1>3, InMemoryIs, InMemoryNext
  <2> QED BY <1>3, <2>1 DEF Replacing
<1> QED BY <1>2, <1>3

-----------------------------------------------------------------------------
(* What a step does to the contents. *)

Same == \A k \in Keys : Stored(k)' = Stored(k) /\ OnDisk(k)' = OnDisk(k)

Wrote(c) ==
  \A k \in Keys : /\ Stored(k)' = IF k = op[c].key THEN op[c].val ELSE Stored(k)
                  /\ OnDisk(k)' = OnDisk(k)

Persisted == \A k \in Keys : Stored(k)' = Stored(k) /\ OnDisk(k)' = Stored(k)

Lost == \A k \in Keys : OnDisk(k)' = OnDisk(k) /\ Stored(k)' = OnDisk(k)

\* What is known before and after a step from the other proofs.
Before == Typed /\ Locked /\ Filed /\ StoreInv
After == Locked' /\ Filed' /\ FilesGrow

\* Whoever writes or flushes does so alone.
Busy == WritePlaces \cup FlushPlaces \cup {"setclosed"}

LEMMA BusyAlone ==
  ASSUME Before, NEW c \in Clients, pc[c] \in Busy, NEW d \in Clients, pc[d] \in Busy
  PROVE  d = c
BY DEF Before, Busy, StoreInv, Filed, OneAtATime, Locked, WritePlaces, FlushPlaces

\* A step that changes neither memtable nor files.
LEMMA GoesOnStored ==
  ASSUME Before, After, NEW c \in Clients, NEW place,
         pc' = [pc EXCEPT ![c] = place], pc[c] # "reinsert", place \notin {"reinsert", "add"},
         NEW o, op' = [op EXCEPT ![c] = o],
         place \in {"num", "swap", "setclosed"} => pc[c] = "num",
         place = "setclosed" => o.kind = "close",
         closed => place \in {"idle", "batch"} \/ (place = "wlock" /\ o.kind = "batch"),
         mem' = mem, ssts' = ssts, it' = it, closed' = closed
  PROVE  StoreInv' /\ Same
<1>0. pc \in [Clients -> Places] /\ op \in [Clients -> Calls]
  BY DEF Before, Typed, TypeOK
<1>1. \A k \in Keys : OnDisk(k)' = OnDisk(k)
  BY SameOnDisk
<1>2. Same
  <2>1. \A k \in Keys : InMemory(k)' = InMemory(k)
    BY <1>0, SameInMemory DEF Before, After
  <2> QED BY <1>1, <2>1 DEF Same, Stored
<1>3. MemOnDisk => MemOnDisk'
  BY <1>1 DEF MemOnDisk
<1>4. ASSUME NEW d \in Clients
      PROVE  /\ pc'[d] = "reinsert" => mem'[op'[d].key] = Absent
             /\ pc'[d] = "add" => CopiesMem(d)'
             /\ pc'[d] \in {"num", "swap", "setclosed"} => MemOnDisk'
             /\ pc'[d] = "setclosed" => op'[d].kind = "close"
             /\ closed' => \/ pc'[d] \in {"idle", "batch"}
                           \/ pc'[d] = "wlock" /\ op'[d].kind = "batch"
  <2>1. CASE d = c
    <3>1. pc'[c] = place /\ op'[c] = o
      BY <1>0
    <3>2. pc[c] = "num" => MemOnDisk
      BY DEF Before, StoreInv
    <3> QED BY <1>3, <2>1, <3>1, <3>2
  <2>2. CASE d # c
    <3>1. pc'[d] = pc[d] /\ op'[d] = op[d]
      BY <1>0, <2>2
    <3>2. CopiesMem(d) => CopiesMem(d)'
      BY DEF CopiesMem
    <3> QED BY <1>3, <3>1, <3>2 DEF Before, StoreInv
  <2> QED BY <2>1, <2>2
<1>5. closed' => MemOnDisk'
  BY <1>3 DEF Before, StoreInv
<1> QED BY <1>2, <1>4, <1>5 DEF StoreInv

LEMMA DieStored ==
  ASSUME Before, After, NEW how, Die(how)
  PROVE  StoreInv' /\ Lost
<1>0. /\ pc' = Nowhere /\ mem' = EmptyMem /\ closed' = FALSE
      /\ TypeOK /\ FilesDistinct /\ FilesDistinct' /\ FilesGrow /\ Locked'
  BY DEF Die, Before, After, Typed, Filed
<1>1. \A i \in DOMAIN ssts' : i \notin DOMAIN ssts => ssts'[i].tab = Absent
  <2>1. ssts \in Seq(Chunks)
    BY <1>0 DEF TypeOK
  <2>2. ASSUME NEW f, ssts' = Append(ssts, [file |-> f, tab |-> Absent])
        PROVE  \A i \in DOMAIN ssts' : i \notin DOMAIN ssts => ssts'[i].tab = Absent
    BY <2>1, <2>2
  <2> QED BY <2>2 DEF Die, Remains
<1>2. \A k \in Keys : OnDisk(k)' = OnDisk(k)
  BY <1>0, <1>1, RemainsOnDisk
<1>3. \A k \in Keys : InMemory(k)' = Absent
  BY <1>0, InMemoryNext DEF Replacing, Nowhere, EmptyMem
<1>4. Lost
  BY <1>2, <1>3 DEF Lost, Stored
<1>5. StoreInv'
  BY <1>0 DEF StoreInv, Nowhere
<1> QED BY <1>4, <1>5

\* Nobody else is at a place that StoreInv says anything of.
LEMMA BusyStored ==
  ASSUME Before, After, NEW c \in Clients, pc[c] \in Busy, ~closed', NEW place,
         pc' = [pc EXCEPT ![c] = place],
         place = "reinsert" => mem'[op'[c].key] = Absent,
         place = "add" => CopiesMem(c)',
         place = "num" => MemOnDisk',
         place \notin {"swap", "setclosed"}
  PROVE  StoreInv'
<1>0. pc \in [Clients -> Places]
  BY DEF Before, Typed, TypeOK
<1>1. ASSUME NEW d \in Clients, d # c
      PROVE  pc'[d] \notin {"reinsert", "add", "num", "swap", "setclosed"}
  <2>1. pc'[d] = pc[d] /\ pc[d] \notin Busy
    BY <1>0, <1>1, BusyAlone
  <2> QED BY <2>1 DEF Busy, WritePlaces, FlushPlaces
<1>2. pc'[c] = place
  BY <1>0
<1> QED BY <1>1, <1>2 DEF StoreInv

LEMMA OpFields ==
  ASSUME NEW o \in Ops
  PROVE  o.key \in Keys /\ o.val \in Vals /\ o.val # Absent
BY SentinelAssumption DEF Ops

\* A write takes effect where it first touches the memtable.
LEMMA WriteMemStored ==
  ASSUME Before, After, NEW c \in Clients, WriteMem(c)
  PROVE  StoreInv' /\ Wrote(c)
<1> DEFINE key == op[c].key
<1>0. /\ pc \in [Clients -> Places] /\ op \in [Clients -> Calls] /\ mem \in MemTables
      /\ pc[c] = "mem" /\ op' = op /\ ssts' = ssts /\ closed' = closed /\ ~closed
  BY DEF Before, Typed, TypeOK, StoreInv, WriteMem, At, disk
<1>1. pc[c] \in Busy /\ op[c] \in Ops
  BY <1>0 DEF Busy, WritePlaces, Before, Typed, CallsFit
<1>2. key \in Keys /\ op[c].val # Absent
  BY <1>1, OpFields
<1>3. \A k \in Keys : OnDisk(k)' = OnDisk(k)
  BY <1>0, SameOnDisk
<1>4. \A d \in Clients : pc[d] # "reinsert"
  <2>1. \A d \in Clients : pc[d] = "reinsert" => d = c
    BY <1>1, BusyAlone DEF Busy, WritePlaces
  <2> QED BY <1>0, <2>1
<1>5. \A k \in Keys : InMemory(k) = mem[k]
  BY <1>4, InMemoryIs DEF Before, Replacing
<1>6. CASE mem[key] = Absent
  <2>1. mem' = [mem EXCEPT ![key] = op[c].val] /\ pc' = [pc EXCEPT ![c] = "cache"]
    BY <1>6 DEF WriteMem, InsertNew, Goto
  <2>2. StoreInv'
    BY <1>0, <1>1, <2>1, BusyStored
  <2>3. \A d \in Clients : pc'[d] # "reinsert"
    BY <1>0, <1>4, <2>1
  <2>4. \A k \in Keys : InMemory(k)' = mem'[k]
    BY <2>3, InMemoryNext DEF After, Replacing
  <2>5. \A k \in Keys : mem'[k] = IF k = key THEN op[c].val ELSE mem[k]
    BY <1>0, <1>2, <2>1 DEF MemTables
  <2>6. Wrote(c)
    BY <1>2, <1>3, <1>5, <2>4, <2>5 DEF Wrote, Stored
  <2> QED BY <2>2, <2>6
<1>7. CASE mem[key] # Absent
  <2>1. mem' = [mem EXCEPT ![key] = Absent] /\ pc' = [pc EXCEPT ![c] = "reinsert"]
    BY <1>7 DEF WriteMem, Erased, Goto
  <2>2. \A k \in Keys : mem'[k] = IF k = key THEN Absent ELSE mem[k]
    BY <1>0, <1>2, <2>1 DEF MemTables
  <2>3. StoreInv'
    <3>1. mem'[op'[c].key] = Absent
      BY <1>0, <1>2, <2>2
    <3> QED BY <1>0, <1>1, <2>1, <3>1, BusyStored
  <2>4. \A k : \A d \in Clients : Replacing(d, k)' <=> (d = c /\ k = key)
    BY <1>0, <1>4, <2>1 DEF Replacing
  <2>5. \A k \in Keys : k = key => InMemory(k)' = op[c].val
    BY <1>0, <2>4, InMemoryNext DEF After
  <2>6. \A k \in Keys : k # key => InMemory(k)' = mem'[k]
    BY <2>4, InMemoryNext DEF After
  <2>7. \A k \in Keys : InMemory(k)' = IF k = key THEN op[c].val ELSE InMemory(k)
    BY <1>5, <2>2, <2>5, <2>6
  <2>8. Wrote(c)
    BY <1>2, <1>3, <2>7 DEF Wrote, Stored
  <2> QED BY <2>3, <2>8
<1> QED BY <1>6, <1>7

LEMMA ReinsertStored ==
  ASSUME Before, After, NEW c \in Clients, Reinsert(c)
  PROVE  StoreInv' /\ Same
<1> DEFINE key == op[c].key
<1>0. /\ pc \in [Clients -> Places] /\ op \in [Clients -> Calls] /\ mem \in MemTables
      /\ pc[c] = "reinsert" /\ op' = op /\ ssts' = ssts /\ closed' = closed /\ ~closed
      /\ mem[key] = Absent
  BY DEF Before, Typed, TypeOK, StoreInv, Reinsert, At, disk
<1>1. pc[c] \in Busy /\ op[c] \in Ops
  BY <1>0 DEF Busy, WritePlaces, Before, Typed, CallsFit
<1>2. key \in Keys /\ op[c].val # Absent
  BY <1>1, OpFields
<1>3. \A k \in Keys : OnDisk(k)' = OnDisk(k)
  BY <1>0, SameOnDisk
<1>4. mem' = [mem EXCEPT ![key] = op[c].val] /\ pc' = [pc EXCEPT ![c] = "cache"]
  BY <1>0 DEF Reinsert, InsertNew, Goto
<1>5. StoreInv'
  BY <1>0, <1>1, <1>4, BusyStored
<1>6. \A d \in Clients : pc[d] = "reinsert" => d = c
  BY <1>1, BusyAlone DEF Busy, WritePlaces
<1>7. \A k \in Keys : InMemory(k) = IF k = key THEN op[c].val ELSE mem[k]
  BY <1>0, <1>6, InMemoryIs DEF Before, Replacing
<1>8. \A d \in Clients : pc'[d] # "reinsert"
  BY <1>0, <1>4, <1>6
<1>9. \A k \in Keys : InMemory(k)' = mem'[k]
  BY <1>8, InMemoryNext DEF After, Replacing
<1>10. \A k \in Keys : mem'[k] = IF k = key THEN op[c].val ELSE mem[k]
  BY <1>0, <1>2, <1>4 DEF MemTables
<1>11. Same
  BY <1>3, <1>7, <1>9, <1>10 DEF Same, Stored
<1> QED BY <1>5, <1>11
-----------------------------------------------------------------------------
(* A flush. *)

\* While a flush runs, or is over, nothing is being replaced.
LEMMA FlushInMemory ==
  ASSUME Before, After, NEW c \in Clients,
         pc[c] \in FlushPlaces \cup {"swap", "setclosed"},
         NEW place, pc' = [pc EXCEPT ![c] = place], place # "reinsert"
  PROVE  \A k \in Keys : InMemory(k) = mem[k] /\ InMemory(k)' = mem'[k]
<1>0. pc \in [Clients -> Places]
  BY DEF Before, Typed, TypeOK
<1>1. \A d \in Clients : pc[d] # "reinsert"
  <2>1. \A d \in Clients : pc[d] = "reinsert" => d = c
    BY BusyAlone DEF Busy, WritePlaces, FlushPlaces
  <2> QED BY <2>1 DEF FlushPlaces
<1>2. \A d \in Clients : pc'[d] # "reinsert"
  BY <1>0, <1>1
<1> QED BY <1>1, <1>2, InMemoryIs, InMemoryNext DEF Before, After, Replacing

LEMMA FlushOpenStored ==
  ASSUME Before, After, NEW c \in Clients, FlushOpen(c)
  PROVE  StoreInv' /\ Same
<1>0. /\ it \in [Clients -> Flushes] /\ pc[c] = "open" /\ pc' = [pc EXCEPT ![c] = "add"]
      /\ it' = [it EXCEPT ![c] = FlushTo(num, Acknowledged(c))]
      /\ mem' = mem /\ ssts' = ssts /\ closed' = closed /\ ~closed
  BY DEF Before, Typed, TypeOK, StoreInv, FlushOpen, At, Goto, disk
<1>1. it'[c] = FlushTo(num, Acknowledged(c))
  BY <1>0
<1>2. \A k \in Keys : k \in Nat /\ ~(k <= 0)
  BY KeyAssumption
<1>3. CopiesMem(c)'
  BY <1>1, <1>2 DEF CopiesMem, FlushTo, EmptyMem
<1>4. StoreInv'
  BY <1>0, <1>3, BusyStored DEF Busy, FlushPlaces
<1>5. Same
  BY <1>0, FlushInMemory, SameOnDisk DEF FlushPlaces, Same, Stored
<1> QED BY <1>4, <1>5

LEMMA FlushAddStored ==
  ASSUME KeysNotEmpty, Before, After, NEW c \in Clients, FlushAdd(c)
  PROVE  StoreInv' /\ Same
<1>0. /\ it \in [Clients -> Flushes] /\ mem \in MemTables /\ pc \in [Clients -> Places]
      /\ pc[c] = "add" /\ pc' = pc
      /\ mem' = mem /\ ssts' = ssts /\ closed' = closed /\ ~closed
      /\ CopiesMem(c)
  BY DEF Before, Typed, TypeOK, StoreInv, FlushAdd, At, disk
<1>1. \A k \in Keys : k \in Nat
  BY KeyAssumption
<1>2. /\ it[c].pos \in Nat /\ it[c].join \in Nat /\ it[c].join <= it[c].pos
      /\ it[c] \in Flushes /\ it[c].tab \in MemTables
  BY <1>0 DEF CopiesMem, Flushes
<1>3. GhostsAhead(c) = {}
  BY <1>0 DEF CopiesMem, GhostsAhead
<1>4. PICK k \in LiveAhead(c) :
        /\ \A j \in LiveAhead(c) : k <= j
        /\ it' = [it EXCEPT ![c] = [@ EXCEPT !.pos = k, !.tab[k] = InTable(k, mem[k]), !.join = k]]
  BY <1>3 DEF FlushAdd, Ahead
<1>5. /\ k \in Keys /\ k > it[c].pos /\ InTable(k, mem[k]) = mem[k]
      /\ \A j \in Keys : j > it[c].pos /\ mem[j] # Absent => k <= j
  BY <1>1, <1>2, <1>4 DEF LiveAhead, KeysNotEmpty, InTable
<1>6. /\ it'[c].pos = k /\ it'[c].join = k /\ it'[c].ghost = it[c].ghost
      /\ \A j \in Keys : it'[c].tab[j] = IF j = k THEN mem[k] ELSE it[c].tab[j]
  BY <1>0, <1>2, <1>4, <1>5 DEF Flushes, MemTables
<1>7. CopiesMem(c)'
  <2>1. ASSUME NEW j \in Keys
        PROVE  it'[c].tab[j] = IF j <= k THEN mem[j] ELSE Absent
    <3>1. it[c].tab[j] = IF j <= it[c].pos THEN mem[j] ELSE Absent
      BY <1>0 DEF CopiesMem
    <3>2. j \in Nat /\ k \in Nat
      BY <1>1, <1>5
    <3> QED BY <1>2, <1>5, <1>6, <3>1, <3>2
  <2>2. k \in Nat
    BY <1>1, <1>5
  <2> QED BY <1>0, <1>6, <2>1, <2>2 DEF CopiesMem
<1>8. pc' = [pc EXCEPT ![c] = "add"]
  BY <1>0
<1>9. StoreInv'
  BY <1>0, <1>7, <1>8, BusyStored DEF Busy, FlushPlaces
<1>10. Same
  BY <1>0, <1>8, FlushInMemory, SameOnDisk DEF FlushPlaces, Same, Stored
<1> QED BY <1>9, <1>10

\* The table that is appended is the memtable: what is stored is on disk.
LEMMA FlushFinishStored ==
  ASSUME Before, After, NEW c \in Clients, FlushFinish(c), it[c].tab # EmptyMem
  PROVE  StoreInv' /\ Persisted
<1> DEFINE chunk == [file |-> it[c].file, tab |-> it[c].tab]
<1>0. /\ it \in [Clients -> Flushes] /\ mem \in MemTables /\ pc[c] = "add"
      /\ pc' = [pc EXCEPT ![c] = "num"] /\ ssts' = Append(ssts, chunk)
      /\ mem' = mem /\ closed' = closed /\ ~closed /\ CopiesMem(c) /\ Ahead(c) = {}
  BY DEF Before, Typed, TypeOK, StoreInv, FlushFinish, At, Goto
<1>1. it[c] \in Flushes /\ it[c].pos \in Nat /\ it[c].tab \in MemTables
  BY <1>0 DEF Flushes
<1>2. it[c].join \in Nat /\ it[c].join <= it[c].pos /\ it[c].join # Absent
  BY <1>0, SentinelAssumption DEF CopiesMem
<1>3. ASSUME NEW k \in Keys PROVE it[c].tab[k] = mem[k]
  <2>1. k \in Nat /\ it[c].tab[k] = IF k <= it[c].pos THEN mem[k] ELSE Absent
    BY <1>0, KeyAssumption DEF CopiesMem
  <2>2. k \notin LiveAhead(c)
    BY <1>0 DEF Ahead
  <2> QED BY <1>1, <1>2, <2>1, <2>2 DEF LiveAhead
<1>4. chunk \in Chunks /\ chunk.tab # Absent
  BY <1>1, SentinelAssumption DEF Chunks, Flushes
<1>5. TypeOK /\ FilesDistinct /\ FilesDistinct' /\ FilesGrow
  BY DEF Before, After, Typed, Filed
<1>6. ASSUME NEW k \in Keys
      PROVE  OnDisk(k)' = IF mem[k] # Absent THEN mem[k] ELSE OnDisk(k)
  <2>1. chunk.tab[k] = mem[k]
    BY <1>3
  <2> HIDE DEF chunk
  <2> QED BY <1>0, <1>4, <1>5, <2>1, TableOnDisk
<1>7. \A k \in Keys : InMemory(k) = mem[k] /\ InMemory(k)' = mem'[k]
  BY <1>0, FlushInMemory DEF FlushPlaces
<1>8. Persisted
  BY <1>0, <1>6, <1>7 DEF Persisted, Stored
<1>9. MemOnDisk'
  BY <1>0, <1>6 DEF MemOnDisk
<1>10. StoreInv'
  BY <1>0, <1>9, BusyStored DEF Busy, FlushPlaces
<1> QED BY <1>8, <1>10

LEMMA SwapMemStored ==
  ASSUME Before, After, NEW c \in Clients, SwapMem(c)
  PROVE  StoreInv' /\ Same
<1>0. /\ pc[c] = "swap" /\ pc' = [pc EXCEPT ![c] = "wunlock"]
      /\ mem' = EmptyMem /\ ssts' = ssts /\ closed' = closed /\ ~closed /\ MemOnDisk
  BY DEF Before, StoreInv, SwapMem, At, Goto, disk
<1>1. StoreInv'
  BY <1>0, BusyStored DEF Busy, WritePlaces
<1>2. \A k \in Keys : InMemory(k) = mem[k] /\ InMemory(k)' = Absent /\ OnDisk(k)' = OnDisk(k)
  BY <1>0, FlushInMemory, SameOnDisk DEF EmptyMem
<1>3. Same
  BY <1>0, <1>2 DEF Same, Stored, MemOnDisk
<1> QED BY <1>1, <1>3

\* Close ends alone, with everything on disk.
LEMMA SetClosedStored ==
  ASSUME Before, After, NEW c \in Clients, SetClosed(c)
  PROVE  StoreInv' /\ Same
<1>0. /\ pc[c] = "setclosed" /\ pc' = [pc EXCEPT ![c] = "idle"] /\ pc \in [Clients -> Places]
      /\ mem' = mem /\ ssts' = ssts /\ MemOnDisk /\ op[c].kind = "close"
  BY DEF Before, Typed, TypeOK, StoreInv, SetClosed, Return, At, Goto, disk
<1>1. \A d \in Clients : pc'[d] = "idle"
  BY <1>0 DEF Before, Filed, OneAtATime
<1>2. \A k \in Keys : OnDisk(k)' = OnDisk(k)
  BY <1>0, SameOnDisk
<1>3. MemOnDisk'
  BY <1>0, <1>2 DEF MemOnDisk
<1>4. StoreInv'
  BY <1>1, <1>3 DEF StoreInv
<1>5. Same
  BY <1>0, <1>2, FlushInMemory DEF Same, Stored
<1> QED BY <1>4, <1>5

-----------------------------------------------------------------------------
(* All steps. *)

LogKept == /\ wal' = wal /\ base' = base
           /\ \A d \in Clients : pc[d] = "mem" => pc'[d] = "mem" /\ op'[d] = op[d]

Effect == \/ Same /\ LogKept /\ (proc' = proc \/ (proc # "up" /\ proc' = "up"))
          \/ Same /\ proc' = proc /\ \E c \in Clients : AddLog(c)
          \/ \E c \in Clients : WriteMem(c) /\ Wrote(c)
          \/ Persisted /\ LogKept /\ proc = "up" /\ proc' = proc
          \/ Lost /\ wal' = wal /\ base' = Len(wal) /\ proc = "up" /\ proc' # "up"

LEMMA DieEffect ==
  ASSUME Before, After, proc = "up", NEW how, how # "up", Die(how)
  PROVE  StoreInv' /\ Effect
BY DieStored DEF Die, Effect

\* A step that changes neither memtable, nor files, nor log.
LEMMA GoesOnEffect ==
  ASSUME Before, After, NEW c \in Clients, NEW place,
         pc' = [pc EXCEPT ![c] = place], pc[c] \notin {"reinsert", "mem"},
         place \notin {"reinsert", "add"},
         NEW o, op' = [op EXCEPT ![c] = o],
         place \in {"num", "swap", "setclosed"} => pc[c] = "num",
         place = "setclosed" => o.kind = "close",
         closed => place \in {"idle", "batch"} \/ (place = "wlock" /\ o.kind = "batch"),
         mem' = mem, disk' = disk, it' = it, closed' = closed, base' = base, proc' = proc
  PROVE  StoreInv' /\ Effect
<1>1. pc \in [Clients -> Places] /\ op \in [Clients -> Calls] /\ ssts' = ssts /\ wal' = wal
  BY DEF Before, Typed, TypeOK, disk
<1>2. StoreInv' /\ Same
  BY <1>1, GoesOnStored
<1>3. LogKept
  BY <1>1 DEF LogKept
<1> QED BY <1>2, <1>3 DEF Effect

\* What a closed database allows.
LEMMA ClosedPlaces ==
  ASSUME Before, NEW c \in Clients, closed
  PROVE  \/ pc[c] \in {"idle", "batch"}
         \/ pc[c] = "wlock" /\ op[c].kind = "batch"
BY DEF Before, StoreInv

LEMMA BeginEffect ==
  ASSUME Before, After, NEW c \in Clients, Begin(c)
  PROVE  StoreInv' /\ Effect
<1>1. proc = "up" /\ pc[c] = "idle"
  BY DEF Begin, CallWrite, CallGet, CallClosed, CallBatch, CallClose, Idle, At
<1>2. CASE CallClosed(c)
  BY <1>1, <1>2, DieEffect DEF CallClosed
<1>3. ASSUME NEW o, NEW place, Call(c, o, place), place \in {"idle", "wlock", "rlock", "open"},
             closed => place = "idle" \/ (place = "wlock" /\ o.kind = "batch")
      PROVE  StoreInv' /\ Effect
  <2>1. /\ pc' = [pc EXCEPT ![c] = place] /\ op' = [op EXCEPT ![c] = o]
        /\ mem' = mem /\ disk' = disk /\ it' = it /\ closed' = closed /\ base' = base
        /\ proc' = proc
    BY <1>3 DEF Call, Goto
  <2> QED BY <1>1, <1>3, <2>1, GoesOnEffect
<1>4. CASE CallWrite(c) \/ CallGet(c)
  BY <1>3, <1>4 DEF CallWrite, CallGet
<1>5. CASE CallBatch(c)
  <2>1. [NoOp EXCEPT !.kind = "batch"].kind = "batch"
    BY OpsAreCalls
  <2> QED BY <1>3, <1>5, <2>1 DEF CallBatch
<1>6. CASE CallClose(c)
  BY <1>3, <1>6 DEF CallClose
<1> QED BY <1>2, <1>4, <1>5, <1>6 DEF Begin

\* The steps of GoesOnEffect.
LEMMA OtherEffect ==
  ASSUME Before, After, NEW c \in Clients,
         \/ LockExclusive(c) \/ Batch(c) \/ WriteCache(c) \/ CheckFull(c)
         \/ UnlockExclusive(c) \/ BumpNum(c)
         \/ LockShared(c) \/ LookInCache(c) \/ GetCached(c) \/ GetMem(c) \/ GetSST(c)
         \/ UnlockShared(c)
  PROVE  StoreInv' /\ Effect
<1>0. proc = "up" /\ pc[c] \notin {"idle", "mem", "reinsert"}
  BY DEF LockExclusive, Batch, WriteCache, CheckFull, UnlockExclusive,
         BumpNum, LockShared, LookInCache, GetCached, GetMem, GetSST, UnlockShared, At
<1>1. CASE Die("abort")
  BY <1>0, <1>1, DieEffect
<1>2. ASSUME NEW place, pc' = [pc EXCEPT ![c] = place],
             place \notin {"reinsert", "add", "num"},
             place \in {"swap", "setclosed"} => pc[c] = "num",
             place = "setclosed" => op[c].kind = "close", closed => place = "batch",
             op' = op, mem' = mem, disk' = disk, it' = it, closed' = closed, base' = base,
             proc' = proc
      PROVE  StoreInv' /\ Effect
  <2>1. op' = [op EXCEPT ![c] = op[c]]
    BY <1>2 DEF Before, Typed, TypeOK
  <2> QED BY <1>0, <1>2, <2>1, GoesOnEffect
<1>3. CASE LockExclusive(c)
  <2>1. closed => op[c].kind = "batch"
    BY <1>3, ClosedPlaces DEF LockExclusive, At
  <2>2. \E place \in {"batch", "wal"} :
          /\ pc' = [pc EXCEPT ![c] = place] /\ (op[c].kind = "batch" => place = "batch")
          /\ op' = op /\ mem' = mem /\ disk' = disk /\ it' = it /\ closed' = closed
          /\ base' = base /\ proc' = proc
    BY <1>3 DEF LockExclusive, Goto
  <2> QED BY <1>2, <2>1, <2>2
<1>4. CASE BumpNum(c)
  <2>1. pc[c] = "num" /\ ~closed
    BY <1>4, ClosedPlaces DEF BumpNum, At
  <2>2. \E place \in {"setclosed", "swap"} :
          /\ pc' = [pc EXCEPT ![c] = place] /\ (place = "setclosed" => op[c].kind = "close")
          /\ op' = op /\ mem' = mem /\ disk' = disk /\ it' = it /\ closed' = closed
          /\ base' = base /\ proc' = proc
    BY <1>4 DEF BumpNum, Goto
  <2> QED BY <1>2, <2>1, <2>2
<1>5. CASE UnlockExclusive(c) \/ UnlockShared(c)
  <2>1. \E place \in {"idle"} : \E o \in {NoOp} :
          /\ pc' = [pc EXCEPT ![c] = place] /\ op' = [op EXCEPT ![c] = o]
          /\ mem' = mem /\ disk' = disk /\ it' = it /\ closed' = closed
          /\ base' = base /\ proc' = proc
    BY <1>5 DEF UnlockExclusive, UnlockShared, Return, Goto
  <2> QED BY <1>0, <2>1, GoesOnEffect
<1>6. CASE WriteCache(c) \/ CheckFull(c)
  <2>1. pc[c] \in {"cache", "check"}
    BY <1>6 DEF WriteCache, CheckFull, At
  <2>2. ~closed
    BY <2>1, ClosedPlaces
  <2>3. \E place \in {"wunlock", "check", "open"} :
          /\ pc' = [pc EXCEPT ![c] = place]
          /\ op' = op /\ mem' = mem /\ disk' = disk /\ it' = it /\ closed' = closed
          /\ base' = base /\ proc' = proc
    BY <1>6 DEF WriteCache, CheckFull, Goto
  <2> QED BY <1>2, <2>2, <2>3
<1>7. CASE LockShared(c) \/ LookInCache(c) \/ GetCached(c) \/ GetMem(c)
  <2>1. pc[c] \in {"rlock", "look", "hit", "miss"}
    BY <1>7 DEF LockShared, LookInCache, GetCached, GetMem, At
  <2>2. ~closed
    BY <2>1, ClosedPlaces
  <2>3. \/ Die("abort")
        \/ \E place \in {"look", "hit", "miss", "runlock"} :
             /\ pc' = [pc EXCEPT ![c] = place]
             /\ op' = op /\ mem' = mem /\ disk' = disk /\ it' = it /\ closed' = closed
             /\ base' = base /\ proc' = proc
    BY <1>7 DEF LockShared, LookInCache, GetCached, GetMem, Goto
  <2> QED BY <1>1, <1>2, <2>2, <2>3
<1>8. CASE Batch(c)
  <2>1. CASE closed
    BY <1>1, <1>8, <2>1 DEF Batch
  <2>2. CASE ~closed
    BY <1>2, <1>8, <2>2 DEF Batch, Goto
  <2> QED BY <2>1, <2>2
<1>9. CASE GetSST(c)
  BY <1>1, <1>9 DEF GetSST, ParseSST
<1> QED BY <1>3, <1>4, <1>5, <1>6, <1>7, <1>8, <1>9

LEMMA AddLogEffect ==
  ASSUME Before, After, NEW c \in Clients, AddLog(c)
  PROVE  StoreInv' /\ Effect
<1>1. pc[c] = "wal" /\ op \in [Clients -> Calls] /\ ~closed
  BY ClosedPlaces DEF Before, Typed, TypeOK, AddLog, At
<1>2. \E place \in {"mem"} : \E o \in {op[c]} :
        /\ pc' = [pc EXCEPT ![c] = place] /\ op' = [op EXCEPT ![c] = o]
        /\ mem' = mem /\ ssts' = ssts /\ it' = it /\ closed' = closed /\ proc' = proc
  BY <1>1 DEF AddLog, Goto
<1>3. StoreInv' /\ Same
  BY <1>1, <1>2, GoesOnStored
<1> QED BY <1>2, <1>3 DEF Effect

LEMMA MemEffect ==
  ASSUME KeysNotEmpty, Before, After, NEW c \in Clients,
         \/ WriteMem(c) \/ Reinsert(c)
         \/ FlushOpen(c) \/ FlushAdd(c) \/ FlushFinish(c) \/ SwapMem(c) \/ SetClosed(c)
  PROVE  StoreInv' /\ Effect
<1>0. pc \in [Clients -> Places] /\ op \in [Clients -> Calls]
  BY DEF Before, Typed, TypeOK
<1>1. CASE WriteMem(c)
  BY <1>1, WriteMemStored DEF Effect
<1>2. CASE Reinsert(c) \/ FlushOpen(c) \/ SwapMem(c) \/ SetClosed(c)
  <2>1. LogKept /\ proc' = proc
    BY <1>0, <1>2 DEF Reinsert, FlushOpen, SwapMem, SetClosed, Return, At, Goto, disk, LogKept
  <2>2. StoreInv' /\ Same
    BY <1>2, ReinsertStored, FlushOpenStored, SwapMemStored, SetClosedStored
  <2> QED BY <2>1, <2>2 DEF Effect
<1>3. CASE FlushAdd(c)
  <2>1. LogKept /\ proc' = proc
    BY <1>3 DEF FlushAdd, disk, LogKept
  <2> QED BY <1>3, <2>1, FlushAddStored DEF Effect
<1>4. CASE FlushFinish(c)
  <2>1. CASE it[c].tab = EmptyMem
    BY <1>4, <2>1, DieEffect DEF FlushFinish, At
  <2>2. CASE it[c].tab # EmptyMem
    <3>1. LogKept /\ proc = "up" /\ proc' = proc
      BY <1>0, <1>4, <2>2 DEF FlushFinish, At, Goto, LogKept
    <3> QED BY <1>4, <2>2, <3>1, FlushFinishStored DEF Effect
  <2> QED BY <2>1, <2>2
<1> QED BY <1>1, <1>2, <1>3, <1>4

\* A step that leaves the contents as they are.
LEMMA StaysStored ==
  ASSUME Before, After, pc' = pc, op' = op, mem' = mem, ssts' = ssts, it' = it, closed' = closed
  PROVE  StoreInv' /\ Same
<1>1. \A k \in Keys : InMemory(k)' = InMemory(k) /\ OnDisk(k)' = OnDisk(k)
  BY SameOnDisk, SameInMemory DEF Before, After
<1>2. Same
  BY <1>1 DEF Same, Stored
<1>3. StoreInv'
  BY <1>1 DEF Before, StoreInv, MemOnDisk, CopiesMem
<1> QED BY <1>2, <1>3

LEMMA StepEffect ==
  ASSUME CloseAlone, ScanOnOpen, KeysNotEmpty
  PROVE  Before /\ After /\ [Next]_vars => StoreInv' /\ Effect
<1> SUFFICES ASSUME Before, After, [Next]_vars PROVE StoreInv' /\ Effect
  OBVIOUS
<1>1. ASSUME NEW c \in Clients, Begin(c) PROVE StoreInv' /\ Effect
  BY <1>1, BeginEffect
<1>2. ASSUME NEW c \in Clients, Step(c) PROVE StoreInv' /\ Effect
  BY <1>2, OtherEffect, AddLogEffect, MemEffect DEF Step
<1>3. CASE Crash
  BY <1>3, DieEffect DEF Crash
<1>4. CASE Open
  <2>1. LogKept /\ proc # "up" /\ proc' = "up"
    BY <1>4 DEF Open, disk, LogKept
  <2>2. StoreInv' /\ Same
    BY <1>4, StaysStored DEF Open, disk
  <2> QED BY <2>1, <2>2 DEF Effect
<1>5. CASE UNCHANGED vars
  <2>1. LogKept /\ proc' = proc
    BY <1>5 DEF vars, memory, disk, LogKept
  <2>2. StoreInv' /\ Same
    BY <1>5, StaysStored DEF vars, memory, disk
  <2> QED BY <2>1, <2>2 DEF Effect
<1> QED BY <1>1, <1>2, <1>3, <1>4, <1>5 DEF Next

LEMMA InitStored == Init => StoreInv
BY DEF Init, StoreInv, Nowhere

StoreStep == Before /\ Logged /\ Before' /\ FilesGrow /\ Effect

\* The invariants of all proofs, and what every step does.
LEMMA StepStored ==
  ASSUME CloseAlone, ScanOnOpen, KeysNotEmpty
  PROVE  Before /\ Logged /\ CacheHitStable /\ [Next]_vars
           => StoreStep /\ Logged' /\ CacheHitStable'
BY StepTyped, StepLocked, StepFiled, StepLogged, StepEffect DEF Before, After, StoreStep

LEMMA AllStored ==
  ASSUME CloseAlone, ScanOnOpen, KeysNotEmpty
  PROVE  Spec => [](Before /\ Logged /\ CacheHitStable)
<1>1. Init => Before /\ Logged /\ CacheHitStable
  BY InitTyped, InitLocked, InitFiled, InitLogged, InitStored DEF Before
<1>2. Before /\ Logged /\ CacheHitStable /\ [Next]_vars
        => (Before /\ Logged /\ CacheHitStable)'
  BY StepStored DEF StoreStep
<1> QED BY <1>1, <1>2, PTL DEF Spec

\* Close ends with everything it stores on disk (db_impl.cpp:202-208), whatever
\* was written, overwritten, deleted and flushed before it.
THEOREM ClosedOnDisk ==
  ASSUME CloseAlone, ScanOnOpen, KeysNotEmpty
  PROVE  Spec => []CloseDurable
<1>1. Before => CloseDurable
  <2> SUFFICES ASSUME Before, closed, NEW k \in Keys PROVE Stored(k) = OnDisk(k)
    BY DEF CloseDurable
  <2>1. \A c \in Clients : pc[c] # "reinsert"
    BY ClosedPlaces
  <2>2. InMemory(k) = mem[k]
    BY <2>1, InMemoryIs DEF Before, Replacing
  <2> QED BY <2>2 DEF Before, StoreInv, MemOnDisk, Stored
<1> QED BY <1>1, AllStored, PTL

-----------------------------------------------------------------------------
(* The log and the contents. *)

\* The last record of a key is the last one of the log, if that is the key's.
LEMMA LastRecord ==
  ASSUME TypeOK, NEW k
  PROVE  /\ LogRecords(k) # {} => Max(LogRecords(k)) \in LogRecords(k)
         /\ Len(wal) \in LogRecords(k) => Max(LogRecords(k)) = Len(wal)
<1>1. Len(wal) \in Nat /\ base \in Nat
  BY DEF TypeOK
<1>2. LogRecords(k) \subseteq 1..Len(wal)
  BY <1>1 DEF LogRecords
<1>3. LogRecords(k) # {} => /\ Max(LogRecords(k)) \in LogRecords(k)
                           /\ \A y \in LogRecords(k) : Max(LogRecords(k)) >= y
  BY <1>1, <1>2, HasMax
<1>4. ASSUME Len(wal) \in LogRecords(k) PROVE Max(LogRecords(k)) = Len(wal)
  <2>1. Max(LogRecords(k)) \in 1..Len(wal) /\ Max(LogRecords(k)) >= Len(wal)
    BY <1>2, <1>3, <1>4
  <2> QED BY <1>1, <2>1
<1> QED BY <1>3, <1>4

\* What the log says of k.
Said(k) == IF LogRecords(k) = {} THEN AsValue(OnDisk(k)) ELSE wal[Max(LogRecords(k))].op.val

Pending(k) == \E c \in Clients : pc[c] = "mem" /\ op[c].key = k

Matched(k) == ~Pending(k) => AsValue(Stored(k)) = Said(k)

LEMMA KeptMatched ==
  ASSUME LogKept, Same \/ Persisted, NEW k \in Keys, Matched(k)
  PROVE  Matched(k)'
<1>1. LogRecords(k)' = LogRecords(k) /\ wal' = wal
  BY DEF LogKept, LogRecords
<1>2. Pending(k) => Pending(k)'
  BY DEF LogKept, Pending
<1>3. Stored(k)' = Stored(k) /\ (OnDisk(k)' = OnDisk(k) \/ OnDisk(k)' = Stored(k))
  BY DEF Same, Persisted
<1> QED BY <1>1, <1>2, <1>3 DEF Matched, Said, AsValue

\* A new record is ahead of the store, for its key only.
LEMMA AddLogMatched ==
  ASSUME Before, Same, NEW c \in Clients, AddLog(c), NEW k \in Keys, Matched(k)
  PROVE  Matched(k)'
<1> DEFINE r == [op |-> op[c], bytes |-> LogString(op[c])]
<1>0. /\ pc \in [Clients -> Places] /\ wal \in Seq(Records) /\ Len(wal) \in Nat /\ base \in Nat
      /\ pc[c] = "wal" /\ pc' = [pc EXCEPT ![c] = "mem"] /\ op' = op
      /\ wal' = Append(wal, r) /\ base' = base
  BY DEF Before, Typed, TypeOK, AddLog, At, Goto
<1>1. r \in Records /\ r.op = op[c]
  BY <1>0 DEF Before, Typed, CallsFit, Records
<1>2. CASE op[c].key = k
  <2>1. Pending(k)'
    BY <1>0, <1>2 DEF Pending
  <2> QED BY <2>1 DEF Matched
<1>3. CASE op[c].key # k
  <2> HIDE DEF r
  <2>1. /\ Len(wal') = Len(wal) + 1 /\ wal'[Len(wal) + 1] = r
        /\ \A i \in 1..Len(wal) : wal'[i] = wal[i]
    BY <1>0, <1>1
  <2>2. LogRecords(k)' = LogRecords(k)
    <3>1. \A i : i \in base + 1 .. Len(wal) + 1 <=>
                  i \in base + 1 .. Len(wal) \/ (i = Len(wal) + 1 /\ i \in base + 1 .. Len(wal) + 1)
      BY <1>0
    <3>2. \A i \in base + 1 .. Len(wal) : wal'[i] = wal[i]
      BY <1>0, <2>1
    <3> QED BY <1>0, <1>1, <1>3, <2>1, <3>1, <3>2 DEF LogRecords
  <2>3. LogRecords(k) # {} => wal'[Max(LogRecords(k))] = wal[Max(LogRecords(k))]
    <3>1. LogRecords(k) # {} => Max(LogRecords(k)) \in LogRecords(k)
      BY LastRecord DEF Before, Typed
    <3> QED BY <1>0, <2>1, <3>1 DEF LogRecords
  <2>4. Pending(k) => Pending(k)'
    BY <1>0 DEF Pending
  <2> QED BY <2>2, <2>3, <2>4 DEF Same, Matched, Said, AsValue
<1> QED BY <1>2, <1>3

\* A write brings the store to its own record, the last one.
LEMMA WriteMatched ==
  ASSUME Before, Logged, NEW c \in Clients, WriteMem(c), Wrote(c), NEW k \in Keys, Matched(k)
  PROVE  Matched(k)'
<1>0. /\ pc \in [Clients -> Places] /\ Len(wal) \in Nat /\ base \in Nat /\ TypeOK
      /\ pc[c] = "mem" /\ op' = op /\ wal' = wal /\ base' = base
      /\ \A d \in Clients : d # c => pc'[d] = pc[d]
  BY DEF Before, Typed, TypeOK, WriteMem, At, Goto, disk
<1>1. op[c] \in Ops /\ op[c].val # Absent
  BY <1>0, OpFields DEF Before, Typed, CallsFit
<1>2. \A x : LogRecords(x)' = LogRecords(x)
  BY <1>0 DEF LogRecords
<1>3. CASE k = op[c].key
  <2>1. base < Len(wal) /\ wal[Len(wal)].op = op[c]
    BY <1>0 DEF Logged, LogTail, Writing
  <2>2. Len(wal) \in LogRecords(k)
    BY <1>0, <1>3, <2>1 DEF LogRecords
  <2>3. LogRecords(k) # {} /\ Max(LogRecords(k)) = Len(wal)
    BY <1>0, <2>2, LastRecord
  <2>4. Stored(k)' = op[c].val
    BY <1>3 DEF Wrote
  <2> QED BY <1>0, <1>1, <1>2, <2>1, <2>3, <2>4 DEF Matched, Said, AsValue
<1>4. CASE k # op[c].key
  <2>1. Pending(k) => Pending(k)'
    BY <1>0, <1>4 DEF Pending
  <2>2. Stored(k)' = Stored(k) /\ OnDisk(k)' = OnDisk(k)
    BY <1>4 DEF Wrote
  <2> QED BY <1>0, <1>2, <2>1, <2>2 DEF Matched, Said, AsValue
<1> QED BY <1>3, <1>4

\* The next process has no records yet: it starts with what is on disk.
LEMMA LostMatched ==
  ASSUME TypeOK, Lost, wal' = wal, base' = Len(wal), NEW k \in Keys
  PROVE  Matched(k)'
<1>1. Len(wal) \in Nat
  BY DEF TypeOK
<1>2. LogRecords(k)' = {}
  BY <1>1 DEF LogRecords
<1> QED BY <1>2 DEF Lost, Matched, Said, AsValue

\* For every key whose write is not between log and memtable, the store says
\* what the key's last log record says.
THEOREM LogRunsWithStore ==
  ASSUME CloseAlone, ScanOnOpen, KeysNotEmpty
  PROVE  Spec => []LogMatchesStore
<1> DEFINE AllMatched == \A k \in Keys : Matched(k)
<1>1. AllMatched => LogMatchesStore
  BY DEF Matched, Pending, Said, LogMatchesStore
<1>2. Init => AllMatched
  <2> SUFFICES ASSUME Init, NEW k \in Keys PROVE Matched(k)
    OBVIOUS
  <2>1. TypeOK /\ Locked /\ FilesDistinct
    BY InitTyped, InitLocked, InitFiled DEF Typed, Filed
  <2>2. OnDisk(k) = Absent
    BY <2>1, OnDiskIs DEF Init, Holding
  <2>3. InMemory(k) = Absent
    BY <2>1, InMemoryIs DEF Init, Replacing, Nowhere, EmptyMem
  <2>4. LogRecords(k) = {}
    BY DEF Init, LogRecords
  <2> QED BY <2>2, <2>3, <2>4 DEF Matched, Said, Stored
<1>3. StoreStep /\ AllMatched => AllMatched'
  <2> SUFFICES ASSUME StoreStep, NEW k \in Keys, Matched(k) PROVE Matched(k)'
    OBVIOUS
  <2>1. Before /\ Logged /\ TypeOK /\ Effect
    BY DEF StoreStep, Before, Typed
  <2> QED BY <2>1, KeptMatched, AddLogMatched, WriteMatched, LostMatched DEF Effect
<1>4. Before /\ Logged /\ CacheHitStable /\ AllMatched /\ [Next]_vars => AllMatched'
  BY <1>3, StepStored
<1> HIDE DEF AllMatched
<1> QED BY <1>1, <1>2, <1>4, AllStored, PTL DEF Spec

-----------------------------------------------------------------------------
(* The refinement of KVStore. *)

store == [k \in Keys |-> AsValue(Stored(k))]
persisted == [k \in Keys |-> AsValue(OnDisk(k))]

\* Every step is a write, a persist, the loss of a process, the opening of the
\* next one, or nothing.
LEMMA StepMaps == StoreStep => [KV!Next]_(KV!kvars)
<1> SUFFICES ASSUME StoreStep PROVE [KV!Next]_(KV!kvars)
  OBVIOUS
<1>1. ASSUME Same PROVE store' = store /\ persisted' = persisted
  BY <1>1 DEF Same, store, persisted, AsValue
<1>2. CASE Same /\ proc' = proc
  BY <1>1, <1>2 DEF KV!kvars, store, persisted
<1>3. CASE Same /\ proc # "up" /\ proc' = "up"
  BY <1>1, <1>3 DEF KV!Next, KV!Reopen, store, persisted
<1>4. ASSUME NEW c \in Clients, WriteMem(c), Wrote(c) PROVE KV!Next
  <2>1. /\ proc = "up" /\ proc' = proc /\ op[c] \in Ops
    BY <1>4 DEF WriteMem, At, StoreStep, Before, Typed, CallsFit
  <2>2. op[c].key \in Keys /\ op[c].val \in Values \cup {Empty} /\ op[c].val # Absent
    BY <2>1, OpFields DEF Vals
  <2>3. store' = [store EXCEPT ![op[c].key] = op[c].val] /\ persisted' = persisted
    BY <1>4, <2>2 DEF Wrote, store, persisted, AsValue
  <2>4. KV!Write(op[c].key, op[c].val)
    BY <2>1, <2>3 DEF KV!Write, store, persisted
  <2> QED BY <2>2, <2>4 DEF KV!Next
<1>5. CASE Persisted /\ proc = "up" /\ proc' = proc
  <2>1. store' = store /\ persisted' = store
    BY <1>5 DEF Persisted, store, persisted, AsValue
  <2> QED BY <1>5, <2>1 DEF KV!Next, KV!Persist, store, persisted
<1>6. CASE Lost /\ proc = "up" /\ proc' # "up"
  <2>1. store' = persisted /\ persisted' = persisted
    BY <1>6 DEF Lost, store, persisted, AsValue
  <2> QED BY <1>6, <2>1 DEF KV!Next, KV!Lose, store, persisted
<1> QED BY <1>2, <1>3, <1>4, <1>5, <1>6 DEF StoreStep, Effect

LEMMA InitMaps == Init => KV!Init
<1> SUFFICES ASSUME Init PROVE KV!Init
  OBVIOUS
<1>1. TypeOK /\ Locked /\ FilesDistinct
  BY InitTyped, InitLocked, InitFiled DEF Typed, Filed
<1>2. \A k \in Keys : OnDisk(k) = Absent
  BY <1>1, OnDiskIs DEF Init, Holding
<1>3. \A k \in Keys : InMemory(k) = Absent
  BY <1>1, InMemoryIs DEF Init, Replacing, Nowhere, EmptyMem
<1> QED BY <1>2, <1>3 DEF Init, KV!Init, Stored, AsValue

\* DBImpl is a map: a Put or Delete changes its key and nothing else, a flush
\* brings all of it to disk, death leaves what was there, and no other step of
\* any thread is seen.
THEOREM DBIsAMap ==
  ASSUME CloseAlone, ScanOnOpen, KeysNotEmpty
  PROVE  Spec => ImplementsKVStore
<1>1. Before /\ Logged /\ CacheHitStable /\ [Next]_vars => [KV!Next]_(KV!kvars)
  BY StepStored, StepMaps
<1> QED BY <1>1, InitMaps, AllStored, PTL DEF Spec, ImplementsKVStore, KV!Spec
=============================================================================

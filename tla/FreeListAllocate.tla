-------------------------- MODULE FreeListAllocate --------------------------
(***************************************************************************)
(* FreeListAllocate (src/memory): one free list per block size, the pool   *)
(* they are filled from, and chunks from malloc when the pool is short.    *)
(* Memory is counted in words of ALIGN_BYTES; a block's first word is the  *)
(* link of its list while the block is free, and its owner's otherwise.    *)
(***************************************************************************)
EXTENDS Integers, FiniteSets

CONSTANTS
  Sizes,               \* sizes in bytes that callers ask for
  ALIGN_BYTES, MAX_OBJ_SIZE,
  CHUNK_SIZE,          \* in words
  FILL_BLOCK_CNT,
  MaxChunks,           \* chunks that malloc has memory for
  Nil,                 \* nullptr
  Data,                \* what an owner may have written where the link was
  MaxLive              \* bound: blocks that callers have at once

ASSUME SizesAssumption == Sizes \subseteq Nat /\ ALIGN_BYTES \in Nat \ {0} /\ MAX_OBJ_SIZE \in Nat
ASSUME PoolAssumption == /\ CHUNK_SIZE \in Nat /\ FILL_BLOCK_CNT \in Nat \ {0} /\ MaxChunks \in Nat \ {0}
                         /\ MAX_OBJ_SIZE <= CHUNK_SIZE * ALIGN_BYTES
ASSUME SentinelAssumption == Nil \notin Int /\ Data \notin Int /\ Nil # Data

\* get_index: the slot whose blocks hold n bytes; slot s has blocks of s + 1 words.
get_index(n) == ((n + ALIGN_BYTES - 1) \div ALIGN_BYTES) - 1
Slots == 0..get_index(MAX_OBJ_SIZE)

\* Chunk c has the words from c * (CHUNK_SIZE + 1) on: chunks do not touch.
ChunkStart(c) == c * (CHUNK_SIZE + 1)
Words == UNION {ChunkStart(c) .. ChunkStart(c) + CHUNK_SIZE - 1 : c \in 0..MaxChunks - 1}

VARIABLES
  memory_slot,     \* the first block of each list
  next,            \* the link in each word
  mem_pool_start, mem_pool_size,
  chunks,          \* chunks got from malloc
  live,            \* (history) blocks the callers have: their address and size
  large,           \* (history) blocks the callers have from malloc itself
  hung,            \* (history) a rest of the pool was put on a list that had blocks
  dead             \* the process has died

vars == <<memory_slot, next, mem_pool_start, mem_pool_size, chunks, live, large, hung, dead>>
pool == <<next, mem_pool_start, mem_pool_size, chunks>>

Init == /\ memory_slot = [s \in Slots |-> Nil]
        /\ next = [w \in Words |-> Data]
        /\ mem_pool_start = ChunkStart(0) /\ mem_pool_size = CHUNK_SIZE
        /\ chunks = 1
        /\ live = {} /\ large = 0 /\ hung = FALSE /\ dead = FALSE

-----------------------------------------------------------------------------
(* The steps of an operation, on the heap h they are given. *)

Heap == [slot |-> memory_slot, next |-> next, start |-> mem_pool_start,
         size |-> mem_pool_size, chunks |-> chunks, hung |-> hung, dead |-> dead]

Become(h) == /\ memory_slot' = h.slot /\ next' = h.next
             /\ mem_pool_start' = h.start /\ mem_pool_size' = h.size
             /\ chunks' = h.chunks /\ hung' = h.hung /\ dead' = h.dead

\* A node in front of slot s.
Push(h, s, w) == [h EXCEPT !.next[w] = h.slot[s], !.slot[s] = w]

\* The loops of fill_slot: cnt blocks from the pool's start, the last in front.
Linked(h, s, cnt) ==
  LET at(i) == h.start + i * (s + 1)
      blocks == {at(i) : i \in 0..cnt - 1}
  IN  [h EXCEPT !.slot[s] = at(cnt - 1),
                !.next = [w \in Words |-> IF w = at(0) THEN h.slot[s]
                                          ELSE IF w \in blocks THEN w - (s + 1) ELSE h.next[w]]]

\* The blocks leave the pool.  (Mutant: its start stays.)
CutInPlace(h, s, cnt) == [Linked(h, s, cnt) EXCEPT !.size = @ - cnt * (s + 1)]
Cut(h, s, cnt) == [Linked(h, s, cnt) EXCEPT !.start = @ + cnt * (s + 1),
                                            !.size = @ - cnt * (s + 1)]

\* What is left of the pool goes to the list of its size: behind that list's
\* first block, but with its own link to that block, so that the two make a
\* ring; an empty list is dereferenced.
HangRest(h) ==
  LET first == h.slot[get_index(h.size * ALIGN_BYTES)]
  IN  IF h.size = 0 THEN h
      ELSE IF first \notin Words THEN [h EXCEPT !.dead = TRUE]
      ELSE [h EXCEPT !.next = [@ EXCEPT ![h.start] = first, ![first] = h.start],
                     !.start = Nil, !.size = 0, !.hung = TRUE]

\* fill_mem_pool.  When malloc fails it returns, and fill_slot calls it and
\* itself again, for ever or until the stack is full.
NewChunk(h) == IF h.dead \/ h.chunks = MaxChunks THEN [h EXCEPT !.dead = TRUE]
               ELSE [h EXCEPT !.start = ChunkStart(h.chunks), !.size = CHUNK_SIZE, !.chunks = @ + 1]

\* (Mutant of FillSlot: the whole filling although the pool has less.)
FillAlways(h, s) ==
  LET p == IF h.size > s THEN h ELSE NewChunk(HangRest(h))
  IN  IF p.dead THEN p ELSE Cut(p, s, FILL_BLOCK_CNT)

FillSlot(h, s) ==
  LET p == IF h.size > s THEN h ELSE NewChunk(HangRest(h))
  IN  IF p.dead THEN p
      ELSE IF p.size >= FILL_BLOCK_CNT * (s + 1) THEN Cut(p, s, FILL_BLOCK_CNT)
      ELSE Cut(p, s, p.size \div (s + 1))

\* The slot of n has a first block.
Filled(h, n) == IF h.slot[get_index(n)] = Nil THEN FillSlot(h, get_index(n)) ELSE h

\* Allocate takes it; a link that its owner has written over leads nowhere.
Pop(h, s) == IF h.dead \/ h.slot[s] \notin Words THEN [h EXCEPT !.dead = TRUE]
             ELSE [h EXCEPT !.slot[s] = h.next[h.slot[s]], !.next[h.slot[s]] = Data]

Block(w, n) == [at |-> w, size |-> n]
Covers(b) == b.at .. b.at + get_index(b.size)

\* Allocate(n) on h, after which the callers have what they had, kept, and a
\* block of n bytes.
Take(h, n, kept) ==
  LET f == Filled(h, n)
  IN  /\ Become(Pop(f, get_index(n)))
      /\ live' = IF Pop(f, get_index(n)).dead THEN kept
                 ELSE kept \cup {Block(f.slot[get_index(n)], n)}

-----------------------------------------------------------------------------
(* The operations.  A size of 0 gets and gives back nothing. *)

Small == {n \in Sizes : n > 0 /\ n <= MAX_OBJ_SIZE}
Large == {n \in Sizes : n > MAX_OBJ_SIZE}
Room == Cardinality(live) + large < MaxLive                        \* bound: MaxLive

Allocate(n) ==
  /\ ~dead /\ Room
  /\ \/ n \in Small /\ Take(Heap, n, live) /\ UNCHANGED large
     \/ n \in Large /\ large' = large + 1
                    /\ UNCHANGED <<memory_slot, pool, live, hung, dead>>

\* (Mutant of Deallocate: the list of the next smaller blocks.)
DeallocateBelow(b) ==
  /\ ~dead /\ b \in live
  /\ Become(Push(Heap, IF b.size > ALIGN_BYTES THEN get_index(b.size) - 1 ELSE 0, b.at))
  /\ live' = live \ {b}
  /\ UNCHANGED large

Deallocate(b) ==
  /\ ~dead /\ b \in live
  /\ Become(Push(Heap, get_index(b.size), b.at))
  /\ live' = live \ {b}
  /\ UNCHANGED large

DeallocateLarge ==
  /\ ~dead /\ large > 0
  /\ large' = large - 1
  /\ UNCHANGED <<memory_slot, pool, live, hung, dead>>

\* Reallocate gives the block back and then asks for one of the new size; what
\* was in the old one is not copied.
Reallocate(b, n) ==
  LET h == Push(Heap, get_index(b.size), b.at)
  IN  /\ ~dead /\ b \in live
      /\ \/ n = 0 /\ Become(h) /\ live' = live \ {b} /\ UNCHANGED large
         \/ n \in Small /\ Take(h, n, live \ {b}) /\ UNCHANGED large
         \/ n \in Large /\ Become(h) /\ live' = live \ {b} /\ large' = large + 1

ReallocateLarge(n) ==
  /\ ~dead /\ large > 0
  /\ \/ n \in Small /\ Take(Heap, n, live) /\ large' = large - 1
     \/ n = 0 /\ large' = large - 1 /\ UNCHANGED <<memory_slot, pool, live, hung, dead>>

Next == \/ \E n \in Sizes : Allocate(n) \/ ReallocateLarge(n)
        \/ \E b \in live : Deallocate(b) \/ \E n \in Sizes : Reallocate(b, n)
        \/ DeallocateLarge

Spec == Init /\ [][Next]_vars

-----------------------------------------------------------------------------
(* Properties. *)

\* Every variable holds a value of its type.
TypeOK == /\ memory_slot \in [Slots -> Words \cup {Nil, Data}]
          /\ next \in [Words -> Words \cup {Nil, Data}]
          /\ mem_pool_start \in Int \cup {Nil}
          /\ mem_pool_size \in 0..CHUNK_SIZE
          /\ chunks \in 1..MaxChunks
          /\ live \subseteq [at : Words, size : Small]
          /\ large \in Nat
          /\ hung \in BOOLEAN /\ dead \in BOOLEAN

\* The blocks on the list of slot s.
OnList(s) ==
  LET upTo[i \in 0..Cardinality(Words)] ==
        IF i = 0 THEN {memory_slot[s]} \cap Words
        ELSE LET b == upTo[i - 1] IN b \cup ({next[w] : w \in b} \cap Words)
  IN  upTo[Cardinality(Words)]

\* Everything that has words of its own: live blocks, free blocks, the pool.
Piece(of, n, words) == [of |-> of, n |-> n, words |-> words]
Pieces == {Piece("live", b.size, Covers(b)) : b \in live}
          \cup (UNION {{Piece("free", s, w .. w + s) : w \in OnList(s)} : s \in Slots})
          \cup {Piece("pool", 0, w .. w + mem_pool_size - 1) : w \in {mem_pool_start} \cap Words}

\* No word is in two blocks that callers have, nor in one and on a list or in
\* the pool: through every order of fillings, ends of the pool, new chunks and
\* blocks that come back, as long as no rest was hung on a list with blocks.
Apart == ~hung => \A p, q \in Pieces : p = q \/ p.words \cap q.words = {}

\* No word of a chunk is lost: it is in a block that a caller has, on a list, or
\* in the pool, as long as no rest was hung on a list with blocks.
NothingLost ==
  ~hung =>
    UNION {p.words : p \in Pieces}
      = UNION {ChunkStart(c) .. ChunkStart(c) + CHUNK_SIZE - 1 : c \in 0..chunks - 1}

\* A caller has as many words as it asked for, rounded up, all in one chunk.
FitsItsChunk == \A b \in live : Covers(b) \subseteq Words
=============================================================================

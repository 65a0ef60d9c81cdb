--------------------------- MODULE AllocateProofs ---------------------------
(***************************************************************************)
(* The memory of FreeListAllocate: every word of the chunks is in one      *)
(* block or in the pool, and until a rest is hung on a list with blocks,   *)
(* every block is either with a caller or on the list of its size.         *)
(***************************************************************************)
EXTENDS FreeListAllocate, DataProofs

-----------------------------------------------------------------------------
(* Sizes, slots and strides. *)

LEMMA Quotient ==
  ASSUME NEW a \in Nat, NEW b \in Nat \ {0}
  PROVE  a \div b \in Nat /\ b * (a \div b) <= a /\ a < b * (a \div b) + b
OBVIOUS

LEMMA QuotientIsLess ==
  ASSUME NEW b \in Nat \ {0}, NEW q \in Int, NEW r \in Int, b * q < b * r + b
  PROVE  q <= r
OBVIOUS

LEMMA SlotsBelow ==
  ASSUME NEW s \in Slots, NEW k \in Nat, k <= s
  PROVE  k \in Slots
<1> DEFINE A == ALIGN_BYTES
           a == MAX_OBJ_SIZE + A - 1
<1>1. A \in Nat \ {0} /\ MAX_OBJ_SIZE \in Nat
  BY SizesAssumption
<1>2. a \in Nat
  BY <1>1
<1>3. a \div A \in Nat
  BY <1>1, <1>2, Quotient
<1>4. Slots = 0..((a \div A) - 1)
  BY DEF Slots, get_index
<1> QED BY <1>3, <1>4

\* The blocks of a slot are no longer than a chunk.
LEMMA SlotsFit == \A s \in Slots : s \in Nat /\ s + 1 <= CHUNK_SIZE
<1> DEFINE A == ALIGN_BYTES
           a == MAX_OBJ_SIZE + A - 1
           q == a \div A
<1>1. A \in Nat \ {0} /\ MAX_OBJ_SIZE \in Nat /\ CHUNK_SIZE \in Nat /\ MAX_OBJ_SIZE <= CHUNK_SIZE * A
  BY SizesAssumption, PoolAssumption
<1>2. a \in Nat
  BY <1>1
<1>3. q \in Nat /\ A * q <= a
  BY <1>1, <1>2, Quotient
<1>4. A * q < A * CHUNK_SIZE + A
  BY <1>1, <1>3
<1> HIDE DEF q
<1>5. q <= CHUNK_SIZE
  BY <1>1, <1>3, <1>4, QuotientIsLess
<1>6. Slots = 0..(q - 1)
  BY DEF Slots, get_index, q
<1> QED BY <1>3, <1>5, <1>6, <1>1

\* The slot of a size a caller asks for.
LEMMA SlotOfSize == \A n \in Small : get_index(n) \in Slots
<1> SUFFICES ASSUME NEW n \in Small PROVE get_index(n) \in Slots
  OBVIOUS
<1> DEFINE A == ALIGN_BYTES
           a == n + A - 1
           m == MAX_OBJ_SIZE + A - 1
<1>1. A \in Nat \ {0} /\ n \in Nat /\ n > 0 /\ n <= MAX_OBJ_SIZE /\ MAX_OBJ_SIZE \in Nat
  BY SizesAssumption DEF Small
<1>2. a \in Nat /\ m \in Nat /\ a <= m /\ a >= A
  BY <1>1
<1>3. a \div A \in Nat /\ m \div A \in Nat
  BY <1>1, <1>2, Quotient
<1>4. A * (a \div A) <= a /\ a < A * (a \div A) + A /\ m < A * (m \div A) + A
  BY <1>1, <1>2, Quotient
<1>5. a \div A <= m \div A
  <2>1. A * (a \div A) < A * (m \div A) + A
    BY <1>1, <1>2, <1>3, <1>4
  <2> QED BY <1>1, <1>3, <2>1, QuotientIsLess
<1>6. 1 <= a \div A
  <2>1. A * 1 < A * (a \div A) + A
    BY <1>1, <1>2, <1>3, <1>4
  <2> QED BY <1>1, <1>3, <2>1, QuotientIsLess
<1>7. get_index(n) = (a \div A) - 1 /\ Slots = 0..((m \div A) - 1)
  BY DEF get_index, Slots
<1> QED BY <1>3, <1>5, <1>6, <1>7

\* The slot of a rest of k words has blocks of k words.
LEMMA SlotOfRest ==
  ASSUME NEW k \in Nat \ {0}
  PROVE  get_index(k * ALIGN_BYTES) = k - 1
<1> DEFINE A == ALIGN_BYTES
           a == k * A + A - 1
<1>1. A \in Nat \ {0}
  BY SizesAssumption
<1>2. a \in Nat
  BY <1>1
<1>3. a \div A \in Nat /\ A * (a \div A) <= a /\ a < A * (a \div A) + A
  BY <1>1, <1>2, Quotient
<1>4. A * (a \div A) < A * k + A /\ A * k < A * (a \div A) + A
  BY <1>1, <1>3
<1>5. a \div A <= k /\ k <= a \div A
  BY <1>1, <1>3, <1>4, QuotientIsLess
<1> QED BY <1>3, <1>5 DEF get_index

\* Pieces of k words, one after the other from a on.
LEMMA Stride ==
  ASSUME NEW a \in Int, NEW k \in Nat \ {0}
  PROVE  /\ \A i, j \in Nat : i < j => a + i * k + k <= a + j * k
         /\ \A n \in Nat : \A w \in a .. a + n * k - 1 :
              \E i \in 0..n - 1 : w \in a + i * k .. a + i * k + k - 1
<1>1. \A i, j \in Nat : i < j => a + i * k + k <= a + j * k
  OBVIOUS
<1> DEFINE Covered(n) == \A w \in a .. a + n * k - 1 :
                           \E i \in 0..n - 1 : w \in a + i * k .. a + i * k + k - 1
           T == {n \in Nat : Covered(n)}
<1>2. 0 \in T
  OBVIOUS
<1>3. ASSUME NEW n \in Nat, n \in T PROVE n + 1 \in T
  <2> SUFFICES ASSUME NEW w \in a .. a + (n + 1) * k - 1
               PROVE  \E i \in 0..n : w \in a + i * k .. a + i * k + k - 1
    OBVIOUS
  <2>1. n * k \in Nat /\ (n + 1) * k = n * k + k /\ w \in Int /\ a <= w
    OBVIOUS
  <2>2. CASE w < a + n * k
    <3>1. w \in a .. a + n * k - 1
      BY <2>1, <2>2
    <3>2. PICK i \in 0..n - 1 : w \in a + i * k .. a + i * k + k - 1
      BY <1>3, <3>1
    <3> QED BY <3>2
  <2>3. CASE ~(w < a + n * k)
    <3>1. w \in a + n * k .. a + n * k + k - 1
      BY <2>1, <2>3
    <3> QED BY <3>1
  <2> QED BY <2>2, <2>3
<1> HIDE DEF T
<1>4. \A n \in Nat : n \in T
  BY <1>2, <1>3, Induction
<1> QED BY <1>1, <1>4 DEF T

\* The places of cnt blocks of k words.
LEMMA Places ==
  ASSUME NEW a \in Int, NEW k \in Nat \ {0}, NEW cnt \in Nat \ {0}
  PROVE  \E at, e :
           /\ e = a + cnt * k /\ \A i \in 0..cnt - 1 : at[i] = a + i * k
           /\ e \in Int /\ a < e /\ at[0] = a
           /\ \A i \in 0..cnt - 1 : at[i] \in Int /\ a <= at[i] /\ at[i] + k <= e
           /\ \A i, j \in 0..cnt - 1 : i < j => at[i] + k <= at[j]
           /\ \A i \in 1..cnt - 1 : at[i] = at[i - 1] + k
           /\ \A w \in a .. e - 1 : \E i \in 0..cnt - 1 : at[i] <= w /\ w < at[i] + k
<1>0. PICK at, e : at = [i \in 0..cnt - 1 |-> a + i * k] /\ e = a + cnt * k
  OBVIOUS
<1>1. cnt * k \in Nat \ {0} /\ \A i \in 0..cnt - 1 : i * k \in Nat
  OBVIOUS
<1>2. e \in Int /\ a < e /\ at[0] = a
  BY <1>0, <1>1
<1>3. \A i, j \in Nat : i < j => a + i * k + k <= a + j * k
  BY Stride
<1>4. \A i \in 0..cnt - 1 : at[i] = a + i * k
  BY <1>0
<1>5. \A i \in 0..cnt - 1 : at[i] \in Int /\ a <= at[i]
  BY <1>1, <1>4
<1>6. \A i \in 0..cnt - 1 : at[i] + k <= e
  BY <1>0, <1>3, <1>4
<1>7. \A i, j \in 0..cnt - 1 : i < j => at[i] + k <= at[j]
  BY <1>3, <1>4
<1>8. \A i \in 1..cnt - 1 : at[i] = at[i - 1] + k
  <2> SUFFICES ASSUME NEW i \in 1..cnt - 1 PROVE at[i] = at[i - 1] + k
    OBVIOUS
  <2>1. i - 1 \in 0..cnt - 1 /\ i \in 0..cnt - 1
    OBVIOUS
  <2>2. i * k = (i - 1) * k + k
    OBVIOUS
  <2>3. at[i] = a + i * k /\ at[i - 1] = a + (i - 1) * k /\ (i - 1) * k \in Int
    BY <1>4, <2>1
  <2> QED BY <2>2, <2>3
<1>9. ASSUME NEW w \in a .. e - 1 PROVE \E i \in 0..cnt - 1 : at[i] <= w /\ w < at[i] + k
  <2>1. \A v \in a .. a + cnt * k - 1 : \E i \in 0..cnt - 1 : v \in a + i * k .. a + i * k + k - 1
    BY Stride
  <2>a. w \in a .. a + cnt * k - 1
    BY <1>0
  <2>2. PICK i \in 0..cnt - 1 : w \in a + i * k .. a + i * k + k - 1
    BY <2>1, <2>a, Zenon
  <2>3. w \in at[i] .. at[i] + k - 1 /\ at[i] \in Int
    BY <1>4, <1>5, <2>2
  <2> QED BY <2>3
<1> QED BY <1>0, <1>2, <1>4, <1>5, <1>6, <1>7, <1>8, <1>9

-----------------------------------------------------------------------------
(* A free list: its first block, the links, and the set of its blocks. *)

Leads(first, link, C) == first \in C \cup {Nil} /\ \A w \in C : link[w] \in C \cup {Nil}

\* The list runs through all of A and through nothing twice.
Chain(first, link, A) ==
  /\ Nil \notin A
  /\ Leads(first, link, A)
  /\ \A w \in A : link[w] # first
  /\ \A v, w \in A : link[v] = link[w] => v = w
  /\ \A C \in SUBSET A : Leads(first, link, C) => C = A

LEMMA ChainEmpty == \A link : Chain(Nil, link, {})
BY DEF Chain, Leads

LEMMA ChainSame ==
  ASSUME NEW first, NEW link, NEW A, Chain(first, link, A), NEW link2, \A w \in A : link2[w] = link[w]
  PROVE  Chain(first, link2, A)
BY DEF Chain, Leads

\* A block in front.
LEMMA ChainPush ==
  ASSUME NEW first, NEW link, NEW A, Chain(first, link, A), NEW w, w \notin A, w # Nil,
         NEW link2, \A v \in A : link2[v] = link[v], link2[w] = first
  PROVE  Chain(w, link2, A \cup {w})
<1>1. Leads(w, link2, A \cup {w})
  BY DEF Chain, Leads
<1>2. \A v \in A \cup {w} : link2[v] # w
  BY DEF Chain, Leads
<1>3. \A u, v \in A \cup {w} : link2[u] = link2[v] => u = v
  BY DEF Chain
<1>4. ASSUME NEW C \in SUBSET (A \cup {w}), Leads(w, link2, C) PROVE C = A \cup {w}
  <2>1. w \in C /\ first \in C \cup {Nil}
    BY <1>4 DEF Leads
  <2>2. Leads(first, link, C \ {w})
    <3>1. first # w
      BY DEF Chain, Leads
    <3>2. \A v \in C \ {w} : link[v] \in (C \ {w}) \cup {Nil}
      BY <1>4 DEF Chain, Leads
    <3> QED BY <2>1, <3>1, <3>2 DEF Leads
  <2>3. C \ {w} = A
    BY <2>2 DEF Chain
  <2> QED BY <2>1, <2>3
<1> QED BY <1>1, <1>2, <1>3, <1>4 DEF Chain

\* The first block off.
LEMMA ChainPop ==
  ASSUME NEW first, NEW link, NEW A, Chain(first, link, A), first \in A,
         NEW link2, \A v \in A \ {first} : link2[v] = link[v]
  PROVE  Chain(link[first], link2, A \ {first})
<1> DEFINE B == A \ {first}
<1>1. Leads(link[first], link2, B)
  BY DEF Chain, Leads
<1>2. \A v \in B : link2[v] # link[first]
  BY DEF Chain
<1>3. \A u, v \in B : link2[u] = link2[v] => u = v
  BY DEF Chain
<1>4. ASSUME NEW C \in SUBSET B, Leads(link[first], link2, C) PROVE C = B
  <2>1. Leads(first, link, C \cup {first})
    BY <1>4 DEF Leads
  <2>2. C \cup {first} = A
    BY <2>1 DEF Chain
  <2> QED BY <2>2
<1> QED BY <1>1, <1>2, <1>3, <1>4 DEF Chain

\* A list that has no first block is empty.
LEMMA ChainOfNil ==
  ASSUME NEW link, NEW A, Chain(Nil, link, A) PROVE A = {}
<1>1. Leads(Nil, link, {})
  BY DEF Leads
<1> QED BY <1>1 DEF Chain

\* Blocks cut one after the other, each linked to the one before.
LEMMA ChainOfCut ==
  ASSUME NEW link, NEW at, NEW n \in Nat \ {0}, \A i \in 0..n - 1 : at[i] # Nil,
         \A i, j \in 0..n - 1 : i # j => at[i] # at[j],
         link[at[0]] = Nil, \A i \in 1..n - 1 : link[at[i]] = at[i - 1],
         NEW A, \A w : w \in A <=> \E i \in 0..n - 1 : w = at[i]
  PROVE  Chain(at[n - 1], link, A)
<1> DEFINE Upto(m) == {at[i] : i \in 0..m}
           Good(m) == m <= n - 1 => Chain(at[m], link, Upto(m))
           T == {m \in Nat : Good(m)}
<1>1. 0 \in T
  <2>1. Upto(0) = {} \cup {at[0]}
    OBVIOUS
  <2>2. Chain(at[0], link, {} \cup {at[0]})
    BY ChainEmpty, ChainPush
  <2> QED BY <2>1, <2>2
<1>2. ASSUME NEW m \in Nat, m \in T PROVE m + 1 \in T
  <2> SUFFICES ASSUME m + 1 <= n - 1 PROVE Chain(at[m + 1], link, Upto(m + 1))
    OBVIOUS
  <2>1. Chain(at[m], link, Upto(m))
    BY <1>2
  <2>2. Upto(m + 1) = Upto(m) \cup {at[m + 1]}
    OBVIOUS
  <2>3. at[m + 1] \notin Upto(m) /\ at[m + 1] # Nil /\ link[at[m + 1]] = at[m]
    OBVIOUS
  <2> HIDE DEF Upto
  <2>4. Chain(at[m + 1], link, Upto(m) \cup {at[m + 1]})
    BY <2>1, <2>3, ChainPush
  <2> QED BY <2>2, <2>4
<1> HIDE DEF T
<1>3. n - 1 \in T
  BY <1>1, <1>2, Induction
<1>4. A = Upto(n - 1)
  OBVIOUS
<1> HIDE DEF Upto
<1> QED BY <1>3, <1>4 DEF T

\* Following the links as often as there are words finds all of the list.
LEMMA ChainReached ==
  ASSUME NEW W, IsFiniteSet(W), NEW first, NEW link, NEW A \in SUBSET W, Chain(first, link, A),
         Nil \notin W,
         NEW f \in [0..Cardinality(W) -> SUBSET W], f[0] = {first} \cap W,
         \A i \in 1..Cardinality(W) : f[i] = f[i - 1] \cup ({link[w] : w \in f[i - 1]} \cap W)
  PROVE  f[Cardinality(W)] = A
<1> DEFINE N == Cardinality(W)
           Good(i) == i <= N => f[i] \subseteq A /\ first \in f[i] \cup {Nil} /\ (Leads(first, link, f[i]) \/ Cardinality(f[i]) >= i)
           T == {i \in Nat : Good(i)}
<1>1. N \in Nat
  BY FS_CardinalityType
<1>2. \A C \in SUBSET W : IsFiniteSet(C) /\ Cardinality(C) \in Nat
  BY FS_Subset, FS_CardinalityType
<1>3. 0 \in T
  <2>1. f[0] \subseteq A
    BY DEF Chain, Leads
  <2>2. first \in f[0] \cup {Nil}
    BY DEF Chain, Leads
  <2>3. Cardinality(f[0]) >= 0
    BY <1>1, <1>2
  <2> QED BY <2>1, <2>2, <2>3
<1>4. ASSUME NEW i \in Nat, i \in T PROVE i + 1 \in T
  <2> SUFFICES ASSUME i + 1 <= N PROVE Good(i + 1)
    OBVIOUS
  <2>1. f[i] \subseteq A /\ first \in f[i] \cup {Nil} /\ (Leads(first, link, f[i]) \/ Cardinality(f[i]) >= i)
    BY <1>1, <1>4
  <2>2. f[i + 1] = f[i] \cup ({link[w] : w \in f[i]} \cap W) /\ f[i] \in SUBSET W /\ f[i + 1] \in SUBSET W
    BY <1>1
  <2>3. f[i + 1] \subseteq A
    BY <2>1, <2>2 DEF Chain, Leads
  <2>4. first \in f[i + 1] \cup {Nil}
    BY <2>1, <2>2
  <2>5. CASE f[i + 1] = f[i]
    <3>1. \A w \in f[i] : link[w] \in f[i] \cup {Nil}
      BY <2>1, <2>2, <2>5 DEF Chain, Leads
    <3>2. Leads(first, link, f[i + 1])
      BY <2>1, <2>5, <3>1 DEF Leads
    <3> QED BY <2>3, <2>4, <3>2
  <2>6. CASE f[i + 1] # f[i]
    <3>1. ~ Leads(first, link, f[i])
      BY <2>1, <2>2, <2>6 DEF Leads
    <3>2. Cardinality(f[i]) >= i
      BY <2>1, <3>1
    <3>3. Cardinality(f[i]) < Cardinality(f[i + 1])
      <4>1. f[i] \subseteq f[i + 1] /\ IsFiniteSet(f[i + 1])
        BY <1>2, <2>2
      <4>2. Cardinality(f[i]) <= Cardinality(f[i + 1]) /\ Cardinality(f[i]) # Cardinality(f[i + 1])
        BY <2>6, <4>1, FS_Subset
      <4> QED BY <1>2, <2>2, <4>2
    <3>4. Cardinality(f[i + 1]) >= i + 1
      BY <1>2, <2>2, <3>2, <3>3
    <3> QED BY <2>3, <2>4, <3>4
  <2> QED BY <2>5, <2>6
<1> HIDE DEF T
<1>5. N \in T
  BY <1>1, <1>3, <1>4, Induction
<1>6. f[N] \subseteq A /\ (Leads(first, link, f[N]) \/ Cardinality(f[N]) >= N)
  BY <1>1, <1>5 DEF T
<1>7. CASE Leads(first, link, f[N])
  BY <1>6, <1>7 DEF Chain
<1>8. CASE Cardinality(f[N]) >= N
  <2>1. f[N] \in SUBSET W
    BY <1>1
  <2>2. Cardinality(f[N]) = Cardinality(W)
    BY <1>1, <1>2, <1>8, <2>1, FS_Subset
  <2>3. f[N] = W
    BY <2>1, <2>2, FS_Subset
  <2> QED BY <1>6, <2>3
<1> QED BY <1>6, <1>7, <1>8

-----------------------------------------------------------------------------
(* The invariant.  F has every block that was ever cut from the pool, as its *)
(* first word and its slot, and G those that no caller has.                 *)

Extent(p) == p[1] .. p[1] + p[2]
At(F, s) == {w \in Words : <<w, s>> \in F}
Pool(h) == IF h.start \in Words THEN h.start .. h.start + h.size - 1 ELSE {}
Chunk(c) == ChunkStart(c) .. ChunkStart(c) + CHUNK_SIZE - 1
InUse(n) == UNION {Chunk(c) : c \in 0..n - 1}

Links == Words \cup {Nil, Data}
Heaps == [slot : [Slots -> Links], next : [Words -> Links], start : Int \cup {Nil},
          size : 0..CHUNK_SIZE, chunks : 1..MaxChunks, hung : BOOLEAN, dead : BOOLEAN]

\* Every word of a chunk is in one block or in the pool.
Carved(h, F) ==
  /\ F \subseteq Words \X Slots
  /\ \A p, q \in F : p # q => Extent(p) \cap Extent(q) = {}
  /\ \A p \in F : Extent(p) \cap Pool(h) = {}
  /\ \A p \in F : Extent(p) \subseteq InUse(h.chunks)
  /\ Pool(h) \subseteq InUse(h.chunks)
  /\ \A w \in InUse(h.chunks) : w \in Pool(h) \/ \E p \in F : w \in Extent(p)
  /\ h.size > 0 => h.start \in Words

\* Lists lead to blocks of their size, or into what an owner has written.
Kept(h, F) ==
  \A s \in Slots : /\ h.slot[s] \in At(F, s) \cup {Nil, Data}
                   /\ \A w \in At(F, s) : h.next[w] \in At(F, s) \cup {Nil, Data}

\* The lists are all of G.
Chains(h, G) == \A s \in Slots : Chain(h.slot[s], h.next, At(G, s))

Sound(h, F, G) == /\ h \in Heaps /\ G \subseteq F
                  /\ Carved(h, F) /\ Kept(h, F)
                  /\ ~h.hung => Chains(h, G)

LEMMA WordsAre ==
  /\ Words \subseteq Int /\ Nil \notin Words /\ Data \notin Words
  /\ Words = InUse(MaxChunks)
  /\ IsFiniteSet(Words)
  /\ \A n \in 1..MaxChunks : InUse(n) \subseteq Words
<1>1. MaxChunks \in Nat /\ CHUNK_SIZE \in Nat
  BY PoolAssumption
<1>2. \A c \in Nat : ChunkStart(c) \in Nat
  BY <1>1 DEF ChunkStart
<1>3. Words = InUse(MaxChunks)
  BY DEF Words, InUse, Chunk
<1>4. Words \subseteq Int
  BY <1>1, <1>2 DEF Words
<1>5. \A n \in 1..MaxChunks : InUse(n) \subseteq Words
  <2> SUFFICES ASSUME NEW n \in 1..MaxChunks PROVE InUse(n) \subseteq Words
    OBVIOUS
  <2>1. 0..n - 1 \subseteq 0..MaxChunks - 1
    BY <1>1
  <2> QED BY <1>3, <2>1 DEF InUse
<1>6. IsFiniteSet(Words)
  <2> DEFINE T == {n \in Nat : IsFiniteSet(InUse(n))}
  <2>1. 0 \in T
    <3>1. InUse(0) = {}
      BY DEF InUse
    <3> QED BY <3>1, FS_EmptySet
  <2>2. ASSUME NEW n \in Nat, n \in T PROVE n + 1 \in T
    <3>1. InUse(n + 1) = InUse(n) \cup Chunk(n)
      BY DEF InUse
    <3>2. IsFiniteSet(Chunk(n))
      <4>1. ChunkStart(n) \in Int
        BY <1>2
      <4>2. ChunkStart(n) + CHUNK_SIZE - 1 \in Int
        BY <1>1, <4>1
      <4> QED BY <4>1, <4>2, FS_Interval DEF Chunk
    <3>3. IsFiniteSet(InUse(n))
      BY <2>2
    <3> HIDE DEF T
    <3>4. IsFiniteSet(InUse(n) \cup Chunk(n))
      BY <3>2, <3>3, FS_Union, Zenon
    <3>5. IsFiniteSet(InUse(n + 1))
      BY <3>1, <3>4
    <3> QED BY <3>5 DEF T
  <2> HIDE DEF T
  <2>3. MaxChunks \in T
    BY <1>1, <2>1, <2>2, Induction
  <2> QED BY <1>3, <2>3 DEF T
<1> QED BY <1>3, <1>4, <1>5, <1>6, SentinelAssumption

LEMMA BlocksFit ==
  ASSUME NEW h, NEW F, NEW G, Sound(h, F, G), NEW p \in F
  PROVE  Extent(p) \subseteq Words /\ p[1] \in Words /\ p[2] \in Slots /\ p[1] \in Extent(p)
<1>1. p[1] \in Words /\ p[2] \in Slots
  BY DEF Sound, Carved
<1>2. p[1] \in Int /\ p[2] \in Nat
  BY <1>1, WordsAre, SlotsFit
<1>3. p[1] \in Extent(p)
  BY <1>2 DEF Extent
<1>4. Extent(p) \subseteq InUse(h.chunks) /\ h.chunks \in 1..MaxChunks
  BY DEF Sound, Carved, Heaps
<1> QED BY <1>1, <1>3, <1>4, WordsAre

\* A word is the first of one block.
LEMMA FirstWords ==
  ASSUME NEW h, NEW F, NEW G, Sound(h, F, G), NEW p \in F, NEW q \in F, p[1] = q[1]
  PROVE  p = q
<1>1. p[1] \in Extent(p) /\ q[1] \in Extent(q)
  BY BlocksFit
<1> QED BY <1>1 DEF Sound, Carved

\* A block comes back to its list.
LEMMA PushSound ==
  ASSUME NEW h, NEW F, NEW G, Sound(h, F, G), NEW s \in Slots, NEW w, <<w, s>> \in F,
         ~h.hung => <<w, s>> \notin G
  PROVE  Sound(Push(h, s, w), F, G \cup {<<w, s>>})
<1> DEFINE g == Push(h, s, w)
           H == G \cup {<<w, s>>}
<1>1. w \in Words
  BY BlocksFit
<1>2. /\ g.slot = [h.slot EXCEPT ![s] = w] /\ g.next = [h.next EXCEPT ![w] = h.slot[s]]
      /\ g.start = h.start /\ g.size = h.size /\ g.chunks = h.chunks /\ g.hung = h.hung
      /\ g.dead = h.dead
  BY DEF Push, Sound, Heaps
<1>3. g \in Heaps
  BY <1>1 DEF Push, Sound, Heaps, Links
<1>4. Pool(g) = Pool(h)
  BY <1>2 DEF Pool
<1> HIDE DEF g
<1>5. Carved(g, F)
  BY <1>2, <1>4 DEF Sound, Carved
<1>6. h.slot \in [Slots -> Links] /\ h.next \in [Words -> Links]
  BY DEF Sound, Heaps
<1>7. \A t \in Slots : w \in At(F, t) <=> t = s
  <2> SUFFICES ASSUME NEW t \in Slots, w \in At(F, t) PROVE t = s
    BY <1>1 DEF At
  <2>1. <<w, t>> \in F
    BY DEF At
  <2>2. <<w, t>> = <<w, s>>
    BY <2>1, FirstWords
  <2> QED BY <2>2
<1>8. Kept(g, F)
  <2> SUFFICES ASSUME NEW t \in Slots
               PROVE  /\ g.slot[t] \in At(F, t) \cup {Nil, Data}
                      /\ \A v \in At(F, t) : g.next[v] \in At(F, t) \cup {Nil, Data}
    BY DEF Kept
  <2>1. /\ h.slot[t] \in At(F, t) \cup {Nil, Data}
        /\ \A v \in At(F, t) : h.next[v] \in At(F, t) \cup {Nil, Data}
    BY DEF Sound, Kept
  <2>2. At(F, t) \subseteq Words
    BY DEF At
  <2>3. \A v \in At(F, t) : g.next[v] = IF v = w THEN h.slot[s] ELSE h.next[v]
    BY <1>2, <1>6, <2>2
  <2>4. g.slot[t] = IF t = s THEN w ELSE h.slot[t]
    BY <1>2, <1>6
  <2> QED BY <1>7, <2>1, <2>3, <2>4
<1>9. ASSUME ~g.hung PROVE Chains(g, H)
  <2> SUFFICES ASSUME NEW t \in Slots PROVE Chain(g.slot[t], g.next, At(H, t))
    BY DEF Chains
  <2>1. Chain(h.slot[t], h.next, At(G, t)) /\ <<w, s>> \notin G
    BY <1>2, <1>9 DEF Sound, Chains
  <2>2. At(G, t) \subseteq Words /\ w \notin At(G, s)
    BY <2>1 DEF At
  <2>3. CASE t = s
    <3>1. At(H, s) = At(G, s) \cup {w}
      BY <1>1 DEF At
    <3>2. \A v \in At(G, s) : g.next[v] = h.next[v]
      BY <1>2, <1>6, <2>2, <2>3
    <3>3. g.next[w] = h.slot[s] /\ g.slot[s] = w /\ w # Nil
      BY <1>1, <1>2, <1>6, WordsAre
    <3> HIDE DEF H
    <3>4. Chain(w, g.next, At(G, s) \cup {w})
      BY <2>1, <2>2, <2>3, <3>2, <3>3, ChainPush
    <3> QED BY <2>3, <3>1, <3>3, <3>4
  <2>4. CASE t # s
    <3>1. At(H, t) = At(G, t)
      BY <2>4 DEF At
    <3>2. w \notin At(G, t)
      BY <1>7, <2>4 DEF At, Sound
    <3>3. \A v \in At(G, t) : g.next[v] = h.next[v]
      BY <1>2, <1>6, <2>2, <3>2
    <3>4. g.slot[t] = h.slot[t]
      BY <1>2, <1>6, <2>4
    <3> HIDE DEF H
    <3> QED BY <2>1, <3>1, <3>3, <3>4, ChainSame
  <2> QED BY <2>3, <2>4
<1>10. H \subseteq F
  BY DEF Sound
<1> HIDE DEF H
<1>11. Sound(g, F, H)
  BY <1>3, <1>5, <1>8, <1>9, <1>10 DEF Sound
<1> QED BY <1>11 DEF g, H

\* Blocks cut from the pool for an empty list.
LEMMA CutSound ==
  ASSUME NEW h, NEW F, NEW G, Sound(h, F, G), NEW s \in Slots, h.slot[s] = Nil,
         NEW cnt \in Nat \ {0}, cnt * (s + 1) <= h.size
  PROVE  \E N : /\ N \cap F = {}
                /\ Sound(Cut(h, s, cnt), F \cup N, G \cup N)
                /\ Cut(h, s, cnt).hung = h.hung
<1>1. PICK k, a : k = s + 1 /\ a = h.start
  OBVIOUS
<1>2. s \in Nat /\ k \in Nat \ {0} /\ h.size \in Nat /\ cnt * k \in Nat \ {0} /\ cnt * k <= h.size
  <2>1. s \in Nat /\ h.size \in Nat
    BY SlotsFit, PoolAssumption DEF Sound, Heaps
  <2>2. k \in Nat \ {0}
    BY <1>1, <2>1
  <2>3. cnt * k >= 1 /\ cnt * k \in Nat
    BY <2>2
  <2> QED BY <1>1, <2>1, <2>2, <2>3
<1>3. a \in Words /\ a \in Int
  BY <1>1, <1>2, WordsAre DEF Sound, Carved
<1>4. h \in Heaps /\ Carved(h, F) /\ Kept(h, F)
  BY DEF Sound
<1>5. PICK at, e :
      /\ e = a + cnt * k /\ \A i \in 0..cnt - 1 : at[i] = a + i * k
      /\ e \in Int /\ a < e /\ at[0] = a
      /\ \A i \in 0..cnt - 1 : at[i] \in Int /\ a <= at[i] /\ at[i] + k <= e
      /\ \A i, j \in 0..cnt - 1 : i < j => at[i] + k <= at[j]
      /\ \A i \in 1..cnt - 1 : at[i] = at[i - 1] + k
      /\ \A w \in a .. e - 1 : \E i \in 0..cnt - 1 : at[i] <= w /\ w < at[i] + k
  BY <1>2, <1>3, Places
<1> DEFINE blocks == {at[i] : i \in 0..cnt - 1}
           N == {<<at[i], s>> : i \in 0..cnt - 1}
           g == Cut(h, s, cnt)
<1>6. /\ e <= a + h.size
      /\ Pool(h) = a .. a + h.size - 1
      /\ Pool(h) \subseteq Words
  <2>1. e <= a + h.size
    BY <1>2, <1>3, <1>5
  <2>2. Pool(h) = a .. a + h.size - 1
    BY <1>1, <1>3 DEF Pool
  <2>3. Pool(h) \subseteq InUse(h.chunks) /\ h.chunks \in 1..MaxChunks
    BY <1>4 DEF Carved, Heaps
  <2> QED BY <2>1, <2>2, <2>3, WordsAre
<1>7. /\ g.slot = [h.slot EXCEPT ![s] = at[cnt - 1]]
      /\ g.next = [w \in Words |-> IF w = at[0] THEN h.slot[s]
                                   ELSE IF w \in blocks THEN w - k ELSE h.next[w]]
      /\ g.start = e /\ g.size = a + h.size - e
      /\ g.chunks = h.chunks /\ g.hung = h.hung /\ g.dead = h.dead
      /\ g = [slot |-> g.slot, next |-> g.next, start |-> g.start, size |-> g.size,
              chunks |-> g.chunks, hung |-> g.hung, dead |-> g.dead]
  <2>1. \A i \in 0..cnt - 1 : h.start + i * (s + 1) = at[i]
    BY <1>1, <1>5
  <2>2. {h.start + i * (s + 1) : i \in 0..cnt - 1} = blocks
    BY <2>1
  <2>3. h.start + 0 * (s + 1) = at[0] /\ h.start + (cnt - 1) * (s + 1) = at[cnt - 1]
    BY <2>1
  <2> HIDE DEF blocks
  <2>4. PICK link : link = [w \in Words |-> IF w = at[0] THEN h.slot[s]
                                           ELSE IF w \in blocks THEN w - k ELSE h.next[w]]
    OBVIOUS
  <2>5. Linked(h, s, cnt) = [h EXCEPT !.slot[s] = at[cnt - 1], !.next = link]
    BY <1>1, <2>2, <2>3, <2>4, Zenon DEF Linked
  <2>6. h.size - cnt * (s + 1) = a + h.size - e /\ h.start + cnt * (s + 1) = e
    BY <1>1, <1>2, <1>3, <1>5
  <2>7. h = [slot |-> h.slot, next |-> h.next, start |-> h.start, size |-> h.size,
             chunks |-> h.chunks, hung |-> h.hung, dead |-> h.dead]
    BY <1>4 DEF Heaps
  <2>a. Linked(h, s, cnt) =
          [slot |-> [h.slot EXCEPT ![s] = at[cnt - 1]], next |-> link, start |-> h.start,
           size |-> h.size, chunks |-> h.chunks, hung |-> h.hung, dead |-> h.dead]
    BY <2>5, <2>7
  <2>8. g = [slot |-> [h.slot EXCEPT ![s] = at[cnt - 1]], next |-> link, start |-> e,
             size |-> a + h.size - e, chunks |-> h.chunks, hung |-> h.hung, dead |-> h.dead]
    <3>1. PICK size : size = a + h.size - e
      OBVIOUS
    <3>2. Linked(h, s, cnt).start = h.start /\ Linked(h, s, cnt).size = h.size
      BY <2>a
    <3>3. g = [Linked(h, s, cnt) EXCEPT !.start = e, !.size = size]
      BY <2>6, <3>1, <3>2 DEF Cut
    <3>4. PICK slot : slot = [h.slot EXCEPT ![s] = at[cnt - 1]]
      OBVIOUS
    <3> HIDE DEF g
    <3>5. PICK l : /\ l = [slot |-> slot, next |-> link, start |-> h.start, size |-> h.size,
                          chunks |-> h.chunks, hung |-> h.hung, dead |-> h.dead]
                   /\ l = Linked(h, s, cnt)
      BY <2>a, <3>4
    <3>a. PICK m : m = [l EXCEPT !.start = e]
      OBVIOUS
    <3>6. g = [m EXCEPT !.size = size]
      BY <3>3, <3>5, <3>a
    <3>b. m = [slot |-> slot, next |-> link, start |-> e, size |-> h.size,
               chunks |-> h.chunks, hung |-> h.hung, dead |-> h.dead]
      BY <3>5, <3>a
    <3>7. g = [slot |-> slot, next |-> link, start |-> e, size |-> size,
               chunks |-> h.chunks, hung |-> h.hung, dead |-> h.dead]
      BY <3>6, <3>b
    <3> QED BY <3>1, <3>4, <3>7
  <2> HIDE DEF g
  <2> QED BY <2>4, <2>8
<1> HIDE DEF g
<1>b. a \in Int /\ e \in Int /\ h.size \in Nat /\ a < e /\ e <= a + h.size
  BY <1>2, <1>3, <1>5, <1>6
<1>c. g.start = e /\ g.size = a + h.size - e
  BY <1>7
<1>d. \A w : w \in Pool(h) <=> w \in Int /\ a <= w /\ w < a + h.size
  BY <1>6, <1>b
<1>8. ASSUME NEW i \in 0..cnt - 1
      PROVE  at[i] \in Words /\ \A w \in at[i] .. at[i] + s : w \in Pool(h) /\ w < e
  <2>1. at[i] \in Int /\ a <= at[i] /\ at[i] + k <= e
    BY <1>5
  <2>2. \A w \in at[i] .. at[i] + s : w \in a .. a + h.size - 1 /\ w < e
    <3> SUFFICES ASSUME NEW w \in at[i] .. at[i] + s PROVE w \in a .. a + h.size - 1 /\ w < e
      OBVIOUS
    <3>1. at[i] <= w /\ w <= at[i] + s /\ w \in Int /\ s + 1 = k
      BY <1>1, <1>2, <2>1
    <3>2. a <= w /\ w < e
      BY <1>2, <1>b, <2>1, <3>1
    <3> QED BY <1>b, <3>1, <3>2
  <2>3. at[i] \in at[i] .. at[i] + s
    BY <1>2, <2>1
  <2> QED BY <1>6, <2>2, <2>3
<1>9. \A w \in blocks : w \in Words /\ w \in Pool(h)
  <2> SUFFICES ASSUME NEW i \in 0..cnt - 1 PROVE at[i] \in Words /\ at[i] \in Pool(h)
    OBVIOUS
  <2>1. at[i] \in at[i] .. at[i] + s
    BY <1>2, <1>5
  <2> QED BY <1>8, <2>1
<1>10. /\ g.next \in [Words -> Links]
       /\ g.next[at[0]] = Nil
       /\ \A i \in 1..cnt - 1 : g.next[at[i]] = at[i - 1]
       /\ \A w \in Words : w \notin blocks => g.next[w] = h.next[w]
  <2>1. at[0] \in blocks /\ at[0] \in Words
    BY <1>8
  <2>2. \A i \in 1..cnt - 1 : at[i] \in blocks /\ at[i] \in Words /\ at[i] # at[0] /\ at[i] - k = at[i - 1]
    <3> SUFFICES ASSUME NEW i \in 1..cnt - 1
                 PROVE  at[i] \in blocks /\ at[i] \in Words /\ at[i] # at[0] /\ at[i] - k = at[i - 1]
      OBVIOUS
    <3>1. i \in 0..cnt - 1 /\ 0 \in 0..cnt - 1 /\ i - 1 \in 0..cnt - 1 /\ 0 < i
      OBVIOUS
    <3>2. at[i] \in blocks /\ at[i] \in Words
      BY <1>8, <3>1
    <3>3. at[0] + k <= at[i] /\ at[i] = at[i - 1] + k /\ at[0] \in Int /\ at[i] \in Int /\ at[i - 1] \in Int
      BY <1>5, <3>1
    <3> HIDE DEF blocks
    <3> QED BY <1>2, <3>2, <3>3
  <2>3. \A w \in blocks : w = at[0] \/ w - k \in Words
    <3> SUFFICES ASSUME NEW i \in 0..cnt - 1 PROVE at[i] = at[0] \/ at[i] - k \in Words
      OBVIOUS
    <3> HIDE DEF blocks
    <3>1. CASE i = 0
      BY <3>1
    <3>2. CASE i # 0
      <4>1. i \in 1..cnt - 1 /\ i - 1 \in 0..cnt - 1
        BY <3>2
      <4> QED BY <1>8, <2>2, <4>1
    <3> QED BY <3>1, <3>2
  <2>4. h.next \in [Words -> Links] /\ h.slot[s] = Nil
    BY DEF Sound, Heaps
  <2> HIDE DEF blocks
  <2> QED BY <1>7, <2>1, <2>2, <2>3, <2>4 DEF Links
<1>11. g \in Heaps
  <2>1. h \in Heaps
    BY DEF Sound
  <2>2. g.slot \in [Slots -> Links]
    <3>1. cnt - 1 \in 0..cnt - 1
      OBVIOUS
    <3>2. at[cnt - 1] \in Words
      BY <1>8, <3>1
    <3> HIDE DEF blocks
    <3> QED BY <1>7, <2>1, <3>2 DEF Heaps, Links
  <2>3. g.start \in Int /\ g.size \in 0..CHUNK_SIZE
    <3>1. h.size \in 0..CHUNK_SIZE /\ CHUNK_SIZE \in Nat
      BY <2>1, PoolAssumption DEF Heaps
    <3>2. a + h.size - e \in 0..CHUNK_SIZE
      BY <1>3, <1>5, <1>6, <3>1
    <3> QED BY <1>5, <1>7, <3>2
  <2> HIDE DEF blocks
  <2> QED BY <1>7, <1>10, <2>1, <2>2, <2>3 DEF Heaps
<1>12. g.size > 0 => g.start \in Words
  <2>1. g.size > 0 => g.start \in Pool(h)
    BY <1>b, <1>c, <1>d
  <2> QED BY <1>6, <2>1
<1>13. Pool(g) = e .. a + h.size - 1
  <2>1. g.start + g.size - 1 = a + h.size - 1
    BY <1>b, <1>c
  <2>2. CASE g.size > 0
    BY <1>c, <1>12, <2>1, <2>2 DEF Pool
  <2>3. CASE ~(g.size > 0)
    <3>1. g.size = 0
      BY <1>b, <1>c, <2>3
    <3>2. e .. a + h.size - 1 = {}
      BY <1>b, <1>c, <3>1
    <3>3. g.start \in Int /\ g.start .. g.start + g.size - 1 = {}
      BY <1>b, <1>c, <3>1
    <3> QED BY <3>2, <3>3 DEF Pool
  <2> QED BY <2>2, <2>3
<1>14. ASSUME NEW p \in N
       PROVE  /\ p \in Words \X Slots
              /\ Extent(p) \subseteq Pool(h) /\ Extent(p) \cap Pool(g) = {}
  <2>1. PICK i \in 0..cnt - 1 : p = <<at[i], s>>
    OBVIOUS
  <2> HIDE DEF N, blocks
  <2>2. Extent(p) = at[i] .. at[i] + s
    BY <2>1 DEF Extent
  <2>3. \A w \in Extent(p) : w \in Pool(h) /\ w < e /\ w \in Int
    BY <1>5, <1>8, <2>2
  <2>4. \A w \in Pool(g) : w >= e
    BY <1>5, <1>13
  <2>5. \A w \in Extent(p) : w \notin Pool(g)
    BY <1>5, <2>3, <2>4
  <2> QED BY <1>8, <2>1, <2>3, <2>5
<1>15. ASSUME NEW p \in N, NEW q \in N, p # q PROVE Extent(p) \cap Extent(q) = {}
  <2>1. PICK i \in 0..cnt - 1 : p = <<at[i], s>>
    OBVIOUS
  <2>2. PICK j \in 0..cnt - 1 : q = <<at[j], s>>
    OBVIOUS
  <2> HIDE DEF N, blocks
  <2>3. i < j \/ j < i
    BY <1>15, <2>1, <2>2
  <2>4. at[i] \in Int /\ at[j] \in Int /\ (at[i] + k <= at[j] \/ at[j] + k <= at[i])
    BY <1>5, <2>3
  <2>5. \A w \in at[i] .. at[i] + s : w \notin at[j] .. at[j] + s
    BY <1>1, <1>2, <2>4
  <2> QED BY <2>1, <2>2, <2>5 DEF Extent
<1>16. ASSUME NEW w \in Pool(h) PROVE w \in Pool(g) \/ \E p \in N : w \in Extent(p)
  <2>1. w \in Int /\ a <= w /\ w <= a + h.size - 1
    BY <1>2, <1>3, <1>6
  <2>2. CASE w < e
    <3>1. w \in a .. e - 1
      BY <1>3, <1>5, <2>1, <2>2
    <3>2. PICK i \in 0..cnt - 1 : at[i] <= w /\ w < at[i] + k
      BY <1>5, <3>1
    <3>3. w \in at[i] .. at[i] + s
      BY <1>1, <1>2, <1>5, <2>1, <3>2
    <3>4. w \in Extent(<<at[i], s>>)
      BY <3>3 DEF Extent
    <3> QED BY <3>4
  <2>3. CASE ~(w < e)
    <3>1. w \in e .. a + h.size - 1
      BY <1>2, <1>3, <1>5, <2>1, <2>3
    <3> QED BY <1>13, <3>1
  <2> QED BY <2>2, <2>3
<1>a. \A w \in Pool(g) : w \in Pool(h)
  BY <1>b, <1>d, <1>13
<1>17. N \cap F = {} /\ \A p \in F : p[1] \notin blocks
  <2>1. \A p \in F : p[1] \in Extent(p) /\ Extent(p) \cap Pool(h) = {}
    BY BlocksFit DEF Sound, Carved
  <2>2. \A p \in N : p[1] \in blocks
    OBVIOUS
  <2> HIDE DEF N, blocks
  <2> QED BY <1>9, <2>1, <2>2
<1>18. /\ at[cnt - 1] \in Words /\ <<at[cnt - 1], s>> \in N
       /\ At(N, s) = blocks /\ \A t \in Slots : t # s => At(N, t) = {}
  <2>1. cnt - 1 \in 0..cnt - 1
    OBVIOUS
  <2> QED BY <1>9, <2>1 DEF At
<1> HIDE DEF N
<1>19. Carved(g, F \cup N)
  <2>1. /\ F \subseteq Words \X Slots
        /\ \A p, q \in F : p # q => Extent(p) \cap Extent(q) = {}
        /\ \A p \in F : Extent(p) \cap Pool(h) = {} /\ Extent(p) \subseteq InUse(h.chunks)
        /\ Pool(h) \subseteq InUse(h.chunks)
        /\ \A w \in InUse(h.chunks) : w \in Pool(h) \/ \E p \in F : w \in Extent(p)
    BY <1>4 DEF Carved
  <2>2. F \cup N \subseteq Words \X Slots
    BY <1>14, <2>1
  <2>3. \A p \in F : \A q \in N : Extent(p) \cap Extent(q) = {}
    BY <1>14, <2>1
  <2>4. ASSUME NEW p \in F \cup N, NEW q \in F \cup N, p # q PROVE Extent(p) \cap Extent(q) = {}
    BY <1>15, <2>1, <2>3, <2>4
  <2>5. \A p \in F \cup N : Extent(p) \cap Pool(g) = {}
    BY <1>14, <1>a, <2>1
  <2>6. \A p \in F \cup N : Extent(p) \subseteq InUse(h.chunks)
    BY <1>14, <2>1
  <2>7. Pool(g) \subseteq InUse(h.chunks)
    BY <1>a, <2>1
  <2>8. \A w \in InUse(h.chunks) : w \in Pool(g) \/ \E p \in F \cup N : w \in Extent(p)
    BY <1>16, <2>1
  <2> QED BY <1>7, <1>12, <2>2, <2>4, <2>5, <2>6, <2>7, <2>8 DEF Carved
<1>20. \A t \in Slots : /\ At(F \cup N, t) = At(F, t) \cup At(N, t)
                        /\ At(G \cup N, t) = At(G, t) \cup At(N, t)
                        /\ \A w \in At(F, t) : w \in Words /\ w \notin blocks
  BY <1>17 DEF At
<1>21. \A t \in Slots : g.slot[t] = IF t = s THEN at[cnt - 1] ELSE h.slot[t]
  <2>1. h.slot \in [Slots -> Links]
    BY DEF Sound, Heaps
  <2> QED BY <1>7, <2>1
<1>22. Kept(g, F \cup N)
  <2> SUFFICES ASSUME NEW t \in Slots
               PROVE  /\ g.slot[t] \in At(F \cup N, t) \cup {Nil, Data}
                      /\ \A w \in At(F \cup N, t) : g.next[w] \in At(F \cup N, t) \cup {Nil, Data}
    BY DEF Kept
  <2>1. /\ h.slot[t] \in At(F, t) \cup {Nil, Data}
        /\ \A w \in At(F, t) : h.next[w] \in At(F, t) \cup {Nil, Data}
    BY DEF Sound, Kept
  <2>2. g.slot[t] \in At(F \cup N, t) \cup {Nil, Data}
    <3>1. at[cnt - 1] \in At(N, s)
      BY <1>18 DEF At
    <3> QED BY <1>20, <1>21, <2>1, <3>1
  <2>3. \A w \in At(F, t) : g.next[w] \in At(F \cup N, t) \cup {Nil, Data}
    BY <1>10, <1>20, <2>1
  <2>4. \A w \in At(N, t) : g.next[w] \in At(N, t) \cup {Nil}
    <3> SUFFICES ASSUME t = s, NEW i \in 0..cnt - 1 PROVE g.next[at[i]] \in blocks \cup {Nil}
      BY <1>18
    <3>1. CASE i = 0
      BY <1>10, <3>1
    <3>2. CASE i # 0
      <4>1. i \in 1..cnt - 1 /\ i - 1 \in 0..cnt - 1
        BY <3>2
      <4>2. g.next[at[i]] = at[i - 1] /\ at[i - 1] \in blocks
        BY <1>10, <4>1
      <4> QED BY <4>2
    <3> QED BY <3>1, <3>2
  <2> QED BY <1>20, <2>2, <2>3, <2>4
<1>23. ASSUME ~g.hung PROVE Chains(g, G \cup N)
  <2> SUFFICES ASSUME NEW t \in Slots PROVE Chain(g.slot[t], g.next, At(G \cup N, t))
    BY DEF Chains
  <2>1. Chain(h.slot[t], h.next, At(G, t))
    BY <1>7, <1>23 DEF Sound, Chains
  <2>2. CASE t = s
    <3>1. At(G, s) = {}
      BY <2>1, <2>2, ChainOfNil
    <3>2. At(G \cup N, s) = blocks
      BY <1>18, <1>20, <3>1
    <3>3. \A i \in 0..cnt - 1 : at[i] # Nil
      BY <1>8, WordsAre
    <3>4. \A i, j \in 0..cnt - 1 : i # j => at[i] # at[j]
      <4> SUFFICES ASSUME NEW i \in 0..cnt - 1, NEW j \in 0..cnt - 1, i # j PROVE at[i] # at[j]
        OBVIOUS
      <4>1. i < j \/ j < i
        OBVIOUS
      <4>2. at[i] \in Int /\ at[j] \in Int /\ (at[i] + k <= at[j] \/ at[j] + k <= at[i])
        BY <1>5, <4>1
      <4> QED BY <1>2, <4>2
    <3>5. Chain(at[cnt - 1], g.next, blocks)
      <4>1. g.next[at[0]] = Nil /\ \A i \in 1..cnt - 1 : g.next[at[i]] = at[i - 1]
        BY <1>10
      <4>2. \A w : w \in blocks <=> \E i \in 0..cnt - 1 : w = at[i]
        OBVIOUS
      <4> HIDE DEF blocks
      <4> QED BY <3>3, <3>4, <4>1, <4>2, ChainOfCut
    <3> QED BY <1>21, <2>2, <3>2, <3>5
  <2>3. CASE t # s
    <3>1. At(G \cup N, t) = At(G, t)
      BY <1>18, <1>20, <2>3
    <3>2. At(G, t) \subseteq At(F, t)
      BY DEF Sound, At
    <3>3. \A w \in At(G, t) : g.next[w] = h.next[w]
      BY <1>10, <1>20, <3>2
    <3>4. g.slot[t] = h.slot[t]
      BY <1>21, <2>3
    <3> QED BY <2>1, <3>1, <3>3, <3>4, ChainSame
  <2> QED BY <2>2, <2>3
<1>24. Sound(g, F \cup N, G \cup N)
  <2>1. G \cup N \subseteq F \cup N
    BY DEF Sound
  <2> QED BY <1>11, <1>19, <1>22, <1>23, <2>1 DEF Sound
<1> QED BY <1>7, <1>17, <1>24 DEF g

\* A process that dies leaves its memory as it is.
LEMMA DeadSound ==
  ASSUME NEW h, NEW F, NEW G, Sound(h, F, G)
  PROVE  Sound([h EXCEPT !.dead = TRUE], F, G)
<1> DEFINE g == [h EXCEPT !.dead = TRUE]
<1>1. /\ g.slot = h.slot /\ g.next = h.next /\ g.start = h.start /\ g.size = h.size
      /\ g.chunks = h.chunks /\ g.hung = h.hung /\ g \in Heaps
  BY DEF Sound, Heaps
<1> HIDE DEF g
<1>2. Pool(g) = Pool(h)
  BY <1>1 DEF Pool
<1>3. Sound(g, F, G)
  BY <1>1, <1>2 DEF Sound, Carved, Kept, Chains
<1> QED BY <1>3 DEF g

\* The rest of the pool becomes a block, or it was nothing, or the process dies.
LEMMA HangRestSound ==
  ASSUME NEW h, NEW F, NEW G, Sound(h, F, G), NEW s \in Slots, h.size <= s
  PROVE  \E N : /\ N \cap F = {}
                /\ Sound(HangRest(h), F \cup N, G \cup N)
                /\ HangRest(h).slot = h.slot /\ (h.hung => HangRest(h).hung)
                /\ HangRest(h).dead \/ HangRest(h).size = 0
<1> DEFINE g == HangRest(h)
           k == h.size - 1
           first == h.slot[get_index(h.size * ALIGN_BYTES)]
<1>1. h \in Heaps /\ h.size \in Nat /\ s \in Nat /\ Carved(h, F) /\ Kept(h, F)
  BY SlotsFit, PoolAssumption DEF Sound, Heaps
<1>2. CASE h.size = 0
  <2>1. g = h /\ F \cup {} = F /\ G \cup {} = G /\ {} \cap F = {}
    BY <1>2 DEF HangRest
  <2> HIDE DEF g
  <2> QED BY <1>2, <2>1 DEF g
<1>3. CASE h.size # 0 /\ first \notin Words
  <2>1. g = [h EXCEPT !.dead = TRUE]
    BY <1>3 DEF HangRest
  <2>2. g.slot = h.slot /\ g.hung = h.hung /\ g.dead
    BY <1>1, <2>1 DEF Heaps
  <2>3. F \cup {} = F /\ G \cup {} = G /\ {} \cap F = {}
    OBVIOUS
  <2>4. Sound(g, F, G)
    BY <2>1, DeadSound
  <2> HIDE DEF g
  <2> QED BY <2>2, <2>3, <2>4 DEF g
<1>4. CASE h.size # 0 /\ first \in Words
  <2> DEFINE p == <<h.start, k>>
             N == {p}
  <2>1. h.size \in Nat \ {0} /\ k \in Nat
    BY <1>1, <1>4
  <2>2. k \in Slots /\ get_index(h.size * ALIGN_BYTES) = k
    <3>1. k <= s
      BY <1>1, <2>1
    <3>2. k \in Slots
      BY <2>1, <3>1, SlotsBelow
    <3>3. get_index(h.size * ALIGN_BYTES) = h.size - 1
      BY <2>1, SlotOfRest
    <3> QED BY <3>2, <3>3
  <2>3. /\ g.slot = h.slot /\ g.next = [h.next EXCEPT ![h.start] = first, ![first] = h.start]
        /\ g.start = Nil /\ g.size = 0 /\ g.chunks = h.chunks /\ g.hung = TRUE /\ g.dead = h.dead
    <3>1. g = [h EXCEPT !.next = [@ EXCEPT ![h.start] = first, ![first] = h.start],
                        !.start = Nil, !.size = 0, !.hung = TRUE]
      BY <1>4 DEF HangRest
    <3> HIDE DEF g, first
    <3> QED BY <1>1, <3>1 DEF Heaps
  <2>4. h.start \in Words /\ h.start \in Int /\ Pool(h) = h.start .. h.start + k
    BY <1>1, <2>1, WordsAre DEF Carved, Pool
  <2>5. first \in At(F, k) /\ <<first, k>> \in F
    BY <1>1, <1>4, <2>2, WordsAre DEF Kept, At
  <2>6. first # h.start /\ p \notin F
    <3>1. h.start \in Pool(h)
      BY <2>1, <2>4
    <3>2. \A q \in F : q[1] \in Extent(q) /\ Extent(q) \cap Pool(h) = {}
      BY <1>1, BlocksFit DEF Carved
    <3> QED BY <2>5, <3>1, <3>2
  <2>7. h.slot \in [Slots -> Links] /\ h.next \in [Words -> Links]
    BY <1>1 DEF Heaps
  <2> HIDE DEF g, k, first
  <2>8. /\ g.next \in [Words -> Links] /\ g.next[h.start] = first /\ g.next[first] = h.start
        /\ \A w \in Words : w # h.start /\ w # first => g.next[w] = h.next[w]
    BY <1>4, <2>3, <2>4, <2>6, <2>7 DEF Links
  <2>9. g \in Heaps
    <3>1. PICK link : link = [h.next EXCEPT ![h.start] = first, ![first] = h.start]
      OBVIOUS
    <3>a. g = [h EXCEPT !.next = [@ EXCEPT ![h.start] = first, ![first] = h.start],
                        !.start = Nil, !.size = 0, !.hung = TRUE]
      BY <1>4, Zenon DEF g, HangRest, first
    <3>2. g = [h EXCEPT !.next = link, !.start = Nil, !.size = 0, !.hung = TRUE]
      BY <3>1, <3>a, Zenon
    <3>3. 0 \in 0..CHUNK_SIZE
      BY PoolAssumption
    <3>4. link \in [Words -> Links]
      BY <2>3, <2>8, <3>1
    <3> QED BY <1>1, <3>2, <3>3, <3>4 DEF Heaps
  <2>10. Pool(g) = {}
    BY <2>3, WordsAre DEF Pool
  <2>11. Extent(p) = Pool(h)
    BY <2>4 DEF Extent
  <2>12. Carved(g, F \cup N)
    <3>1. p \in Words \X Slots
      BY <2>2, <2>4
    <3>2. /\ F \subseteq Words \X Slots
          /\ \A q, r \in F : q # r => Extent(q) \cap Extent(r) = {}
          /\ \A q \in F : Extent(q) \cap Pool(h) = {} /\ Extent(q) \subseteq InUse(h.chunks)
          /\ Pool(h) \subseteq InUse(h.chunks)
          /\ \A w \in InUse(h.chunks) : w \in Pool(h) \/ \E q \in F : w \in Extent(q)
      BY <1>1 DEF Carved
    <3> HIDE DEF p
    <3>3. \A q, r \in F \cup N : q # r => Extent(q) \cap Extent(r) = {}
      BY <2>11, <3>2
    <3> QED BY <2>3, <2>10, <2>11, <3>1, <3>2, <3>3 DEF Carved
  <2>13. Kept(g, F \cup N)
    <3> SUFFICES ASSUME NEW t \in Slots
                 PROVE  /\ g.slot[t] \in At(F \cup N, t) \cup {Nil, Data}
                        /\ \A w \in At(F \cup N, t) : g.next[w] \in At(F \cup N, t) \cup {Nil, Data}
      BY DEF Kept
    <3>1. /\ h.slot[t] \in At(F, t) \cup {Nil, Data}
          /\ \A w \in At(F, t) : h.next[w] \in At(F, t) \cup {Nil, Data}
      BY <1>1 DEF Kept
    <3>2. At(F, t) \subseteq At(F \cup N, t)
      BY DEF At
    <3>3. ASSUME NEW w \in At(F \cup N, t) PROVE g.next[w] \in At(F \cup N, t) \cup {Nil, Data}
      <4>1. w \in Words /\ (<<w, t>> \in F \/ (w = h.start /\ t = k))
        BY <3>3 DEF At
      <4>2. CASE w = h.start
        <5>1. <<w, t>> \notin F
          <6>1. w \in Pool(h)
            BY <2>1, <2>4, <4>2
          <6>2. \A q \in F : q[1] \in Extent(q) /\ Extent(q) \cap Pool(h) = {}
            BY <1>1, BlocksFit DEF Carved
          <6> QED BY <6>1, <6>2
        <5> QED BY <2>5, <2>8, <3>2, <4>1, <4>2, <5>1
      <4>3. CASE w = first
        <5>1. <<first, t>> \in F
          BY <2>6, <4>1, <4>3
        <5>2. t = k
          BY <2>5, <5>1, FirstWords
        <5>3. h.start \in At(F \cup N, k)
          BY <2>4 DEF At
        <5> QED BY <2>8, <4>3, <5>2, <5>3
      <4>4. CASE w # h.start /\ w # first
        <5>1. w \in At(F, t)
          BY <4>1, <4>4 DEF At
        <5> QED BY <2>8, <3>1, <3>2, <4>1, <4>4, <5>1
      <4> QED BY <4>2, <4>3, <4>4
    <3> QED BY <2>3, <3>1, <3>2, <3>3
  <2>14. Sound(g, F \cup N, G \cup N)
    <3>1. G \cup N \subseteq F \cup N
      BY DEF Sound
    <3> HIDE DEF N
    <3> QED BY <2>3, <2>9, <2>12, <2>13, <3>1 DEF Sound
  <2>15. N \cap F = {}
    BY <2>6
  <2> HIDE DEF N
  <2> QED BY <2>3, <2>14, <2>15 DEF g
<1> QED BY <1>2, <1>3, <1>4

\* A chunk is apart from the chunks before it.
LEMMA NextChunk ==
  ASSUME NEW n \in 1..MaxChunks - 1
  PROVE  /\ n + 1 \in 1..MaxChunks /\ InUse(n + 1) = InUse(n) \cup Chunk(n)
         /\ InUse(n) \cap Chunk(n) = {} /\ ChunkStart(n) \in Int
<1>1. MaxChunks \in Nat /\ CHUNK_SIZE \in Nat /\ n \in Nat
  BY PoolAssumption
<1>2. \A c \in Nat : ChunkStart(c) \in Nat
  BY <1>1 DEF ChunkStart
<1>3. InUse(n + 1) = InUse(n) \cup Chunk(n)
  BY <1>1 DEF InUse
<1>4. ASSUME NEW c \in 0..n - 1 PROVE Chunk(c) \cap Chunk(n) = {}
  <2>1. c \in Nat /\ CHUNK_SIZE + 1 \in Nat \ {0} /\ c < n
    BY <1>1
  <2>2. 0 + c * (CHUNK_SIZE + 1) + (CHUNK_SIZE + 1) <= 0 + n * (CHUNK_SIZE + 1)
    BY <1>1, <2>1, Stride
  <2>3. ChunkStart(c) + CHUNK_SIZE + 1 <= ChunkStart(n)
    BY <1>1, <1>2, <2>1, <2>2 DEF ChunkStart
  <2>4. ChunkStart(c) \in Int /\ ChunkStart(n) \in Int
    BY <1>1, <1>2, <2>1
  <2> QED BY <1>1, <2>3, <2>4 DEF Chunk
<1>5. InUse(n) \cap Chunk(n) = {}
  BY <1>4 DEF InUse
<1> QED BY <1>1, <1>2, <1>3, <1>5

\* A new chunk is the pool.
LEMMA NewChunkSound ==
  ASSUME NEW h, NEW F, NEW G, Sound(h, F, G), h.dead \/ h.size = 0, CHUNK_SIZE > 0
  PROVE  /\ Sound(NewChunk(h), F, G)
         /\ NewChunk(h).slot = h.slot /\ NewChunk(h).hung = h.hung
         /\ NewChunk(h).dead \/ NewChunk(h).size = CHUNK_SIZE
<1> DEFINE g == NewChunk(h)
<1>1. h \in Heaps
  BY DEF Sound
<1>2. CASE h.dead \/ h.chunks = MaxChunks
  <2>1. g = [h EXCEPT !.dead = TRUE]
    BY <1>2 DEF NewChunk
  <2>2. g.slot = h.slot /\ g.hung = h.hung /\ g.dead
    BY <1>1, <2>1 DEF Heaps
  <2>3. Sound(g, F, G)
    BY <2>1, DeadSound
  <2> QED BY <2>2, <2>3
<1>3. CASE ~(h.dead \/ h.chunks = MaxChunks)
  <2> DEFINE n == h.chunks
  <2>1. n \in 1..MaxChunks - 1 /\ h.size = 0
    BY <1>1, <1>3, PoolAssumption DEF Heaps
  <2>2. g = [h EXCEPT !.start = ChunkStart(n), !.size = CHUNK_SIZE, !.chunks = n + 1]
    BY <1>3 DEF NewChunk
  <2>3. /\ g.slot = h.slot /\ g.next = h.next /\ g.start = ChunkStart(n) /\ g.size = CHUNK_SIZE
        /\ g.chunks = n + 1 /\ g.hung = h.hung /\ g.dead = h.dead
    BY <1>1, <2>2 DEF Heaps
  <2> HIDE DEF g, n
  <2>4. /\ n + 1 \in 1..MaxChunks /\ InUse(n + 1) = InUse(n) \cup Chunk(n)
        /\ InUse(n) \cap Chunk(n) = {} /\ ChunkStart(n) \in Int
    BY <2>1, NextChunk
  <2>5. g \in Heaps
    <3>1. CHUNK_SIZE \in 0..CHUNK_SIZE
      BY PoolAssumption
    <3> QED BY <1>1, <2>2, <2>4, <3>1 DEF Heaps
  <2>6. Pool(h) = {}
    <3>1. h.start \in Words => h.start \in Int
      BY WordsAre
    <3> QED BY <2>1, <3>1 DEF Pool
  <2>7. ChunkStart(n) \in Words /\ Pool(g) = Chunk(n)
    <3>1. ChunkStart(n) \in Chunk(n)
      BY <2>4, PoolAssumption DEF Chunk
    <3>2. ChunkStart(n) \in Words
      BY <2>4, <3>1, WordsAre
    <3> QED BY <2>3, <3>2 DEF Pool, Chunk
  <2>8. Carved(g, F)
    <3>1. /\ F \subseteq Words \X Slots
          /\ \A q, r \in F : q # r => Extent(q) \cap Extent(r) = {}
          /\ \A q \in F : Extent(q) \subseteq InUse(n)
          /\ \A w \in InUse(n) : \E q \in F : w \in Extent(q)
      BY <2>6 DEF Sound, Carved, n
    <3> QED BY <2>3, <2>4, <2>7, <3>1 DEF Carved
  <2>9. Sound(g, F, G)
    BY <2>3, <2>5, <2>8 DEF Sound, Kept, Chains
  <2> QED BY <2>3, <2>9 DEF g
<1> QED BY <1>2, <1>3

\* Filling an empty list cuts new blocks for it, or the process dies.
LEMMA FillSlotSound ==
  ASSUME NEW h, NEW F, NEW G, Sound(h, F, G), NEW s \in Slots, h.slot[s] = Nil
  PROVE  \E N : /\ N \cap F = {}
                /\ Sound(FillSlot(h, s), F \cup N, G \cup N)
                /\ h.hung => FillSlot(h, s).hung
<1> DEFINE p == IF h.size > s THEN h ELSE NewChunk(HangRest(h))
<1>1. s \in Nat /\ s + 1 <= CHUNK_SIZE /\ CHUNK_SIZE \in Nat /\ CHUNK_SIZE > 0 /\ FILL_BLOCK_CNT \in Nat \ {0}
  BY SlotsFit, PoolAssumption
<1>2. h.size \in Nat
  BY <1>1 DEF Sound, Heaps
<1>3. PICK N : /\ N \cap F = {} /\ Sound(p, F \cup N, G \cup N)
               /\ (h.hung => p.hung) /\ p.slot = h.slot
               /\ p.dead \/ p.size > s
  <2>1. CASE h.size > s
    <3>1. p = h /\ F \cup {} = F /\ G \cup {} = G /\ {} \cap F = {}
      BY <2>1
    <3> HIDE DEF p
    <3> QED BY <2>1, <3>1
  <2>2. CASE ~(h.size > s)
    <3>1. h.size <= s
      BY <1>1, <1>2, <2>2
    <3>2. PICK N : /\ N \cap F = {}
                   /\ Sound(HangRest(h), F \cup N, G \cup N)
                   /\ HangRest(h).slot = h.slot /\ (h.hung => HangRest(h).hung)
                   /\ HangRest(h).dead \/ HangRest(h).size = 0
      BY <3>1, HangRestSound
    <3>3. /\ Sound(NewChunk(HangRest(h)), F \cup N, G \cup N)
          /\ NewChunk(HangRest(h)).slot = HangRest(h).slot
          /\ NewChunk(HangRest(h)).hung = HangRest(h).hung
          /\ NewChunk(HangRest(h)).dead \/ NewChunk(HangRest(h)).size = CHUNK_SIZE
      BY <1>1, <3>2, NewChunkSound
    <3>4. p = NewChunk(HangRest(h)) /\ CHUNK_SIZE > s
      BY <1>1, <2>2
    <3> HIDE DEF p
    <3> QED BY <3>2, <3>3, <3>4
  <2> QED BY <2>1, <2>2
<1>4. FillSlot(h, s) = IF p.dead THEN p
                       ELSE IF p.size >= FILL_BLOCK_CNT * (s + 1) THEN Cut(p, s, FILL_BLOCK_CNT)
                       ELSE Cut(p, s, p.size \div (s + 1))
  BY DEF FillSlot
<1> HIDE DEF p
<1>5. CASE p.dead
  BY <1>3, <1>4, <1>5
<1>6. CASE ~p.dead
  <2>1. p.size \in Nat /\ p.size > s /\ s + 1 \in Nat \ {0}
    BY <1>1, <1>3, <1>6 DEF Sound, Heaps
  <2>2. PICK m, k : m = p.size /\ k = s + 1
    OBVIOUS
  <2>3. m \in Nat /\ k \in Nat \ {0} /\ k <= m
    BY <1>1, <2>1, <2>2
  <2>4. PICK cnt \in Nat \ {0} : cnt * k <= m /\ FillSlot(h, s) = Cut(p, s, cnt)
    <3>1. CASE m >= FILL_BLOCK_CNT * k
      <4>1. FillSlot(h, s) = Cut(p, s, FILL_BLOCK_CNT)
        BY <1>4, <1>6, <2>2, <3>1
      <4>2. FILL_BLOCK_CNT * k <= m
        BY <1>1, <2>3, <3>1
      <4> QED BY <1>1, <4>1, <4>2
    <3>2. CASE ~(m >= FILL_BLOCK_CNT * k)
      <4>1. FillSlot(h, s) = Cut(p, s, m \div k)
        BY <1>4, <1>6, <2>2, <3>2
      <4>2. PICK q : q = m \div k
        OBVIOUS
      <4>3. q \in Nat /\ k * q <= m /\ m < k * q + k
        BY <2>3, <4>2, Quotient
      <4>4. q # 0
        BY <2>3, <4>3
      <4>5. q * k <= m
        BY <2>3, <4>3
      <4> QED BY <4>1, <4>2, <4>3, <4>4, <4>5
    <3> QED BY <3>1, <3>2
  <2>5. PICK M : /\ M \cap (F \cup N) = {}
                 /\ Sound(Cut(p, s, cnt), (F \cup N) \cup M, (G \cup N) \cup M)
                 /\ Cut(p, s, cnt).hung = p.hung
    BY <1>3, <2>2, <2>4, CutSound
  <2>6. (F \cup N) \cup M = F \cup (N \cup M) /\ (G \cup N) \cup M = G \cup (N \cup M) /\ (N \cup M) \cap F = {}
    BY <1>3, <2>5
  <2> QED BY <1>3, <2>4, <2>5, <2>6
<1> QED BY <1>5, <1>6

\* The block that Allocate takes was free, or the process dies.
LEMMA PopSound ==
  ASSUME NEW h, NEW F, NEW G, Sound(h, F, G), NEW s \in Slots
  PROVE  \/ Pop(h, s).dead /\ Pop(h, s).hung = h.hung /\ Sound(Pop(h, s), F, G)
         \/ /\ <<h.slot[s], s>> \in F /\ (~h.hung => <<h.slot[s], s>> \in G)
            /\ ~Pop(h, s).dead /\ Pop(h, s).hung = h.hung
            /\ Sound(Pop(h, s), F, G \ {<<h.slot[s], s>>})
<1> DEFINE g == Pop(h, s)
<1>1. h \in Heaps /\ Carved(h, F) /\ Kept(h, F) /\ G \subseteq F
  BY DEF Sound
<1>2. CASE h.dead \/ h.slot[s] \notin Words
  <2>1. g = [h EXCEPT !.dead = TRUE]
    BY <1>2 DEF Pop
  <2>2. g.hung = h.hung /\ g.dead
    BY <1>1, <2>1 DEF Heaps
  <2>3. Sound(g, F, G)
    BY <2>1, DeadSound
  <2> QED BY <2>2, <2>3
<1>3. CASE ~(h.dead \/ h.slot[s] \notin Words)
  <2>1. PICK w : w = h.slot[s]
    OBVIOUS
  <2> DEFINE H == G \ {<<w, s>>}
  <2>2. w \in Words /\ w \in At(F, s) /\ <<w, s>> \in F
    BY <1>1, <1>3, <2>1, WordsAre DEF Kept, At
  <2>3. ~h.hung => <<w, s>> \in G
    <3> SUFFICES ASSUME ~h.hung PROVE <<w, s>> \in G
      OBVIOUS
    <3>1. Chain(w, h.next, At(G, s))
      BY <2>1 DEF Sound, Chains
    <3>2. w \in At(G, s)
      BY <2>2, <3>1, WordsAre DEF Chain, Leads
    <3> QED BY <3>2 DEF At
  <2>4. g = [h EXCEPT !.slot[s] = h.next[w], !.next[w] = Data]
    BY <1>3, <2>1 DEF Pop
  <2>5. /\ g.slot = [h.slot EXCEPT ![s] = h.next[w]] /\ g.next = [h.next EXCEPT ![w] = Data]
        /\ g.start = h.start /\ g.size = h.size /\ g.chunks = h.chunks /\ g.hung = h.hung
        /\ g.dead = h.dead
    BY <1>1, <2>4 DEF Heaps
  <2> HIDE DEF g
  <2>6. h.slot \in [Slots -> Links] /\ h.next \in [Words -> Links] /\ Data \in Links
    BY <1>1 DEF Heaps, Links
  <2>7. h.next[w] \in Links
    BY <2>2, <2>6
  <2>8. g \in Heaps
    BY <1>1, <2>2, <2>4, <2>6, <2>7 DEF Heaps
  <2>9. Pool(g) = Pool(h)
    BY <2>5 DEF Pool
  <2>10. Carved(g, F)
    BY <1>1, <2>5, <2>9 DEF Carved
  <2>11. \A t \in Slots : w \in At(F, t) <=> t = s
    <3> SUFFICES ASSUME NEW t \in Slots, w \in At(F, t) PROVE t = s
      BY <2>2
    <3>1. <<w, t>> \in F
      BY DEF At
    <3>2. <<w, t>> = <<w, s>>
      BY <2>2, <3>1, FirstWords
    <3> QED BY <3>2
  <2>12. \A t \in Slots : g.slot[t] = IF t = s THEN h.next[w] ELSE h.slot[t]
    BY <2>5, <2>6
  <2>13. \A v \in Words : g.next[v] = IF v = w THEN Data ELSE h.next[v]
    BY <2>5, <2>6
  <2>14. Kept(g, F)
    <3> SUFFICES ASSUME NEW t \in Slots
                 PROVE  /\ g.slot[t] \in At(F, t) \cup {Nil, Data}
                        /\ \A v \in At(F, t) : g.next[v] \in At(F, t) \cup {Nil, Data}
      BY DEF Kept
    <3>1. /\ h.slot[t] \in At(F, t) \cup {Nil, Data}
          /\ \A v \in At(F, t) : h.next[v] \in At(F, t) \cup {Nil, Data}
      BY <1>1 DEF Kept
    <3>2. At(F, t) \subseteq Words
      BY DEF At
    <3> QED BY <2>2, <2>12, <2>13, <3>1, <3>2
  <2>15. ASSUME ~g.hung PROVE Chains(g, H)
    <3> SUFFICES ASSUME NEW t \in Slots PROVE Chain(g.slot[t], g.next, At(H, t))
      BY DEF Chains
    <3>1. Chain(h.slot[t], h.next, At(G, t))
      BY <2>5, <2>15 DEF Sound, Chains
    <3>2. At(H, t) = IF t = s THEN At(G, t) \ {w} ELSE At(G, t)
      BY DEF At
    <3>3. \A v \in At(H, t) : g.next[v] = h.next[v]
      <4>1. \A v \in At(H, t) : v \in Words /\ v # w
        BY <1>1, <2>11 DEF At
      <4> QED BY <2>13, <4>1
    <3> HIDE DEF H
    <3>4. CASE t = s
      <4>1. w \in At(G, s)
        BY <2>2, <2>3, <2>5, <2>15 DEF At
      <4>2. Chain(h.next[w], g.next, At(G, s) \ {w})
        BY <2>1, <3>1, <3>2, <3>3, <3>4, <4>1, ChainPop
      <4> QED BY <2>12, <3>2, <3>4, <4>2
    <3>5. CASE t # s
      BY <2>12, <3>1, <3>2, <3>3, <3>5, ChainSame
    <3> QED BY <3>4, <3>5
  <2>16. H \subseteq F
    BY <1>1
  <2>17. Sound(g, F, H)
    <3> HIDE DEF H
    <3> QED BY <2>8, <2>10, <2>14, <2>15, <2>16 DEF Sound
  <2>18. g.dead = FALSE
    BY <1>1, <1>3, <2>5 DEF Heaps
  <2> QED BY <2>1, <2>2, <2>3, <2>5, <2>17, <2>18 DEF g
<1> QED BY <1>2, <1>3

-----------------------------------------------------------------------------
(* The callers: they have blocks, and until a rest is hung on a list with   *)
(* blocks they have exactly those that are on no list, each once.           *)

Of(b) == <<b.at, get_index(b.size)>>

Owned(h, F, G, L) ==
  /\ L \subseteq [at : Words, size : Small]
  /\ \A b \in L : Of(b) \in F
  /\ ~h.hung => /\ \A b \in L : Of(b) \notin G
                /\ \A b, c \in L : b.at = c.at => b = c
                /\ \A p \in F \ G : \E b \in L : p = Of(b)

Keeps(h, L) == \E F, G : Sound(h, F, G) /\ Owned(h, F, G, L)

IInv == large \in Nat /\ Keeps(Heap, live)

LEMMA PushKeeps ==
  ASSUME NEW h, NEW L, Keeps(h, L), NEW b \in L
  PROVE  Keeps(Push(h, get_index(b.size), b.at), L \ {b})
<1>1. PICK F, G : Sound(h, F, G) /\ Owned(h, F, G, L)
  BY DEF Keeps
<1>2. PICK s, w : s = get_index(b.size) /\ w = b.at
  OBVIOUS
<1>3. /\ s \in Slots /\ <<w, s>> \in F /\ Of(b) = <<w, s>>
      /\ ~h.hung => <<w, s>> \notin G
  BY <1>1, <1>2, SlotOfSize DEF Owned, Of
<1>4. Sound(Push(h, s, w), F, G \cup {<<w, s>>})
  BY <1>1, <1>3, PushSound
<1>5. Push(h, s, w).hung = h.hung
  BY <1>1 DEF Push, Sound, Heaps
<1>6. Owned(Push(h, s, w), F, G \cup {<<w, s>>}, L \ {b})
  <2>1. ASSUME ~h.hung
        PROVE  /\ \A c \in L \ {b} : Of(c) \notin G \cup {<<w, s>>}
               /\ \A p \in F \ (G \cup {<<w, s>>}) : \E c \in L \ {b} : p = Of(c)
    <3>1. \A c \in L : Of(c) = <<w, s>> => c = b
      BY <1>1, <1>2, <2>1 DEF Owned, Of
    <3> QED BY <1>1, <1>3, <2>1, <3>1 DEF Owned
  <2> QED BY <1>1, <1>5, <2>1 DEF Owned
<1> QED BY <1>2, <1>4, <1>6 DEF Keeps

LEMMA FilledKeeps ==
  ASSUME NEW h, NEW L, Keeps(h, L), NEW n \in Small
  PROVE  Keeps(Filled(h, n), L)
<1>1. PICK F, G : Sound(h, F, G) /\ Owned(h, F, G, L)
  BY DEF Keeps
<1>2. PICK s \in Slots : s = get_index(n)
  BY SlotOfSize
<1>3. CASE h.slot[s] = Nil
  <2>1. Filled(h, n) = FillSlot(h, s)
    BY <1>2, <1>3 DEF Filled
  <2>2. PICK N : /\ N \cap F = {}
                 /\ Sound(FillSlot(h, s), F \cup N, G \cup N)
                 /\ h.hung => FillSlot(h, s).hung
    BY <1>1, <1>3, FillSlotSound
  <2>3. Owned(FillSlot(h, s), F \cup N, G \cup N, L)
    BY <1>1, <2>2 DEF Owned
  <2> QED BY <2>1, <2>2, <2>3 DEF Keeps
<1>4. CASE h.slot[s] # Nil
  BY <1>2, <1>4 DEF Filled
<1> QED BY <1>3, <1>4

\* Allocate of a small block.
LEMMA TakeKeeps ==
  ASSUME NEW h, NEW L, Keeps(h, L), NEW n \in Small, NEW f, f = Filled(h, n),
         NEW s, s = get_index(n), NEW M, M = IF Pop(f, s).dead THEN L ELSE L \cup {Block(f.slot[s], n)}
  PROVE  Keeps(Pop(f, s), M)
<1>1. PICK F, G : Sound(f, F, G) /\ Owned(f, F, G, L)
  BY FilledKeeps DEF Keeps
<1>2. s \in Slots
  BY SlotOfSize
<1>3. CASE Pop(f, s).dead
  <2>1. Sound(Pop(f, s), F, G) /\ Pop(f, s).hung = f.hung
    BY <1>1, <1>2, <1>3, PopSound
  <2>2. Owned(Pop(f, s), F, G, L)
    BY <1>1, <2>1 DEF Owned
  <2> QED BY <1>3, <2>1, <2>2 DEF Keeps
<1>4. CASE ~Pop(f, s).dead
  <2>1. PICK w : w = f.slot[s]
    OBVIOUS
  <2>2. /\ <<w, s>> \in F /\ (~f.hung => <<w, s>> \in G)
        /\ Pop(f, s).hung = f.hung
        /\ Sound(Pop(f, s), F, G \ {<<w, s>>})
    BY <1>1, <1>2, <1>4, <2>1, PopSound
  <2>3. PICK b : b = Block(w, n)
    OBVIOUS
  <2>4. b \in [at : Words, size : Small] /\ Of(b) = <<w, s>> /\ b.at = w /\ M = L \cup {b}
    <3>1. w \in Words
      BY <1>1, <2>2, BlocksFit
    <3> QED BY <1>4, <2>1, <2>3, <3>1 DEF Block, Of
  <2>5. ASSUME ~f.hung
        PROVE  /\ \A c \in M : Of(c) \notin G \ {<<w, s>>}
               /\ \A c, d \in M : c.at = d.at => c = d
               /\ \A p \in F \ (G \ {<<w, s>>}) : \E c \in M : p = Of(c)
    <3>1. \A c \in L : c.at # w
      <4> SUFFICES ASSUME NEW c \in L, c.at = w PROVE FALSE
        OBVIOUS
      <4>1. Of(c) \in F /\ Of(c) \notin G /\ Of(c)[1] = w
        BY <1>1, <2>5 DEF Owned, Of
      <4>2. Of(c) = <<w, s>>
        BY <1>1, <2>2, <4>1, FirstWords
      <4> QED BY <2>2, <2>5, <4>1, <4>2
    <3> QED BY <1>1, <2>2, <2>4, <2>5, <3>1 DEF Owned
  <2>6. Owned(Pop(f, s), F, G \ {<<w, s>>}, M)
    BY <1>1, <2>2, <2>4, <2>5 DEF Owned
  <2> QED BY <2>2, <2>6 DEF Keeps
<1> QED BY <1>3, <1>4

-----------------------------------------------------------------------------
(* The invariant holds in every state. *)

LEMMA BecomeIs ==
  ASSUME NEW h, NEW L, Keeps(h, L), Become(h)
  PROVE  Heap' = h
<1>1. h \in Heaps
  BY DEF Keeps, Sound
<1>2. h = [slot |-> h.slot, next |-> h.next, start |-> h.start, size |-> h.size,
           chunks |-> h.chunks, hung |-> h.hung, dead |-> h.dead]
  BY <1>1 DEF Heaps
<1> QED BY <1>2 DEF Become, Heap

LEMMA InitKeeps == Init => IInv
<1> SUFFICES ASSUME Init PROVE IInv
  OBVIOUS
<1>1. /\ Heap.slot = [s \in Slots |-> Nil] /\ Heap.next = [w \in Words |-> Data]
      /\ Heap.start = ChunkStart(0) /\ Heap.size = CHUNK_SIZE /\ Heap.chunks = 1
      /\ Heap.hung = FALSE /\ live = {} /\ large = 0
  BY DEF Init, Heap
<1>2. CHUNK_SIZE \in Nat /\ ChunkStart(0) = 0 /\ MaxChunks \in Nat \ {0}
  BY PoolAssumption DEF ChunkStart
<1>3. Heap \in Heaps
  <2>1. Heap = [slot |-> Heap.slot, next |-> Heap.next, start |-> Heap.start, size |-> Heap.size,
                chunks |-> Heap.chunks, hung |-> Heap.hung, dead |-> Heap.dead]
    BY DEF Heap
  <2>2. Heap.slot \in [Slots -> Links] /\ Heap.next \in [Words -> Links]
    BY <1>1 DEF Links
  <2>3. Heap.start \in Int /\ Heap.size \in 0..CHUNK_SIZE /\ Heap.chunks \in 1..MaxChunks
    BY <1>1, <1>2
  <2>4. Heap.hung \in BOOLEAN /\ Heap.dead \in BOOLEAN
    BY DEF Init, Heap
  <2> HIDE DEF Heap
  <2> QED BY <2>1, <2>2, <2>3, <2>4 DEF Heaps
<1> PICK h : h = Heap
  OBVIOUS
<1>4. InUse(1) = Chunk(0) /\ Chunk(0) = 0 .. CHUNK_SIZE - 1 /\ Chunk(0) \subseteq Words
  <2>1. InUse(1) = Chunk(0)
    BY DEF InUse
  <2>2. Chunk(0) = 0 .. CHUNK_SIZE - 1
    BY <1>2 DEF Chunk
  <2>3. 1 \in 1..MaxChunks
    BY <1>2
  <2> QED BY <2>1, <2>2, <2>3, WordsAre
<1>5. Pool(h) = Chunk(0)
  <2>1. CASE CHUNK_SIZE = 0
    <3>1. h.start .. h.start + h.size - 1 = {} /\ Chunk(0) = {}
      BY <1>1, <1>2, <1>4, <2>1
    <3> QED BY <3>1 DEF Pool
  <2>2. CASE CHUNK_SIZE # 0
    <3>1. 0 \in Words
      BY <1>2, <1>4, <2>2
    <3> QED BY <1>1, <1>2, <1>4, <3>1 DEF Pool
  <2> QED BY <2>1, <2>2
<1>6. Carved(h, {})
  <2>1. h.size > 0 => h.start \in Words
    BY <1>1, <1>2, <1>4
  <2> QED BY <1>1, <1>4, <1>5, <2>1 DEF Carved
<1>7. Kept(h, {})
  BY <1>1 DEF Kept, At
<1>8. Chains(h, {})
  <2> SUFFICES ASSUME NEW s \in Slots PROVE Chain(h.slot[s], h.next, At({}, s))
    BY DEF Chains
  <2>1. At({}, s) = {} /\ h.slot[s] = Nil
    BY <1>1 DEF At
  <2> QED BY <2>1, ChainEmpty
<1>9. Sound(h, {}, {})
  BY <1>3, <1>6, <1>7, <1>8 DEF Sound
<1>10. Owned(h, {}, {}, live)
  BY <1>1 DEF Owned
<1> QED BY <1>1, <1>9, <1>10 DEF IInv, Keeps

LEMMA NextKeeps == IInv /\ [Next]_vars => IInv'
<1> SUFFICES ASSUME IInv, [Next]_vars PROVE IInv'
  OBVIOUS
<1>1. large \in Nat /\ Keeps(Heap, live)
  BY DEF IInv
<1>2. ASSUME NEW h, NEW L, Keeps(h, L), NEW n \in Small, Take(h, n, L)
      PROVE  Keeps(Heap', live')
  <2>1. PICK f, s : f = Filled(h, n) /\ s = get_index(n)
    OBVIOUS
  <2>2. Become(Pop(f, s)) /\ live' = IF Pop(f, s).dead THEN L ELSE L \cup {Block(f.slot[s], n)}
    BY <1>2, <2>1 DEF Take
  <2>3. Keeps(Pop(f, s), live')
    BY <1>2, <2>1, <2>2, TakeKeeps
  <2>4. Heap' = Pop(f, s)
    BY <2>2, <2>3, BecomeIs
  <2> QED BY <2>3, <2>4
<1>3. ASSUME NEW b \in live PROVE Keeps(Push(Heap, get_index(b.size), b.at), live \ {b})
  BY <1>1, PushKeeps
<1>4. ASSUME NEW b \in live, Become(Push(Heap, get_index(b.size), b.at)), live' = live \ {b}
      PROVE  Keeps(Heap', live')
  BY <1>3, <1>4, BecomeIs
<1>5. ASSUME UNCHANGED <<memory_slot, pool, live, hung, dead>>
      PROVE  Keeps(Heap', live')
  BY <1>1, <1>5 DEF pool, Heap
<1>6. \A n \in Nat : n > 0 => n - 1 \in Nat
  OBVIOUS
<1>7. CASE UNCHANGED vars
  BY <1>1, <1>5, <1>7 DEF vars, IInv, pool
<1>8. ASSUME NEW n \in Sizes, Allocate(n) PROVE IInv'
  BY <1>1, <1>2, <1>5, <1>8 DEF Allocate, IInv
<1>9. ASSUME NEW n \in Sizes, ReallocateLarge(n) PROVE IInv'
  BY <1>1, <1>2, <1>5, <1>6, <1>9 DEF ReallocateLarge, IInv
<1>10. ASSUME NEW b \in live, Deallocate(b) PROVE IInv'
  BY <1>1, <1>4, <1>10 DEF Deallocate, IInv
<1>11. ASSUME NEW b \in live, NEW n \in Sizes, Reallocate(b, n) PROVE IInv'
  <2>1. CASE n \in Small /\ Take(Push(Heap, get_index(b.size), b.at), n, live \ {b}) /\ UNCHANGED large
    BY <1>1, <1>2, <1>3, <2>1 DEF IInv
  <2>2. CASE Become(Push(Heap, get_index(b.size), b.at)) /\ live' = live \ {b} /\ large' \in {large, large + 1}
    BY <1>1, <1>4, <2>2 DEF IInv
  <2> QED BY <1>11, <2>1, <2>2 DEF Reallocate
<1>12. CASE DeallocateLarge
  BY <1>1, <1>5, <1>6, <1>12 DEF DeallocateLarge, IInv
<1> QED BY <1>7, <1>8, <1>9, <1>10, <1>11, <1>12 DEF Next

LEMMA Invariant == Spec => []IInv
BY InitKeeps, NextKeeps, PTL DEF Spec

-----------------------------------------------------------------------------
(* What it says. *)

\* Every variable of FreeListAllocate holds a value of its type.
THEOREM TypeCorrect == Spec => []TypeOK
<1>1. IInv => TypeOK
  <2> SUFFICES ASSUME IInv PROVE TypeOK
    OBVIOUS
  <2>1. PICK F, G : Sound(Heap, F, G) /\ Owned(Heap, F, G, live)
    BY DEF IInv, Keeps
  <2>2. /\ Heap.slot \in [Slots -> Links] /\ Heap.next \in [Words -> Links]
        /\ Heap.start \in Int \cup {Nil} /\ Heap.size \in 0..CHUNK_SIZE
        /\ Heap.chunks \in 1..MaxChunks /\ Heap.hung \in BOOLEAN /\ Heap.dead \in BOOLEAN
    BY <2>1 DEF Sound, Heaps
  <2>3. live \subseteq [at : Words, size : Small] /\ large \in Nat
    BY <2>1 DEF Owned, IInv
  <2> QED BY <2>2, <2>3 DEF TypeOK, Heap, Links
<1> QED BY <1>1, Invariant, PTL

\* A caller's block is as long as it asked for and in one chunk.
THEOREM BlocksFitTheirChunk == Spec => []FitsItsChunk
<1>1. IInv => FitsItsChunk
  <2> SUFFICES ASSUME IInv, NEW b \in live PROVE Covers(b) \subseteq Words
    BY DEF FitsItsChunk
  <2>1. PICK F, G : Sound(Heap, F, G) /\ Owned(Heap, F, G, live)
    BY DEF IInv, Keeps
  <2>2. Of(b) \in F /\ Covers(b) = Extent(Of(b))
    BY <2>1 DEF Owned, Covers, Extent, Of
  <2> QED BY <2>1, <2>2, BlocksFit
<1> QED BY <1>1, Invariant, PTL

\* f[i] has the blocks of a list that are found in i steps.
Found(f, W, b, link, N) ==
  /\ f \in [0..N -> SUBSET W] /\ f[0] = b
  /\ \A i \in 1..N : f[i] = f[i - 1] \cup ({link[w] : w \in f[i - 1]} \cap W)

LEMMA FoundExists ==
  ASSUME NEW W, NEW b \in SUBSET W, NEW link, NEW N \in Nat
  PROVE  \E f : Found(f, W, b, link, N)
<1>0. PICK S : S = SUBSET W
  OBVIOUS
<1>1. PICK step : step = [c \in S |-> c \cup ({link[w] : w \in c} \cap W)]
  OBVIOUS
<1>2. step \in [S -> S] /\ b \in S
  BY <1>0, <1>1
<1>3. PICK f : Iterated(f, S, b, step, N)
  BY <1>2, Iterates
<1>4. f \in [0..N -> S] /\ f[0] = b /\ \A i \in 1..N : f[i] = step[f[i - 1]]
  BY <1>3 DEF Iterated
<1>5. \A i \in 1..N : f[i - 1] \in S
  BY <1>4
<1>6. \A i \in 1..N : f[i] = f[i - 1] \cup ({link[w] : w \in f[i - 1]} \cap W)
  BY <1>1, <1>4, <1>5
<1>7. Found(f, W, b, link, N)
  BY <1>0, <1>4, <1>6 DEF Found
<1> QED BY <1>7

\* The recursive walk over a list finds the blocks that are linked.
LEMMA OnListIs ==
  ASSUME NEW F, NEW G, Sound(Heap, F, G), ~hung, NEW s \in Slots
  PROVE  OnList(s) = At(G, s)
<1> DEFINE W == Words
           N == Cardinality(W)
           first == memory_slot[s]
           Body(u) == [i \in 0..N |-> IF i = 0 THEN {first} \cap W
                                      ELSE LET b == u[i - 1] IN b \cup ({next[w] : w \in b} \cap W)]
           upTo == CHOOSE u : u = Body(u)
<1>1. OnList(s) = upTo[N]
  BY DEF OnList
<1>2. IsFiniteSet(W) /\ N \in Nat
  BY WordsAre, FS_CardinalityType
<1>3. PICK f : Found(f, W, {first} \cap W, next, N)
  <2>1. {first} \cap W \in SUBSET W
    OBVIOUS
  <2> HIDE DEF W, N
  <2> QED BY <1>2, <2>1, FoundExists
<1>4. ASSUME NEW i \in 0..N, i # 0 PROVE i - 1 \in 0..N /\ i \in 1..N
  BY <1>2, <1>4
<1>5. \A i \in 0..N : f[i] = IF i = 0 THEN {first} \cap W
                             ELSE f[i - 1] \cup ({next[w] : w \in f[i - 1]} \cap W)
  BY <1>3, <1>4 DEF Found
<1>6. f = Body(f)
  BY <1>3, <1>5 DEF Found
<1>7. upTo = Body(upTo)
  <2> HIDE DEF Body
  <2> QED BY <1>6
<1> HIDE DEF upTo
<1>8. PICK u : u = upTo
  OBVIOUS
<1>9. \A i \in 0..N : u[i] = IF i = 0 THEN {first} \cap W
                             ELSE u[i - 1] \cup ({next[w] : w \in u[i - 1]} \cap W)
  BY <1>7, <1>8
<1>10. u \in [0..N -> SUBSET W]
  <2> DEFINE T == {i \in Nat : i <= N => u[i] \in SUBSET W}
  <2>1. 0 \in T
    <3>1. 0 \in 0..N
      BY <1>2
    <3>2. u[0] = {first} \cap W
      BY <1>9, <3>1
    <3> QED BY <3>2
  <2>2. ASSUME NEW i \in Nat, i \in T PROVE i + 1 \in T
    <3> SUFFICES ASSUME i + 1 <= N PROVE u[i + 1] \in SUBSET W
      OBVIOUS
    <3>1. u[i] \in SUBSET W /\ i + 1 \in 0..N /\ i + 1 # 0 /\ (i + 1) - 1 = i
      BY <1>2, <2>2
    <3>2. u[i + 1] = u[i] \cup ({next[w] : w \in u[i]} \cap W)
      BY <1>9, <3>1
    <3> QED BY <3>1, <3>2
  <2> HIDE DEF T
  <2>3. \A i \in Nat : i \in T
    BY <2>1, <2>2, Induction
  <2>4. \A i \in 0..N : u[i] \in SUBSET W
    BY <1>2, <2>3 DEF T
  <2>5. u = [i \in 0..N |-> u[i]]
    BY <1>7, <1>8
  <2> QED BY <2>4, <2>5
<1>11. Chain(first, next, At(G, s)) /\ At(G, s) \in SUBSET W /\ Nil \notin W
  BY WordsAre DEF Sound, Chains, Heap, At
<1>12. u[0] = {first} \cap W /\ \A i \in 1..N : u[i] = u[i - 1] \cup ({next[w] : w \in u[i - 1]} \cap W)
  <2>1. 0 \in 0..N /\ \A i \in 1..N : i \in 0..N /\ i # 0
    BY <1>2
  <2> QED BY <1>9, <2>1
<1> HIDE DEF W, first
<1>13. u[N] = At(G, s)
  BY <1>2, <1>10, <1>11, <1>12, ChainReached
<1> QED BY <1>1, <1>8, <1>13

\* What the pieces of memory are, until a rest is hung on a list with blocks.
LEMMA PiecesAre ==
  ASSUME NEW F, NEW G, Sound(Heap, F, G), Owned(Heap, F, G, live), ~hung
  PROVE  \A p : p \in Pieces <=>
           \/ \E b \in live : p = Piece("live", b.size, Extent(Of(b)))
           \/ \E s \in Slots : \E w \in At(G, s) : p = Piece("free", s, Extent(<<w, s>>))
           \/ mem_pool_start \in Words /\ p = Piece("pool", 0, Pool(Heap))
<1>1. \A b \in live : Covers(b) = Extent(Of(b))
  BY DEF Covers, Extent, Of
<1>2. \A s \in Slots : OnList(s) = At(G, s)
  BY OnListIs
<1>3. \A s, w : Extent(<<w, s>>) = w .. w + s
  BY DEF Extent
<1>4. mem_pool_start \in Words => Pool(Heap) = mem_pool_start .. mem_pool_start + mem_pool_size - 1
  BY DEF Pool, Heap
<1> DEFINE A == {Piece("live", b.size, Covers(b)) : b \in live}
           B == UNION {{Piece("free", s, w .. w + s) : w \in OnList(s)} : s \in Slots}
           C == {Piece("pool", 0, w .. w + mem_pool_size - 1) : w \in {mem_pool_start} \cap Words}
<1>5. \A p : p \in A <=> \E b \in live : p = Piece("live", b.size, Extent(Of(b)))
  BY <1>1
<1>6. \A p : p \in B <=> \E s \in Slots : \E w \in At(G, s) : p = Piece("free", s, Extent(<<w, s>>))
  <2> TAKE p
  <2>1. p \in B <=> \E s \in Slots : p \in {Piece("free", s, w .. w + s) : w \in OnList(s)}
    OBVIOUS
  <2>2. \A s \in Slots : p \in {Piece("free", s, w .. w + s) : w \in OnList(s)}
                         <=> \E w \in At(G, s) : p = Piece("free", s, Extent(<<w, s>>))
    BY <1>2, <1>3
  <2> HIDE DEF B
  <2> QED BY <2>1, <2>2
<1>7. \A p : p \in C <=> mem_pool_start \in Words /\ p = Piece("pool", 0, Pool(Heap))
  <2> TAKE p
  <2>1. p \in C <=> \E w \in Words : w = mem_pool_start /\ p = Piece("pool", 0, w .. w + mem_pool_size - 1)
    OBVIOUS
  <2> HIDE DEF C
  <2> QED BY <1>4, <2>1
<1>8. Pieces = A \cup B \cup C
  BY DEF Pieces
<1> HIDE DEF A, B, C
<1> QED BY <1>5, <1>6, <1>7, <1>8

\* No word is in two places: in two blocks that callers have, in one and on a
\* list, in one and in the pool.
THEOREM PiecesApart == Spec => []Apart
<1>1. IInv => Apart
  <2> SUFFICES ASSUME IInv, ~hung, NEW p \in Pieces, NEW q \in Pieces, p # q
               PROVE  p.words \cap q.words = {}
    BY DEF Apart
  <2>1. PICK F, G : Sound(Heap, F, G) /\ Owned(Heap, F, G, live)
    BY DEF IInv, Keeps
  <2> DEFINE OfLive(r) == \E b \in live : r = Piece("live", b.size, Extent(Of(b)))
             OfFree(r) == \E s \in Slots : \E w \in At(G, s) : r = Piece("free", s, Extent(<<w, s>>))
             OfPool(r) == r = Piece("pool", 0, Pool(Heap))
  <2>2. \A r \in Pieces : OfLive(r) \/ OfFree(r) \/ OfPool(r)
    BY <2>1, PiecesAre
  <2>3. \A d, e \in F : d # e => Extent(d) \cap Extent(e) = {}
    BY <2>1 DEF Sound, Carved
  <2>4. \A e \in F : Extent(e) \cap Pool(Heap) = {}
    BY <2>1 DEF Sound, Carved
  <2>5. /\ \A b \in live : Of(b) \in F \ G
        /\ \A b, c \in live : Of(b) = Of(c) => b = c
    BY <2>1 DEF Owned, Of, Heap
  <2>6. \A s \in Slots : \A w \in At(G, s) : <<w, s>> \in F /\ <<w, s>> \in G
    BY <2>1 DEF Sound, At
  <2>7. ASSUME NEW r, NEW t, OfLive(r), OfLive(t), r # t PROVE r.words \cap t.words = {}
    <3>1. PICK b \in live : r = Piece("live", b.size, Extent(Of(b)))
      BY <2>7
    <3>2. PICK c \in live : t = Piece("live", c.size, Extent(Of(c)))
      BY <2>7
    <3>3. Of(b) # Of(c)
      BY <2>5, <2>7, <3>1, <3>2
    <3> QED BY <2>3, <2>5, <3>1, <3>2, <3>3 DEF Piece
  <2>8. ASSUME NEW r, NEW t, OfLive(r), OfFree(t) PROVE r.words \cap t.words = {}
    <3>1. PICK b \in live : r = Piece("live", b.size, Extent(Of(b)))
      BY <2>8
    <3>2. PICK s \in Slots : \E w \in At(G, s) : t = Piece("free", s, Extent(<<w, s>>))
      BY <2>8
    <3>3. PICK w \in At(G, s) : t = Piece("free", s, Extent(<<w, s>>))
      BY <3>2
    <3>4. Of(b) # <<w, s>>
      BY <2>5, <2>6
    <3> QED BY <2>3, <2>5, <2>6, <3>1, <3>3, <3>4 DEF Piece
  <2>9. ASSUME NEW r, NEW t, OfFree(r), OfFree(t), r # t PROVE r.words \cap t.words = {}
    <3>1. PICK s \in Slots : \E w \in At(G, s) : r = Piece("free", s, Extent(<<w, s>>))
      BY <2>9
    <3>2. PICK w \in At(G, s) : r = Piece("free", s, Extent(<<w, s>>))
      BY <3>1
    <3>3. PICK u \in Slots : \E v \in At(G, u) : t = Piece("free", u, Extent(<<v, u>>))
      BY <2>9
    <3>4. PICK v \in At(G, u) : t = Piece("free", u, Extent(<<v, u>>))
      BY <3>3
    <3>5. <<w, s>> # <<v, u>>
      BY <2>9, <3>2, <3>4
    <3> QED BY <2>3, <2>6, <3>2, <3>4, <3>5 DEF Piece
  <2>10. ASSUME NEW r, NEW t, OfLive(r) \/ OfFree(r), OfPool(t) PROVE r.words \cap t.words = {}
    <3>1. \E e \in F : r.words = Extent(e)
      <4>1. CASE OfLive(r)
        BY <2>5, <4>1 DEF Piece
      <4>2. CASE OfFree(r)
        BY <2>6, <4>2 DEF Piece
      <4> QED BY <2>10, <4>1, <4>2
    <3> QED BY <2>4, <2>10, <3>1 DEF Piece
  <2>11. \A r, t : OfPool(r) /\ OfPool(t) => r = t
    OBVIOUS
  <2> HIDE DEF OfLive, OfFree, OfPool
  <2>12. \A r, t : r.words \cap t.words = t.words \cap r.words
    OBVIOUS
  <2> QED BY <2>2, <2>7, <2>8, <2>9, <2>10, <2>11, <2>12
<1> QED BY <1>1, Invariant, PTL

\* Every word of a chunk is in a block of a caller, on a list or in the pool.
THEOREM WordsNotLost == Spec => []NothingLost
<1>1. IInv => NothingLost
  <2> SUFFICES ASSUME IInv, ~hung
               PROVE  UNION {p.words : p \in Pieces} = InUse(chunks)
    BY DEF NothingLost, InUse, Chunk
  <2>1. PICK F, G : Sound(Heap, F, G) /\ Owned(Heap, F, G, live)
    BY DEF IInv, Keeps
  <2>2. /\ \A e \in F : Extent(e) \subseteq InUse(chunks)
        /\ Pool(Heap) \subseteq InUse(chunks)
        /\ \A w \in InUse(chunks) : w \in Pool(Heap) \/ \E e \in F : w \in Extent(e)
    BY <2>1 DEF Sound, Carved, Heap
  <2>3. ASSUME NEW p \in Pieces PROVE p.words \subseteq InUse(chunks)
    <3>1. \/ \E b \in live : p = Piece("live", b.size, Extent(Of(b)))
          \/ \E s \in Slots : \E w \in At(G, s) : p = Piece("free", s, Extent(<<w, s>>))
          \/ p = Piece("pool", 0, Pool(Heap))
      BY <2>1, PiecesAre
    <3>2. CASE \E b \in live : p = Piece("live", b.size, Extent(Of(b)))
      BY <2>1, <2>2, <3>2 DEF Owned, Piece
    <3>3. CASE \E s \in Slots : \E w \in At(G, s) : p = Piece("free", s, Extent(<<w, s>>))
      <4>1. \A s \in Slots : \A w \in At(G, s) : <<w, s>> \in F
        BY <2>1 DEF Sound, At
      <4> QED BY <2>2, <3>3, <4>1 DEF Piece
    <3>4. CASE p = Piece("pool", 0, Pool(Heap))
      BY <2>2, <3>4 DEF Piece
    <3> QED BY <3>1, <3>2, <3>3, <3>4
  <2>4. ASSUME NEW w \in InUse(chunks) PROVE \E p \in Pieces : w \in p.words
    <3>1. CASE w \in Pool(Heap)
      <4>1. mem_pool_start \in Words
        BY <3>1 DEF Pool, Heap
      <4>2. Piece("pool", 0, Pool(Heap)) \in Pieces
        BY <2>1, <4>1, PiecesAre
      <4> QED BY <3>1, <4>2 DEF Piece
    <3>2. ASSUME NEW e \in F, w \in Extent(e) PROVE \E p \in Pieces : w \in p.words
      <4>1. CASE e \in G
        <5>1. PICK v \in Words, s \in Slots : e = <<v, s>>
          BY <2>1 DEF Sound, Carved
        <5>2. v \in At(G, s)
          BY <4>1, <5>1 DEF At
        <5>3. Piece("free", s, Extent(<<v, s>>)) \in Pieces
          BY <2>1, <5>2, PiecesAre
        <5> QED BY <3>2, <5>1, <5>3 DEF Piece
      <4>2. CASE e \notin G
        <5>1. PICK b \in live : e = Of(b)
          BY <2>1, <4>2 DEF Owned, Heap
        <5>2. Piece("live", b.size, Extent(Of(b))) \in Pieces
          BY <2>1, PiecesAre
        <5> QED BY <3>2, <5>1, <5>2 DEF Piece
      <4> QED BY <4>1, <4>2
    <3> QED BY <2>2, <3>1, <3>2
  <2> QED BY <2>3, <2>4
<1> QED BY <1>1, Invariant, PTL
=============================================================================

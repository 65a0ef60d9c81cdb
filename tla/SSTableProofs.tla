--------------------------- MODULE SSTableProofs ----------------------------
(***************************************************************************)
(* The SST builders: what a block's records and restart points are worth   *)
(* when the block is read by its schema, and what the index and the filter *)
(* say of the keys, for any keys, values, block size and restart interval. *)
(***************************************************************************)
EXTENDS SSTable, DataProofs

Text == Seq(0..Byte - 1)
Rec == [shared : Nat, rest : Text, val : ValLens]
Entry == [key : Text, val : ValLens]

LEMMA KeysAreTexts == \A k \in Keys : k \in Text
BY KeyAssumption DEF Text

-----------------------------------------------------------------------------
(* Sizes: a fold over the records is the sum of theirs. *)

Sizes(rs) == [i \in DOMAIN rs |-> RecSize(rs[i])]

LEMMA RecSizeNat == \A r \in Rec : RecSize(r) \in Nat /\ RecSize(r) > 0
<1> TAKE r \in Rec
<1>1. Len(r.rest) \in Nat /\ r.val \in Nat
  <2>1. r.rest \in Text /\ r.val \in ValLens
    BY DEF Rec
  <2>2. Len(r.rest) \in Nat
    BY <2>1 DEF Text
  <2>3. r.val \in Nat
    BY <2>1, SizeAssumption
  <2> QED BY <2>2, <2>3
<1> QED BY <1>1 DEF RecSize

LEMMA SizesNat ==
  ASSUME NEW rs \in Seq(Rec)
  PROVE  /\ DOMAIN rs = 1..Len(rs) /\ IsFiniteSet(DOMAIN rs)
         /\ \A i \in DOMAIN rs : Sizes(rs)[i] \in Nat /\ Sizes(rs)[i] > 0
<1>1. \A i \in DOMAIN rs : rs[i] \in Rec
  OBVIOUS
<1>2. \A i \in DOMAIN rs : Sizes(rs)[i] \in Nat /\ Sizes(rs)[i] > 0
  BY <1>1, RecSizeNat DEF Sizes
<1>3. DOMAIN rs = 1..Len(rs) /\ Len(rs) \in Nat
  OBVIOUS
<1> QED BY <1>2, <1>3, FS_Interval

LEMMA DataSizeIs ==
  ASSUME NEW rs \in Seq(Rec)
  PROVE  DataSize(rs) = SumFunctionOnSet(Sizes(rs), DOMAIN rs)
<1> DEFINE S == DOMAIN rs
           f == Sizes(rs)
           Body(h) == [s \in SUBSET S |-> IF s = {} THEN 0
                                          ELSE h[s \ {Max(s)}] + RecSize(rs[Max(s)])]
           h == CHOOSE g : g = Body(g)
<1>1. /\ S = 1..Len(rs) /\ IsFiniteSet(S)
      /\ \A i \in S : f[i] \in Nat /\ f[i] = RecSize(rs[i])
  <2>1. \A i \in S : f[i] = RecSize(rs[i])
    BY DEF Sizes
  <2>2. S = 1..Len(rs) /\ IsFiniteSet(S) /\ \A i \in S : f[i] \in Nat
    BY SizesNat
  <2> QED BY <2>1, <2>2
<1>2. \A s \in SUBSET S : s # {} => Max(s) \in s
  <2> SUFFICES ASSUME NEW s \in SUBSET S, s # {} PROVE Max(s) \in s
    OBVIOUS
  <2>1. s \subseteq 1..Len(rs) /\ Len(rs) \in Nat
    BY <1>1
  <2>2. PICK m \in s : \A y \in s : m >= y
    BY <2>1, HasGreatest
  <2> QED BY <2>2 DEF Max
<1>3. PICK G : IsSum(G, f, S)
  <2>1. \A i \in S : f[i] \in Int
    BY <1>1
  <2> HIDE DEF f, S
  <2> QED BY <1>1, <2>1, HasSum
<1>4. DataSize(rs) = h[S]
  BY DEF DataSize, FoldLeft, MapThenFoldSet
<1> HIDE DEF S, f
<1>5. G = Body(G)
  <2>1. ASSUME NEW s \in SUBSET S, s # {} PROVE G[s] = G[s \ {Max(s)}] + RecSize(rs[Max(s)])
    <3>1. PICK m \in s : m = Max(s)
      BY <1>2, <2>1
    <3>2. G[s] = f[m] + G[s \ {m}] /\ G[s \ {m}] \in Int /\ f[m] = RecSize(rs[m]) /\ f[m] \in Nat
      BY <1>1, <1>3 DEF IsSum
    <3> QED BY <3>1, <3>2
  <2>2. G = [s \in SUBSET S |-> G[s]] /\ G[{}] = 0
    BY <1>3 DEF IsSum
  <2> QED BY <2>1, <2>2
<1>6. h = Body(h)
  <2> HIDE DEF Body
  <2> QED BY <1>5
<1> HIDE DEF h
<1> DEFINE any == [s \in SUBSET S |-> Max(s)]
<1>7. Folds(h, f, S, any)
  <2>1. h[{}] = 0
    BY <1>6
  <2>2. ASSUME NEW s \in (SUBSET S) \ {{}} PROVE h[s] = h[s \ {any[s]}] + f[any[s]] /\ any[s] \in s
    <3>1. any[s] = Max(s) /\ Max(s) \in S /\ Max(s) \in s /\ s # {}
      BY <1>2
    <3>2. f[Max(s)] = RecSize(rs[Max(s)])
      BY <1>1, <3>1
    <3>a. \A u \in SUBSET S : h[u] = IF u = {} THEN 0 ELSE h[u \ {Max(u)}] + RecSize(rs[Max(u)])
      BY <1>6, Zenon
    <3>3. h[s] = h[s \ {Max(s)}] + RecSize(rs[Max(s)])
      BY <3>1, <3>a
    <3> HIDE DEF any
    <3> QED BY <3>1, <3>2, <3>3
  <2> HIDE DEF any
  <2> QED BY <2>1, <2>2 DEF Folds
<1>9. h[S] = G[S]
  <2>1. \A i \in S : f[i] \in Int
    BY <1>1
  <2> HIDE DEF any
  <2> QED BY <1>1, <1>3, <1>7, <2>1, FoldIsSum
<1>10. SumFunctionOnSet(f, S) = G[S]
  <2>1. \A i \in S : f[i] \in Int
    BY <1>1
  <2> QED BY <1>1, <1>3, <2>1, SumIsSum
<1> QED BY <1>4, <1>9, <1>10 DEF S, f

LEMMA DataSizeNat == \A rs \in Seq(Rec) : DataSize(rs) \in Nat
BY DataSizeIs, SizesNat, SumNat

LEMMA SizeOfNone == DataSize(<<>>) = 0
<1>1. <<>> \in Seq(Rec) /\ DOMAIN <<>> = {}
  OBVIOUS
<1> QED BY <1>1, DataSizeIs, SumOfNone

LEMMA SizeOfAppend ==
  ASSUME NEW rs \in Seq(Rec), NEW r \in Rec
  PROVE  DataSize(Append(rs, r)) = DataSize(rs) + RecSize(r)
<1> DEFINE S == DOMAIN rs
           n == Len(rs) + 1
           f == Sizes(Append(rs, r))
           g == Sizes(rs)
<1>1. Append(rs, r) \in Seq(Rec) /\ Len(rs) \in Nat /\ S = 1..Len(rs)
  OBVIOUS
<1>2. DOMAIN Append(rs, r) = S \cup {n} /\ n \notin S
  BY <1>1
<1>3. f[n] = RecSize(r)
  BY <1>1, <1>2 DEF Sizes
<1>4. \A i \in S : g[i] = f[i]
  BY <1>1, <1>2 DEF Sizes
<1>5. IsFiniteSet(S) /\ \A i \in S : g[i] \in Nat
  BY SizesNat
<1>6. DataSize(Append(rs, r)) = SumFunctionOnSet(f, S \cup {n})
  BY <1>1, <1>2, DataSizeIs
<1>7. DataSize(rs) = SumFunctionOnSet(g, S)
  BY DataSizeIs
<1>8. RecSize(r) \in Nat
  BY RecSizeNat
<1> HIDE DEF S, n, f, g
<1>9. SumFunctionOnSet(g, S) \in Nat
  BY <1>5, SumNat
<1>10. \A i \in S : f[i] \in Int /\ g[i] = f[i]
  BY <1>4, <1>5
<1>11. SumFunctionOnSet(f, S) = SumFunctionOnSet(g, S)
  BY <1>5, <1>10, SumOfSame
<1>12. f[n] \in Int
  BY <1>3, <1>8
<1>13. SumFunctionOnSet(f, S \cup {n}) = f[n] + SumFunctionOnSet(f, S)
  BY <1>2, <1>5, <1>10, <1>12, SumOfOneMore
<1> QED BY <1>3, <1>6, <1>7, <1>8, <1>9, <1>11, <1>13

\* Where the records start: each behind the one before.
SizeUpTo(rs, i) == DataSize(SubSeq(rs, 1, i))

LEMMA OneMoreRecord ==
  ASSUME NEW S, NEW rs \in Seq(S), NEW i \in 0..Len(rs) - 1
  PROVE  SubSeq(rs, 1, i + 1) = Append(SubSeq(rs, 1, i), rs[i + 1])
OBVIOUS

LEMMA SizesGrow ==
  ASSUME NEW rs \in Seq(Rec)
  PROVE  /\ SizeUpTo(rs, 0) = 0 /\ SizeUpTo(rs, Len(rs)) = DataSize(rs)
         /\ \A i \in 0..Len(rs) : SizeUpTo(rs, i) \in Nat
         /\ \A j \in 0..Len(rs) : \A i \in 0..j - 1 : SizeUpTo(rs, i) < SizeUpTo(rs, j)
<1>1. SubSeq(rs, 1, 0) = <<>> /\ SubSeq(rs, 1, Len(rs)) = rs /\ Len(rs) \in Nat
  OBVIOUS
<1>2. \A i \in 0..Len(rs) : SubSeq(rs, 1, i) \in Seq(Rec)
  OBVIOUS
<1>3. ASSUME NEW i \in 0..Len(rs) - 1
      PROVE  SizeUpTo(rs, i) < SizeUpTo(rs, i + 1)
  <2>1. rs[i + 1] \in Rec /\ i \in 0..Len(rs)
    BY <1>1
  <2>2. SizeUpTo(rs, i + 1) = DataSize(Append(SubSeq(rs, 1, i), rs[i + 1]))
    BY OneMoreRecord DEF SizeUpTo
  <2>3. /\ DataSize(Append(SubSeq(rs, 1, i), rs[i + 1])) = SizeUpTo(rs, i) + RecSize(rs[i + 1])
        /\ SizeUpTo(rs, i) \in Nat
    BY <1>2, <2>1, SizeOfAppend, DataSizeNat DEF SizeUpTo
  <2>4. RecSize(rs[i + 1]) \in Nat /\ RecSize(rs[i + 1]) > 0
    BY <2>1, RecSizeNat
  <2> QED BY <2>2, <2>3, <2>4
<1>4. \A i \in 0..Len(rs) : SizeUpTo(rs, i) \in Nat
  BY <1>2, DataSizeNat DEF SizeUpTo
<1> DEFINE T == {j \in Nat : j <= Len(rs) => \A i \in 0..j - 1 : SizeUpTo(rs, i) < SizeUpTo(rs, j)}
<1>5. 0 \in T
  OBVIOUS
<1>6. ASSUME NEW j \in Nat, j \in T PROVE j + 1 \in T
  <2> SUFFICES ASSUME j + 1 <= Len(rs), NEW i \in 0..j PROVE SizeUpTo(rs, i) < SizeUpTo(rs, j + 1)
    OBVIOUS
  <2>1. SizeUpTo(rs, j) < SizeUpTo(rs, j + 1) /\ i \in 0..Len(rs) /\ j \in 0..Len(rs)
        /\ j + 1 \in 0..Len(rs)
    BY <1>1, <1>3
  <2>2. i = j \/ SizeUpTo(rs, i) < SizeUpTo(rs, j)
    BY <1>6, <2>1
  <2>3. SizeUpTo(rs, i) \in Nat /\ SizeUpTo(rs, j) \in Nat /\ SizeUpTo(rs, j + 1) \in Nat
    BY <1>4, <2>1
  <2> QED BY <2>1, <2>2, <2>3
<1> HIDE DEF T
<1>7. \A j \in Nat : j \in T
  BY <1>5, <1>6, Induction
<1>8. \A j \in 0..Len(rs) : \A i \in 0..j - 1 : SizeUpTo(rs, i) < SizeUpTo(rs, j)
  BY <1>1, <1>7 DEF T
<1> QED BY <1>1, <1>4, <1>8, SizeOfNone DEF SizeUpTo

-----------------------------------------------------------------------------
(* Reading. *)

\* A sequence that was cut into pieces is what the pieces flatten to.
Pieces(seqs, es, cut) ==
  /\ cut \in [0..Len(seqs) -> 0..Len(es)] /\ cut[0] = 0
  /\ \A j \in 1..Len(seqs) : cut[j - 1] <= cut[j] /\ seqs[j] = SubSeq(es, cut[j - 1] + 1, cut[j])

LEMMA PieceIs ==
  ASSUME NEW seqs, NEW es, NEW cut, NEW m \in Nat, m = Len(seqs), Pieces(seqs, es, cut), NEW j \in 1..m
  PROVE  /\ cut[j - 1] \in 0..Len(es) /\ cut[j] \in 0..Len(es) /\ cut[j - 1] <= cut[j]
         /\ seqs[j] = SubSeq(es, cut[j - 1] + 1, cut[j])
BY j - 1 \in 0..m, j \in 0..m DEF Pieces

LEMMA Glue ==
  ASSUME NEW S, NEW es \in Seq(S), NEW a \in 0..Len(es), NEW b \in 0..Len(es), a <= b
  PROVE  SubSeq(es, 1, b) = SubSeq(es, 1, a) \o SubSeq(es, a + 1, b)
BY 1 \in 1..Len(es) + 1, a \in 1 - 1..Len(es), b \in a..Len(es), ConcatAdjacentSubSeq

\* The equation of FlattenSeq.
Flattens(f, seqs, m) ==
  f = [i \in 1..m |-> IF i = 1 THEN seqs[i] ELSE f[i - 1] \o seqs[i]]

LEMMA FlattensOnce ==
  ASSUME NEW seqs, NEW m \in Nat \ {0}, NEW f, NEW g, Flattens(f, seqs, m), Flattens(g, seqs, m)
  PROVE  f[m] = g[m]
<1>a. /\ \A i \in 1..m : f[i] = IF i = 1 THEN seqs[i] ELSE f[i - 1] \o seqs[i]
      /\ \A i \in 1..m : g[i] = IF i = 1 THEN seqs[i] ELSE g[i - 1] \o seqs[i]
  BY Zenon DEF Flattens
<1>1. f[1] = seqs[1] /\ g[1] = seqs[1]
  BY <1>a
<1>b. \A i \in 2..m : i \in 1..m /\ i # 1
  OBVIOUS
<1>2. \A i \in 2..m : f[i] = f[i - 1] \o seqs[i] /\ g[i] = g[i - 1] \o seqs[i]
  BY <1>a, <1>b, Zenon
<1> DEFINE T == {n \in Nat : n + 1 <= m => f[n + 1] = g[n + 1]}
<1>3. 0 \in T
  BY <1>1
<1>4. ASSUME NEW n \in Nat, n \in T PROVE n + 1 \in T
  <2> SUFFICES ASSUME n + 2 <= m PROVE f[n + 2] = g[n + 2]
    OBVIOUS
  <2>1. PICK i \in 2..m : i = n + 2 /\ i - 1 = n + 1
    OBVIOUS
  <2>2. f[n + 1] = g[n + 1]
    BY <1>4
  <2>3. f[i] = f[i - 1] \o seqs[i] /\ g[i] = g[i - 1] \o seqs[i]
    BY <1>2, <2>1, Zenon
  <2>4. f[i - 1] = g[i - 1]
    BY <2>1, <2>2, Zenon
  <2>5. f[i] = g[i]
    BY <2>3, <2>4, Zenon
  <2> QED BY <2>1, <2>5, Zenon
<1> HIDE DEF T
<1>5. m - 1 \in T
  BY <1>3, <1>4, Induction
<1> QED BY <1>5 DEF T

LEMMA FlattenIs ==
  ASSUME NEW S, NEW es \in Seq(S), NEW seqs, seqs \in Seq(Seq(S)), NEW cut, Pieces(seqs, es, cut)
  PROVE  FlattenSeq(seqs) = SubSeq(es, 1, cut[Len(seqs)])
<1>1. CASE Len(seqs) = 0
  <2>1. seqs = <<>>
    BY <1>1
  <2>2. SubSeq(es, 1, 0) = <<>> /\ cut[0] = 0
    BY DEF Pieces
  <2> QED BY <1>1, <2>1, <2>2 DEF FlattenSeq
<1>2. CASE Len(seqs) # 0
  <2>1. PICK m \in Nat \ {0} : m = Len(seqs)
    BY <1>2
  <2> DEFINE F == [i \in 1..m |-> SubSeq(es, 1, cut[i])]
  <2>2. ASSUME NEW i \in 1..m, i # 1 PROVE F[i] = F[i - 1] \o seqs[i]
    <3>1. /\ seqs[i] = SubSeq(es, cut[i - 1] + 1, cut[i])
          /\ cut[i - 1] \in 0..Len(es) /\ cut[i] \in 0..Len(es) /\ cut[i - 1] <= cut[i]
      BY <2>1, PieceIs
    <3>a. i - 1 \in 1..m
      BY <2>1, <2>2
    <3>2. SubSeq(es, 1, cut[i]) = SubSeq(es, 1, cut[i - 1]) \o SubSeq(es, cut[i - 1] + 1, cut[i])
      BY <3>1, Glue
    <3> QED BY <3>2, <3>a, <3>1
  <2>3. F[1] = seqs[1]
    <3>1. 1 \in 1..m /\ 1 - 1 = 0
      BY <2>1
    <3>2. seqs[1] = SubSeq(es, cut[0] + 1, cut[1])
      BY <2>1, <3>1, PieceIs
    <3>3. cut[0] = 0
      BY DEF Pieces
    <3>4. F[1] = SubSeq(es, 1, cut[1])
      BY <3>1, Zenon
    <3>5. cut[0] + 1 = 1
      BY <3>3
    <3> QED BY <3>2, <3>4, <3>5, Zenon
  <2>4. F = [i \in 1..m |-> IF i = 1 THEN seqs[i] ELSE F[i - 1] \o seqs[i]]
    <3>1. F = [i \in 1..m |-> F[i]]
      OBVIOUS
    <3> HIDE DEF F
    <3> QED BY <2>2, <2>3, <3>1
  <2>5. Flattens(F, seqs, m)
    BY <2>4 DEF Flattens
  <2>6. FlattenSeq(seqs) = (CHOOSE f : Flattens(f, seqs, m))[m]
    BY <1>2, <2>1 DEF FlattenSeq, Flattens
  <2>7. Flattens(CHOOSE f : Flattens(f, seqs, m), seqs, m)
    <3> HIDE DEF F
    <3> QED BY <2>5, Zenon
  <2>8. F[m] = SubSeq(es, 1, cut[m])
    <3>1. m \in 1..m
      BY <2>1
    <3> QED BY <3>1, Zenon
  <2> HIDE DEF F
  <2>9. (CHOOSE f : Flattens(f, seqs, m))[m] = F[m]
    BY <2>5, <2>7, FlattensOnce
  <2> QED BY <2>1, <2>6, <2>8, <2>9
<1> QED BY <1>1, <1>2

\* Each record has its entry's value, and its key from the entry before; those at
\* the restart points have their whole key.
Codes(rs, es) ==
  /\ rs \in Seq(Rec) /\ es \in Seq(Entry) /\ Len(rs) = Len(es)
  /\ \A i \in 1..Len(rs) : rs[i].val = es[i].val
  /\ \A i \in 2..Len(rs) : es[i].key = SubSeq(es[i - 1].key, 1, rs[i].shared) \o rs[i].rest

Restarts(rs, gs, es, at) ==
  /\ gs \in Seq(Nat) /\ at \in Seq(Nat) /\ Len(at) = Len(gs)
  /\ \A j \in 1..Len(gs) : /\ at[j] \in 1..Len(rs) /\ gs[j] = SizeUpTo(rs, at[j] - 1)
                           /\ rs[at[j]].shared = 0 /\ rs[at[j]].rest = es[at[j]].key
  /\ \A j \in 1..Len(gs) - 1 : at[j] < at[j + 1]
  /\ rs # <<>> => Len(gs) # 0 /\ at[1] = 1

\* Where the groups end; they begin behind one another.
Ends(rs, at) == [j \in 0..Len(at) |-> IF j < Len(at) THEN at[j + 1] - 1 ELSE Len(rs)]

LEMMA EndsAre ==
  ASSUME NEW rs, NEW gs, NEW es, NEW at, Codes(rs, es), Restarts(rs, gs, es, at)
  PROVE  /\ Ends(rs, at) \in [0..Len(gs) -> 0..Len(rs)]
         /\ Ends(rs, at)[0] = 0 /\ Ends(rs, at)[Len(gs)] = Len(rs)
         /\ \A j \in 1..Len(gs) : /\ Ends(rs, at)[j - 1] + 1 = at[j]
                                  /\ Ends(rs, at)[j - 1] < Ends(rs, at)[j]
<1>1. PICK n \in Nat : n = Len(gs) /\ n = Len(at)
  BY DEF Restarts
<1>2. PICK l \in Nat : l = Len(rs)
  BY DEF Codes
<1>3. /\ \A j \in 1..n : at[j] \in 1..l
      /\ \A j \in 1..n - 1 : at[j] < at[j + 1]
      /\ l # 0 => n # 0 /\ at[1] = 1
  BY <1>1, <1>2 DEF Restarts, Codes
<1>4. /\ Ends(rs, at) = [j \in 0..n |-> IF j < n THEN at[j + 1] - 1 ELSE l]
  BY <1>1, <1>2 DEF Ends
<1>5. \A j \in 0..n : Ends(rs, at)[j] = IF j < n THEN at[j + 1] - 1 ELSE l
  BY <1>4
<1>6. ASSUME NEW j \in 0..n PROVE Ends(rs, at)[j] \in 0..l
  <2>1. CASE j < n
    <3>1. j + 1 \in 1..n
      BY <2>1
    <3> QED BY <1>3, <1>5, <2>1, <3>1
  <2>2. CASE j = n
    BY <1>5, <2>2
  <2> QED BY <2>1, <2>2
<1>7. Ends(rs, at)[0] = 0
  BY <1>3, <1>5
<1>8. Ends(rs, at)[n] = l
  BY <1>5
<1>9. ASSUME NEW j \in 1..n
      PROVE  Ends(rs, at)[j - 1] + 1 = at[j] /\ Ends(rs, at)[j - 1] < Ends(rs, at)[j]
  <2>1. j - 1 \in 0..n /\ j - 1 < n /\ j - 1 + 1 = j /\ at[j] \in 1..l
    BY <1>3
  <2>2. Ends(rs, at)[j - 1] = at[j] - 1
    BY <1>5, <2>1
  <2>3. CASE j < n
    <3>1. Ends(rs, at)[j] = at[j + 1] - 1 /\ at[j] < at[j + 1] /\ at[j + 1] \in 1..l
      BY <1>3, <1>5, <2>3
    <3> QED BY <2>1, <2>2, <3>1
  <2>4. CASE j = n
    <3>1. Ends(rs, at)[j] = l
      BY <1>5, <2>4
    <3> QED BY <2>1, <2>2, <3>1
  <2> QED BY <2>3, <2>4
<1>10. Ends(rs, at) \in [0..n -> 0..l]
  BY <1>4, <1>6
<1> QED BY <1>1, <1>2, <1>7, <1>8, <1>9, <1>10

\* The records before a place.
LEMMA BeforeIs ==
  ASSUME NEW b, NEW rs \in Seq(Rec), b.recs = rs, NEW i \in 0..Len(rs), NEW place, place = SizeUpTo(rs, i)
  PROVE  Before(b, place) = i
<1>1. \A j \in DOMAIN rs : StartOf(b, j) = SizeUpTo(rs, j - 1)
  BY DEF StartOf, SizeUpTo
<1>2. DOMAIN rs = 1..Len(rs) /\ Len(rs) \in Nat
  OBVIOUS
<1>3. \A j \in 1..Len(rs) : SizeUpTo(rs, j - 1) < SizeUpTo(rs, i) <=> j <= i
  <2> TAKE j \in 1..Len(rs)
  <2>1. j - 1 \in 0..Len(rs) /\ i \in 0..Len(rs)
    BY <1>2
  <2>2. SizeUpTo(rs, j - 1) \in Nat /\ SizeUpTo(rs, i) \in Nat
    BY <2>1, SizesGrow
  <2>3. CASE j <= i
    <3>1. j - 1 \in 0..i - 1
      BY <2>3
    <3> QED BY <2>1, <2>3, <3>1, SizesGrow
  <2>4. CASE i < j - 1
    <3>1. i \in 0..(j - 1) - 1
      BY <2>4
    <3>2. SizeUpTo(rs, i) < SizeUpTo(rs, j - 1)
      BY <2>1, <3>1, SizesGrow
    <3> QED BY <2>1, <2>2, <2>4, <3>2
  <2>5. CASE i = j - 1
    BY <2>1, <2>2, <2>5
  <2> QED BY <2>1, <2>3, <2>4, <2>5
<1>4. {j \in DOMAIN b.recs : StartOf(b, j) < place} = 1..i
  BY <1>1, <1>2, <1>3
<1>5. Cardinality(1..i) = i
  BY FS_Interval
<1> QED BY <1>4, <1>5 DEF Before

\* The keys of a group of n records behind the first `from`.
ReadsKeys(f, rs, from, n) ==
  f = [j \in 0..n |-> IF j = 0 THEN <<>> ELSE SubSeq(f[j - 1], 1, rs[from + j].shared) \o rs[from + j].rest]

LEMMA ReadsKeysOnce ==
  ASSUME NEW rs, NEW from, NEW n \in Nat, NEW f, NEW g, ReadsKeys(f, rs, from, n), ReadsKeys(g, rs, from, n)
  PROVE  \A j \in 0..n : f[j] = g[j]
<1>1. /\ \A j \in 0..n : f[j] = IF j = 0 THEN <<>> ELSE SubSeq(f[j - 1], 1, rs[from + j].shared) \o rs[from + j].rest
      /\ \A j \in 0..n : g[j] = IF j = 0 THEN <<>> ELSE SubSeq(g[j - 1], 1, rs[from + j].shared) \o rs[from + j].rest
  BY Zenon DEF ReadsKeys
<1> DEFINE T == {j \in Nat : j <= n => f[j] = g[j]}
<1>2. 0 \in T
  <2>1. 0 \in 0..n
    OBVIOUS
  <2> QED BY <1>1, <2>1
<1>3. ASSUME NEW j \in Nat, j \in T PROVE j + 1 \in T
  <2> SUFFICES ASSUME j + 1 <= n PROVE f[j + 1] = g[j + 1]
    OBVIOUS
  <2>1. PICK i \in 0..n : i = j + 1 /\ i # 0 /\ i - 1 = j
    OBVIOUS
  <2>2. f[j] = g[j]
    BY <1>3
  <2>3. f[i - 1] = g[i - 1]
    BY <2>1, <2>2, Zenon
  <2>4. f[i] = g[i]
    BY <1>1, <2>1, <2>3, Zenon
  <2> QED BY <2>1, <2>4, Zenon
<1> HIDE DEF T
<1>4. \A j \in Nat : j \in T
  BY <1>2, <1>3, Induction
<1>5. \A j \in 0..n : j \in Nat /\ j <= n
  OBVIOUS
<1> QED BY <1>4, <1>5 DEF T

LEMMA EntryIs ==
  ASSUME NEW e \in Entry, NEW k, NEW v, k = e.key, v = e.val
  PROVE  [key |-> k, val |-> v] = e
BY DEF Entry

\* Behind `from` a record has its whole key.
Whole(rs, es, from) == rs[from + 1].shared = 0 /\ rs[from + 1].rest = es[from + 1].key

ReadsEntries(f, rs, es, from, n) ==
  ReadsKeys(f, rs, from, n) /\ \A j \in 1..n : f[j] = es[from + j].key

LEMMA KeysAreRead ==
  ASSUME NEW rs, NEW es, Codes(rs, es), NEW from \in Nat, NEW n \in Nat, from + n <= Len(rs),
         Whole(rs, es, from)
  PROVE  \E f : ReadsEntries(f, rs, es, from, n)
<1> DEFINE F == [j \in 0..n |-> IF j = 0 THEN <<>> ELSE es[from + j].key]
<1>1. ASSUME NEW j \in 1..n
      PROVE  F[j] = SubSeq(F[j - 1], 1, rs[from + j].shared) \o rs[from + j].rest
  <2>1. F[j] = es[from + j].key
    OBVIOUS
  <2>2. CASE j = 1
    <3>1. F[j - 1] = <<>>
      BY <2>2
    <3>2. rs[from + j].shared = 0 /\ rs[from + j].rest = es[from + j].key
      BY <2>2 DEF Whole
    <3>3. from + j \in 1..Len(rs) /\ Len(rs) = Len(es)
      BY DEF Codes
    <3>4. es[from + j] \in Entry
      BY <3>3 DEF Codes
    <3>5. es[from + j].key \in Text
      BY <3>4 DEF Entry
    <3>6. \A k \in Text : SubSeq(<<>>, 1, 0) \o k = k
      BY DEF Text
    <3> QED BY <2>1, <3>1, <3>2, <3>5, <3>6, Zenon
  <2>3. CASE j # 1
    <3>1. PICK i \in 2..Len(rs) : i = from + j /\ i - 1 = from + (j - 1)
      BY <2>3 DEF Codes
    <3>2. F[j - 1] = es[i - 1].key
      BY <2>3, <3>1
    <3>a. \A x \in 2..Len(rs) : es[x].key = SubSeq(es[x - 1].key, 1, rs[x].shared) \o rs[x].rest
      BY DEF Codes
    <3>3. es[from + j].key = SubSeq(es[i - 1].key, 1, rs[from + j].shared) \o rs[from + j].rest
      BY <3>1, <3>a, Zenon
    <3> HIDE DEF F
    <3> QED BY <2>1, <3>2, <3>3, Zenon
  <2> QED BY <2>2, <2>3
<1>2. F = [j \in 0..n |-> F[j]] /\ F[0] = <<>>
  OBVIOUS
<1>3. \A j \in 0..n : j # 0 => j \in 1..n
  OBVIOUS
<1>4. \A j \in 1..n : F[j] = es[from + j].key
  OBVIOUS
<1> HIDE DEF F
<1>5. ReadsKeys(F, rs, from, n)
  BY <1>1, <1>2, <1>3 DEF ReadsKeys
<1> QED BY <1>4, <1>5 DEF ReadsEntries

LEMMA GroupIs ==
  ASSUME NEW rs, NEW gs, NEW es, NEW at, NEW num, Codes(rs, es), Restarts(rs, gs, es, at), NEW j \in 1..Len(gs)
  PROVE  ReadGroup(Block(rs, gs, num), Block(rs, gs, num).restarts[j])
           = SubSeq(es, Ends(rs, at)[j - 1] + 1, Ends(rs, at)[j])
<1> DEFINE b == Block(rs, gs, num)
           g == b.restarts[j]
<1>1. rs \in Seq(Rec) /\ es \in Seq(Entry) /\ gs \in Seq(Nat) /\ Len(gs) \in Nat /\ Len(rs) = Len(es)
      /\ Len(rs) \in Nat
  BY DEF Codes, Restarts
<1>2. b.recs = rs /\ g = Restart(rs, gs, num, j)
  BY DEF Block
<1>3. PICK from \in 0..Len(rs) : from = Ends(rs, at)[j - 1]
  <2>1. Ends(rs, at) \in [0..Len(gs) -> 0..Len(rs)]
    BY EndsAre
  <2>2. j - 1 \in 0..Len(gs)
    BY <1>1
  <2> QED BY <2>1, <2>2
<1>4. PICK upto \in 0..Len(rs) : upto = Ends(rs, at)[j]
  <2>1. Ends(rs, at) \in [0..Len(gs) -> 0..Len(rs)]
    BY EndsAre
  <2>2. j \in 0..Len(gs)
    BY <1>1
  <2> QED BY <2>1, <2>2
<1>5. from < upto /\ from + 1 = at[j]
  BY <1>3, <1>4, EndsAre
<1>6. \A i \in 1..Len(gs) : gs[i] = SizeUpTo(rs, at[i] - 1) /\ gs[i] \in Nat
  <2>1. \A i \in 1..Len(gs) : gs[i] = SizeUpTo(rs, at[i] - 1)
    BY Zenon DEF Restarts
  <2>2. \A i \in 1..Len(gs) : gs[i] \in Nat
    <3> HIDE DEF b, g
    <3> QED BY <1>1
  <2> QED BY <2>1, <2>2, Zenon
<1>7. g.offset = SizeUpTo(rs, from)
  BY <1>2, <1>3, <1>5, <1>6 DEF Restart
<1>8. g.offset + g.size = SizeUpTo(rs, upto)
  <2>1. CASE j < Len(gs)
    <3>1. g.offset + g.size = gs[j] + (gs[j + 1] - gs[j]) /\ j + 1 \in 1..Len(gs)
      BY <1>1, <1>2, <2>1 DEF Restart
    <3>2. Ends(rs, at)[j] + 1 = at[j + 1]
      BY <3>1, EndsAre
    <3>3. gs[j] \in Nat /\ gs[j + 1] \in Nat /\ gs[j + 1] = SizeUpTo(rs, at[j + 1] - 1)
      BY <1>6, <3>1
    <3>4. at[j + 1] - 1 = upto
      BY <1>4, <3>2
    <3>5. g.offset + g.size = gs[j + 1]
      <4> HIDE DEF g
      <4> QED BY <3>1, <3>3
    <3> QED BY <3>3, <3>4, <3>5, Zenon
  <2>2. CASE j = Len(gs)
    <3>1. g.offset + g.size = gs[j] + (DataSize(rs) - gs[j])
      BY <1>1, <1>2, <2>2 DEF Restart
    <3>2. Ends(rs, at)[j] = Len(rs)
      BY <2>2, EndsAre
    <3>3. DataSize(rs) = SizeUpTo(rs, Len(rs)) /\ DataSize(rs) \in Nat
      BY <1>1, SizesGrow, DataSizeNat
    <3> QED BY <1>4, <1>6, <3>1, <3>2, <3>3
  <2> QED BY <1>1, <2>1, <2>2
<1>9. Before(b, g.offset) = from /\ Before(b, g.offset + g.size) = upto
  <2> HIDE DEF b, g
  <2>1. Before(b, g.offset) = from
    BY <1>1, <1>2, <1>7, BeforeIs
  <2>2. Before(b, g.offset + g.size) = upto
    BY <1>1, <1>2, <1>8, BeforeIs
  <2> QED BY <2>1, <2>2
<1>10. PICK n \in Nat : n = upto - from /\ from + n = upto /\ n # 0 /\ from + n <= Len(rs) /\ from \in Nat
  BY <1>5
<1> HIDE DEF b, g
<1> DEFINE f == CHOOSE x : ReadsKeys(x, b.recs, Before(b, g.offset), Before(b, g.offset + g.size) - Before(b, g.offset))
<1>a. ReadGroup(b, g) = [i \in 1..Before(b, g.offset + g.size) - Before(b, g.offset) |->
                           [key |-> f[i], val |-> b.recs[Before(b, g.offset) + i].val]]
  BY Zenon DEF ReadGroup, ReadsKeys
<1>b. Before(b, g.offset + g.size) - Before(b, g.offset) = n
  BY <1>9, <1>10
<1>c. f = CHOOSE x : ReadsKeys(x, rs, from, n)
  BY <1>2, <1>9, <1>b, Zenon
<1> HIDE DEF f
<1>11. ReadGroup(b, g) = [i \in 1..n |-> [key |-> f[i], val |-> rs[from + i].val]]
  BY <1>2, <1>9, <1>a, <1>b, Zenon
<1>12. Whole(rs, es, from)
  BY <1>5 DEF Restarts, Whole
<1>13. PICK h : ReadsEntries(h, rs, es, from, n)
  <2>1. n \in Nat /\ from \in Nat /\ from + n <= Len(rs)
    BY <1>10
  <2> HIDE DEF f
  <2> QED BY <1>12, <2>1, KeysAreRead
<1>14. ReadsKeys(f, rs, from, n)
  BY <1>13, <1>c, Zenon DEF ReadsEntries
<1>15. \A i \in 0..n : f[i] = h[i]
  <2>1. n \in Nat /\ ReadsKeys(h, rs, from, n)
    BY <1>10, <1>13 DEF ReadsEntries
  <2> QED BY <1>14, <2>1, ReadsKeysOnce
<1>16. ASSUME NEW i \in 1..n PROVE [key |-> f[i], val |-> rs[from + i].val] = es[from + i]
  <2>1. from + i \in 1..Len(rs) /\ i \in 0..n
    BY <1>10
  <2>2. es[from + i] \in Entry /\ rs[from + i].val = es[from + i].val
    BY <1>1, <2>1 DEF Codes
  <2>3. f[i] = es[from + i].key
    BY <1>13, <1>15, <2>1 DEF ReadsEntries
  <2> QED BY <2>2, <2>3, EntryIs
<1>17. ReadGroup(b, g) = [i \in 1..n |-> es[from + i]]
  BY <1>11, <1>16, Zenon
<1>18. [i \in 1..n |-> es[from + i]] = SubSeq(es, from + 1, upto)
  BY <1>1, <1>10
<1> QED BY <1>3, <1>4, <1>17, <1>18 DEF b, g

\* A block of encoded entries gives them back.
LEMMA BlockGivesBack ==
  ASSUME NEW rs, NEW gs, NEW es, NEW at, NEW num, Codes(rs, es), Restarts(rs, gs, es, at)
  PROVE  ReadBlock(Block(rs, gs, num)) = es
<1> DEFINE b == Block(rs, gs, num)
           seqs == [j \in 1..Len(gs) |-> ReadGroup(b, b.restarts[j])]
           E == Ends(rs, at)
<1>1. es \in Seq(Entry) /\ Len(gs) \in Nat /\ Len(rs) = Len(es)
  BY DEF Codes, Restarts
<1>2. DOMAIN b.restarts = 1..Len(gs)
  BY DEF Block
<1>3. ReadBlock(b) = FlattenSeq(seqs)
  BY <1>2, Zenon DEF ReadBlock
<1>4. \A j \in 1..Len(gs) : seqs[j] = SubSeq(es, E[j - 1] + 1, E[j])
  BY GroupIs
<1>5. /\ E \in [0..Len(gs) -> 0..Len(es)] /\ E[0] = 0 /\ E[Len(gs)] = Len(es)
      /\ \A j \in 1..Len(gs) : E[j - 1] < E[j]
  BY <1>1, EndsAre
<1>6. \A j \in 1..Len(gs) : seqs[j] \in Seq(Entry)
  <2> TAKE j \in 1..Len(gs)
  <2>1. E[j - 1] \in 0..Len(es) /\ E[j] \in 0..Len(es)
    BY <1>1, <1>5
  <2>2. \A m, n \in 0..Len(es) : SubSeq(es, m + 1, n) \in Seq(Entry)
    BY <1>1
  <2> HIDE DEF seqs, E
  <2> QED BY <1>4, <2>1, <2>2
<1>7. seqs = [j \in 1..Len(gs) |-> seqs[j]]
  OBVIOUS
<1> HIDE DEF b, seqs, E
<1>8. seqs \in Seq(Seq(Entry)) /\ Len(seqs) = Len(gs)
  BY <1>1, <1>6, <1>7
<1>9. Pieces(seqs, es, E)
  <2>1. \A j \in 1..Len(gs) : E[j - 1] \in 0..Len(es) /\ E[j] \in 0..Len(es)
    BY <1>1, <1>5
  <2>2. \A j \in 1..Len(gs) : E[j - 1] <= E[j]
    BY <1>1, <1>5, <2>1
  <2> QED BY <1>4, <1>5, <1>8, <2>2 DEF Pieces
<1>10. FlattenSeq(seqs) = SubSeq(es, 1, Len(es))
  BY <1>1, <1>5, <1>8, <1>9, FlattenIs
<1>11. SubSeq(es, 1, Len(es)) = es
  BY <1>1
<1> QED BY <1>3, <1>10, <1>11 DEF b

-----------------------------------------------------------------------------
(* The records of a block under construction. *)

\* What two keys share is the beginning of both.
LEMMA SharedIs ==
  ASSUME NEW a \in Text, NEW b \in Text
  PROVE  /\ SharedLen(a, b) \in 0..Len(a) /\ SharedLen(a, b) <= Len(b)
         /\ SubSeq(a, 1, SharedLen(a, b)) = SubSeq(b, 1, SharedLen(a, b))
<1> DEFINE C == CommonPrefixes({a, b})
           T == {n \in 1..Len(a) + 1 : \E p \in C : Len(p) + 1 = n}
<1>1. ASSUME NEW p \in C
      PROVE  /\ Len(p) \in 0..Len(a) /\ Len(p) <= Len(b)
             /\ SubSeq(a, 1, Len(p)) = SubSeq(b, 1, Len(p))
  <2>1. IsPrefix(p, a) /\ IsPrefix(p, b)
    BY <1>1 DEF CommonPrefixes
  <2>2. p \in Prefixes(a) \/ p \in Prefixes(b)
    BY <1>1 DEF CommonPrefixes
  <2>3. Len(p) \in Nat
    BY <2>2 DEF Prefixes, Text
  <2>4. Len(a) \in Nat
    BY DEF Text
  <2> QED BY <2>1, <2>3, <2>4 DEF IsPrefix
<1>2. <<>> \in C
  <2>1. <<>> = SubSeq(a, 1, 0) /\ 0 \in 0..Len(a)
    BY DEF Text
  <2>2. <<>> \in Prefixes(a)
    BY <2>1 DEF Prefixes
  <2>3. IsPrefix(<<>>, a) /\ IsPrefix(<<>>, b)
    BY DEF IsPrefix, Text
  <2> QED BY <2>2, <2>3 DEF CommonPrefixes
<1>3. T \subseteq 1..Len(a) + 1 /\ Len(a) + 1 \in Nat /\ T # {}
  <2>1. 1 \in 1..Len(a) + 1 /\ Len(a) + 1 \in Nat /\ Len(<<>>) + 1 = 1
    BY DEF Text
  <2> QED BY <1>2, <2>1
<1>4. PICK m \in T : \A y \in T : m >= y
  BY <1>3, HasGreatest
<1>5. PICK p \in C : Len(p) + 1 = m
  BY <1>4
<1>6. \A q \in C : Len(q) <= Len(p)
  <2> TAKE q \in C
  <2>1. Len(a) \in Nat
    BY DEF Text
  <2>2. Len(q) \in 0..Len(a) /\ Len(p) \in 0..Len(a)
    BY <1>1, <1>5
  <2>3. Len(q) + 1 \in T
    BY <2>1, <2>2
  <2>4. m >= Len(q) + 1
    BY <1>4, <2>3
  <2> HIDE DEF C, T
  <2> QED BY <1>5, <2>1, <2>2, <2>4
<1>7. LongestCommonPrefix({a, b}) \in C
  BY <1>5, <1>6, Zenon DEF LongestCommonPrefix
<1> QED BY <1>1, <1>7 DEF SharedLen

LEMMA RestOf ==
  ASSUME NEW S, NEW k \in Seq(S), NEW i \in 0..Len(k)
  PROVE  SubSeq(k, i + 1, Len(k)) \in Seq(S)
OBVIOUS

LEMMA RecordIs ==
  ASSUME NEW k \in Text, NEW v \in ValLens, blkPre \in Text
  PROVE  /\ Record(k, v) \in Rec /\ Record(k, v).val = v
         /\ NeedFullKey => Record(k, v).shared = 0 /\ Record(k, v).rest = k
         /\ ~NeedFullKey => k = SubSeq(blkPre, 1, Record(k, v).shared) \o Record(k, v).rest
<1> DEFINE s == IF NeedFullKey THEN 0 ELSE SharedLen(k, blkPre)
<1>1. s \in 0..Len(k) /\ Len(k) \in Nat
  BY SharedIs DEF Text
<1>2. Record(k, v) = [shared |-> s, rest |-> SubSeq(k, s + 1, Len(k)), val |-> v]
  BY DEF Record
<1>3. \A i \in 0..Len(k) : SubSeq(k, i + 1, Len(k)) \in Text
  BY RestOf DEF Text
<1>4. \A i \in 0..Len(k) : k = SubSeq(k, 1, i) \o SubSeq(k, i + 1, Len(k))
  <2> TAKE i \in 0..Len(k)
  <2>1. Len(k) \in 0..Len(k) /\ i <= Len(k)
    BY <1>1
  <2>2. SubSeq(k, 1, Len(k)) = SubSeq(k, 1, i) \o SubSeq(k, i + 1, Len(k))
    BY <2>1, Glue DEF Text
  <2>3. SubSeq(k, 1, Len(k)) = k
    BY DEF Text
  <2> QED BY <2>2, <2>3
<1>5. ~NeedFullKey => SubSeq(k, 1, s) = SubSeq(blkPre, 1, s)
  BY SharedIs
<1>6. s \in Nat
  BY <1>1
<1>7. NeedFullKey => s = 0
  OBVIOUS
<1>8. SubSeq(k, 0 + 1, Len(k)) = k
  BY DEF Text
<1> HIDE DEF s
<1>9. Record(k, v) \in Rec
  BY <1>1, <1>2, <1>3, <1>6 DEF Rec
<1>10. Record(k, v).shared = s /\ Record(k, v).rest = SubSeq(k, s + 1, Len(k)) /\ Record(k, v).val = v
  <2>1. PICK r, y : r = Record(k, v) /\ y = SubSeq(k, s + 1, Len(k))
    OBVIOUS
  <2>2. r = [shared |-> s, rest |-> y, val |-> v]
    BY <1>2, <2>1, Zenon
  <2>3. r.shared = s /\ r.rest = y /\ r.val = v
    BY <2>2
  <2> QED BY <2>1, <2>3, Zenon
<1>11. k = SubSeq(k, 1, s) \o SubSeq(k, s + 1, Len(k))
  BY <1>1, <1>4
<1> QED BY <1>5, <1>7, <1>8, <1>9, <1>10, <1>11, Zenon

LEMMA AppendIs ==
  ASSUME NEW S, NEW s \in Seq(S), NEW x \in S
  PROVE  /\ Append(s, x) \in Seq(S) /\ Len(Append(s, x)) = Len(s) + 1 /\ Len(s) \in Nat
         /\ \A i \in 1..Len(s) : Append(s, x)[i] = s[i]
         /\ Append(s, x)[Len(s) + 1] = x
         /\ \A i \in 0..Len(s) : SubSeq(Append(s, x), 1, i) = SubSeq(s, 1, i)
OBVIOUS

\* A record and the entry that it stands for.
Stands(r, e, rs, es, full) ==
  /\ r.val = e.val
  /\ full => r.shared = 0 /\ r.rest = e.key
  /\ ~full => rs # <<>> /\ e.key = SubSeq(es[Len(es)].key, 1, r.shared) \o r.rest

LEMMA CodesMore ==
  ASSUME NEW rs, NEW es, Codes(rs, es), NEW r \in Rec, NEW e \in Entry, NEW full \in BOOLEAN,
         Stands(r, e, rs, es, full)
  PROVE  Codes(Append(rs, r), Append(es, e))
<1>1. rs \in Seq(Rec) /\ es \in Seq(Entry) /\ Len(rs) = Len(es)
  BY DEF Codes
<1>2. PICK n \in Nat : n = Len(rs)
  BY <1>1
<1>3. PICK qs : qs = Append(rs, r)
  OBVIOUS
<1>4. PICK fs : fs = Append(es, e)
  OBVIOUS
<1>5. /\ qs \in Seq(Rec) /\ Len(qs) = n + 1 /\ qs[n + 1] = r /\ \A i \in 1..n : qs[i] = rs[i]
      /\ fs \in Seq(Entry) /\ Len(fs) = n + 1 /\ fs[n + 1] = e /\ \A i \in 1..n : fs[i] = es[i]
  BY <1>1, <1>2, <1>3, <1>4, AppendIs
<1>6. ASSUME NEW i \in 1..n + 1 PROVE qs[i].val = fs[i].val
  <2>1. CASE i = n + 1
    BY <1>5, <2>1 DEF Stands
  <2>2. CASE i # n + 1
    <3>1. i \in 1..n
      BY <1>2, <2>2
    <3> QED BY <1>2, <1>5, <3>1 DEF Codes
  <2> QED BY <2>1, <2>2
<1>7. ASSUME NEW i \in 2..n + 1
      PROVE  fs[i].key = SubSeq(fs[i - 1].key, 1, qs[i].shared) \o qs[i].rest
  <2>a. \A x \in 2..n : es[x].key = SubSeq(es[x - 1].key, 1, rs[x].shared) \o rs[x].rest
    BY <1>2 DEF Codes
  <2>1. CASE i \in 2..n
    <3>1. i \in 1..n /\ i - 1 \in 1..n
      BY <1>2, <2>1
    <3>2. qs[i] = rs[i] /\ fs[i] = es[i] /\ fs[i - 1] = es[i - 1]
      BY <1>5, <3>1
    <3> QED BY <2>a, <2>1, <3>2, Zenon
  <2>2. CASE i = n + 1
    <3>1. i - 1 \in 1..n /\ i - 1 = n /\ n = Len(es)
      BY <1>1, <1>2, <2>2
    <3>2. qs[i] = r /\ fs[i] = e /\ fs[i - 1] = es[Len(es)]
      BY <1>5, <2>2, <3>1
    <3>3. CASE full
      <4>1. es[Len(es)] \in Entry
        BY <1>1, <3>1
      <4>2. es[Len(es)].key \in Text /\ e.key \in Text
        BY <4>1 DEF Entry
      <4>3. \A j, k \in Text : SubSeq(j, 1, 0) \o k = k
        BY DEF Text
      <4>4. r.shared = 0 /\ r.rest = e.key
        BY <3>3 DEF Stands
      <4> QED BY <3>2, <4>2, <4>3, <4>4, Zenon
    <3>4. CASE ~full
      BY <3>2, <3>4, Zenon DEF Stands
    <3> QED BY <3>3, <3>4
  <2>3. i \in 2..n \/ i = n + 1
    BY <1>2
  <2> QED BY <2>1, <2>2, <2>3
<1>8. Codes(qs, fs)
  BY <1>5, <1>6, <1>7 DEF Codes
<1> QED BY <1>3, <1>4, <1>8

LEMMA RestartsMore ==
  ASSUME NEW rs, NEW gs, NEW es, NEW at, Codes(rs, es), Restarts(rs, gs, es, at),
         NEW r \in Rec, NEW e \in Entry, NEW full \in BOOLEAN, Stands(r, e, rs, es, full)
  PROVE  \E to : Restarts(Append(rs, r), IF full THEN Append(gs, DataSize(rs)) ELSE gs, Append(es, e), to)
<1>1. rs \in Seq(Rec) /\ es \in Seq(Entry) /\ Len(rs) = Len(es) /\ gs \in Seq(Nat) /\ at \in Seq(Nat)
      /\ Len(at) = Len(gs)
  BY DEF Codes, Restarts
<1>2. PICK n \in Nat : n = Len(rs)
  BY <1>1
<1>3. PICK qs : qs = Append(rs, r)
  OBVIOUS
<1>4. PICK fs : fs = Append(es, e)
  OBVIOUS
<1>5. /\ qs \in Seq(Rec) /\ Len(qs) = n + 1 /\ qs[n + 1] = r /\ \A i \in 1..n : qs[i] = rs[i]
      /\ \A i \in 0..n : SubSeq(qs, 1, i) = SubSeq(rs, 1, i)
      /\ fs \in Seq(Entry) /\ Len(fs) = n + 1 /\ fs[n + 1] = e /\ \A i \in 1..n : fs[i] = es[i]
  BY <1>1, <1>2, <1>3, <1>4, AppendIs
<1>6. \A i \in 0..n : SizeUpTo(qs, i) = SizeUpTo(rs, i)
  BY <1>5 DEF SizeUpTo
<1>7. PICK m \in Nat : m = Len(gs)
  BY <1>1
<1>8. ASSUME NEW j \in 1..m
      PROVE  /\ at[j] \in 1..n + 1 /\ at[j] < n + 1 /\ gs[j] = SizeUpTo(qs, at[j] - 1)
             /\ qs[at[j]].shared = 0 /\ qs[at[j]].rest = fs[at[j]].key
  <2>1. /\ at[j] \in 1..n /\ gs[j] = SizeUpTo(rs, at[j] - 1)
        /\ rs[at[j]].shared = 0 /\ rs[at[j]].rest = es[at[j]].key
    BY <1>2, <1>7 DEF Restarts
  <2>2. at[j] - 1 \in 0..n /\ at[j] \in 1..n + 1 /\ at[j] < n + 1
    BY <2>1
  <2>3. qs[at[j]] = rs[at[j]] /\ fs[at[j]] = es[at[j]]
    BY <1>5, <2>1
  <2> QED BY <1>6, <2>1, <2>2, <2>3
<1>9. \A j \in 1..m - 1 : at[j] < at[j + 1]
  BY <1>7 DEF Restarts
<1>10. qs # <<>>
  BY <1>5
<1>11. CASE ~full
  <2>1. rs # <<>>
    BY <1>11 DEF Stands
  <2>2. m # 0 /\ at[1] = 1
    BY <1>7, <2>1 DEF Restarts
  <2>3. Restarts(qs, gs, fs, at)
    BY <1>1, <1>5, <1>7, <1>8, <1>9, <2>2 DEF Restarts
  <2> QED BY <1>3, <1>4, <1>11, <2>3
<1>12. CASE full
  <2>1. PICK to : to = Append(at, n + 1)
    OBVIOUS
  <2>2. PICK hs : hs = Append(gs, DataSize(rs))
    OBVIOUS
  <2>3. DataSize(rs) \in Nat /\ DataSize(rs) = SizeUpTo(qs, n)
    BY <1>1, <1>2, <1>6, DataSizeNat, SizesGrow
  <2>4. /\ to \in Seq(Nat) /\ Len(to) = m + 1 /\ to[m + 1] = n + 1 /\ \A j \in 1..m : to[j] = at[j]
        /\ hs \in Seq(Nat) /\ Len(hs) = m + 1 /\ hs[m + 1] = DataSize(rs) /\ \A j \in 1..m : hs[j] = gs[j]
    BY <1>1, <1>2, <1>7, <2>1, <2>2, <2>3, AppendIs
  <2>5. qs[n + 1].shared = 0 /\ qs[n + 1].rest = fs[n + 1].key
    BY <1>5, <1>12 DEF Stands
  <2>6. ASSUME NEW j \in 1..m + 1
        PROVE  /\ to[j] \in 1..n + 1 /\ hs[j] = SizeUpTo(qs, to[j] - 1)
               /\ qs[to[j]].shared = 0 /\ qs[to[j]].rest = fs[to[j]].key
    <3>1. CASE j = m + 1
      BY <2>3, <2>4, <2>5, <3>1
    <3>2. CASE j # m + 1
      <4>1. j \in 1..m
        BY <3>2
      <4> QED BY <1>8, <2>4, <4>1
    <3> QED BY <3>1, <3>2
  <2>7. ASSUME NEW j \in 1..m PROVE to[j] < to[j + 1]
    <3>1. CASE j = m
      BY <1>8, <2>4, <3>1
    <3>2. CASE j # m
      <4>1. j \in 1..m - 1 /\ j + 1 \in 1..m
        BY <3>2
      <4> QED BY <1>9, <2>4, <4>1
    <3> QED BY <3>1, <3>2
  <2>8. to[1] = 1
    <3>1. CASE m = 0
      <4>1. n = 0
        BY <1>2, <1>7, <3>1 DEF Restarts
      <4> QED BY <2>4, <3>1, <4>1
    <3>2. CASE m # 0
      <4>1. at[1] = 1
        <5>1. at[1] \in 1..n
          <6>1. 1 \in 1..m
            BY <1>7, <3>2
          <6> QED BY <1>2, <1>7, <6>1 DEF Restarts
        <5>2. rs # <<>>
          BY <1>2, <5>1
        <5> QED BY <5>2 DEF Restarts
      <4>2. 1 \in 1..m
        BY <1>7, <3>2
      <4> QED BY <2>4, <4>1, <4>2
    <3> QED BY <3>1, <3>2
  <2>9. Restarts(qs, hs, fs, to)
    BY <1>5, <2>4, <2>6, <2>7, <2>8 DEF Restarts
  <2> QED BY <1>3, <1>4, <1>12, <2>2, <2>9
<1> QED BY <1>11, <1>12

\* The pieces of a longer sequence, with one piece more.
PiecesOf(seqs, es, n) == \E cut : Pieces(seqs, es, cut) /\ cut[Len(seqs)] = n

LEMMA PiecesGrow ==
  ASSUME NEW S, NEW es \in Seq(S), NEW e \in S, NEW seqs, Len(seqs) \in Nat, NEW n, PiecesOf(seqs, es, n)
  PROVE  PiecesOf(seqs, Append(es, e), n)
<1>1. PICK cut : Pieces(seqs, es, cut) /\ cut[Len(seqs)] = n
  BY DEF PiecesOf
<1>2. PICK m \in Nat : m = Len(seqs)
  OBVIOUS
<1>3. PICK fs : fs = Append(es, e)
  OBVIOUS
<1>4. fs \in Seq(S) /\ Len(fs) = Len(es) + 1 /\ Len(es) \in Nat
  BY <1>3, AppendIs
<1>5. \A a, b \in 0..Len(es) : SubSeq(fs, a + 1, b) = SubSeq(es, a + 1, b)
  BY <1>3, <1>4
<1>6. cut \in [0..m -> 0..Len(es)] /\ cut[0] = 0
  BY <1>1, <1>2 DEF Pieces
<1>7. cut \in [0..m -> 0..Len(fs)]
  BY <1>4, <1>6
<1>8. \A j \in 1..m : cut[j - 1] <= cut[j] /\ seqs[j] = SubSeq(fs, cut[j - 1] + 1, cut[j])
  <2> TAKE j \in 1..m
  <2>1. /\ cut[j - 1] \in 0..Len(es) /\ cut[j] \in 0..Len(es) /\ cut[j - 1] <= cut[j]
        /\ seqs[j] = SubSeq(es, cut[j - 1] + 1, cut[j])
    BY <1>1, <1>2, PieceIs
  <2> QED BY <1>5, <2>1
<1>9. Pieces(seqs, fs, cut)
  BY <1>2, <1>6, <1>7, <1>8 DEF Pieces
<1> QED BY <1>1, <1>3, <1>9 DEF PiecesOf

LEMMA PiecesMore ==
  ASSUME NEW S, NEW es \in Seq(S), NEW seqs \in Seq(Seq(S)), NEW n, PiecesOf(seqs, es, n),
         NEW x \in Seq(S), x = SubSeq(es, n + 1, Len(es))
  PROVE  PiecesOf(Append(seqs, x), es, Len(es))
<1>1. PICK cut : Pieces(seqs, es, cut) /\ cut[Len(seqs)] = n
  BY Zenon DEF PiecesOf
<1>2. PICK m \in Nat : m = Len(seqs)
  OBVIOUS
<1>3. PICK l \in Nat : l = Len(es)
  OBVIOUS
<1>4. PICK qs : qs = Append(seqs, x)
  OBVIOUS
<1>5. Len(qs) = m + 1 /\ qs[m + 1] = x /\ \A j \in 1..m : qs[j] = seqs[j]
  <2>1. PICK T : T = Seq(S)
    OBVIOUS
  <2>2. seqs \in Seq(T) /\ x \in T
    BY <2>1, Zenon
  <2> QED BY <1>2, <1>4, <2>2, AppendIs
<1>6. cut \in [0..m -> 0..l] /\ cut[0] = 0 /\ cut[m] = n
  BY <1>1, <1>2, <1>3 DEF Pieces
<1> DEFINE to == [j \in 0..m + 1 |-> IF j = m + 1 THEN l ELSE cut[j]]
<1>7. to \in [0..m + 1 -> 0..l] /\ to[0] = 0 /\ to[m + 1] = l /\ \A j \in 0..m : to[j] = cut[j]
  BY <1>2, <1>3, <1>6
<1> HIDE DEF to
<1>a. m \in Nat /\ l \in Nat
  BY <1>2, <1>3
<1>8. ASSUME NEW j \in 1..m + 1
      PROVE  to[j - 1] <= to[j] /\ qs[j] = SubSeq(es, to[j - 1] + 1, to[j])
  <2>1. CASE j = m + 1
    <3>1. j - 1 = m /\ m \in 0..m /\ n \in 0..l
      BY <1>6, <1>a, <2>1
    <3>2. to[j - 1] = n /\ to[j] = l
      BY <1>6, <1>7, <2>1, <3>1
    <3> QED BY <1>3, <1>5, <2>1, <3>1, <3>2
  <2>2. CASE j # m + 1
    <3>1. j \in 1..m /\ j \in 0..m /\ j - 1 \in 0..m
      BY <1>a, <2>2
    <3>2. cut[j - 1] <= cut[j] /\ seqs[j] = SubSeq(es, cut[j - 1] + 1, cut[j])
      BY <1>1, <1>2, <3>1, PieceIs
    <3> QED BY <1>5, <1>7, <3>1, <3>2, Zenon
  <2> QED BY <2>1, <2>2
<1>9. Pieces(qs, es, to)
  BY <1>3, <1>5, <1>7, <1>8 DEF Pieces
<1> QED BY <1>3, <1>4, <1>5, <1>7, <1>9 DEF PiecesOf

-----------------------------------------------------------------------------
(* The invariant: the records under construction stand for the entries that *)
(* are in no block yet, and the blocks for the others.                      *)

Blk == [recs : Seq(Rec), restarts : Seq([num : Int, size : Int, offset : Int]),
        restartNum : Int, size : Nat]
IndexEntry == [key : Text \ {<<>>}, size : Nat, offset : Nat]
Added == [key : Keys \ {<<>>}, val : ValLens]

Typed ==
  /\ recs \in Seq(Rec) /\ groups \in Seq(Nat) /\ recNum = Len(recs)
  /\ blocks \in Seq(Blk) /\ index \in Seq(IndexEntry) /\ offset \in Nat
  /\ added \in Seq(Added) /\ Len(recs) <= Len(added)
  /\ status \in {"open", "done", "aborted"}
  /\ status = "done" => recs = <<>>
  /\ blkPre = IF recs = <<>> THEN <<>> ELSE added[Len(added)].key
  /\ preKey = IF added = <<>> \/ status = "done" THEN <<>> ELSE added[Len(added)].key

Split == Len(added) - Len(recs)
Pending == SubSeq(added, Split + 1, Len(added))

Coded == Codes(recs, Pending) /\ \E at : Restarts(recs, groups, Pending, at)

Read == [i \in DOMAIN blocks |-> ReadBlock(blocks[i])]
OnFile == Read \in Seq(Seq(Added)) /\ PiecesOf(Read, added, Split)

Filtered == status = "done" => filter = CreateFilter(keysNum, {e.key : e \in Range(added)})

Inv == Typed /\ Coded /\ OnFile /\ Filtered

LEMMA InitInv == Init => Inv
<1> SUFFICES ASSUME Init PROVE Inv
  OBVIOUS
<1>1. Typed
  BY DEF Init, Typed
<1>2. Split = 0 /\ Pending = <<>>
  BY DEF Init, Split, Pending
<1>3. Codes(<<>>, <<>>) /\ Restarts(<<>>, <<>>, <<>>, <<>>)
  BY DEF Codes, Restarts
<1>4. Coded
  BY <1>2, <1>3 DEF Init, Coded
<1>5. OnFile
  <2>1. Read = <<>>
    BY DEF Read, Init
  <2> DEFINE cut == [i \in 0..0 |-> 0]
  <2>2. Pieces(<<>>, <<>>, cut) /\ cut[Len(<<>>)] = 0
    BY DEF Pieces
  <2>3. PiecesOf(<<>>, <<>>, 0)
    BY <2>2 DEF PiecesOf
  <2> QED BY <1>2, <2>1, <2>3 DEF OnFile, Init
<1>6. Filtered
  BY DEF Init, Filtered
<1> QED BY <1>1, <1>4, <1>5, <1>6 DEF Inv

LEMMA BehindIs ==
  ASSUME NEW S, NEW s \in Seq(S), NEW m \in 0..Len(s), NEW i \in 1..Len(s) - m
  PROVE  SubSeq(s, m + 1, Len(s))[i] = s[m + i]
OBVIOUS

LEMMA BehindMore ==
  ASSUME NEW S, NEW s \in Seq(S), NEW x \in S, NEW m \in 0..Len(s)
  PROVE  SubSeq(Append(s, x), m + 1, Len(s) + 1) = Append(SubSeq(s, m + 1, Len(s)), x)
<1>1. PICK t : t = Append(s, x)
  OBVIOUS
<1>2. t \in Seq(S) /\ Len(t) = Len(s) + 1 /\ Len(s) \in Nat /\ t[Len(s) + 1] = x
  BY <1>1, AppendIs
<1>3. m + 1 \in 1..Len(t) /\ Len(t) \in m + 1..Len(t)
  BY <1>2
<1>4. SubSeq(t, m + 1, Len(t)) = Append(SubSeq(t, m + 1, Len(t) - 1), t[Len(t)])
  <2>1. SubSeq(t, m + 1, Len(t)) = SubSeq(t, m + 1, Len(t) - 1) \o <<t[Len(t)]>>
    BY <1>2, <1>3, SubSeqRecursiveSecond
  <2>2. SubSeq(t, m + 1, Len(t) - 1) \in Seq(S) /\ t[Len(t)] \in S
    BY <1>2, <1>3
  <2> QED BY <2>1, <2>2, AppendIsConcat
<1>5. SubSeq(t, m + 1, Len(s)) = SubSeq(s, m + 1, Len(s))
  BY <1>1, <1>2
<1>6. Len(t) - 1 = Len(s)
  BY <1>2
<1> QED BY <1>1, <1>2, <1>4, <1>5, <1>6, Zenon

LEMMA AppendsTo ==
  ASSUME NEW S, NEW s \in Seq(S), NEW x \in S, NEW n \in Nat, n = Len(s),
         NEW f, f = [i \in 1..n + 1 |-> f[i]], \A i \in 1..n : f[i] = s[i], f[n + 1] = x
  PROVE  f = Append(s, x)
<1>1. \A i \in 1..n + 1 : i \in 1..n \/ i = n + 1
  OBVIOUS
<1>2. \A i \in 1..n : s[i] \in S
  OBVIOUS
<1>3. \A i \in 1..n + 1 : f[i] \in S
  BY <1>1, <1>2, Zenon
<1>4. f \in Seq(S) /\ Len(f) = n + 1
  BY <1>3
<1>5. PICK t : t = Append(s, x)
  OBVIOUS
<1>6. t \in Seq(S) /\ Len(t) = n + 1 /\ t[n + 1] = x /\ \A i \in 1..n : t[i] = s[i]
  BY <1>5, AppendIs
<1>7. \A i \in 1..n + 1 : f[i] = t[i]
  BY <1>1, <1>6, Zenon
<1>8. f = t
  BY <1>4, <1>6, <1>7, SeqEqual
<1> QED BY <1>5, <1>8

LEMMA AddedAre ==
  ASSUME Typed
  PROVE  /\ added \in Seq(Entry) /\ Len(added) \in Nat /\ Len(recs) \in Nat /\ Split \in 0..Len(added)
         /\ \A i \in 1..Len(added) : added[i].key \in Keys \ {<<>>} /\ added[i].key \in Text
         /\ blkPre \in Text /\ preKey \in Text /\ blkPre \in Keys \cup {<<>>} /\ preKey \in Keys \cup {<<>>}
         /\ Pending \in Seq(Entry) /\ Len(Pending) = Len(recs)
         /\ recs # <<>> => Pending # <<>> /\ Pending[Len(Pending)] = added[Len(added)] /\ added # <<>>
<1>1. Added \subseteq Entry
  BY KeysAreTexts DEF Added, Entry
<1>2. added \in Seq(Added) /\ Len(added) \in Nat /\ Len(recs) \in Nat /\ Len(recs) <= Len(added)
  BY DEF Typed
<1>3. \A i \in 1..Len(added) : added[i] \in Added
  BY <1>2
<1>4. added \in Seq(Entry)
  BY <1>1, <1>2, <1>3
<1>5. \A i \in 1..Len(added) : added[i].key \in Keys \ {<<>>} /\ added[i].key \in Text
  BY <1>3, KeysAreTexts DEF Added
<1>6. Split \in 0..Len(added)
  BY <1>2 DEF Split
<1>7. Pending \in Seq(Entry) /\ Len(Pending) = Len(recs)
  BY <1>2, <1>4, <1>6 DEF Pending, Split
<1>8. <<>> \in Text
  BY DEF Text
<1>9. added # <<>> => Len(added) \in 1..Len(added)
  BY <1>2
<1>10. recs # <<>> => Len(recs) > 0
  BY DEF Typed
<1>11. recs # <<>> => Pending # <<>> /\ Pending[Len(Pending)] = added[Len(added)] /\ added # <<>>
  <2> SUFFICES ASSUME recs # <<>>
               PROVE  Pending # <<>> /\ Pending[Len(Pending)] = added[Len(added)] /\ added # <<>>
    OBVIOUS
  <2>1. Len(Pending) > 0 /\ Split + Len(Pending) = Len(added) /\ Len(added) > 0
    BY <1>2, <1>7, <1>10 DEF Split
  <2>2. Pending[Len(Pending)] = added[Split + Len(Pending)]
    <3>1. Len(Pending) \in 1..Len(added) - Split
      BY <1>2, <1>6, <1>7, <2>1
    <3> QED BY <1>4, <1>6, <3>1, BehindIs DEF Pending
  <2> QED BY <1>7, <2>1, <2>2
<1>12. /\ blkPre \in Text /\ blkPre \in Keys \cup {<<>>}
       /\ preKey \in Text /\ preKey \in Keys \cup {<<>>}
  BY <1>5, <1>8, <1>9, <1>11 DEF Typed
<1> QED BY <1>2, <1>4, <1>5, <1>6, <1>7, <1>11, <1>12

LEMMA RecordFits ==
  ASSUME Typed, Coded, NEW k \in Keys, k # <<>>, NEW v \in ValLens, NEW e, e = [key |-> k, val |-> v]
  PROVE  /\ e \in Added /\ e \in Entry /\ Record(k, v) \in Rec
         /\ Codes(Append(recs, Record(k, v)), Append(Pending, e))
         /\ \E at : Restarts(Append(recs, Record(k, v)), GroupsWith(k, v), Append(Pending, e), at)
<1>1. e \in Added /\ e \in Entry /\ k \in Text /\ e.key = k /\ e.val = v
  BY KeysAreTexts DEF Added, Entry
<1>2. PICK r : r = Record(k, v)
  OBVIOUS
<1>3. /\ r \in Rec /\ r.val = v
      /\ NeedFullKey => r.shared = 0 /\ r.rest = k
      /\ ~NeedFullKey => k = SubSeq(blkPre, 1, r.shared) \o r.rest
  BY <1>1, <1>2, RecordIs, AddedAre
<1>4. NeedFullKey \in BOOLEAN
  BY DEF NeedFullKey
<1>5. ~NeedFullKey => recs # <<>>
  <2> SUFFICES ASSUME recs = <<>> PROVE NeedFullKey
    OBVIOUS
  <2>1. recNum = 0
    BY DEF Typed
  <2> QED BY <2>1, SizeAssumption DEF NeedFullKey
<1>6. ~NeedFullKey => blkPre = Pending[Len(Pending)].key
  BY <1>5, AddedAre DEF Typed
<1>7. Stands(r, e, recs, Pending, NeedFullKey)
  BY <1>1, <1>3, <1>5, <1>6, Zenon DEF Stands
<1>8. Codes(Append(recs, r), Append(Pending, e))
  BY <1>1, <1>3, <1>4, <1>7, CodesMore DEF Coded
<1>9. PICK at : Restarts(recs, groups, Pending, at)
  BY DEF Coded
<1>10. \E to : Restarts(Append(recs, r), IF NeedFullKey THEN Append(groups, DataSize(recs)) ELSE groups,
                        Append(Pending, e), to)
  BY <1>1, <1>3, <1>4, <1>7, <1>9, RestartsMore DEF Coded
<1> QED BY <1>1, <1>2, <1>3, <1>8, <1>10 DEF GroupsWith

LEMMA BlockIs ==
  ASSUME NEW rs, NEW gs, NEW es, NEW at, NEW num \in Int, Codes(rs, es), Restarts(rs, gs, es, at)
  PROVE  Block(rs, gs, num) \in Blk /\ ReadBlock(Block(rs, gs, num)) = es
<1>1. rs \in Seq(Rec) /\ gs \in Seq(Nat) /\ DataSize(rs) \in Nat
  BY DataSizeNat DEF Codes, Restarts
<1>2. num % RESTART_INTERVAL \in Int /\ (num - 1) \div RESTART_INTERVAL + 1 \in Int
      /\ RESTART_INTERVAL \in Int
  BY SizeAssumption
<1>3. PICK m \in Nat : m = Len(gs)
  BY <1>1
<1>4. ASSUME NEW i \in 1..m PROVE Restart(rs, gs, num, i) \in [num : Int, size : Int, offset : Int]
  <2>1. gs[i] \in Nat /\ (i < m => gs[i + 1] \in Nat)
    BY <1>1, <1>3
  <2> QED BY <1>1, <1>2, <1>3, <2>1 DEF Restart
<1>5. [i \in 1..m |-> Restart(rs, gs, num, i)] \in Seq([num : Int, size : Int, offset : Int])
  BY <1>3, <1>4
<1>6. DataSize(rs) + 12 * Len(gs) + 4 \in Nat
  BY <1>1, <1>3
<1>7. Block(rs, gs, num) \in Blk
  BY <1>1, <1>2, <1>3, <1>5, <1>6 DEF Block, Blk
<1> QED BY <1>7, BlockGivesBack

LEMMA LastOf ==
  ASSUME NEW S, NEW s \in Seq(S), s # <<>>
  PROVE  Len(s) \in Nat \ {0} /\ s[Len(s)] \in S
OBVIOUS

LEMMA LastChanged ==
  ASSUME NEW S, NEW s \in Seq(S), s # <<>>, NEW x \in S, NEW t, t = [s EXCEPT ![Len(s)] = x]
  PROVE  /\ t \in Seq(S) /\ Len(t) = Len(s) /\ t # <<>>
         /\ \A i \in 1..Len(s) - 1 : t[i] = s[i]
         /\ t[Len(s)] = x
OBVIOUS

LEMMA BeginOf ==
  ASSUME NEW S, NEW s \in Seq(S), NEW n \in 0..Len(s)
  PROVE  /\ SubSeq(s, 1, n) \in Seq(S) /\ Len(SubSeq(s, 1, n)) = n
         /\ \A i \in 1..n : SubSeq(s, 1, n)[i] = s[i]
OBVIOUS

LEMMA BumpedIs ==
  ASSUME NEW k \in Text, k # <<>>
  PROVE  /\ Bumped(k) \in Text \ {<<>>} /\ Len(Bumped(k)) = Len(k) /\ Len(k) \in Nat \ {0}
         /\ \A i \in 1..Len(k) - 1 : Bumped(k)[i] = k[i]
         /\ Bumped(k)[Len(k)] = (k[Len(k)] + 1) % Byte
<1>1. k \in Seq(0..Byte - 1)
  BY DEF Text
<1>2. k[Len(k)] \in 0..Byte - 1 /\ Len(k) \in Nat \ {0}
  BY <1>1, LastOf
<1>3. (k[Len(k)] + 1) % Byte \in 0..Byte - 1
  BY <1>2, SizeAssumption
<1>4. Bumped(k) = [k EXCEPT ![Len(k)] = (k[Len(k)] + 1) % Byte]
  BY DEF Bumped
<1> HIDE DEF Bumped
<1> QED BY <1>1, <1>2, <1>3, <1>4, LastChanged DEF Text

LEMMA AgreeIs ==
  ASSUME NEW a \in Text, NEW b
  PROVE  Agree(a, b) \in 0..Len(a) /\ Len(a) \in Nat
<1>1. DOMAIN a = 1..Len(a) /\ Len(a) \in Nat
  BY DEF Text
<1>2. IsFiniteSet(1..Len(a)) /\ Cardinality(1..Len(a)) = Len(a)
  <2>1. PICK n \in Nat : n = Len(a)
    BY <1>1
  <2>2. IsFiniteSet(1..n) /\ Cardinality(1..n) = n
    BY FS_Interval
  <2> QED BY <2>1, <2>2
<1>3. {i \in DOMAIN a \cap DOMAIN b : a[i] = b[i]} \subseteq 1..Len(a)
  BY <1>1
<1> HIDE DEF Agree
<1>4. Agree(a, b) \in Nat /\ Agree(a, b) <= Len(a)
  <2>1. PICK A : A = {i \in DOMAIN a \cap DOMAIN b : a[i] = b[i]}
    OBVIOUS
  <2>2. IsFiniteSet(A) /\ Cardinality(A) <= Cardinality(1..Len(a))
    BY <1>2, <1>3, <2>1, FS_Subset
  <2>3. Cardinality(A) \in Nat
    BY <2>2, FS_CardinalityType
  <2> QED BY <1>2, <2>1, <2>2, <2>3 DEF Agree
<1> QED BY <1>1, <1>4

LEMMA ShortestIs ==
  ASSUME NEW a \in Text, a # <<>>, NEW b
  PROVE  ShortestKey(a, b) \in Text \ {<<>>}
<1>1. Agree(a, b) \in 0..Len(a) /\ Len(a) \in Nat
  BY AgreeIs
<1>2. CASE Agree(a, b) = Len(a)
  <2>1. Append(a, Space) \in Text /\ Len(Append(a, Space)) = Len(a) + 1
    BY SizeAssumption DEF Text
  <2>2. Append(a, Space) # <<>>
    BY <1>1, <2>1
  <2> QED BY <1>2, <2>1, <2>2 DEF ShortestKey
<1>3. CASE Agree(a, b) # Len(a)
  <2>1. PICK n \in 1..Len(a) : n = Agree(a, b) + 1
    BY <1>1, <1>3
  <2>2. SubSeq(a, 1, n) \in Text /\ Len(SubSeq(a, 1, n)) = n
    <3>1. n \in 0..Len(a)
      BY <1>1, <2>1
    <3> QED BY <3>1, BeginOf DEF Text
  <2>3. SubSeq(a, 1, n) # <<>>
    BY <2>1, <2>2
  <2>4. ShortestKey(a, b) = Bumped(SubSeq(a, 1, n))
    BY <1>3, <2>1 DEF ShortestKey
  <2> QED BY <2>2, <2>3, <2>4, BumpedIs
<1> QED BY <1>2, <1>3

\* The three ends of an add: the record is kept, the program dies, the block
\* goes to the file.
Keeps(k, v) ==
  /\ recs' = Append(recs, Record(k, v)) /\ groups' = GroupsWith(k, v)
  /\ blkPre' = k /\ recNum' = recNum + 1 /\ preKey' = k
  /\ added' = Append(added, [key |-> k, val |-> v])
  /\ UNCHANGED <<offset, blocks, index, filter, footer, keysNum, status>>

AppendsBlock(b, k, v) ==
  /\ preKey # <<>>
  /\ blocks' = Append(blocks, b) /\ offset' = offset + b.size
  /\ index' = Append(index, [key |-> ShortestKey(preKey, k), size |-> b.size, offset |-> offset'])
  /\ Clear /\ preKey' = k
  /\ added' = Append(added, [key |-> k, val |-> v])
  /\ UNCHANGED <<filter, footer, keysNum, status>>

WithLast(k, v) == Block(Append(recs, Record(k, v)), GroupsWith(k, v), recNum + 1)

LEMMA AddIs ==
  ASSUME NEW k, NEW v, Add(k, v)
  PROVE  /\ status = "open" /\ k # <<>> /\ (added # <<>> => Less(added[Len(added)].key, k))
         /\ Keeps(k, v) \/ Die \/ AppendsBlock(WithLast(k, v), k, v)
BY Zenon DEF Add, Keeps, AppendsBlock, WithLast, Last

LEMMA KeepsInv ==
  ASSUME Inv, NEW k \in Keys, k # <<>>, NEW v \in ValLens, status = "open", Keeps(k, v)
  PROVE  Inv'
<1>1. PICK e : e = [key |-> k, val |-> v]
  OBVIOUS
<1>2. PICK r : r = Record(k, v)
  OBVIOUS
<1>3. /\ e \in Added /\ e \in Entry /\ r \in Rec
      /\ Codes(Append(recs, r), Append(Pending, e))
      /\ \E at : Restarts(Append(recs, r), GroupsWith(k, v), Append(Pending, e), at)
  BY <1>1, <1>2, RecordFits DEF Inv
<1>4. /\ recs' = Append(recs, r) /\ added' = Append(added, e) /\ groups' = GroupsWith(k, v)
      /\ blkPre' = k /\ preKey' = k /\ recNum' = recNum + 1 /\ status' = "open"
      /\ UNCHANGED <<offset, blocks, index, filter, keysNum>>
  BY <1>1, <1>2 DEF Keeps
<1>5. recs \in Seq(Rec) /\ added \in Seq(Added) /\ Len(recs) <= Len(added) /\ recNum = Len(recs)
  BY DEF Inv, Typed
<1>6. /\ recs' \in Seq(Rec) /\ Len(recs') = Len(recs) + 1 /\ Len(recs) \in Nat
      /\ added' \in Seq(Added) /\ Len(added') = Len(added) + 1 /\ Len(added) \in Nat
      /\ added'[Len(added')] = e
  BY <1>3, <1>4, <1>5, AppendIs
<1>7. groups' \in Seq(Nat)
  BY <1>3, <1>4 DEF Restarts
<1>8. Typed'
  <2>1. recs' # <<>> /\ added' # <<>> /\ e.key = k
    BY <1>1, <1>6
  <2> QED BY <1>4, <1>5, <1>6, <1>7, <2>1 DEF Inv, Typed
<1>9. Split' = Split
  BY <1>5, <1>6 DEF Split
<1>10. Pending' = Append(Pending, e)
  <2>1. Split \in 0..Len(added)
    BY <1>5, <1>6 DEF Split
  <2>2. \A m \in 0..Len(added) : SubSeq(Append(added, e), m + 1, Len(added) + 1)
                                   = Append(SubSeq(added, m + 1, Len(added)), e)
    BY <1>5, <1>3, BehindMore
  <2>3. Pending' = SubSeq(added', Split' + 1, Len(added'))
    BY DEF Pending
  <2> QED BY <1>4, <1>6, <1>9, <2>1, <2>2, <2>3 DEF Pending
<1>11. Coded'
  BY <1>3, <1>4, <1>10 DEF Coded
<1>12. OnFile'
  <2>1. Read' = Read
    BY <1>4 DEF Read
  <2>2. Read \in Seq(Seq(Added)) /\ PiecesOf(Read, added, Split)
    BY DEF Inv, OnFile
  <2>3. Len(Read) \in Nat
    BY <2>2
  <2>4. PiecesOf(Read, Append(added, e), Split)
    BY <1>3, <1>5, <2>2, <2>3, PiecesGrow
  <2> QED BY <1>4, <1>9, <2>1, <2>2, <2>4 DEF OnFile
<1>13. Filtered'
  BY <1>4 DEF Filtered
<1> QED BY <1>8, <1>11, <1>12, <1>13 DEF Inv

LEMMA DieInv ==
  ASSUME Inv, status = "open", Die
  PROVE  Inv'
<1>1. /\ UNCHANGED <<recs, groups, blkPre, recNum, preKey, offset, blocks, index, filter, keysNum, added>>
      /\ status' = "aborted"
  BY DEF Die, blockVars
<1>2. Typed'
  BY <1>1 DEF Inv, Typed
<1>3. Coded'
  BY <1>1 DEF Inv, Coded, Pending, Split
<1>4. OnFile'
  BY <1>1 DEF Inv, OnFile, Read, Split
<1>5. Filtered'
  BY <1>1 DEF Filtered
<1> QED BY <1>2, <1>3, <1>4, <1>5 DEF Inv

\* A block of what is pending and more, as the file's next piece.
LEMMA NextBlock ==
  ASSUME Typed, Read \in Seq(Seq(Added)), NEW more, more \in Seq(Added), PiecesOf(Read, more, Split),
         Split \in 0..Len(more), NEW b \in Blk, ReadBlock(b) = SubSeq(more, Split + 1, Len(more)),
         blocks' = Append(blocks, b)
  PROVE  /\ Read' \in Seq(Seq(Added)) /\ PiecesOf(Read', more, Len(more))
         /\ Read' = Append(Read, SubSeq(more, Split + 1, Len(more)))
<1>1. blocks \in Seq(Blk) /\ Len(blocks) \in Nat
  BY DEF Typed
<1>2. PICK x : x = ReadBlock(b)
  OBVIOUS
<1>3. x \in Seq(Added) /\ x = SubSeq(more, Split + 1, Len(more))
  BY <1>2, RestOf
<1>4. PICK n \in Nat : n = Len(blocks)
  BY <1>1
<1>5. /\ DOMAIN blocks = 1..n /\ DOMAIN blocks' = 1..n + 1
      /\ blocks'[n + 1] = b /\ \A i \in 1..n : blocks'[i] = blocks[i]
  BY <1>1, <1>4
<1>6. Read = [i \in 1..n |-> ReadBlock(blocks[i])]
  BY <1>5 DEF Read
<1>7. Read' = [i \in 1..n + 1 |-> ReadBlock(blocks'[i])]
  BY <1>5 DEF Read
<1>8. Len(Read) = n
  BY <1>6
<1>9. Read' = [i \in 1..n + 1 |-> Read'[i]] /\ Read'[n + 1] = x
  BY <1>2, <1>5, <1>7
<1>10. \A i \in 1..n : Read'[i] = Read[i]
  BY <1>5, <1>6, <1>7
<1>a. Read' = Append(Read, x)
  BY <1>3, <1>4, <1>8, <1>9, <1>10, AppendsTo
<1>11. Append(Read, x) \in Seq(Seq(Added))
  BY <1>3, AppendIs
<1> QED BY <1>3, <1>a, <1>11, PiecesMore

LEMMA NothingPending ==
  /\ Codes(<<>>, <<>>) /\ Restarts(<<>>, <<>>, <<>>, <<>>)
  /\ \A es : es \in Seq(Added) => SubSeq(es, Len(es) + 1, Len(es)) = <<>>
BY DEF Codes, Restarts

LEMMA AppendsInv ==
  ASSUME Inv, NEW k \in Keys, k # <<>>, NEW v \in ValLens, status = "open",
         AppendsBlock(WithLast(k, v), k, v)
  PROVE  Inv'
<1>1. PICK e : e = [key |-> k, val |-> v]
  OBVIOUS
<1>2. PICK r : r = Record(k, v)
  OBVIOUS
<1>3. /\ e \in Added /\ e \in Entry /\ r \in Rec
      /\ Codes(Append(recs, r), Append(Pending, e))
      /\ \E at : Restarts(Append(recs, r), GroupsWith(k, v), Append(Pending, e), at)
  BY <1>1, <1>2, RecordFits DEF Inv
<1>4. PICK b : b = WithLast(k, v)
  OBVIOUS
<1>5. /\ blocks' = Append(blocks, b) /\ offset' = offset + b.size
      /\ index' = Append(index, [key |-> ShortestKey(preKey, k), size |-> b.size, offset |-> offset'])
      /\ recs' = <<>> /\ groups' = <<>> /\ blkPre' = <<>> /\ recNum' = 0 /\ preKey' = k
      /\ added' = Append(added, e) /\ preKey # <<>> /\ status' = "open"
      /\ UNCHANGED <<filter, keysNum>>
  BY <1>1, <1>4 DEF AppendsBlock, Clear
<1>6. /\ recs \in Seq(Rec) /\ added \in Seq(Added) /\ Len(recs) <= Len(added) /\ recNum \in Int
      /\ blocks \in Seq(Blk) /\ index \in Seq(IndexEntry) /\ offset \in Nat
      /\ Len(added) \in Nat /\ Len(recs) \in Nat
  BY DEF Inv, Typed
<1>7. b \in Blk /\ ReadBlock(b) = Append(Pending, e)
  <2>1. PICK at : Restarts(Append(recs, r), GroupsWith(k, v), Append(Pending, e), at)
    BY <1>3
  <2>2. recNum + 1 \in Int
    BY <1>6
  <2>3. b = Block(Append(recs, r), GroupsWith(k, v), recNum + 1)
    BY <1>2, <1>4, Zenon DEF WithLast
  <2> QED BY <1>3, <2>1, <2>2, <2>3, BlockIs
<1>8. /\ added' \in Seq(Added) /\ Len(added') = Len(added) + 1 /\ added'[Len(added')] = e
  BY <1>3, <1>5, <1>6, AppendIs
<1>9. b.size \in Nat
  BY <1>7 DEF Blk
<1>10. Typed'
  <2>1. ShortestKey(preKey, k) \in Text \ {<<>>}
    BY <1>5, ShortestIs, AddedAre DEF Inv
  <2>2. [key |-> ShortestKey(preKey, k), size |-> b.size, offset |-> offset'] \in IndexEntry
    BY <1>5, <1>6, <1>9, <2>1 DEF IndexEntry
  <2>3. blocks' \in Seq(Blk) /\ index' \in Seq(IndexEntry) /\ offset' \in Nat
    BY <1>5, <1>6, <1>7, <1>9, <2>2, AppendIs
  <2>4. added' # <<>> /\ e.key = k /\ Len(recs') = 0 /\ recs' \in Seq(Rec) /\ groups' \in Seq(Nat)
    BY <1>1, <1>5, <1>6, <1>8
  <2> QED BY <1>5, <1>6, <1>8, <2>3, <2>4 DEF Typed
<1>11. Split' = Len(added') /\ Split \in 0..Len(added)
  BY <1>5, <1>6, <1>8 DEF Split
<1>12. Pending' = <<>>
  BY <1>8, <1>11, NothingPending DEF Pending
<1>13. Coded'
  BY <1>5, <1>12, NothingPending DEF Coded
<1>14. OnFile'
  <2>1. Read \in Seq(Seq(Added)) /\ PiecesOf(Read, added, Split)
    BY DEF Inv, OnFile
  <2>2. Len(Read) \in Nat
    BY <2>1
  <2>3. PiecesOf(Read, added', Split)
    BY <1>3, <1>5, <1>6, <2>1, <2>2, PiecesGrow
  <2>4. SubSeq(added', Split + 1, Len(added')) = Append(Pending, e)
    BY <1>3, <1>5, <1>6, <1>8, <1>11, BehindMore DEF Pending
  <2>5. Split \in 0..Len(added')
    BY <1>6, <1>8, <1>11
  <2>6. Read' \in Seq(Seq(Added)) /\ PiecesOf(Read', added', Len(added'))
    BY <1>5, <1>7, <1>8, <2>1, <2>3, <2>4, <2>5, NextBlock DEF Inv
  <2> QED BY <1>11, <2>6 DEF OnFile
<1>15. Filtered'
  BY <1>5 DEF Filtered
<1> QED BY <1>10, <1>13, <1>14, <1>15 DEF Inv

\* The two ends of a table that is finished: with a block that was begun, and
\* without.
Closes(ix) ==
  /\ index' = ix /\ filter' = CreateFilter(keysNum, {e.key : e \in Range(added)})
  /\ offset' = 0 /\ preKey' = <<>> /\ Clear /\ status' = "done"
  /\ UNCHANGED <<keysNum, added>>

ClosesBlock(b) ==
  /\ recs # <<>> /\ blocks' = Append(blocks, b)
  /\ Closes(Append(index, [key |-> Bumped(preKey), size |-> b.size, offset |-> offset]))

ClosesNone == recs = <<>> /\ blocks' = blocks /\ Closes(index)

LEMMA FinishIs ==
  ASSUME Finish
  PROVE  status = "open" /\ (Die \/ ClosesNone \/ ClosesBlock(Block(recs, groups, recNum)))
<1>1. CASE recs = <<>>
  BY <1>1, Zenon DEF Finish, ClosesNone, Closes
<1>2. CASE recs # <<>>
  BY <1>2, Zenon DEF Finish, ClosesBlock, Closes
<1> QED BY <1>1, <1>2

LEMMA ClosesInv ==
  ASSUME Inv, status = "open", ClosesNone \/ ClosesBlock(Block(recs, groups, recNum))
  PROVE  Inv'
<1>1. PICK b : b = Block(recs, groups, recNum)
  OBVIOUS
<1>2. /\ recs \in Seq(Rec) /\ added \in Seq(Added) /\ Len(recs) <= Len(added) /\ recNum \in Int
      /\ blocks \in Seq(Blk) /\ index \in Seq(IndexEntry) /\ offset \in Nat
      /\ Len(added) \in Nat /\ Len(recs) \in Nat
  BY DEF Inv, Typed
<1>3. b \in Blk /\ ReadBlock(b) = Pending
  BY <1>1, <1>2, BlockIs DEF Inv, Coded
<1>4. b.size \in Nat
  BY <1>3 DEF Blk
<1>5. /\ offset' = 0 /\ preKey' = <<>> /\ recs' = <<>> /\ groups' = <<>> /\ blkPre' = <<>> /\ recNum' = 0
      /\ status' = "done" /\ added' = added /\ keysNum' = keysNum
      /\ filter' = CreateFilter(keysNum, {e.key : e \in Range(added)})
  BY DEF ClosesNone, ClosesBlock, Closes, Clear
<1>6. Split' = Len(added) /\ Split \in 0..Len(added) /\ Pending' = <<>>
  BY <1>2, <1>5, NothingPending DEF Split, Pending
<1>7. Coded'
  BY <1>5, <1>6, NothingPending DEF Coded
<1>8. Filtered'
  BY <1>5 DEF Filtered
<1>9. blocks' \in Seq(Blk) /\ index' \in Seq(IndexEntry)
  <2>1. CASE ClosesNone
    BY <1>2, <2>1 DEF ClosesNone, Closes
  <2>2. CASE ClosesBlock(b)
    <3>1. preKey \in Text /\ preKey # <<>>
      <4>1. added # <<>> /\ preKey = added[Len(added)].key /\ Len(added) \in 1..Len(added)
        BY <1>2, <2>2, AddedAre DEF Inv, Typed, ClosesBlock
      <4> QED BY <4>1, AddedAre DEF Inv
    <3>2. [key |-> Bumped(preKey), size |-> b.size, offset |-> offset] \in IndexEntry
      BY <1>2, <1>4, <3>1, BumpedIs DEF IndexEntry
    <3>3. /\ blocks' = Append(blocks, b)
          /\ index' = Append(index, [key |-> Bumped(preKey), size |-> b.size, offset |-> offset])
      BY <2>2 DEF ClosesBlock, Closes
    <3> QED BY <1>2, <1>3, <3>2, <3>3, AppendIs
  <2> QED BY <1>1, <2>1, <2>2
<1>10. Typed'
  <2>1. Len(recs') = 0 /\ recs' \in Seq(Rec) /\ groups' \in Seq(Nat)
    BY <1>5
  <2> QED BY <1>2, <1>5, <1>9, <2>1 DEF Typed
<1>11. OnFile'
  <2>1. Read \in Seq(Seq(Added)) /\ PiecesOf(Read, added, Split)
    BY DEF Inv, OnFile
  <2>2. CASE ClosesNone
    <3>1. Read' = Read /\ Split = Len(added)
      BY <1>2, <2>2 DEF ClosesNone, Read, Split
    <3> QED BY <1>5, <1>6, <2>1, <3>1 DEF OnFile
  <2>3. CASE ClosesBlock(b)
    <3>1. blocks' = Append(blocks, b)
      BY <2>3 DEF ClosesBlock
    <3>2. ReadBlock(b) = SubSeq(added, Split + 1, Len(added))
      BY <1>3 DEF Pending
    <3>3. Read' \in Seq(Seq(Added)) /\ PiecesOf(Read', added, Len(added))
      BY <1>2, <1>3, <1>6, <2>1, <3>1, <3>2, NextBlock DEF Inv
    <3> QED BY <1>5, <1>6, <3>3 DEF OnFile
  <2> QED BY <1>1, <2>2, <2>3
<1> QED BY <1>7, <1>8, <1>10, <1>11 DEF Inv

LEMMA NextInv == Inv /\ [Next]_vars => Inv'
<1> SUFFICES ASSUME Inv, [Next]_vars PROVE Inv'
  OBVIOUS
<1>1. ASSUME NEW k \in Keys, NEW v \in ValLens, Add(k, v) PROVE Inv'
  BY <1>1, AddIs, KeepsInv, DieInv, AppendsInv
<1>2. CASE Finish
  BY <1>2, FinishIs, DieInv, ClosesInv
<1>3. CASE UNCHANGED vars
  <2>1. Typed'
    BY <1>3 DEF Inv, Typed, vars
  <2>2. Coded'
    BY <1>3 DEF Inv, Coded, Pending, Split, vars
  <2>3. OnFile'
    BY <1>3 DEF Inv, OnFile, Read, Split, vars
  <2>4. Filtered'
    BY <1>3 DEF Inv, Filtered, vars
  <2> QED BY <2>1, <2>2, <2>3, <2>4 DEF Inv
<1> QED BY <1>1, <1>2, <1>3 DEF Next

LEMMA Invariant == Spec => []Inv
BY InitInv, NextInv, PTL DEF Spec

-----------------------------------------------------------------------------
\* Every variable holds a value of its type; the restart points of the block
\* under construction (record_group_offset) are places inside its records, and
\* record_num counts them.
THEOREM TypeCorrect == Spec => []TypeOK
<1>1. Inv => TypeOK
  <2> SUFFICES ASSUME Inv PROVE TypeOK
    OBVIOUS
  <2>1. /\ recs \in Seq(Rec) /\ recNum = Len(recs) /\ offset \in Nat /\ index \in Seq(IndexEntry)
        /\ status \in {"open", "done", "aborted"}
    BY DEF Inv, Typed
  <2>2. blkPre \in Keys \cup {<<>>} /\ preKey \in Keys \cup {<<>>}
    BY AddedAre DEF Inv
  <2>3. \A i \in DOMAIN recs : recs[i].shared >= 0 /\ recs[i].val \in ValLens
    <3>1. \A r \in Rec : r.shared \in Nat /\ r.val \in ValLens
      BY DEF Rec
    <3>2. \A i \in DOMAIN recs : recs[i] \in Rec
      BY <2>1
    <3> QED BY <3>1, <3>2
  <2>4. \A i \in DOMAIN index : index[i].key # <<>> /\ index[i].offset \in Nat
    <3>1. \A x \in IndexEntry : x.key # <<>> /\ x.offset \in Nat
      BY DEF IndexEntry
    <3>2. \A i \in DOMAIN index : index[i] \in IndexEntry
      BY <2>1
    <3> QED BY <3>1, <3>2
  <2>5. \A i \in DOMAIN groups : groups[i] \in 0..DataSize(recs) - 1
    <3>1. PICK at : Restarts(recs, groups, Pending, at)
      BY DEF Inv, Coded
    <3>2. groups \in Seq(Nat) /\ DOMAIN groups = 1..Len(groups)
      BY <3>1 DEF Restarts
    <3> TAKE i \in DOMAIN groups
    <3>3. at[i] \in 1..Len(recs) /\ groups[i] = SizeUpTo(recs, at[i] - 1)
      BY <3>1, <3>2 DEF Restarts
    <3>4. Len(recs) \in 0..Len(recs) /\ at[i] - 1 \in 0..Len(recs) - 1 /\ at[i] - 1 \in 0..Len(recs)
      BY <2>1, <3>3
    <3>5. /\ SizeUpTo(recs, at[i] - 1) < SizeUpTo(recs, Len(recs))
          /\ SizeUpTo(recs, at[i] - 1) \in Nat /\ SizeUpTo(recs, Len(recs)) = DataSize(recs)
      BY <2>1, <3>4, SizesGrow
    <3>6. DataSize(recs) \in Nat
      BY <2>1, DataSizeNat
    <3> QED BY <3>3, <3>5, <3>6
  <2> QED BY <2>1, <2>2, <2>3, <2>4, <2>5 DEF TypeOK
<1> QED BY <1>1, Invariant, PTL

\* No false negative: the filter of a finished table admits every key that was
\* added, whatever the memtable's size it was made for.
THEOREM FilterKnowsKeys == Spec => []FilterAdmitsKeys
<1>1. Inv => FilterAdmitsKeys
  <2> SUFFICES ASSUME Inv, status = "done", NEW e \in Range(added) PROVE Exists(filter, e.key)
    BY DEF FilterAdmitsKeys
  <2>1. filter = CreateFilter(keysNum, {x.key : x \in Range(added)})
    BY DEF Inv, Filtered
  <2>2. e.key \in {x.key : x \in Range(added)}
    OBVIOUS
  <2>3. e.key # <<>>
    <3>1. added \in Seq(Added)
      BY DEF Inv, Typed
    <3>2. e \in Added
      BY <3>1 DEF Range
    <3> QED BY <3>2 DEF Added
  <2>4. /\ filter.bits = UNION {Positions(Hash[k], filter.hashes, filter.bytes) :
                                 k \in {x.key : x \in Range(added)}}
    BY <2>1 DEF CreateFilter
  <2> HIDE DEF Positions
  <2> QED BY <2>2, <2>3, <2>4 DEF Exists
<1> QED BY <1>1, Invariant, PTL

\* Cutting keys, restarting every RESTART_INTERVAL records and dividing into
\* blocks lose nothing and reorder nothing: the blocks on file, read from their
\* restart points, give back what was added but for the block under construction,
\* and all of it once the table is finished.
THEOREM BlocksGiveBack == Spec => []BlocksReadBack
<1>1. Inv => BlocksReadBack
  <2> SUFFICES ASSUME Inv PROVE BlocksReadBack
    OBVIOUS
  <2>1. /\ added \in Seq(Added) /\ Read \in Seq(Seq(Added)) /\ recs \in Seq(Rec)
        /\ status = "done" => recs = <<>>
    BY DEF Inv, Typed, OnFile
  <2>2. PICK cut : Pieces(Read, added, cut) /\ cut[Len(Read)] = Split
    BY DEF Inv, OnFile, PiecesOf
  <2>3. FlattenSeq(Read) = SubSeq(added, 1, Split)
    BY <2>1, <2>2, FlattenIs
  <2>4. status = "done" => SubSeq(added, 1, Split) = added
    BY <2>1 DEF Split
  <2> QED BY <2>3, <2>4 DEF BlocksReadBack, Read, Split
<1> QED BY <1>1, Invariant, PTL

-----------------------------------------------------------------------------
(* The order of keys. *)

Same(a, b, n) == \A j \in 1..n : a[j] = b[j]
Shorter(a, b) == Len(a) < Len(b) /\ Same(a, b, Len(a))
DiffersAt(a, b, i) == /\ i \in 1..Len(a) /\ i <= Len(b)
                      /\ Same(a, b, i - 1) /\ a[i] < b[i]

LEMMA TextIs ==
  ASSUME NEW a \in Text
  PROVE  /\ Len(a) \in Nat /\ DOMAIN a = 1..Len(a)
         /\ \A i \in 1..Len(a) : a[i] \in 0..Byte - 1 /\ a[i] \in Nat
<1>1. Len(a) \in Nat /\ DOMAIN a = 1..Len(a)
  BY DEF Text
<1>2. ASSUME NEW i \in 1..Len(a) PROVE a[i] \in 0..Byte - 1
  BY ElementOfSeq DEF Text
<1>3. \A x \in 0..Byte - 1 : x \in Nat
  BY SizeAssumption
<1> QED BY <1>1, <1>2, <1>3

LEMMA BeginsSame ==
  ASSUME NEW a \in Text, NEW b \in Text, NEW n \in 0..Len(a), n <= Len(b)
  PROVE  SubSeq(a, 1, n) = SubSeq(b, 1, n) <=> Same(a, b, n)
<1>1. n \in 0..Len(b) /\ n \in Nat
  BY TextIs
<1> PICK x, y : x = SubSeq(a, 1, n) /\ y = SubSeq(b, 1, n)
  OBVIOUS
<1>2. x \in Text /\ Len(x) = n /\ \A i \in 1..n : x[i] = a[i]
  BY BeginOf DEF Text
<1>3. y \in Text /\ Len(y) = n /\ \A i \in 1..n : y[i] = b[i]
  BY <1>1, BeginOf DEF Text
<1>4. x = y => Same(a, b, n)
  BY <1>2, <1>3 DEF Same
<1>5. Same(a, b, n) => x = y
  <2> SUFFICES ASSUME Same(a, b, n) PROVE x = y
    OBVIOUS
  <2>1. \A i \in 1..n : x[i] = y[i]
    BY <1>2, <1>3 DEF Same
  <2> QED BY <1>2, <1>3, <2>1, SeqEqual DEF Text
<1> QED BY <1>4, <1>5

LEMMA LessIs ==
  ASSUME NEW a \in Text, NEW b \in Text
  PROVE  Less(a, b) <=> Shorter(a, b) \/ \E i : DiffersAt(a, b, i)
<1>1. Len(a) \in Nat /\ Len(b) \in Nat /\ DOMAIN a = 1..Len(a) /\ DOMAIN b = 1..Len(b)
  BY TextIs
<1>2. IsStrictPrefix(a, b) <=> Shorter(a, b)
  <2>1. Len(a) <= Len(b) => (SubSeq(a, 1, Len(a)) = SubSeq(b, 1, Len(a)) <=> Same(a, b, Len(a)))
    BY <1>1, BeginsSame
  <2>2. Len(a) = Len(b) /\ Same(a, b, Len(a)) => a = b
    BY SeqEqual DEF Same, Text
  <2>3. Len(a) < Len(b) => a # b
    BY <1>1
  <2> PICK x, y : x = SubSeq(a, 1, Len(a)) /\ y = SubSeq(b, 1, Len(a))
    OBVIOUS
  <2>4. IsStrictPrefix(a, b) <=> Len(a) <= Len(b) /\ x = y /\ a # b
    BY DEF IsStrictPrefix, IsPrefix
  <2>5. Len(a) <= Len(b) <=> Len(a) < Len(b) \/ Len(a) = Len(b)
    <3>1. \A i, j \in Nat : i <= j <=> i < j \/ i = j
      OBVIOUS
    <3> QED BY <1>1, <3>1, Zenon
  <2> QED BY <2>1, <2>2, <2>3, <2>4, <2>5 DEF Shorter
<1>3. ASSUME NEW i \in 1..Len(a), i <= Len(b)
      PROVE  SubSeq(a, 1, i - 1) = SubSeq(b, 1, i - 1) <=> Same(a, b, i - 1)
  <2>1. i - 1 \in 0..Len(a) /\ i - 1 <= Len(b)
    BY <1>1, <1>3
  <2> QED BY <2>1, BeginsSame
<1>4. DOMAIN a \cap DOMAIN b = {i \in 1..Len(a) : i <= Len(b)}
  BY <1>1
<1>5. (\E i \in DOMAIN a \cap DOMAIN b : SubSeq(a, 1, i - 1) = SubSeq(b, 1, i - 1) /\ a[i] < b[i])
        <=> \E i : DiffersAt(a, b, i)
  BY <1>3, <1>4 DEF DiffersAt
<1> QED BY <1>2, <1>5 DEF Less

LEMMA LessTrans ==
  ASSUME NEW a \in Text, NEW b \in Text, NEW c \in Text, Less(a, b), Less(b, c)
  PROVE  Less(a, c)
<1>1. Len(a) \in Nat /\ Len(b) \in Nat /\ Len(c) \in Nat
  BY TextIs
<1>2. CASE Shorter(a, b) /\ Shorter(b, c)
  <2>1. Len(a) < Len(c) /\ \A j \in 1..Len(a) : j \in 1..Len(b)
    BY <1>1, <1>2 DEF Shorter
  <2>2. Same(a, c, Len(a))
    BY <1>2, <2>1 DEF Shorter, Same
  <2> QED BY <2>1, <2>2, LessIs DEF Shorter
<1>3. ASSUME Shorter(a, b), NEW j, DiffersAt(b, c, j) PROVE Less(a, c)
  <2>1. j \in Nat /\ j <= Len(c) /\ Len(a) < Len(b) /\ 1 <= j
    BY <1>1, <1>3 DEF Shorter, DiffersAt
  <2>2. CASE j <= Len(a)
    <3>1. j \in 1..Len(a) /\ \A i \in 1..j - 1 : i \in 1..Len(a)
      BY <1>1, <2>1, <2>2
    <3>2. a[j] = b[j] /\ b[j] < c[j]
      BY <1>3, <3>1 DEF Shorter, DiffersAt, Same
    <3>3. Same(a, c, j - 1)
      BY <1>3, <3>1 DEF Shorter, DiffersAt, Same
    <3> QED BY <2>1, <3>1, <3>2, <3>3, LessIs DEF DiffersAt
  <2>3. CASE ~(j <= Len(a))
    <3>1. Len(a) < Len(c) /\ \A i \in 1..Len(a) : i \in 1..j - 1
      BY <1>1, <2>1, <2>3
    <3>2. Same(a, c, Len(a))
      BY <1>3, <3>1 DEF Shorter, DiffersAt, Same
    <3> QED BY <3>1, <3>2, LessIs DEF Shorter
  <2> QED BY <2>2, <2>3
<1>4. ASSUME NEW i, DiffersAt(a, b, i), Shorter(b, c) PROVE Less(a, c)
  <2>1. i \in 1..Len(a) /\ i \in 1..Len(b) /\ i <= Len(c) /\ \A j \in 1..i - 1 : j \in 1..Len(b)
    BY <1>1, <1>4 DEF Shorter, DiffersAt
  <2>2. a[i] < c[i] /\ Same(a, c, i - 1)
    BY <1>4, <2>1 DEF Shorter, DiffersAt, Same
  <2> QED BY <2>1, <2>2, LessIs DEF DiffersAt
<1>5. ASSUME NEW i, DiffersAt(a, b, i), NEW j, DiffersAt(b, c, j) PROVE Less(a, c)
  <2>1. /\ i \in 1..Len(a) /\ i \in 1..Len(b) /\ j \in 1..Len(b) /\ j \in 1..Len(c)
        /\ i \in Nat /\ j \in Nat
    BY <1>1, <1>5 DEF DiffersAt
  <2>2. CASE i < j
    <3>1. i <= Len(c) /\ i \in 1..j - 1 /\ \A k \in 1..i - 1 : k \in 1..j - 1
      BY <1>1, <2>1, <2>2
    <3>2. a[i] < c[i] /\ Same(a, c, i - 1)
      BY <1>5, <3>1 DEF DiffersAt, Same
    <3> QED BY <2>1, <3>1, <3>2, LessIs DEF DiffersAt
  <2>3. CASE j < i
    <3>1. j \in 1..Len(a) /\ j <= Len(c) /\ j \in 1..i - 1 /\ \A k \in 1..j - 1 : k \in 1..i - 1
      BY <1>1, <2>1, <2>3
    <3>2. a[j] < c[j] /\ Same(a, c, j - 1)
      BY <1>5, <3>1 DEF DiffersAt, Same
    <3> QED BY <3>1, <3>2, LessIs DEF DiffersAt
  <2>4. CASE i = j
    <3>1. a[i] < b[i] /\ b[i] < c[i] /\ a[i] \in Nat /\ b[i] \in Nat /\ c[i] \in Nat
      BY <1>5, <2>1, <2>4, TextIs DEF DiffersAt
    <3>2. a[i] < c[i] /\ i <= Len(c)
      BY <1>1, <2>1, <2>4, <3>1
    <3>3. Same(a, c, i - 1)
      BY <1>5, <2>4 DEF DiffersAt, Same
    <3> QED BY <2>1, <3>2, <3>3, LessIs DEF DiffersAt
  <2> QED BY <2>1, <2>2, <2>3, <2>4
<1> QED BY <1>2, <1>3, <1>4, <1>5, LessIs

LEMMA LessNotSelf == \A a \in Text : ~Less(a, a)
<1> SUFFICES ASSUME NEW a \in Text, Less(a, a) PROVE FALSE
  OBVIOUS
<1>1. ~Shorter(a, a)
  BY TextIs DEF Shorter
<1>2. \A i : ~DiffersAt(a, a, i)
  BY TextIs DEF DiffersAt
<1> QED BY <1>1, <1>2, LessIs

NotAbove(a, b) == a = b \/ Less(a, b)

LEMMA NotAboveLess ==
  ASSUME NEW a \in Text, NEW b \in Text, NEW c \in Text, NotAbove(a, b), Less(b, c)
  PROVE  Less(a, c) /\ ~Less(c, a)
<1>1. Less(a, c)
  BY LessTrans DEF NotAbove
<1>2. ~Less(c, a)
  BY <1>1, LessTrans, LessNotSelf
<1> QED BY <1>1, <1>2

LEMMA BeginningNotAbove ==
  ASSUME NEW s \in Text, NEW b \in Text, NEW n \in Nat \ {0}, n = Len(s), n <= Len(b),
         Same(s, b, n - 1), s[n] <= b[n]
  PROVE  NotAbove(s, b)
<1>1. n \in 1..Len(s) /\ n \in 1..Len(b) /\ Len(b) \in Nat
  BY TextIs
<1>2. s[n] \in Nat /\ b[n] \in Nat
  BY <1>1, TextIs
<1>3. CASE s[n] < b[n]
  <2>1. DiffersAt(s, b, n)
    BY <1>1, <1>3 DEF DiffersAt
  <2> QED BY <2>1, LessIs DEF NotAbove
<1>4. CASE s[n] = b[n]
  <2>1. Same(s, b, n)
    <3>1. \A i \in 1..n : i \in 1..n - 1 \/ i = n
      OBVIOUS
    <3> QED BY <1>4, <3>1 DEF Same
  <2>2. CASE n < Len(b)
    BY <2>1, <2>2, LessIs DEF NotAbove, Shorter
  <2>3. CASE n = Len(b)
    <3>1. s = b
      BY <2>1, <2>3, SeqEqual DEF Same, Text
    <3> QED BY <3>1 DEF NotAbove
  <2> QED BY <1>1, <2>2, <2>3
<1> QED BY <1>2, <1>3, <1>4

LEMMA UpToMany == \A n \in Nat : IsFiniteSet(1..n) /\ Cardinality(1..n) = n
<1> TAKE n \in Nat
<1> QED BY FS_Interval

LEMMA AgreeSays ==
  ASSUME NEW a \in Text, NEW b \in Text
  PROVE  /\ Agree(a, b) = Len(a) => Len(a) <= Len(b) /\ Same(a, b, Len(a))
         /\ \A m \in 0..Len(a) : m <= Len(b) /\ Same(a, b, m) => m <= Agree(a, b)
<1> PICK A, n : A = {i \in DOMAIN a \cap DOMAIN b : a[i] = b[i]} /\ n = Len(a)
  OBVIOUS
<1>1. /\ n \in Nat /\ Len(b) \in Nat /\ DOMAIN a = 1..n /\ DOMAIN b = 1..Len(b)
      /\ Agree(a, b) = Cardinality(A)
  BY TextIs DEF Agree
<1>2. IsFiniteSet(1..n) /\ Cardinality(1..n) = n /\ A \subseteq 1..n
  <2>1. IsFiniteSet(1..n) /\ Cardinality(1..n) = n
    BY <1>1, UpToMany
  <2>2. A \subseteq 1..n
    BY <1>1
  <2> QED BY <2>1, <2>2
<1>3. ASSUME Cardinality(A) = n PROVE n <= Len(b) /\ Same(a, b, n)
  <2>1. A = 1..n
    BY <1>2, <1>3, FS_Subset
  <2>2. \A i \in 1..n : i <= Len(b) /\ a[i] = b[i]
    BY <1>1, <2>1
  <2>3. n <= Len(b)
    <3>1. n # 0 => n \in 1..n
      BY <1>1
    <3> QED BY <1>1, <2>2, <3>1
  <2> QED BY <2>2, <2>3 DEF Same
<1>4. ASSUME NEW m \in 0..n, m <= Len(b), Same(a, b, m) PROVE m <= Cardinality(A)
  <2>1. 1..m \subseteq A
    BY <1>1, <1>4 DEF Same
  <2>2. Cardinality(1..m) = m
    BY <1>1, UpToMany
  <2>3. IsFiniteSet(A)
    BY <1>2, FS_Subset
  <2> QED BY <2>1, <2>2, <2>3, FS_Subset
<1> QED BY <1>1, <1>3, <1>4

\* The next letter of a key is a byte.
Bumpable(k) == \A i \in 1..Len(k) : k[i] + 1 < Byte

LEMMA BumpedAbove ==
  ASSUME NEW k \in Text, k # <<>>, Bumpable(k)
  PROVE  Less(k, Bumped(k)) /\ Bumped(k)[Len(k)] = k[Len(k)] + 1
<1> PICK s, n : s = Bumped(k) /\ n = Len(k)
  OBVIOUS
<1>1. /\ s \in Text /\ Len(s) = n /\ n \in Nat \ {0}
      /\ \A i \in 1..n - 1 : s[i] = k[i]
      /\ s[n] = (k[n] + 1) % Byte
  BY BumpedIs
<1>2. n \in 1..n /\ n \in 1..Len(s)
  BY <1>1
<1>3. s[n] = k[n] + 1 /\ k[n] \in Nat
  <2>1. k[n] \in Nat /\ k[n] + 1 < Byte
    BY <1>2, TextIs DEF Bumpable
  <2>2. Byte \in Nat \ {0}
    BY SizeAssumption
  <2>3. (k[n] + 1) % Byte = k[n] + 1
    BY <2>1, <2>2
  <2> QED BY <1>1, <2>1, <2>3
<1>4. DiffersAt(k, s, n)
  BY <1>1, <1>2, <1>3 DEF DiffersAt, Same
<1> QED BY <1>1, <1>3, <1>4, LessIs

\* A separator of two keys is above the first and not above the second: letters
\* are not below the blank that it may end with.
LEMMA SeparatorIs ==
  ASSUME NEW a \in Text, a # <<>>, NEW b \in Text, Less(a, b), Bumpable(a),
         \A i \in 1..Len(b) : Space <= b[i]
  PROVE  Less(a, ShortestKey(a, b)) /\ NotAbove(ShortestKey(a, b), b)
<1> PICK s, n, m : s = ShortestKey(a, b) /\ n = Agree(a, b) /\ m = Len(a)
  OBVIOUS
<1>1. n \in 0..m /\ m \in Nat /\ Len(b) \in Nat /\ s \in Text /\ m # 0 /\ n \in Nat
  <2>1. n \in 0..m /\ m \in Nat /\ Len(b) \in Nat /\ s \in Text
    BY AgreeIs, TextIs, ShortestIs
  <2>2. m # 0
    BY DEF Text
  <2> QED BY <2>1, <2>2
<1>2. CASE n = m
  <2>1. m <= Len(b) /\ Same(a, b, m)
    BY <1>2, AgreeSays
  <2>2. m < Len(b)
    <3>1. ASSUME NEW i, DiffersAt(a, b, i) PROVE FALSE
      <4>1. i \in 1..m /\ a[i] < b[i] /\ a[i] \in Nat
        BY <3>1, TextIs DEF DiffersAt
      <4>2. a[i] = b[i]
        BY <2>1, <4>1 DEF Same
      <4> QED BY <4>1, <4>2
    <3> QED BY <3>1, LessIs DEF Shorter
  <2>3. Len(s) = m + 1 /\ s[m + 1] = Space /\ \A i \in 1..m : s[i] = a[i]
    <3>1. s = Append(a, Space)
      BY <1>2 DEF ShortestKey
    <3>2. Space \in 0..Byte - 1
      BY SizeAssumption
    <3> QED BY <3>1, <3>2, AppendIs DEF Text
  <2>4. Less(a, s)
    <3>1. Shorter(a, s)
      BY <1>1, <2>3 DEF Shorter, Same
    <3> QED BY <1>1, <3>1, LessIs
  <2>5. NotAbove(s, b)
    <3>1. PICK l \in Nat \ {0} : l = m + 1
      BY <1>1
    <3>2. l <= Len(b) /\ l \in 1..Len(b) /\ l - 1 = m
      BY <1>1, <2>2, <3>1
    <3>3. Same(s, b, l - 1)
      BY <2>1, <2>3, <3>2 DEF Same
    <3>4. s[l] <= b[l]
      BY <2>3, <3>1, <3>2
    <3> QED BY <1>1, <2>3, <3>1, <3>2, <3>3, <3>4, BeginningNotAbove
  <2> QED BY <2>4, <2>5
<1>3. CASE n # m
  <2>1. PICK l \in Nat \ {0} : l = n + 1 /\ l \in 1..m /\ l - 1 = n
    BY <1>1, <1>3
  <2> PICK x : x = SubSeq(a, 1, l)
    OBVIOUS
  <2>2. x \in Text /\ Len(x) = l /\ x # <<>> /\ \A i \in 1..l : x[i] = a[i]
    <3>1. l \in 0..m /\ l # 0
      BY <1>1, <2>1
    <3>2. x \in Text /\ Len(x) = l /\ \A i \in 1..l : x[i] = a[i]
      BY <3>1, BeginOf DEF Text
    <3> QED BY <3>1, <3>2
  <2>3. s = Bumped(x)
    BY <1>3, <2>1 DEF ShortestKey
  <2>4. Bumpable(x)
    <3>1. \A i \in 1..l : i \in 1..m
      BY <1>1, <2>1
    <3> QED BY <2>2, <3>1 DEF Bumpable
  <2>5. /\ Len(s) = l /\ \A i \in 1..l - 1 : s[i] = x[i]
        /\ s[l] = x[l] + 1
    BY <2>2, <2>3, <2>4, BumpedIs, BumpedAbove
  <2>6. /\ \A i \in 1..n : s[i] = a[i]
        /\ s[l] = a[l] + 1 /\ a[l] \in Nat
    <3>1. \A i \in 1..n : i \in 1..l - 1 /\ i \in 1..l
      BY <1>1, <2>1
    <3>2. l \in 1..l
      OBVIOUS
    <3>3. a[l] \in Nat
      BY <2>1, TextIs
    <3> QED BY <2>2, <2>5, <3>1, <3>2, <3>3
  <2>7. Less(a, s)
    <3>1. DiffersAt(a, s, l)
      BY <2>1, <2>5, <2>6 DEF DiffersAt, Same
    <3> QED BY <1>1, <3>1, LessIs
  <2>8. PICK i : DiffersAt(a, b, i)
    <3>1. ~Shorter(a, b)
      <4>1. Shorter(a, b) => m <= n
        BY <1>1, AgreeSays DEF Shorter
      <4> QED BY <1>1, <1>3, <4>1
    <3> QED BY <3>1, LessIs
  <2>9. i \in 1..m /\ i <= Len(b) /\ Same(a, b, i - 1) /\ a[i] < b[i] /\ i - 1 <= n
    <3>1. i \in 1..m /\ i <= Len(b) /\ Same(a, b, i - 1) /\ a[i] < b[i]
      BY <2>8 DEF DiffersAt
    <3>2. i - 1 \in 0..m /\ i - 1 <= Len(b)
      BY <1>1, <3>1
    <3>3. i - 1 <= n
      BY <3>1, <3>2, AgreeSays
    <3> QED BY <3>1, <3>3
  <2>10. CASE i <= n
    <3>1. i \in 1..n /\ i \in 1..l /\ \A j \in 1..i - 1 : j \in 1..n
      BY <1>1, <2>1, <2>9, <2>10
    <3>2. DiffersAt(s, b, i)
      BY <2>5, <2>6, <2>9, <3>1 DEF DiffersAt, Same
    <3> QED BY <1>1, <2>7, <3>2, LessIs DEF NotAbove
  <2>11. CASE i = l
    <3>1. Same(s, b, l - 1)
      BY <2>1, <2>6, <2>9, <2>11 DEF Same
    <3>2. s[l] <= b[l]
      <4>1. b[l] \in Nat
        <5>1. l \in 1..Len(b)
          BY <1>1, <2>9, <2>11
        <5> QED BY <5>1, TextIs
      <4> QED BY <2>6, <2>9, <2>11, <4>1
    <3> QED BY <1>1, <2>5, <2>7, <2>9, <2>11, <3>1, <3>2, BeginningNotAbove
  <2> QED BY <1>1, <2>1, <2>9, <2>10, <2>11
<1> QED BY <1>2, <1>3

-----------------------------------------------------------------------------
(* The index separates the blocks, when the keys' letters are from the blank *)
(* to the last byte but one.                                                *)

Printable == Keys \subseteq Seq(Space..Byte - 2)

Sorted(es) == \A i, j \in 1..Len(es) : i < j => Less(es[i].key, es[j].key)

\* An entry of the index is above the keys of its block but the last, and not
\* above those of the blocks behind.
Leads(ix, read) ==
  /\ Len(ix) = Len(read)
  /\ \A i \in 1..Len(read) : \A n \in 1..Len(read[i]) - 1 : Less(read[i][n].key, ix[i].key)
  /\ \A j \in 1..Len(read) : \A i \in 1..j - 1 : \A n \in 1..Len(read[j]) :
       ~Less(read[j][n].key, ix[i].key)

\* Until the table is finished, none is above the last key on file.
Led == /\ Sorted(added) /\ Leads(index, Read)
       /\ status # "done" => \A i \in 1..Len(index) :
            Split \in 1..Len(added) /\ NotAbove(index[i].key, added[Split].key)

LEMMA AddedKey == \A e \in Added : e.key \in Keys /\ e.key \in Text /\ e.key # <<>>
BY KeysAreTexts DEF Added

LEMMA PrintableIs ==
  ASSUME Printable, NEW k \in Keys
  PROVE  Bumpable(k) /\ \A i \in 1..Len(k) : Space <= k[i]
<1>1. k \in Seq(Space..Byte - 2)
  BY DEF Printable
<1>2. ASSUME NEW i \in 1..Len(k) PROVE k[i] \in Space..Byte - 2
  BY <1>1, ElementOfSeq
<1>3. \A x \in Space..Byte - 2 : x + 1 < Byte /\ Space <= x
  BY SizeAssumption
<1> QED BY <1>2, <1>3 DEF Bumpable

LEMMA SortedMore ==
  ASSUME NEW es \in Seq(Added), Sorted(es), NEW e \in Added,
         es # <<>> => Less(es[Len(es)].key, e.key)
  PROVE  Sorted(Append(es, e))
<1> PICK fs, m : fs = Append(es, e) /\ m = Len(es)
  OBVIOUS
<1>1. /\ m \in Nat /\ Len(fs) = m + 1 /\ fs[m + 1] = e /\ \A i \in 1..m : fs[i] = es[i]
  BY AppendIs
<1>2. ASSUME NEW i \in 1..m PROVE Less(es[i].key, e.key)
  <2>1. m \in 1..m /\ es # <<>>
    BY <1>1
  <2>2. es[i].key \in Text /\ es[m].key \in Text /\ e.key \in Text
    BY <2>1, ElementOfSeq, AddedKey
  <2>3. NotAbove(es[i].key, es[m].key)
    <3>1. i = m \/ i < m
      BY <1>1
    <3> QED BY <2>1, <3>1 DEF Sorted, NotAbove
  <2> QED BY <2>1, <2>2, <2>3, NotAboveLess
<1>3. ASSUME NEW i \in 1..Len(fs), NEW j \in 1..Len(fs), i < j PROVE Less(fs[i].key, fs[j].key)
  <2>1. i \in 1..m /\ (j \in 1..m \/ j = m + 1)
    BY <1>1, <1>3
  <2>2. CASE j \in 1..m
    BY <1>1, <1>3, <2>1, <2>2 DEF Sorted
  <2>3. CASE j = m + 1
    BY <1>1, <1>2, <2>1, <2>3
  <2> QED BY <2>1, <2>2, <2>3
<1> QED BY <1>3 DEF Sorted

LEMMA LeadsMore ==
  ASSUME NEW ix \in Seq(IndexEntry), NEW read \in Seq(Seq(Added)), Leads(ix, read),
         NEW y \in IndexEntry, NEW x \in Seq(Added),
         \A n \in 1..Len(x) - 1 : Less(x[n].key, y.key),
         \A i \in 1..Len(ix) : \A n \in 1..Len(x) : ~Less(x[n].key, ix[i].key)
  PROVE  Leads(Append(ix, y), Append(read, x))
<1> PICK jx, qs, m : jx = Append(ix, y) /\ qs = Append(read, x) /\ m = Len(ix)
  OBVIOUS
<1>1. m \in Nat /\ Len(jx) = m + 1 /\ jx[m + 1] = y /\ \A i \in 1..m : jx[i] = ix[i]
  BY AppendIs
<1>2. Len(read) = m
  BY DEF Leads
<1>3. Len(qs) = m + 1 /\ qs[m + 1] = x /\ \A i \in 1..m : qs[i] = read[i]
  BY <1>2, AppendIs
<1>4. \A i \in 1..m + 1 : i \in 1..m \/ i = m + 1
  BY <1>1
<1>5. ASSUME NEW i \in 1..m + 1, NEW n \in 1..Len(qs[i]) - 1 PROVE Less(qs[i][n].key, jx[i].key)
  <2>1. CASE i \in 1..m
    BY <1>1, <1>2, <1>3, <1>5, <2>1 DEF Leads
  <2>2. CASE i = m + 1
    BY <1>1, <1>3, <1>5, <2>2
  <2> QED BY <1>4, <2>1, <2>2
<1>6. ASSUME NEW j \in 1..m + 1, NEW i \in 1..j - 1, NEW n \in 1..Len(qs[j])
      PROVE  ~Less(qs[j][n].key, jx[i].key)
  <2>1. i \in 1..m
    BY <1>1
  <2>2. CASE j \in 1..m
    BY <1>1, <1>2, <1>3, <1>6, <2>1, <2>2 DEF Leads
  <2>3. CASE j = m + 1
    BY <1>1, <1>3, <1>6, <2>1, <2>3
  <2> QED BY <1>4, <2>2, <2>3
<1> QED BY <1>1, <1>3, <1>5, <1>6 DEF Leads

\* A block more, whose entry in the index is above its keys but the last.
LEMMA BlockLed ==
  ASSUME Inv, Led, status = "open", NEW more \in Seq(Added), Sorted(more),
         Len(added) <= Len(more), \A i \in 1..Len(added) : more[i] = added[i],
         NEW y \in IndexEntry, \A i \in 1..Len(more) - 1 : Less(more[i].key, y.key)
  PROVE  Leads(Append(index, y), Append(Read, SubSeq(more, Split + 1, Len(more))))
<1> PICK x, l, c : x = SubSeq(more, Split + 1, Len(more)) /\ l = Len(more) /\ c = Split
  OBVIOUS
<1>1. l \in Nat /\ Len(added) \in Nat /\ c \in 0..Len(added) /\ c \in 0..l
  <2>1. l \in Nat /\ Len(added) \in Nat /\ c \in 0..Len(added)
    BY AddedAre, LenProperties DEF Inv
  <2> QED BY <2>1
<1>2. x \in Seq(Added) /\ Len(x) = l - c /\ \A n \in 1..l - c : x[n] = more[c + n]
  BY <1>1
<1>3. index \in Seq(IndexEntry) /\ Read \in Seq(Seq(Added)) /\ Leads(index, Read)
  BY DEF Inv, Typed, OnFile, Led
<1>4. \A i \in 1..l : more[i].key \in Text
  BY ElementOfSeq, AddedKey
<1>5. ASSUME NEW n \in 1..Len(x) - 1 PROVE Less(x[n].key, y.key)
  <2>1. c + n \in 1..l - 1 /\ n \in 1..l - c
    BY <1>1, <1>2
  <2> QED BY <1>2, <2>1
<1>6. ASSUME NEW i \in 1..Len(index), NEW n \in 1..Len(x) PROVE ~Less(x[n].key, index[i].key)
  <2>1. c \in 1..Len(added) /\ NotAbove(index[i].key, added[c].key)
    BY DEF Led
  <2>2. c \in 1..l /\ c + n \in 1..l /\ c < c + n /\ n \in 1..l - c
    BY <1>1, <1>2, <2>1
  <2>3. more[c] = added[c] /\ x[n] = more[c + n]
    BY <1>2, <2>1, <2>2
  <2>4. Less(added[c].key, x[n].key)
    BY <2>2, <2>3 DEF Sorted
  <2>5. index[i].key \in Text
    <3>1. index[i] \in IndexEntry
      BY <1>3, ElementOfSeq
    <3> QED BY <3>1 DEF IndexEntry
  <2> QED BY <1>4, <2>1, <2>2, <2>3, <2>4, <2>5, NotAboveLess
<1> QED BY <1>2, <1>3, <1>5, <1>6, LeadsMore

LEMMA KeepsLed ==
  ASSUME Inv, Led, NEW k \in Keys, k # <<>>, NEW v \in ValLens, status = "open", Keeps(k, v),
         added # <<>> => Less(added[Len(added)].key, k)
  PROVE  Led'
<1> PICK e, fs : e = [key |-> k, val |-> v] /\ fs = added'
  OBVIOUS
<1>1. /\ e \in Added /\ e.key = k /\ added \in Seq(Added) /\ fs = Append(added, e)
      /\ recs \in Seq(Rec) /\ Record(k, v) \in Rec /\ recs' = Append(recs, Record(k, v))
      /\ index' = index /\ blocks' = blocks /\ status' = "open"
  BY RecordFits DEF Keeps, Inv, Typed
<1>2. /\ Len(fs) = Len(added) + 1 /\ Len(added) \in Nat /\ \A i \in 1..Len(added) : fs[i] = added[i]
      /\ Len(recs') = Len(recs) + 1 /\ Len(recs) \in Nat
  BY <1>1, AppendIs
<1>3. Sorted(fs)
  BY <1>1, SortedMore DEF Led
<1>4. Split' = Split /\ Read' = Read
  BY <1>1, <1>2 DEF Split, Read
<1>5. ASSUME NEW i \in 1..Len(index)
      PROVE  Split \in 1..Len(fs) /\ NotAbove(index[i].key, fs[Split].key)
  <2>1. Split \in 1..Len(added) /\ NotAbove(index[i].key, added[Split].key)
    BY DEF Led
  <2>2. Split \in 1..Len(fs)
    BY <1>2, <2>1
  <2> QED BY <1>2, <2>1, <2>2
<1> QED BY <1>1, <1>3, <1>4, <1>5 DEF Led

LEMMA WithLastIs ==
  ASSUME Inv, NEW k \in Keys, k # <<>>, NEW v \in ValLens, NEW e, e = [key |-> k, val |-> v]
  PROVE  WithLast(k, v) \in Blk /\ ReadBlock(WithLast(k, v)) = Append(Pending, e)
<1> PICK rs, gs, es, num : rs = Append(recs, Record(k, v)) /\ gs = GroupsWith(k, v)
                           /\ es = Append(Pending, e) /\ num = recNum + 1
  OBVIOUS
<1>1. \E at : Restarts(rs, gs, es, at)
  BY RecordFits DEF Inv
<1>2. Codes(rs, es)
  BY RecordFits DEF Inv
<1>3. WithLast(k, v) = Block(rs, gs, num)
  BY Zenon DEF WithLast
<1>4. num \in Int
  BY DEF Inv, Typed
<1>5. PICK at : Restarts(rs, gs, es, at)
  BY <1>1
<1>6. Block(rs, gs, num) \in Blk /\ ReadBlock(Block(rs, gs, num)) = es
  <2>1. Restarts(rs, gs, es, at) /\ Codes(rs, es) /\ num \in Int
    BY <1>2, <1>4, <1>5
  <2>2. Block(rs, gs, num) \in Blk
    BY ONLY <2>1, BlockIs
  <2>3. ReadBlock(Block(rs, gs, num)) = es
    BY ONLY <2>1, BlockIs
  <2> QED BY <2>2, <2>3
<1> QED BY <1>3, <1>6

LEMMA AppendsLed ==
  ASSUME Printable, Inv, Inv', Led, NEW k \in Keys, k # <<>>, NEW v \in ValLens, status = "open",
         AppendsBlock(WithLast(k, v), k, v), added # <<>> => Less(added[Len(added)].key, k)
  PROVE  Led'
<1> PICK e, fs, b, y, l : /\ e = [key |-> k, val |-> v] /\ fs = added' /\ b = WithLast(k, v)
                          /\ y = [key |-> ShortestKey(preKey, k), size |-> b.size, offset |-> offset']
                          /\ l = Len(added)
  OBVIOUS
<1>1. /\ e \in Added /\ e.key = k /\ added \in Seq(Added) /\ fs = Append(added, e)
      /\ index' = Append(index, y) /\ blocks' = Append(blocks, b) /\ recs' = <<>> /\ status' = "open"
      /\ preKey # <<>>
  BY RecordFits DEF AppendsBlock, Clear, Inv, Typed
<1>2. /\ fs \in Seq(Added) /\ Len(fs) = l + 1 /\ l \in Nat /\ fs[l + 1] = e
      /\ \A i \in 1..l : fs[i] = added[i]
  BY <1>1, AppendIs
<1>3. Sorted(fs)
  BY <1>1, SortedMore DEF Led
<1>4. added # <<>> /\ preKey = added[l].key /\ l \in 1..l /\ preKey \in Keys /\ preKey \in Text
  <2>1. added # <<>> /\ preKey = added[l].key
    BY <1>1 DEF Inv, Typed
  <2>2. l \in 1..l
    BY <1>1, <2>1
  <2> QED BY <1>1, <2>1, <2>2, ElementOfSeq, AddedKey
<1>5. Less(preKey, k) /\ k \in Text
  BY <1>4, KeysAreTexts
<1>6. Less(preKey, y.key) /\ NotAbove(y.key, k) /\ y.key \in Text
  <2>1. Bumpable(preKey) /\ \A i \in 1..Len(k) : Space <= k[i]
    BY <1>4, PrintableIs
  <2>2. y.key = ShortestKey(preKey, k)
    OBVIOUS
  <2> QED BY <1>1, <1>4, <1>5, <2>1, <2>2, SeparatorIs, ShortestIs
<1>7. y \in IndexEntry
  <2>1. index \in Seq(IndexEntry) /\ Append(index, y) \in Seq(IndexEntry)
    BY <1>1 DEF Inv, Typed
  <2> PICK m, jx : m = Len(index) /\ jx = Append(index, y)
    OBVIOUS
  <2>2. m \in Nat /\ Len(jx) = m + 1 /\ jx[m + 1] = y
    BY <2>1
  <2>3. m + 1 \in 1..Len(jx)
    BY <2>2
  <2> QED BY <2>1, <2>2, <2>3, ElementOfSeq
<1>8. ASSUME NEW i \in 1..Len(fs) - 1 PROVE Less(fs[i].key, y.key)
  <2>1. i \in 1..l
    BY <1>2
  <2>2. fs[i] = added[i] /\ added[i].key \in Text
    BY <1>1, <1>2, <2>1, ElementOfSeq, AddedKey
  <2>3. NotAbove(added[i].key, preKey)
    <3>1. i = l \/ i < l
      BY <1>2, <2>1
    <3> QED BY <1>4, <2>1, <3>1 DEF Led, Sorted, NotAbove
  <2> QED BY <1>4, <1>6, <2>2, <2>3, NotAboveLess
<1>9. Leads(index', Read')
  <2>1. Leads(Append(index, y), Append(Read, SubSeq(fs, Split + 1, Len(fs))))
    <3>1. Len(added) <= Len(fs)
      BY <1>2
    <3> QED BY <1>2, <1>3, <1>7, <1>8, <3>1, BlockLed
  <2>2. Read' = Append(Read, SubSeq(fs, Split + 1, Len(fs)))
    <3>1. Read \in Seq(Seq(Added)) /\ PiecesOf(Read, added, Split) /\ Len(Read) \in Nat
      BY DEF Inv, OnFile
    <3>2. PiecesOf(Read, fs, Split)
      BY <1>1, <3>1, PiecesGrow
    <3>3. Split \in 0..l /\ Split \in 0..Len(fs)
      BY <1>2, AddedAre DEF Inv
    <3>4. b \in Blk /\ ReadBlock(b) = SubSeq(fs, Split + 1, Len(fs))
      <4>1. b \in Blk /\ ReadBlock(b) = Append(Pending, e)
        BY <1>1, WithLastIs
      <4>2. SubSeq(fs, Split + 1, Len(fs)) = Append(Pending, e)
        BY <1>1, <1>2, <3>3, BehindMore DEF Pending
      <4> QED BY <4>1, <4>2
    <3> QED BY <1>1, <1>2, <3>1, <3>2, <3>3, <3>4, NextBlock DEF Inv
  <2> QED BY <1>1, <2>1, <2>2
<1>10. Split' = l + 1
  BY <1>1, <1>2 DEF Split
<1>11. ASSUME NEW i \in 1..Len(index')
       PROVE  l + 1 \in 1..Len(fs) /\ NotAbove(index'[i].key, fs[l + 1].key)
  <2> PICK m, jx : m = Len(index) /\ jx = index'
    OBVIOUS
  <2>1. index \in Seq(IndexEntry)
    BY DEF Inv, Typed
  <2>2. Len(jx) = m + 1 /\ jx[m + 1] = y /\ m \in Nat /\ \A j \in 1..m : jx[j] = index[j]
    BY <1>1, <1>7, <2>1, AppendIs
  <2>3. CASE i = m + 1
    BY <1>1, <1>2, <1>6, <2>2, <2>3
  <2>4. CASE i # m + 1
    <3>1. i \in 1..m
      BY <2>2, <2>4
    <3>2. Split \in 1..l /\ NotAbove(index[i].key, added[Split].key)
      BY <3>1 DEF Led
    <3>3. Split \in 1..Len(fs) /\ l + 1 \in 1..Len(fs) /\ Split < l + 1
      BY <1>2, <3>2
    <3>4. Less(added[Split].key, k)
      BY <1>1, <1>2, <1>3, <3>2, <3>3 DEF Sorted
    <3>5. index[i].key \in Text
      <4>1. index[i] \in IndexEntry
        BY <2>1, <3>1, ElementOfSeq
      <4> QED BY <4>1 DEF IndexEntry
    <3>6. added[Split].key \in Text
      BY <1>1, <3>2, ElementOfSeq, AddedKey
    <3>7. Less(index[i].key, k)
      BY <1>5, <3>2, <3>4, <3>5, <3>6, NotAboveLess
    <3> QED BY <1>1, <1>2, <2>2, <3>1, <3>3, <3>7 DEF NotAbove
  <2> QED BY <2>3, <2>4
<1> QED BY <1>3, <1>9, <1>10, <1>11 DEF Led

LEMMA ClosesLed ==
  ASSUME Printable, Inv, Inv', Led, status = "open",
         ClosesNone \/ ClosesBlock(Block(recs, groups, recNum))
  PROVE  Led'
<1>1. added' = added /\ status' = "done"
  BY DEF ClosesNone, ClosesBlock, Closes
<1>2. Sorted(added)
  BY DEF Led
<1>3. CASE ClosesNone
  <2>1. index' = index /\ Read' = Read
    BY <1>3 DEF ClosesNone, Closes, Read
  <2> QED BY <1>1, <2>1 DEF Led
<1>4. CASE ClosesBlock(Block(recs, groups, recNum))
  <2> PICK b, y, l : /\ b = Block(recs, groups, recNum) /\ l = Len(added)
                     /\ y = [key |-> Bumped(preKey), size |-> b.size, offset |-> offset]
    OBVIOUS
  <2>1. index' = Append(index, y) /\ blocks' = Append(blocks, b) /\ recs # <<>>
    BY <1>4 DEF ClosesBlock, Closes
  <2>2. /\ added \in Seq(Added) /\ l \in 1..l /\ l \in Nat
        /\ preKey = added[l].key /\ preKey \in Keys /\ preKey \in Text /\ preKey # <<>>
    <3>1. added \in Seq(Added) /\ added # <<>> /\ preKey = added[l].key
      BY <2>1, AddedAre DEF Inv, Typed
    <3>2. l \in 1..l /\ l \in Nat
      BY <3>1
    <3> QED BY <3>1, <3>2, ElementOfSeq, AddedKey
  <2>3. b \in Blk /\ ReadBlock(b) = SubSeq(added, Split + 1, l)
    <3>1. PICK at : Restarts(recs, groups, Pending, at)
      BY DEF Inv, Coded
    <3>2. Codes(recs, Pending) /\ recNum \in Int
      BY DEF Inv, Coded, Typed
    <3>3. Block(recs, groups, recNum) \in Blk /\ ReadBlock(Block(recs, groups, recNum)) = Pending
      BY ONLY <3>1, <3>2, BlockIs
    <3>4. Pending = SubSeq(added, Split + 1, l)
      BY Zenon DEF Pending
    <3> QED BY <3>3, <3>4
  <2>4. y \in IndexEntry
    <3>1. b.size \in Nat /\ offset \in Nat
      BY <2>3 DEF Blk, Inv, Typed
    <3> QED BY <2>2, <3>1, BumpedIs DEF IndexEntry
  <2>5. Less(preKey, y.key) /\ y.key \in Text
    <3>1. Bumpable(preKey)
      BY <2>2, PrintableIs
    <3>2. y.key = Bumped(preKey)
      OBVIOUS
    <3> QED BY <2>2, <3>1, <3>2, BumpedAbove, BumpedIs
  <2>6. ASSUME NEW i \in 1..l - 1 PROVE Less(added[i].key, y.key)
    <3>1. i \in 1..l /\ i < l
      BY <2>2
    <3>2. Less(added[i].key, preKey) /\ added[i].key \in Text
      BY <1>2, <2>2, <3>1, ElementOfSeq, AddedKey DEF Sorted
    <3> QED BY <2>2, <2>5, <3>2, LessTrans
  <2>7. Leads(Append(index, y), Append(Read, SubSeq(added, Split + 1, l)))
    <3>1. Len(added) <= Len(added)
      BY <2>2
    <3> QED BY <1>2, <2>2, <2>4, <2>6, <3>1, BlockLed
  <2>8. Read' = Append(Read, SubSeq(added, Split + 1, l))
    <3>1. Read \in Seq(Seq(Added)) /\ PiecesOf(Read, added, Split) /\ Split \in 0..l
      BY AddedAre DEF Inv, OnFile
    <3> QED BY <2>1, <2>2, <2>3, <3>1, NextBlock DEF Inv
  <2> QED BY <1>1, <1>2, <2>1, <2>7, <2>8 DEF Led
<1> QED BY <1>3, <1>4

LEMMA DieLed ==
  ASSUME Led, status = "open", Die
  PROVE  Led'
<1>1. /\ UNCHANGED <<recs, groups, blkPre, recNum, preKey, offset, blocks, index, filter, keysNum, added>>
      /\ status' = "aborted"
  BY DEF Die, blockVars
<1>2. Read' = Read /\ Split' = Split
  BY <1>1 DEF Read, Split
<1> QED BY <1>1, <1>2 DEF Led

LEMMA NextLed ==
  ASSUME Printable
  PROVE  Inv /\ Inv' /\ Led /\ [Next]_vars => Led'
<1> SUFFICES ASSUME Inv, Inv', Led, [Next]_vars PROVE Led'
  OBVIOUS
<1>2. ASSUME NEW k \in Keys, NEW v \in ValLens, Add(k, v) PROVE Led'
  BY <1>2, AddIs, DieLed, KeepsLed, AppendsLed
<1>3. CASE Finish
  BY <1>3, FinishIs, DieLed, ClosesLed
<1>4. CASE UNCHANGED vars
  BY <1>4 DEF vars, blockVars, Led, Read, Split
<1> QED BY <1>2, <1>3, <1>4 DEF Next

LEMMA InitLed == Init => Led
<1> SUFFICES ASSUME Init PROVE Led
  OBVIOUS
<1>1. added = <<>> /\ index = <<>> /\ Read = <<>>
  BY DEF Init, Read
<1>2. Sorted(<<>>) /\ Leads(<<>>, <<>>)
  BY DEF Sorted, Leads
<1> QED BY <1>1, <1>2 DEF Led

LEMMA FirstAbove ==
  ASSUME NEW ix \in Seq(IndexEntry), NEW i \in 1..Len(ix), NEW k, Less(k, ix[i].key),
         \A j \in 1..i - 1 : ~Less(k, ix[j].key)
  PROVE  FindKeyDBIndex(ix, k) = i
<1> PICK I : I = {j \in 1..Len(ix) : Less(k, ix[j].key)}
  OBVIOUS
<1>1. i \in I /\ \A j \in I : j \in Nat /\ i <= j
  <2>1. Len(ix) \in Nat
    OBVIOUS
  <2>2. ASSUME NEW j \in I PROVE j \in Nat /\ i <= j
    <3>1. j \in Nat /\ j \notin 1..i - 1 /\ 1 <= j
      BY <2>1
    <3> QED BY <2>1, <3>1
  <2> QED BY <2>2
<1>2. \A x \in I : (\A j \in I : x <= j) => x = i
  <2> TAKE x \in I
  <2>1. x \in Nat /\ i \in Nat /\ i <= x
    BY <1>1
  <2>2. (\A j \in I : x <= j) => x <= i
    BY <1>1
  <2> QED BY <2>1, <2>2
<1>3. Min(I) = i
  BY <1>1, <1>2 DEF Min
<1>4. FindKeyDBIndex(ix, k) = IF I # {} THEN Min(I) ELSE 0
  BY DEF FindKeyDBIndex, SelectInSeq
<1> QED BY <1>1, <1>3, <1>4

\* The search in the index (sst_parser.cpp, FindKeyDBIndex) leads every key but the
\* last of its block to its block, for keys of printable text: find_shortest_key
\* (sstable_builder.cpp) puts the separator where it belongs although it counts
\* the places in which two keys agree wherever they are.
THEOREM IndexLeads ==
  ASSUME Printable
  PROVE  Spec => []IndexSeparates
<1>1. Inv /\ Led => IndexSeparates
  <2> SUFFICES ASSUME Inv, Led, NEW i \in DOMAIN blocks,
                      NEW e \in Range(Front(ReadBlock(blocks[i])))
               PROVE  FindKeyDBIndex(index, e.key) = i
    BY DEF IndexSeparates
  <2> PICK es, m : es = Read[i] /\ m = Len(es)
    OBVIOUS
  <2>1. /\ Read \in Seq(Seq(Added)) /\ index \in Seq(IndexEntry) /\ Leads(index, Read)
        /\ i \in 1..Len(Read) /\ es = ReadBlock(blocks[i])
    <3>1. Read \in Seq(Seq(Added)) /\ index \in Seq(IndexEntry) /\ Leads(index, Read)
      BY DEF Inv, Typed, OnFile, Led
    <3>2. DOMAIN blocks = 1..Len(Read)
      <4>1. DOMAIN Read = DOMAIN blocks
        BY DEF Read
      <4> QED BY <3>1, <4>1
    <3> QED BY <3>1, <3>2 DEF Read
  <2>2. es \in Seq(Added) /\ m \in Nat
    <3>1. PICK T : T = Seq(Added)
      OBVIOUS
    <3>2. es \in T
      BY <2>1, <3>1, ElementOfSeq
    <3>3. es \in Seq(Added)
      BY <3>1, <3>2
    <3> QED BY <3>3, LenProperties
  <2>3. PICK n \in 1..m - 1 : e = es[n]
    <3>1. PICK fs : fs = SubSeq(es, 1, m - 1)
      OBVIOUS
    <3>2. m = 0 => fs = <<>>
      BY <2>2, <3>1
    <3>3. m # 0 => Len(fs) = m - 1 /\ (\A j \in 1..m - 1 : fs[j] = es[j]) /\ DOMAIN fs = 1..m - 1
      <4> SUFFICES ASSUME m # 0
                   PROVE  Len(fs) = m - 1 /\ (\A j \in 1..m - 1 : fs[j] = es[j]) /\ DOMAIN fs = 1..m - 1
        OBVIOUS
      <4>1. m - 1 \in 0..Len(es)
        BY <2>2
      <4> QED BY <2>2, <3>1, <4>1, BeginOf
    <3>4. e \in Range(fs)
      BY <2>1, <3>1 DEF Front
    <3> QED BY <3>2, <3>3, <3>4 DEF Range
  <2>4. Less(e.key, index[i].key) /\ i \in 1..Len(index)
    BY <2>1, <2>3 DEF Leads
  <2>5. n \in 1..m
    BY <2>2
  <2>6. \A j \in 1..i - 1 : ~Less(e.key, index[j].key)
    BY <2>1, <2>3, <2>5 DEF Leads
  <2> QED BY <2>1, <2>4, <2>6, FirstAbove
<1>2. Inv /\ Led /\ [Next]_vars => Inv' /\ Led'
  BY NextInv, NextLed
<1> QED BY <1>1, <1>2, InitInv, InitLed, PTL DEF Spec
=============================================================================

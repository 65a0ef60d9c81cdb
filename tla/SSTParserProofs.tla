-------------------------- MODULE SSTParserProofs ---------------------------
(***************************************************************************)
(* The parser: where in the file's bytes the builders put their parts, and *)
(* that Parse and the restart points find them there, for any blocks,      *)
(* filter and keys whose file has int32_t places.                          *)
(***************************************************************************)
EXTENDS SSTParser, SSTableProofs

-----------------------------------------------------------------------------
(* Sums of the first values of a function, and sequences put together. *)

UpTo(f, i) == SumFunctionOnSet(f, 1..i)

LEMMA UpToIs ==
  ASSUME NEW n \in Nat, NEW f, \A i \in 1..n : f[i] \in Nat
  PROVE  /\ UpTo(f, 0) = 0 /\ \A i \in 0..n : UpTo(f, i) \in Nat
         /\ \A i \in 1..n : UpTo(f, i) = UpTo(f, i - 1) + f[i]
<1>1. UpTo(f, 0) = 0
  <2>1. 1..0 = {}
    OBVIOUS
  <2> QED BY <2>1, SumOfNone DEF UpTo
<1>2. \A i \in 0..n : IsFiniteSet(1..i) /\ UpTo(f, i) \in Nat
  <2> SUFFICES ASSUME NEW i \in 0..n PROVE IsFiniteSet(1..i) /\ UpTo(f, i) \in Nat
    OBVIOUS
  <2>1. IsFiniteSet(1..i)
    BY FS_Interval
  <2>2. \A x \in 1..i : f[x] \in Nat
    OBVIOUS
  <2> QED BY <2>1, <2>2, SumNat DEF UpTo
<1>3. ASSUME NEW i \in 1..n PROVE UpTo(f, i) = UpTo(f, i - 1) + f[i]
  <2>1. i - 1 \in 0..n /\ 1..i = 1..i - 1 \cup {i} /\ i \notin 1..i - 1 /\ f[i] \in Nat
    OBVIOUS
  <2>2. IsFiniteSet(1..i - 1) /\ UpTo(f, i - 1) \in Nat
    BY <1>2, <2>1
  <2>3. f[i] \in Int /\ \A z \in 1..i - 1 : f[z] \in Int
    BY <2>1
  <2>4. SumFunctionOnSet(f, 1..i - 1 \cup {i}) = f[i] + SumFunctionOnSet(f, 1..i - 1)
    BY <2>1, <2>2, <2>3, SumOfOneMore
  <2>5. UpTo(f, i) = SumFunctionOnSet(f, 1..i - 1 \cup {i})
    BY <2>1, Zenon DEF UpTo
  <2>6. UpTo(f, i - 1) = SumFunctionOnSet(f, 1..i - 1)
    BY Zenon DEF UpTo
  <2> PICK t : t = UpTo(f, i - 1)
    OBVIOUS
  <2>7. UpTo(f, i) = f[i] + t /\ t \in Nat /\ f[i] \in Nat
    BY <2>1, <2>2, <2>4, <2>5, <2>6
  <2> QED BY <2>7
<1> QED BY <1>1, <1>2, <1>3

\* What counts up by naturals never falls.
LEMMA Ascends ==
  ASSUME NEW n \in Nat, NEW at, \A i \in 0..n : at[i] \in Nat, \A i \in 1..n : at[i - 1] <= at[i],
         NEW i \in 0..n
  PROVE  at[i] <= at[n]
<1> DEFINE T == {d \in Nat : i + d <= n => at[i] <= at[i + d]}
<1>1. 0 \in T
  OBVIOUS
<1>2. ASSUME NEW d \in Nat, d \in T PROVE d + 1 \in T
  <2> SUFFICES ASSUME i + d + 1 <= n PROVE at[i] <= at[i + d + 1]
    OBVIOUS
  <2>1. PICK x : x = i + d
    OBVIOUS
  <2>2. x \in 0..n /\ x + 1 \in 1..n /\ x + 1 - 1 = x /\ x + 1 \in 0..n
    BY <2>1
  <2>3. at[x] <= at[x + 1] /\ at[x] \in Nat /\ at[x + 1] \in Nat /\ at[i] \in Nat
    BY <2>2
  <2>4. at[i] <= at[x]
    BY <1>2, <2>1, <2>2
  <2>5. at[i] <= at[x + 1]
    BY <2>3, <2>4
  <2> QED BY <2>1, <2>5
<1> HIDE DEF T
<1>3. n - i \in T
  BY <1>1, <1>2, Induction
<1>4. n - i \in Nat /\ i + (n - i) = n
  OBVIOUS
<1> QED BY <1>3, <1>4 DEF T

LEMMA JoinIs ==
  ASSUME NEW S, NEW a \in Seq(S), NEW b \in Seq(S)
  PROVE  /\ a \o b \in Seq(S) /\ Len(a \o b) = Len(a) + Len(b) /\ Len(a) \in Nat /\ Len(b) \in Nat
         /\ \A j \in 1..Len(a) : (a \o b)[j] = a[j]
         /\ \A j \in 1..Len(b) : (a \o b)[Len(a) + j] = b[j]
OBVIOUS

LEMMA JoinLen ==
  ASSUME NEW S, NEW a \in Seq(S), NEW b \in Seq(S), NEW m, NEW n, Len(a) = m, Len(b) = n
  PROVE  a \o b \in Seq(S) /\ Len(a \o b) = m + n
BY JoinIs

\* The sequences ss are at their places in w, one behind the other.
Lies(w, ss, at, k) ==
  /\ Len(w) = at[k] /\ \A i \in 0..k : at[i] <= at[k]
  /\ \A i \in 1..k : \A j \in 1..Len(ss[i]) : w[at[i - 1] + j] = ss[i][j]

LEMMA LiesMore ==
  ASSUME NEW S, NEW n \in Nat, NEW ss \in Seq(Seq(S)), n = Len(ss), NEW at, NEW k \in 1..n - 1,
         \A i \in 0..n : at[i] \in Nat, \A i \in 1..n : at[i] = at[i - 1] + Len(ss[i]),
         NEW w \in Seq(S), Lies(w, ss, at, k)
  PROVE  w \o ss[k + 1] \in Seq(S) /\ Lies(w \o ss[k + 1], ss, at, k + 1)
<1> PICK x, y : x = ss[k + 1] /\ y = w \o x
  OBVIOUS
<1>1. x \in Seq(S) /\ k + 1 \in 1..n /\ k + 1 - 1 = k /\ k \in 0..n /\ k + 1 \in 0..n
  <2>1. k + 1 \in 1..n /\ k + 1 - 1 = k /\ k \in 0..n /\ k + 1 \in 0..n
    OBVIOUS
  <2> QED BY <2>1, ElementOfSeq
<1>2. at[k + 1] = at[k] + Len(x) /\ at[k] \in Nat /\ at[k + 1] \in Nat /\ Len(x) \in Nat
  BY <1>1
<1>3. /\ y \in Seq(S) /\ Len(y) = at[k + 1]
      /\ \A j \in 1..at[k] : y[j] = w[j]
      /\ \A j \in 1..Len(x) : y[at[k] + j] = x[j]
  <2>1. Len(w) = at[k]
    BY DEF Lies
  <2>2. /\ w \o x \in Seq(S) /\ Len(w \o x) = Len(w) + Len(x)
        /\ \A j \in 1..Len(w) : (w \o x)[j] = w[j]
        /\ \A j \in 1..Len(x) : (w \o x)[Len(w) + j] = x[j]
    BY <1>1, JoinIs
  <2>3. /\ y \in Seq(S) /\ Len(y) = at[k] + Len(x)
        /\ \A j \in 1..at[k] : y[j] = w[j]
        /\ \A j \in 1..Len(x) : y[at[k] + j] = x[j]
    BY <2>1, <2>2
  <2> QED BY <1>2, <2>3
<1>4. ASSUME NEW i \in 0..k + 1 PROVE at[i] <= at[k + 1]
  <2>1. i = k + 1 \/ i \in 0..k
    BY <1>1
  <2>2. i \in 0..k => at[i] <= at[k] /\ at[i] \in Nat
    BY <1>1 DEF Lies
  <2> QED BY <1>2, <2>1, <2>2
<1>5. ASSUME NEW i \in 1..k + 1, NEW j \in 1..Len(ss[i]) PROVE y[at[i - 1] + j] = ss[i][j]
  <2>1. CASE i = k + 1
    <3>1. i - 1 = k /\ ss[i] = x
      BY <1>1, <2>1
    <3>2. j \in 1..Len(x)
      BY <3>1, Zenon
    <3> QED BY <1>3, <3>1, <3>2, Zenon
  <2>2. CASE i \in 1..k
    <3>1. i \in 1..n /\ i - 1 \in 0..n /\ i \in 0..k /\ i \in 0..n
      BY <1>1, <2>2
    <3>2. ss[i] \in Seq(S)
      BY <3>1, ElementOfSeq
    <3>3. at[i] = at[i - 1] + Len(ss[i]) /\ at[i - 1] \in Nat /\ at[i] \in Nat /\ at[i] <= at[k]
          /\ Len(ss[i]) \in Nat
      <4>1. Len(ss[i]) \in Nat
        BY ONLY <3>2
      <4>2. at[i] = at[i - 1] + Len(ss[i]) /\ at[i - 1] \in Nat /\ at[i] \in Nat
        BY <3>1, Zenon
      <4>3. at[i] <= at[k]
        BY <3>1, Zenon DEF Lies
      <4> QED BY <4>1, <4>2, <4>3
    <3>4. at[i - 1] + j \in 1..at[k]
      <4> PICK a, l, b, c : a = at[i - 1] /\ l = Len(ss[i]) /\ b = at[i] /\ c = at[k]
        OBVIOUS
      <4>1. b = a + l /\ a \in Nat /\ b \in Nat /\ b <= c /\ l \in Nat /\ c \in Nat /\ j \in 1..l
        BY <1>2, <3>3
      <4>2. a + j \in 1..c
        BY ONLY <4>1
      <4> QED BY <4>2
    <3> QED BY <1>3, <2>2, <3>4 DEF Lies
  <2>3. i = k + 1 \/ i \in 1..k
    OBVIOUS
  <2> QED BY <2>1, <2>2, <2>3
<1> QED BY <1>3, <1>4, <1>5 DEF Lies

LEMMA FlattenLies ==
  ASSUME NEW S, NEW n \in Nat, NEW ss \in Seq(Seq(S)), n = Len(ss), NEW at, at[0] = 0,
         \A i \in 0..n : at[i] \in Nat, \A i \in 1..n : at[i] = at[i - 1] + Len(ss[i])
  PROVE  FlattenSeq(ss) \in Seq(S) /\ Lies(FlattenSeq(ss), ss, at, n)
<1>1. CASE n = 0
  <2>1. FlattenSeq(ss) = <<>>
    <3> PICK Q : Q = Seq(S)
      OBVIOUS
    <3>1. ss = <<>> /\ Len(ss) = 0
      <4>1. ss \in Seq(Q)
        OBVIOUS
      <4> QED BY ONLY <1>1, <4>1, n = Len(ss)
    <3> QED BY <3>1 DEF FlattenSeq
  <2> QED BY <1>1, <2>1 DEF Lies
<1>2. CASE n # 0
  <2> DEFINE Good(f, k) == Flattens(f, ss, k) /\ f[k] \in Seq(S) /\ Lies(f[k], ss, at, k)
             T == {k \in Nat : k + 1 <= n => \E f : Good(f, k + 1)}
  <2>1. 0 \in T
    <3> PICK f : f = [i \in 1..1 |-> ss[1]]
      OBVIOUS
    <3>1. 1 \in 1..n /\ 1 - 1 = 0 /\ 0 \in 0..n /\ 1 \in 0..n
      BY <1>2
    <3>2. ss[1] \in Seq(S) /\ f[1] = ss[1]
      BY <3>1, ElementOfSeq
    <3>3. at[1] = Len(ss[1]) /\ at[1] \in Nat
      <4> PICK x : x = ss[1]
        OBVIOUS
      <4>1. at[1] = at[1 - 1] + Len(x) /\ at[1] \in Nat
        BY <3>1
      <4>2. Len(x) \in Nat
        BY <3>2
      <4>3. at[1] = at[0] + Len(x)
        BY <3>1, <4>1
      <4>4. at[1] = Len(x)
        BY <4>2, <4>3
      <4> QED BY <4>1, <4>4
    <3>4. Flattens(f, ss, 1)
      BY DEF Flattens
    <3>5. Lies(f[1], ss, at, 1)
      <4>1. \A i \in 0..1 : at[i] <= at[1]
        <5>1. \A i \in 0..1 : i = 0 \/ i = 1
          OBVIOUS
        <5> QED BY <3>3, <5>1
      <4>2. \A i \in 1..1 : \A j \in 1..Len(ss[i]) : f[1][at[i - 1] + j] = ss[i][j]
        <5>1. \A i \in 1..1 : i = 1
          OBVIOUS
        <5>2. \A j \in 1..Len(ss[1]) : f[1][at[1 - 1] + j] = ss[1][j]
          BY <3>2, <3>1
        <5> QED BY <5>1, <5>2
      <4> QED BY <3>2, <3>3, <4>1, <4>2 DEF Lies
    <3>6. Good(f, 0 + 1)
      BY <3>2, <3>4, <3>5
    <3> QED BY <3>6
  <2>2. ASSUME NEW k \in Nat, k \in T PROVE k + 1 \in T
    <3> SUFFICES ASSUME k + 2 <= n PROVE \E f : Good(f, k + 2)
      <4>1. k + 1 + 1 = k + 2
        OBVIOUS
      <4> QED BY <4>1
    <3>1. PICK m : m = k + 1
      OBVIOUS
    <3>2. m \in 1..n - 1 /\ m + 1 = k + 2 /\ m \in Nat \ {0} /\ m + 1 <= n
      BY <3>1
    <3>3. PICK f : Good(f, m)
      BY <2>2, <3>1, <3>2
    <3> DEFINE g == [i \in 1..m + 1 |-> IF i = m + 1 THEN f[m] \o ss[m + 1] ELSE f[i]]
    <3>4. \A i \in 1..m : g[i] = f[i]
      BY <3>2
    <3>5. g[m + 1] = f[m] \o ss[m + 1]
      <4>1. m + 1 \in 1..m + 1
        BY <3>2
      <4> QED BY <4>1, Zenon
    <3>6. f[m] \o ss[m + 1] \in Seq(S) /\ Lies(f[m] \o ss[m + 1], ss, at, m + 1)
      <4> PICK w : w = f[m]
        OBVIOUS
      <4>1. w \in Seq(S) /\ Lies(w, ss, at, m)
        BY <3>3
      <4>2. w \o ss[m + 1] \in Seq(S) /\ Lies(w \o ss[m + 1], ss, at, m + 1)
        BY <3>2, <4>1, LiesMore
      <4> QED BY <4>2
    <3>7. Flattens(g, ss, m + 1)
      <4>1. \A i \in 1..m : f[i] = IF i = 1 THEN ss[i] ELSE f[i - 1] \o ss[i]
        BY <3>3, Zenon DEF Flattens
      <4>2. ASSUME NEW i \in 1..m + 1 PROVE g[i] = IF i = 1 THEN ss[i] ELSE g[i - 1] \o ss[i]
        <5>1. CASE i = m + 1
          <6>1. i - 1 = m /\ i # 1 /\ m \in 1..m
            BY <3>2, <5>1
          <6> HIDE DEF g
          <6> QED BY <3>4, <3>5, <5>1, <6>1
        <5>2. CASE i \in 1..m
          <6>1. i # 1 => i - 1 \in 1..m
            BY <3>2, <5>2
          <6>2. g[i] = f[i] /\ (i # 1 => g[i - 1] = f[i - 1])
            BY <3>4, <5>2, <6>1
          <6> HIDE DEF g
          <6> QED BY <4>1, <5>2, <6>2
        <5> QED BY <3>2, <5>1, <5>2
      <4>3. g = [i \in 1..m + 1 |-> g[i]]
        OBVIOUS
      <4> HIDE DEF g
      <4>4. g = [i \in 1..m + 1 |-> IF i = 1 THEN ss[i] ELSE g[i - 1] \o ss[i]]
        BY <4>2, <4>3
      <4> QED BY <4>4 DEF Flattens
    <3>8. Good(g, m + 1)
      <4> HIDE DEF g
      <4> QED BY <3>5, <3>6, <3>7
    <3> QED BY <3>2, <3>8
  <2> HIDE DEF T
  <2>3. n - 1 \in T
    <3>1. \A k \in Nat : k \in T
      BY <2>1, <2>2, Induction
    <3>2. n - 1 \in Nat
      BY <1>2
    <3> QED BY <3>1, <3>2
  <2>4. PICK f : Good(f, n)
    <3>1. n - 1 \in Nat /\ n - 1 + 1 = n
      BY <1>2
    <3> QED BY <2>3, <3>1 DEF T
  <2>5. FlattenSeq(ss) = (CHOOSE h : Flattens(h, ss, n))[n]
    BY <1>2 DEF FlattenSeq, Flattens
  <2>6. Flattens(CHOOSE h : Flattens(h, ss, n), ss, n)
    BY <2>4, Zenon
  <2>7. FlattenSeq(ss) = f[n]
    BY <1>2, <2>4, <2>5, <2>6, FlattensOnce
  <2> QED BY <2>4, <2>7
<1> QED BY <1>1, <1>2

-----------------------------------------------------------------------------
(* Numbers and records in bytes. *)

Octets == 0..255
Int32 == {n \in Nat : n <= 2147483647}

LEMMA Fixed32Is ==
  /\ \A n : Len(Fixed32(n)) = 4 /\ DOMAIN Fixed32(n) = 1..4
  /\ \A n \in Int : Fixed32(n) \in Seq(Octets)
<1>1. ASSUME NEW n \in Int PROVE Fixed32(n) \in Seq(Octets)
  <2>1. \A x \in Int : x % 256 \in Octets
    BY DEF Octets
  <2>2. n \div 256 \in Int /\ n \div 65536 \in Int /\ n \div 16777216 \in Int
    BY SMT
  <2> QED BY <2>1, <2>2, SMT DEF Fixed32
<1>2. ASSUME NEW n PROVE Len(Fixed32(n)) = 4 /\ DOMAIN Fixed32(n) = 1..4
  BY SMT DEF Fixed32
<1> QED BY <1>1, <1>2

\* A string holds another from a place on.
Holds(s, p, w) == \A j \in 1..Len(w) : s[p + j] = w[j]

LEMMA HoldsBoth ==
  ASSUME NEW S, NEW a \in Seq(S), NEW b \in Seq(S), NEW s, NEW p \in Int, Holds(s, p, a \o b)
  PROVE  Holds(s, p, a) /\ Holds(s, p + Len(a), b)
<1> PICK m, n, w : m = Len(a) /\ n = Len(b) /\ w = a \o b
  OBVIOUS
<1>1. /\ m \in Nat /\ n \in Nat /\ Len(w) = m + n
      /\ \A j \in 1..m : w[j] = a[j]
      /\ \A j \in 1..n : w[m + j] = b[j]
  BY JoinIs
<1>2. \A j \in 1..m + n : s[p + j] = w[j]
  BY <1>1 DEF Holds
<1>3. ASSUME NEW j \in 1..m PROVE s[p + j] = a[j]
  <2>1. j \in 1..m + n
    BY <1>1
  <2> QED BY <1>1, <1>2, <2>1
<1>4. ASSUME NEW j \in 1..n PROVE s[p + m + j] = b[j]
  <2>1. m + j \in 1..m + n /\ p + (m + j) = p + m + j
    BY <1>1
  <2>2. s[p + (m + j)] = w[m + j]
    BY <1>2, <2>1
  <2> QED BY <1>1, <2>1, <2>2
<1> QED BY <1>3, <1>4 DEF Holds

LEMMA HoldsBothAt ==
  ASSUME NEW S, NEW a \in Seq(S), NEW b \in Seq(S), NEW m, Len(a) = m,
         NEW s, NEW p \in Int, Holds(s, p, a \o b)
  PROVE  Holds(s, p, a) /\ Holds(s, p + m, b)
BY HoldsBoth

LEMMA WordIs ==
  ASSUME NEW s, NEW p \in Int, NEW n \in Int32, Holds(s, p, Fixed32(n))
  PROVE  Word(s, p) = n
<1>1. /\ s[p + 1] = n % 256 /\ s[p + 2] = (n \div 256) % 256
      /\ s[p + 3] = (n \div 65536) % 256 /\ s[p + 4] = (n \div 16777216) % 256
  <2>1. \A j \in 1..4 : s[p + j] = Fixed32(n)[j]
    BY Fixed32Is DEF Holds
  <2>2. /\ Fixed32(n)[1] = n % 256 /\ Fixed32(n)[2] = (n \div 256) % 256
        /\ Fixed32(n)[3] = (n \div 65536) % 256 /\ Fixed32(n)[4] = (n \div 16777216) % 256
    BY SMT DEF Fixed32
  <2> QED BY <2>1, <2>2, SMT
<1>2. /\ (n \div 16777216) % 256 < 128
      /\ n = (n % 256) + 256 * ((n \div 256) % 256) + 65536 * ((n \div 65536) % 256)
               + 16777216 * ((n \div 16777216) % 256)
  <2>1. n \in Nat /\ n <= 2147483647
    BY SMT DEF Int32
  <2> QED BY ONLY <2>1, SMT
<1> QED BY <1>1, <1>2, SMT DEF Word

LEMMA OffsetBytesAre ==
  /\ \A o : Len(OffsetBytes(o)) = 8
  /\ \A o : o.size \in Int /\ o.offset \in Int => OffsetBytes(o) \in Seq(Octets)
<1>1. ASSUME NEW o PROVE Len(OffsetBytes(o)) = 8
  BY Fixed32Is, SMT DEF OffsetBytes, Fixed32
<1>2. ASSUME NEW o, o.size \in Int, o.offset \in Int PROVE OffsetBytes(o) \in Seq(Octets)
  BY <1>2, Fixed32Is, JoinIs DEF OffsetBytes
<1> QED BY <1>1, <1>2

LEMMA OffsetIs ==
  ASSUME NEW s, NEW p \in Int, NEW o, o.size \in Int32, o.offset \in Int32, Holds(s, p, OffsetBytes(o))
  PROVE  OffsetAt(s, p) = [size |-> o.size, offset |-> o.offset]
<1>1. o.size \in Int /\ o.offset \in Int
  BY SMT DEF Int32
<1>2. Fixed32(o.size) \in Seq(Octets) /\ Fixed32(o.offset) \in Seq(Octets) /\ Len(Fixed32(o.size)) = 4
  BY <1>1, Fixed32Is
<1>3. Holds(s, p, Fixed32(o.size)) /\ Holds(s, p + 4, Fixed32(o.offset))
  BY <1>2, HoldsBoth DEF OffsetBytes
<1>4. Word(s, p) = o.size /\ Word(s, p + 4) = o.offset
  BY <1>3, WordIs
<1> QED BY <1>4 DEF OffsetAt

LEMMA StringIs ==
  ASSUME NEW S, NEW s \in Seq(S), NEW w \in Seq(S), NEW p \in Nat, p + Len(w) <= Len(s), Holds(s, p, w)
  PROVE  StringAt(s, p, Len(w)) = w
<1> PICK n, x : n = Len(w) /\ x = SubSeq(s, p + 1, p + n)
  OBVIOUS
<1>1. n \in Nat /\ Len(s) \in Nat
  OBVIOUS
<1>2. Len(x) = n /\ DOMAIN x = 1..n /\ x = [i \in 1..n |-> x[i]] /\ \A j \in 1..n : x[j] = s[p + j]
  <2>1. s \in Seq(S) /\ n \in Nat /\ p \in Nat /\ p + n <= Len(s) /\ x = SubSeq(s, p + 1, p + n)
    BY <1>1
  <2>2. x \in Seq(S) /\ Len(x) = n /\ \A j \in 1..n : x[j] = s[p + j]
    BY ONLY <2>1
  <2> QED BY ONLY <1>1, <2>2
<1>3. \A j \in 1..n : x[j] = w[j]
  BY <1>2 DEF Holds
<1>4. w = [i \in 1..n |-> w[i]]
  OBVIOUS
<1>5. x = w
  BY <1>2, <1>3, <1>4
<1> QED BY <1>5 DEF StringAt

LEMMA TextsAreOctets == Text = Seq(Octets)
BY ByteAssumption DEF Text, Octets

\* A record begins with its lengths and the rest of its key, and is as long as
\* the builder counts.
LEMMA RecordBytesAre ==
  ASSUME NEW r \in Rec
  PROVE  /\ RecordBytes(r) \in Seq(Octets) /\ Len(RecordBytes(r)) = RecSize(r)
         /\ \A s : \A p \in Int : Holds(s, p, RecordBytes(r)) =>
              /\ Holds(s, p, Fixed32(r.shared)) /\ Holds(s, p + 4, Fixed32(Len(r.rest)))
              /\ Holds(s, p + 12, r.rest)
<1> PICK a, b, c, k, v : /\ a = Fixed32(r.shared) /\ b = Fixed32(Len(r.rest)) /\ c = Fixed32(r.val)
                         /\ k = r.rest /\ v = Content(r.val)
  OBVIOUS
<1>1. r.shared \in Nat /\ k \in Seq(Octets) /\ r.val \in Nat /\ Len(k) \in Nat
  <2>1. r.shared \in Nat /\ r.rest \in Text /\ r.val \in ValLens
    BY DEF Rec
  <2>2. r.shared \in Nat /\ k \in Seq(Octets) /\ r.val \in Nat
    BY <2>1, TextsAreOctets, SizeAssumption
  <2> QED BY ONLY <2>2
<1>2. /\ a \in Seq(Octets) /\ b \in Seq(Octets) /\ c \in Seq(Octets)
      /\ Len(a) = 4 /\ Len(b) = 4 /\ Len(c) = 4
  BY <1>1, Fixed32Is
<1>3. v \in Seq(Octets) /\ Len(v) = r.val
  <2>1. PICK n : n = r.val
    OBVIOUS
  <2>2. n \in Nat /\ v = [i \in 1..n |-> Fill] /\ Fill \in Octets
    BY <1>1, <2>1, ByteAssumption DEF Content, Octets
  <2>3. v \in Seq(Octets) /\ Len(v) = n
    <3> PICK Q : Q = Octets
      OBVIOUS
    <3>1. n \in Nat /\ v = [i \in 1..n |-> Fill] /\ Fill \in Q
      BY <2>2
    <3>2. v \in Seq(Q) /\ Len(v) = n
      BY ONLY <3>1
    <3> QED BY <3>2
  <2> QED BY <2>1, <2>3
<1>4. /\ a \o b \in Seq(Octets) /\ Len(a \o b) = 8
      /\ (a \o b) \o c \in Seq(Octets) /\ Len((a \o b) \o c) = 12
  <2>1. a \o b \in Seq(Octets) /\ Len(a \o b) = Len(a) + Len(b)
    BY ONLY <1>2, JoinIs
  <2>2. PICK d : d = a \o b
    OBVIOUS
  <2>3. d \in Seq(Octets) /\ Len(d) = 8
    BY ONLY <1>2, <2>1, <2>2
  <2>4. d \o c \in Seq(Octets) /\ Len(d \o c) = Len(d) + Len(c)
    BY ONLY <1>2, <2>3, JoinIs
  <2>5. d \o c \in Seq(Octets) /\ Len(d \o c) = 12
    BY ONLY <1>2, <2>3, <2>4
  <2> QED BY <2>2, <2>3, <2>5
<1>5. /\ ((a \o b) \o c) \o k \in Seq(Octets) /\ Len(((a \o b) \o c) \o k) = 12 + Len(k)
  BY ONLY <1>1, <1>4, JoinIs
<1>6. /\ (((a \o b) \o c) \o k) \o v \in Seq(Octets)
      /\ Len((((a \o b) \o c) \o k) \o v) = 12 + Len(k) + r.val
  <2>1. PICK d : d = ((a \o b) \o c) \o k
    OBVIOUS
  <2>2. d \in Seq(Octets) /\ Len(d) = 12 + Len(k)
    BY ONLY <1>5, <2>1
  <2>3. d \o v \in Seq(Octets) /\ Len(d \o v) = Len(d) + Len(v)
    BY ONLY <1>3, <2>2, JoinIs
  <2>4. d \o v \in Seq(Octets) /\ Len(d \o v) = 12 + Len(k) + r.val
    BY ONLY <1>3, <2>2, <2>3
  <2> QED BY ONLY <2>1, <2>4
<1>7. RecordBytes(r) = (((a \o b) \o c) \o k) \o v
  BY DEF RecordBytes
<1>8. ASSUME NEW s, NEW p \in Int, Holds(s, p, RecordBytes(r))
      PROVE  Holds(s, p, a) /\ Holds(s, p + 4, b) /\ Holds(s, p + 12, k)
  <2>1. Holds(s, p, ((a \o b) \o c) \o k)
    <3>1. Holds(s, p, (((a \o b) \o c) \o k) \o v)
      BY <1>7, <1>8, Zenon
    <3> QED BY ONLY <1>3, <1>5, <3>1, p \in Int, HoldsBoth
  <2>2. Holds(s, p, (a \o b) \o c) /\ Holds(s, p + 12, k)
    BY ONLY <1>1, <1>4, <2>1, p \in Int, HoldsBoth
  <2>3. Holds(s, p, a \o b)
    BY ONLY <1>2, <1>4, <2>2, p \in Int, HoldsBoth
  <2>4. Holds(s, p, a) /\ Holds(s, p + 4, b)
    BY ONLY <1>2, <2>3, p \in Int, HoldsBoth
  <2> QED BY <2>2, <2>4
<1>9. RecordBytes(r) \in Seq(Octets) /\ Len(RecordBytes(r)) = RecSize(r)
  BY <1>6, <1>7 DEF RecSize
<1> QED BY <1>8, <1>9

\* Sequences put together lie in a string that holds the whole, each behind those
\* before it.
LEMMA FlattenHolds ==
  ASSUME NEW S, NEW n \in Nat, NEW ss \in Seq(Seq(S)), n = Len(ss), NEW at, at[0] = 0,
         \A i \in 0..n : at[i] \in Nat, \A i \in 1..n : at[i] = at[i - 1] + Len(ss[i])
  PROVE  /\ FlattenSeq(ss) \in Seq(S) /\ Len(FlattenSeq(ss)) = at[n]
         /\ \A s : \A p \in Int : Holds(s, p, FlattenSeq(ss)) =>
              \A i \in 1..n : Holds(s, p + at[i - 1], ss[i])
<1> PICK w : w = FlattenSeq(ss)
  OBVIOUS
<1>1. w \in Seq(S) /\ Lies(w, ss, at, n)
  BY FlattenLies
<1>2. Len(w) = at[n]
  BY <1>1 DEF Lies
<1>3. ASSUME NEW s, NEW p \in Int, Holds(s, p, w), NEW i \in 1..n PROVE Holds(s, p + at[i - 1], ss[i])
  <2> SUFFICES ASSUME NEW j \in 1..Len(ss[i]) PROVE s[p + at[i - 1] + j] = ss[i][j]
    BY DEF Holds
  <2> PICK a, b, c, x, l : a = at[i - 1] /\ b = at[i] /\ c = at[n] /\ x = ss[i] /\ l = Len(x)
    OBVIOUS
  <2>1. i - 1 \in 0..n /\ i \in 0..n /\ n \in 0..n
    OBVIOUS
  <2>2. a \in Nat /\ b \in Nat /\ c \in Nat /\ b = a + l /\ b <= c
    BY <1>1, <2>1 DEF Lies
  <2>3. x \in Seq(S)
    BY ElementOfSeq
  <2>4. l \in Nat /\ j \in 1..l
    BY <2>3
  <2>5. a + j \in 1..c /\ p + (a + j) = p + a + j
    BY ONLY <2>2, <2>4, p \in Int
  <2>6. s[p + (a + j)] = w[a + j]
    BY <1>2, <1>3, <2>5 DEF Holds
  <2>7. w[a + j] = x[j]
    BY <1>1, <2>4 DEF Lies
  <2> QED BY <2>5, <2>6, <2>7
<1> QED BY <1>1, <1>2, <1>3

LEMMA RecordsAre ==
  ASSUME NEW rs \in Seq(Rec), NEW w, w = FlattenSeq([i \in DOMAIN rs |-> RecordBytes(rs[i])])
  PROVE  /\ w \in Seq(Octets) /\ Len(w) = DataSize(rs)
         /\ \A s : \A p \in Int : Holds(s, p, w) =>
              \A i \in 1..Len(rs) : Holds(s, p + SizeUpTo(rs, i - 1), RecordBytes(rs[i]))
<1> PICK n, ss, at : /\ n = Len(rs) /\ ss = [i \in DOMAIN rs |-> RecordBytes(rs[i])]
                     /\ at = [i \in 0..n |-> SizeUpTo(rs, i)]
  OBVIOUS
<1>1. n \in Nat /\ DOMAIN rs = 1..n /\ \A i \in 1..n : rs[i] \in Rec
  BY ElementOfSeq
<1>2. ss \in Seq(Seq(Octets)) /\ Len(ss) = n
  <2>1. \A i \in 1..n : RecordBytes(rs[i]) \in Seq(Octets)
    BY <1>1, RecordBytesAre
  <2> PICK Q : Q = Seq(Octets)
    OBVIOUS
  <2>2. ss = [i \in 1..n |-> RecordBytes(rs[i])]
    BY <1>1
  <2>3. \A i \in 1..n : RecordBytes(rs[i]) \in Q
    BY <2>1
  <2>4. ss \in Seq(Q) /\ Len(ss) = n
    BY ONLY <2>2, <2>3, n \in Nat
  <2> QED BY <2>4
<1>3. \A i \in 1..n : ss[i] = RecordBytes(rs[i])
  BY <1>1
<1>4. \A i \in 0..n : at[i] = SizeUpTo(rs, i)
  OBVIOUS
<1>5. at[0] = 0 /\ at[n] = DataSize(rs) /\ \A i \in 0..n : at[i] \in Nat
  <2>1. 0 \in 0..n /\ n \in 0..n
    BY <1>1
  <2> QED BY <1>4, <2>1, SizesGrow
<1>6. ASSUME NEW i \in 1..n PROVE at[i] = at[i - 1] + Len(ss[i])
  <2>1. i - 1 \in 0..n /\ i - 1 \in 0..Len(rs) - 1 /\ i - 1 + 1 = i /\ i \in 0..n
    BY <1>1
  <2>2. SubSeq(rs, 1, i) = Append(SubSeq(rs, 1, i - 1), rs[i])
    BY <2>1, OneMoreRecord
  <2>3. SubSeq(rs, 1, i - 1) \in Seq(Rec) /\ rs[i] \in Rec
    BY <1>1, <2>1, BeginOf
  <2>4. SizeUpTo(rs, i) = SizeUpTo(rs, i - 1) + RecSize(rs[i])
    BY <2>2, <2>3, SizeOfAppend DEF SizeUpTo
  <2>5. Len(ss[i]) = RecSize(rs[i])
    BY <1>3, <2>3, RecordBytesAre
  <2> QED BY <1>4, <2>1, <2>4, <2>5
<1>7. w = FlattenSeq(ss)
  OBVIOUS
<1>8. /\ w \in Seq(Octets) /\ Len(w) = at[n]
      /\ \A s : \A p \in Int : Holds(s, p, w) => \A i \in 1..n : Holds(s, p + at[i - 1], ss[i])
  <2> PICK O, u : O = Octets /\ u = FlattenSeq(ss)
    OBVIOUS
  <2>1. /\ n \in Nat /\ ss \in Seq(Seq(O)) /\ n = Len(ss) /\ at[0] = 0 /\ \A i \in 0..n : at[i] \in Nat
        /\ \A i \in 1..n : at[i] = at[i - 1] + Len(ss[i])
    BY <1>1, <1>2, <1>5, <1>6, <1>7
  <2>2. /\ u \in Seq(O) /\ Len(u) = at[n]
        /\ \A s : \A p \in Int : Holds(s, p, u) => \A i \in 1..n : Holds(s, p + at[i - 1], ss[i])
    <3>1. /\ FlattenSeq(ss) \in Seq(O) /\ Len(FlattenSeq(ss)) = at[n]
          /\ \A s : \A p \in Int : Holds(s, p, FlattenSeq(ss)) => \A i \in 1..n : Holds(s, p + at[i - 1], ss[i])
      BY ONLY <2>1, FlattenHolds
    <3> QED BY ONLY <3>1, u = FlattenSeq(ss), Zenon
  <2> QED BY <2>2, <1>7
<1>9. \A i \in 1..n : at[i - 1] = SizeUpTo(rs, i - 1)
  BY <1>1, <1>4
<1> QED BY <1>3, <1>5, <1>8, <1>9

RestartBytes(rg) == Fixed32(rg.num) \o OffsetBytes(rg)

LEMMA RestartsAre ==
  ASSUME NEW rgs \in Seq([num : Int, size : Int, offset : Int]),
         NEW w, w = FlattenSeq([i \in DOMAIN rgs |-> RestartBytes(rgs[i])])
  PROVE  /\ w \in Seq(Octets) /\ Len(w) = 12 * Len(rgs)
         /\ \A s : \A p \in Int : Holds(s, p, w) =>
              \A i \in 1..Len(rgs) : /\ Holds(s, p + 12 * (i - 1), Fixed32(rgs[i].num))
                                     /\ Holds(s, p + 12 * (i - 1) + 4, OffsetBytes(rgs[i]))
<1> PICK n, ss, at : /\ n = Len(rgs) /\ ss = [i \in DOMAIN rgs |-> RestartBytes(rgs[i])]
                     /\ at = [i \in 0..n |-> 12 * i]
  OBVIOUS
<1>1. n \in Nat /\ DOMAIN rgs = 1..n /\ \A i \in 1..n : rgs[i] \in [num : Int, size : Int, offset : Int]
  <2> PICK R : R = [num : Int, size : Int, offset : Int]
    OBVIOUS
  <2>1. rgs \in Seq(R)
    OBVIOUS
  <2>2. n \in Nat /\ DOMAIN rgs = 1..n /\ \A i \in 1..n : rgs[i] \in R
    BY ONLY <2>1, n = Len(rgs), ElementOfSeq
  <2> QED BY <2>2
<1>2. ASSUME NEW i \in 1..n
      PROVE  /\ Fixed32(rgs[i].num) \in Seq(Octets) /\ Len(Fixed32(rgs[i].num)) = 4
             /\ OffsetBytes(rgs[i]) \in Seq(Octets) /\ Len(OffsetBytes(rgs[i])) = 8
             /\ RestartBytes(rgs[i]) \in Seq(Octets) /\ Len(RestartBytes(rgs[i])) = 12
  <2>1. rgs[i].num \in Int /\ rgs[i].size \in Int /\ rgs[i].offset \in Int
    BY <1>1
  <2>2. /\ Fixed32(rgs[i].num) \in Seq(Octets) /\ Len(Fixed32(rgs[i].num)) = 4
        /\ OffsetBytes(rgs[i]) \in Seq(Octets) /\ Len(OffsetBytes(rgs[i])) = 8
    BY <2>1, Fixed32Is, OffsetBytesAre
  <2>3. RestartBytes(rgs[i]) \in Seq(Octets) /\ Len(RestartBytes(rgs[i])) = 12
    <3> PICK a, b : a = Fixed32(rgs[i].num) /\ b = OffsetBytes(rgs[i])
      OBVIOUS
    <3>1. a \o b \in Seq(Octets) /\ Len(a \o b) = Len(a) + Len(b) /\ Len(a) = 4 /\ Len(b) = 8
      BY <2>2, JoinIs
    <3>2. a \o b \in Seq(Octets) /\ Len(a \o b) = 12
      BY ONLY <3>1
    <3> QED BY <3>2 DEF RestartBytes
  <2> QED BY <2>2, <2>3
<1>3. ss \in Seq(Seq(Octets)) /\ Len(ss) = n
  <2> PICK Q : Q = Seq(Octets)
    OBVIOUS
  <2>1. ss = [i \in 1..n |-> RestartBytes(rgs[i])]
    BY <1>1
  <2>2. \A i \in 1..n : RestartBytes(rgs[i]) \in Q
    BY <1>2
  <2>3. ss \in Seq(Q) /\ Len(ss) = n
    BY ONLY <2>1, <2>2, n \in Nat
  <2> QED BY <2>3
<1>4. \A i \in 1..n : ss[i] = RestartBytes(rgs[i])
  BY <1>1
<1>5. \A i \in 0..n : at[i] = 12 * i /\ at[i] \in Nat
  OBVIOUS
<1>6. at[0] = 0 /\ at[n] = 12 * n
  BY <1>1, <1>5
<1>7. ASSUME NEW i \in 1..n PROVE at[i] = at[i - 1] + Len(ss[i]) /\ at[i - 1] = 12 * (i - 1)
  <2>1. i - 1 \in 0..n /\ i \in 0..n
    BY <1>1
  <2> PICK x, y : x = at[i - 1] /\ y = at[i]
    OBVIOUS
  <2>2. x = 12 * (i - 1) /\ y = 12 * i /\ Len(ss[i]) = 12
    BY <1>2, <1>4, <1>5, <2>1
  <2>3. y = x + 12
    BY ONLY <2>2, i \in 1..n, n \in Nat, <1>1
  <2> QED BY <2>2, <2>3
<1>8. w = FlattenSeq(ss)
  OBVIOUS
<1>9. /\ w \in Seq(Octets) /\ Len(w) = at[n]
      /\ \A s : \A p \in Int : Holds(s, p, w) => \A i \in 1..n : Holds(s, p + at[i - 1], ss[i])
  <2> PICK O, u : O = Octets /\ u = FlattenSeq(ss)
    OBVIOUS
  <2>1. /\ n \in Nat /\ ss \in Seq(Seq(O)) /\ n = Len(ss) /\ at[0] = 0 /\ \A i \in 0..n : at[i] \in Nat
        /\ \A i \in 1..n : at[i] = at[i - 1] + Len(ss[i])
    BY <1>1, <1>3, <1>5, <1>6, <1>7, <1>8
  <2>2. /\ u \in Seq(O) /\ Len(u) = at[n]
        /\ \A s : \A p \in Int : Holds(s, p, u) => \A i \in 1..n : Holds(s, p + at[i - 1], ss[i])
    <3>1. /\ FlattenSeq(ss) \in Seq(O) /\ Len(FlattenSeq(ss)) = at[n]
          /\ \A s : \A p \in Int : Holds(s, p, FlattenSeq(ss)) => \A i \in 1..n : Holds(s, p + at[i - 1], ss[i])
      BY ONLY <2>1, FlattenHolds
    <3> QED BY ONLY <3>1, u = FlattenSeq(ss), Zenon
  <2> QED BY <2>2, <1>8
<1>10. ASSUME NEW s, NEW p \in Int, Holds(s, p, w), NEW i \in 1..n
       PROVE  /\ Holds(s, p + 12 * (i - 1), Fixed32(rgs[i].num))
              /\ Holds(s, p + 12 * (i - 1) + 4, OffsetBytes(rgs[i]))
  <2> PICK a, b, q : a = Fixed32(rgs[i].num) /\ b = OffsetBytes(rgs[i]) /\ q = p + 12 * (i - 1)
    OBVIOUS
  <2>0. Holds(s, p + at[i - 1], ss[i])
    BY <1>9, <1>10
  <2>1. Holds(s, q, a \o b) /\ q \in Int
    <3>1. ss[i] = a \o b
      BY <1>4 DEF RestartBytes
    <3>2. at[i - 1] = 12 * (i - 1)
      BY <1>7
    <3>3. Holds(s, q, a \o b)
      BY ONLY <2>0, <3>1, <3>2, q = p + 12 * (i - 1), Zenon
    <3>4. q \in Int
      BY ONLY q = p + 12 * (i - 1), p \in Int, i \in 1..n, <1>1
    <3> QED BY <3>3, <3>4
  <2>2. a \in Seq(Octets) /\ b \in Seq(Octets) /\ Len(a) = 4
    BY <1>2
  <2>3. Holds(s, q, a) /\ Holds(s, q + 4, b)
    BY ONLY <2>1, <2>2, HoldsBoth
  <2> QED BY <2>3
<1> QED BY <1>6, <1>9, <1>10

\* A block's bytes: its records, each at the size of those before it, and behind
\* them its restart points, 12 bytes each.
LEMMA BlockBytesAre ==
  ASSUME NEW b \in Blk
  PROVE  /\ BlockBytes(b) \in Seq(Octets)
         /\ Len(BlockBytes(b)) = DataSize(b.recs) + 12 * Len(b.restarts) + 4
         /\ \A s : \A p \in Int : Holds(s, p, BlockBytes(b)) =>
              /\ \A i \in 1..Len(b.recs) :
                   Holds(s, p + SizeUpTo(b.recs, i - 1), RecordBytes(b.recs[i]))
              /\ \A i \in 1..Len(b.restarts) :
                   LET q == p + DataSize(b.recs) + 12 * (i - 1)
                   IN  Holds(s, q, Fixed32(b.restarts[i].num)) /\ Holds(s, q + 4, OffsetBytes(b.restarts[i]))
<1> PICK rs, rgs, x, y, z :
      /\ rs = b.recs /\ rgs = b.restarts
      /\ x = FlattenSeq([i \in DOMAIN rs |-> RecordBytes(rs[i])])
      /\ y = FlattenSeq([i \in DOMAIN rgs |-> RestartBytes(rgs[i])])
      /\ z = Fixed32(b.restartNum)
  OBVIOUS
<1>1. rs \in Seq(Rec) /\ rgs \in Seq([num : Int, size : Int, offset : Int]) /\ b.restartNum \in Int
  BY DEF Blk
<1>2. /\ x \in Seq(Octets) /\ Len(x) = DataSize(rs) /\ y \in Seq(Octets) /\ Len(y) = 12 * Len(rgs)
      /\ z \in Seq(Octets) /\ Len(z) = 4 /\ Len(rgs) \in Nat /\ DataSize(rs) \in Nat
  BY <1>1, RecordsAre, RestartsAre, Fixed32Is, DataSizeNat
<1>3. BlockBytes(b) = (x \o y) \o z
  BY DEF BlockBytes, RestartBytes
<1>4. x \o y \in Seq(Octets) /\ Len(x \o y) = DataSize(rs) + 12 * Len(rgs)
  <2>1. x \o y \in Seq(Octets) /\ Len(x \o y) = Len(x) + Len(y)
    BY ONLY <1>2, JoinIs
  <2> QED BY ONLY <1>2, <2>1
<1>5. (x \o y) \o z \in Seq(Octets) /\ Len((x \o y) \o z) = DataSize(rs) + 12 * Len(rgs) + 4
  <2>1. PICK d : d = x \o y
    OBVIOUS
  <2>2. d \o z \in Seq(Octets) /\ Len(d \o z) = Len(d) + Len(z)
    BY ONLY <1>2, <1>4, <2>1, JoinIs
  <2> QED BY ONLY <1>2, <1>4, <2>1, <2>2
<1>6. ASSUME NEW s, NEW p \in Int, Holds(s, p, (x \o y) \o z)
      PROVE  Holds(s, p, x) /\ Holds(s, p + DataSize(rs), y)
  <2>1. Holds(s, p, x \o y)
    BY ONLY <1>2, <1>4, <1>6, HoldsBoth
  <2> QED BY <1>2, <2>1, HoldsBoth
<1>7. ASSUME NEW s, NEW p \in Int, Holds(s, p, x), Holds(s, p + DataSize(rs), y)
      PROVE  /\ \A i \in 1..Len(rs) : Holds(s, p + SizeUpTo(rs, i - 1), RecordBytes(rs[i]))
             /\ \A i \in 1..Len(rgs) :
                  /\ Holds(s, p + DataSize(rs) + 12 * (i - 1), Fixed32(rgs[i].num))
                  /\ Holds(s, p + DataSize(rs) + 12 * (i - 1) + 4, OffsetBytes(rgs[i]))
  <2>1. \A i \in 1..Len(rs) : Holds(s, p + SizeUpTo(rs, i - 1), RecordBytes(rs[i]))
    BY <1>1, <1>7, RecordsAre
  <2>2. PICK q : q = p + DataSize(rs)
    OBVIOUS
  <2>3. q \in Int /\ Holds(s, q, y)
    BY <1>2, <1>7, <2>2
  <2>4. \A i \in 1..Len(rgs) : /\ Holds(s, q + 12 * (i - 1), Fixed32(rgs[i].num))
                               /\ Holds(s, q + 12 * (i - 1) + 4, OffsetBytes(rgs[i]))
    BY <1>1, <2>3, RestartsAre
  <2> QED BY <2>1, <2>2, <2>4
<1> QED BY <1>3, <1>5, <1>6, <1>7

-----------------------------------------------------------------------------
(* What a table knows of its blocks: how each was made, and where they are. *)

SizesBefore(bs, i) == SumFunction([j \in 1..i - 1 |-> bs[j].size])
EndOf(bs) == SizesBefore(bs, Len(bs) + 1)

LEMMA SizesBeforeAre ==
  ASSUME NEW bs \in Seq(Blk)
  PROVE  /\ SizesBefore(bs, 1) = 0 /\ \A i \in 1..Len(bs) + 1 : SizesBefore(bs, i) \in Nat
         /\ \A i \in 1..Len(bs) : SizesBefore(bs, i + 1) = SizesBefore(bs, i) + bs[i].size
<1> PICK n, f : n = Len(bs) /\ f = [j \in 1..n |-> bs[j].size]
  OBVIOUS
<1>1. n \in Nat /\ \A j \in 1..n : bs[j].size \in Nat
  <2>1. n \in Nat /\ \A j \in 1..n : bs[j] \in Blk
    BY ElementOfSeq
  <2>2. \A b \in Blk : b.size \in Nat
    BY DEF Blk
  <2> QED BY <2>1, <2>2
<1>2. /\ UpTo(f, 0) = 0 /\ \A i \in 0..n : UpTo(f, i) \in Nat
      /\ \A i \in 1..n : UpTo(f, i) = UpTo(f, i - 1) + f[i]
  BY <1>1, UpToIs
<1>3. ASSUME NEW i \in 1..n + 1 PROVE SizesBefore(bs, i) = UpTo(f, i - 1)
  <2> PICK g : g = [j \in 1..i - 1 |-> bs[j].size]
    OBVIOUS
  <2>1. DOMAIN g = 1..i - 1 /\ IsFiniteSet(1..i - 1)
    BY FS_Interval
  <2>2. \A x \in 1..i - 1 : g[x] \in Int /\ f[x] = g[x]
    BY <1>1
  <2>3. SumFunctionOnSet(g, 1..i - 1) = SumFunctionOnSet(f, 1..i - 1)
    <3> PICK T : T = 1..i - 1
      OBVIOUS
    <3>1. IsFiniteSet(T) /\ \A x \in T : g[x] \in Int /\ f[x] = g[x]
      BY <2>1, <2>2
    <3>2. SumFunctionOnSet(g, T) = SumFunctionOnSet(f, T)
      BY ONLY <3>1, SumOfSame
    <3> QED BY <3>2
  <2>4. SizesBefore(bs, i) = SumFunctionOnSet(g, DOMAIN g)
    BY DEF SizesBefore, SumFunction
  <2> QED BY <2>1, <2>3, <2>4 DEF UpTo
<1>4. \A i \in 1..n : i + 1 \in 1..n + 1 /\ i \in 1..n + 1 /\ i + 1 - 1 = i /\ f[i] = bs[i].size
  BY <1>1
<1>5. \A i \in 1..n + 1 : i - 1 \in 0..n
  BY <1>1
<1>6. 1 \in 1..n + 1 /\ 1 - 1 = 0
  BY <1>1
<1>7. \A i \in 1..n : SizesBefore(bs, i + 1) = SizesBefore(bs, i) + bs[i].size
  BY <1>2, <1>3, <1>4
<1>8. SizesBefore(bs, 1) = 0
  BY <1>2, <1>3, <1>6
<1> QED BY <1>2, <1>3, <1>5, <1>7, <1>8

LEMMA EndMore ==
  ASSUME NEW bs \in Seq(Blk), NEW b \in Blk
  PROVE  /\ EndOf(Append(bs, b)) = EndOf(bs) + b.size /\ EndOf(bs) \in Nat /\ b.size \in Nat
<1> PICK n, cs : n = Len(bs) /\ cs = Append(bs, b)
  OBVIOUS
<1>1. /\ n \in Nat /\ cs \in Seq(Blk) /\ Len(cs) = n + 1 /\ cs[n + 1] = b
      /\ \A j \in 1..n : cs[j] = bs[j]
  BY AppendIs
<1>2. n + 1 \in 1..n + 1 /\ n + 1 - 1 = n
  BY <1>1
<1>3. SizesBefore(cs, n + 1 + 1) = SizesBefore(cs, n + 1) + b.size /\ SizesBefore(bs, n + 1) \in Nat
  <2>1. n + 1 \in 1..Len(cs) /\ n + 1 \in 1..Len(bs) + 1
    BY <1>1, <1>2
  <2>2. \A i \in 1..Len(cs) : SizesBefore(cs, i + 1) = SizesBefore(cs, i) + cs[i].size
    BY ONLY <1>1, SizesBeforeAre
  <2>3. \A i \in 1..Len(bs) + 1 : SizesBefore(bs, i) \in Nat
    BY SizesBeforeAre
  <2> QED BY <1>1, <2>1, <2>2, <2>3, Zenon
<1>4. SizesBefore(cs, n + 1) = SizesBefore(bs, n + 1)
  <2>1. [j \in 1..n + 1 - 1 |-> cs[j].size] = [j \in 1..n + 1 - 1 |-> bs[j].size]
    BY <1>1
  <2>2. SizesBefore(cs, n + 1) = SumFunction([j \in 1..n + 1 - 1 |-> cs[j].size])
    BY DEF SizesBefore
  <2>3. SizesBefore(bs, n + 1) = SumFunction([j \in 1..n + 1 - 1 |-> bs[j].size])
    BY DEF SizesBefore
  <2> QED BY ONLY <2>1, <2>2, <2>3, Zenon
<1>5. b.size \in Nat
  BY DEF Blk
<1> QED BY <1>1, <1>3, <1>4, <1>5 DEF EndOf

\* A block that the builder made, from entries with keys.
WellMade(b) ==
  \E rs, gs, es, at : \E num \in Int :
    /\ b = Block(rs, gs, num) /\ Codes(rs, es) /\ Restarts(rs, gs, es, at)
    /\ \A i \in 1..Len(es) : es[i].key # <<>>

\* Every block is one the builder made, and as long as the table's offset says;
\* no index entry has a number beyond the blocks' end, and the footer has where
\* the filter and the index are.
Within(ix, end) == \A i \in 1..Len(ix) : ix[i].size <= end /\ ix[i].offset <= end
Measured ==
  /\ keysNum \in Nat \ {0} /\ \A i \in 1..Len(blocks) : WellMade(blocks[i])
  /\ status # "done" => offset = EndOf(blocks)
  /\ Within(index, EndOf(blocks))
  /\ status = "done" => footer = Footer(EndOf(blocks), BlockSize(filter), index)

LEMMA InitMeasured == Init => Measured
<1> SUFFICES ASSUME Init PROVE Measured
  OBVIOUS
<1>1. Len(blocks) = 0 /\ Len(index) = 0 /\ offset = 0 /\ keysNum \in Nat \ {0} /\ blocks \in Seq(Blk) /\ status = "open"
  BY KeyAssumption DEF Init
<1>2. EndOf(blocks) = 0
  <2>1. Len(blocks) + 1 = 1
    BY <1>1
  <2>2. SizesBefore(blocks, 1) = 0
    BY <1>1, SizesBeforeAre
  <2> QED BY <2>1, <2>2, Zenon DEF EndOf
<1> QED BY <1>1, <1>2 DEF Measured, Within

LEMMA DieMeasured ==
  ASSUME Measured, status = "open", Die
  PROVE  Measured'
BY DEF Die, Measured, Within, EndOf, SizesBefore

LEMMA KeepsMeasured ==
  ASSUME Measured, status = "open", NEW k, NEW v, Keeps(k, v)
  PROVE  Measured'
BY DEF Keeps, Measured, Within, EndOf, SizesBefore

\* One more block and an index entry for it.
LEMMA MeasuredMore ==
  ASSUME Inv, Measured, status = "open", NEW b \in Blk, WellMade(b), NEW e \in IndexEntry,
         e.size = b.size, e.offset <= offset + b.size, keysNum' = keysNum,
         blocks' = Append(blocks, b), index' = Append(index, e)
  PROVE  /\ keysNum' \in Nat \ {0} /\ \A i \in 1..Len(blocks') : WellMade(blocks'[i])
         /\ EndOf(blocks') = offset + b.size /\ Within(index', EndOf(blocks'))
<1>1. blocks \in Seq(Blk) /\ index \in Seq(IndexEntry) /\ offset \in Nat
  BY DEF Inv, Typed
<1>2. EndOf(blocks') = EndOf(blocks) + b.size /\ EndOf(blocks) \in Nat /\ b.size \in Nat /\ offset = EndOf(blocks)
  BY <1>1, EndMore DEF Measured
<1>3. /\ Len(blocks') = Len(blocks) + 1 /\ blocks'[Len(blocks) + 1] = b /\ Len(blocks) \in Nat
      /\ \A i \in 1..Len(blocks) : blocks'[i] = blocks[i]
  BY <1>1, AppendIs
<1>4. /\ Len(index') = Len(index) + 1 /\ index'[Len(index) + 1] = e /\ Len(index) \in Nat
      /\ \A i \in 1..Len(index) : index'[i] = index[i]
  BY <1>1, AppendIs
<1>5. \A i \in 1..Len(blocks') : WellMade(blocks'[i])
  <2> TAKE i \in 1..Len(blocks')
  <2>1. i = Len(blocks) + 1 \/ i \in 1..Len(blocks)
    BY <1>3
  <2>2. CASE i = Len(blocks) + 1
    BY <1>3, <2>2
  <2>3. CASE i \in 1..Len(blocks)
    <3>1. WellMade(blocks[i]) /\ blocks'[i] = blocks[i]
      BY <1>3, <2>3 DEF Measured
    <3> QED BY <3>1
  <2> QED BY <2>1, <2>2, <2>3
<1>6. \A i \in 1..Len(index') : index'[i].size <= EndOf(blocks') /\ index'[i].offset <= EndOf(blocks')
  <2> TAKE i \in 1..Len(index')
  <2> PICK m, n, x : m = EndOf(blocks) /\ n = b.size /\ x = index[i]
    OBVIOUS
  <2>1. i = Len(index) + 1 \/ i \in 1..Len(index)
    BY <1>4
  <2>2. CASE i = Len(index) + 1
    <3>1. index'[i] = e /\ e.size <= m + n /\ e.offset <= m + n
      BY <1>2, <1>4, <2>2
    <3> QED BY <1>2, <3>1
  <2>3. CASE i \in 1..Len(index)
    <3>1. index'[i] = x /\ x \in IndexEntry
      BY <1>1, <1>4, <2>3, ElementOfSeq
    <3>2. x.size <= m /\ x.offset <= m /\ x.size \in Nat /\ x.offset \in Nat /\ m \in Nat /\ n \in Nat
      BY <1>2, <2>3, <3>1 DEF Measured, Within, IndexEntry
    <3>3. x.size <= m + n /\ x.offset <= m + n
      BY <3>2
    <3> QED BY <1>2, <3>1, <3>3
  <2> QED BY <2>1, <2>2, <2>3
<1> QED BY <1>2, <1>5, <1>6 DEF Measured, Within

LEMMA PendingKeyed == Typed => \A i \in 1..Len(Pending) : Pending[i].key # <<>>
<1> SUFFICES ASSUME Typed, NEW i \in 1..Len(Pending) PROVE Pending[i].key # <<>>
  OBVIOUS
<1>1. /\ added \in Seq(Added) /\ Split \in 0..Len(added) /\ Len(added) \in Nat /\ Len(recs) \in Nat
      /\ Len(Pending) = Len(recs) /\ Split = Len(added) - Len(recs)
  BY AddedAre DEF Typed, Split
<1>2. i \in 1..Len(added) - Split /\ Split + i \in 1..Len(added)
  BY <1>1
<1>3. Pending[i] = added[Split + i]
  BY <1>1, <1>2, BehindIs DEF Pending
<1> QED BY <1>2, <1>3, AddedAre

LEMMA AppendsMeasured ==
  ASSUME Inv, Measured, NEW k \in Keys, k # <<>>, NEW v \in ValLens, status = "open",
         AppendsBlock(WithLast(k, v), k, v)
  PROVE  Measured'
<1> PICK b, e, y, r : /\ b = WithLast(k, v) /\ e = [key |-> k, val |-> v] /\ r = Record(k, v)
                      /\ y = [key |-> ShortestKey(preKey, k), size |-> b.size, offset |-> offset']
  OBVIOUS
<1>1. /\ blocks' = Append(blocks, b) /\ offset' = offset + b.size /\ index' = Append(index, y)
      /\ keysNum' = keysNum /\ status' = status /\ preKey # <<>>
  BY DEF AppendsBlock
<1>2. b \in Blk
  BY WithLastIs
<1>3. y \in IndexEntry /\ y.size = b.size /\ y.offset = offset + b.size
  <2>1. ShortestKey(preKey, k) \in Text \ {<<>>}
    BY <1>1, ShortestIs, AddedAre DEF Inv
  <2>2. offset \in Nat /\ b.size \in Nat
    BY <1>2 DEF Inv, Typed, Blk
  <2> QED BY <1>1, <2>1, <2>2 DEF IndexEntry
<1>4. WellMade(b)
  <2>1. /\ e \in Added /\ Codes(Append(recs, r), Append(Pending, e))
        /\ \E at : Restarts(Append(recs, r), GroupsWith(k, v), Append(Pending, e), at)
    BY RecordFits DEF Inv
  <2>2. PICK at : Restarts(Append(recs, r), GroupsWith(k, v), Append(Pending, e), at)
    BY <2>1
  <2>3. recNum + 1 \in Int /\ b = Block(Append(recs, r), GroupsWith(k, v), recNum + 1)
    <3>1. recNum + 1 \in Int
      BY DEF Inv, Typed
    <3> QED BY <3>1, Zenon DEF WithLast
  <2>4. Pending \in Seq(Entry) /\ e \in Entry
    BY AddedAre, RecordFits DEF Inv
  <2>5. ASSUME NEW i \in 1..Len(Append(Pending, e)) PROVE Append(Pending, e)[i].key # <<>>
    <3>1. /\ Len(Append(Pending, e)) = Len(Pending) + 1 /\ Len(Pending) \in Nat
          /\ \A j \in 1..Len(Pending) : Append(Pending, e)[j] = Pending[j]
          /\ Append(Pending, e)[Len(Pending) + 1] = e
      BY <2>4, AppendIs
    <3>2. i = Len(Pending) + 1 \/ i \in 1..Len(Pending)
      BY <3>1
    <3>3. e.key # <<>>
      OBVIOUS
    <3> QED BY <3>1, <3>2, <3>3, PendingKeyed DEF Inv
  <2> QED BY <2>1, <2>2, <2>3, <2>5 DEF WellMade
<1>5. y.offset <= offset + b.size
  BY <1>2, <1>3 DEF Inv, Typed, Blk
<1>6. /\ keysNum' \in Nat \ {0} /\ \A i \in 1..Len(blocks') : WellMade(blocks'[i])
      /\ EndOf(blocks') = offset + b.size /\ Within(index', EndOf(blocks'))
  BY <1>1, <1>2, <1>3, <1>4, <1>5, MeasuredMore
<1> QED BY <1>1, <1>6 DEF Measured

\* The footer of a finished table.
LEMMA FinishEnds ==
  ASSUME Finish, status' = "done"
  PROVE  footer' = Footer(IF recs = <<>> THEN offset ELSE offset + Block(recs, groups, recNum).size,
                          BlockSize(filter'), index')
<1>1. ~Die
  BY DEF Die
<1> QED BY <1>1, Zenon DEF Finish

LEMMA ClosesMeasured ==
  ASSUME Inv, Measured, status = "open", Finish, ClosesNone \/ ClosesBlock(Block(recs, groups, recNum))
  PROVE  Measured'
<1> PICK b, y : /\ b = Block(recs, groups, recNum)
                /\ y = [key |-> Bumped(preKey), size |-> b.size, offset |-> offset]
  OBVIOUS
<1>1. status' = "done" /\ keysNum' = keysNum
  BY DEF ClosesNone, ClosesBlock, Closes
<1>2. footer' = Footer(IF recs = <<>> THEN offset ELSE offset + b.size, BlockSize(filter'), index')
  BY <1>1, FinishEnds, Zenon
<1>3. CASE ClosesNone
  <2>1. recs = <<>> /\ blocks' = blocks /\ index' = index
    BY <1>3 DEF ClosesNone, Closes
  <2>2. offset = EndOf(blocks) /\ Within(index, EndOf(blocks))
    BY DEF Measured
  <2> QED BY <1>1, <1>2, <2>1, <2>2 DEF Measured
<1>4. CASE ClosesBlock(b)
  <2>1. recs # <<>> /\ blocks' = Append(blocks, b) /\ index' = Append(index, y)
    BY <1>4 DEF ClosesBlock, Closes
  <2>2. recs \in Seq(Rec) /\ recNum \in Int /\ offset \in Nat /\ Len(added) \in Nat /\ Len(recs) \in Nat
    BY DEF Inv, Typed
  <2>3. PICK at : Codes(recs, Pending) /\ Restarts(recs, groups, Pending, at)
    BY DEF Inv, Coded
  <2>4. b \in Blk
    BY <2>2, <2>3, BlockIs
  <2>5. WellMade(b)
    BY <2>2, <2>3, PendingKeyed DEF WellMade, Inv
  <2>6. y \in IndexEntry
    <3>1. preKey \in Text /\ preKey # <<>>
      <4>1. added # <<>> /\ preKey = added[Len(added)].key /\ Len(added) \in 1..Len(added)
        BY <2>1, <2>2, AddedAre DEF Inv, Typed
      <4> QED BY <4>1, AddedAre DEF Inv
    <3>2. b.size \in Nat
      BY <2>4 DEF Blk
    <3> QED BY <2>2, <3>1, <3>2, BumpedIs DEF IndexEntry
  <2>7. y.size = b.size /\ y.offset <= offset + b.size
    BY <2>2, <2>4 DEF Blk
  <2>8. /\ keysNum' \in Nat \ {0} /\ \A i \in 1..Len(blocks') : WellMade(blocks'[i])
        /\ EndOf(blocks') = offset + b.size /\ Within(index', EndOf(blocks'))
    BY <1>1, <2>1, <2>4, <2>5, <2>6, <2>7, MeasuredMore
  <2>9. footer' = Footer(EndOf(blocks'), BlockSize(filter'), index')
    BY <1>2, <2>1, <2>8, Zenon
  <2> QED BY <1>1, <2>8, <2>9 DEF Measured
<1> QED BY <1>3, <1>4

LEMMA NextMeasured == Inv /\ Measured /\ [Next]_vars => Measured'
<1> SUFFICES ASSUME Inv, Measured, [Next]_vars PROVE Measured'
  OBVIOUS
<1>1. ASSUME NEW k \in Keys, NEW v \in ValLens, Add(k, v) PROVE Measured'
  BY <1>1, AddIs, KeepsMeasured, DieMeasured, AppendsMeasured
<1>2. CASE Finish
  BY <1>2, FinishIs, DieMeasured, ClosesMeasured
<1>3. CASE UNCHANGED vars
  BY <1>3 DEF vars, Measured, Within, EndOf, SizesBefore
<1> QED BY <1>1, <1>2, <1>3 DEF Next

LEMMA AlwaysMeasured == Spec => [](Inv /\ Measured)
<1>1. Init => Inv /\ Measured
  BY InitInv, InitMeasured
<1>2. Inv /\ Measured /\ [Next]_vars => (Inv /\ Measured)'
  BY NextInv, NextMeasured
<1> QED BY <1>1, <1>2, PTL DEF Spec

-----------------------------------------------------------------------------
(* The file's bytes. *)

LEMMA BlocksAre ==
  ASSUME NEW bs \in Seq(Blk), \A i \in 1..Len(bs) : WellMade(bs[i]),
         NEW w, w = FlattenSeq([i \in DOMAIN bs |-> BlockBytes(bs[i])])
  PROVE  /\ w \in Seq(Octets) /\ Len(w) = EndOf(bs) /\ EndOf(bs) \in Nat
         /\ \A s : \A p \in Int : Holds(s, p, w) =>
              \A i \in 1..Len(bs) : Holds(s, p + SizesBefore(bs, i), BlockBytes(bs[i]))
<1> PICK n, ss, at : /\ n = Len(bs) /\ ss = [i \in DOMAIN bs |-> BlockBytes(bs[i])]
                     /\ at = [i \in 0..n |-> SizesBefore(bs, i + 1)]
  OBVIOUS
<1>1. n \in Nat /\ DOMAIN bs = 1..n /\ \A i \in 1..n : bs[i] \in Blk
  BY ElementOfSeq
<1>2. ASSUME NEW i \in 1..n PROVE BlockBytes(bs[i]) \in Seq(Octets) /\ Len(BlockBytes(bs[i])) = bs[i].size
  <2> PICK b : b = bs[i]
    OBVIOUS
  <2>1. b \in Blk /\ WellMade(b)
    BY <1>1
  <2>2. PICK rs, gs, num : b = Block(rs, gs, num) /\ gs \in Seq(Nat)
    BY <2>1 DEF WellMade, Restarts
  <2>3. b.recs = rs /\ Len(b.restarts) = Len(gs) /\ b.size = DataSize(rs) + 12 * Len(gs) + 4
    <3>1. Len(gs) \in Nat /\ b.restarts = [j \in 1..Len(gs) |-> Restart(rs, gs, num, j)]
      BY <2>2 DEF Block
    <3>2. Len(b.restarts) = Len(gs)
      BY <3>1
    <3> QED BY <2>2, <3>2 DEF Block
  <2> QED BY <2>1, <2>3, BlockBytesAre
<1>3. ss \in Seq(Seq(Octets)) /\ Len(ss) = n
  <2> PICK Q : Q = Seq(Octets)
    OBVIOUS
  <2>1. ss = [i \in 1..n |-> BlockBytes(bs[i])]
    BY <1>1
  <2>2. \A i \in 1..n : BlockBytes(bs[i]) \in Q
    BY <1>2
  <2>3. ss \in Seq(Q) /\ Len(ss) = n
    BY ONLY <2>1, <2>2, n \in Nat
  <2> QED BY <2>3
<1>4. \A i \in 1..n : ss[i] = BlockBytes(bs[i])
  BY <1>1
<1>5. \A i \in 0..n : at[i] = SizesBefore(bs, i + 1) /\ at[i] \in Nat
  <2>1. \A i \in 0..n : i + 1 \in 1..n + 1
    BY <1>1
  <2> QED BY <2>1, SizesBeforeAre
<1>6. at[0] = 0 /\ at[n] = EndOf(bs) /\ at[n] \in Nat
  <2>1. 0 \in 0..n /\ n \in 0..n /\ 0 + 1 = 1
    BY <1>1
  <2>2. at[0] = SizesBefore(bs, 1) /\ at[n] = EndOf(bs) /\ at[n] \in Nat
    BY <1>5, <2>1 DEF EndOf
  <2> QED BY <2>2, SizesBeforeAre
<1>7. ASSUME NEW i \in 1..n PROVE at[i] = at[i - 1] + Len(ss[i]) /\ at[i - 1] = SizesBefore(bs, i)
  <2>1. i - 1 \in 0..n /\ i \in 0..n /\ i - 1 + 1 = i
    BY <1>1
  <2>2. at[i - 1] = SizesBefore(bs, i) /\ at[i] = SizesBefore(bs, i + 1) /\ Len(ss[i]) = bs[i].size
    BY <1>2, <1>4, <1>5, <2>1
  <2>3. SizesBefore(bs, i + 1) = SizesBefore(bs, i) + bs[i].size
    BY SizesBeforeAre
  <2> QED BY <2>2, <2>3
<1>8. w = FlattenSeq(ss)
  OBVIOUS
<1>9. /\ w \in Seq(Octets) /\ Len(w) = at[n]
      /\ \A s : \A p \in Int : Holds(s, p, w) => \A i \in 1..n : Holds(s, p + at[i - 1], ss[i])
  <2> PICK O, u : O = Octets /\ u = FlattenSeq(ss)
    OBVIOUS
  <2>1. /\ n \in Nat /\ ss \in Seq(Seq(O)) /\ n = Len(ss) /\ at[0] = 0 /\ \A i \in 0..n : at[i] \in Nat
        /\ \A i \in 1..n : at[i] = at[i - 1] + Len(ss[i])
    BY <1>1, <1>3, <1>5, <1>6, <1>7, <1>8
  <2>2. /\ u \in Seq(O) /\ Len(u) = at[n]
        /\ \A s : \A p \in Int : Holds(s, p, u) => \A i \in 1..n : Holds(s, p + at[i - 1], ss[i])
    <3>1. /\ FlattenSeq(ss) \in Seq(O) /\ Len(FlattenSeq(ss)) = at[n]
          /\ \A s : \A p \in Int : Holds(s, p, FlattenSeq(ss)) => \A i \in 1..n : Holds(s, p + at[i - 1], ss[i])
      BY ONLY <2>1, FlattenHolds
    <3> QED BY ONLY <3>1, u = FlattenSeq(ss), Zenon
  <2> QED BY <2>2, <1>8
<1> QED BY <1>4, <1>6, <1>7, <1>9

LEMMA IndexBytesAre ==
  ASSUME NEW e \in IndexEntry
  PROVE  /\ IndexBytes(e) \in Seq(Octets) /\ Len(IndexBytes(e)) = 12 + Len(e.key)
         /\ e.key \in Seq(Octets) /\ Len(e.key) \in Nat
         /\ \A s : \A p \in Int : Holds(s, p, IndexBytes(e)) =>
              /\ Holds(s, p, Fixed32(Len(e.key))) /\ Holds(s, p + 4, e.key)
              /\ Holds(s, p + 4 + Len(e.key), OffsetBytes(e))
<1> PICK a, k, o, n : a = Fixed32(Len(e.key)) /\ k = e.key /\ o = OffsetBytes(e) /\ n = Len(k)
  OBVIOUS
<1>1. /\ k \in Seq(Octets) /\ n \in Nat /\ a \in Seq(Octets) /\ Len(a) = 4
      /\ o \in Seq(Octets) /\ Len(o) = 8
  <2>1. k \in Text /\ e.size \in Nat /\ e.offset \in Nat
    BY DEF IndexEntry
  <2>2. k \in Seq(Octets) /\ e.size \in Int /\ e.offset \in Int
    BY <2>1, TextsAreOctets
  <2>3. n \in Nat /\ n \in Int
    BY <2>2
  <2> QED BY <2>2, <2>3, Fixed32Is, OffsetBytesAre
<1>2. a \o k \in Seq(Octets) /\ Len(a \o k) = 4 + n
  <2>1. a \o k \in Seq(Octets) /\ Len(a \o k) = Len(a) + Len(k)
    BY ONLY <1>1, JoinIs
  <2> QED BY ONLY <1>1, <2>1, n = Len(k)
<1>3. (a \o k) \o o \in Seq(Octets) /\ Len((a \o k) \o o) = 12 + n
  <2>1. PICK d : d = a \o k
    OBVIOUS
  <2>2. d \o o \in Seq(Octets) /\ Len(d \o o) = Len(d) + Len(o)
    BY ONLY <1>1, <1>2, <2>1, JoinIs
  <2> QED BY ONLY <1>1, <1>2, <2>1, <2>2
<1>4. ASSUME NEW s, NEW p \in Int, Holds(s, p, (a \o k) \o o)
      PROVE  Holds(s, p, a) /\ Holds(s, p + 4, k) /\ Holds(s, p + 4 + n, o)
  <2>1. Holds(s, p, a \o k) /\ Holds(s, p + (4 + n), o)
    BY ONLY <1>1, <1>2, <1>4, HoldsBothAt
  <2>2. Holds(s, p, a) /\ Holds(s, p + 4, k)
    BY ONLY <1>1, <2>1, p \in Int, HoldsBothAt
  <2>3. p + (4 + n) = p + 4 + n
    BY ONLY <1>1, p \in Int
  <2> QED BY <2>1, <2>2, <2>3
<1> QED BY <1>1, <1>3, <1>4 DEF IndexBytes

\* Bytes of the first i index entries.
EntrySizes(ix) == [i \in DOMAIN ix |-> 12 + Len(ix[i].key)]
EntriesUpTo(ix, i) == UpTo(EntrySizes(ix), i)

LEMMA EntriesAre ==
  ASSUME NEW ix \in Seq(IndexEntry)
  PROVE  /\ EntriesUpTo(ix, 0) = 0 /\ EntriesUpTo(ix, Len(ix)) = IndexSize(ix) /\ IndexSize(ix) \in Nat
         /\ \A i \in 0..Len(ix) : EntriesUpTo(ix, i) \in Nat
         /\ \A i \in 1..Len(ix) : EntriesUpTo(ix, i) = EntriesUpTo(ix, i - 1) + 12 + Len(ix[i].key)
<1> PICK n, f : n = Len(ix) /\ f = EntrySizes(ix)
  OBVIOUS
<1>1. /\ n \in Nat /\ n \in 0..n /\ DOMAIN ix = 1..n /\ DOMAIN f = 1..n
      /\ \A i \in 1..n : f[i] = 12 + Len(ix[i].key)
  BY DEF EntrySizes
<1>2. \A i \in 1..n : Len(ix[i].key) \in Nat /\ f[i] \in Nat
  <2>1. \A i \in 1..n : ix[i] \in IndexEntry
    BY ElementOfSeq
  <2>2. \A i \in 1..n : Len(ix[i].key) \in Nat
    BY <2>1, IndexBytesAre
  <2> QED BY <1>1, <2>2
<1>3. /\ UpTo(f, 0) = 0 /\ \A i \in 0..n : UpTo(f, i) \in Nat
      /\ \A i \in 1..n : UpTo(f, i) = UpTo(f, i - 1) + f[i]
  BY <1>1, <1>2, UpToIs
<1>4. UpTo(f, n) = IndexSize(ix)
  BY <1>1 DEF UpTo, IndexSize, SumFunction, EntrySizes
<1>5. ASSUME NEW i \in 1..n PROVE UpTo(f, i) = UpTo(f, i - 1) + 12 + Len(ix[i].key)
  <2> PICK x, y : x = UpTo(f, i - 1) /\ y = Len(ix[i].key)
    OBVIOUS
  <2>1. i - 1 \in 0..n
    BY <1>1
  <2>2. x \in Nat /\ y \in Nat /\ UpTo(f, i) = x + (12 + y)
    BY <1>1, <1>2, <1>3, <2>1
  <2> QED BY <2>2
<1> QED BY <1>1, <1>3, <1>4, <1>5 DEF EntriesUpTo

LEMMA IndexIs ==
  ASSUME NEW ix \in Seq(IndexEntry), NEW w, w = FlattenSeq([i \in DOMAIN ix |-> IndexBytes(ix[i])])
  PROVE  /\ w \in Seq(Octets) /\ Len(w) = IndexSize(ix)
         /\ \A s : \A p \in Int : Holds(s, p, w) =>
              \A i \in 1..Len(ix) : Holds(s, p + EntriesUpTo(ix, i - 1), IndexBytes(ix[i]))
<1> PICK n, ss, at : /\ n = Len(ix) /\ ss = [i \in DOMAIN ix |-> IndexBytes(ix[i])]
                     /\ at = [i \in 0..n |-> EntriesUpTo(ix, i)]
  OBVIOUS
<1>1. n \in Nat /\ DOMAIN ix = 1..n /\ \A i \in 1..n : ix[i] \in IndexEntry
  BY ElementOfSeq
<1>2. \A i \in 1..n : ss[i] = IndexBytes(ix[i]) /\ IndexBytes(ix[i]) \in Seq(Octets)
  BY <1>1, IndexBytesAre
<1>3. ss \in Seq(Seq(Octets)) /\ Len(ss) = n
  <2> PICK Q : Q = Seq(Octets)
    OBVIOUS
  <2>1. ss = [i \in 1..n |-> IndexBytes(ix[i])]
    BY <1>1
  <2>2. \A i \in 1..n : IndexBytes(ix[i]) \in Q
    BY <1>2
  <2>3. ss \in Seq(Q) /\ Len(ss) = n
    BY ONLY <2>1, <2>2, n \in Nat
  <2> QED BY <2>3
<1>4. \A i \in 0..n : at[i] = EntriesUpTo(ix, i) /\ at[i] \in Nat
  BY EntriesAre
<1>5. at[0] = 0 /\ at[n] = IndexSize(ix)
  <2>1. 0 \in 0..n /\ n \in 0..n
    BY <1>1
  <2> QED BY <1>4, <2>1, EntriesAre
<1>6. ASSUME NEW i \in 1..n PROVE at[i] = at[i - 1] + Len(ss[i]) /\ at[i - 1] = EntriesUpTo(ix, i - 1)
  <2> PICK x, l : x = at[i - 1] /\ l = Len(ix[i].key)
    OBVIOUS
  <2>1. i - 1 \in 0..n /\ i \in 0..n
    BY <1>1
  <2>2. x = EntriesUpTo(ix, i - 1) /\ x \in Nat /\ at[i] = x + 12 + l
    BY <1>4, <2>1, EntriesAre
  <2>3. Len(ss[i]) = 12 + l /\ l \in Nat
    BY <1>1, <1>2, IndexBytesAre
  <2>4. x + 12 + l = x + (12 + l)
    BY ONLY <2>2, <2>3
  <2> QED BY <2>2, <2>3, <2>4
<1>7. w = FlattenSeq(ss)
  OBVIOUS
<1>8. /\ w \in Seq(Octets) /\ Len(w) = at[n]
      /\ \A s : \A p \in Int : Holds(s, p, w) => \A i \in 1..n : Holds(s, p + at[i - 1], ss[i])
  <2> PICK O, u : O = Octets /\ u = FlattenSeq(ss)
    OBVIOUS
  <2>1. /\ n \in Nat /\ ss \in Seq(Seq(O)) /\ n = Len(ss) /\ at[0] = 0 /\ \A i \in 0..n : at[i] \in Nat
        /\ \A i \in 1..n : at[i] = at[i - 1] + Len(ss[i])
    BY <1>1, <1>3, <1>4, <1>5, <1>6, <1>7
  <2>2. /\ u \in Seq(O) /\ Len(u) = at[n]
        /\ \A s : \A p \in Int : Holds(s, p, u) => \A i \in 1..n : Holds(s, p + at[i - 1], ss[i])
    <3>1. /\ FlattenSeq(ss) \in Seq(O) /\ Len(FlattenSeq(ss)) = at[n]
          /\ \A s : \A p \in Int : Holds(s, p, FlattenSeq(ss)) => \A i \in 1..n : Holds(s, p + at[i - 1], ss[i])
      BY ONLY <2>1, FlattenHolds
    <3> QED BY ONLY <3>1, u = FlattenSeq(ss), Zenon
  <2> QED BY <2>2, <1>7
<1> QED BY <1>2, <1>5, <1>6, <1>8

LEMMA OctetsAreInts == \A w : w \in Seq(Octets) => w \in Seq(Int)
<1>1. PICK Q : Q = Octets
  OBVIOUS
<1>2. Q \subseteq Int
  BY <1>1 DEF Octets
<1>3. ASSUME NEW w \in Seq(Q) PROVE w \in Seq(Int)
  <2> PICK n : n = Len(w)
    OBVIOUS
  <2>1. n \in Nat /\ w = [i \in 1..n |-> w[i]] /\ \A i \in 1..n : w[i] \in Q
    BY ElementOfSeq
  <2>2. n \in Nat /\ w = [i \in 1..n |-> w[i]] /\ \A i \in 1..n : w[i] \in Int
    BY <1>2, <2>1
  <2> QED BY ONLY <2>2
<1> QED BY <1>1, <1>3

LEMMA HashCountIs == \A n \in Nat \ {0} : HashCount(n) \in Int
<1> TAKE n \in Nat \ {0}
<1>1. PICK x : x = (693147 * ((8 * Bytes(n)) \div n)) \div 1000000
  OBVIOUS
<1>2. x \in Int
  <2>1. Bytes(n) \in Int
    BY SMT DEF Bytes
  <2>2. (8 * Bytes(n)) \div n \in Int
    BY <2>1
  <2> QED BY <1>1, <2>2, SMT
<1>3. PICK y : y = Max({1, x})
  OBVIOUS
<1>4. y \in Int
  <2>1. \E z \in {1, x} : \A w \in {1, x} : z >= w
    <3>1. CASE 1 >= x
      BY <1>2, <3>1
    <3>2. CASE ~(1 >= x)
      BY <1>2, <3>2
    <3> QED BY <3>1, <3>2
  <2>2. y \in {1, x}
    BY <1>3, <2>1 DEF Max
  <2> QED BY <1>2, <2>2
<1>5. Min({32, y}) \in Int
  <2>1. \E z \in {32, y} : \A w \in {32, y} : z <= w
    <3>1. CASE 32 <= y
      BY <1>4, <3>1
    <3>2. CASE ~(32 <= y)
      BY <1>4, <3>2
    <3> QED BY <3>1, <3>2
  <2>2. Min({32, y}) \in {32, y}
    BY <2>1 DEF Min
  <2> QED BY <1>4, <2>2
<1>6. HashCount(n) = Min({32, Max({1, x})})
  BY <1>1, SMT DEF HashCount
<1> QED BY <1>3, <1>5, <1>6

LEMMA FilterBytesAre ==
  ASSUME NEW f, f.bytes \in Nat, f.hashes \in Int
  PROVE  /\ BlockSize(f) \in Nat
         /\ FilterBytes(f) \in Seq(Int) /\ Len(FilterBytes(f)) = BlockSize(f)
<1> DEFINE weights(i) == [b \in 0..7 |-> IF 8 * (i - 1) + b \in f.bits THEN 2^b ELSE 0]
<1> PICK n, a, z : n = f.bytes /\ a = [i \in 1..n |-> SumFunction(weights(i))] /\ z = Fixed32(f.hashes)
  OBVIOUS
<1>1. FilterBytes(f) = a \o z
  BY Zenon DEF FilterBytes
<1>2. \A i \in 1..n : SumFunction(weights(i)) \in Int
  <2> TAKE i \in 1..n
  <2>1. DOMAIN weights(i) = 0..7
    OBVIOUS
  <2>4. IsFiniteSet(0..7)
    <3>1. 0 \in Int /\ 7 \in Int
      OBVIOUS
    <3> QED BY ONLY <3>1, FS_Interval
  <2>2. \A b \in 0..7 : 2^b \in Int
    BY SMT
  <2>3. \A b \in 0..7 : weights(i)[b] \in Int
    BY <2>2
  <2> HIDE DEF weights
  <2> QED BY <2>1, <2>3, <2>4, SumType DEF SumFunction
<1> HIDE DEF weights
<1>3. a \in Seq(Int) /\ Len(a) = n /\ n \in Nat
  <2>1. n \in Nat /\ a = [i \in 1..n |-> a[i]] /\ \A i \in 1..n : a[i] \in Int
    BY <1>2
  <2> QED BY ONLY <2>1
<1>4. z \in Seq(Int) /\ Len(z) = 4
  <2>1. z \in Seq(Octets) /\ Len(z) = 4
    BY Fixed32Is
  <2> QED BY <2>1, OctetsAreInts
<1>5. a \o z \in Seq(Int) /\ Len(a \o z) = n + 4
  <2>1. a \o z \in Seq(Int) /\ Len(a \o z) = Len(a) + Len(z)
    BY ONLY <1>3, <1>4, JoinIs
  <2> QED BY ONLY <1>3, <1>4, <2>1
<1>6. BlockSize(f) = n + 4 /\ n + 4 \in Nat
  BY DEF BlockSize
<1> QED BY <1>1, <1>5, <1>6

IndexString == FlattenSeq([i \in DOMAIN index |-> IndexBytes(index[i])])
FilterPlace == EndOf(blocks)
IndexPlace == EndOf(blocks) + BlockSize(filter)

\* The file of a finished table, part for part.
Written ==
  /\ File \in Seq(Int)
  /\ EndOf(blocks) \in Nat /\ BlockSize(filter) \in Nat /\ IndexSize(index) \in Nat
  /\ Len(File) = EndOf(blocks) + BlockSize(filter) + IndexSize(index) + 16
  /\ FilterBytes(filter) \in Seq(Int) /\ Len(FilterBytes(filter)) = BlockSize(filter)
  /\ \A i \in 1..Len(blocks) : Holds(File, SizesBefore(blocks, i), BlockBytes(blocks[i]))
  /\ Holds(File, FilterPlace, FilterBytes(filter)) /\ Holds(File, IndexPlace, IndexString)
  /\ Holds(File, Len(File) - 16, OffsetBytes(footer.filter))
  /\ Holds(File, Len(File) - 8, OffsetBytes(footer.index))

LEMMA FileIs ==
  ASSUME Inv, Measured, status = "done"
  PROVE  Written
<1> PICK a, f, x, o, q, e, n, m :
      /\ a = FlattenSeq([i \in DOMAIN blocks |-> BlockBytes(blocks[i])])
      /\ f = FilterBytes(filter) /\ x = IndexString
      /\ o = OffsetBytes(footer.filter) /\ q = OffsetBytes(footer.index)
      /\ e = EndOf(blocks) /\ n = BlockSize(filter) /\ m = IndexSize(index)
  OBVIOUS
<1>1. blocks \in Seq(Blk) /\ index \in Seq(IndexEntry) /\ \A i \in 1..Len(blocks) : WellMade(blocks[i])
  BY DEF Inv, Typed, Measured
<1>2. filter.bytes \in Nat /\ filter.hashes \in Int
  <2>1. filter.bytes = Bytes(keysNum) /\ filter.hashes = HashCount(keysNum) /\ keysNum \in Nat \ {0}
    BY DEF Inv, Filtered, Measured, CreateFilter
  <2>2. \A k \in Nat : Bytes(k) \in Nat
    BY SMT DEF Bytes
  <2> QED BY <2>1, <2>2, HashCountIs
<1>3. f \in Seq(Int) /\ Len(f) = n
  BY <1>2, FilterBytesAre
<1>4. \A w : w \in Seq(Octets) => w \in Seq(Int)
  BY OctetsAreInts
<1>5. a \in Seq(Int) /\ Len(a) = e /\ e \in Nat
  BY <1>1, <1>4, BlocksAre
<1>6. x \in Seq(Int) /\ Len(x) = m /\ m \in Nat /\ n \in Nat
  BY <1>1, <1>2, <1>4, IndexIs, EntriesAre, FilterBytesAre DEF IndexString
<1>7. o \in Seq(Int) /\ Len(o) = 8 /\ q \in Seq(Int) /\ Len(q) = 8
  <2>1. footer = Footer(e, n, index)
    BY DEF Measured
  <2>2. /\ footer.filter.offset = e /\ footer.filter.size = n
        /\ footer.index.offset = e + n /\ footer.index.size = m
    BY <2>1 DEF Footer
  <2>3. /\ footer.filter.offset \in Int /\ footer.filter.size \in Int
        /\ footer.index.offset \in Int /\ footer.index.size \in Int
    BY <1>5, <1>6, <2>2
  <2> QED BY <1>4, <2>3, OffsetBytesAre
<1>8. File = (((a \o f) \o x) \o o) \o q
  BY DEF File, IndexString
<1>9. a \o f \in Seq(Int) /\ Len(a \o f) = e + n
  BY ONLY <1>3, <1>5, JoinLen
<1>10. (a \o f) \o x \in Seq(Int) /\ Len((a \o f) \o x) = e + n + m
  <2>1. PICK d : d = a \o f
    OBVIOUS
  <2>2. d \o x \in Seq(Int) /\ Len(d \o x) = Len(d) + Len(x)
    BY ONLY <1>6, <1>9, <2>1, JoinIs
  <2> QED BY ONLY <1>6, <1>9, <2>1, <2>2
<1>11. ((a \o f) \o x) \o o \in Seq(Int) /\ Len(((a \o f) \o x) \o o) = e + n + m + 8
  <2>1. PICK d : d = (a \o f) \o x
    OBVIOUS
  <2>2. d \o o \in Seq(Int) /\ Len(d \o o) = Len(d) + Len(o)
    BY ONLY <1>7, <1>10, <2>1, JoinIs
  <2> QED BY ONLY <1>7, <1>10, <2>1, <2>2
<1>12. File \in Seq(Int) /\ Len(File) = e + n + m + 16
  <2>1. PICK d : d = ((a \o f) \o x) \o o
    OBVIOUS
  <2>2. d \o q \in Seq(Int) /\ Len(d \o q) = Len(d) + Len(q)
    BY ONLY <1>7, <1>11, <2>1, JoinIs
  <2>3. d \o q \in Seq(Int) /\ Len(d \o q) = e + n + m + 16
    BY ONLY <1>5, <1>6, <1>7, <1>11, <2>1, <2>2
  <2> QED BY <1>8, <2>1, <2>3
<1>13. /\ Holds(File, 0, a) /\ Holds(File, e, f) /\ Holds(File, e + n, x)
       /\ Holds(File, e + n + m, o) /\ Holds(File, e + n + m + 8, q)
  <2> PICK s : s = File
    OBVIOUS
  <2>z. 0 \in Int
    OBVIOUS
  <2>0. Holds(s, 0, (((a \o f) \o x) \o o) \o q)
    <3>1. \A j \in 1..Len(s) : s[0 + j] = s[j]
      <4>1. \A j \in 1..Len(s) : 0 + j = j
        OBVIOUS
      <4> QED BY <4>1
    <3> QED BY <1>8, <3>1 DEF Holds
  <2>1. Holds(s, 0, ((a \o f) \o x) \o o) /\ Holds(s, 0 + (e + n + m + 8), q)
    BY ONLY <1>7, <1>11, <2>0, <2>z, HoldsBothAt
  <2>2. Holds(s, 0, (a \o f) \o x) /\ Holds(s, 0 + (e + n + m), o)
    BY ONLY <1>7, <1>10, <2>1, <2>z, HoldsBothAt
  <2>3. Holds(s, 0, a \o f) /\ Holds(s, 0 + (e + n), x)
    BY ONLY <1>6, <1>9, <2>2, <2>z, HoldsBothAt
  <2>4. Holds(s, 0, a) /\ Holds(s, 0 + e, f)
    BY ONLY <1>3, <1>5, <2>3, <2>z, HoldsBothAt
  <2>5. 0 + (e + n + m + 8) = e + n + m + 8 /\ 0 + (e + n + m) = e + n + m /\ 0 + (e + n) = e + n /\ 0 + e = e
    BY <1>5, <1>6
  <2> QED BY <2>1, <2>2, <2>3, <2>4, <2>5
<1>14. \A i \in 1..Len(blocks) : Holds(File, SizesBefore(blocks, i), BlockBytes(blocks[i]))
  <2> PICK s : s = File
    OBVIOUS
  <2>1. \A i \in 1..Len(blocks) : Holds(s, 0 + SizesBefore(blocks, i), BlockBytes(blocks[i]))
    BY <1>1, <1>13, BlocksAre
  <2>2. \A i \in 1..Len(blocks) : 0 + SizesBefore(blocks, i) = SizesBefore(blocks, i)
    <3>1. \A i \in 1..Len(blocks) : i \in 1..Len(blocks) + 1
      BY <1>1
    <3>2. \A i \in 1..Len(blocks) : SizesBefore(blocks, i) \in Nat
      BY <1>1, <3>1, SizesBeforeAre
    <3> QED BY <3>2
  <2> QED BY <2>1, <2>2
<1>15. Len(File) - 16 = e + n + m /\ Len(File) - 8 = e + n + m + 8
  <2> PICK l : l = Len(File)
    OBVIOUS
  <2>1. l = e + n + m + 16 /\ e \in Nat /\ n \in Nat /\ m \in Nat
    BY <1>5, <1>6, <1>12
  <2>2. l - 16 = e + n + m /\ l - 8 = e + n + m + 8
    BY ONLY <2>1
  <2> QED BY <2>2
<1> QED BY <1>3, <1>5, <1>6, <1>12, <1>13, <1>14, <1>15 DEF Written, FilterPlace, IndexPlace

-----------------------------------------------------------------------------
(* Reading the file back. *)

\* Without a line end nothing is taken away.
LEMMA ReadAllIs ==
  ASSUME NEW S, NEW f \in Seq(S), Newline \notin Range(f)
  PROVE  ReadAll(f) = f
<1> DEFINE Body(g) == [i \in 0..Len(f) |-> IF i = 0 THEN <<>>
                                           ELSE IF f[i] = Newline THEN g[i - 1]
                                           ELSE Append(g[i - 1], f[i])]
<1> PICK n : n = Len(f)
  OBVIOUS
<1>1. n \in Nat /\ DOMAIN f = 1..n /\ \A i \in 1..n : f[i] # Newline
  <2>1. n \in Nat /\ DOMAIN f = 1..n
    OBVIOUS
  <2> QED BY <2>1 DEF Range
<1>2. SubSeq(f, 1, 0) = <<>> /\ SubSeq(f, 1, n) = f
  BY <1>1
<1>3. \A i \in 1..n : SubSeq(f, 1, i) = Append(SubSeq(f, 1, i - 1), f[i])
  <2> TAKE i \in 1..n
  <2>1. i - 1 \in 0..Len(f) - 1 /\ i - 1 + 1 = i
    BY <1>1
  <2> QED BY <2>1, OneMoreRecord
<1>4. \E g : g = Body(g)
  <2> PICK g : g = [i \in 0..n |-> SubSeq(f, 1, i)]
    OBVIOUS
  <2>1. ASSUME NEW i \in 0..n
        PROVE  SubSeq(f, 1, i) = IF i = 0 THEN <<>> ELSE IF f[i] = Newline THEN g[i - 1]
                                 ELSE Append(g[i - 1], f[i])
    <3>1. CASE i = 0
      BY <1>2, <3>1
    <3>2. CASE i # 0
      <4>1. i \in 1..n /\ i - 1 \in 0..n
        BY <1>1, <3>2
      <4>2. g[i - 1] = SubSeq(f, 1, i - 1)
        BY <4>1
      <4> QED BY <1>1, <1>3, <3>2, <4>1, <4>2
    <3> QED BY <3>1, <3>2
  <2>2. g = Body(g)
    <3>1. [i \in 0..n |-> SubSeq(f, 1, i)]
            = [i \in 0..n |-> IF i = 0 THEN <<>> ELSE IF f[i] = Newline THEN g[i - 1]
                              ELSE Append(g[i - 1], f[i])]
      BY <2>1
    <3> QED BY <3>1, Zenon
  <2> QED BY <2>2
<1>5. PICK h : h = CHOOSE g : g = Body(g)
  OBVIOUS
<1>6. h = Body(h)
  BY <1>4, <1>5, Zenon
<1>7. ReadAll(f) = h[Len(f)]
  BY <1>5, Zenon DEF ReadAll
<1>8. \A i \in 0..n : h[i] = IF i = 0 THEN <<>> ELSE IF f[i] = Newline THEN h[i - 1]
                             ELSE Append(h[i - 1], f[i])
  BY <1>6
<1> DEFINE T == {i \in Nat : i <= n => h[i] = SubSeq(f, 1, i)}
<1>9. 0 \in T
  <2>1. 0 \in 0..n
    BY <1>1
  <2>2. h[0] = <<>>
    BY ONLY <1>8, <2>1
  <2> QED BY <1>2, <2>2
<1>10. ASSUME NEW i \in Nat, i \in T PROVE i + 1 \in T
  <2> SUFFICES ASSUME i + 1 <= n PROVE h[i + 1] = SubSeq(f, 1, i + 1)
    OBVIOUS
  <2>1. i + 1 \in 0..n /\ i + 1 \in 1..n /\ i + 1 # 0 /\ i + 1 - 1 = i
    BY <1>1
  <2>2. h[i] = SubSeq(f, 1, i)
    BY <1>1, <1>10
  <2>3. h[i + 1] = Append(h[i], f[i + 1])
    <3>1. PICK m : m = i + 1
      OBVIOUS
    <3>2. m \in 0..n /\ m # 0 /\ f[m] # Newline /\ m - 1 = i
      BY <1>1, <2>1, <3>1
    <3>3. h[m] = Append(h[m - 1], f[m])
      BY ONLY <1>8, <3>2
    <3> QED BY ONLY <3>1, <3>2, <3>3
  <2>4. SubSeq(f, 1, i + 1) = Append(SubSeq(f, 1, i), f[i + 1])
    BY <1>3, <2>1
  <2> QED BY <2>2, <2>3, <2>4
<1> HIDE DEF T
<1>11. n \in T
  BY <1>1, <1>9, <1>10, Induction
<1> QED BY <1>1, <1>2, <1>7, <1>11 DEF T

\* A recursion that goes forward over the numbers below end, and stops outside
\* of them, has a value everywhere.
Forward(f, Stop, out, pre, succ) ==
  f = [q \in Int |-> IF q \in Stop THEN out[q] ELSE pre[q] \o f[succ[q]]]

LEMMA GoesForward ==
  ASSUME NEW end \in Nat, NEW Stop, NEW out, NEW pre, NEW succ,
         \A q \in Int \ Stop : q >= 0 /\ q < end /\ succ[q] \in Int /\ succ[q] > q
  PROVE  \E f : Forward(f, Stop, out, pre, succ)
<1> DEFINE Right(f, q) == f[q] = IF q \in Stop THEN out[q] ELSE pre[q] \o f[succ[q]]
           T == {n \in Nat : \E f : \A q \in Int : q >= end - n => Right(f, q)}
<1>1. 0 \in T
  <2> PICK f : f = [q \in Int |-> out[q]]
    OBVIOUS
  <2>1. \A q \in Int : q >= end - 0 => q \in Stop
    OBVIOUS
  <2>2. \A q \in Int : q >= end - 0 => Right(f, q)
    BY <2>1
  <2> QED BY <2>2
<1>2. ASSUME NEW n \in Nat, n \in T PROVE n + 1 \in T
  <2>1. PICK f : \A q \in Int : q >= end - n => Right(f, q)
    BY <1>2
  <2> PICK m : m = end - (n + 1)
    OBVIOUS
  <2>2. m \in Int /\ \A q \in Int : q > m <=> q >= end - n
    OBVIOUS
  <2> PICK x : x = IF m \in Stop THEN out[m] ELSE pre[m] \o f[succ[m]]
    OBVIOUS
  <2> PICK g : g = [q \in Int |-> IF q = m THEN x ELSE f[q]]
    OBVIOUS
  <2>3. \A q \in Int : q > m => g[q] = f[q]
    BY <2>2
  <2>4. ASSUME NEW q \in Int, q >= m PROVE Right(g, q)
    <3>1. q \notin Stop => succ[q] \in Int /\ succ[q] > m /\ g[succ[q]] = f[succ[q]]
      <4> SUFFICES ASSUME q \notin Stop
                   PROVE  succ[q] \in Int /\ succ[q] > m /\ g[succ[q]] = f[succ[q]]
        OBVIOUS
      <4> PICK y : y = succ[q]
        OBVIOUS
      <4>1. y \in Int /\ y > q
        OBVIOUS
      <4>2. y > m
        BY <2>2, <2>4, <4>1
      <4> QED BY <2>3, <4>1, <4>2
    <3>2. CASE q = m
      BY <3>1, <3>2
    <3>3. CASE q > m
      <4>1. g[q] = f[q] /\ Right(f, q)
        BY <2>1, <2>2, <2>3, <3>3
      <4> QED BY <3>1, <4>1
    <3>4. q = m \/ q > m
      BY <2>2, <2>4
    <3> QED BY <3>2, <3>3, <3>4
  <2> HIDE DEF Right
  <2>5. \A q \in Int : q >= end - (n + 1) => Right(g, q)
    BY <2>4
  <2>6. \E h : \A q \in Int : q >= end - (n + 1) => Right(h, q)
    BY ONLY <2>5, Zenon
  <2>7. n + 1 \in Nat
    OBVIOUS
  <2> QED BY <2>6, <2>7
<1>3. PICK f : \A q \in Int : q >= 0 => Right(f, q)
  <2> HIDE DEF T
  <2>1. end \in T
    BY <1>1, <1>2, Induction
  <2>2. end - end = 0
    OBVIOUS
  <2>3. PICK f : \A q \in Int : q >= end - end => Right(f, q)
    BY <2>1 DEF T
  <2> QED BY <2>2, <2>3
<1> DEFINE g == [q \in Int |-> IF q \in Stop THEN out[q] ELSE f[q]]
<1>4. ASSUME NEW q \in Int PROVE g[q] = IF q \in Stop THEN out[q] ELSE pre[q] \o g[succ[q]]
  <2>1. CASE q \in Stop
    BY <2>1
  <2>2. CASE q \notin Stop
    <3> PICK y : y = succ[q]
      OBVIOUS
    <3>1. q >= 0 /\ y \in Int /\ y >= 0
      BY <2>2
    <3>2. g[q] = f[q] /\ f[q] = pre[q] \o f[y]
      BY <1>3, <2>2, <3>1
    <3>3. g[y] = f[y]
      BY <1>3, <3>1
    <3> QED BY <2>2, <3>2, <3>3
  <2> QED BY <2>1, <2>2
<1>5. g = [q \in Int |-> g[q]]
  OBVIOUS
<1> HIDE DEF g
<1>6. g = [q \in Int |-> IF q \in Stop THEN out[q] ELSE pre[q] \o g[succ[q]]]
  BY <1>4, <1>5
<1> QED BY <1>6 DEF Forward

-----------------------------------------------------------------------------
(* The index. *)

LEMMA WordsAreInts ==
  ASSUME NEW s \in Seq(Int), NEW p \in Int, p >= 0, p + 4 <= Len(s)
  PROVE  Word(s, p) \in Int
<1> PICK a, b, c, d : a = s[p + 1] /\ b = s[p + 2] /\ c = s[p + 3] /\ d = s[p + 4]
  OBVIOUS
<1>1. a \in Int /\ b \in Int /\ c \in Int /\ d \in Int
  <2>1. p + 1 \in 1..Len(s) /\ p + 2 \in 1..Len(s) /\ p + 3 \in 1..Len(s) /\ p + 4 \in 1..Len(s)
    OBVIOUS
  <2> QED BY <2>1, ElementOfSeq
<1>2. Word(s, p) = a + 256 * b + 65536 * c + 16777216 * (IF d < 128 THEN d ELSE d - 256)
  BY SMT DEF Word
<1> QED BY ONLY <1>1, <1>2, SMT

\* What Parse does at q, if it goes on as g.
IndexStep(s, end, g, q) ==
  IF q >= end THEN IF q = end THEN <<>> ELSE <<Fault>>
  ELSE IF ~Readable(s, q, 4) THEN <<Fault>>
  ELSE LET n == Word(s, q)
           o == OffsetAt(s, q + 4 + n)
       IN  IF ~Readable(s, q + 4, n) \/ ~Readable(s, q + 4 + n, 8) THEN <<Fault>>
           ELSE <<[key |-> StringAt(s, q + 4, n), size |-> o.size, offset |-> o.offset]>>
                  \o g[q + 12 + n]

LEMMA IndexSteps ==
  ASSUME NEW s \in Seq(Int), NEW end \in Nat
  PROVE  \E h : /\ \A q \in Int : h[q] = IndexStep(s, end, h, q)
                /\ \A p : IndexBlocks(s, p, end) = h[p]
<1> DEFINE Goes(q) == /\ q < end /\ Readable(s, q, 4) /\ Readable(s, q + 4, Word(s, q))
                      /\ Readable(s, q + 4 + Word(s, q), 8)
           Body(g) == [q \in Int |-> IndexStep(s, end, g, q)]
           record(q) == <<[key |-> StringAt(s, q + 4, Word(s, q)),
                           size |-> OffsetAt(s, q + 4 + Word(s, q)).size,
                           offset |-> OffsetAt(s, q + 4 + Word(s, q)).offset]>>
<1> PICK Stop, out, pre, succ :
      /\ Stop = {q \in Int : ~Goes(q)}
      /\ out = [q \in Int |-> IF q = end THEN <<>> ELSE <<Fault>>]
      /\ pre = [q \in Int |-> record(q)]
      /\ succ = [q \in Int |-> q + 12 + Word(s, q)]
  OBVIOUS
<1>1. ASSUME NEW q \in Int \ Stop PROVE q >= 0 /\ q < end /\ succ[q] \in Int /\ succ[q] > q
  <2>1. Goes(q) /\ q \in Int
    OBVIOUS
  <2> PICK n : n = Word(s, q)
    OBVIOUS
  <2>2. q < end /\ q >= 0 /\ q + 4 <= Len(s) /\ n >= 0
    BY <2>1 DEF Readable
  <2>3. n \in Int
    BY <2>1, <2>2, WordsAreInts
  <2>4. succ[q] = q + 12 + n
    BY <2>1
  <2> QED BY ONLY <2>1, <2>2, <2>3, <2>4
<1>2. \E f : Forward(f, Stop, out, pre, succ)
  <2>1. end \in Nat
    OBVIOUS
  <2> QED BY ONLY <1>1, <2>1, GoesForward
<1>3. ASSUME NEW f, NEW q \in Int
      PROVE  (IF q \in Stop THEN out[q] ELSE pre[q] \o f[succ[q]]) = IndexStep(s, end, f, q)
  <2>1. CASE Goes(q)
    <3>1. q \notin Stop /\ pre[q] = record(q) /\ succ[q] = q + 12 + Word(s, q)
      BY <2>1
    <3>2. ~(q >= end)
      BY <2>1
    <3>3. IndexStep(s, end, f, q) = record(q) \o f[q + 12 + Word(s, q)]
      BY <2>1, <3>2, Zenon DEF IndexStep
    <3> HIDE DEF record, Goes
    <3> QED BY <3>1, <3>3
  <2>2. CASE ~Goes(q)
    <3>1. q \in Stop /\ out[q] = IF q = end THEN <<>> ELSE <<Fault>>
      BY <2>2
    <3>2. CASE q >= end
      <4>1. IndexStep(s, end, f, q) = IF q = end THEN <<>> ELSE <<Fault>>
        BY <3>2, Zenon DEF IndexStep
      <4> HIDE DEF record, Goes
      <4> QED BY <3>1, <4>1
    <3>3. CASE ~(q >= end)
      <4>1. q # end
        BY <3>3
      <4>2. \/ ~Readable(s, q, 4) \/ ~Readable(s, q + 4, Word(s, q))
            \/ ~Readable(s, q + 4 + Word(s, q), 8)
        BY <2>2, <3>3
      <4>3. IndexStep(s, end, f, q) = <<Fault>>
        BY <3>3, <4>2, Zenon DEF IndexStep
      <4> HIDE DEF record, Goes
      <4> QED BY <3>1, <4>1, <4>3
    <3> QED BY <3>2, <3>3
  <2> QED BY <2>1, <2>2
<1>4. \E f : f = Body(f)
  <2> HIDE DEF record, Goes
  <2>1. PICK f : f = [q \in Int |-> IF q \in Stop THEN out[q] ELSE pre[q] \o f[succ[q]]]
    BY <1>2 DEF Forward
  <2>2. [q \in Int |-> IF q \in Stop THEN out[q] ELSE pre[q] \o f[succ[q]]] = Body(f)
    BY <1>3
  <2> QED BY <2>1, <2>2, Zenon
<1> HIDE DEF record, Goes
<1>5. PICK h : h = CHOOSE g : g = Body(g)
  OBVIOUS
<1>6. h = Body(h)
  BY <1>4, <1>5, Zenon
<1>7. \A q \in Int : h[q] = IndexStep(s, end, h, q)
  BY <1>6
<1>8. \A p : IndexBlocks(s, p, end) = h[p]
  BY <1>5, Zenon DEF IndexBlocks, IndexStep
<1> QED BY <1>7, <1>8

LEMMA IndexEntryIs ==
  ASSUME NEW e \in IndexEntry, NEW k, NEW m, NEW o, k = e.key, m = e.size, o = e.offset
  PROVE  [key |-> k, size |-> m, offset |-> o] = e
BY DEF IndexEntry

EntryLies(s, end, q, e) ==
  /\ s \in Seq(Int) /\ end \in Nat /\ end <= Len(s) /\ Len(s) \in Int32 /\ q \in Nat
  /\ e \in IndexEntry /\ e.size \in Int32 /\ e.offset \in Int32
  /\ q + 12 + Len(e.key) <= end /\ Holds(s, q, IndexBytes(e))

\* At the place of an entry's bytes, Parse has the entry and goes on behind it.
LEMMA EntryParses ==
  ASSUME NEW s, NEW end, NEW q, NEW e, EntryLies(s, end, q, e), NEW h
  PROVE  IndexStep(s, end, h, q) = <<e>> \o h[q + 12 + Len(e.key)]
<1> USE DEF EntryLies
<1> PICK n, k, m : n = Len(e.key) /\ k = e.key /\ m = Len(s)
  OBVIOUS
<1>1. n \in Nat /\ k \in Seq(Int) /\ m \in Nat
  <2>1. e \in IndexEntry /\ s \in Seq(Int)
    OBVIOUS
  <2>2. e.key \in Seq(Octets) /\ Len(e.key) \in Nat
    BY ONLY <2>1, IndexBytesAre
  <2>3. k \in Seq(Int)
    BY <2>2, OctetsAreInts
  <2>4. Len(s) \in Nat
    BY ONLY <2>1
  <2> QED BY <2>2, <2>3, <2>4
<1>2. /\ Holds(s, q, Fixed32(n)) /\ Holds(s, q + 4, k) /\ Holds(s, q + 4 + n, OffsetBytes(e))
  <2>1. q \in Int /\ Holds(s, q, IndexBytes(e)) /\ e \in IndexEntry
    OBVIOUS
  <2>2. /\ Holds(s, q, Fixed32(Len(e.key))) /\ Holds(s, q + 4, e.key)
        /\ Holds(s, q + 4 + Len(e.key), OffsetBytes(e))
    BY ONLY <2>1, IndexBytesAre
  <2> QED BY <2>2, Zenon
<1>0. q + 12 + n <= end /\ end <= m /\ q \in Nat /\ end \in Nat /\ n \in Nat /\ m \in Nat
  <2>1. q + 12 + n <= end /\ end <= m
    BY Zenon
  <2> QED BY <1>1, <2>1
<1>3. Word(s, q) = n
  <2>1. n \in Int32
    <3>1. n <= m
      BY ONLY <1>0
    <3>2. m \in Int32
      OBVIOUS
    <3> QED BY ONLY <1>0, <3>1, <3>2, SMT DEF Int32
  <2> QED BY <1>2, <2>1, WordIs
<1>4. OffsetAt(s, q + 4 + n) = [size |-> e.size, offset |-> e.offset]
  <2>1. q + 4 + n \in Int
    BY ONLY <1>0
  <2> QED BY <1>2, <2>1, OffsetIs
<1>5. ~(q >= end) /\ q + 4 \in Nat /\ q + 4 + n <= m /\ q + 4 + n + 8 <= m /\ q + 4 <= m /\ q + 4 + n >= 0
  BY ONLY <1>0
<1>6. Readable(s, q, 4) /\ Readable(s, q + 4, n) /\ Readable(s, q + 4 + n, 8)
  <2>1. m = Len(s)
    OBVIOUS
  <2> QED BY ONLY <1>0, <1>5, <2>1 DEF Readable
<1>7. StringAt(s, q + 4, n) = k
  BY <1>1, <1>2, <1>5, StringIs
<1>8. OffsetAt(s, q + 4 + n).size = e.size /\ OffsetAt(s, q + 4 + n).offset = e.offset
  <2>1. PICK o : o = OffsetAt(s, q + 4 + n)
    OBVIOUS
  <2>2. o = [size |-> e.size, offset |-> e.offset]
    BY <1>4, <2>1
  <2>3. o.size = e.size /\ o.offset = e.offset
    BY ONLY <2>2
  <2> QED BY <2>1, <2>3
<1>9. IndexStep(s, end, h, q)
        = <<[key |-> StringAt(s, q + 4, n), size |-> OffsetAt(s, q + 4 + n).size,
             offset |-> OffsetAt(s, q + 4 + n).offset]>> \o h[q + 12 + n]
  BY <1>3, <1>5, <1>6, Zenon DEF IndexStep
<1>10. [key |-> StringAt(s, q + 4, n), size |-> OffsetAt(s, q + 4 + n).size,
        offset |-> OffsetAt(s, q + 4 + n).offset] = e
  <2> PICK t, z, o : /\ t = StringAt(s, q + 4, n) /\ z = OffsetAt(s, q + 4 + n).size
                     /\ o = OffsetAt(s, q + 4 + n).offset
    OBVIOUS
  <2>1. e \in IndexEntry /\ t = e.key /\ z = e.size /\ o = e.offset
    BY <1>7, <1>8, Zenon
  <2>2. [key |-> t, size |-> z, offset |-> o] = e
    BY ONLY <2>1, IndexEntryIs
  <2> QED BY <2>2, Zenon
<1> QED BY <1>9, <1>10, Zenon

LEMMA IndexParses ==
  ASSUME NEW s \in Seq(Int), Len(s) \in Int32, NEW ix \in Seq(IndexEntry), NEW p \in Nat,
         NEW end, end = p + IndexSize(ix), end <= Len(s),
         \A i \in 1..Len(ix) : ix[i].size \in Int32 /\ ix[i].offset \in Int32,
         \A i \in 1..Len(ix) : Holds(s, p + EntriesUpTo(ix, i - 1), IndexBytes(ix[i]))
  PROVE  IndexBlocks(s, p, end) = ix
<1> PICK m, at : m = Len(ix) /\ at = [i \in 0..m |-> EntriesUpTo(ix, i)]
  OBVIOUS
<1>1. /\ m \in Nat /\ at[0] = 0 /\ at[m] = IndexSize(ix) /\ end \in Nat
      /\ \A i \in 0..m : at[i] \in Nat /\ at[i] = EntriesUpTo(ix, i)
      /\ \A i \in 1..m : at[i] = at[i - 1] + 12 + Len(ix[i].key) /\ Len(ix[i].key) \in Nat
  <2>1. m \in Nat /\ 0 \in 0..m /\ m \in 0..m
    OBVIOUS
  <2>2. \A i \in 0..m : at[i] \in Nat /\ at[i] = EntriesUpTo(ix, i)
    BY EntriesAre
  <2>3. at[0] = 0 /\ at[m] = IndexSize(ix) /\ end \in Nat
    BY <2>1, <2>2, EntriesAre
  <2>4. ASSUME NEW i \in 1..m PROVE at[i] = at[i - 1] + 12 + Len(ix[i].key) /\ Len(ix[i].key) \in Nat
    <3>1. i \in 0..m /\ i - 1 \in 0..m /\ ix[i] \in IndexEntry
      BY <2>1, ElementOfSeq
    <3>2. EntriesUpTo(ix, i) = EntriesUpTo(ix, i - 1) + 12 + Len(ix[i].key)
      BY EntriesAre
    <3> QED BY <2>2, <3>1, <3>2, IndexBytesAre
  <2> QED BY <2>1, <2>2, <2>3, <2>4
<1>2. \A i \in 0..m : at[i] <= at[m]
  <2>1. ASSUME NEW i \in 1..m PROVE at[i - 1] <= at[i]
    <3> PICK x, y, l : x = at[i - 1] /\ y = at[i] /\ l = Len(ix[i].key)
      OBVIOUS
    <3>1. i - 1 \in 0..m
      BY <1>1
    <3>2. x \in Nat /\ l \in Nat /\ y = x + 12 + l
      BY <1>1, <3>1
    <3> QED BY ONLY <3>2, x = at[i - 1], y = at[i]
  <2> TAKE i \in 0..m
  <2> QED BY <1>1, <2>1, Ascends
<1>3. PICK h : /\ \A q \in Int : h[q] = IndexStep(s, end, h, q)
               /\ \A r : IndexBlocks(s, r, end) = h[r]
  BY <1>1, IndexSteps
<1>4. ASSUME NEW i \in 1..m PROVE h[p + at[i - 1]] = <<ix[i]>> \o h[p + at[i]]
  <2> PICK x, y, l, e, q : /\ x = at[i - 1] /\ y = at[i] /\ e = ix[i] /\ l = Len(e.key) /\ q = p + x
    OBVIOUS
  <2>1. i - 1 \in 0..m /\ i \in 0..m /\ e \in IndexEntry
    BY <1>1, ElementOfSeq
  <2>2. x \in Nat /\ l \in Nat /\ y = x + 12 + l /\ y <= at[m] /\ y \in Nat /\ at[m] \in Nat
    <3>1. m \in 0..m
      BY <1>1
    <3>2. x \in Nat /\ y \in Nat /\ at[m] \in Nat /\ y <= at[m]
      BY <1>1, <1>2, <2>1, <3>1
    <3>3. l \in Nat /\ y = x + 12 + l
      BY <1>1
    <3> QED BY <3>2, <3>3
  <2>3. end = p + at[m]
    BY <1>1
  <2>4. q \in Nat /\ q \in Int /\ q + 12 + l <= end /\ q + 12 + l = p + y
    BY ONLY <2>2, <2>3, q = p + x, p \in Nat
  <2>5. Holds(s, q, IndexBytes(e)) /\ e.size \in Int32 /\ e.offset \in Int32
    BY <1>1, <2>1
  <2>6. IndexStep(s, end, h, q) = <<e>> \o h[q + 12 + l]
    <3>1. q + 12 + Len(e.key) <= end
      BY <2>4
    <3>2. s \in Seq(Int) /\ end \in Nat /\ end <= Len(s) /\ Len(s) \in Int32
      BY <1>1
    <3>3. EntryLies(s, end, q, e)
      BY ONLY <2>1, <2>4, <2>5, <3>1, <3>2 DEF EntryLies
    <3>4. \A g : IndexStep(s, end, g, q) = <<e>> \o g[q + 12 + Len(e.key)]
      BY ONLY <3>3, EntryParses
    <3> QED BY <3>4
  <2>7. h[q] = <<e>> \o h[p + y]
    BY <1>3, <2>4, <2>6
  <2> QED BY <2>7
<1>5. h[p + at[m]] = <<>>
  <2>1. h[end] = IndexStep(s, end, h, end)
    BY <1>1, <1>3
  <2>2. end >= end
    BY <1>1
  <2>3. IndexStep(s, end, h, end) = <<>>
    BY <2>2, Zenon DEF IndexStep
  <2> QED BY <1>1, <2>1, <2>3
<1> DEFINE T == {d \in Nat : d <= m => h[p + at[m - d]] = SubSeq(ix, m - d + 1, m)}
<1>6. 0 \in T
  <2>1. m - 0 = m /\ SubSeq(ix, m - 0 + 1, m) = <<>>
    BY <1>1
  <2> QED BY <1>5, <2>1
<1>7. ASSUME NEW d \in Nat, d \in T PROVE d + 1 \in T
  <2> SUFFICES ASSUME d + 1 <= m PROVE h[p + at[m - (d + 1)]] = SubSeq(ix, m - (d + 1) + 1, m)
    OBVIOUS
  <2>1. PICK i : i = m - d
    OBVIOUS
  <2>2. i \in 1..m /\ m - (d + 1) = i - 1 /\ m - (d + 1) + 1 = i /\ d <= m
    BY <1>1, <2>1
  <2>3. h[p + at[i]] = SubSeq(ix, i + 1, m)
    BY <1>7, <2>1, <2>2
  <2>4. h[p + at[i - 1]] = <<ix[i]>> \o SubSeq(ix, i + 1, m)
    BY <1>4, <2>2, <2>3
  <2>5. SubSeq(ix, i, m) = <<ix[i]>> \o SubSeq(ix, i + 1, m)
    <3>1. ix \in Seq(IndexEntry) /\ i \in 1..Len(ix) /\ m = Len(ix)
      BY <2>2
    <3> PICK R : R = IndexEntry
      OBVIOUS
    <3> QED BY ONLY <3>1, R = IndexEntry
  <2> QED BY <2>2, <2>4, <2>5
<1> HIDE DEF T
<1>8. m \in T
  BY <1>1, <1>6, <1>7, Induction
<1>9. h[p + at[0]] = ix
  <2>1. m - m = 0 /\ SubSeq(ix, m - m + 1, m) = ix /\ m <= m
    BY <1>1
  <2> QED BY <1>8, <2>1 DEF T
<1>10. p + at[0] = p
  BY <1>1
<1> QED BY <1>3, <1>9, <1>10

-----------------------------------------------------------------------------
(* What Parse finds. *)

LEMMA LegibleIs ==
  ASSUME Inv, Measured, Legible
  PROVE  /\ Written /\ ReadAll(File) = File /\ Len(File) \in Int32 /\ status = "done"
         /\ footer = Footer(EndOf(blocks), BlockSize(filter), index)
         /\ \A n \in Nat : n <= Len(File) => n \in Int32
<1>1. status = "done" /\ Newline \notin Range(File)
  BY DEF Legible
<1>2. Written
  BY <1>1, FileIs
<1>3. File \in Seq(Int)
  BY <1>2 DEF Written
<1>4. ReadAll(File) = File
  BY <1>1, <1>3, ReadAllIs
<1>5. Len(File) \in Nat
  BY <1>3
<1>6. Len(File) \in Int32 /\ \A n \in Nat : n <= Len(File) => n \in Int32
  BY <1>5, SMT DEF Int32, Legible
<1>7. footer = Footer(EndOf(blocks), BlockSize(filter), index)
  BY <1>1 DEF Measured
<1> QED BY <1>1, <1>2, <1>4, <1>6, <1>7

\* Parse finds the footer that was written at the file's end, in it the index
\* block, the index entries one behind the other to its last byte, and the filter
\* block: whatever the blocks, the keys and their number, for a file in which no
\* byte is a line end.
THEOREM ParsedAsWritten == Spec => []ParseReadsBack
<1>1. Inv /\ Measured => ParseReadsBack
  <2> SUFFICES ASSUME Inv, Measured, Legible
               PROVE  /\ Parse(ReadAll(File)) = [header |-> footer, index |-> index]
                      /\ StringAt(ReadAll(File), footer.filter.offset, footer.filter.size) = FilterBytes(filter)
    BY Zenon DEF ParseReadsBack
  <2> PICK s, l, e, n, m : /\ s = File /\ l = Len(File) /\ e = EndOf(blocks) /\ n = BlockSize(filter)
                           /\ m = IndexSize(index)
    OBVIOUS
  <2>1. /\ Written /\ ReadAll(File) = s /\ l \in Int32 /\ footer = Footer(e, n, index)
        /\ \A x \in Nat : x <= l => x \in Int32
    BY LegibleIs
  <2>2. /\ e \in Nat /\ n \in Nat /\ m \in Nat /\ l = e + n + m + 16 /\ s \in Seq(Int) /\ l = Len(s)
        /\ FilterBytes(filter) \in Seq(Int) /\ Len(FilterBytes(filter)) = n
        /\ Holds(s, e, FilterBytes(filter)) /\ Holds(s, e + n, IndexString)
        /\ Holds(s, l - 16, OffsetBytes(footer.filter)) /\ Holds(s, l - 8, OffsetBytes(footer.index))
    BY <2>1 DEF Written, FilterPlace, IndexPlace
  <2>3. /\ footer.filter = [offset |-> e, size |-> n] /\ footer.index = [offset |-> e + n, size |-> m]
        /\ footer = [filter |-> footer.filter, index |-> footer.index]
    <3>1. footer = [filter |-> [offset |-> e, size |-> n], index |-> [offset |-> e + n, size |-> m]]
      BY <2>1, Zenon DEF Footer
    <3> PICK a, b : a = [offset |-> e, size |-> n] /\ b = [offset |-> e + n, size |-> m]
      OBVIOUS
    <3>2. footer = [filter |-> a, index |-> b]
      BY <3>1
    <3>3. footer.filter = a /\ footer.index = b
      BY ONLY <3>2
    <3> QED BY <3>2, <3>3
  <2> PICK fi, ii : fi = footer.filter /\ ii = footer.index
    OBVIOUS
  <2>4. fi = [offset |-> e, size |-> n] /\ ii = [offset |-> e + n, size |-> m]
    BY <2>3
  <2>5. fi.offset = e /\ fi.size = n /\ ii.offset = e + n /\ ii.size = m
    BY ONLY <2>4
  <2>6. /\ e \in Int32 /\ n \in Int32 /\ e + n \in Int32 /\ m \in Int32
        /\ l - 16 \in Int /\ l - 8 \in Int
    <3>1. /\ e <= l /\ n <= l /\ e + n <= l /\ m <= l /\ e + n \in Nat /\ l - 16 \in Int /\ l - 8 \in Int
      BY ONLY <2>2
    <3> QED BY <2>1, <2>2, <3>1
  <2>7. OffsetAt(s, l - 16) = [size |-> n, offset |-> e]
    <3>1. OffsetAt(s, l - 16) = [size |-> fi.size, offset |-> fi.offset]
      BY <2>2, <2>5, <2>6, OffsetIs
    <3> QED BY <2>5, <3>1
  <2>8. OffsetAt(s, l - 8) = [size |-> m, offset |-> e + n]
    <3>1. OffsetAt(s, l - 8) = [size |-> ii.size, offset |-> ii.offset]
      BY <2>2, <2>5, <2>6, OffsetIs
    <3> QED BY <2>5, <3>1
  <2>9. Header(s) = footer
    <3>1. OffsetAt(s, l - 16) = fi /\ OffsetAt(s, l - 8) = ii
      BY ONLY <2>4, <2>7, <2>8
    <3>2. Header(s) = [filter |-> fi, index |-> ii]
      BY <2>2, <3>1, Zenon DEF Header
    <3> QED BY <2>3, <3>2
  <2>10. IndexBlocks(s, e + n, e + n + m) = index
    <3>1. index \in Seq(IndexEntry)
      BY DEF Inv, Typed
    <3>2. \A i \in 1..Len(index) : index[i].size \in Int32 /\ index[i].offset \in Int32
      <4> TAKE i \in 1..Len(index)
      <4> PICK x, y : x = index[i].size /\ y = index[i].offset
        OBVIOUS
      <4>1. index[i] \in IndexEntry
        BY <3>1, ElementOfSeq
      <4>2. x \in Nat /\ y \in Nat /\ x <= e /\ y <= e
        BY <4>1 DEF IndexEntry, Measured, Within
      <4>3. x <= l /\ y <= l
        <5>1. e \in Nat /\ l \in Nat /\ e <= l
          BY ONLY <2>2
        <5> QED BY ONLY <4>2, <5>1
      <4> QED BY <2>1, <4>2, <4>3
    <3>3. e + n \in Int
      BY <2>2
    <3>4. \A i \in 1..Len(index) : Holds(s, e + n + EntriesUpTo(index, i - 1), IndexBytes(index[i]))
      BY <2>2, <3>1, <3>3, IndexIs DEF IndexString
    <3>5. e + n \in Nat /\ e + n + m <= Len(s) /\ Len(s) \in Int32
      BY <2>1, <2>2
    <3>6. e + n + m = e + n + IndexSize(index)
      OBVIOUS
    <3> QED BY ONLY <2>2, <3>1, <3>2, <3>4, <3>5, <3>6, IndexParses
  <2>11. Parse(s) = [header |-> footer, index |-> index]
    <3>1. footer.index.offset = e + n /\ footer.index.size = m
      BY <2>5
    <3>2. Parse(s) = [header |-> Header(s),
                      index |-> IndexBlocks(s, Header(s).index.offset,
                                            Header(s).index.offset + Header(s).index.size)]
      BY Zenon DEF Parse
    <3> QED BY ONLY <2>9, <2>10, <3>1, <3>2, Zenon
  <2>12. StringAt(s, e, n) = FilterBytes(filter)
    <3> PICK w : w = FilterBytes(filter)
      OBVIOUS
    <3>1. w \in Seq(Int) /\ n = Len(w) /\ e + Len(w) <= Len(s) /\ Holds(s, e, w)
      BY <2>2
    <3>2. StringAt(s, e, Len(w)) = w
      BY ONLY <2>2, <3>1, StringIs
    <3> QED BY <3>1, <3>2
  <2>13. StringAt(s, footer.filter.offset, footer.filter.size) = FilterBytes(filter)
    BY <2>5, <2>12, Zenon
  <2> QED BY <2>1, <2>11, <2>13, Zenon
<1> QED BY <1>1, AlwaysMeasured, PTL

-----------------------------------------------------------------------------
(* Restart points. *)

\* A block lies inside the file.
LEMMA BlockInFile ==
  ASSUME Inv, Written, NEW i \in 1..Len(blocks)
  PROVE  /\ blocks[i] \in Blk /\ SizesBefore(blocks, i) \in Nat /\ blocks[i].size \in Nat
         /\ SizesBefore(blocks, i) + blocks[i].size <= Len(File) /\ Len(File) \in Nat
<1> PICK n, at : n = Len(blocks) /\ at = [k \in 0..n |-> SizesBefore(blocks, k + 1)]
  OBVIOUS
<1>1. blocks \in Seq(Blk) /\ n \in Nat
  BY DEF Inv, Typed
<1>2. \A k \in 1..n : blocks[k] \in Blk /\ blocks[k].size \in Nat
  <2>1. \A k \in 1..n : blocks[k] \in Blk
    BY <1>1, ElementOfSeq
  <2>2. \A b \in Blk : b.size \in Nat
    BY DEF Blk
  <2> QED BY <2>1, <2>2
<1>3. \A k \in 0..n : at[k] \in Nat /\ at[k] = SizesBefore(blocks, k + 1)
  <2>1. \A k \in 0..n : k + 1 \in 1..n + 1
    BY <1>1
  <2> QED BY <1>1, <2>1, SizesBeforeAre
<1>4. ASSUME NEW k \in 1..n
      PROVE  /\ at[k - 1] = SizesBefore(blocks, k) /\ at[k] = at[k - 1] + blocks[k].size
             /\ at[k - 1] \in Nat /\ at[k - 1] <= at[k]
  <2> PICK x, y, z : x = at[k - 1] /\ y = at[k] /\ z = blocks[k].size
    OBVIOUS
  <2>1. k - 1 \in 0..n /\ k \in 0..n /\ k - 1 + 1 = k
    BY <1>1
  <2>2. x = SizesBefore(blocks, k) /\ y = SizesBefore(blocks, k + 1) /\ x \in Nat /\ z \in Nat
    BY <1>2, <1>3, <2>1
  <2>3. SizesBefore(blocks, k + 1) = SizesBefore(blocks, k) + z
    BY <1>1, SizesBeforeAre
  <2>4. y = x + z /\ x <= y
    BY ONLY <2>2, <2>3
  <2> QED BY <2>2, <2>4
<1>5. at[i] <= at[n]
  <2>1. \A k \in 0..n : at[k] \in Nat
    BY <1>3
  <2>2. \A k \in 1..n : at[k - 1] <= at[k]
    BY <1>4
  <2>3. i \in 0..n
    BY <1>1
  <2> QED BY ONLY <1>1, <2>1, <2>2, <2>3, Ascends
<1>6. at[n] = EndOf(blocks)
  <2>1. n \in 0..n
    BY <1>1
  <2> QED BY <1>3, <2>1 DEF EndOf
<1>7. EndOf(blocks) <= Len(File) /\ Len(File) \in Nat
  <2> PICK e, b, m, l : /\ e = EndOf(blocks) /\ b = BlockSize(filter) /\ m = IndexSize(index)
                        /\ l = Len(File)
    OBVIOUS
  <2>1. e \in Nat /\ b \in Nat /\ m \in Nat /\ l = e + b + m + 16
    BY DEF Written
  <2>2. e <= l /\ l \in Nat
    BY ONLY <2>1
  <2> QED BY <2>2
<1>8. SizesBefore(blocks, i) + blocks[i].size <= Len(File)
  <2> PICK x, y, z, e, l : /\ x = at[i - 1] /\ y = at[i] /\ z = blocks[i].size
                           /\ e = at[n] /\ l = Len(File)
    OBVIOUS
  <2>1. n \in 0..n
    BY <1>1
  <2>2. x = SizesBefore(blocks, i) /\ y = x + z /\ x \in Nat /\ z \in Nat /\ e \in Nat
    BY <1>2, <1>3, <1>4, <2>1
  <2>3. y <= e /\ e <= l /\ l \in Nat
    BY <1>5, <1>6, <1>7
  <2>4. x + z <= l
    BY ONLY <2>2, <2>3
  <2> QED BY <2>2, <2>4
<1> QED BY <1>2, <1>4, <1>7, <1>8

\* What a restart point says: the place of a record with a whole key, how much of
\* the block is its group's, and a number that is no more than the interval.
LEMMA RestartIs ==
  ASSUME NEW rs, NEW gs, NEW es, NEW at, NEW n \in Int, Codes(rs, es), Restarts(rs, gs, es, at),
         NEW j \in 1..Len(gs), NEW rg, rg = Restart(rs, gs, n, j)
  PROVE  /\ at[j] \in 1..Len(rs) /\ rs[at[j]] \in Rec /\ rg.offset = SizeUpTo(rs, at[j] - 1)
         /\ rs[at[j]].shared = 0 /\ rs[at[j]].rest = es[at[j]].key
         /\ rg.num \in Nat /\ rg.num <= RESTART_INTERVAL
         /\ rg.offset \in Nat /\ rg.size \in Nat /\ rg.size <= DataSize(rs) /\ DataSize(rs) \in Nat
         /\ rg.offset + RecSize(rs[at[j]]) <= DataSize(rs)
<1> PICK a, k, m, d, g : a = at[j] /\ k = Len(gs) /\ m = Len(rs) /\ d = DataSize(rs) /\ g = gs[j]
  OBVIOUS
<1>1. /\ rs \in Seq(Rec) /\ gs \in Seq(Nat) /\ k \in Nat /\ m \in Nat
      /\ a \in 1..m /\ g = SizeUpTo(rs, a - 1) /\ rs[a].shared = 0 /\ rs[a].rest = es[a].key
  BY DEF Codes, Restarts
<1>2. rs[a] \in Rec
  BY <1>1, ElementOfSeq
<1>3. a - 1 \in 0..m /\ a \in 0..m /\ m \in 0..m /\ a - 1 \in 0..a - 1 /\ a - 1 \in 0..Len(rs) - 1
  BY <1>1
<1>4. d \in Nat /\ g \in Nat /\ SizeUpTo(rs, m) = d
  BY <1>1, <1>3, SizesGrow
<1>5. ASSUME NEW i \in 0..m PROVE SizeUpTo(rs, i) \in Nat /\ SizeUpTo(rs, i) <= d
  <2>1. SizeUpTo(rs, i) \in Nat
    BY <1>1, SizesGrow
  <2>2. CASE i = m
    BY <1>4, <2>1, <2>2
  <2>3. CASE i # m
    <3>1. i \in 0..m - 1
      BY <1>1, <2>3
    <3>2. SizeUpTo(rs, i) < SizeUpTo(rs, m)
      BY <1>1, <1>3, <3>1, SizesGrow
    <3> QED BY <1>4, <2>1, <3>2
  <2> QED BY <2>2, <2>3
<1>6. g + RecSize(rs[a]) <= d
  <2>0. a - 1 + 1 = a
    BY <1>1
  <2>1. SubSeq(rs, 1, a) = Append(SubSeq(rs, 1, a - 1), rs[a])
    BY ONLY <1>1, <1>3, <2>0, OneMoreRecord
  <2>2. SubSeq(rs, 1, a - 1) \in Seq(Rec)
    BY <1>1, <1>3, BeginOf
  <2>3. SizeUpTo(rs, a) = SizeUpTo(rs, a - 1) + RecSize(rs[a])
    BY <1>2, <2>1, <2>2, SizeOfAppend DEF SizeUpTo
  <2>4. SizeUpTo(rs, a) <= d
    BY <1>3, <1>5
  <2> QED BY <1>1, <2>3, <2>4
<1>7. rg.num \in Nat /\ rg.num <= RESTART_INTERVAL
  <2> PICK r : r = RESTART_INTERVAL
    OBVIOUS
  <2>1. r \in Nat \ {0}
    BY SizeAssumption
  <2>2. n % r \in Nat /\ n % r < r
    BY <2>1
  <2>3. rg.num = r \/ rg.num = n % r
    BY DEF Restart
  <2> QED BY ONLY <2>1, <2>2, <2>3, r = RESTART_INTERVAL
<1>8. rg.offset = g /\ rg.size \in Nat /\ rg.size <= d
  <2>1. CASE j < k
    <3> PICK h : h = gs[j + 1]
      OBVIOUS
    <3>1. rg.offset = g /\ rg.size = h - g
      BY <2>1 DEF Restart
    <3>2. j \in 1..k - 1 /\ j + 1 \in 1..k
      BY <1>1, <2>1
    <3> PICK b : b = at[j + 1]
      OBVIOUS
    <3>3. a < b /\ b \in 1..m /\ h = SizeUpTo(rs, b - 1)
      BY <3>2 DEF Restarts
    <3>4. b - 1 \in 0..m /\ a - 1 \in 0..(b - 1) - 1
      BY ONLY <1>1, <3>3
    <3>5. g < h
      BY <1>1, <3>3, <3>4, SizesGrow
    <3>6. h \in Nat /\ h <= d
      BY <1>5, <3>3, <3>4
    <3>7. h - g \in Nat /\ h - g <= d
      BY ONLY <1>4, <3>5, <3>6
    <3> QED BY <3>1, <3>7
  <2>2. CASE ~(j < k)
    <3>1. rg.offset = g /\ rg.size = d - g
      BY <2>2 DEF Restart
    <3>2. g <= d
      BY <1>1, <1>3, <1>5
    <3>3. d - g \in Nat /\ d - g <= d
      BY ONLY <1>4, <3>2
    <3> QED BY <3>1, <3>3
  <2> QED BY <2>1, <2>2
<1>9. rg.offset \in Nat /\ rg.offset + RecSize(rs[a]) <= d
  BY <1>4, <1>6, <1>8
<1> QED BY <1>1, <1>2, <1>4, <1>7, <1>8, <1>9

\* A group begins with the key that its restart point is for.
LEMMA GroupBegins ==
  ASSUME NEW rs, NEW gs, NEW es, NEW at, NEW n, Codes(rs, es), Restarts(rs, gs, es, at),
         NEW j \in 1..Len(gs)
  PROVE  Head(ReadGroup(Block(rs, gs, n), Block(rs, gs, n).restarts[j])) = es[at[j]]
<1> PICK a, b, m, E : a = at[j] /\ b = Ends(rs, at)[j] /\ m = Len(es) /\ E = Entry
  OBVIOUS
<1>1. es \in Seq(E) /\ m = Len(rs) /\ m \in Nat
  BY DEF Codes
<1>2. Ends(rs, at)[j - 1] + 1 = a /\ Ends(rs, at)[j - 1] < b
  BY EndsAre
<1>3. Ends(rs, at) \in [0..Len(gs) -> 0..m] /\ Len(gs) \in Nat
  <2>1. Len(gs) \in Nat
    BY DEF Restarts
  <2> QED BY <1>1, <2>1, EndsAre
<1>4. j \in 0..Len(gs) /\ j - 1 \in 0..Len(gs)
  BY <1>3
<1>5. b \in 0..m /\ Ends(rs, at)[j - 1] \in 0..m
  BY ONLY <1>3, <1>4, b = Ends(rs, at)[j]
<1>6. a \in 1..m /\ a <= b
  <2> PICK x : x = Ends(rs, at)[j - 1]
    OBVIOUS
  <2>1. x + 1 = a /\ x < b /\ b \in 0..m /\ x \in 0..m
    BY <1>2, <1>5
  <2> QED BY ONLY <1>1, <2>1
<1>7. ReadGroup(Block(rs, gs, n), Block(rs, gs, n).restarts[j]) = SubSeq(es, a, b)
  <2>1. ReadGroup(Block(rs, gs, n), Block(rs, gs, n).restarts[j])
          = SubSeq(es, Ends(rs, at)[j - 1] + 1, Ends(rs, at)[j])
    BY GroupIs
  <2> QED BY <1>2, <2>1
<1>8. Head(SubSeq(es, a, b)) = es[a]
  <2>1. m = Len(es)
    OBVIOUS
  <2> QED BY ONLY <1>1, <1>5, <1>6, <2>1
<1> QED BY <1>7, <1>8

\* The restart points in the file's bytes lead FindFullKeyByRP to the key their
\* group begins with, unless they count no records: at the place behind the
\* block's records where the builder put them, at the offset they give into them,
\* for any restart interval that is an int32_t and any number and length of keys.
THEOREM RestartsAreFound == Spec => []RestartsLeadToKeys
<1>1. Inv /\ Measured => RestartsLeadToKeys
  <2> SUFFICES ASSUME Inv, Measured, Legible, NEW i \in DOMAIN blocks, NEW j \in DOMAIN blocks[i].restarts,
                      NEW p, p = Start(i) + DataSize(blocks[i].recs) + 12 * (j - 1),
                      Word(ReadAll(File), p) # 0
               PROVE  FindFullKeyByRP(ReadAll(File), Start(i), Word(ReadAll(File), p),
                                      OffsetAt(ReadAll(File), p + 4))
                        = Head(ReadGroup(blocks[i], blocks[i].restarts[j])).key
    BY Zenon DEF RestartsLeadToKeys
  <2> PICK s, l, b, start : s = File /\ l = Len(File) /\ b = blocks[i] /\ start = Start(i)
    OBVIOUS
  <2>1. i \in 1..Len(blocks) /\ WellMade(b)
    <3>1. blocks \in Seq(Blk)
      BY DEF Inv, Typed
    <3>2. i \in 1..Len(blocks)
      BY <3>1
    <3> QED BY <3>2 DEF Measured
  <2>2. /\ Written /\ ReadAll(File) = s /\ \A x \in Nat : x <= l => x \in Int32
    BY LegibleIs
  <2>3. start = SizesBefore(blocks, i)
    BY Zenon DEF Start, SizesBefore
  <2>4. /\ s \in Seq(Int) /\ l = Len(s) /\ l \in Nat /\ Holds(s, start, BlockBytes(b)) /\ b \in Blk
        /\ start \in Nat /\ b.size \in Nat /\ start + b.size <= l
    <3>1. s \in Seq(Int) /\ Holds(s, start, BlockBytes(b))
      BY <2>1, <2>2, <2>3 DEF Written
    <3>2. /\ b \in Blk /\ start \in Nat /\ b.size \in Nat /\ start + b.size <= l /\ l \in Nat
      BY <2>1, <2>2, <2>3, BlockInFile
    <3> QED BY <3>1, <3>2
  <2>5. PICK rs, gs, es, at : \E n \in Int :
          /\ b = Block(rs, gs, n) /\ Codes(rs, es) /\ Restarts(rs, gs, es, at)
          /\ \A q \in 1..Len(es) : es[q].key # <<>>
    BY <2>1 DEF WellMade
  <2>6. PICK n \in Int : /\ b = Block(rs, gs, n) /\ Codes(rs, es) /\ Restarts(rs, gs, es, at)
                         /\ \A q \in 1..Len(es) : es[q].key # <<>>
    BY <2>5
  <2>7. /\ b.recs = rs /\ b.restarts = [q \in 1..Len(gs) |-> Restart(rs, gs, n, q)]
        /\ b.size = DataSize(rs) + 12 * Len(gs) + 4 /\ Len(gs) \in Nat
    BY <2>6 DEF Block, Restarts
  <2>8. j \in 1..Len(gs) /\ Len(b.restarts) = Len(gs)
    BY <2>7
  <2> PICK rg, a, d, r, k : /\ rg = Restart(rs, gs, n, j) /\ a = at[j] /\ d = DataSize(rs) /\ r = rs[a]
                            /\ k = r.rest
    OBVIOUS
  <2>9. b.restarts[j] = rg
    BY <2>7, <2>8
  <2>10. /\ a \in 1..Len(rs) /\ r \in Rec /\ rg.offset = SizeUpTo(rs, a - 1)
         /\ r.shared = 0 /\ k = es[a].key
         /\ rg.num \in Nat /\ rg.num <= RESTART_INTERVAL
         /\ rg.offset \in Nat /\ rg.size \in Nat /\ rg.size <= d /\ d \in Nat
         /\ rg.offset + RecSize(r) <= d
    <3>1. n \in Int /\ j \in 1..Len(gs) /\ Codes(rs, es) /\ Restarts(rs, gs, es, at)
      BY <2>6, <2>8
    <3>2. /\ at[j] \in 1..Len(rs) /\ rs[at[j]] \in Rec /\ Restart(rs, gs, n, j).offset = SizeUpTo(rs, at[j] - 1)
          /\ rs[at[j]].shared = 0 /\ rs[at[j]].rest = es[at[j]].key
          /\ Restart(rs, gs, n, j).num \in Nat /\ Restart(rs, gs, n, j).num <= RESTART_INTERVAL
          /\ Restart(rs, gs, n, j).offset \in Nat /\ Restart(rs, gs, n, j).size \in Nat
          /\ Restart(rs, gs, n, j).size <= DataSize(rs) /\ DataSize(rs) \in Nat
          /\ Restart(rs, gs, n, j).offset + RecSize(rs[at[j]]) <= DataSize(rs)
      BY ONLY <3>1, RestartIs
    <3> QED BY ONLY <3>2, rg = Restart(rs, gs, n, j), a = at[j], d = DataSize(rs), r = rs[a], k = r.rest, Zenon
  <2>11. k \in Seq(Int) /\ k \in Seq(Octets) /\ Len(k) \in Nat /\ Len(k) > 0 /\ 12 + Len(k) <= RecSize(r)
         /\ RecSize(r) \in Nat
    <3>1. r.rest \in Text /\ r.val \in ValLens
      BY <2>10 DEF Rec
    <3>2. k \in Seq(Octets) /\ k \in Seq(Int) /\ r.val \in Nat
      BY <3>1, TextsAreOctets, OctetsAreInts, SizeAssumption
    <3>3. k # <<>>
      <4>1. Len(es) = Len(rs)
        BY <2>6 DEF Codes
      <4> QED BY <2>6, <2>10, <4>1
    <3> PICK O : O = Octets
      OBVIOUS
    <3>4. Len(k) \in Nat /\ Len(k) > 0
      <4>1. k \in Seq(O) /\ k # <<>>
        BY <3>2, <3>3
      <4> QED BY ONLY <4>1
    <3>5. RecSize(r) = 12 + Len(k) + r.val
      BY DEF RecSize
    <3>6. 12 + Len(k) <= RecSize(r) /\ RecSize(r) \in Nat
      BY ONLY <3>2, <3>4, <3>5
    <3> QED BY <3>2, <3>4, <3>6
  <2>12. p = start + d + 12 * (j - 1) /\ p \in Int
    <3>1. p = start + d + 12 * (j - 1)
      BY <2>7, Zenon
    <3>2. j \in Int
      BY <2>8
    <3> QED BY ONLY <2>4, <2>10, <3>1, <3>2
  <2>13. /\ Holds(s, p, Fixed32(rg.num)) /\ Holds(s, p + 4, OffsetBytes(rg))
         /\ Holds(s, start + rg.offset, RecordBytes(r))
    <3>1. start \in Int
      BY <2>4
    <3>2. /\ \A q \in 1..Len(b.recs) : Holds(s, start + SizeUpTo(b.recs, q - 1), RecordBytes(b.recs[q]))
          /\ \A q \in 1..Len(b.restarts) :
               /\ Holds(s, start + DataSize(b.recs) + 12 * (q - 1), Fixed32(b.restarts[q].num))
               /\ Holds(s, start + DataSize(b.recs) + 12 * (q - 1) + 4, OffsetBytes(b.restarts[q]))
      BY ONLY <2>4, <3>1, BlockBytesAre
    <3>3. Holds(s, start + SizeUpTo(rs, a - 1), RecordBytes(r))
      BY <2>7, <2>10, <3>2
    <3>4. /\ Holds(s, start + d + 12 * (j - 1), Fixed32(rg.num))
          /\ Holds(s, start + d + 12 * (j - 1) + 4, OffsetBytes(rg))
      BY <2>7, <2>8, <2>9, <3>2
    <3> QED BY <2>10, <2>12, <3>3, <3>4
  <2>14. Word(s, p) = rg.num
    <3>1. rg.num \in Int32
      <4>1. RESTART_INTERVAL \in Nat
        BY SizeAssumption
      <4> PICK x, y : x = rg.num /\ y = RESTART_INTERVAL
        OBVIOUS
      <4>2. x \in Nat /\ x <= y /\ y \in Nat
        BY <2>10, <4>1
      <4>3. y <= 2147483647
        BY IntervalIsInt32, SMT
      <4>4. x \in Int32
        BY ONLY <4>2, <4>3, SMT DEF Int32
      <4> QED BY <4>4
    <3> QED BY ONLY <2>12, <2>13, <3>1, WordIs
  <2>15. d <= b.size
    <3> PICK m : m = Len(gs)
      OBVIOUS
    <3>1. b.size = d + 12 * m + 4 /\ m \in Nat
      BY <2>7
    <3> QED BY ONLY <2>10, <3>1
  <2>16. /\ start + rg.offset \in Nat /\ start + rg.offset + 12 + Len(k) <= l
         /\ start + rg.offset + 12 <= l /\ rg.offset <= l /\ rg.size <= l /\ Len(k) <= l
    <3> PICK o, z, y, v, c : /\ o = rg.offset /\ z = rg.size /\ y = Len(k) /\ v = RecSize(r)
                             /\ c = b.size
      OBVIOUS
    <3>1. /\ start \in Nat /\ o \in Nat /\ z \in Nat /\ y \in Nat /\ v \in Nat /\ c \in Nat /\ d \in Nat
          /\ l \in Nat /\ start + c <= l /\ d <= c /\ z <= d /\ o + v <= d /\ 12 + y <= v
      BY <2>4, <2>10, <2>11, <2>15
    <3>2. /\ start + o \in Nat /\ start + o + 12 + y <= l
          /\ start + o + 12 <= l /\ o <= l /\ z <= l /\ y <= l
      BY ONLY <3>1
    <3> QED BY <3>2
  <2>17. OffsetAt(s, p + 4) = [size |-> rg.size, offset |-> rg.offset]
    <3>1. rg.size \in Int32 /\ rg.offset \in Int32
      BY <2>2, <2>10, <2>16
    <3>2. p + 4 \in Int
      BY <2>12
    <3> QED BY ONLY <2>13, <3>1, <3>2, OffsetIs
  <2>18. OffsetAt(s, p + 4).offset = rg.offset
    <3>1. PICK o : o = OffsetAt(s, p + 4)
      OBVIOUS
    <3>2. o = [size |-> rg.size, offset |-> rg.offset]
      BY <2>17, <3>1
    <3>3. o.offset = rg.offset
      BY ONLY <3>2
    <3> QED BY <3>1, <3>3
  <2>19. PICK q : q = start + rg.offset
    OBVIOUS
  <2>20. /\ Word(s, q) = 0 /\ Word(s, q + 4) = Len(k) /\ StringAt(s, q + 12, Len(k)) = k
         /\ Readable(s, q, 12) /\ Readable(s, q + 12, Len(k))
    <3>1. q \in Nat /\ q \in Int /\ q + 4 \in Int /\ q + 12 \in Nat /\ q + 12 + Len(k) <= l /\ q + 12 <= l
      BY <2>16, <2>19
    <3>2. Holds(s, q, Fixed32(0)) /\ Holds(s, q + 4, Fixed32(Len(k))) /\ Holds(s, q + 12, k)
      <4>1. Holds(s, q, RecordBytes(r))
        BY <2>13, <2>19
      <4>2. /\ Holds(s, q, Fixed32(r.shared)) /\ Holds(s, q + 4, Fixed32(Len(r.rest)))
            /\ Holds(s, q + 12, r.rest)
        BY ONLY <2>10, <3>1, <4>1, RecordBytesAre
      <4> QED BY <2>10, <4>2
    <3>3. 0 \in Int32 /\ Len(k) \in Int32
      <4>1. 0 <= l /\ 0 \in Nat
        BY <2>4
      <4> QED BY <2>2, <2>11, <2>16, <4>1
    <3>4. Word(s, q) = 0 /\ Word(s, q + 4) = Len(k)
      BY ONLY <3>1, <3>2, <3>3, WordIs
    <3>5. StringAt(s, q + 12, Len(k)) = k
      <4>1. q + 12 + Len(k) <= Len(s)
        BY <2>4, <3>1
      <4> QED BY ONLY <2>4, <2>11, <3>1, <3>2, <4>1, StringIs
    <3>6. Readable(s, q, 12) /\ Readable(s, q + 12, Len(k))
      <4> PICK y : y = Len(k)
        OBVIOUS
      <4>1. q \in Nat /\ y \in Nat /\ l = Len(s) /\ l \in Nat /\ q + 12 + y <= l /\ q + 12 <= l
        BY <2>4, <2>11, <3>1
      <4>2. Readable(s, q, 12) /\ Readable(s, q + 12, y)
        BY ONLY <4>1 DEF Readable
      <4> QED BY <4>2
    <3> QED BY <3>4, <3>5, <3>6
  <2>21. ~(Word(s, p) <= 0) /\ ~(Word(s, q + 4) <= 0)
    <3>1. rg.num # 0
      BY <2>2, <2>14
    <3> PICK x, y : x = rg.num /\ y = Len(k)
      OBVIOUS
    <3>2. x \in Nat /\ x # 0 /\ y \in Nat /\ y > 0
      BY <2>10, <2>11, <3>1
    <3>3. ~(x <= 0) /\ ~(y <= 0)
      BY ONLY <3>2
    <3>4. Word(s, p) = x /\ Word(s, q + 4) = y
      BY <2>14, <2>20
    <3> QED BY <3>3, <3>4, Zenon
  <2>22. FindFullKeyByRP(s, start, Word(s, p), OffsetAt(s, p + 4)) = k
    <3> PICK num, og : num = Word(s, p) /\ og = OffsetAt(s, p + 4)
      OBVIOUS
    <3>1. start + og.offset = q /\ ~(num <= 0)
      BY <2>18, <2>19, <2>21
    <3>2. /\ ~(num <= 0) /\ Readable(s, q, 12) /\ Word(s, q) = 0 /\ ~(Word(s, q + 4) <= 0)
          /\ Readable(s, q + 12, Word(s, q + 4)) /\ StringAt(s, q + 12, Word(s, q + 4)) = k
      BY <2>20, <2>21, <3>1
    <3>3. FindFullKeyByRP(s, start, num, og) = k
      BY ONLY <3>1, <3>2, Zenon DEF FindFullKeyByRP
    <3> QED BY <3>3
  <2>23. Head(ReadGroup(b, b.restarts[j])) = es[a]
    <3>1. Head(ReadGroup(Block(rs, gs, n), Block(rs, gs, n).restarts[j])) = es[at[j]]
      BY ONLY <2>6, <2>8, GroupBegins
    <3> QED BY <2>6, <3>1, Zenon
  <2> QED BY <2>2, <2>10, <2>22, <2>23, Zenon
<1> QED BY <1>1, AlwaysMeasured, PTL

=============================================================================

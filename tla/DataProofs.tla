----------------------------- MODULE DataProofs -----------------------------
(***************************************************************************)
(* Facts about lists of keys, walks along links and sums, for every list,  *)
(* set and function: what recursive functions and folds of the models      *)
(* compute follows from the least number, or set, that would disagree.     *)
(***************************************************************************)
EXTENDS LRUList, FiniteSets, Functions, SequenceTheorems, FiniteSetTheorems,
        WellFoundedInduction, TLAPS

-----------------------------------------------------------------------------
(* The list of an LRU shard. *)

\* The place of a listed key is where the list holds it.
LEMMA PlaceIsAPlace ==
  ASSUME NEW S, NEW l \in Seq(S), NEW k, Listed(l, k)
  PROVE  Place(l, k) \in 1..Len(l) /\ l[Place(l, k)] = k
BY DEF Listed, Place

\* Taking out the i-th element: the rest, in order.
LEMMA CutProps ==
  ASSUME NEW S, NEW l \in Seq(S), NEW i \in 1..Len(l)
  PROVE  LET m == SubSeq(l, 1, i - 1) \o SubSeq(l, i + 1, Len(l))
         IN  /\ m \in Seq(S)
             /\ Len(m) = Len(l) - 1
             /\ \A j \in 1..Len(m) : m[j] = IF j < i THEN l[j] ELSE l[j + 1]
<1> DEFINE a == SubSeq(l, 1, i - 1)
           b == SubSeq(l, i + 1, Len(l))
<1>1. a \in Seq(S) /\ Len(a) = i - 1 /\ \A j \in 1..(i - 1) : a[j] = l[j]
  OBVIOUS
<1>2. b \in Seq(S) /\ Len(b) = Len(l) - i /\ \A j \in 1..(Len(l) - i) : b[j] = l[i + j]
  OBVIOUS
<1> HIDE DEF a, b
<1>3. a \o b \in Seq(S) /\ Len(a \o b) = Len(l) - 1
  <2>1. a \o b \in Seq(S) /\ Len(a \o b) = Len(a) + Len(b)
    BY <1>1, <1>2, ConcatProperties
  <2>2. (i - 1) + (Len(l) - i) = Len(l) - 1
    OBVIOUS
  <2> QED BY <1>1, <1>2, <2>1, <2>2
<1>4. ASSUME NEW j \in 1..(Len(l) - 1)
      PROVE  (a \o b)[j] = IF j < i THEN l[j] ELSE l[j + 1]
  <2>1. CASE j < i
    <3>1. (a \o b)[j] = a[j]
      BY <1>1, <1>2, <2>1
    <3> QED BY <1>1, <2>1, <3>1
  <2>2. CASE ~(j < i)
    <3>1. (a \o b)[j] = b[j - (i - 1)]
      BY <1>1, <1>2, <2>2
    <3>2. j - (i - 1) \in 1..(Len(l) - i) /\ i + (j - (i - 1)) = j + 1
      BY <2>2
    <3> QED BY <1>2, <2>2, <3>1, <3>2
  <2> QED BY <2>1, <2>2
<1> QED BY <1>3, <1>4 DEF a, b

\* Unlink takes out the one node of a listed key and nothing else.
THEOREM UnlinkProps ==
  ASSUME NEW S, NEW l \in Seq(S), NEW k, Listed(l, k), Distinct(l)
  PROVE  /\ Unlink(l, k) \in Seq(S)
         /\ Len(Unlink(l, k)) = Len(l) - 1
         /\ Distinct(Unlink(l, k))
         /\ \A x : Listed(Unlink(l, k), x) <=> Listed(l, x) /\ x # k
<1> DEFINE i == Place(l, k)
           m == Unlink(l, k)
<1>1. i \in 1..Len(l) /\ l[i] = k
  BY PlaceIsAPlace
<1> HIDE DEF i
<1>2. /\ m \in Seq(S)
      /\ Len(m) = Len(l) - 1
      /\ \A j \in 1..Len(m) : m[j] = IF j < i THEN l[j] ELSE l[j + 1]
  BY <1>1, CutProps DEF Unlink, i
<1> HIDE DEF m
<1>3. DOMAIN l = 1..Len(l) /\ DOMAIN m = 1..Len(m) /\ Len(l) \in Nat
  BY <1>2
<1>4. Distinct(m)
  <2> SUFFICES ASSUME NEW p \in 1..Len(m), NEW q \in 1..Len(m), m[p] = m[q], p # q
               PROVE  FALSE
    BY <1>3 DEF Distinct
  <2> DEFINE up(n) == IF n < i THEN n ELSE n + 1
  <2>1. up(p) \in 1..Len(l) /\ up(q) \in 1..Len(l) /\ up(p) # up(q)
    BY <1>1, <1>2, <1>3
  <2>2. m[p] = l[up(p)] /\ m[q] = l[up(q)]
    BY <1>2
  <2> QED BY <2>1, <2>2, <1>3 DEF Distinct
<1>5. ASSUME NEW x, Listed(m, x)
      PROVE  Listed(l, x) /\ x # k
  <2>1. PICK j \in 1..Len(m) : m[j] = x
    BY <1>3, <1>5 DEF Listed
  <2> DEFINE n == IF j < i THEN j ELSE j + 1
  <2>2. n \in 1..Len(l) /\ n # i /\ l[n] = x
    BY <1>1, <1>2, <1>3, <2>1
  <2> QED BY <1>1, <1>3, <2>2 DEF Listed, Distinct
<1>6. ASSUME NEW x, Listed(l, x), x # k
      PROVE  Listed(m, x)
  <2>1. PICK n \in 1..Len(l) : l[n] = x
    BY <1>3, <1>6 DEF Listed
  <2> DEFINE j == IF n < i THEN n ELSE n - 1
  <2>2. n # i
    BY <1>1, <1>6, <2>1
  <2>3. j \in 1..Len(m) /\ m[j] = l[n]
    BY <1>1, <1>2, <1>3, <2>2
  <2> QED BY <1>3, <2>1, <2>3 DEF Listed
<1> QED BY <1>2, <1>4, <1>5, <1>6 DEF m

\* Putting a new key in front.
THEOREM PushFrontProps ==
  ASSUME NEW S, NEW l \in Seq(S), NEW k \in S, ~Listed(l, k), Distinct(l)
  PROVE  /\ PushFront(l, k) \in Seq(S)
         /\ Len(PushFront(l, k)) = Len(l) + 1
         /\ Distinct(PushFront(l, k))
         /\ \A x : Listed(PushFront(l, k), x) <=> Listed(l, x) \/ x = k
<1> DEFINE m == PushFront(l, k)
<1>1. /\ m \in Seq(S)
      /\ Len(m) = Len(l) + 1
      /\ m[1] = k
      /\ \A j \in 1..Len(l) : m[j + 1] = l[j]
  <2>1. <<k>> \in Seq(S) /\ Len(<<k>>) = 1 /\ <<k>>[1] = k
    OBVIOUS
  <2> QED BY <2>1 DEF PushFront
<1> HIDE DEF m
<1>2. DOMAIN l = 1..Len(l) /\ DOMAIN m = 1..Len(m) /\ Len(l) \in Nat
  BY <1>1
<1>3. \A j \in 1..Len(m) : j # 1 => j - 1 \in 1..Len(l) /\ m[j] = l[j - 1]
  BY <1>1, <1>2
<1>4. \A j \in 1..Len(l) : l[j] # k
  BY <1>2 DEF Listed
<1>5. Distinct(m)
  <2> SUFFICES ASSUME NEW p \in 1..Len(m), NEW q \in 1..Len(m), m[p] = m[q]
               PROVE  p = q
    BY <1>2 DEF Distinct
  <2>1. CASE p = 1 \/ q = 1
    BY <1>1, <1>3, <1>4, <2>1
  <2>2. CASE p # 1 /\ q # 1
    <3>1. /\ p - 1 \in 1..Len(l) /\ q - 1 \in 1..Len(l)
          /\ l[p - 1] = l[q - 1]
      BY <1>3, <2>2
    <3>2. p - 1 = q - 1
      BY <1>2, <3>1 DEF Distinct
    <3> QED BY <1>1, <1>2, <3>2
  <2> QED BY <2>1, <2>2
<1>6. ASSUME NEW x
      PROVE  Listed(m, x) <=> Listed(l, x) \/ x = k
  <2>1. Listed(m, x) => Listed(l, x) \/ x = k
    BY <1>1, <1>2, <1>3, SMTT(30) DEF Listed
  <2>2. Listed(l, x) => Listed(m, x)
    <3> SUFFICES ASSUME NEW n \in 1..Len(l), l[n] = x
                 PROVE  Listed(m, x)
      BY <1>2 DEF Listed
    <3>1. n + 1 \in 1..Len(m) /\ m[n + 1] = x
      BY <1>1, <1>2
    <3> QED BY <1>2, <3>1 DEF Listed
  <2>3. x = k => Listed(m, x)
    BY <1>1, <1>2 DEF Listed
  <2> QED BY <2>1, <2>2, <2>3
<1> QED BY <1>1, <1>5, <1>6 DEF m

\* Moving a listed key to the front changes the order and nothing else.
THEOREM TouchProps ==
  ASSUME NEW S, NEW l \in Seq(S), NEW k \in S, Listed(l, k), Distinct(l)
  PROVE  /\ Touch(l, k) \in Seq(S)
         /\ Len(Touch(l, k)) = Len(l)
         /\ Distinct(Touch(l, k))
         /\ \A x : Listed(Touch(l, k), x) <=> Listed(l, x)
<1>1. Touch(l, k) = PushFront(Unlink(l, k), k)
  BY DEF Touch, PushFront
<1>2. /\ Unlink(l, k) \in Seq(S)
      /\ Len(Unlink(l, k)) = Len(l) - 1
      /\ Distinct(Unlink(l, k))
      /\ \A x : Listed(Unlink(l, k), x) <=> Listed(l, x) /\ x # k
  BY UnlinkProps
<1>3. ~Listed(Unlink(l, k), k)
  BY <1>2
<1> DEFINE u == Unlink(l, k)
<1> HIDE DEF u
<1>4. /\ PushFront(u, k) \in Seq(S)
      /\ Len(PushFront(u, k)) = Len(u) + 1
      /\ Distinct(PushFront(u, k))
      /\ \A x : Listed(PushFront(u, k), x) <=> Listed(u, x) \/ x = k
  BY <1>2, <1>3, PushFrontProps DEF u
<1>5. Len(l) \in Nat
  OBVIOUS
<1> QED BY <1>1, <1>2, <1>4, <1>5 DEF u

\* Evicting the oldest key.
THEOREM DropOldestProps ==
  ASSUME NEW S, NEW l \in Seq(S), Len(l) > 0, Distinct(l)
  PROVE  /\ DropOldest(l) \in Seq(S)
         /\ Len(DropOldest(l)) = Len(l) - 1
         /\ Oldest(l) \in S
         /\ Listed(l, Oldest(l))
         /\ Distinct(DropOldest(l))
         /\ \A x : Listed(DropOldest(l), x) <=> Listed(l, x) /\ x # Oldest(l)
<1> DEFINE m == DropOldest(l)
<1>1. /\ m \in Seq(S) /\ Len(m) = Len(l) - 1
      /\ \A j \in 1..Len(m) : m[j] = l[j]
  <2> DEFINE n == Len(l) - 1
  <2>1. n \in 0..Len(l)
    OBVIOUS
  <2>2. /\ SubSeq(l, 1, n) \in Seq(S) /\ Len(SubSeq(l, 1, n)) = n
        /\ \A j \in 1..n : SubSeq(l, 1, n)[j] = l[j]
    <3> HIDE DEF n
    <3> QED BY <2>1
  <2> QED BY <2>2 DEF DropOldest
<1> HIDE DEF m
<1>2. DOMAIN l = 1..Len(l) /\ DOMAIN m = 1..Len(m) /\ Len(l) \in Nat
  BY <1>1
<1>3. Oldest(l) = l[Len(l)] /\ Len(l) \in 1..Len(l) /\ Oldest(l) \in S
  BY <1>2 DEF Oldest
<1>4. \A j \in 1..Len(l) : j # Len(l) => j \in 1..Len(m)
  BY <1>1, <1>2
<1>5. Distinct(m)
  BY <1>1, <1>2 DEF Distinct
<1>6. ASSUME NEW x
      PROVE  Listed(m, x) <=> Listed(l, x) /\ x # Oldest(l)
  <2>1. ASSUME NEW j \in 1..Len(m), m[j] = x
        PROVE  Listed(l, x) /\ x # Oldest(l)
    <3>1. j \in 1..Len(l) /\ j # Len(l) /\ l[j] = x
      BY <1>1, <1>2, <2>1
    <3> QED BY <1>2, <1>3, <3>1 DEF Listed, Distinct
  <2>2. ASSUME NEW j \in 1..Len(l), l[j] = x, x # Oldest(l)
        PROVE  Listed(m, x)
    <3>1. j # Len(l)
      BY <1>3, <2>2
    <3>2. j \in 1..Len(m) /\ m[j] = x
      BY <1>1, <1>4, <2>2, <3>1
    <3> QED BY <1>2, <3>2 DEF Listed
  <2> QED BY <1>2, <2>1, <2>2 DEF Listed
<1> QED BY <1>1, <1>2, <1>3, <1>5, <1>6 DEF m, Listed

-----------------------------------------------------------------------------
(* Induction over numbers, as facts about sets of numbers. *)

\* A set of numbers has a least one.
LEMMA HasLeast ==
  ASSUME NEW T, T \subseteq Nat, T # {}
  PROVE  \E m \in T : \A n \in T : m <= n
<1> DEFINE R == {p \in Nat \X Nat : p[1] < p[2]}
<1>1. IsWellFoundedOn(R, Nat)
  BY NatLessThanWellFounded, Zenon DEF OpToRel
<1>2. \A x, y \in Nat : x < y => <<x, y>> \in R
  OBVIOUS
<1> HIDE DEF R
<1>3. PICK m \in T : \A n \in T : ~ (<<n, m>> \in R)
  BY <1>1, WFMin
<1>4. \A n \in T : n \in Nat /\ m \in Nat /\ ~(n < m)
  BY <1>2, <1>3
<1> QED BY <1>4

\* A set of places in a sequence has a last one.
LEMMA HasGreatest ==
  ASSUME NEW n \in Nat, NEW T, T \subseteq 1..n, T # {}
  PROVE  \E m \in T : \A y \in T : m >= y
<1> DEFINE U == {n - x : x \in T}
<1>1. U \subseteq Nat /\ U # {}
  <2>1. \A x \in T : n - x \in Nat
    OBVIOUS
  <2> QED BY <2>1
<1> HIDE DEF U
<1>2. PICK m \in U : \A y \in U : m <= y
  BY <1>1, HasLeast
<1>3. n - m \in T /\ \A y \in T : n - m >= y
  BY <1>2 DEF U
<1> QED BY <1>3

\* What holds of 0, and of n + 1 when it holds of n, holds of every number.
LEMMA Induction ==
  ASSUME NEW T, 0 \in T, \A n \in Nat : n \in T => n + 1 \in T
  PROVE  \A n \in Nat : n \in T
<1> SUFFICES ASSUME Nat \ T # {} PROVE FALSE
  OBVIOUS
<1>1. PICK m \in Nat \ T : \A n \in Nat \ T : m <= n
  BY HasLeast
<1>2. m # 0 /\ m - 1 \in Nat
  OBVIOUS
<1>3. m - 1 \in T
  BY <1>1, <1>2
<1> QED BY <1>2, <1>3

\* Steps can be iterated.
Iterated(f, S, b, step, N) ==
  f \in [0..N -> S] /\ f[0] = b /\ \A i \in 1..N : f[i] = step[f[i - 1]]

LEMMA Iterates ==
  ASSUME NEW S, NEW b \in S, NEW step \in [S -> S], NEW N \in Nat
  PROVE  \E f : Iterated(f, S, b, step, N)
<1> DEFINE Good(n) == \E f \in [0..n -> S] : f[0] = b /\ \A i \in 1..n : f[i] = step[f[i - 1]]
           T == {n \in Nat : Good(n)}
<1>1. 0 \in T
  <2> DEFINE g == [i \in 0..0 |-> b]
  <2>1. g \in [0..0 -> S] /\ g[0] = b /\ \A i \in 1..0 : g[i] = step[g[i - 1]]
    OBVIOUS
  <2>2. Good(0)
    BY <2>1
  <2> QED BY <2>2
<1>2. ASSUME NEW n \in Nat, n \in T PROVE n + 1 \in T
  <2>1. PICK f \in [0..n -> S] : f[0] = b /\ \A i \in 1..n : f[i] = step[f[i - 1]]
    BY <1>2
  <2> DEFINE g == [i \in 0..(n + 1) |-> IF i = n + 1 THEN step[f[n]] ELSE f[i]]
  <2>2. g \in [0..(n + 1) -> S]
    BY <2>1
  <2>3. g[0] = b /\ \A i \in 1..(n + 1) : g[i] = step[g[i - 1]]
    BY <2>1
  <2>4. Good(n + 1)
    BY <2>2, <2>3
  <2> QED BY <2>4
<1> HIDE DEF T
<1>3. N \in T
  BY <1>1, <1>2, Induction
<1> QED BY <1>3 DEF T, Iterated

-----------------------------------------------------------------------------
(* Walks: a function that is known where the walk stops and elsewhere is    *)
(* what it is one step on.                                                  *)

Walked(f, D, Stop, succ, out) == f = [x \in D |-> IF x \in Stop THEN out[x] ELSE f[succ[x]]]
Collects(f, D, Stop, succ) == f = [x \in D |-> IF x \in Stop THEN {} ELSE {succ[x]} \cup f[succ[x]]]

\* What a walk from x meets, x included.
Closed(C, Stop, succ) == \A z \in C : z \notin Stop => succ[z] \in C
Way(x, D, Stop, succ) == {y \in D : \A C \in SUBSET D : x \in C /\ Closed(C, Stop, succ) => y \in C}

LEMMA WayIs ==
  ASSUME NEW D, NEW Stop, NEW succ, \A x \in D : x \notin Stop => succ[x] \in D
  PROVE  /\ \A x \in D : x \in Stop => Way(x, D, Stop, succ) = {x}
         /\ \A x \in D : x \notin Stop => Way(x, D, Stop, succ) = {x} \cup Way(succ[x], D, Stop, succ)
<1> DEFINE W(x) == Way(x, D, Stop, succ)
<1>1. \A x \in D : x \in W(x)
  BY DEF Way
<1>2. ASSUME NEW x \in D, x \in Stop PROVE W(x) = {x}
  <2>1. Closed({x}, Stop, succ)
    BY <1>2 DEF Closed
  <2> QED BY <1>1, <2>1 DEF Way
<1>3. ASSUME NEW x \in D, x \notin Stop PROVE W(x) = {x} \cup W(succ[x])
  <2>1. succ[x] \in D
    BY <1>3
  <2>2. \A y \in W(succ[x]) : y \in W(x)
    BY <1>3, <2>1 DEF Way, Closed
  <2>3. ASSUME NEW y \in W(x) PROVE y = x \/ y \in W(succ[x])
    <3> SUFFICES ASSUME NEW C \in SUBSET D, succ[x] \in C, Closed(C, Stop, succ), y # x
                 PROVE  y \in C
      BY <2>1, <2>3 DEF Way
    <3>1. Closed(C \cup {x}, Stop, succ) /\ C \cup {x} \in SUBSET D /\ x \in C \cup {x}
      BY DEF Closed
    <3> QED BY <2>3, <3>1 DEF Way
  <2> HIDE DEF W
  <2> QED BY <1>1, <1>3, <2>2, <2>3
<1> QED BY <1>2, <1>3

LEMMA Walks ==
  ASSUME NEW D, NEW Stop, NEW succ, NEW out,
         \A x \in D : x \notin Stop => succ[x] \in D
  PROVE  \E f : Walked(f, D, Stop, succ, out)
<1> DEFINE W(x) == Way(x, D, Stop, succ)
           End(x) == CHOOSE e \in W(x) : e \in Stop
           f == [x \in D |-> out[End(x)]]
<1> HIDE DEF W
<1>1. ASSUME NEW x \in D, x \in Stop PROVE End(x) = x
  <2>1. W(x) = {x}
    BY <1>1, WayIs DEF W
  <2> QED BY <1>1, <2>1
<1>2. ASSUME NEW x \in D, x \notin Stop PROVE End(x) = End(succ[x])
  <2>1. W(x) = {x} \cup W(succ[x])
    BY <1>2, WayIs DEF W
  <2>2. \A e : (e \in W(x) /\ e \in Stop) <=> (e \in W(succ[x]) /\ e \in Stop)
    BY <1>2, <2>1
  <2> QED BY <2>2
<1> HIDE DEF End
<1>3. f = [x \in D |-> IF x \in Stop THEN out[x] ELSE f[succ[x]]]
  BY <1>1, <1>2
<1> QED BY <1>3 DEF Walked

\* And a function that is the set of what is met on the way.
LEMMA Collected ==
  ASSUME NEW D, NEW Stop, NEW succ, \A x \in D : x \notin Stop => succ[x] \in D
  PROVE  \E f : Collects(f, D, Stop, succ)
<1> DEFINE W(x) == Way(x, D, Stop, succ)
           f == [x \in D |-> IF x \in Stop THEN {} ELSE W(succ[x])]
<1> HIDE DEF W
<1>1. ASSUME NEW x \in D, x \notin Stop PROVE f[x] = {succ[x]} \cup f[succ[x]]
  <2>1. succ[x] \in D
    BY <1>1
  <2>2. CASE succ[x] \in Stop
    <3>1. W(succ[x]) = {succ[x]}
      BY <2>1, <2>2, WayIs DEF W
    <3> QED BY <1>1, <2>1, <2>2, <3>1
  <2>3. CASE succ[x] \notin Stop
    <3>1. W(succ[x]) = {succ[x]} \cup W(succ[succ[x]])
      BY <2>1, <2>3, WayIs DEF W
    <3> QED BY <1>1, <2>1, <2>3, <3>1
  <2> QED BY <2>2, <2>3
<1>2. f = [x \in D |-> IF x \in Stop THEN {} ELSE {succ[x]} \cup f[succ[x]]]
  BY <1>1
<1> QED BY <1>2 DEF Collects

-----------------------------------------------------------------------------
(* Sums over finite sets. *)

\* G is the sum of f over the subsets of S, whatever the order.
IsSum(G, f, S) == /\ G \in [SUBSET S -> Int]
                  /\ G[{}] = 0
                  /\ \A T \in SUBSET S : \A x \in T : G[T] = f[x] + G[T \ {x}]

\* With x added, a subset that has x sums f[x] and its rest.
Extended(G, f, S, x) == [T \in SUBSET (S \cup {x}) |-> IF x \in T THEN f[x] + G[T \ {x}] ELSE G[T]]

LEMMA OneMore ==
  ASSUME NEW f, NEW S, NEW x, x \notin S, f[x] \in Int, NEW G, IsSum(G, f, S),
         \A z \in S : f[z] \in Int
  PROVE  /\ IsSum(Extended(G, f, S, x), f, S \cup {x})
         /\ \A T \in SUBSET S : Extended(G, f, S, x)[T] = G[T]
<1> DEFINE H == [T \in SUBSET (S \cup {x}) |-> IF x \in T THEN f[x] + G[T \ {x}] ELSE G[T]]
<1>1. \A T \in SUBSET (S \cup {x}) : x \notin T => T \in SUBSET S
  OBVIOUS
<1>2. \A T \in SUBSET (S \cup {x}) : T \ {x} \in SUBSET S
  OBVIOUS
<1>3. H \in [SUBSET (S \cup {x}) -> Int]
  BY <1>1, <1>2 DEF IsSum
<1>4. H[{}] = 0 /\ \A T \in SUBSET S : H[T] = G[T]
  BY DEF IsSum
<1>5. ASSUME NEW T \in SUBSET (S \cup {x}), NEW y \in T PROVE H[T] = f[y] + H[T \ {y}]
  <2>1. T \ {y} \in SUBSET (S \cup {x}) /\ H[T] \in Int /\ H[T \ {y}] \in Int
    BY <1>3
  <2>2. CASE x \notin T
    BY <1>1, <2>1, <2>2 DEF IsSum
  <2>3. CASE x \in T /\ y = x
    BY <2>1, <2>3
  <2>4. CASE x \in T /\ y # x
    <3> DEFINE U == T \ {x}
    <3>1. U \in SUBSET S /\ y \in U /\ U \ {y} = (T \ {y}) \ {x} /\ U \ {y} \in SUBSET S
      BY <2>4
    <3>2. G[U] = f[y] + G[U \ {y}] /\ G[U] \in Int /\ G[U \ {y}] \in Int
      BY <3>1 DEF IsSum
    <3>3. H[T] = f[x] + G[U] /\ H[T \ {y}] = f[x] + G[U \ {y}]
      BY <2>1, <2>4, <3>1
    <3>4. f[x] \in Int /\ f[y] \in Int
      BY <2>4
    <3> HIDE DEF U, H
    <3> QED BY <3>2, <3>3, <3>4
  <2> QED BY <2>2, <2>3, <2>4
<1> HIDE DEF H
<1>6. IsSum(H, f, S \cup {x}) /\ \A T \in SUBSET S : H[T] = G[T]
  BY <1>3, <1>4, <1>5 DEF IsSum
<1> QED BY <1>6 DEF H, Extended

LEMMA HasSum ==
  ASSUME NEW f, NEW S, IsFiniteSet(S), \A x \in S : f[x] \in Int
  PROVE  \E G : IsSum(G, f, S)
<1> DEFINE T == {n \in Nat : \A U \in SUBSET S : Cardinality(U) = n => \E G : IsSum(G, f, U)}
<1>1. 0 \in T
  <2> SUFFICES ASSUME NEW U \in SUBSET S, Cardinality(U) = 0 PROVE \E G : IsSum(G, f, U)
    OBVIOUS
  <2>1. U = {}
    BY FS_Subset, FS_EmptySet
  <2> DEFINE G == [s \in SUBSET U |-> 0]
  <2>2. IsSum(G, f, U)
    BY <2>1 DEF IsSum
  <2> QED BY <2>2
<1>2. ASSUME NEW n \in Nat, n \in T PROVE n + 1 \in T
  <2> SUFFICES ASSUME NEW U \in SUBSET S, Cardinality(U) = n + 1 PROVE \E G : IsSum(G, f, U)
    OBVIOUS
  <2>1. IsFiniteSet(U) /\ U # {}
    BY FS_Subset, FS_EmptySet
  <2>2. PICK x : x \in U
    BY <2>1
  <2> DEFINE V == U \ {x}
  <2>3. V \in SUBSET S /\ V \cup {x} = U /\ x \notin V
    BY <2>2
  <2>4. Cardinality(V) = Cardinality(U) - 1
    BY <2>1, <2>2, FS_RemoveElement
  <2>a. Cardinality(V) = n
    BY <2>4
  <2> HIDE DEF V
  <2>5. PICK G : IsSum(G, f, V)
    BY <1>2, <2>3, <2>a
  <2>6. f[x] \in Int /\ \A z \in V : f[z] \in Int
    BY <2>2, <2>3
  <2>7. IsSum(Extended(G, f, V, x), f, V \cup {x})
    BY <2>3, <2>5, <2>6, OneMore
  <2> QED BY <2>3, <2>7
<1> HIDE DEF T
<1>3. Cardinality(S) \in T /\ Cardinality(S) \in Nat
  BY <1>1, <1>2, Induction, FS_CardinalityType
<1> QED BY <1>3 DEF T

\* The equation of the fold has the sum as its one solution.
Folds(h, f, S, any) ==
  /\ h[{}] = 0
  /\ \A s \in (SUBSET S) \ {{}} : /\ any[s] \in s
                               /\ h[s] \in {f[any[s]] + h[s \ {any[s]}], h[s \ {any[s]}] + f[any[s]]}

LEMMA FoldIsSum ==
  ASSUME NEW f, NEW S, IsFiniteSet(S), \A x \in S : f[x] \in Int,
         NEW G, IsSum(G, f, S), NEW any, NEW h, Folds(h, f, S, any)
  PROVE  h[S] = G[S]
<1> USE DEF Folds
<1> DEFINE T == {n \in Nat : \A U \in SUBSET S : Cardinality(U) = n => h[U] = G[U]}
<1>1. 0 \in T
  <2> SUFFICES ASSUME NEW U \in SUBSET S, Cardinality(U) = 0 PROVE h[U] = G[U]
    OBVIOUS
  <2>1. U = {}
    BY FS_Subset, FS_EmptySet
  <2> QED BY <2>1 DEF IsSum
<1>2. ASSUME NEW n \in Nat, n \in T PROVE n + 1 \in T
  <2> SUFFICES ASSUME NEW U \in SUBSET S, Cardinality(U) = n + 1 PROVE h[U] = G[U]
    OBVIOUS
  <2>1. IsFiniteSet(U) /\ U # {}
    BY FS_Subset, FS_EmptySet
  <2>2. PICK x : x = any[U]
    OBVIOUS
  <2>3. x \in U /\ U \ {x} \in SUBSET S
    BY <2>1, <2>2
  <2>a. f[x] \in Int
    BY <2>3
  <2>4. Cardinality(U \ {x}) = Cardinality(U) - 1
    BY <2>1, <2>3, FS_RemoveElement
  <2>5. h[U \ {x}] = G[U \ {x}]
    BY <1>2, <2>3, <2>4
  <2>6. h[U] \in {f[x] + h[U \ {x}], h[U \ {x}] + f[x]}
    BY <2>1, <2>2
  <2>7. G[U] = f[x] + G[U \ {x}] /\ G[U \ {x}] \in Int
    BY <2>3 DEF IsSum
  <2> QED BY <2>5, <2>6, <2>7, <2>a
<1> HIDE DEF T
<1>3. Cardinality(S) \in T /\ Cardinality(S) \in Nat
  BY <1>1, <1>2, Induction, FS_CardinalityType
<1> QED BY <1>3 DEF T

LEMMA SumIsSum ==
  ASSUME NEW f, NEW S, IsFiniteSet(S), \A x \in S : f[x] \in Int, NEW G, IsSum(G, f, S)
  PROVE  SumFunctionOnSet(f, S) = G[S]
<1> DEFINE Body(h) == [s \in SUBSET S |-> IF s = {} THEN 0
                                        ELSE f[CHOOSE x \in s : TRUE] + h[s \ {CHOOSE x \in s : TRUE}]]
           h == CHOOSE g : g = Body(g)
<1>1. G = Body(G)
  <2> DEFINE any(s) == CHOOSE x \in s : TRUE
  <2>1. \A s : s # {} => any(s) \in s
    OBVIOUS
  <2>2. ASSUME NEW s \in SUBSET S PROVE G[s] = IF s = {} THEN 0 ELSE f[any(s)] + G[s \ {any(s)}]
    <3> HIDE DEF any
    <3> QED BY <2>1 DEF IsSum
  <2>3. G = [s \in SUBSET S |-> G[s]]
    BY DEF IsSum
  <2> HIDE DEF any
  <2>4. G = [s \in SUBSET S |-> IF s = {} THEN 0 ELSE f[any(s)] + G[s \ {any(s)}]]
    BY <2>2, <2>3
  <2> QED BY <2>4 DEF any
<1>2. h = Body(h)
  <2> HIDE DEF Body
  <2> QED BY <1>1
<1>3. SumFunctionOnSet(f, S) = h[S]
  BY DEF SumFunctionOnSet, FoldFunctionOnSet, MapThenFoldSet
<1> HIDE DEF h
<1> DEFINE any == [s \in SUBSET S |-> CHOOSE x \in s : TRUE]
<1>4. \A s \in SUBSET S : s # {} => any[s] \in s
  <2> TAKE s \in SUBSET S
  <2>1. s # {} => (CHOOSE x \in s : TRUE) \in s
    OBVIOUS
  <2> QED BY <2>1
<1>5. \A s \in SUBSET S : h[s] = IF s = {} THEN 0 ELSE f[any[s]] + h[s \ {any[s]}]
  BY <1>2, Zenon
<1> HIDE DEF any
<1>6. h[S] = G[S]
  <2>1. Folds(h, f, S, any)
    <3>1. h[{}] = 0
      <4>1. {} \in SUBSET S
        OBVIOUS
      <4> QED BY <1>5, <4>1, Zenon
    <3>2. \A s \in (SUBSET S) \ {{}} : any[s] \in s /\ h[s] = f[any[s]] + h[s \ {any[s]}]
      BY <1>4, <1>5
    <3> QED BY <3>1, <3>2 DEF Folds
  <2> QED BY <2>1, FoldIsSum
<1> QED BY <1>3, <1>6

\* The sum of nothing, of one thing more, and its type.
LEMMA SumOfNone == \A f : SumFunctionOnSet(f, {}) = 0
<1> TAKE f
<1>1. IsFiniteSet({}) /\ \A x \in {} : f[x] \in Int
  BY FS_EmptySet
<1>2. PICK G : IsSum(G, f, {})
  BY <1>1, HasSum
<1>3. SumFunctionOnSet(f, {}) = G[{}]
  BY <1>1, <1>2, SumIsSum
<1> QED BY <1>2, <1>3 DEF IsSum

LEMMA SumType ==
  ASSUME NEW f, NEW S, IsFiniteSet(S), \A x \in S : f[x] \in Int
  PROVE  SumFunctionOnSet(f, S) \in Int
<1>1. PICK G : IsSum(G, f, S)
  BY HasSum
<1>2. SumFunctionOnSet(f, S) = G[S]
  BY <1>1, SumIsSum
<1> QED BY <1>1, <1>2 DEF IsSum

LEMMA SumOfOneMore ==
  ASSUME NEW f, NEW S, IsFiniteSet(S), NEW x, x \notin S, f[x] \in Int, \A z \in S : f[z] \in Int
  PROVE  SumFunctionOnSet(f, S \cup {x}) = f[x] + SumFunctionOnSet(f, S)
<1>1. PICK G : IsSum(G, f, S)
  BY HasSum
<1>2. PICK H : IsSum(H, f, S \cup {x}) /\ H[S] = G[S]
  <2>1. /\ IsSum(Extended(G, f, S, x), f, S \cup {x})
        /\ \A T \in SUBSET S : Extended(G, f, S, x)[T] = G[T]
    BY <1>1, OneMore
  <2>2. Extended(G, f, S, x)[S] = G[S]
    BY <2>1
  <2> QED BY <2>1, <2>2
<1>3. H[S \cup {x}] = f[x] + H[(S \cup {x}) \ {x}] /\ (S \cup {x}) \ {x} = S
  BY <1>2 DEF IsSum
<1>4. SumFunctionOnSet(f, S) = G[S]
  BY <1>1, SumIsSum
<1>5. IsFiniteSet(S \cup {x})
  BY FS_AddElement
<1>6. SumFunctionOnSet(f, S \cup {x}) = H[S \cup {x}]
  BY <1>2, <1>5, SumIsSum
<1> QED BY <1>2, <1>3, <1>4, <1>6

\* The sum depends on the numbers only.
LEMMA SumOfSame ==
  ASSUME NEW f, NEW g, NEW S, IsFiniteSet(S), \A x \in S : f[x] \in Int /\ g[x] = f[x]
  PROVE  SumFunctionOnSet(f, S) = SumFunctionOnSet(g, S)
<1>1. PICK G : IsSum(G, f, S)
  BY HasSum
<1>2. IsSum(G, g, S)
  BY <1>1 DEF IsSum
<1> QED BY <1>1, <1>2, SumIsSum

\* A sum of naturals is one.
LEMMA SumNat ==
  ASSUME NEW f, NEW S, IsFiniteSet(S), \A x \in S : f[x] \in Nat
  PROVE  SumFunctionOnSet(f, S) \in Nat
<1> DEFINE T == {n \in Nat : \A U \in SUBSET S : Cardinality(U) = n => SumFunctionOnSet(f, U) \in Nat}
<1>1. \A U \in SUBSET S : IsFiniteSet(U) /\ Cardinality(U) \in Nat
  BY FS_Subset, FS_CardinalityType
<1>2. 0 \in T
  <2>1. \A U \in SUBSET S : Cardinality(U) = 0 => U = {}
    BY <1>1, FS_EmptySet
  <2> QED BY <2>1, SumOfNone
<1>3. ASSUME NEW n \in Nat, n \in T PROVE n + 1 \in T
  <2> SUFFICES ASSUME NEW U \in SUBSET S, Cardinality(U) = n + 1 PROVE SumFunctionOnSet(f, U) \in Nat
    OBVIOUS
  <2>1. PICK x \in U : TRUE
    BY FS_EmptySet
  <2>2. PICK V \in SUBSET S : V = U \ {x}
    OBVIOUS
  <2>3. U = V \cup {x} /\ x \notin V /\ IsFiniteSet(V) /\ f[x] \in Nat
    BY <1>1, <2>1, <2>2
  <2>4. Cardinality(V) = n
    BY <1>1, <2>1, <2>2, FS_RemoveElement
  <2>5. SumFunctionOnSet(f, V) \in Nat
    BY <1>3, <2>4
  <2>6. SumFunctionOnSet(f, V \cup {x}) = f[x] + SumFunctionOnSet(f, V)
    BY <2>3, SumOfOneMore
  <2> QED BY <2>3, <2>5, <2>6
<1> HIDE DEF T
<1>4. Cardinality(S) \in T
  BY <1>1, <1>2, <1>3, Induction
<1> QED BY <1>4 DEF T
=============================================================================

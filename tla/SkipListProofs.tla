--------------------------- MODULE SkipListProofs ---------------------------
(***************************************************************************)
(* The skip list: on every level the linked nodes follow one another in    *)
(* key order, so that the searches find what the bottom level has, and     *)
(* the list with its iterator is a map as OrderedMap says.                 *)
(***************************************************************************)
EXTENDS SkipList, DataProofs

-----------------------------------------------------------------------------
(* A list, as its links and what its nodes hold. *)

\* The key of a node; head_ is before every key.
KeyAt(dt, n) == IF n = head_ THEN 0 ELSE dt[n].key

\* The linked nodes that reach level i.
Tall(nx, L, i) == {m \in L : Len(nx[m]) >= i}

\* n leads to the tall node with the next key.
Leads(nx, dt, L, i, n) ==
  \/ /\ nx[n][i] = Nil
     /\ \A m \in Tall(nx, L, i) : KeyAt(dt, m) <= KeyAt(dt, n)
  \/ /\ nx[n][i] \in Tall(nx, L, i)
     /\ KeyAt(dt, nx[n][i]) > KeyAt(dt, n)
     /\ \A m \in Tall(nx, L, i) : KeyAt(dt, m) > KeyAt(dt, n) => KeyAt(dt, nx[n][i]) <= KeyAt(dt, m)

\* The nodes L are linked on all their levels.
List(nx, dt, L) ==
  /\ L \subseteq Nodes /\ IsFiniteSet(L)
  /\ \A n \in L : /\ dt[n] \in [key : Keys, val : Values]
                  /\ Len(nx[n]) \in 1..kMaxHeight
  /\ Len(nx[head_]) = kMaxHeight
  /\ \A m, n \in L : dt[m].key = dt[n].key => m = n
  /\ \A i \in 1..kMaxHeight : \A n \in L \cup {head_} : Len(nx[n]) >= i => Leads(nx, dt, L, i, n)

LEMMA KeysAre ==
  ASSUME NEW nx, NEW dt, NEW L, List(nx, dt, L)
  PROVE  /\ head_ \notin L /\ Nil \notin L /\ KeyAt(dt, head_) = 0 /\ kMaxHeight \in Nat \ {0}
         /\ \A n \in L : n \in Nodes /\ KeyAt(dt, n) = dt[n].key /\ KeyAt(dt, n) \in Nat \ {0}
         /\ \A n \in L : dt[n].key \in Keys
         /\ \A m, n \in L \cup {head_} : KeyAt(dt, m) = KeyAt(dt, n) => m = n
         /\ Tall(nx, L, 1) = L
         /\ \A i \in 1..kMaxHeight : Len(nx[head_]) >= i
<1>1. head_ \notin L /\ Nil \notin L /\ KeyAt(dt, head_) = 0 /\ kMaxHeight \in Nat \ {0}
  BY NodesAssumption, KeysAssumption DEF List, KeyAt, head_
<1>2. \A n \in L : dt[n].key \in Keys
  BY DEF List
<1>3. \A n \in L : n \in Nodes /\ KeyAt(dt, n) = dt[n].key /\ KeyAt(dt, n) \in Nat \ {0}
  BY <1>1, <1>2, KeysAssumption DEF List, KeyAt
<1>4. \A m, n \in L \cup {head_} : KeyAt(dt, m) = KeyAt(dt, n) => m = n
  BY <1>1, <1>3 DEF List
<1>5. Tall(nx, L, 1) = L
  BY DEF List, Tall
<1>6. \A i \in 1..kMaxHeight : Len(nx[head_]) >= i
  BY <1>1 DEF List
<1> QED BY <1>1, <1>2, <1>3, <1>4, <1>5, <1>6

\* Among some nodes there is one with the greatest key.
LEMMA FurthestOf ==
  ASSUME NEW dt, NEW B, IsFiniteSet(B), B # {}, \A b \in B : KeyAt(dt, b) \in Nat
  PROVE  \E b \in B : \A c \in B : KeyAt(dt, c) <= KeyAt(dt, b)
<1> DEFINE T == {n \in Nat : \A C \in SUBSET B : C # {} /\ Cardinality(C) = n =>
                               \E b \in C : \A c \in C : KeyAt(dt, c) <= KeyAt(dt, b)}
<1>1. IsFiniteSet(B) /\ \A C \in SUBSET B : IsFiniteSet(C) /\ Cardinality(C) \in Nat
  BY FS_Subset, FS_CardinalityType
<1>2. \A b \in B : KeyAt(dt, b) \in Nat
  OBVIOUS
<1>3. 0 \in T
  <2>1. \A C \in SUBSET B : Cardinality(C) = 0 => C = {}
    BY <1>1, FS_EmptySet
  <2> QED BY <2>1
<1>4. ASSUME NEW n \in Nat, n \in T PROVE n + 1 \in T
  <2> SUFFICES ASSUME NEW C \in SUBSET B, C # {}, Cardinality(C) = n + 1
               PROVE  \E b \in C : \A c \in C : KeyAt(dt, c) <= KeyAt(dt, b)
    OBVIOUS
  <2>1. PICK a \in C : TRUE
    OBVIOUS
  <2>2. CASE C \ {a} = {}
    <3>1. \A c \in C : c = a
      BY <2>2
    <3>2. KeyAt(dt, a) <= KeyAt(dt, a)
      BY <1>2, <2>1
    <3>3. \A c \in C : KeyAt(dt, c) <= KeyAt(dt, a)
      BY <3>1, <3>2
    <3> QED BY <3>3
  <2>3. CASE C \ {a} # {}
    <3>1. Cardinality(C \ {a}) = n
      <4>1. IsFiniteSet(C) /\ a \in C
        BY <1>1, <2>1
      <4>2. Cardinality(C \ {a}) = Cardinality(C) - 1
        BY <4>1, FS_RemoveElement
      <4> QED BY <4>2
    <3>2. PICK b \in C \ {a} : \A c \in C \ {a} : KeyAt(dt, c) <= KeyAt(dt, b)
      <4>1. PICK D \in SUBSET B : D = C \ {a}
        OBVIOUS
      <4>2. \E b \in D : \A c \in D : KeyAt(dt, c) <= KeyAt(dt, b)
        BY <1>4, <2>3, <3>1, <4>1
      <4> QED BY <4>1, <4>2
    <3>3. CASE KeyAt(dt, a) <= KeyAt(dt, b)
      BY <3>2, <3>3
    <3>4. CASE ~(KeyAt(dt, a) <= KeyAt(dt, b))
      BY <1>2, <3>2, <3>4
    <3> QED BY <3>3, <3>4
  <2> QED BY <2>2, <2>3
<1> HIDE DEF T
<1>5. \A n \in Nat : n \in T
  BY <1>3, <1>4, Induction
<1>6. Cardinality(B) \in T
  BY <1>1, <1>5
<1> QED BY <1>6 DEF T

LEMMA Furthest ==
  ASSUME NEW nx, NEW dt, NEW L, List(nx, dt, L), NEW B, B \subseteq L \cup {head_}, B # {}
  PROVE  \E b \in B : \A c \in B : KeyAt(dt, c) <= KeyAt(dt, b)
<1>1. IsFiniteSet(L \cup {head_})
  BY FS_AddElement DEF List
<1>2. IsFiniteSet(B)
  BY <1>1, FS_Subset
<1>3. \A b \in B : KeyAt(dt, b) \in Nat
  BY KeysAre
<1> QED BY <1>2, <1>3, FurthestOf

-----------------------------------------------------------------------------
(* The searches. *)

\* What a search for k finds among L.
Answers(dt, L, k, x) == /\ \A w \in L : dt[w].key = k => x = w
                        /\ (\A w \in L : dt[w].key # k) => x = Nil

\* A search: at a place, the node it leads to, and what is found there.
At == Places \X (1..kMaxHeight)

Goes(k, u) ==
  \A at \in At :
    LET n == next[at[1]][at[2]]
    IN  u[at] = IF n \in Nodes /\ data[n].key = k THEN n
                ELSE IF n \in Nodes /\ data[n].key < k THEN u[<<n, at[2]>>]
                ELSE IF at[2] > 1 THEN u[<<at[1], at[2] - 1>>]
                ELSE Nil

LEMMA SearchGoes ==
  ASSUME NEW k, kMaxHeight \in Nat \ {0}
  PROVE  \E u : Goes(k, u) /\ Search(k) = u[<<head_, max_level>>]
<1> DEFINE Node(at) == next[at[1]][at[2]]
           Hit(at) == Node(at) \in Nodes /\ data[Node(at)].key = k
           On(at) == Node(at) \in Nodes /\ data[Node(at)].key < k
           Body(u) == [at \in Places \X (1..kMaxHeight) |->
                        LET n == next[at[1]][at[2]]
                        IN  IF n \in Nodes /\ data[n].key = k THEN n
                            ELSE IF n \in Nodes /\ data[n].key < k THEN u[<<n, at[2]>>]
                            ELSE IF at[2] > 1 THEN u[<<at[1], at[2] - 1>>]
                            ELSE Nil]
           from == CHOOSE u : u = Body(u)
           Stop == {at \in At : Hit(at) \/ (~On(at) /\ ~(at[2] > 1))}
           succ == [at \in At |-> IF On(at) THEN <<Node(at), at[2]>> ELSE <<at[1], at[2] - 1>>]
           out == [at \in At |-> IF Hit(at) THEN Node(at) ELSE Nil]
<1>1. ASSUME NEW at \in At, at \notin Stop PROVE succ[at] \in At
  <2>1. at[1] \in Places /\ at[2] \in 1..kMaxHeight /\ (On(at) \/ at[2] > 1)
    BY <1>1 DEF At
  <2>2. CASE On(at)
    <3>1. Node(at) \in Places
      BY <2>2 DEF Places
    <3> HIDE DEF Node, On
    <3> QED BY <2>1, <2>2, <3>1 DEF At
  <2>3. CASE ~On(at)
    <3>1. at[2] - 1 \in 1..kMaxHeight
      BY <2>1, <2>3
    <3> HIDE DEF Node, On
    <3> QED BY <2>1, <2>3, <3>1 DEF At
  <2> QED BY <2>2, <2>3
<1>2. PICK f : Walked(f, At, Stop, succ, out)
  <2> HIDE DEF succ, out, Stop
  <2> QED BY <1>1, Walks
<1>3. ASSUME NEW at \in At
      PROVE  f[at] = IF Hit(at) THEN Node(at)
                     ELSE IF On(at) THEN f[<<Node(at), at[2]>>]
                     ELSE IF at[2] > 1 THEN f[<<at[1], at[2] - 1>>]
                     ELSE Nil
  <2>1. f[at] = IF at \in Stop THEN out[at] ELSE f[succ[at]]
    BY <1>2 DEF Walked
  <2> HIDE DEF Node, Hit, On
  <2> QED BY <2>1
<1>4. f = Body(f)
  <2>1. f = [at \in At |-> f[at]]
    BY <1>2 DEF Walked
  <2> QED BY <1>3, <2>1 DEF At
<1>5. from = Body(from)
  <2> HIDE DEF Body
  <2> QED BY <1>4
<1>6. Search(k) = from[<<head_, max_level>>]
  BY DEF Search
<1> HIDE DEF from
<1>7. Goes(k, from)
  BY <1>5 DEF Goes, At
<1> QED BY <1>6, <1>7

\* A search that follows the links finds the node of its key.
LEMMA SearchAnswers ==
  ASSUME NEW L, List(next, data, L), NEW k \in Keys, max_level \in 1..kMaxHeight
  PROVE  Answers(data, L, k, Search(k))
<1>1. kMaxHeight \in Nat \ {0} /\ k \in Nat \ {0}
  BY KeysAssumption
<1>2. PICK u : Goes(k, u) /\ Search(k) = u[<<head_, max_level>>]
  BY <1>1, SearchGoes
<1> DEFINE key(n) == KeyAt(data, n)
           Starts(i) == {n \in L \cup {head_} : Level(n) >= i /\ key(n) < k}
           Good(i) == \A n \in Starts(i) : Answers(data, L, k, u[<<n, i>>])
           T == {i \in Nat : i \in 1..kMaxHeight => Good(i)}
<1>3. /\ head_ \notin L /\ Nil \notin L /\ key(head_) = 0
      /\ \A n \in L : n \in Nodes /\ key(n) = data[n].key /\ key(n) \in Nat \ {0}
      /\ \A m, n \in L \cup {head_} : key(m) = key(n) => m = n
      /\ Tall(next, L, 1) = L /\ \A i \in 1..kMaxHeight : Level(head_) >= i
  BY KeysAre DEF Level
<1>4. ASSUME NEW i \in 1..kMaxHeight, i - 1 \in T PROVE Good(i)
  <2> SUFFICES ASSUME NEW B, B = {n \in Starts(i) : ~Answers(data, L, k, u[<<n, i>>])}, B # {}
               PROVE  FALSE
    OBVIOUS
  <2>1. PICK n \in B : \A c \in B : key(c) <= key(n)
    <3>1. B \subseteq L \cup {head_}
      OBVIOUS
    <3> QED BY <3>1, Furthest
  <2>2. /\ n \in L \cup {head_} /\ Level(n) >= i /\ key(n) < k /\ key(n) \in Nat
        /\ ~Answers(data, L, k, u[<<n, i>>])
    BY <1>3, <2>1
  <2>3. PICK m : m = next[n][i]
    OBVIOUS
  <2>4. Leads(next, data, L, i, n)
    BY <2>2 DEF List, Level
  <2>5. <<n, i>> \in At
    BY <1>3, <2>2 DEF At, Places
  <2>6. u[<<n, i>>] = IF m \in Nodes /\ data[m].key = k THEN m
                      ELSE IF m \in Nodes /\ data[m].key < k THEN u[<<m, i>>]
                      ELSE IF i > 1 THEN u[<<n, i - 1>>] ELSE Nil
    BY <1>2, <2>3, <2>5 DEF Goes
  <2>7. m \in Nodes => m \in L /\ Level(m) >= i /\ key(m) = data[m].key /\ key(m) > key(n) /\ key(m) \in Nat
    BY <1>3, <2>3, <2>4, NodesAssumption DEF Leads, Tall, Level
  <2>8. CASE m \in Nodes /\ data[m].key = k
    BY <1>3, <2>2, <2>6, <2>7, <2>8 DEF Answers
  <2>9. CASE m \in Nodes /\ data[m].key < k
    <3>1. m \in Starts(i) /\ m \notin B
      BY <2>1, <2>2, <2>7, <2>9
    <3>2. Answers(data, L, k, u[<<m, i>>])
      BY <3>1
    <3>3. u[<<n, i>>] = u[<<m, i>>]
      BY <1>1, <2>6, <2>7, <2>9
    <3> QED BY <2>2, <3>2, <3>3
  <2>10. CASE ~(m \in Nodes /\ data[m].key = k) /\ ~(m \in Nodes /\ data[m].key < k) /\ i > 1
    <3>1. i - 1 \in 1..kMaxHeight /\ Good(i - 1)
      BY <1>1, <1>4, <2>10
    <3>2. n \in Starts(i - 1)
      <4>1. Level(n) \in Nat
        BY <1>1, <2>2 DEF List, Level
      <4> QED BY <2>2, <4>1
    <3> QED BY <2>2, <2>6, <2>10, <3>1, <3>2
  <2>11. CASE ~(m \in Nodes /\ data[m].key = k) /\ ~(m \in Nodes /\ data[m].key < k) /\ i = 1
    <3>1. \A w \in L : data[w].key # k
      BY <1>3, <2>2, <2>3, <2>4, <2>7, <2>11 DEF Leads
    <3> QED BY <2>2, <2>6, <2>11, <3>1 DEF Answers
  <2> QED BY <2>8, <2>9, <2>10, <2>11
<1>5. 0 \in T
  OBVIOUS
<1>6. \A j \in Nat : j \in T => j + 1 \in T
  <2> SUFFICES ASSUME NEW j \in Nat, j \in T, j + 1 \in 1..kMaxHeight PROVE Good(j + 1)
    OBVIOUS
  <2>1. (j + 1) - 1 = j
    OBVIOUS
  <2> HIDE DEF Good, T
  <2> QED BY <1>4, <2>1
<1> HIDE DEF Good, T
<1>7. \A j \in Nat : j \in T
  BY <1>5, <1>6, Induction
<1>8. Good(max_level)
  BY <1>7, <1>1 DEF T
<1>9. head_ \in Starts(max_level)
  BY <1>1, <1>3
<1> QED BY <1>2, <1>8, <1>9 DEF Good

\* The last node of level i before k.
Before(nx, dt, L, i, k, p) ==
  /\ p \in L \cup {head_} /\ Len(nx[p]) >= i /\ KeyAt(dt, p) < k
  /\ \A m \in Tall(nx, L, i) : KeyAt(dt, m) < k => KeyAt(dt, m) <= KeyAt(dt, p)

LEMMA OneBefore ==
  ASSUME NEW nx, NEW dt, NEW L, List(nx, dt, L), NEW k \in Keys, NEW i \in 1..kMaxHeight
  PROVE  /\ \E p : Before(nx, dt, L, i, k, p)
         /\ \A p, q : Before(nx, dt, L, i, k, p) /\ Before(nx, dt, L, i, k, q) => p = q
<1> DEFINE B == {n \in L \cup {head_} : Len(nx[n]) >= i /\ KeyAt(dt, n) < k}
<1>1. k \in Nat \ {0}
  BY KeysAssumption
<1>2. head_ \in B
  BY <1>1, KeysAre
<1>3. PICK b \in B : \A c \in B : KeyAt(dt, c) <= KeyAt(dt, b)
  <2>1. B \subseteq L \cup {head_} /\ B # {}
    BY <1>2
  <2> HIDE DEF B
  <2> QED BY <2>1, Furthest
<1>4. Before(nx, dt, L, i, k, b)
  BY <1>3 DEF Before, Tall
<1>5. ASSUME NEW p, NEW q, Before(nx, dt, L, i, k, p), Before(nx, dt, L, i, k, q) PROVE p = q
  <2>1. KeyAt(dt, p) \in Nat /\ KeyAt(dt, q) \in Nat
    BY <1>5, KeysAre DEF Before
  <2>2. KeyAt(dt, p) <= KeyAt(dt, q) /\ KeyAt(dt, q) <= KeyAt(dt, p)
    BY <1>5, <2>1, KeysAre DEF Before, Tall
  <2> QED BY <1>5, <2>1, <2>2, KeysAre DEF Before
<1> QED BY <1>4, <1>5

\* The walk along a level, and the levels one below the other.
Lasts(k, u) ==
  \A at \in At :
    LET m == next[at[1]][at[2]]
    IN  u[at] = IF m \notin Nodes \/ data[m].key >= k THEN at[1] ELSE u[<<m, at[2]>>]

Downs(k, u, p) ==
  p = [i \in 1..kMaxHeight |->
        IF i > max_level THEN head_ ELSE u[<<IF i = max_level THEN head_ ELSE p[i + 1], i>>]]

LEMMA FindPrevGoes ==
  ASSUME NEW k, kMaxHeight \in Nat \ {0}
  PROVE  \E u : Lasts(k, u) /\ FindPrevNode(k) = CHOOSE p : Downs(k, u, p)
<1> DEFINE Node(at) == next[at[1]][at[2]]
           Done(at) == Node(at) \notin Nodes \/ data[Node(at)].key >= k
           Body(u) == [at \in Places \X (1..kMaxHeight) |->
                        LET m == next[at[1]][at[2]]
                        IN  IF m \notin Nodes \/ data[m].key >= k THEN at[1] ELSE u[<<m, at[2]>>]]
           last == CHOOSE u : u = Body(u)
           Stop == {at \in At : Done(at)}
           succ == [at \in At |-> <<Node(at), at[2]>>]
           out == [at \in At |-> at[1]]
<1>1. ASSUME NEW at \in At, at \notin Stop PROVE succ[at] \in At
  <2>1. at[2] \in 1..kMaxHeight /\ Node(at) \in Places
    BY <1>1 DEF At, Places
  <2> HIDE DEF Node, Done
  <2> QED BY <2>1 DEF At
<1>2. PICK f : Walked(f, At, Stop, succ, out)
  <2> HIDE DEF succ, out, Stop
  <2> QED BY <1>1, Walks
<1>3. ASSUME NEW at \in At PROVE f[at] = IF Done(at) THEN at[1] ELSE f[<<Node(at), at[2]>>]
  <2>1. f[at] = IF at \in Stop THEN out[at] ELSE f[succ[at]]
    BY <1>2 DEF Walked
  <2> HIDE DEF Node, Done
  <2> QED BY <2>1
<1>4. f = Body(f)
  <2>1. f = [at \in At |-> f[at]]
    BY <1>2 DEF Walked
  <2> QED BY <1>3, <2>1 DEF At
<1>5. last = Body(last)
  <2> HIDE DEF Body
  <2> QED BY <1>4
<1>6. FindPrevNode(k) = CHOOSE p : Downs(k, last, p)
  BY DEF FindPrevNode, Downs
<1> HIDE DEF last
<1>7. Lasts(k, last)
  BY <1>5 DEF Lasts, At
<1> QED BY <1>6, <1>7

\* Along a level the walk ends at the last node before k.
LEMMA LastIsBefore ==
  ASSUME NEW L, List(next, data, L), NEW k \in Keys, NEW u, Lasts(k, u), NEW i \in 1..kMaxHeight,
         NEW n \in L \cup {head_}, Level(n) >= i, KeyAt(data, n) < k
  PROVE  Before(next, data, L, i, k, u[<<n, i>>])
<1> DEFINE key(m) == KeyAt(data, m)
           Starts == {m \in L \cup {head_} : Level(m) >= i /\ key(m) < k}
           Good(m) == Before(next, data, L, i, k, u[<<m, i>>])
           B == {m \in Starts : ~Good(m)}
<1>1. kMaxHeight \in Nat \ {0} /\ k \in Nat \ {0}
  BY KeysAssumption
<1>2. /\ head_ \notin L /\ Nil \notin L /\ key(head_) = 0
      /\ \A m \in L : m \in Nodes /\ key(m) = data[m].key /\ key(m) \in Nat \ {0}
  BY KeysAre
<1>3. SUFFICES ASSUME B # {} PROVE FALSE
  OBVIOUS
<1>4. PICK b \in B : \A c \in B : key(c) <= key(b)
  <2>1. B \subseteq L \cup {head_}
    OBVIOUS
  <2> HIDE DEF B
  <2> QED BY <1>3, <2>1, Furthest
<1>5. b \in L \cup {head_} /\ Level(b) >= i /\ key(b) < k /\ key(b) \in Nat /\ ~Good(b)
  BY <1>2, <1>4
<1>6. PICK m : m = next[b][i]
  OBVIOUS
<1>7. Leads(next, data, L, i, b)
  BY <1>5 DEF List, Level
<1>8. <<b, i>> \in At
  BY <1>2, <1>5 DEF At, Places
<1>9. u[<<b, i>>] = IF m \notin Nodes \/ data[m].key >= k THEN b ELSE u[<<m, i>>]
  BY <1>6, <1>8 DEF Lasts
<1>10. m \in Nodes => m \in L /\ Level(m) >= i /\ key(m) = data[m].key /\ key(m) > key(b) /\ key(m) \in Nat
  BY <1>2, <1>6, <1>7, NodesAssumption DEF Leads, Tall, Level
<1>11. CASE m \notin Nodes \/ data[m].key >= k
  <2>1. ASSUME NEW c \in Tall(next, L, i), key(c) < k PROVE key(c) <= key(b)
    <3>1. key(c) \in Nat
      BY <1>2 DEF Tall
    <3>2. CASE m \in Nodes
      <4>1. \A d \in Tall(next, L, i) : key(d) > key(b) => key(m) <= key(d)
        BY <1>6, <1>7, <3>2, NodesAssumption DEF Leads
      <4>2. key(m) >= k
        BY <1>10, <1>11, <3>2
      <4> HIDE DEF key
      <4> QED BY <1>1, <1>5, <1>10, <2>1, <3>1, <3>2, <4>1, <4>2
    <3>3. CASE m \notin Nodes
      BY <1>2, <1>6, <1>7, <3>3 DEF Leads, Tall
    <3> QED BY <3>2, <3>3
  <2>2. Before(next, data, L, i, k, b)
    BY <1>5, <2>1 DEF Before, Level
  <2> QED BY <1>5, <1>9, <1>11, <2>2
<1>12. CASE ~(m \notin Nodes \/ data[m].key >= k)
  <2>1. m \in Starts /\ m \notin B
    BY <1>1, <1>4, <1>5, <1>10, <1>12
  <2>2. Good(m)
    BY <2>1
  <2> QED BY <1>5, <1>9, <1>12, <2>2
<1> QED BY <1>11, <1>12

\* FindPrevNode finds on every level the last node before k.
LEMMA PrevIsBefore ==
  ASSUME NEW L, List(next, data, L), NEW k \in Keys, max_level \in 1..kMaxHeight,
         \A n \in L : Level(n) <= max_level
  PROVE  \A i \in 1..kMaxHeight : Before(next, data, L, i, k, FindPrevNode(k)[i])
<1>1. kMaxHeight \in Nat \ {0} /\ k \in Nat \ {0} /\ max_level \in Nat
  BY KeysAssumption
<1>2. PICK u : Lasts(k, u) /\ FindPrevNode(k) = CHOOSE p : Downs(k, u, p)
  BY <1>1, FindPrevGoes
<1> DEFINE Bef(i, p) == Before(next, data, L, i, k, p)
           Start(p, i) == IF i = max_level THEN head_ ELSE p[i + 1]
<1>3. \A i \in 1..kMaxHeight : Level(head_) >= i /\ KeyAt(data, head_) < k
  BY <1>1, KeysAre DEF Level
<1>4. ASSUME NEW i \in 1..kMaxHeight, i > max_level PROVE Bef(i, head_)
  <2>1. Tall(next, L, i) = {}
    <3>1. \A n \in L : Len(next[n]) \in 1..kMaxHeight /\ Len(next[n]) <= max_level
      BY DEF List, Level
    <3> QED BY <1>1, <1>4, <3>1 DEF Tall
  <2> QED BY <1>3, <2>1 DEF Before, Level
<1>5. ASSUME NEW i \in 1..kMaxHeight, i <= max_level, NEW p,
             i < max_level => Bef(i + 1, p[i + 1])
      PROVE  Bef(i, u[<<Start(p, i), i>>])
  <2>1. CASE i = max_level
    BY <1>2, <1>3, <2>1, LastIsBefore
  <2>2. CASE i # max_level
    <3>1. i < max_level /\ i + 1 \in 1..kMaxHeight
      BY <1>1, <1>5, <2>2
    <3>2. PICK n : n = p[i + 1] /\ Bef(i + 1, n)
      BY <1>5, <3>1
    <3>3. n \in L \cup {head_} /\ Len(next[n]) >= i + 1 /\ KeyAt(data, n) < k
      BY <3>2 DEF Before
    <3>4. Len(next[n]) \in Nat
      BY <1>1, <3>3 DEF List
    <3>5. Level(n) >= i
      BY <1>1, <3>3, <3>4 DEF Level
    <3>6. Bef(i, u[<<n, i>>])
      BY <1>2, <3>3, <3>5, LastIsBefore
    <3> QED BY <2>2, <3>2, <3>6
  <2> QED BY <2>1, <2>2
<1>6. \E p : Downs(k, u, p)
  <2> DEFINE b == [i \in 1..kMaxHeight |-> CHOOSE p : Bef(i, p)]
  <2>1. ASSUME NEW i \in 1..kMaxHeight PROVE Bef(i, b[i]) /\ \A p : Bef(i, p) => p = b[i]
    <3>1. \E p : Bef(i, p)
      BY OneBefore
    <3>2. b[i] = CHOOSE p : Bef(i, p)
      OBVIOUS
    <3> HIDE DEF Bef
    <3>3. Bef(i, b[i])
      BY <3>1, <3>2
    <3> HIDE DEF b
    <3> QED BY <3>3, OneBefore DEF Bef
  <2>2. b = [i \in 1..kMaxHeight |-> b[i]]
    OBVIOUS
  <2> HIDE DEF b
  <2>3. ASSUME NEW i \in 1..kMaxHeight
        PROVE  b[i] = IF i > max_level THEN head_ ELSE u[<<Start(b, i), i>>]
    <3>1. CASE i > max_level
      BY <1>4, <2>1, <3>1
    <3>2. CASE ~(i > max_level)
      <4>1. i <= max_level /\ (i < max_level => i + 1 \in 1..kMaxHeight)
        BY <1>1, <3>2
      <4>2. i < max_level => Bef(i + 1, b[i + 1])
        BY <2>1, <4>1
      <4>3. Bef(i, u[<<Start(b, i), i>>])
        BY <1>5, <4>1, <4>2
      <4>4. b[i] = u[<<Start(b, i), i>>]
        BY <2>1, <4>3
      <4> QED BY <3>2, <4>4
    <3> QED BY <3>1, <3>2
  <2>4. Downs(k, u, b)
    BY <2>2, <2>3 DEF Downs
  <2> QED BY <2>4
<1>7. PICK p : p = FindPrevNode(k) /\ Downs(k, u, p)
  BY <1>2, <1>6
<1>8. \A i \in 1..kMaxHeight : p[i] = IF i > max_level THEN head_ ELSE u[<<Start(p, i), i>>]
  BY <1>7 DEF Downs
<1> DEFINE T == {j \in Nat : kMaxHeight - j \in 1..kMaxHeight => Bef(kMaxHeight - j, p[kMaxHeight - j])}
<1> HIDE DEF Bef
<1>9. ASSUME NEW i \in 1..kMaxHeight, i < kMaxHeight => Bef(i + 1, p[i + 1]) PROVE Bef(i, p[i])
  <2>1. CASE i > max_level
    BY <1>4, <1>8, <2>1
  <2>2. CASE ~(i > max_level)
    <3>1. i <= max_level /\ (i < max_level => i < kMaxHeight)
      BY <1>1, <2>2
    <3>2. Bef(i, u[<<Start(p, i), i>>])
      BY <1>5, <1>9, <3>1
    <3> QED BY <1>8, <2>2, <3>2
  <2> QED BY <2>1, <2>2
<1>10. 0 \in T
  <2>1. kMaxHeight \in 1..kMaxHeight /\ ~(kMaxHeight < kMaxHeight) /\ kMaxHeight - 0 = kMaxHeight
    BY <1>1
  <2>2. Bef(kMaxHeight, p[kMaxHeight])
    BY <1>9, <2>1
  <2> QED BY <2>1, <2>2
<1>11. ASSUME NEW j \in Nat, j \in T PROVE j + 1 \in T
  <2> SUFFICES ASSUME NEW i \in 1..kMaxHeight, i = kMaxHeight - (j + 1) PROVE Bef(i, p[i])
    OBVIOUS
  <2>1. i + 1 = kMaxHeight - j /\ kMaxHeight - j \in 1..kMaxHeight
    BY <1>1
  <2>2. Bef(i + 1, p[i + 1])
    BY <1>11, <2>1
  <2> QED BY <1>9, <2>2
<1> HIDE DEF T
<1>12. \A j \in Nat : j \in T
  BY <1>10, <1>11, Induction
<1>13. ASSUME NEW i \in 1..kMaxHeight PROVE Bef(i, p[i])
  <2>1. PICK j \in Nat : i = kMaxHeight - j
    <3>1. kMaxHeight - i \in Nat /\ i = kMaxHeight - (kMaxHeight - i)
      BY <1>1
    <3> QED BY <3>1
  <2> QED BY <1>12, <2>1 DEF T
<1> QED BY <1>7, <1>13 DEF Bef

-----------------------------------------------------------------------------
(* The bottom level. *)

\* What follows each node: a function that collects what a walk meets.
Rests(nx, r) == \A m \in Places : r[m] = IF nx[m][1] \notin Nodes THEN {}
                                         ELSE {nx[m][1]} \cup r[nx[m][1]]

\* After, of any links.
AfterIn(nx, n) == LET rest[m \in Places] == IF nx[m][1] \notin Nodes THEN {}
                                           ELSE {nx[m][1]} \cup rest[nx[m][1]]
                  IN  rest[n]

LEMMA AfterGoes == ASSUME NEW nx PROVE \E r : Rests(nx, r) /\ \A n : AfterIn(nx, n) = r[n]
<1> DEFINE Stop == {m \in Places : nx[m][1] \notin Nodes}
           succ == [m \in Places |-> nx[m][1]]
           Body(r) == [m \in Places |-> IF nx[m][1] \notin Nodes THEN {}
                                        ELSE {nx[m][1]} \cup r[nx[m][1]]]
           rest == CHOOSE r : r = Body(r)
<1>1. \A m \in Places : m \notin Stop => succ[m] \in Places
  BY DEF Places
<1>2. PICK f : Collects(f, Places, Stop, succ)
  <2> HIDE DEF Stop, succ
  <2> QED BY <1>1, Collected
<1>3. f = Body(f)
  <2>1. f = [m \in Places |-> f[m]]
    BY <1>2 DEF Collects
  <2>2. \A m \in Places : f[m] = IF nx[m][1] \notin Nodes THEN {}
                                 ELSE {nx[m][1]} \cup f[nx[m][1]]
    <3> TAKE m \in Places
    <3>1. f[m] = IF m \in Stop THEN {} ELSE {succ[m]} \cup f[succ[m]]
      BY <1>2 DEF Collects
    <3> QED BY <3>1
  <2> QED BY <2>1, <2>2
<1>4. rest = Body(rest)
  <2> HIDE DEF Body
  <2> QED BY <1>3
<1>5. \A n : AfterIn(nx, n) = rest[n]
  BY DEF AfterIn
<1> HIDE DEF rest
<1>6. Rests(nx, rest)
  BY <1>4 DEF Rests
<1> QED BY <1>5, <1>6

\* m leads along the bottom level to the node of A with the next key.
Precedes(nx, dt, A, m) ==
  \/ nx[m][1] = Nil /\ \A a \in A : KeyAt(dt, a) <= KeyAt(dt, m)
  \/ /\ nx[m][1] \in A /\ KeyAt(dt, nx[m][1]) > KeyAt(dt, m)
     /\ \A a \in A : KeyAt(dt, a) > KeyAt(dt, m) => KeyAt(dt, nx[m][1]) <= KeyAt(dt, a)

\* Behind n come the nodes A, in key order.
Lined(nx, dt, n, A) ==
  /\ A \subseteq Nodes /\ IsFiniteSet(A) /\ n \in Places /\ KeyAt(dt, n) \in Nat /\ Len(nx[n]) >= 1
  /\ \A a \in A : Len(nx[a]) >= 1 /\ dt[a] \in [key : Keys, val : Values] /\ KeyAt(dt, a) > KeyAt(dt, n)
  /\ \A a, b \in A : dt[a].key = dt[b].key => a = b
  /\ \A m \in A \cup {n} : Precedes(nx, dt, A, m)

LEMMA LinedKeys ==
  ASSUME NEW nx, NEW dt, NEW n, NEW A, Lined(nx, dt, n, A)
  PROVE  /\ head_ \notin A /\ Nil \notin A /\ n \notin A /\ n # Nil /\ KeyAt(dt, n) \in Nat
         /\ \A a \in A : KeyAt(dt, a) = dt[a].key /\ KeyAt(dt, a) \in Nat \ {0} /\ dt[a].key \in Keys
         /\ \A a, b \in A \cup {n} : KeyAt(dt, a) = KeyAt(dt, b) => a = b
<1>1. head_ \notin A /\ Nil \notin A /\ n # Nil
  BY NodesAssumption DEF Lined, head_, Places
<1>2. \A a \in A : dt[a].key \in Keys
  BY DEF Lined
<1>3. \A a \in A : KeyAt(dt, a) = dt[a].key /\ KeyAt(dt, a) \in Nat \ {0}
  BY <1>1, <1>2, KeysAssumption DEF KeyAt
<1>4. KeyAt(dt, n) \in Nat /\ \A a \in A : KeyAt(dt, a) > KeyAt(dt, n)
  BY DEF Lined
<1>5. n \notin A
  BY <1>4
<1>6. \A a, b \in A \cup {n} : KeyAt(dt, a) = KeyAt(dt, b) => a = b
  BY <1>3, <1>4 DEF Lined
<1> QED BY <1>1, <1>2, <1>3, <1>4, <1>5, <1>6

\* The way along the bottom level meets what is lined up on it.
LEMMA AfterIs ==
  ASSUME NEW nx, NEW dt, NEW n, NEW A, Lined(nx, dt, n, A)
  PROVE  AfterIn(nx, n) = A
<1> DEFINE key(m) == KeyAt(dt, m)
           Later(m) == {a \in A : key(a) > key(m)}
<1>1. /\ Nil \notin A /\ n \notin A /\ key(n) \in Nat
      /\ \A a \in A : a \in Nodes /\ key(a) \in Nat /\ key(a) > key(n)
      /\ \A a, b \in A \cup {n} : key(a) = key(b) => a = b
  <2>1. A \subseteq Nodes /\ \A a \in A : key(a) > key(n)
    BY DEF Lined
  <2>2. Nil \notin A /\ n \notin A /\ key(n) \in Nat /\ \A a \in A : key(a) \in Nat
    BY LinedKeys
  <2>3. \A a, b \in A \cup {n} : key(a) = key(b) => a = b
    BY LinedKeys
  <2> QED BY <2>1, <2>2, <2>3
<1>2. PICK r : Rests(nx, r) /\ AfterIn(nx, n) = r[n]
  BY AfterGoes
<1> DEFINE B == {m \in A \cup {n} : r[m] # Later(m)}
<1>3. ASSUME B # {} PROVE FALSE
  <2>1. PICK b \in B : \A c \in B : key(c) <= key(b)
    <3>1. IsFiniteSet(A \cup {n})
      BY FS_AddElement DEF Lined
    <3>2. IsFiniteSet(B)
      BY <3>1, FS_Subset
    <3>3. \A b \in B : key(b) \in Nat
      BY <1>1
    <3> HIDE DEF B
    <3> QED BY <1>3, <3>2, <3>3, FurthestOf
  <2>2. b \in A \cup {n} /\ key(b) \in Nat /\ r[b] # Later(b)
    BY <1>1, <2>1
  <2>3. PICK m : m = nx[b][1]
    OBVIOUS
  <2>4. Precedes(nx, dt, A, b)
    BY <2>2 DEF Lined
  <2>5. r[b] = IF m \notin Nodes THEN {} ELSE {m} \cup r[m]
    BY <1>1, <1>2, <2>2, <2>3 DEF Rests, Places, Lined
  <2>6. CASE m \notin Nodes
    <3>1. Later(b) = {}
      BY <1>1, <2>2, <2>3, <2>4, <2>6 DEF Precedes
    <3> QED BY <2>2, <2>5, <2>6, <3>1
  <2>7. CASE m \in Nodes
    <3>1. /\ m \in A /\ key(m) > key(b) /\ key(m) \in Nat
          /\ \A d \in A : key(d) > key(b) => key(m) <= key(d)
      BY <1>1, <2>3, <2>4, <2>7, NodesAssumption DEF Precedes
    <3>2. r[m] = Later(m)
      BY <2>1, <2>2, <3>1
    <3>3. \A d \in A : key(d) > key(b) <=> d = m \/ key(d) > key(m)
      <4> SUFFICES ASSUME NEW d \in A PROVE key(d) > key(b) <=> d = m \/ key(d) > key(m)
        OBVIOUS
      <4>1. key(d) \in Nat /\ (key(d) = key(m) => d = m)
        BY <1>1, <3>1
      <4> HIDE DEF key
      <4> QED BY <2>2, <3>1, <4>1
    <3>4. Later(b) = {m} \cup Later(m)
      BY <3>1, <3>3
    <3> QED BY <2>2, <2>5, <2>7, <3>2, <3>4
  <2> QED BY <2>6, <2>7
<1>4. r[n] = Later(n)
  BY <1>3
<1>5. Later(n) = A
  BY <1>1
<1> QED BY <1>2, <1>4, <1>5

LEMMA ListIsLined ==
  ASSUME NEW nx, NEW dt, NEW L, List(nx, dt, L)
  PROVE  Lined(nx, dt, head_, L)
<1>1. /\ KeyAt(dt, head_) = 0 /\ kMaxHeight \in Nat \ {0} /\ Tall(nx, L, 1) = L
      /\ \A a \in L : KeyAt(dt, a) \in Nat \ {0}
      /\ Len(nx[head_]) >= 1
  <2>1. 1 \in 1..kMaxHeight
    BY KeysAssumption
  <2> QED BY <2>1, KeysAre
<1>2. \A a \in L : Len(nx[a]) >= 1 /\ KeyAt(dt, a) > KeyAt(dt, head_)
  BY <1>1 DEF List
<1>3. ASSUME NEW m \in L \cup {head_} PROVE Precedes(nx, dt, L, m)
  <2>1. 1 \in 1..kMaxHeight /\ Len(nx[m]) >= 1
    BY <1>1, <1>2
  <2>2. Leads(nx, dt, L, 1, m)
    BY <2>1 DEF List
  <2> QED BY <1>1, <2>2 DEF Leads, Precedes
<1> QED BY <1>1, <1>2, <1>3 DEF List, Lined, Places

LEMMA LinkedIs ==
  ASSUME NEW L, List(next, data, L)
  PROVE  Linked = L
<1>1. AfterIn(next, head_) = L
  BY ListIsLined, AfterIs
<1> QED BY <1>1 DEF Linked, After, AfterIn

-----------------------------------------------------------------------------
(* Inserting and deleting. *)

\* Links nx2 are nx with w, of the key k, behind the nodes p on its levels.
LinkedIn(nx, dt, L, w, k, p, nx2, dt2) ==
  /\ w \in Nodes \ L /\ Len(nx2[w]) \in 1..kMaxHeight
  /\ dt2[w] \in [key : Keys, val : Values] /\ dt2[w].key = k
  /\ \A m \in L : dt2[m] = dt[m] /\ dt[m].key # k
  /\ \A i \in 1..kMaxHeight : Before(nx, dt, L, i, k, p[i])
  /\ \A i \in 1..Len(nx2[w]) : nx2[w][i] = nx[p[i]][i]
  /\ \A m \in L \cup {head_} :
       /\ Len(nx2[m]) = Len(nx[m])
       /\ \A i \in 1..kMaxHeight :
            i <= Len(nx[m]) => nx2[m][i] = IF i <= Len(nx2[w]) /\ p[i] = m THEN w ELSE nx[m][i]

LEMMA InsertKeeps ==
  ASSUME NEW nx, NEW dt, NEW L, List(nx, dt, L), NEW k \in Keys,
         NEW w, NEW p, NEW nx2, NEW dt2, LinkedIn(nx, dt, L, w, k, p, nx2, dt2)
  PROVE  List(nx2, dt2, L \cup {w})
<1> DEFINE M == L \cup {w}
           key(m) == KeyAt(dt, m)
           key2(m) == KeyAt(dt2, m)
<1>1. /\ head_ \notin L /\ Nil \notin L /\ key(head_) = 0
      /\ \A m \in L : key(m) = dt[m].key /\ key(m) \in Nat \ {0}
      /\ \A m, n \in L \cup {head_} : key(m) = key(n) => m = n
      /\ k \in Nat \ {0} /\ kMaxHeight \in Nat \ {0}
  BY KeysAre, KeysAssumption
<1>2. /\ w \notin L /\ w # head_ /\ w # Nil /\ w \in Nodes
      /\ key2(w) = k /\ key2(head_) = 0 /\ \A m \in L : key2(m) = key(m) /\ key(m) # k
  BY <1>1, NodesAssumption DEF LinkedIn, KeyAt, head_
<1>3. ASSUME NEW i \in 1..kMaxHeight
      PROVE  \A n \in M \cup {head_} : Len(nx2[n]) >= i => Leads(nx2, dt2, M, i, n)
  <2> DEFINE T == Tall(nx, L, i)
             T2 == Tall(nx2, M, i)
             in == i <= Len(nx2[w])
  <2>1. Len(nx2[w]) \in Nat /\ i \in Nat
    BY <1>1 DEF LinkedIn
  <2>2. /\ \A m \in L : m \in T2 <=> m \in T
        /\ w \in T2 <=> in
        /\ \A m \in T2 : m \in L \/ m = w
    BY <2>1 DEF LinkedIn, Tall
  <2>3. /\ p[i] \in T \cup {head_} /\ key(p[i]) < k /\ \A m \in T : key(m) < k => key(m) <= key(p[i])
        /\ p[i] \in L \cup {head_} /\ Len(nx[p[i]]) >= i
    BY DEF LinkedIn, Before, Tall
  <2>4. T \subseteq L
    BY DEF Tall
  <2>5. ASSUME NEW n \in L \cup {head_}, Len(nx[n]) >= i PROVE Leads(nx, dt, L, i, n)
    BY <2>5 DEF List
  <2>6. CASE ~in
    <3> SUFFICES ASSUME NEW n \in M \cup {head_}, Len(nx2[n]) >= i PROVE Leads(nx2, dt2, M, i, n)
      OBVIOUS
    <3>1. n \in L \cup {head_} /\ Len(nx[n]) >= i /\ nx2[n][i] = nx[n][i]
      BY <2>1, <2>6 DEF LinkedIn
    <3>2. T2 = T
      BY <2>2, <2>4, <2>6
    <3>3. Leads(nx, dt, L, i, n) /\ key2(n) = key(n) /\ \A m \in T : key2(m) = key(m)
      BY <1>1, <1>2, <2>4, <2>5, <3>1
    <3> QED BY <3>1, <3>2, <3>3 DEF Leads
  <2>7. CASE in
    <3>1. T2 = T \cup {w}
      BY <2>2, <2>4, <2>7
    <3>2. Leads(nx, dt, L, i, p[i])
      BY <2>3, <2>5
    <3>3. Leads(nx2, dt2, M, i, w)
      <4>1. nx2[w][i] = nx[p[i]][i]
        BY <2>1, <2>7 DEF LinkedIn
      <4>2. \A m \in T : key(m) > key(p[i]) <=> key(m) > k
        BY <1>1, <1>2, <2>3, <2>4
      <4>3. \A m \in T : key2(m) = key(m) /\ key(m) \in Nat
        BY <1>1, <1>2, <2>4
      <4>4. \/ nx2[w][i] = Nil /\ \A m \in T : ~(key(m) > k)
            \/ /\ nx2[w][i] \in T /\ key(nx2[w][i]) > k
               /\ \A m \in T : key(m) > k => key(nx2[w][i]) <= key(m)
        <5>1. CASE nx[p[i]][i] = Nil /\ \A m \in T : key(m) <= key(p[i])
          BY <1>1, <2>3, <2>4, <4>1, <4>2, <4>3, <5>1
        <5>2. CASE /\ nx[p[i]][i] \in T /\ key(nx[p[i]][i]) > key(p[i])
                   /\ \A m \in T : key(m) > key(p[i]) => key(nx[p[i]][i]) <= key(m)
          BY <4>1, <4>2, <5>2
        <5> QED BY <3>2, <5>1, <5>2 DEF Leads
      <4> HIDE DEF T, T2, key, key2
      <4>5. \/ nx2[w][i] = Nil /\ \A m \in T2 : key2(m) <= key2(w)
            \/ /\ nx2[w][i] \in T2 /\ key2(nx2[w][i]) > key2(w)
               /\ \A m \in T2 : key2(m) > key2(w) => key2(nx2[w][i]) <= key2(m)
        BY <1>1, <1>2, <3>1, <4>3, <4>4
      <4> QED BY <4>5 DEF Leads, T2, key2
    <3>4. ASSUME NEW n \in L \cup {head_}, n = p[i] PROVE Leads(nx2, dt2, M, i, n)
      <4>1. nx2[n][i] = w
        BY <2>1, <2>3, <2>7, <3>4 DEF LinkedIn
      <4>2. key2(n) = key(n) /\ key(n) < k /\ key(n) \in Nat
        BY <1>1, <1>2, <2>3, <3>4
      <4>3. \A m \in T2 : key2(m) > key2(n) => k <= key2(m)
        <5> SUFFICES ASSUME NEW m \in T, key(m) > key(n) PROVE k <= key(m)
          BY <1>1, <1>2, <2>4, <3>1, <4>2
        <5>1. key(m) \in Nat
          BY <1>1, <2>4
        <5> HIDE DEF key
        <5> QED BY <1>1, <2>3, <3>4, <4>2, <5>1
      <4> QED BY <1>2, <3>1, <4>1, <4>2, <4>3 DEF Leads
    <3>5. ASSUME NEW n \in L \cup {head_}, n # p[i], Len(nx[n]) >= i PROVE Leads(nx2, dt2, M, i, n)
      <4>1. nx2[n][i] = nx[n][i]
        BY <2>7, <3>5 DEF LinkedIn
      <4>2. key2(n) = key(n) /\ key(n) \in Nat /\ key(p[i]) \in Nat /\ key(p[i]) # key(n)
        BY <1>1, <1>2, <2>3, <3>5
      <4>3. Leads(nx, dt, L, i, n)
        BY <2>5, <3>5
      <4>4. k > key(n) => p[i] \in T /\ key(p[i]) > key(n)
        <5>1. n \in T \/ n = head_
          BY <3>5 DEF Tall
        <5>2. k > key(n) => key(p[i]) > key(n)
          BY <1>1, <2>3, <4>2, <5>1
        <5> QED BY <1>1, <2>3, <4>2, <5>2
      <4>5. \A m \in T : key2(m) = key(m) /\ key(m) \in Nat
        BY <1>1, <1>2, <2>4
      <4>6. CASE nx[n][i] = Nil /\ \A m \in T : key(m) <= key(n)
        <5> HIDE DEF T, T2, key, key2
        <5>1. \A m \in T2 : key2(m) <= key2(n)
          BY <1>1, <1>2, <3>1, <4>2, <4>4, <4>5, <4>6
        <5> QED BY <4>1, <4>6, <5>1 DEF Leads, T2, key2
      <4>7. CASE /\ nx[n][i] \in T /\ key(nx[n][i]) > key(n)
                 /\ \A m \in T : key(m) > key(n) => key(nx[n][i]) <= key(m)
        <5> HIDE DEF T, T2, key, key2
        <5>1. k > key(n) => key(nx[n][i]) <= k
          <6> SUFFICES ASSUME k > key(n) PROVE key(nx[n][i]) <= k
            OBVIOUS
          <6>1. key(nx[n][i]) <= key(p[i]) /\ key(nx[n][i]) \in Nat
            BY <4>4, <4>5, <4>7
          <6> QED BY <1>1, <2>3, <4>2, <6>1
        <5>2. /\ nx[n][i] \in T2 /\ key2(nx[n][i]) > key2(n)
              /\ \A m \in T2 : key2(m) > key2(n) => key2(nx[n][i]) <= key2(m)
          BY <1>2, <3>1, <4>2, <4>5, <4>7, <5>1
        <5> QED BY <4>1, <5>2 DEF Leads, T2, key2
      <4> QED BY <4>3, <4>6, <4>7 DEF Leads
    <3>6. \A n \in L \cup {head_} : Len(nx2[n]) = Len(nx[n])
      BY DEF LinkedIn
    <3> HIDE DEF T, T2, in, key, key2
    <3> QED BY <3>3, <3>4, <3>5, <3>6
  <2> QED BY <2>6, <2>7
<1>4. M \subseteq Nodes /\ IsFiniteSet(M) /\ Len(nx2[head_]) = kMaxHeight
  BY <1>2, FS_AddElement DEF List, LinkedIn
<1>5. \A n \in M : dt2[n] \in [key : Keys, val : Values] /\ Len(nx2[n]) \in 1..kMaxHeight
  BY DEF List, LinkedIn
<1>6. \A m, n \in M : dt2[m].key = dt2[n].key => m = n
  BY DEF List, LinkedIn
<1> HIDE DEF M
<1>7. List(nx2, dt2, M)
  BY <1>3, <1>4, <1>5, <1>6 DEF List
<1> QED BY <1>7 DEF M

\* Links nx2 are nx without w: the nodes p lead past it on its levels.
LinkedOut(nx, dt, L, w, p, nx2) ==
  /\ w \in L
  /\ \A i \in 1..kMaxHeight : Before(nx, dt, L, i, dt[w].key, p[i])
  /\ \A m \in (L \ {w}) \cup {head_} :
       /\ Len(nx2[m]) = Len(nx[m])
       /\ \A i \in 1..kMaxHeight :
            i <= Len(nx[m]) => nx2[m][i] = IF i <= Len(nx[w]) /\ p[i] = m THEN nx[w][i] ELSE nx[m][i]

LEMMA DeleteKeeps ==
  ASSUME NEW nx, NEW dt, NEW L, List(nx, dt, L),
         NEW w, NEW p, NEW nx2, LinkedOut(nx, dt, L, w, p, nx2)
  PROVE  /\ List(nx2, dt, L \ {w})
         /\ p[1] \in L \cup {head_} /\ nx[p[1]][1] = w
<1> DEFINE M == L \ {w}
           key(m) == KeyAt(dt, m)
           T(i) == Tall(nx, L, i)
<1>1. /\ head_ \notin L /\ Nil \notin L /\ key(head_) = 0
      /\ \A m \in L : key(m) = dt[m].key /\ key(m) \in Nat \ {0}
      /\ \A m, n \in L \cup {head_} : key(m) = key(n) => m = n
      /\ kMaxHeight \in Nat \ {0}
  BY KeysAre
<1>2. w \in L /\ key(w) = dt[w].key /\ Len(nx[w]) \in 1..kMaxHeight /\ Len(nx[w]) \in Nat
  BY <1>1 DEF LinkedOut, List
<1>3. ASSUME NEW i \in 1..kMaxHeight
      PROVE  /\ p[i] \in T(i) \cup {head_} /\ key(p[i]) < key(w)
             /\ \A m \in T(i) : key(m) < key(w) => key(m) <= key(p[i])
             /\ p[i] \in L \cup {head_} /\ Len(nx[p[i]]) >= i
  BY <1>2 DEF LinkedOut, Before, Tall
<1>4. ASSUME NEW i \in 1..kMaxHeight, NEW n \in L \cup {head_}, Len(nx[n]) >= i
      PROVE  Leads(nx, dt, L, i, n)
  BY <1>4 DEF List
<1>5. \A i \in 1..kMaxHeight : T(i) \subseteq L /\ (w \in T(i) <=> i <= Len(nx[w]))
  BY <1>2 DEF Tall
<1>6. ASSUME NEW i \in 1..kMaxHeight, i <= Len(nx[w]) PROVE nx[p[i]][i] = w
  <2>1. w \in T(i) /\ key(w) \in Nat /\ key(p[i]) \in Nat
    BY <1>1, <1>2, <1>3, <1>5, <1>6
  <2>2. Leads(nx, dt, L, i, p[i])
    BY <1>3, <1>4
  <2>3. PICK x : x = nx[p[i]][i]
    OBVIOUS
  <2>4. x \in T(i) /\ key(x) > key(p[i]) /\ key(x) <= key(w)
    BY <1>3, <2>1, <2>2, <2>3 DEF Leads
  <2>5. x \in L /\ key(x) \in Nat
    BY <1>1, <1>5, <2>4
  <2>6. key(x) = key(w)
    <3>1. key(x) < key(w) => key(x) <= key(p[i])
      BY <1>3, <2>4
    <3> HIDE DEF key
    <3> QED BY <2>1, <2>4, <2>5, <3>1
  <2> QED BY <1>1, <1>2, <2>3, <2>5, <2>6
<1>7. ASSUME NEW i \in 1..kMaxHeight, NEW n \in M \cup {head_}, Len(nx2[n]) >= i
      PROVE  Leads(nx2, dt, M, i, n)
  <2>1. /\ n \in L \cup {head_} /\ n # w /\ Len(nx[n]) >= i /\ key(n) \in Nat
        /\ nx2[n][i] = IF i <= Len(nx[w]) /\ p[i] = n THEN nx[w][i] ELSE nx[n][i]
    BY <1>1, <1>2, <1>7 DEF LinkedOut
  <2>2. Tall(nx2, M, i) = T(i) \ {w}
    BY DEF LinkedOut, Tall
  <2>3. Leads(nx, dt, L, i, n)
    BY <1>4, <2>1
  <2>4. \A m \in T(i) : key(m) \in Nat
    BY <1>1, <1>5
  <2>5. CASE ~(i <= Len(nx[w]))
    BY <1>5, <2>1, <2>2, <2>3, <2>5 DEF Leads
  <2>6. CASE i <= Len(nx[w]) /\ p[i] = n
    <3>1. Leads(nx, dt, L, i, w)
      BY <1>2, <1>4, <2>6
    <3>2. nx2[n][i] = nx[w][i] /\ key(n) < key(w) /\ key(w) \in Nat
      BY <1>1, <1>2, <1>3, <2>1, <2>6
    <3>3. ASSUME NEW m \in T(i), m # w PROVE key(m) > key(n) <=> key(m) > key(w)
      <4>1. key(m) \in Nat /\ key(m) # key(w) /\ (key(m) < key(w) => key(m) <= key(n))
        BY <1>1, <1>2, <1>3, <1>5, <2>6, <3>3
      <4> HIDE DEF key
      <4> QED BY <2>1, <3>2, <4>1
    <3>4. CASE nx[w][i] = Nil /\ \A m \in T(i) : key(m) <= key(w)
      <4>1. \A m \in T(i) \ {w} : key(m) <= key(n)
        <5> SUFFICES ASSUME NEW m \in T(i), m # w PROVE key(m) <= key(n)
          OBVIOUS
        <5>1. ~(key(m) > key(n)) /\ key(m) \in Nat
          BY <2>4, <3>2, <3>3, <3>4
        <5> HIDE DEF key
        <5> QED BY <2>1, <5>1
      <4> QED BY <2>2, <3>2, <3>4, <4>1 DEF Leads
    <3>5. CASE /\ nx[w][i] \in T(i) /\ key(nx[w][i]) > key(w)
               /\ \A m \in T(i) : key(m) > key(w) => key(nx[w][i]) <= key(m)
      <4>1. nx[w][i] # w
        BY <3>2, <3>5
      <4>2. /\ nx[w][i] \in T(i) \ {w} /\ key(nx[w][i]) > key(n)
            /\ \A m \in T(i) \ {w} : key(m) > key(n) => key(nx[w][i]) <= key(m)
        BY <3>3, <3>5, <4>1
      <4> QED BY <2>2, <3>2, <4>2 DEF Leads
    <3> QED BY <3>1, <3>4, <3>5 DEF Leads
  <2>7. CASE i <= Len(nx[w]) /\ p[i] # n
    <3>1. nx2[n][i] = nx[n][i] /\ w \in T(i)
      BY <1>5, <2>1, <2>7
    <3>2. CASE nx[n][i] = Nil /\ \A m \in T(i) : key(m) <= key(n)
      BY <2>2, <3>1, <3>2 DEF Leads
    <3>3. CASE /\ nx[n][i] \in T(i) /\ key(nx[n][i]) > key(n)
               /\ \A m \in T(i) : key(m) > key(n) => key(nx[n][i]) <= key(m)
      <4>1. nx[n][i] # w
        <5> SUFFICES ASSUME nx[n][i] = w PROVE FALSE
          OBVIOUS
        <5>1. key(w) > key(n) /\ key(w) \in Nat
          BY <1>1, <1>2, <3>3
        <5>2. n \in T(i) \/ n = head_
          BY <2>1 DEF Tall
        <5>3. key(p[i]) \in Nat /\ key(p[i]) # key(n) /\ key(p[i]) < key(w)
          BY <1>1, <1>3, <2>1, <2>7
        <5>4. key(p[i]) > key(n)
          <6>1. n = head_ => key(n) = 0
            BY <1>1
          <6>2. n \in T(i) => key(n) <= key(p[i])
            BY <1>3, <2>1, <5>1
          <6> HIDE DEF key
          <6> QED BY <2>1, <5>2, <5>3, <6>1, <6>2
        <5>5. p[i] \in T(i)
          BY <1>1, <1>3, <2>1, <5>4
        <5>6. key(w) <= key(p[i])
          BY <3>3, <5>4, <5>5
        <5> HIDE DEF key
        <5> QED BY <5>1, <5>3, <5>6
      <4> QED BY <2>2, <3>1, <3>3, <4>1 DEF Leads
    <3> QED BY <2>3, <3>2, <3>3 DEF Leads
  <2> QED BY <2>5, <2>6, <2>7
<1>8. M \subseteq Nodes /\ IsFiniteSet(M) /\ Len(nx2[head_]) = kMaxHeight
  BY FS_Subset DEF List, LinkedOut
<1>9. \A n \in M : dt[n] \in [key : Keys, val : Values] /\ Len(nx2[n]) \in 1..kMaxHeight
  BY DEF List, LinkedOut
<1>10. \A m, n \in M : dt[m].key = dt[n].key => m = n
  BY DEF List
<1> HIDE DEF M
<1>11. List(nx2, dt, M)
  BY <1>7, <1>8, <1>9, <1>10 DEF List
<1>12. 1 \in 1..kMaxHeight /\ 1 <= Len(nx[w])
  BY <1>1, <1>2
<1> QED BY <1>3, <1>6, <1>11, <1>12 DEF M

-----------------------------------------------------------------------------
(* The iterator's way. *)

\* The way from n leads over the nodes A, in key order.  From where it is on
\* linked nodes on, it leads over all of them and no others.
Trail(nx, dt, n, A, L) ==
  /\ Lined(nx, dt, n, A)
  /\ \A m \in (A \cup {n}) \cap (L \cup {head_}) :
       /\ \A d \in L : KeyAt(dt, d) > KeyAt(dt, m) => d \in A
       /\ \A a \in A : KeyAt(dt, a) > KeyAt(dt, m) => a \in L

LEMMA LinedSame ==
  ASSUME NEW nx, NEW dt, NEW n, NEW A, Lined(nx, dt, n, A), NEW nx2, NEW dt2,
         \A m \in A \cup {n} : nx2[m][1] = nx[m][1] /\ Len(nx2[m]) >= 1 /\ KeyAt(dt2, m) = KeyAt(dt, m),
         \A a \in A : dt2[a] = dt[a]
  PROVE  Lined(nx2, dt2, n, A)
<1>1. \A m \in A \cup {n} : Precedes(nx, dt, A, m)
  BY DEF Lined
<1>2. ASSUME NEW m \in A \cup {n} PROVE Precedes(nx2, dt2, A, m)
  <2>1. nx2[m][1] = nx[m][1] /\ \A a \in A \cup {n} : KeyAt(dt2, a) = KeyAt(dt, a)
    OBVIOUS
  <2>2. Precedes(nx, dt, A, m)
    BY <1>1
  <2> QED BY <2>1, <2>2 DEF Precedes
<1> QED BY <1>2 DEF Lined

\* w, of key k, was put behind q on the bottom level.
Spliced(nx, dt, L, w, k, q, nx2, dt2) ==
  /\ w \in Nodes \ L /\ k \in Keys
  /\ dt2[w] \in [key : Keys, val : Values] /\ dt2[w].key = k
  /\ Len(nx2[w]) >= 1 /\ nx2[w][1] = nx[q][1]
  /\ q \in L \cup {head_} /\ KeyAt(dt, q) < k
  /\ \A m \in L : KeyAt(dt, m) # k /\ (KeyAt(dt, m) < k => KeyAt(dt, m) <= KeyAt(dt, q))
  /\ \A m \in Places : m # w =>
       /\ m # head_ => dt2[m] = dt[m]
       /\ Len(nx[m]) >= 1 => Len(nx2[m]) >= 1 /\ nx2[m][1] = IF m = q THEN w ELSE nx[m][1]

\* On a way that meets q.
LEMMA LinedIn ==
  ASSUME NEW nx, NEW dt, NEW L, NEW n, NEW A, Lined(nx, dt, n, A), Nil \notin A,
         NEW w, NEW k, NEW q, NEW nx2, NEW dt2, Spliced(nx, dt, L, w, k, q, nx2, dt2),
         w \notin A \cup {n}, q \in A \cup {n},
         \A m \in A \cup {n} : KeyAt(dt, m) # k /\ (KeyAt(dt, m) < k => KeyAt(dt, m) <= KeyAt(dt, q))
  PROVE  Lined(nx2, dt2, n, A \cup {w})
<1> DEFINE key(m) == KeyAt(dt, m)
           key2(m) == KeyAt(dt2, m)
           M == A \cup {n}
<1>1. k \in Nat \ {0} /\ w \in Nodes /\ w # head_ /\ w # Nil
  BY KeysAssumption, NodesAssumption DEF Spliced, head_
<1>2. /\ \A m \in M : m \in Places /\ m # w /\ Len(nx[m]) >= 1
      /\ A \subseteq Nodes /\ IsFiniteSet(A) /\ \A a \in A : dt[a] \in [key : Keys, val : Values]
  BY DEF Lined, Places
<1>3. /\ \A m \in M : key(m) \in Nat
      /\ \A a, b \in M : key(a) = key(b) => a = b
      /\ \A a \in A : a # head_ /\ key(a) = dt[a].key
  BY LinedKeys
<1>4. \A m \in M : key2(m) = key(m) /\ Len(nx2[m]) >= 1 /\ nx2[m][1] = IF m = q THEN w ELSE nx[m][1]
  BY <1>2 DEF Spliced, KeyAt
<1>5. key2(w) = k /\ nx2[w][1] = nx[q][1] /\ key(q) < k /\ key(q) \in Nat
  BY <1>1, <1>3 DEF Spliced, KeyAt
<1>6. \A a \in A : dt2[a] = dt[a] /\ key(a) > key(n)
  BY <1>2, <1>3 DEF Spliced, Lined
<1>7. \A m \in M : key(m) # k /\ (key(m) < k => key(m) <= key(q))
  OBVIOUS
<1>8. \A m \in M : Precedes(nx, dt, A, m)
  BY DEF Lined
<1>9. n \in M /\ q \in M /\ A \subseteq M /\ \A m \in M : m = n \/ m \in A
  OBVIOUS
<1> HIDE DEF key, key2, M
<1>10. \A m \in M : m = q \/ (key(m) < k <=> key(m) < key(q))
  <2> SUFFICES ASSUME NEW m \in M, m # q PROVE key(m) < k <=> key(m) < key(q)
    OBVIOUS
  <2>1. key(m) \in Nat /\ key(m) # key(q)
    BY <1>3, <1>9
  <2> QED BY <1>1, <1>5, <1>7, <2>1
<1>11. ASSUME NEW m \in M, m # q
       PROVE  \/ nx[m][1] = Nil /\ (\A a \in A : key(a) <= key(m)) /\ k <= key(m)
              \/ /\ nx[m][1] \in A /\ key(nx[m][1]) > key(m)
                 /\ \A a \in A : key(a) > key(m) => key(nx[m][1]) <= key(a)
                 /\ k > key(m) => key(nx[m][1]) <= k
  <2>1. key(m) \in Nat /\ key(m) # key(q) /\ key(m) # k /\ (key(m) < k <=> key(m) < key(q))
    BY <1>3, <1>7, <1>9, <1>10, <1>11
  <2>2. key(m) < key(q) => q \in A
    <3>1. m \in A => key(m) > key(n)
      BY <1>6
    <3>2. q = n => m \in A /\ ~(key(m) < key(q))
      BY <1>5, <1>9, <1>11, <2>1, <3>1
    <3> QED BY <1>9, <3>2
  <2>3. CASE nx[m][1] = Nil /\ \A a \in A : key(a) <= key(m)
    BY <1>1, <1>5, <2>1, <2>2, <2>3
  <2>4. CASE /\ nx[m][1] \in A /\ key(nx[m][1]) > key(m)
             /\ \A a \in A : key(a) > key(m) => key(nx[m][1]) <= key(a)
    <3>1. key(nx[m][1]) \in Nat
      BY <1>3, <1>9, <2>4
    <3>2. k > key(m) => key(nx[m][1]) <= key(q)
      BY <1>1, <1>5, <2>1, <2>2, <2>4
    <3>3. k > key(m) => key(nx[m][1]) <= k
      BY <1>1, <1>5, <3>1, <3>2
    <3> QED BY <2>4, <3>3
  <2> QED BY <1>8, <2>3, <2>4 DEF Precedes, key
<1>12. \A a \in A : key(a) > key(q) <=> key(a) > k
  <2> SUFFICES ASSUME NEW a \in A PROVE key(a) > key(q) <=> key(a) > k
    OBVIOUS
  <2>1. a \in M /\ key(a) \in Nat /\ key(a) # k
    BY <1>3, <1>7, <1>9
  <2> QED BY <1>1, <1>5, <1>7, <2>1
<1>13. \/ nx[q][1] = Nil /\ \A a \in A : ~(key(a) > k)
       \/ /\ nx[q][1] \in A /\ key(nx[q][1]) > k
          /\ \A a \in A : key(a) > k => key(nx[q][1]) <= key(a)
  <2>1. Precedes(nx, dt, A, q)
    BY <1>8, <1>9
  <2>2. CASE nx[q][1] = Nil /\ \A a \in A : key(a) <= key(q)
    <3>1. \A a \in A : ~(key(a) > k)
      <4> SUFFICES ASSUME NEW a \in A PROVE ~(key(a) > k)
        OBVIOUS
      <4>1. key(a) \in Nat /\ key(a) <= key(q)
        BY <1>3, <1>9, <2>2
      <4> QED BY <1>1, <1>5, <4>1
    <3> QED BY <2>2, <3>1
  <2>3. CASE /\ nx[q][1] \in A /\ key(nx[q][1]) > key(q)
             /\ \A a \in A : key(a) > key(q) => key(nx[q][1]) <= key(a)
    BY <1>12, <2>3
  <2> QED BY <2>1, <2>2, <2>3 DEF Precedes, key
<1> DEFINE A2 == A \cup {w}
<1>14. Precedes(nx2, dt2, A2, w)
  <2>1. \A a \in A2 : key2(a) > key2(w) <=> a \in A /\ key(a) > k
    <3>1. ~(key2(w) > key2(w))
      BY <1>1, <1>5
    <3> QED BY <1>4, <1>5, <1>9, <3>1
  <2>2. \A a \in A2 : key2(a) \in Nat /\ key2(w) \in Nat
    BY <1>1, <1>3, <1>4, <1>5, <1>9
  <2>3. CASE nx[q][1] = Nil /\ \A a \in A : ~(key(a) > k)
    <3>1. \A a \in A2 : key2(a) <= key2(w)
      <4> SUFFICES ASSUME NEW a \in A2 PROVE key2(a) <= key2(w)
        OBVIOUS
      <4>1. ~(key2(a) > key2(w)) /\ key2(a) \in Nat /\ key2(w) \in Nat
        BY <2>1, <2>2, <2>3
      <4> QED BY <4>1
    <3> QED BY <1>5, <2>3, <3>1 DEF Precedes, key2
  <2>4. CASE /\ nx[q][1] \in A /\ key(nx[q][1]) > k
             /\ \A a \in A : key(a) > k => key(nx[q][1]) <= key(a)
    <3>1. nx2[w][1] \in A2 /\ key2(nx2[w][1]) > key2(w)
      BY <1>4, <1>5, <1>9, <2>4
    <3>2. \A a \in A2 : key2(a) > key2(w) => key2(nx2[w][1]) <= key2(a)
      BY <1>4, <1>5, <1>9, <2>1, <2>4
    <3> QED BY <3>1, <3>2 DEF Precedes, key2
  <2> QED BY <1>13, <2>3, <2>4
<1>15. ASSUME NEW m \in M PROVE Precedes(nx2, dt2, A2, m)
  <2>1. CASE m = q
    <3>1. nx2[m][1] = w /\ key2(w) > key2(m)
      BY <1>1, <1>4, <1>5, <2>1
    <3>2. \A a \in A2 : key2(a) > key2(m) => key2(w) <= key2(a)
      <4> SUFFICES ASSUME NEW a \in A, key(a) > key(q) PROVE k <= key(a)
        BY <1>1, <1>4, <1>5, <1>9, <2>1
      <4>1. key(a) > k /\ key(a) \in Nat
        BY <1>3, <1>9, <1>12
      <4> QED BY <1>1, <4>1
    <3> QED BY <3>1, <3>2 DEF Precedes, key2
  <2>2. CASE m # q
    <3>1. nx2[m][1] = nx[m][1] /\ key2(m) = key(m)
      BY <1>4, <2>2
    <3>2. CASE nx[m][1] = Nil /\ (\A a \in A : key(a) <= key(m)) /\ k <= key(m)
      <4>1. \A a \in A2 : key2(a) <= key2(m)
        BY <1>4, <1>5, <1>9, <3>1, <3>2
      <4> QED BY <3>1, <3>2, <4>1 DEF Precedes, key2
    <3>3. CASE /\ nx[m][1] \in A /\ key(nx[m][1]) > key(m)
               /\ \A a \in A : key(a) > key(m) => key(nx[m][1]) <= key(a)
               /\ k > key(m) => key(nx[m][1]) <= k
      <4>1. nx2[m][1] \in A2 /\ key2(nx2[m][1]) > key2(m)
        BY <1>4, <1>9, <3>1, <3>3
      <4>2. \A a \in A2 : key2(a) > key2(m) => key2(nx2[m][1]) <= key2(a)
        BY <1>4, <1>5, <1>9, <3>1, <3>3
      <4> QED BY <4>1, <4>2 DEF Precedes, key2
    <3> QED BY <1>11, <2>2, <3>2, <3>3
  <2> QED BY <2>1, <2>2
<1>16. A2 \subseteq Nodes /\ IsFiniteSet(A2) /\ n \in Places
  BY <1>1, <1>2, <1>9, FS_AddElement
<1>17. key2(n) \in Nat /\ Len(nx2[n]) >= 1
  BY <1>3, <1>4, <1>9
<1>18. \A a \in A2 : Len(nx2[a]) >= 1 /\ dt2[a] \in [key : Keys, val : Values] /\ key2(a) > key2(n)
  <2>1. key2(w) > key2(n)
    <3>1. key(n) <= key(q) /\ key(n) \in Nat
      BY <1>3, <1>5, <1>6, <1>9
    <3> QED BY <1>1, <1>4, <1>5, <1>9, <3>1
  <2>2. Len(nx2[w]) >= 1 /\ dt2[w] \in [key : Keys, val : Values]
    BY DEF Spliced
  <2> QED BY <1>2, <1>4, <1>6, <1>9, <2>1, <2>2
<1>19. \A a, b \in A2 : dt2[a].key = dt2[b].key => a = b
  <2>1. dt2[w].key = k /\ \A a \in A : dt2[a].key = key(a) /\ key(a) # k
    BY <1>3, <1>6, <1>7, <1>9 DEF Spliced, key
  <2> QED BY <1>3, <1>9, <2>1
<1> HIDE DEF A2
<1>20. \A m \in A2 \cup {n} : Precedes(nx2, dt2, A2, m)
  BY <1>9, <1>14, <1>15 DEF A2
<1>21. Lined(nx2, dt2, n, A2)
  BY <1>16, <1>17, <1>18, <1>19, <1>20 DEF Lined, key2
<1> QED BY <1>21 DEF A2

\* Whether the way meets the new node or not.
LEMMA TrailIn ==
  ASSUME NEW nx, NEW dt, NEW L, List(nx, dt, L), NEW n, NEW A, Trail(nx, dt, n, A, L),
         NEW w, NEW k, NEW q, NEW nx2, NEW dt2, Spliced(nx, dt, L, w, k, q, nx2, dt2),
         w \notin A \cup {n}, NEW B, B = IF q \in A \cup {n} THEN A \cup {w} ELSE A
  PROVE  Trail(nx2, dt2, n, B, L \cup {w})
<1> DEFINE key(m) == KeyAt(dt, m)
           key2(m) == KeyAt(dt2, m)
           M == A \cup {n}
           J == M \cap (L \cup {head_})
<1>1. k \in Nat \ {0} /\ w \in Nodes /\ w # head_ /\ w \notin L
  BY KeysAssumption, NodesAssumption DEF Spliced, head_
<1>2. Lined(nx, dt, n, A) /\ n \in Places /\ A \subseteq Nodes /\ \A m \in M : Len(nx[m]) >= 1
  BY DEF Trail, Lined
<1>3. /\ Nil \notin A /\ n \notin A /\ \A m \in M : key(m) \in Nat
      /\ \A a, b \in M : key(a) = key(b) => a = b
  BY <1>2, LinedKeys
<1>4. /\ key(head_) = 0
      /\ \A m \in L : m \in Nodes /\ key(m) \in Nat \ {0}
      /\ \A a, b \in L \cup {head_} : key(a) = key(b) => a = b
  BY KeysAre
<1>5. /\ q \in L \cup {head_} /\ key(q) < k /\ key(q) \in Nat
      /\ \A m \in L : key(m) # k /\ (key(m) < k => key(m) <= key(q))
  BY <1>4 DEF Spliced
<1>6. ASSUME NEW m \in M \cup L \cup {head_}
      PROVE  key2(m) = key(m) /\ (m # head_ => dt2[m] = dt[m])
  BY <1>1, <1>2, <1>4 DEF Spliced, KeyAt, Places
<1>7. key2(w) = k
  BY <1>1 DEF Spliced, KeyAt
<1>8. ASSUME NEW m \in J
      PROVE  /\ \A d \in L : key(d) > key(m) => d \in A
             /\ \A a \in A : key(a) > key(m) => a \in L
  BY <1>8 DEF Trail
<1>9. \A m \in J : key(m) < k => q \in M
  <2> SUFFICES ASSUME NEW m \in J, key(m) < k, q # m PROVE q \in A
    OBVIOUS
  <2>1. key(m) <= key(q) /\ key(m) # key(q) /\ key(m) \in Nat
    BY <1>4, <1>5
  <2>2. q \in L
    BY <1>4, <1>5, <2>1
  <2> HIDE DEF key
  <2>3. key(q) > key(m)
    BY <1>5, <2>1
  <2> QED BY <1>8, <2>2, <2>3
<1> DEFINE A2 == IF q \in M THEN A \cup {w} ELSE A
           M2 == A2 \cup {n}
           L2 == L \cup {w}
<1>10. Lined(nx2, dt2, n, A2)
  <2>1. CASE q \in M
    <3>1. \A m \in M : key(m) # k /\ (key(m) < k => key(m) <= key(q))
      <4> SUFFICES ASSUME NEW m \in M, key(m) > key(q) PROVE key(m) # k /\ ~(key(m) < k)
        <5>1. ASSUME NEW m \in M, ~(key(m) > key(q)) PROVE key(m) <= key(q) /\ key(m) # k
          <6>1. key(m) \in Nat
            BY <1>3
          <6> HIDE DEF key
          <6> QED BY <1>1, <1>5, <5>1, <6>1
        <5> QED BY <5>1
      <4>1. m \in L
        <5>1. m # n
          <6>1. q \in A => key(q) > key(n)
            BY <1>2 DEF Lined
          <6>2. key(n) \in Nat /\ (q = n \/ q \in A) /\ key(m) > key(q)
            BY <1>3, <2>1
          <6> HIDE DEF key
          <6> QED BY <1>5, <6>1, <6>2
        <5>2. q \in J /\ m \in A
          BY <1>5, <2>1, <5>1
        <5> QED BY <1>8, <5>2
      <4>2. key(m) \in Nat
        BY <1>3
      <4> HIDE DEF key
      <4> QED BY <1>1, <1>5, <4>1, <4>2
    <3>2. Lined(nx2, dt2, n, A \cup {w})
      BY <1>2, <1>3, <2>1, <3>1, LinedIn
    <3> QED BY <2>1, <3>2
  <2>2. CASE q \notin M
    <3>1. \A m \in M : nx2[m][1] = nx[m][1] /\ Len(nx2[m]) >= 1 /\ key2(m) = key(m)
      BY <1>2, <1>6, <2>2 DEF Spliced, Places
    <3>2. \A a \in A : dt2[a] = dt[a]
      BY <1>2, <1>6, NodesAssumption DEF head_
    <3>3. Lined(nx2, dt2, n, A)
      BY <1>2, <3>1, <3>2, LinedSame
    <3> QED BY <2>2, <3>3
  <2> QED BY <2>1, <2>2
<1>11. ASSUME NEW m \in M2 \cap (L2 \cup {head_})
       PROVE  /\ \A d \in L2 : key2(d) > key2(m) => d \in A2
              /\ \A a \in A2 : key2(a) > key2(m) => a \in L2
  <2>1. CASE m = w
    <3>1. q \in M /\ A2 = A \cup {w} /\ q \in J
      BY <1>1, <1>5, <2>1
    <3>2. \A d : key(d) \in Nat /\ key(d) > k => key(d) > key(q)
      <4> HIDE DEF key
      <4> QED BY <1>1, <1>5
    <3>3. \A d \in L : key2(d) > k => d \in A
      BY <1>4, <1>6, <1>8, <3>1, <3>2
    <3>4. \A a \in A : key2(a) > k => a \in L
      BY <1>3, <1>6, <1>8, <3>1, <3>2
    <3>5. w \in A2 /\ w \in L2
      BY <3>1
    <3> HIDE DEF key, key2
    <3> QED BY <1>7, <2>1, <3>1, <3>3, <3>4, <3>5
  <2>2. CASE m # w
    <3>1. m \in J /\ key2(m) = key(m)
      BY <1>6, <2>2
    <3>2. \A d \in L : key2(d) > key2(m) => d \in A
      BY <1>6, <1>8, <3>1
    <3>3. \A a \in A : key2(a) > key2(m) => a \in L
      BY <1>6, <1>8, <3>1
    <3>4. k > key2(m) => q \in M
      <4>1. key(m) \in Nat
        BY <1>3, <3>1
      <4> QED BY <1>1, <1>9, <3>1, <4>1
    <3> HIDE DEF key, key2, J, M
    <3> QED BY <1>7, <3>2, <3>3, <3>4
  <2> QED BY <2>1, <2>2
<1> HIDE DEF A2, L2, key2
<1>12. Trail(nx2, dt2, n, A2, L2)
  BY <1>10, <1>11 DEF Trail, key2
<1> QED BY <1>12 DEF A2, L2

\* On the bottom level q leads past w.
Skipped(nx, dt, L, w, q, nx2) ==
  /\ w \in L /\ q \in L \cup {head_} /\ KeyAt(dt, q) < KeyAt(dt, w) /\ nx[q][1] = w
  /\ \A m \in L : KeyAt(dt, m) < KeyAt(dt, w) => KeyAt(dt, m) <= KeyAt(dt, q)
  /\ \A m \in Places : Len(nx[m]) >= 1 =>
       Len(nx2[m]) >= 1 /\ nx2[m][1] = IF m = q THEN nx[w][1] ELSE nx[m][1]

LEMMA LinedOut ==
  ASSUME NEW nx, NEW dt, NEW L, NEW n, NEW A, Lined(nx, dt, n, A), NEW w, NEW q, NEW nx2,
         Skipped(nx, dt, L, w, q, nx2), w \in A, q \in A \cup {n}
  PROVE  Lined(nx2, dt, n, A \ {w})
<1> DEFINE key(m) == KeyAt(dt, m)
           M == A \cup {n}
           A2 == A \ {w}
<1>1. /\ \A m \in M : m \in Places /\ Len(nx[m]) >= 1 /\ Precedes(nx, dt, A, m)
      /\ A \subseteq Nodes /\ IsFiniteSet(A) /\ key(n) \in Nat /\ \A a \in A : key(a) > key(n)
  BY DEF Lined, Places
<1>2. /\ n \notin A /\ Nil \notin A /\ \A m \in M : key(m) \in Nat
      /\ \A a, b \in M : key(a) = key(b) => a = b
  BY LinedKeys
<1>3. \A m \in M : Len(nx2[m]) >= 1 /\ nx2[m][1] = IF m = q THEN nx[w][1] ELSE nx[m][1]
  BY <1>1 DEF Skipped
<1>4. /\ key(q) < key(w) /\ key(q) \in Nat /\ key(w) \in Nat /\ nx[q][1] = w
      /\ \A a \in A : key(a) > key(q) => key(w) <= key(a)
  <2>1. key(q) < key(w) /\ nx[q][1] = w /\ key(q) \in Nat /\ key(w) \in Nat /\ Precedes(nx, dt, A, q)
    BY <1>1, <1>2 DEF Skipped
  <2> QED BY <1>2, <2>1 DEF Precedes
<1>5. n \in M /\ q \in M /\ w \in M /\ A \subseteq M /\ \A m \in M : m = n \/ m \in A
  OBVIOUS
<1> HIDE DEF key, M
<1>6. ASSUME NEW a \in A2, key(a) > key(q) PROVE key(a) > key(w)
  <2>1. key(w) <= key(a) /\ key(a) # key(w) /\ key(a) \in Nat
    BY <1>2, <1>4, <1>5, <1>6
  <2> QED BY <1>4, <2>1
<1>7. ASSUME NEW m \in M, m # q PROVE nx[m][1] # w
  <2> SUFFICES ASSUME nx[m][1] = w PROVE FALSE
    OBVIOUS
  <2>1. key(m) \in Nat /\ key(m) # key(q)
    BY <1>2, <1>5, <1>7
  <2>2. key(w) > key(m) /\ \A a \in A : key(a) > key(m) => key(w) <= key(a)
    BY <1>1, <1>2 DEF Precedes, key
  <2>3. CASE key(m) < key(q)
    <3>1. q \in A
      BY <1>1, <1>4, <1>5, <1>7, <2>1, <2>3
    <3> QED BY <1>4, <2>2, <2>3, <3>1
  <2>4. CASE key(m) > key(q)
    <3>1. m \in A
      BY <1>1, <1>4, <1>5, <1>7, <2>1, <2>4
    <3> QED BY <1>4, <2>1, <2>2, <2>4, <3>1
  <2> QED BY <1>4, <2>1, <2>3, <2>4
<1>8. ASSUME NEW m \in M, m # w PROVE Precedes(nx2, dt, A2, m)
  <2>1. CASE m = q
    <3>1. nx2[m][1] = nx[w][1] /\ Precedes(nx, dt, A, w)
      BY <1>1, <1>3, <1>5, <2>1
    <3>2. CASE nx[w][1] = Nil /\ \A a \in A : key(a) <= key(w)
      <4>1. \A a \in A2 : key(a) <= key(m)
        <5> SUFFICES ASSUME NEW a \in A2, ~(key(a) <= key(m)) PROVE FALSE
          OBVIOUS
        <5>1. key(a) \in Nat /\ key(a) <= key(w)
          BY <1>2, <1>5, <3>2
        <5> QED BY <1>4, <1>6, <2>1, <5>1
      <4> QED BY <3>1, <3>2, <4>1 DEF Precedes, key
    <3>3. CASE /\ nx[w][1] \in A /\ key(nx[w][1]) > key(w)
               /\ \A a \in A : key(a) > key(w) => key(nx[w][1]) <= key(a)
      <4>1. PICK x : x = nx[w][1]
        OBVIOUS
      <4>2. x \in A2 /\ key(x) > key(m)
        <5>1. x \in A /\ key(x) > key(w) /\ key(x) \in Nat
          BY <1>2, <1>5, <3>3, <4>1
        <5> QED BY <1>4, <2>1, <5>1
      <4>3. \A a \in A2 : key(a) > key(m) => key(x) <= key(a)
        BY <1>6, <2>1, <3>3, <4>1
      <4> QED BY <3>1, <4>1, <4>2, <4>3 DEF Precedes, key
    <3> QED BY <3>1, <3>2, <3>3 DEF Precedes, key
  <2>2. CASE m # q
    <3>1. nx2[m][1] = nx[m][1] /\ nx[m][1] # w /\ Precedes(nx, dt, A, m)
      BY <1>1, <1>3, <1>7, <2>2
    <3> QED BY <3>1 DEF Precedes, key
  <2> QED BY <2>1, <2>2
<1>9. A2 \subseteq Nodes /\ IsFiniteSet(A2) /\ n \in Places
  BY <1>1, <1>5, FS_Subset
<1>10. n # w
  BY <1>2
<1>11. \A a \in A2 : Len(nx2[a]) >= 1 /\ dt[a] \in [key : Keys, val : Values] /\ key(a) > key(n)
  BY <1>1, <1>3, <1>5 DEF Lined
<1>12. \A m \in A2 \cup {n} : Precedes(nx2, dt, A2, m)
  BY <1>5, <1>8, <1>10
<1>13. \A a, b \in A2 : dt[a].key = dt[b].key => a = b
  BY DEF Lined
<1>14. key(n) \in Nat /\ Len(nx2[n]) >= 1
  BY <1>1, <1>3, <1>5
<1> HIDE DEF A2
<1>15. Lined(nx2, dt, n, A2)
  BY <1>9, <1>11, <1>12, <1>13, <1>14 DEF Lined, key
<1> QED BY <1>15 DEF A2

\* Where q is not on the way, the way stays as it was, and w with it.
LEMMA TrailOut ==
  ASSUME NEW nx, NEW dt, NEW L, List(nx, dt, L), NEW n, NEW A, Trail(nx, dt, n, A, L),
         NEW w, NEW q, NEW nx2, Skipped(nx, dt, L, w, q, nx2),
         NEW B, B = IF q \in A \cup {n} THEN A \ {w} ELSE A
  PROVE  Trail(nx2, dt, n, B, L \ {w})
<1> DEFINE key(m) == KeyAt(dt, m)
           M == A \cup {n}
           J == M \cap (L \cup {head_})
           A2 == IF q \in M THEN A \ {w} ELSE A
<1>1. Lined(nx, dt, n, A) /\ \A m \in M : m \in Places /\ Len(nx[m]) >= 1
  BY DEF Trail, Lined, Places
<1>2. /\ w \in L /\ q \in L \cup {head_} /\ key(q) < key(w)
      /\ \A m \in L : key(m) < key(w) => key(m) <= key(q)
  BY DEF Skipped
<1>3. /\ key(head_) = 0 /\ head_ \notin L
      /\ \A m \in L : key(m) \in Nat \ {0}
      /\ \A a, b \in L \cup {head_} : key(a) = key(b) => a = b
  BY KeysAre
<1>4. ASSUME NEW m \in J
      PROVE  /\ \A d \in L : key(d) > key(m) => d \in A
             /\ \A a \in A : key(a) > key(m) => a \in L
  BY <1>4 DEF Trail
<1>5. ASSUME NEW m \in J, key(m) < key(w) PROVE q \in M
  <2> SUFFICES ASSUME q # m PROVE q \in A
    BY <1>5
  <2>1. key(m) <= key(q) /\ key(m) # key(q) /\ key(m) \in Nat /\ key(q) \in Nat
    BY <1>2, <1>3, <1>5
  <2> HIDE DEF key
  <2>2. key(q) > key(m)
    BY <2>1
  <2>3. q \in L
    BY <1>2, <1>3, <2>1, <2>2
  <2> QED BY <1>4, <2>2, <2>3
<1>6. Lined(nx2, dt, n, A2)
  <2>1. CASE q \in M
    <3>1. w \in A
      <4>1. q \in J
        BY <1>2, <2>1
      <4> QED BY <1>2, <1>3, <1>4, <4>1
    <3>2. Lined(nx2, dt, n, A \ {w})
      BY <1>1, <2>1, <3>1, LinedOut
    <3> QED BY <2>1, <3>2
  <2>2. CASE q \notin M
    <3>1. \A m \in M : nx2[m][1] = nx[m][1] /\ Len(nx2[m]) >= 1
      BY <1>1, <2>2 DEF Skipped
    <3>2. Lined(nx2, dt, n, A)
      BY <1>1, <3>1, LinedSame
    <3> QED BY <2>2, <3>2
  <2> QED BY <2>1, <2>2
<1>7. ASSUME NEW m \in (A2 \cup {n}) \cap ((L \ {w}) \cup {head_})
      PROVE  /\ \A d \in L \ {w} : key(d) > key(m) => d \in A2
             /\ \A a \in A2 : key(a) > key(m) => a \in L \ {w}
  <2>1. m \in J
    BY <1>7
  <2>2. \A d \in L \ {w} : key(d) > key(m) => d \in A2
    BY <1>4, <2>1
  <2>3. ASSUME NEW a \in A2, key(a) > key(m) PROVE a \in L /\ a # w
    <3>1. a \in L
      BY <1>4, <2>1, <2>3
    <3>2. a = w => q \in M
      <4>1. key(m) \in Nat /\ key(w) \in Nat
        BY <1>2, <1>3, <2>1
      <4>2. key(w) > key(m) => key(m) < key(w)
        <5> HIDE DEF key
        <5> QED BY <4>1
      <4> QED BY <1>5, <2>1, <2>3, <4>2
    <3> QED BY <3>1, <3>2
  <2> QED BY <2>2, <2>3
<1> HIDE DEF A2
<1>8. Trail(nx2, dt, n, A2, L \ {w})
  BY <1>6, <1>7 DEF Trail
<1> QED BY <1>8 DEF A2

\* A way that starts at head_ is the list.
LEMMA TrailStarts ==
  ASSUME NEW nx, NEW dt, NEW L, List(nx, dt, L)
  PROVE  Trail(nx, dt, head_, L, L)
BY ListIsLined DEF Trail

\* One step along the way.
LEMMA TrailGoes ==
  ASSUME NEW nx, NEW dt, NEW L, NEW n, NEW A, Trail(nx, dt, n, A, L)
  PROVE  LET a == nx[n][1]
         IN  \/ a = Nil /\ A = {}
             \/ /\ a \in A /\ \A b \in A : KeyAt(dt, a) <= KeyAt(dt, b)
                /\ Trail(nx, dt, a, A \ {a}, L)
<1> DEFINE key(m) == KeyAt(dt, m)
           a == nx[n][1]
<1>1. Lined(nx, dt, n, A)
  BY DEF Trail
<1>2. /\ n \notin A /\ Nil \notin A /\ n # Nil /\ \A m \in A \cup {n} : key(m) \in Nat
      /\ \A b, c \in A \cup {n} : key(b) = key(c) => b = c
  BY <1>1, LinedKeys
<1>3. \A b \in A : key(b) > key(n)
  BY <1>1 DEF Lined
<1>4. Precedes(nx, dt, A, n)
  BY <1>1 DEF Lined
<1>5. CASE a = Nil /\ \A b \in A : key(b) <= key(n)
  <2>1. A = {}
    <3> SUFFICES ASSUME NEW b \in A PROVE FALSE
      OBVIOUS
    <3>1. key(b) \in Nat /\ key(n) \in Nat /\ key(b) > key(n) /\ key(b) <= key(n)
      BY <1>2, <1>3, <1>5
    <3> QED BY <3>1
  <2> QED BY <1>5, <2>1
<1>6. CASE a \in A /\ \A b \in A : key(b) > key(n) => key(a) <= key(b)
  <2>1. a \in A /\ \A b \in A : key(a) <= key(b)
    BY <1>3, <1>6
  <2>2. \A b \in A \ {a} : key(b) > key(a)
    <3> SUFFICES ASSUME NEW b \in A, b # a PROVE key(b) > key(a)
      OBVIOUS
    <3>1. key(b) \in Nat /\ key(a) \in Nat /\ key(b) # key(a) /\ key(a) <= key(b)
      BY <1>2, <2>1
    <3> QED BY <3>1
  <2>3. ASSUME NEW m \in A PROVE Precedes(nx, dt, A \ {a}, m)
    <3>1. Precedes(nx, dt, A, m)
      BY <1>1 DEF Lined
    <3>2. nx[m][1] = a => ~(key(nx[m][1]) > key(m))
      <4>1. key(m) \in Nat /\ key(a) \in Nat /\ key(a) <= key(m)
        BY <1>2, <2>1
      <4> QED BY <4>1
    <3> QED BY <3>1, <3>2 DEF Precedes
  <2>4. Lined(nx, dt, a, A \ {a})
    <3>1. A \ {a} \subseteq Nodes /\ IsFiniteSet(A \ {a}) /\ a \in Places
      BY <1>1, <2>1, FS_Subset DEF Lined, Places
    <3>2. key(a) \in Nat /\ Len(nx[a]) >= 1
      BY <1>1, <1>2, <2>1 DEF Lined
    <3>3. \A b \in A \ {a} : Len(nx[b]) >= 1 /\ dt[b] \in [key : Keys, val : Values]
      BY <1>1 DEF Lined
    <3>4. \A b, c \in A \ {a} : dt[b].key = dt[c].key => b = c
      BY <1>1 DEF Lined
    <3>5. \A m \in (A \ {a}) \cup {a} : Precedes(nx, dt, A \ {a}, m)
      BY <2>1, <2>3
    <3> QED BY <2>2, <3>1, <3>2, <3>3, <3>4, <3>5 DEF Lined
  <2>5. Trail(nx, dt, a, A \ {a}, L)
    <3>1. ASSUME NEW m \in A \cap (L \cup {head_})
          PROVE  /\ \A d \in L : key(d) > key(m) => d \in A
                 /\ \A b \in A : key(b) > key(m) => b \in L
      BY <3>1 DEF Trail
    <3>2. \A m \in A : ~(key(a) > key(m))
      <4> SUFFICES ASSUME NEW m \in A PROVE ~(key(a) > key(m))
        OBVIOUS
      <4>1. key(m) \in Nat /\ key(a) \in Nat /\ key(a) <= key(m)
        BY <1>2, <2>1
      <4> QED BY <4>1
    <3>3. (A \ {a}) \cup {a} = A
      BY <2>1
    <3> HIDE DEF key, a
    <3> QED BY <2>4, <3>1, <3>2, <3>3 DEF Trail, key
  <2> QED BY <2>1, <2>5
<1> QED BY <1>4, <1>5, <1>6 DEF Precedes

-----------------------------------------------------------------------------
(* The map the nodes hold, and where the way joins it. *)

\* What the nodes S hold, by key.
MapOf(dt, S) == [k \in Keys |-> IF \E n \in S : dt[n].key = k
                               THEN dt[CHOOSE n \in S : dt[n].key = k].val
                               ELSE Absent]

Keyed(dt, S) == /\ S \subseteq Nodes /\ \A n \in S : dt[n] \in [key : Keys, val : Values]
                /\ \A m, n \in S : dt[m].key = dt[n].key => m = n

LEMMA EntryIs ==
  ASSUME NEW dt, NEW S, Keyed(dt, S)
  PROVE  /\ \A n \in S : dt[n].key \in Keys /\ MapOf(dt, S)[dt[n].key] = dt[n].val /\ dt[n].val # Absent
         /\ \A k \in Keys : (\A n \in S : dt[n].key # k) => MapOf(dt, S)[k] = Absent
<1>1. ASSUME NEW n \in S PROVE dt[n].key \in Keys /\ dt[n].val # Absent
  BY NodesAssumption DEF Keyed
<1>2. ASSUME NEW n \in S PROVE MapOf(dt, S)[dt[n].key] = dt[n].val
  <2>1. PICK k \in Keys : k = dt[n].key
    BY <1>1
  <2>2. PICK m : m = CHOOSE x \in S : dt[x].key = k
    OBVIOUS
  <2>3. m \in S /\ dt[m].key = k
    BY <2>1, <2>2
  <2>4. m = n
    BY <2>1, <2>3 DEF Keyed
  <2>5. MapOf(dt, S)[k] = dt[m].val
    BY <2>1, <2>2 DEF MapOf
  <2> QED BY <2>1, <2>4, <2>5
<1>3. \A k \in Keys : (\A n \in S : dt[n].key # k) => MapOf(dt, S)[k] = Absent
  BY DEF MapOf
<1> QED BY <1>1, <1>2, <1>3

\* Which map it is, is settled by its entries.
LEMMA MapIs ==
  ASSUME NEW dt, NEW S, Keyed(dt, S), NEW f, f = [k \in Keys |-> f[k]],
         \A n \in S : f[dt[n].key] = dt[n].val,
         \A k \in Keys : (\A n \in S : dt[n].key # k) => f[k] = Absent
  PROVE  MapOf(dt, S) = f
<1>1. ASSUME NEW k \in Keys PROVE MapOf(dt, S)[k] = f[k]
  <2>1. CASE \E n \in S : dt[n].key = k
    BY <2>1, EntryIs
  <2>2. CASE ~ \E n \in S : dt[n].key = k
    BY <2>2, EntryIs
  <2> QED BY <2>1, <2>2
<1>2. MapOf(dt, S) = [k \in Keys |-> MapOf(dt, S)[k]]
  BY DEF MapOf
<1> QED BY <1>1, <1>2

LEMMA MapIn ==
  ASSUME NEW dt, NEW S, Keyed(dt, S), NEW dt2, NEW w \in Nodes, NEW k \in Keys, NEW v \in Values,
         dt2[w] = [key |-> k, val |-> v], \A n \in S : dt2[n] = dt[n] /\ dt[n].key # k
  PROVE  /\ MapOf(dt, S)[k] = Absent
         /\ MapOf(dt2, S \cup {w}) = [MapOf(dt, S) EXCEPT ![k] = v]
<1> DEFINE f == MapOf(dt, S)
           g == [f EXCEPT ![k] = v]
<1>1. k \in Keys /\ f = [j \in Keys |-> f[j]]
  BY DEF MapOf
<1>2. /\ \A n \in S : dt[n].key \in Keys /\ f[dt[n].key] = dt[n].val
      /\ \A j \in Keys : (\A n \in S : dt[n].key # j) => f[j] = Absent
  BY EntryIs
<1> HIDE DEF f
<1>3. f[k] = Absent
  BY <1>1, <1>2
<1>4. g[k] = v /\ \A j \in Keys : j # k => g[j] = f[j]
  BY <1>1
<1>5. g = [j \in Keys |-> g[j]]
  BY <1>1
<1>6. Keyed(dt2, S \cup {w})
  BY DEF Keyed
<1> HIDE DEF g
<1>7. \A n \in S \cup {w} : g[dt2[n].key] = dt2[n].val
  BY <1>2, <1>4
<1>8. \A j \in Keys : (\A n \in S \cup {w} : dt2[n].key # j) => g[j] = Absent
  BY <1>2, <1>4
<1>9. MapOf(dt2, S \cup {w}) = g
  BY <1>5, <1>6, <1>7, <1>8, MapIs
<1> QED BY <1>3, <1>9 DEF f, g

LEMMA MapOut ==
  ASSUME NEW dt, NEW S, Keyed(dt, S), NEW w \in S
  PROVE  MapOf(dt, S \ {w}) = [MapOf(dt, S) EXCEPT ![dt[w].key] = Absent]
<1> DEFINE f == MapOf(dt, S)
           k == dt[w].key
           g == [f EXCEPT ![k] = Absent]
<1>1. k \in Keys /\ f = [j \in Keys |-> f[j]]
  BY DEF MapOf, Keyed
<1>2. /\ \A n \in S : dt[n].key \in Keys /\ f[dt[n].key] = dt[n].val
      /\ \A j \in Keys : (\A n \in S : dt[n].key # j) => f[j] = Absent
  BY EntryIs
<1> HIDE DEF f
<1>3. g[k] = Absent /\ \A j \in Keys : j # k => g[j] = f[j]
  BY <1>1
<1>4. g = [j \in Keys |-> g[j]]
  BY <1>1
<1>5. Keyed(dt, S \ {w}) /\ \A n \in S \ {w} : dt[n].key # k
  BY DEF Keyed
<1> HIDE DEF g
<1>6. \A n \in S \ {w} : g[dt[n].key] = dt[n].val
  BY <1>2, <1>3, <1>5
<1>7. \A j \in Keys : (\A n \in S \ {w} : dt[n].key # j) => g[j] = Absent
  BY <1>2, <1>3
<1>8. MapOf(dt, S \ {w}) = g
  BY <1>4, <1>5, <1>6, <1>7, MapIs
<1> QED BY <1>8 DEF f, g

LEMMA MapSame ==
  ASSUME NEW dt, NEW S, Keyed(dt, S), NEW dt2, \A n \in S : dt2[n] = dt[n]
  PROVE  MapOf(dt2, S) = MapOf(dt, S)
<1> DEFINE f == MapOf(dt, S)
<1>1. f = [j \in Keys |-> f[j]]
  BY DEF MapOf
<1>2. /\ \A n \in S : f[dt[n].key] = dt[n].val
      /\ \A j \in Keys : (\A n \in S : dt[n].key # j) => f[j] = Absent
  BY EntryIs
<1> HIDE DEF f
<1>3. Keyed(dt2, S)
  BY DEF Keyed
<1>4. MapOf(dt2, S) = f
  BY <1>1, <1>2, <1>3, MapIs
<1> QED BY <1>4 DEF f

\* Where the way is on linked nodes, and the first key there.
JoinsOf(n, A, L) == (A \cup {n}) \cap (L \cup {head_})
JoinOf(dt, n, A, L) == IF n = Nil \/ head_ \in JoinsOf(n, A, L) THEN 0
                       ELSE IF JoinsOf(n, A, L) = {} THEN Absent
                       ELSE Min({dt[m].key : m \in JoinsOf(n, A, L)})

JoinsAt(dt, J, j) == IF J = {} THEN j = Absent
                     ELSE /\ \E m \in J : j = KeyAt(dt, m)
                          /\ \A x \in J : j <= KeyAt(dt, x)

LEMMA JoinIs ==
  ASSUME NEW dt, NEW n, n # Nil, NEW A, NEW L, \A m \in JoinsOf(n, A, L) : KeyAt(dt, m) \in Nat
  PROVE  /\ JoinsAt(dt, JoinsOf(n, A, L), JoinOf(dt, n, A, L))
         /\ \A j : JoinsAt(dt, JoinsOf(n, A, L), j) => j = JoinOf(dt, n, A, L)
<1> DEFINE J == JoinsOf(n, A, L)
           j0 == JoinOf(dt, n, A, L)
           key(m) == KeyAt(dt, m)
<1>1. KeyAt(dt, head_) = 0 /\ \A m \in J : key(m) \in Nat /\ (m # head_ => key(m) = dt[m].key)
  BY DEF KeyAt
<1>2. JoinsAt(dt, J, j0)
  <2>1. CASE head_ \in J
    <3>1. j0 = 0
      BY <2>1 DEF JoinOf
    <3>2. \A x \in J : 0 <= key(x)
      BY <1>1
    <3> HIDE DEF j0, J
    <3> QED BY <1>1, <2>1, <3>1, <3>2 DEF JoinsAt
  <2>2. CASE head_ \notin J /\ J = {}
    BY <2>2 DEF JoinOf, JoinsAt
  <2>3. CASE head_ \notin J /\ J # {}
    <3> DEFINE T == {dt[m].key : m \in J}
    <3>1. j0 = Min(T)
      BY <2>3 DEF JoinOf
    <3> HIDE DEF j0, J
    <3>2. \A m \in J : key(m) = dt[m].key /\ key(m) \in Nat
      BY <1>1, <2>3
    <3>3. T \subseteq Nat /\ T # {}
      BY <2>3, <3>2
    <3> HIDE DEF T
    <3>4. \E x \in T : \A y \in T : x <= y
      BY <3>3, HasLeast
    <3>5. Min(T) \in T /\ \A y \in T : Min(T) <= y
      BY <3>4 DEF Min
    <3>6. (\E m \in J : j0 = key(m)) /\ \A x \in J : j0 <= key(x)
      BY <3>1, <3>2, <3>5 DEF T
    <3> QED BY <2>3, <3>6 DEF JoinsAt
  <2> QED BY <2>1, <2>2, <2>3
<1> HIDE DEF j0, J
<1>3. ASSUME NEW j, JoinsAt(dt, J, j) PROVE j = j0
  <2>1. CASE J = {}
    BY <1>2, <1>3, <2>1 DEF JoinsAt
  <2>2. CASE J # {}
    <3>1. PICK a \in J : j = key(a) /\ \A x \in J : j <= key(x)
      BY <1>3, <2>2 DEF JoinsAt
    <3>2. PICK b \in J : j0 = key(b) /\ \A x \in J : j0 <= key(x)
      BY <1>2, <2>2 DEF JoinsAt
    <3>3. j \in Nat /\ j0 \in Nat /\ j <= j0 /\ j0 <= j
      BY <1>1, <3>1, <3>2
    <3> QED BY <3>3
  <2> QED BY <2>1, <2>2
<1> QED BY <1>2, <1>3 DEF j0, J

\* What a trail says of the keys on it.
OnTheWay(dt, n, A, L) ==
  /\ n # Nil /\ n \notin A /\ head_ \notin A /\ n \in Nodes \cup {head_}
  /\ \A m \in A \cup {n} : KeyAt(dt, m) \in Nat
  /\ \A a \in A : KeyAt(dt, a) = dt[a].key /\ dt[a].key \in Keys /\ KeyAt(dt, a) > KeyAt(dt, n)
  /\ \A a, b \in A \cup {n} : KeyAt(dt, a) = KeyAt(dt, b) => a = b
  /\ Keyed(dt, A) /\ Keyed(dt, L) /\ Keyed(dt, A \ L)

LEMMA TrailKeys ==
  ASSUME NEW nx, NEW dt, NEW n, NEW A, NEW L, Trail(nx, dt, n, A, L), List(nx, dt, L)
  PROVE  OnTheWay(dt, n, A, L)
<1>1. Lined(nx, dt, n, A)
  BY DEF Trail
<1>2. /\ head_ \notin A /\ n \notin A /\ n # Nil /\ KeyAt(dt, n) \in Nat
      /\ \A a \in A : KeyAt(dt, a) = dt[a].key /\ KeyAt(dt, a) \in Nat \ {0} /\ dt[a].key \in Keys
      /\ \A a, b \in A \cup {n} : KeyAt(dt, a) = KeyAt(dt, b) => a = b
  BY <1>1, LinedKeys
<1>3. n \in Nodes \cup {head_} /\ \A a \in A : KeyAt(dt, a) > KeyAt(dt, n)
  BY <1>1 DEF Lined, Places
<1>4. Keyed(dt, A)
  BY <1>1 DEF Keyed, Lined
<1>5. Keyed(dt, L)
  BY DEF Keyed, List
<1>6. Keyed(dt, A \ L)
  BY <1>4 DEF Keyed
<1> QED BY <1>2, <1>3, <1>4, <1>5, <1>6 DEF OnTheWay

\* A node put in behind the join leaves it where it is.
LEMMA JoinIn ==
  ASSUME NEW nx, NEW dt, NEW L, List(nx, dt, L), NEW n, NEW A, Trail(nx, dt, n, A, L),
         NEW w, NEW k, NEW q, NEW nx2, NEW dt2, Spliced(nx, dt, L, w, k, q, nx2, dt2),
         w \notin A \cup {n}, NEW B, B = IF q \in A \cup {n} THEN A \cup {w} ELSE A
  PROVE  JoinOf(dt2, n, B, L \cup {w}) = JoinOf(dt, n, A, L)
<1> DEFINE A2 == IF q \in A \cup {n} THEN A \cup {w} ELSE A
           J == JoinsOf(n, A, L)
           J2 == JoinsOf(n, A2, L \cup {w})
           j == JoinOf(dt, n, A, L)
<1>1. k \in Nat \ {0} /\ w \in Nodes /\ w # head_
  BY KeysAssumption, NodesAssumption DEF Spliced, head_
<1>2. n # Nil /\ A \subseteq Nodes /\ \A m \in A \cup {n} : m \in Places /\ KeyAt(dt, m) \in Nat
  BY TrailKeys DEF Keyed, Places, OnTheWay
<1>3. \A m \in J : KeyAt(dt2, m) = KeyAt(dt, m) /\ KeyAt(dt, m) \in Nat /\ m # w
  BY <1>2 DEF Spliced, KeyAt, JoinsOf
<1>4. KeyAt(dt2, w) = k
  BY <1>1 DEF Spliced, KeyAt
<1>5. J2 = IF q \in A \cup {n} THEN J \cup {w} ELSE J
  BY <1>1 DEF JoinsOf
<1>6. q \in A \cup {n} => q \in J /\ KeyAt(dt, q) < k
  BY DEF Spliced, JoinsOf
<1>7. JoinsAt(dt, J, j)
  BY <1>2, <1>3, JoinIs
<1> HIDE DEF J, J2, j
<1>8. JoinsAt(dt2, J2, j)
  <2>1. CASE J = {}
    BY <1>5, <1>6, <1>7, <2>1 DEF JoinsAt
  <2>2. CASE J # {}
    <3>1. PICK m \in J : j = KeyAt(dt, m) /\ \A x \in J : j <= KeyAt(dt, x)
      BY <1>7, <2>2 DEF JoinsAt
    <3>2. m \in J2 /\ j = KeyAt(dt2, m) /\ j \in Nat
      BY <1>3, <1>5, <3>1
    <3>3. \A x \in J : j <= KeyAt(dt2, x)
      BY <1>3, <3>1
    <3>4. w \in J2 => j <= KeyAt(dt2, w)
      <4>1. w \in J2 => j <= KeyAt(dt, q) /\ KeyAt(dt, q) \in Nat /\ KeyAt(dt, q) < k
        BY <1>3, <1>5, <1>6, <3>1
      <4> QED BY <1>1, <1>4, <3>2, <4>1
    <3>5. \A x \in J2 : j <= KeyAt(dt2, x)
      BY <1>5, <3>3, <3>4
    <3> QED BY <3>2, <3>5 DEF JoinsAt
  <2> QED BY <2>1, <2>2
<1>9. \A m \in J2 : KeyAt(dt2, m) \in Nat
  BY <1>1, <1>3, <1>4, <1>5
<1> HIDE DEF A2
<1>10. JoinOf(dt2, n, A2, L \cup {w}) = j
  BY <1>2, <1>8, <1>9, JoinIs DEF J2
<1> QED BY <1>10 DEF A2, j

\* The nodes behind the key k.
Above(dt, L, k) == {x \in L : KeyAt(dt, x) > k}

\* The join and the way when the node w with the key k leaves the list: the join's
\* node stays on the way, which meets the list again at the next key there;
\* another node changes neither the join nor the ghosts.
Rejoins(dt, n, A, L, w, k, A2, L2) ==
  /\ JoinOf(dt, n, A, L) # k =>
       JoinOf(dt, n, A2, L2) = JoinOf(dt, n, A, L) /\ A2 \ L2 = A \ L
  /\ JoinOf(dt, n, A, L) = k =>
       /\ A2 = A /\ w \in A \cup {n}
       /\ JoinsAt(dt, Above(dt, L, k), JoinOf(dt, n, A2, L2))

LEMMA JoinOut ==
  ASSUME NEW nx, NEW dt, NEW L, List(nx, dt, L), NEW n, NEW A, Trail(nx, dt, n, A, L),
         NEW w, NEW q, NEW nx2, Skipped(nx, dt, L, w, q, nx2), NEW A2, NEW L2, NEW k,
         A2 = IF q \in A \cup {n} THEN A \ {w} ELSE A, L2 = L \ {w}, k = dt[w].key
  PROVE  Rejoins(dt, n, A, L, w, k, A2, L2)
<1> DEFINE J == JoinsOf(n, A, L)
           J2 == JoinsOf(n, A2, L2)
           j == JoinOf(dt, n, A, L)
           key(m) == KeyAt(dt, m)
<1>1. /\ w \in L /\ q \in L \cup {head_} /\ key(q) < key(w)
      /\ \A m \in L : key(m) < key(w) => key(m) <= key(q)
  BY DEF Skipped
<1>2. /\ n # Nil /\ \A m \in A \cup {n} : key(m) \in Nat
      /\ \A a, b \in A \cup {n} : key(a) = key(b) => a = b
  <2>1. OnTheWay(dt, n, A, L)
    BY TrailKeys
  <2> QED BY <2>1 DEF OnTheWay
<1>3. /\ key(head_) = 0 /\ head_ \notin L /\ key(w) = k
      /\ \A m \in L : key(m) \in Nat \ {0}
      /\ \A a, b \in L \cup {head_} : key(a) = key(b) => a = b
  BY <1>1, KeysAre
<1>4. ASSUME NEW m \in J
      PROVE  /\ \A d \in L : key(d) > key(m) => d \in A
             /\ \A a \in A : key(a) > key(m) => a \in L
  BY <1>4 DEF Trail, JoinsOf
<1>5. J \subseteq A \cup {n} /\ J \subseteq L \cup {head_} /\ w \in Nodes
  BY <1>1 DEF JoinsOf, List
<1>6. ASSUME NEW m \in J, key(m) < key(w) PROVE q \in A \cup {n} /\ q \in J
  <2>1. q = m \/ q \in A
    <3> SUFFICES ASSUME q # m PROVE q \in A
      OBVIOUS
    <3>1. key(m) <= key(q) /\ key(m) # key(q) /\ key(m) \in Nat /\ key(q) \in Nat
      BY <1>1, <1>3, <1>5, <1>6
    <3> HIDE DEF key, J
    <3>2. key(q) > key(m)
      BY <3>1
    <3>3. q \in L
      BY <1>1, <1>3, <3>1, <3>2
    <3> QED BY <1>4, <3>2, <3>3
  <2> QED BY <1>1, <1>5, <2>1 DEF JoinsOf
<1>7. q \in A \cup {n} => w \in A /\ q \in J
  <2> SUFFICES ASSUME q \in A \cup {n} PROVE w \in A /\ q \in J
    OBVIOUS
  <2>1. q \in J
    BY <1>1 DEF JoinsOf
  <2>2. key(w) > key(q)
    <3>1. key(w) \in Nat /\ key(q) \in Nat
      BY <1>1, <1>3
    <3> HIDE DEF key
    <3> QED BY <1>1, <3>1
  <2> HIDE DEF key, J
  <2> QED BY <1>1, <1>4, <2>1, <2>2
<1>8. JoinsAt(dt, J, j) /\ \A x : JoinsAt(dt, J, x) => x = j
  BY <1>2, <1>5, JoinIs
<1>9. J2 = J \ {w}
  <2>1. CASE q \in A \cup {n}
    <3>1. w \in A /\ w # n
      <4>1. w \in A
        BY <1>7, <2>1
      <4>2. n \notin A
        BY TrailKeys DEF OnTheWay
      <4> QED BY <4>1, <4>2
    <3>2. A2 \cup {n} = (A \cup {n}) \ {w}
      BY <2>1, <3>1
    <3> QED BY <1>1, <1>3, <3>2 DEF JoinsOf
  <2>2. CASE q \notin A \cup {n}
    BY <1>1, <1>3, <2>2 DEF JoinsOf
  <2> QED BY <2>1, <2>2
<1>10. \A m \in J2 : key(m) \in Nat
  BY <1>2, <1>5, <1>9
<1>11. /\ JoinsAt(dt, J2, JoinOf(dt, n, A2, L2))
       /\ \A x : JoinsAt(dt, J2, x) => x = JoinOf(dt, n, A2, L2)
  <2>1. \A m \in JoinsOf(n, A2, L2) : KeyAt(dt, m) \in Nat
    BY <1>10
  <2>2. ASSUME NEW B, NEW C, \A m \in JoinsOf(n, B, C) : KeyAt(dt, m) \in Nat
        PROVE  /\ JoinsAt(dt, JoinsOf(n, B, C), JoinOf(dt, n, B, C))
               /\ \A x : JoinsAt(dt, JoinsOf(n, B, C), x) => x = JoinOf(dt, n, B, C)
    BY <1>2, <2>2, JoinIs
  <2> QED BY <2>1, <2>2, Zenon
<1>12. \A m \in J : key(m) \in Nat /\ (key(m) = key(w) => m = w)
  BY <1>1, <1>2, <1>3, <1>5
<1>13. k \in Nat \ {0} /\ key(w) = k /\ key(q) \in Nat
  BY <1>1, <1>3
<1>14. \A x \in L : key(x) \in Nat
  BY <1>3
<1>15. w \in A \cup {n} <=> w \in J
  BY <1>1 DEF JoinsOf
<1> HIDE DEF J, J2, j, key
<1>16. ASSUME j # k PROVE JoinOf(dt, n, A2, L2) = j /\ A2 \ L2 = A \ L
  <2>1. CASE q \in A \cup {n}
    <3>1. PICK m \in J : j = key(m) /\ \A x \in J : j <= key(x)
      BY <1>7, <1>8, <2>1 DEF JoinsAt, key
    <3>2. m \in J2
      BY <1>9, <1>13, <1>16, <3>1
    <3>3. \A x \in J2 : j <= key(x)
      BY <1>9, <3>1
    <3>4. JoinsAt(dt, J2, j)
      BY <3>1, <3>2, <3>3 DEF JoinsAt, key
    <3>5. A2 \ L2 = A \ L
      BY <1>1, <2>1
    <3> QED BY <1>11, <3>4, <3>5
  <2>2. CASE q \notin A \cup {n}
    <3>1. w \notin J
      <4> SUFFICES ASSUME w \in J PROVE FALSE
        OBVIOUS
      <4>1. PICK m \in J : j = key(m) /\ \A x \in J : j <= key(x)
        BY <1>8 DEF JoinsAt, key
      <4>2. key(m) < key(w)
        BY <1>12, <1>13, <1>16, <4>1
      <4> QED BY <1>6, <2>2, <4>2
    <3>2. J2 = J /\ A2 = A
      BY <1>9, <2>2, <3>1
    <3>3. w \notin A
      BY <1>15, <3>1
    <3>4. A2 \ L2 = A \ L
      BY <3>2, <3>3
    <3> QED BY <1>8, <1>11, <3>2, <3>4
  <2> QED BY <2>1, <2>2
<1>17. ASSUME j = k
       PROVE  /\ A2 = A /\ w \in A \cup {n}
              /\ JoinsAt(dt, Above(dt, L, k), JoinOf(dt, n, A2, L2))
  <2>1. J # {}
    BY <1>8, <1>13, <1>17, NodesAssumption DEF JoinsAt
  <2>2. PICK m \in J : j = key(m) /\ \A x \in J : j <= key(x)
    BY <1>8, <2>1 DEF JoinsAt, key
  <2>3. m = w /\ w \in J
    BY <1>12, <1>13, <1>17, <2>2
  <2>4. q \notin A \cup {n}
    <3> SUFFICES ASSUME q \in J PROVE FALSE
      BY <1>7
    <3>1. key(q) < k /\ k <= key(q)
      BY <1>1, <1>13, <1>17, <2>2
    <3> QED BY <1>13, <3>1
  <2>5. J2 = {x \in L : key(x) > k}
    <3>1. ASSUME NEW x \in L, key(x) > k PROVE x \in J /\ x # w
      <4>1. x # w
        BY <1>13, <3>1
      <4>2. x \in A
        BY <1>4, <1>13, <2>3, <3>1
      <4> QED BY <4>1, <4>2 DEF J, JoinsOf
    <3>2. ASSUME NEW x \in J, x # w PROVE x \in L /\ key(x) > k
      <4>1. k <= key(x) /\ key(x) \in Nat /\ key(x) # k
        BY <1>12, <1>13, <1>17, <2>2, <3>2
      <4>2. key(x) > k /\ key(x) # 0
        BY <1>13, <4>1
      <4> QED BY <1>3, <1>5, <4>2
    <3> QED BY <1>9, <3>1, <3>2
  <2> QED BY <1>11, <1>15, <2>3, <2>4, <2>5 DEF Above, key
<1> QED BY <1>16, <1>17 DEF j, key, Rejoins

\* From the join on, the way's keys are the map's.
LEMMA LiveAre ==
  ASSUME NEW nx, NEW dt, NEW L, List(nx, dt, L), NEW n, NEW A, Trail(nx, dt, n, A, L),
         NEW j, j = JoinOf(dt, n, A, L)
  PROVE  /\ j = Absent => A \cap L = {}
         /\ j # Absent => /\ j \in Nat
                          /\ \A x \in L : x \in A <=> KeyAt(dt, x) > KeyAt(dt, n) /\ KeyAt(dt, x) >= j
<1> DEFINE J == JoinsOf(n, A, L)
           key(m) == KeyAt(dt, m)
<1>1. /\ n # Nil /\ \A m \in A \cup {n} : key(m) \in Nat
      /\ \A a, b \in A \cup {n} : key(a) = key(b) => a = b
      /\ \A a \in A : key(a) > key(n)
  <2>1. OnTheWay(dt, n, A, L)
    BY TrailKeys
  <2> QED BY <2>1 DEF OnTheWay
<1>2. /\ key(head_) = 0 /\ head_ \notin L
      /\ \A m \in L : key(m) \in Nat \ {0}
      /\ \A a, b \in L \cup {head_} : key(a) = key(b) => a = b
  BY KeysAre
<1>3. ASSUME NEW m \in J PROVE \A d \in L : key(d) > key(m) => d \in A
  BY <1>3 DEF Trail, JoinsOf
<1>4. J \subseteq A \cup {n} /\ J \subseteq L \cup {head_} /\ A \cap L \subseteq J
  BY DEF JoinsOf
<1>5. JoinsAt(dt, J, j)
  BY <1>1, <1>4, JoinIs
<1> HIDE DEF J, key
<1>6. CASE J = {}
  BY <1>4, <1>5, <1>6 DEF JoinsAt
<1>7. CASE J # {}
  <2>1. PICK m \in J : j = key(m) /\ \A x \in J : j <= key(x)
    BY <1>5, <1>7 DEF JoinsAt, key
  <2>2. j \in Nat /\ j # Absent
    BY <1>1, <1>4, <2>1, NodesAssumption
  <2>3. ASSUME NEW x \in L, x \in A PROVE key(x) > key(n) /\ key(x) >= j
    <3>1. x \in J /\ key(x) \in Nat
      BY <1>2, <1>4, <2>3
    <3> QED BY <1>1, <2>1, <2>2, <2>3, <3>1
  <2>4. ASSUME NEW x \in L, key(x) > key(n), key(x) >= j PROVE x \in A
    <3>1. key(x) \in Nat
      BY <1>2
    <3>2. CASE key(x) = j
      <4>1. x = m /\ x # n
        <5>1. x = m
          BY <1>2, <1>4, <2>1, <3>2
        <5>2. key(n) \in Nat
          BY <1>1
        <5> QED BY <2>4, <3>1, <5>1, <5>2
      <4> QED BY <1>4, <4>1
    <3>3. CASE key(x) > j
      BY <1>3, <2>1, <3>3
    <3> QED BY <2>2, <2>4, <3>1, <3>2, <3>3
  <2> QED BY <2>2, <2>3, <2>4 DEF key
<1> QED BY <1>6, <1>7

-----------------------------------------------------------------------------
(* The invariant. *)

\* The nodes that were ever inserted: unlinked ones keep what they hold.
Written == {n \in Nodes : Len(next[n]) >= 1}

\* Every node that was written leads on, to written ones only, and the iterator
\* stands on one of them.
Shapes ==
  /\ next \in [Places -> Seq(Nodes \cup {Nil})]
  /\ \A n \in Places : Len(next[n]) <= kMaxHeight
  /\ Len(next[head_]) >= 1
  /\ \A n \in Written \cup {head_} : \A i \in 1..Len(next[n]) : next[n][i] \in Written \cup {Nil}
  /\ \A n \in Written : data[n] \in [key : Keys, val : Values]
  /\ data \in [Nodes -> [key : Keys, val : Values] \cup {Nil}]
  /\ iter \in Written \cup {head_, Nil}
  /\ seen \in [Keys -> Values \cup {Absent}]

\* What the nodes L add to mem_usage.
Sizes(dt, L) == [n \in L |-> KeyLen[dt[n].key] + ValLen[dt[n].val]]

\* The nodes L are linked and counted.
Holds(L) == /\ List(next, data, L)
            /\ max_level \in 1..kMaxHeight
            /\ \A n \in L : Level(n) <= max_level
            /\ size = Cardinality(L)
            /\ mem_usage = SumFunctionOnSet(Sizes(data, L), L)

\* The iterator's way leads over the nodes A.
Tracks(L, A) == IF iter = Nil THEN A = {} ELSE Trail(next, data, iter, A, L)

IInv == Shapes /\ \E L, A \in SUBSET Nodes : Holds(L) /\ Tracks(L, A)

LEMMA SizesAre ==
  ASSUME NEW dt, NEW L, \A n \in L : dt[n] \in [key : Keys, val : Values]
  PROVE  \A n \in L : Sizes(dt, L)[n] \in Nat
<1>1. \A n \in L : dt[n].key \in Keys /\ dt[n].val \in Values
  OBVIOUS
<1>2. \A n \in L : KeyLen[dt[n].key] \in Nat /\ ValLen[dt[n].val] \in Nat
  BY <1>1, KeysAssumption
<1> QED BY <1>2 DEF Sizes

LEMMA InitHolds == Init => IInv
<1> SUFFICES ASSUME Init PROVE IInv
  OBVIOUS
<1>1. kMaxHeight \in Nat \ {0} /\ Nil \notin Nodes \cup {0} /\ 0 \notin Nodes
  BY KeysAssumption, NodesAssumption
<1>2. Written = {}
  <2>1. \A n \in Nodes : next[n] = <<>>
    BY <1>1 DEF Init, Places, head_
  <2> QED BY <2>1 DEF Written
<1>3. next[head_] = [i \in 1..kMaxHeight |-> Nil] /\ Len(next[head_]) = kMaxHeight
  BY <1>1 DEF Init, Places
<1>4. Shapes
  <2>1. [i \in 1..kMaxHeight |-> Nil] \in Seq(Nodes \cup {Nil}) /\ <<>> \in Seq(Nodes \cup {Nil})
    BY <1>1
  <2>2. \A n \in Places : next[n] \in Seq(Nodes \cup {Nil}) /\ Len(next[n]) <= kMaxHeight
    BY <1>1, <1>3, <2>1 DEF Init
  <2>3. next \in [Places -> Seq(Nodes \cup {Nil})]
    BY <2>2 DEF Init
  <2>4. Len(next[head_]) >= 1 /\ \A i \in 1..Len(next[head_]) : next[head_][i] = Nil
    BY <1>1, <1>3
  <2> QED BY <1>2, <2>2, <2>3, <2>4 DEF Init, Shapes, Nothing
<1>5. Holds({})
  <2>1. List(next, data, {})
    <3>1. \A i \in 1..kMaxHeight : Leads(next, data, {}, i, head_)
      BY <1>3 DEF Leads, Tall
    <3> QED BY <1>3, <3>1, FS_EmptySet DEF List
  <2>2. SumFunctionOnSet(Sizes(data, {}), {}) = 0
    BY SumOfNone
  <2> QED BY <1>1, <2>1, <2>2, FS_EmptySet DEF Init, Holds
<1>6. Tracks({}, {})
  BY DEF Init, Tracks
<1> QED BY <1>4, <1>5, <1>6 DEF IInv

\* Insert links in w, with l levels, behind the nodes p.
InsertAt(L, k, v, w, l, p) ==
  /\ w \in Nodes \ L /\ w \in Unused /\ l \in 1..kMaxHeight
  /\ \A m \in L : data[m].key # k
  /\ \A i \in 1..kMaxHeight : Before(next, data, L, i, k, p[i])
  /\ next' = [m \in Places |-> next'[m]]
  /\ next'[w] = [i \in 1..l |-> next[p[i]][i]]
  /\ \A m \in Places : m # w =>
       next'[m] = [i \in 1..Len(next[m]) |-> IF i <= l /\ p[i] = m THEN w ELSE next[m][i]]
  /\ data' = [data EXCEPT ![w] = [key |-> k, val |-> v]]
  /\ max_level' = Max({l, max_level})
  /\ size' = size + 1
  /\ mem_usage' = mem_usage + Added(k, v)
  /\ UNCHANGED <<iter, seen>>

LEMMA InsertGoes ==
  ASSUME Shapes, NEW L \in SUBSET Nodes, Holds(L), NEW k \in Keys, NEW v \in Values, Insert(k, v)
  PROVE  \E w, l, p : InsertAt(L, k, v, w, l, p)
<1>1. Nil \notin Nodes \cup {0}
  BY NodesAssumption
<1>2. Linked = L /\ Answers(data, L, k, Search(k)) /\ Search(k) = Nil
  BY LinkedIs, SearchAnswers DEF Holds, Insert, Contains
<1>3. \A m \in L : data[m].key # k
  BY <1>1, <1>2 DEF Answers
<1>4. PICK w \in Unused, l \in RandomLevel :
        LET prev == FindPrevNode(k)
        IN  /\ next' = [m \in Places |->
                         IF m = w THEN [i \in 1..l |-> next[prev[i]][i]]
                         ELSE [i \in DOMAIN next[m] |->
                                IF i <= l /\ prev[i] = m THEN w ELSE next[m][i]]]
            /\ data' = [data EXCEPT ![w] = [key |-> k, val |-> v]]
            /\ max_level' = Max({l, max_level})
  BY DEF Insert
<1> DEFINE prev == FindPrevNode(k)
<1>5. \A i \in 1..kMaxHeight : Before(next, data, L, i, k, prev[i])
  BY PrevIsBefore DEF Holds
<1>6. w \in Nodes \ L /\ l \in 1..kMaxHeight
  BY <1>2, <1>4 DEF Unused, RandomLevel
<1> HIDE DEF prev
<1>7. next' = [m \in Places |->
                 IF m = w THEN [i \in 1..l |-> next[prev[i]][i]]
                 ELSE [i \in DOMAIN next[m] |->
                        IF i <= l /\ prev[i] = m THEN w ELSE next[m][i]]]
  BY <1>4 DEF prev
<1>8. next' = [m \in Places |-> next'[m]] /\ next'[w] = [i \in 1..l |-> next[prev[i]][i]]
  BY <1>6, <1>7 DEF Places
<1>9. \A m \in Places : m # w =>
        next'[m] = [i \in 1..Len(next[m]) |-> IF i <= l /\ prev[i] = m THEN w ELSE next[m][i]]
  <2> TAKE m \in Places
  <2>1. DOMAIN next[m] = 1..Len(next[m])
    BY DEF Shapes
  <2>2. m # w => next'[m] = [i \in DOMAIN next[m] |-> IF i <= l /\ prev[i] = m THEN w ELSE next[m][i]]
    BY <1>7
  <2> QED BY <2>1, <2>2
<1>10. UNCHANGED <<iter, seen>> /\ size' = size + 1 /\ mem_usage' = mem_usage + Added(k, v)
  BY DEF Insert
<1>11. InsertAt(L, k, v, w, l, prev)
  BY <1>3, <1>4, <1>5, <1>6, <1>8, <1>9, <1>10 DEF InsertAt
<1> QED BY <1>11

LEMMA InsertHolds ==
  ASSUME Shapes, NEW L \in SUBSET Nodes, Holds(L), NEW k \in Keys, NEW v \in Values,
         NEW w, NEW l, NEW prev, InsertAt(L, k, v, w, l, prev)
  PROVE  Shapes' /\ Holds(L \cup {w})'
<1> DEFINE node == [key |-> k, val |-> v]
<1>1. /\ kMaxHeight \in Nat \ {0} /\ Nil \notin Nodes \cup {0} /\ 0 \notin Nodes
      /\ max_level \in 1..kMaxHeight /\ max_level \in Nat
  BY KeysAssumption, NodesAssumption DEF Holds
<1>2. /\ max_level' = Max({l, max_level}) /\ size' = size + 1
      /\ mem_usage' = mem_usage + Added(k, v) /\ UNCHANGED <<iter, seen>>
  BY DEF InsertAt
<1>3. \A m \in L : data[m].key # k
  BY DEF InsertAt
<1>4. next' = [m \in Places |-> next'[m]]
  BY DEF InsertAt
<1>5. \A i \in 1..kMaxHeight : Before(next, data, L, i, k, prev[i])
  BY DEF InsertAt
<1>6. w \in Nodes \ L /\ l \in 1..kMaxHeight /\ l \in Nat
  BY <1>1 DEF InsertAt
<1>7. \A i \in 1..kMaxHeight : prev[i] \in L \cup {head_} /\ Len(next[prev[i]]) >= i
  BY <1>5 DEF Before
<1>9. next'[w] = [i \in 1..l |-> next[prev[i]][i]] /\ Len(next'[w]) = l
  BY <1>6 DEF InsertAt
<1>10. \A m \in Places : Len(next[m]) \in Nat /\ DOMAIN next[m] = 1..Len(next[m])
  BY DEF Shapes
<1>11. \A m \in Places : m # w =>
         /\ next'[m] = [i \in 1..Len(next[m]) |-> IF i <= l /\ prev[i] = m THEN w ELSE next[m][i]]
         /\ Len(next'[m]) = Len(next[m])
  <2> TAKE m \in Places
  <2>1. m # w => next'[m] = [i \in 1..Len(next[m]) |-> IF i <= l /\ prev[i] = m THEN w ELSE next[m][i]]
    BY DEF InsertAt
  <2> QED BY <1>10, <2>1
<1>12. data' = [data EXCEPT ![w] = node] /\ data \in [Nodes -> [key : Keys, val : Values] \cup {Nil}]
  BY DEF InsertAt, Shapes
<1>13. data'[w] = node /\ node \in [key : Keys, val : Values] /\ \A m \in Nodes : m # w => data'[m] = data[m]
  BY <1>6, <1>12
<1>14. LinkedIn(next, data, L, w, k, prev, next', data')
  <2>1. Len(next'[w]) \in 1..kMaxHeight /\ data'[w].key = k
    BY <1>6, <1>9, <1>13
  <2>2. \A m \in L : data'[m] = data[m] /\ data[m].key # k
    BY <1>3, <1>6, <1>13
  <2>3. \A i \in 1..Len(next'[w]) : next'[w][i] = next[prev[i]][i]
    BY <1>9
  <2>4. \A m \in L \cup {head_} : m \in Places /\ m # w
    BY <1>1, <1>6 DEF Places, head_
  <2>5. ASSUME NEW m \in L \cup {head_}
        PROVE  /\ Len(next'[m]) = Len(next[m])
               /\ \A i \in 1..kMaxHeight :
                    i <= Len(next[m]) =>
                      next'[m][i] = IF i <= Len(next'[w]) /\ prev[i] = m THEN w ELSE next[m][i]
    <3>1. m \in Places /\ m # w
      BY <2>4
    <3>2. /\ next'[m] = [i \in 1..Len(next[m]) |-> IF i <= l /\ prev[i] = m THEN w ELSE next[m][i]]
          /\ Len(next'[m]) = Len(next[m]) /\ Len(next[m]) \in Nat
      BY <1>10, <1>11, <3>1
    <3>3. ASSUME NEW i \in 1..kMaxHeight, i <= Len(next[m])
          PROVE  next'[m][i] = IF i <= Len(next'[w]) /\ prev[i] = m THEN w ELSE next[m][i]
      <4>1. i \in 1..Len(next[m])
        BY <1>1, <3>2, <3>3
      <4> QED BY <1>9, <3>2, <4>1
    <3> QED BY <3>2, <3>3
  <2> QED BY <1>5, <1>6, <1>13, <2>1, <2>2, <2>3, <2>5 DEF LinkedIn
<1>15. List(next', data', L \cup {w})
  BY <1>14, InsertKeeps DEF Holds
<1>16. Holds(L \cup {w})'
  <2>1. max_level' = Max({l, max_level})
    BY <1>2
  <2>2. max_level' \in 1..kMaxHeight /\ max_level' >= l /\ max_level' >= max_level
    <3>1. max_level' = IF l >= max_level THEN l ELSE max_level
      BY <1>1, <1>6, <2>1 DEF Max
    <3> QED BY <1>1, <1>6, <3>1
  <2>3. \A n \in L \cup {w} : Len(next'[n]) <= max_level'
    <3>1. \A n \in L : Len(next'[n]) = Len(next[n]) /\ Len(next[n]) \in Nat /\ Len(next[n]) <= max_level
      BY <1>6, <1>10, <1>11 DEF Holds, Level, Places
    <3>2. \A n \in L : Len(next'[n]) <= max_level'
      BY <1>1, <2>2, <3>1
    <3> QED BY <1>9, <2>2, <3>2
  <2>4. size' = Cardinality(L \cup {w})
    BY <1>2, <1>6, FS_AddElement DEF Holds, List
  <2>5. mem_usage' = SumFunctionOnSet(Sizes(data', L \cup {w}), L \cup {w})
    <3> DEFINE f == Sizes(data, L)
               g == Sizes(data', L \cup {w})
    <3>1. IsFiniteSet(L) /\ w \notin L
      BY <1>6 DEF Holds, List
    <3>2. \A n \in L : f[n] \in Nat
      BY SizesAre DEF Holds, List
    <3>3. \A n \in L \cup {w} : g[n] \in Nat
      BY <1>15, SizesAre DEF List
    <3>4. \A n \in L : g[n] = f[n]
      BY <1>6, <1>13 DEF Sizes
    <3>5. g[w] = Added(k, v)
      BY <1>13 DEF Sizes, Added
    <3> HIDE DEF f, g
    <3>6. SumFunctionOnSet(f, L) = SumFunctionOnSet(g, L)
      BY <3>1, <3>2, <3>4, SumOfSame
    <3>7. SumFunctionOnSet(g, L \cup {w}) = g[w] + SumFunctionOnSet(g, L)
      BY <3>1, <3>3, SumOfOneMore
    <3>8. SumFunctionOnSet(f, L) \in Int
      BY <3>1, <3>2, SumType
    <3>9. mem_usage' = mem_usage + Added(k, v) /\ mem_usage = SumFunctionOnSet(f, L)
      BY <1>2 DEF Holds, f
    <3>10. mem_usage' = SumFunctionOnSet(g, L \cup {w})
      BY <3>3, <3>5, <3>6, <3>7, <3>8, <3>9
    <3> QED BY <3>10 DEF g
  <2> QED BY <1>15, <2>2, <2>3, <2>4, <2>5 DEF Holds, Level
<1>17. Shapes'
  <2> DEFINE V == Written
             V2 == Written'
  <2>1. V2 = V \cup {w} /\ \A m \in L : m \in V
    <3>1. V2 = {n \in Nodes : Len(next'[n]) >= 1}
      BY DEF Written
    <3>2. \A n \in Nodes : n # w => Len(next'[n]) = Len(next[n])
      BY <1>11 DEF Places
    <3>3. \A m \in L : Len(next[m]) >= 1 /\ m \in Nodes
      BY DEF Holds, List
    <3> QED BY <1>6, <1>9, <3>1, <3>2, <3>3 DEF Written
  <2>2. ASSUME NEW m \in Places, m \in V \cup {head_}
        PROVE  \A i \in 1..Len(next[m]) : next[m][i] \in V \cup {Nil}
    BY <2>2 DEF Shapes
  <2>3. \A i \in 1..l : next[prev[i]][i] \in V \cup {Nil}
    <3> TAKE i \in 1..l
    <3>1. i \in 1..kMaxHeight
      BY <1>1, <1>6
    <3>2. prev[i] \in V \cup {head_} /\ prev[i] \in Places /\ i \in 1..Len(next[prev[i]])
      BY <1>7, <1>10, <2>1, <3>1 DEF Places
    <3> QED BY <2>2, <3>2
  <2>4. V \subseteq Nodes /\ V2 \subseteq Nodes /\ w \in Nodes
    BY <1>6 DEF Written
  <2> HIDE DEF V, V2
  <2>5. next'[w] \in Seq(V2 \cup {Nil}) /\ Len(next'[w]) >= 1 /\ Len(next'[w]) <= kMaxHeight
    BY <1>1, <1>6, <1>9, <2>1, <2>3
  <2>6. ASSUME NEW m \in Places
        PROVE  /\ next'[m] \in Seq(Nodes \cup {Nil}) /\ Len(next'[m]) <= kMaxHeight
               /\ m \in V2 \cup {head_} =>
                    \A i \in 1..Len(next'[m]) : next'[m][i] \in V2 \cup {Nil}
    <3>1. CASE m = w
      <4>1. next'[w] \in Seq(Nodes \cup {Nil})
        BY <1>6, <1>9, <2>1, <2>3, <2>4
      <4>2. \A i \in 1..Len(next'[w]) : next'[w][i] \in V2 \cup {Nil}
        BY <2>5
      <4> QED BY <2>5, <3>1, <4>1, <4>2
    <3>2. CASE m # w
      <4>1. \A i \in 1..Len(next[m]) : next[m][i] \in Nodes \cup {Nil}
        BY <1>10 DEF Shapes
      <4>2. /\ Len(next[m]) <= kMaxHeight /\ Len(next[m]) \in Nat
            /\ next'[m] = [i \in 1..Len(next[m]) |-> IF i <= l /\ prev[i] = m THEN w ELSE next[m][i]]
        BY <1>10, <1>11, <3>2 DEF Shapes
      <4>3. next'[m] \in Seq(Nodes \cup {Nil}) /\ Len(next'[m]) = Len(next[m])
        BY <2>4, <4>1, <4>2
      <4>4. ASSUME m \in V2 \cup {head_}
            PROVE  \A i \in 1..Len(next'[m]) : next'[m][i] \in V2 \cup {Nil}
        <5>1. m \in V \cup {head_}
          BY <2>1, <3>2, <4>4
        <5>2. \A i \in 1..Len(next[m]) : next[m][i] \in V \cup {Nil}
          BY <2>2, <5>1
        <5> QED BY <2>1, <4>2, <4>3, <5>2
      <4> QED BY <4>2, <4>3, <4>4
    <3> QED BY <3>1, <3>2
  <2>7. next' \in [Places -> Seq(Nodes \cup {Nil})]
    BY <1>4, <2>6
  <2>8. /\ data' \in [Nodes -> [key : Keys, val : Values] \cup {Nil}]
        /\ \A n \in V2 : data'[n] \in [key : Keys, val : Values]
    <3>1. \A n \in V : data[n] \in [key : Keys, val : Values]
      BY DEF Shapes, V
    <3> QED BY <1>12, <1>13, <2>1, <2>4, <3>1
  <2>9. iter' \in V2 \cup {head_, Nil} /\ seen' \in [Keys -> Values \cup {Absent}]
    BY <1>2, <2>1 DEF Shapes, V
  <2>10. V2 \cup {head_} \subseteq Places
    BY <2>4 DEF Places
  <2>11. Len(next'[head_]) >= 1
    <3>1. head_ \in Places /\ head_ # w
      BY <1>1, <1>6 DEF Places, head_
    <3> QED BY <1>11, <3>1 DEF Shapes
  <2> QED BY <2>6, <2>7, <2>8, <2>9, <2>10, <2>11 DEF Shapes, V2
<1> QED BY <1>16, <1>17

\* Delete leads the nodes p past w.
DeleteAt(L, k, w, p) ==
  /\ w \in L /\ data[w].key = k
  /\ List(next', data, L \ {w})
  /\ \A i \in 1..kMaxHeight : Before(next, data, L, i, k, p[i])
  /\ next[p[1]][1] = w
  /\ next' = [m \in Places |-> next'[m]]
  /\ \A m \in Places :
       next'[m] = [i \in 1..Len(next[m]) |->
                    IF i <= Len(next[w]) /\ p[i] = m THEN next[w][i] ELSE next[m][i]]
  /\ mem_usage' = mem_usage - Removed(w)
  /\ size' = size - 1
  /\ UNCHANGED <<data, max_level, iter, seen>>

LEMMA DeleteGoes ==
  ASSUME Shapes, NEW L \in SUBSET Nodes, Holds(L), NEW k \in Keys, Delete(k)
  PROVE  \E w, p : DeleteAt(L, k, w, p)
<1>1. /\ kMaxHeight \in Nat \ {0} /\ Nil \notin Nodes \cup {0} /\ 0 \notin Nodes
      /\ max_level \in 1..kMaxHeight
  BY KeysAssumption, NodesAssumption DEF Holds
<1>2. Answers(data, L, k, Search(k)) /\ Search(k) # Nil
  BY SearchAnswers DEF Holds, Delete, Contains
<1>3. PICK w \in L : data[w].key = k
  BY <1>2 DEF Answers
<1> DEFINE prev == FindPrevNode(k)
<1>4. \A i \in 1..kMaxHeight : Before(next, data, L, i, k, prev[i])
  BY PrevIsBefore DEF Holds
<1>5. /\ next' = Bypassed(next[prev[1]][1], prev)
      /\ mem_usage' = mem_usage - Removed(next[prev[1]][1])
      /\ size' = size - 1
      /\ UNCHANGED <<data, max_level, iter, seen>>
  BY DEF Delete
<1> HIDE DEF prev
<1>6. \A m \in Places : Len(next[m]) \in Nat /\ DOMAIN next[m] = 1..Len(next[m])
  BY DEF Shapes
<1> DEFINE past == Bypassed(w, prev)
<1>7. /\ DOMAIN past = Places
      /\ \A m \in Places :
           past[m] = [i \in 1..Len(next[m]) |->
                       IF i <= Len(next[w]) /\ prev[i] = m THEN next[w][i] ELSE next[m][i]]
  <2>1. \A m \in Places :
          past[m] = [i \in DOMAIN next[m] |->
                      IF i <= Len(next[w]) /\ prev[i] = m THEN next[w][i] ELSE next[m][i]]
    BY DEF Bypassed, Level
  <2> QED BY <1>6, <2>1 DEF Bypassed
<1> HIDE DEF past
<1>8. \A m \in Places : Len(past[m]) = Len(next[m])
  BY <1>6, <1>7
<1>9. LinkedOut(next, data, L, w, prev, past)
  <2>1. ASSUME NEW m \in (L \ {w}) \cup {head_}
        PROVE  /\ Len(past[m]) = Len(next[m])
               /\ \A i \in 1..kMaxHeight :
                    i <= Len(next[m]) =>
                      past[m][i] = IF i <= Len(next[w]) /\ prev[i] = m THEN next[w][i] ELSE next[m][i]
    <3>1. m \in Places
      BY DEF Places
    <3>2. Len(next[m]) \in Nat
      BY <1>6, <3>1
    <3>3. ASSUME NEW i \in 1..kMaxHeight, i <= Len(next[m])
          PROVE  past[m][i] = IF i <= Len(next[w]) /\ prev[i] = m THEN next[w][i] ELSE next[m][i]
      <4>1. i \in 1..Len(next[m])
        BY <1>1, <3>2, <3>3
      <4> QED BY <1>7, <3>1, <4>1
    <3> QED BY <1>8, <3>1, <3>3
  <2> QED BY <1>3, <1>4, <2>1 DEF LinkedOut
<1>10. List(past, data, L \ {w}) /\ next[prev[1]][1] = w
  BY <1>9, DeleteKeeps DEF Holds
<1>11. next' = past /\ past = [m \in Places |-> past[m]] /\ mem_usage' = mem_usage - Removed(w)
  BY <1>5, <1>10 DEF past, Bypassed
<1>12. DeleteAt(L, k, w, prev)
  BY <1>3, <1>4, <1>5, <1>7, <1>10, <1>11 DEF DeleteAt
<1> QED BY <1>12

LEMMA DeleteHolds ==
  ASSUME Shapes, NEW L \in SUBSET Nodes, Holds(L), NEW k \in Keys,
         NEW w, NEW prev, DeleteAt(L, k, w, prev)
  PROVE  Shapes' /\ Holds(L \ {w})'
<1>1. /\ kMaxHeight \in Nat \ {0} /\ Nil \notin Nodes \cup {0} /\ 0 \notin Nodes
      /\ max_level \in 1..kMaxHeight
  BY KeysAssumption, NodesAssumption DEF Holds
<1>2. w \in L /\ data[w].key = k /\ List(next', data, L \ {w})
  BY DEF DeleteAt
<1>3. /\ mem_usage' = mem_usage - Removed(w) /\ size' = size - 1
      /\ UNCHANGED <<data, max_level, iter, seen>>
  BY DEF DeleteAt
<1>6. \A m \in Places : Len(next[m]) \in Nat /\ DOMAIN next[m] = 1..Len(next[m])
  BY DEF Shapes
<1>7. /\ next' = [m \in Places |-> next'[m]]
      /\ \A m \in Places :
           next'[m] = [i \in 1..Len(next[m]) |->
                        IF i <= Len(next[w]) /\ prev[i] = m THEN next[w][i] ELSE next[m][i]]
  BY DEF DeleteAt
<1>8. \A m \in Places : Len(next'[m]) = Len(next[m])
  BY <1>6, <1>7
<1>12. Holds(L \ {w})'
  <2>1. List(next', data', L \ {w}) /\ IsFiniteSet(L)
    <3>1. data' = data
      BY <1>3
    <3>2. IsFiniteSet(L)
      BY DEF Holds, List
    <3> QED BY <1>2, <3>1, <3>2
  <2>2. \A n \in L \ {w} : Len(next'[n]) <= max_level'
    <3>1. \A n \in L : n \in Places /\ Len(next[n]) <= max_level
      BY DEF Holds, Level, Places
    <3>2. \A n \in L : Len(next'[n]) = Len(next[n])
      BY <1>8, <3>1
    <3> QED BY <1>3, <3>1, <3>2
  <2>3. size' = Cardinality(L \ {w})
    BY <1>2, <1>3, <2>1, FS_RemoveElement DEF Holds
  <2>4. mem_usage' = SumFunctionOnSet(Sizes(data', L \ {w}), L \ {w})
    <3> DEFINE f == Sizes(data, L)
               g == Sizes(data, L \ {w})
    <3>1. IsFiniteSet(L \ {w}) /\ w \notin L \ {w} /\ (L \ {w}) \cup {w} = L
      BY <1>2, <2>1, FS_Subset
    <3>2. \A n \in L : f[n] \in Nat
      BY SizesAre DEF Holds, List
    <3>3. \A n \in L \ {w} : f[n] \in Int /\ g[n] = f[n]
      BY <3>2 DEF Sizes
    <3>4. f[w] = Removed(w) /\ f[w] \in Nat
      BY <1>2, <3>2 DEF Sizes, Removed
    <3> HIDE DEF f, g
    <3>5. SumFunctionOnSet(f, L) = f[w] + SumFunctionOnSet(f, L \ {w})
      BY <3>1, <3>3, <3>4, SumOfOneMore
    <3>6. SumFunctionOnSet(f, L \ {w}) = SumFunctionOnSet(g, L \ {w})
      BY <3>1, <3>3, SumOfSame
    <3>7. SumFunctionOnSet(f, L \ {w}) \in Int
      BY <3>1, <3>3, SumType
    <3>8. mem_usage' = mem_usage - f[w] /\ mem_usage = SumFunctionOnSet(f, L)
      BY <1>3, <3>4 DEF Holds, f
    <3>9. mem_usage' = SumFunctionOnSet(g, L \ {w})
      BY <3>4, <3>5, <3>6, <3>7, <3>8
    <3> QED BY <1>3, <3>9 DEF g
  <2> QED BY <1>1, <1>3, <2>1, <2>2, <2>3, <2>4 DEF Holds, Level
<1>13. Shapes'
  <2>1. Written' = Written
    BY <1>8 DEF Written, Places
  <2>2. w \in Written /\ Written \subseteq Nodes /\ w \in Places
    BY <1>2 DEF Written, Holds, List, Places
  <2>3. \A i \in 1..Len(next[w]) : next[w][i] \in Written \cup {Nil} /\ next[w][i] \in Nodes \cup {Nil}
    BY <2>2 DEF Shapes
  <2>4. ASSUME NEW m \in Places
        PROVE  /\ next'[m] \in Seq(Nodes \cup {Nil}) /\ Len(next'[m]) <= kMaxHeight
               /\ m \in Written \cup {head_} =>
                    \A i \in 1..Len(next'[m]) : next'[m][i] \in Written \cup {Nil}
    <3>1. /\ next'[m] = [i \in 1..Len(next[m]) |->
                          IF i <= Len(next[w]) /\ prev[i] = m THEN next[w][i] ELSE next[m][i]]
          /\ Len(next[m]) \in Nat /\ Len(next[m]) <= kMaxHeight /\ Len(next[w]) \in Nat
      BY <1>6, <1>7, <2>2 DEF Shapes
    <3>2. \A i \in 1..Len(next[m]) : i <= Len(next[w]) => i \in 1..Len(next[w])
      BY <3>1
    <3>3. \A i \in 1..Len(next[m]) : next[m][i] \in Nodes \cup {Nil}
      BY <1>6 DEF Shapes
    <3>4. next'[m] \in Seq(Nodes \cup {Nil}) /\ Len(next'[m]) = Len(next[m])
      BY <2>3, <3>1, <3>2, <3>3
    <3>5. ASSUME m \in Written \cup {head_}, NEW i \in 1..Len(next[m])
          PROVE  next'[m][i] \in Written \cup {Nil}
      <4>1. next[m][i] \in Written \cup {Nil}
        BY <3>5 DEF Shapes
      <4> QED BY <2>3, <3>1, <3>2, <4>1
    <3> QED BY <3>1, <3>4, <3>5
  <2>5. next' \in [Places -> Seq(Nodes \cup {Nil})]
    BY <1>7, <2>4
  <2>6. Len(next'[head_]) >= 1
    BY <1>8 DEF Shapes, Places
  <2>7. Written \cup {head_} \subseteq Places
    BY <2>2 DEF Places
  <2> QED BY <1>3, <2>1, <2>4, <2>5, <2>6, <2>7 DEF Shapes
<1> QED BY <1>12, <1>13

LEMMA MoveOnHolds ==
  ASSUME Shapes, NEW L \in SUBSET Nodes, Holds(L), MoveOn
  PROVE  Shapes' /\ Holds(L)'
<1>1. UNCHANGED <<next, data, max_level, size, mem_usage>> /\ iter # Nil /\ iter' = next[iter][1]
  BY DEF MoveOn
<1>2. Written' = Written /\ Written \subseteq Nodes /\ Nil \notin Nodes
  BY <1>1, NodesAssumption DEF Written
<1>3. iter \in Written \cup {head_} /\ iter \in Places
  BY <1>1, <1>2 DEF Shapes, Places
<1>4. 1 \in 1..Len(next[iter])
  <2>1. Len(next[iter]) \in Nat /\ Len(next[iter]) >= 1
    BY <1>3 DEF Shapes, Written
  <2> QED BY <2>1
<1>5. iter' \in Written \cup {Nil}
  BY <1>1, <1>3, <1>4 DEF Shapes
<1>6. seen' \in [Keys -> Values \cup {Absent}]
  <2>1. CASE iter' = Nil
    BY <2>1 DEF MoveOn, Shapes
  <2>2. CASE iter' # Nil
    <3>1. data[iter'].key \in Keys /\ data[iter'].val \in Values
      BY <1>5, <2>2 DEF Shapes
    <3>2. seen' = [seen EXCEPT ![data[iter'].key] = data[iter'].val]
      BY <2>2 DEF MoveOn
    <3> QED BY <3>1, <3>2 DEF Shapes
  <2> QED BY <2>1, <2>2
<1>7. Shapes'
  BY <1>1, <1>2, <1>5, <1>6 DEF Shapes
<1>8. Holds(L)'
  BY <1>1 DEF Holds, Level
<1> QED BY <1>7, <1>8

\* The way of the iterator, whether Insert puts its node there or not.
LEMMA InsertTracks ==
  ASSUME Shapes, NEW L \in SUBSET Nodes, Holds(L), NEW A, Tracks(L, A), NEW k \in Keys, NEW v \in Values,
         NEW w, NEW l, NEW p, InsertAt(L, k, v, w, l, p), iter # Nil,
         NEW B, B = IF p[1] \in A \cup {iter} THEN A \cup {w} ELSE A
  PROVE  /\ Spliced(next, data, L, w, k, p[1], next', data') /\ w \notin A \cup {iter}
         /\ Trail(next', data', iter', B, L \cup {w})
<1>1. /\ kMaxHeight \in Nat \ {0} /\ 1 \in 1..kMaxHeight
      /\ w \in Nodes \ L /\ l \in 1..kMaxHeight /\ l \in Nat /\ 1 \in 1..l
  BY KeysAssumption DEF InsertAt
<1>2. /\ p[1] \in L \cup {head_} /\ KeyAt(data, p[1]) < k
      /\ \A m \in L : KeyAt(data, m) < k => KeyAt(data, m) <= KeyAt(data, p[1])
  <2>1. Before(next, data, L, 1, k, p[1]) /\ Tall(next, L, 1) = L
    BY <1>1, KeysAre DEF InsertAt, Holds
  <2> QED BY <2>1 DEF Before
<1>3. \A m \in L : KeyAt(data, m) # k
  BY KeysAre DEF InsertAt, Holds
<1>4. next'[w] = [i \in 1..l |-> next[p[i]][i]]
  BY DEF InsertAt
<1>5. Len(next'[w]) >= 1 /\ next'[w][1] = next[p[1]][1]
  BY <1>1, <1>4
<1>6. /\ data'[w] \in [key : Keys, val : Values] /\ data'[w].key = k
      /\ \A m \in Nodes : m # w => data'[m] = data[m]
  BY <1>1 DEF InsertAt, Shapes
<1>7. ASSUME NEW m \in Places, m # w, Len(next[m]) >= 1
      PROVE  Len(next'[m]) >= 1 /\ next'[m][1] = IF m = p[1] THEN w ELSE next[m][1]
  <2>1. next'[m] = [i \in 1..Len(next[m]) |-> IF i <= l /\ p[i] = m THEN w ELSE next[m][i]]
    BY <1>7 DEF InsertAt
  <2>2. Len(next[m]) \in Nat
    BY DEF Shapes
  <2> QED BY <1>1, <1>7, <2>1, <2>2
<1>8. Spliced(next, data, L, w, k, p[1], next', data')
  BY <1>1, <1>2, <1>3, <1>5, <1>6, <1>7 DEF Spliced, Places
<1>9. Trail(next, data, iter, A, L) /\ iter' = iter
  BY DEF Tracks, InsertAt
<1>10. w \notin A \cup {iter}
  <2>1. AfterIn(next, iter) = A
    BY <1>9, AfterIs DEF Trail
  <2>2. After(iter) = A
    BY <2>1 DEF After, AfterIn
  <2> QED BY <2>2 DEF InsertAt, Unused
<1>11. Trail(next', data', iter, B, L \cup {w})
  <2>1. List(next, data, L) /\ Trail(next, data, iter, A, L)
    BY <1>9 DEF Holds
  <2> QED BY <1>8, <1>10, <2>1, TrailIn
<1> QED BY <1>8, <1>9, <1>10, <1>11

\* Its way when Delete leads past a node that may be on it.
LEMMA DeleteTracks ==
  ASSUME Shapes, NEW L \in SUBSET Nodes, Holds(L), NEW A, Tracks(L, A), NEW k \in Keys,
         NEW w, NEW p, DeleteAt(L, k, w, p), iter # Nil,
         NEW B, B = IF p[1] \in A \cup {iter} THEN A \ {w} ELSE A
  PROVE  /\ Skipped(next, data, L, w, p[1], next')
         /\ Trail(next', data', iter', B, L \ {w})
<1>1. kMaxHeight \in Nat \ {0} /\ 1 \in 1..kMaxHeight
  BY KeysAssumption
<1>2. /\ w \in L /\ data[w].key = k /\ next[p[1]][1] = w
      /\ UNCHANGED <<data, iter>>
  BY DEF DeleteAt
<1>3. KeyAt(data, w) = k /\ Len(next[w]) >= 1
  <2>1. List(next, data, L)
    BY DEF Holds
  <2>2. KeyAt(data, w) = data[w].key
    BY <1>2, <2>1, KeysAre
  <2>3. Len(next[w]) \in 1..kMaxHeight
    BY <1>2, <2>1 DEF List
  <2> QED BY <1>1, <1>2, <2>2, <2>3
<1>4. /\ p[1] \in L \cup {head_} /\ KeyAt(data, p[1]) < k
      /\ \A m \in L : KeyAt(data, m) < k => KeyAt(data, m) <= KeyAt(data, p[1])
  <2>1. Before(next, data, L, 1, k, p[1]) /\ Tall(next, L, 1) = L
    BY <1>1, KeysAre DEF DeleteAt, Holds
  <2> QED BY <2>1 DEF Before
<1>5. ASSUME NEW m \in Places, Len(next[m]) >= 1
      PROVE  Len(next'[m]) >= 1 /\ next'[m][1] = IF m = p[1] THEN next[w][1] ELSE next[m][1]
  <2>1. next'[m] = [i \in 1..Len(next[m]) |->
                     IF i <= Len(next[w]) /\ p[i] = m THEN next[w][i] ELSE next[m][i]]
    BY DEF DeleteAt
  <2>2. Len(next[m]) \in Nat
    BY DEF Shapes
  <2> QED BY <1>3, <1>5, <2>1, <2>2
<1>6. Skipped(next, data, L, w, p[1], next')
  BY <1>2, <1>3, <1>4, <1>5 DEF Skipped
<1>7. Trail(next, data, iter, A, L)
  BY DEF Tracks
<1>8. Trail(next', data, iter, B, L \ {w})
  <2>1. List(next, data, L)
    BY DEF Holds
  <2> QED BY <1>6, <1>7, <2>1, TrailOut
<1> QED BY <1>2, <1>6, <1>8

\* One step of the iterator.
LEMMA MoveOnTracks ==
  ASSUME NEW L, Holds(L), NEW A \in SUBSET Nodes, Tracks(L, A), MoveOn
  PROVE  \E B \in SUBSET Nodes :
           /\ Tracks(L, B)'
           /\ \/ iter' = Nil /\ A = {} /\ B = {}
              \/ /\ iter' \in A /\ \A b \in A : KeyAt(data, iter') <= KeyAt(data, b)
                 /\ B = A \ {iter'}
<1>1. UNCHANGED <<next, data>> /\ iter # Nil /\ iter' = next[iter][1]
  BY DEF MoveOn
<1>2. Trail(next, data, iter, A, L)
  BY <1>1 DEF Tracks
<1>3. CASE iter' = Nil /\ A = {}
  BY <1>3 DEF Tracks
<1>4. CASE /\ iter' \in A /\ \A b \in A : KeyAt(data, iter') <= KeyAt(data, b)
           /\ Trail(next, data, iter', A \ {iter'}, L)
  <2>1. iter' # Nil
    BY <1>4, NodesAssumption
  <2>2. PICK B \in SUBSET Nodes : B = A \ {iter'}
    OBVIOUS
  <2>3. Tracks(L, B)'
    BY <1>1, <1>4, <2>1, <2>2 DEF Tracks
  <2> QED BY <1>4, <2>2, <2>3
<1> QED BY <1>1, <1>2, <1>3, <1>4, TrailGoes

LEMMA NextHolds == IInv /\ [Next]_vars => IInv'
<1> SUFFICES ASSUME Shapes, NEW L \in SUBSET Nodes, NEW A \in SUBSET Nodes, Holds(L), Tracks(L, A),
                    [Next]_vars
             PROVE  IInv'
  BY DEF IInv
<1>1. ASSUME NEW k \in Keys, Delete(k) PROVE IInv'
  <2>1. PICK w, p : DeleteAt(L, k, w, p)
    BY <1>1, DeleteGoes
  <2>2. Shapes' /\ Holds(L \ {w})' /\ L \ {w} \in SUBSET Nodes
    BY <2>1, DeleteHolds
  <2>3. PICK B \in SUBSET Nodes : Tracks(L \ {w}, B)'
    <3>1. iter' = iter
      BY <2>1 DEF DeleteAt
    <3>2. CASE iter = Nil
      BY <3>1, <3>2 DEF Tracks
    <3>3. CASE iter # Nil
      <4>1. PICK B \in SUBSET Nodes : B = IF p[1] \in A \cup {iter} THEN A \ {w} ELSE A
        BY <3>1
      <4>2. Trail(next', data', iter', B, L \ {w})
        BY <2>1, <3>3, <4>1, DeleteTracks
      <4> QED BY <3>1, <3>3, <4>1, <4>2 DEF Tracks
    <3> QED BY <3>2, <3>3
  <2> QED BY <2>2, <2>3 DEF IInv
<1>2. ASSUME NEW k \in Keys, NEW v \in Values, Insert(k, v) PROVE IInv'
  <2>1. PICK w, l, p : InsertAt(L, k, v, w, l, p)
    BY <1>2, InsertGoes
  <2>2. Shapes' /\ Holds(L \cup {w})'
    BY <2>1, InsertHolds
  <2>3. L \cup {w} \in SUBSET Nodes
    BY <2>1 DEF InsertAt
  <2>4. PICK B \in SUBSET Nodes : Tracks(L \cup {w}, B)'
    <3>1. iter' = iter /\ w \in Nodes
      BY <2>1 DEF InsertAt
    <3>2. CASE iter = Nil
      BY <3>1, <3>2 DEF Tracks
    <3>3. CASE iter # Nil
      <4>1. PICK B \in SUBSET Nodes : B = IF p[1] \in A \cup {iter} THEN A \cup {w} ELSE A
        BY <3>1
      <4>2. Trail(next', data', iter', B, L \cup {w})
        BY <2>1, <3>3, <4>1, InsertTracks
      <4> QED BY <3>1, <3>3, <4>1, <4>2 DEF Tracks
    <3> QED BY <3>2, <3>3
  <2> QED BY <2>2, <2>3, <2>4 DEF IInv
<1>3. CASE NewIter
  <2>1. UNCHANGED <<next, data, max_level, size, mem_usage>> /\ iter' = head_ /\ seen' = Nothing
    BY <1>3 DEF NewIter
  <2>2. Shapes'
    <3>1. Written' = Written
      BY <2>1 DEF Written
    <3>2. Nothing \in [Keys -> Values \cup {Absent}]
      BY DEF Nothing
    <3> QED BY <2>1, <3>1, <3>2 DEF Shapes
  <2>3. Holds(L)'
    BY <2>1 DEF Holds, Level
  <2>4. Tracks(L, L)'
    BY <2>1, TrailStarts, NodesAssumption DEF Tracks, Holds, head_
  <2> QED BY <2>2, <2>3, <2>4 DEF IInv
<1>4. CASE MoveOn
  <2>1. Shapes' /\ Holds(L)'
    BY <1>4, MoveOnHolds
  <2>2. PICK B \in SUBSET Nodes : Tracks(L, B)'
    BY <1>4, MoveOnTracks
  <2> QED BY <2>1, <2>2 DEF IInv
<1>5. CASE UNCHANGED vars
  <2>1. Shapes'
    BY <1>5 DEF Shapes, Written, vars
  <2>2. Holds(L)'
    BY <1>5 DEF Holds, Level, vars
  <2>3. Tracks(L, A)'
    BY <1>5 DEF Tracks, vars
  <2> QED BY <2>1, <2>2, <2>3 DEF IInv
<1> QED BY <1>1, <1>2, <1>3, <1>4, <1>5 DEF Next

\* What the list's order and its counters rest on holds at every step.
THEOREM Invariant == Spec => []IInv
<1> QED BY InitHolds, NextHolds, PTL DEF Spec

-----------------------------------------------------------------------------
(* The properties. *)

\* Every step leaves nodes, counters and iterator with values of their types.
THEOREM TypeCorrect == Spec => []TypeOK
<1>1. IInv => TypeOK
  <2> SUFFICES ASSUME Shapes, NEW L \in SUBSET Nodes, Holds(L) PROVE TypeOK
    BY DEF IInv
  <2>1. size \in Nat
    BY FS_CardinalityType DEF Holds, List
  <2>2. mem_usage \in Nat
    <3>1. \A n \in L : Sizes(data, L)[n] \in Nat
      BY SizesAre DEF Holds, List
    <3> QED BY <3>1, SumNat DEF Holds, List
  <2>3. iter \in Places \cup {Nil}
    BY DEF Shapes, Written, Places
  <2> QED BY <2>1, <2>2, <2>3 DEF TypeOK, Shapes, Holds, Level
<1> QED BY <1>1, Invariant, PTL

\* On each level Insert and Delete leave the nodes that reach it in key order,
\* none of them skipped.
THEOREM EveryLevelInOrder == Spec => []LevelsNested
<1>1. IInv => LevelsNested
  <2> SUFFICES ASSUME Shapes, NEW L \in SUBSET Nodes, Holds(L),
                      NEW i \in 1..kMaxHeight, NEW n \in L \cup {head_}, Level(n) >= i
               PROVE  LET taller == {m \in L : Level(m) >= i /\ (n = head_ \/ data[m].key > data[n].key)}
                      IN  IF taller = {} THEN next[n][i] = Nil
                          ELSE /\ next[n][i] \in taller
                               /\ \A m \in taller : data[next[n][i]].key <= data[m].key
    BY LinkedIs DEF IInv, LevelsNested, Holds
  <2> DEFINE key(m) == KeyAt(data, m)
             taller == {m \in L : Level(m) >= i /\ (n = head_ \/ data[m].key > data[n].key)}
  <2>1. /\ key(head_) = 0 /\ Nil \notin L
        /\ \A m \in L : key(m) = data[m].key /\ key(m) \in Nat \ {0}
    BY KeysAre DEF Holds
  <2>2. Leads(next, data, L, i, n)
    BY DEF Holds, List, Level
  <2>3. taller = {m \in Tall(next, L, i) : key(m) > key(n)}
    BY <2>1 DEF Tall, Level
  <2>4. \A m \in Tall(next, L, i) : m \in L /\ key(m) \in Nat /\ key(m) = data[m].key
    BY <2>1 DEF Tall
  <2>5. key(n) \in Nat
    BY <2>1
  <2> HIDE DEF taller
  <2>6. CASE next[n][i] = Nil /\ \A m \in Tall(next, L, i) : key(m) <= key(n)
    <3>1. taller = {}
      <4> HIDE DEF key
      <4> QED BY <2>3, <2>4, <2>5, <2>6
    <3> QED BY <2>6, <3>1 DEF taller
  <2>7. CASE /\ next[n][i] \in Tall(next, L, i) /\ key(next[n][i]) > key(n)
             /\ \A m \in Tall(next, L, i) : key(m) > key(n) => key(next[n][i]) <= key(m)
    <3>1. next[n][i] \in taller
      BY <2>3, <2>7
    <3>2. \A m \in taller : data[next[n][i]].key <= data[m].key
      BY <2>3, <2>4, <2>7
    <3> QED BY <3>1, <3>2 DEF taller
  <2> QED BY <2>2, <2>6, <2>7 DEF Leads
<1> QED BY <1>1, Invariant, PTL

\* From the top level down a search finds what the bottom level links, and
\* nothing else.
THEOREM SearchesComplete == Spec => []SearchFindsLinked
<1>1. IInv => SearchFindsLinked
  <2> SUFFICES ASSUME NEW L \in SUBSET Nodes, Holds(L), NEW k \in Keys,
                      NEW at, at = {n \in L : data[n].key = k}
               PROVE  IF at = {} THEN Search(k) = Nil ELSE Search(k) \in at
    BY LinkedIs DEF IInv, SearchFindsLinked, Holds
  <2>1. Answers(data, L, k, Search(k))
    BY SearchAnswers DEF Holds
  <2> QED BY <2>1 DEF Answers
<1> QED BY <1>1, Invariant, PTL

\* size and mem_usage, by which the memtable is found full, count what is linked.
THEOREM CountersCorrect == Spec => []CountersMatch
<1>1. IInv => CountersMatch
  <2> SUFFICES ASSUME NEW L \in SUBSET Nodes, Holds(L) PROVE CountersMatch
    BY DEF IInv
  <2>1. Linked = L
    BY LinkedIs DEF Holds
  <2> QED BY <2>1 DEF CountersMatch, Holds, Sizes
<1> QED BY <1>1, Invariant, PTL
-----------------------------------------------------------------------------
(* The list is an ordered map. *)

LEMMA Shown ==
  ASSUME NEW L, NEW A, List(next, data, L), Tracks(L, A)
  PROVE  /\ Entries(Linked) = MapOf(data, L) /\ Entries(Ghosts) = MapOf(data, A \ L)
         /\ JoinKey = JoinOf(data, iter, A, L)
<1>1. Linked = L
  BY LinkedIs
<1>2. iter # Nil => After(iter) = A
  <2>1. iter # Nil => AfterIn(next, iter) = A
    BY AfterIs DEF Tracks, Trail
  <2> QED BY <2>1 DEF After, AfterIn
<1>3. Ghosts = A \ L
  BY <1>1, <1>2 DEF Ghosts, Tracks
<1>4. Entries(Linked) = MapOf(data, L) /\ Entries(Ghosts) = MapOf(data, A \ L)
  BY <1>1, <1>3 DEF Entries, MapOf
<1>5. iter # Nil => Joins = JoinsOf(iter, A, L)
  BY <1>1, <1>2 DEF Joins, JoinsOf
<1>6. JoinKey = JoinOf(data, iter, A, L)
  BY <1>5 DEF JoinKey, JoinOf
<1> QED BY <1>4, <1>6

LEMMA ShownNext ==
  ASSUME NEW L, NEW A, List(next', data', L), Tracks(L, A)'
  PROVE  /\ Entries(Linked)' = MapOf(data', L) /\ Entries(Ghosts)' = MapOf(data', A \ L)
         /\ JoinKey' = JoinOf(data', iter', A, L)
<1>1. Linked' = L
  <2>1. AfterIn(next', head_) = L
    BY ListIsLined, AfterIs
  <2> QED BY <2>1 DEF Linked, After, AfterIn
<1>2. iter' # Nil => After(iter)' = A
  <2>1. iter' # Nil => AfterIn(next', iter') = A
    BY AfterIs DEF Tracks, Trail
  <2> QED BY <2>1 DEF After, AfterIn
<1>3. Ghosts' = A \ L
  BY <1>1, <1>2 DEF Ghosts, Tracks
<1>4. Entries(Linked)' = MapOf(data', L) /\ Entries(Ghosts)' = MapOf(data', A \ L)
  BY <1>1, <1>3 DEF Entries, MapOf
<1>5. iter' # Nil => Joins' = JoinsOf(iter', A, L)
  BY <1>1, <1>2 DEF Joins, JoinsOf
<1>6. JoinKey' = JoinOf(data', iter', A, L)
  BY <1>5 DEF JoinKey, JoinOf
<1> QED BY <1>4, <1>6

LEMMA InitMaps == Init => Map!Init
<1> SUFFICES ASSUME Init PROVE Map!Init
  OBVIOUS
<1>1. iter = Nil /\ seen = Nothing
  BY DEF Init
<1>2. List(next, data, {})
  <2>1. Init => IInv
    BY InitHolds
  <2>2. Nil \notin Nodes \cup {0} /\ 0 \notin Nodes /\ kMaxHeight \in Nat \ {0}
    BY KeysAssumption, NodesAssumption
  <2>3. next[head_] = [i \in 1..kMaxHeight |-> Nil]
    BY DEF Init, Places
  <2>4. \A i \in 1..kMaxHeight : Leads(next, data, {}, i, head_)
    BY <2>3 DEF Leads, Tall
  <2> QED BY <2>2, <2>3, <2>4, FS_EmptySet DEF List
<1>3. Tracks({}, {})
  BY <1>1 DEF Tracks
<1>4. MapOf(data, {}) = Nothing
  BY DEF MapOf, Nothing
<1>5. Entries(Linked) = Nothing /\ Entries(Ghosts) = Nothing
  BY <1>2, <1>3, <1>4, Shown
<1>6. JoinKey = 0 /\ Pos = 0
  BY <1>1 DEF JoinKey, Pos
<1> QED BY <1>1, <1>5, <1>6 DEF Map!Init, Map!Nothing, Nothing

LEMMA InsertMaps ==
  ASSUME Shapes, NEW L \in SUBSET Nodes, Holds(L), NEW A \in SUBSET Nodes, Tracks(L, A),
         NEW k \in Keys, NEW v \in Values, Insert(k, v)
  PROVE  Map!Insert(k, v)
<1>1. PICK w, l, p : InsertAt(L, k, v, w, l, p)
  BY InsertGoes
<1>2. /\ w \in Nodes \ L /\ data' = [data EXCEPT ![w] = [key |-> k, val |-> v]]
      /\ iter' = iter /\ seen' = seen /\ \A m \in L : data[m].key # k
  BY <1>1 DEF InsertAt
<1>3. data'[w] = [key |-> k, val |-> v] /\ \A m \in Nodes : m # w => data'[m] = data[m]
  BY <1>2 DEF Shapes
<1> PICK L2, B : /\ L2 = L \cup {w}
                 /\ B = IF iter # Nil /\ p[1] \in A \cup {iter} THEN A \cup {w} ELSE A
  OBVIOUS
<1>4. List(next, data, L) /\ List(next', data', L2)
  <2>1. Holds(L \cup {w})'
    BY <1>1, InsertHolds
  <2> QED BY <2>1 DEF Holds
<1>5. /\ Tracks(L2, B)' /\ B \ L2 = A \ L
      /\ JoinOf(data', iter', B, L2) = JoinOf(data, iter, A, L)
      /\ \A a \in A \ L : data'[a] = data[a]
      /\ Pos' = Pos
  <2>1. CASE iter = Nil
    BY <1>2, <2>1 DEF Tracks, JoinOf, Pos
  <2>2. CASE iter # Nil
    <3>1. B = IF p[1] \in A \cup {iter} THEN A \cup {w} ELSE A
      BY <2>2
    <3>2. /\ Spliced(next, data, L, w, k, p[1], next', data') /\ w \notin A \cup {iter}
          /\ Trail(next', data', iter', B, L \cup {w})
      BY <1>1, <2>2, <3>1, InsertTracks
    <3>3. Trail(next, data, iter, A, L)
      BY <2>2 DEF Tracks
    <3>4. JoinOf(data', iter, B, L2) = JoinOf(data, iter, A, L)
      BY <1>4, <3>1, <3>2, <3>3, JoinIn
    <3>5. Tracks(L2, B)'
      BY <1>2, <2>2, <3>2 DEF Tracks
    <3>6. B \ L2 = A \ L /\ \A a \in A \ L : data'[a] = data[a]
      BY <1>3, <3>1, <3>2
    <3>7. Pos' = Pos
      <4>1. iter \in Nodes \cup {head_}
        BY <1>4, <3>3, TrailKeys DEF OnTheWay
      <4> QED BY <1>2, <1>3, <3>2, <4>1 DEF Pos
    <3> QED BY <1>2, <3>4, <3>5, <3>6, <3>7
  <2> QED BY <2>1, <2>2
<1>6. Keyed(data, L) /\ Keyed(data, A \ L)
  <2>1. Keyed(data, L)
    BY <1>4 DEF Keyed, List
  <2>2. iter # Nil => Keyed(data, A \ L)
    BY <1>4, TrailKeys DEF Tracks, OnTheWay
  <2>3. iter = Nil => Keyed(data, A \ L)
    BY DEF Tracks, Keyed
  <2> QED BY <2>1, <2>2, <2>3
<1>7. /\ MapOf(data, L)[k] = Absent
      /\ MapOf(data', L2) = [MapOf(data, L) EXCEPT ![k] = v]
  <2>1. w \in Nodes /\ \A n \in L : data'[n] = data[n] /\ data[n].key # k
    BY <1>2, <1>3
  <2>2. PICK d : d = data' /\ d[w] = [key |-> k, val |-> v] /\ \A n \in L : d[n] = data[n]
    BY <1>3, <2>1
  <2>3. MapOf(data, L)[k] = Absent /\ MapOf(d, L \cup {w}) = [MapOf(data, L) EXCEPT ![k] = v]
    BY <1>6, <2>1, <2>2, MapIn
  <2> QED BY <2>2, <2>3
<1>8. MapOf(data', A \ L) = MapOf(data, A \ L)
  BY <1>5, <1>6, MapSame
<1>9. /\ Entries(Linked) = MapOf(data, L) /\ Entries(Ghosts) = MapOf(data, A \ L)
      /\ JoinKey = JoinOf(data, iter, A, L)
  BY <1>4, Shown
<1>10. /\ Entries(Linked)' = MapOf(data', L2) /\ Entries(Ghosts)' = MapOf(data', B \ L2)
       /\ JoinKey' = JoinOf(data', iter', B, L2)
  BY <1>4, <1>5, ShownNext
<1>11. /\ Entries(Linked)[k] = Absent /\ Entries(Linked)' = [Entries(Linked) EXCEPT ![k] = v]
       /\ Entries(Ghosts)' = Entries(Ghosts) /\ JoinKey' = JoinKey /\ Pos' = Pos
  BY <1>5, <1>7, <1>8, <1>9, <1>10
<1> QED BY <1>2, <1>11 DEF Map!Insert

\* Map!Follows, of the nodes with a key above k.
LEMMA FollowsIs ==
  ASSUME NEW L, List(next, data, L), NEW A, Tracks(L, A), NEW k \in Keys,
         NEW j, JoinsAt(data, Above(data, L, k), j)
  PROVE  j \in Keys \cup {Absent} /\ Map!Follows(j, k)
<1> DEFINE after == {i \in Keys : Entries(Linked)[i] # Absent /\ i > k}
           J == Above(data, L, k)
<1>1. Entries(Linked) = MapOf(data, L) /\ Keyed(data, L)
  BY Shown DEF Keyed, List
<1>2. /\ \A x \in L : KeyAt(data, x) = data[x].key
      /\ \A x \in L : data[x].key \in Keys /\ Entries(Linked)[data[x].key] # Absent
      /\ \A i \in Keys : Entries(Linked)[i] # Absent => \E x \in L : data[x].key = i
  BY <1>1, KeysAre, EntryIs
<1>3. \A x \in J : KeyAt(data, x) \in after
  BY <1>2 DEF Above
<1>4. \A i \in after : \E x \in J : KeyAt(data, x) = i
  BY <1>2 DEF Above
<1> HIDE DEF after
<1>5. IF after = {} THEN j = Absent ELSE j \in after /\ \A i \in after : j <= i
  <2>1. CASE J = {}
    BY <1>4, <2>1 DEF JoinsAt
  <2>2. CASE J # {}
    BY <1>3, <1>4, <2>2 DEF JoinsAt
  <2> QED BY <2>1, <2>2
<1>6. {i \in Map!Present(Entries(Linked)) : i > k} = after
  BY DEF Map!Present, after
<1>7. Map!Follows(j, k)
  BY <1>5, <1>6 DEF Map!Follows
<1>8. after \subseteq Keys
  BY DEF after
<1> QED BY <1>5, <1>7, <1>8

LEMMA DeleteMaps ==
  ASSUME Shapes, NEW L \in SUBSET Nodes, Holds(L), NEW A \in SUBSET Nodes, Tracks(L, A),
         NEW k \in Keys, Delete(k)
  PROVE  Map!Remove(k)
<1>1. PICK w, p : DeleteAt(L, k, w, p)
  BY DeleteGoes
<1>2. w \in L /\ data[w].key = k /\ data' = data /\ iter' = iter /\ seen' = seen
  BY <1>1 DEF DeleteAt
<1> PICK L2, B : /\ L2 = L \ {w}
                 /\ B = IF iter # Nil /\ p[1] \in A \cup {iter} THEN A \ {w} ELSE A
  OBVIOUS
<1>3. List(next, data, L) /\ List(next', data', L2)
  <2>1. Holds(L \ {w})'
    BY <1>1, DeleteHolds
  <2> QED BY <2>1 DEF Holds
<1>4. Tracks(L2, B)' /\ Pos' = Pos
  <2>1. CASE iter = Nil
    BY <1>2, <2>1 DEF Tracks, Pos
  <2>2. CASE iter # Nil
    <3>1. B = IF p[1] \in A \cup {iter} THEN A \ {w} ELSE A
      BY <2>2
    <3>2. Trail(next', data', iter', B, L \ {w})
      BY <1>1, <2>2, <3>1, DeleteTracks
    <3> QED BY <1>2, <2>2, <3>2 DEF Tracks, Pos
  <2> QED BY <2>1, <2>2
<1>5. Keyed(data, L) /\ data[w].val # Absent
  BY <1>2, <1>3, NodesAssumption DEF Keyed, List
<1>6. MapOf(data, L)[k] = data[w].val /\ MapOf(data, L2) = [MapOf(data, L) EXCEPT ![k] = Absent]
  <2>1. MapOf(data, L)[data[w].key] = data[w].val
    BY <1>2, <1>5, EntryIs
  <2>2. MapOf(data, L \ {w}) = [MapOf(data, L) EXCEPT ![data[w].key] = Absent]
    BY <1>2, <1>5, MapOut
  <2> QED BY <1>2, <2>1, <2>2
<1>7. /\ Entries(Linked) = MapOf(data, L) /\ Entries(Ghosts) = MapOf(data, A \ L)
      /\ JoinKey = JoinOf(data, iter, A, L)
  BY <1>3, Shown
<1>8. /\ Entries(Linked)' = MapOf(data', L2) /\ Entries(Ghosts)' = MapOf(data', B \ L2)
      /\ JoinKey' = JoinOf(data', iter', B, L2)
  BY <1>3, <1>4, ShownNext
<1>9. /\ Entries(Linked)[k] # Absent /\ Entries(Linked)' = [Entries(Linked) EXCEPT ![k] = Absent]
      /\ Entries(Linked)[k] = data[w].val
  BY <1>2, <1>5, <1>6, <1>7, <1>8
<1>10. CASE iter = Nil
  <2>1. JoinKey' = JoinKey /\ Entries(Ghosts)' = Entries(Ghosts)
    <3>1. A = {} /\ B = {}
      BY <1>10 DEF Tracks
    <3>2. A \ L = {} /\ B \ L2 = {}
      BY <3>1
    <3>3. JoinKey = 0 /\ JoinKey' = 0
      BY <1>2, <1>10 DEF JoinKey
    <3> QED BY <1>2, <1>7, <1>8, <3>2, <3>3
  <2> QED BY <1>2, <1>4, <1>9, <1>10, <2>1 DEF Map!Remove
<1>11. CASE iter # Nil
  <2>1. Trail(next, data, iter, A, L)
    BY <1>11 DEF Tracks
  <2>2. Skipped(next, data, L, w, p[1], next') /\ B = IF p[1] \in A \cup {iter} THEN A \ {w} ELSE A
    <3>1. B = IF p[1] \in A \cup {iter} THEN A \ {w} ELSE A
      BY <1>11
    <3> QED BY <1>1, <1>11, <3>1, DeleteTracks
  <2>3. Rejoins(data, iter, A, L, w, k, B, L2)
    <3>1. PICK q, nx : q = p[1] /\ nx = next'
      OBVIOUS
    <3>2. Skipped(next, data, L, w, q, nx) /\ B = IF q \in A \cup {iter} THEN A \ {w} ELSE A
      BY <2>2, <3>1
    <3>3. k = data[w].key /\ L2 = L \ {w} /\ List(next, data, L)
      BY <1>2, <1>3
    <3> QED BY <2>1, <3>2, <3>3, JoinOut
  <2>4. CASE JoinKey # k
    <3>1. JoinKey' = JoinKey /\ Entries(Ghosts)' = Entries(Ghosts)
      BY <1>2, <1>7, <1>8, <2>3, <2>4 DEF Rejoins
    <3> QED BY <1>2, <1>4, <1>9, <2>4, <3>1 DEF Map!Remove
  <2>5. CASE JoinKey = k
    <3>1. JoinKey' \in Keys \cup {Absent} /\ Map!Follows(JoinKey', k)
      <4>1. PICK j : j = JoinKey' /\ JoinsAt(data, Above(data, L, k), j)
        BY <1>2, <1>7, <1>8, <2>3, <2>5 DEF Rejoins
      <4>2. j \in Keys \cup {Absent} /\ Map!Follows(j, k)
        BY <1>3, <4>1, FollowsIs
      <4> QED BY <4>1, <4>2
    <3>2. Entries(Ghosts)' = IF k > Pos THEN [Entries(Ghosts) EXCEPT ![k] = Entries(Linked)[k]]
                             ELSE Entries(Ghosts)
      <4>1. /\ iter \in Nodes \cup {head_} /\ iter \notin A /\ iter # Nil
            /\ \A m \in A \cup {iter} : KeyAt(data, m) \in Nat
            /\ \A a \in A : KeyAt(data, a) = data[a].key /\ KeyAt(data, a) > KeyAt(data, iter)
            /\ Keyed(data, A) /\ Keyed(data, A \ L)
        <5>1. OnTheWay(data, iter, A, L)
          BY <1>3, <2>1, TrailKeys
        <5> QED BY <1>11, <5>1 DEF OnTheWay
      <4>2. Pos = KeyAt(data, iter)
        BY <4>1 DEF Pos, KeyAt
      <4>3. KeyAt(data, w) = k
        BY <1>2, <1>3, KeysAre
      <4>4. B = A /\ w \in A \cup {iter}
        BY <1>7, <2>3, <2>5 DEF Rejoins
      <4>5. CASE w \in A
        <5>1. k > Pos
          BY <4>1, <4>2, <4>3, <4>5
        <5>2. B \ L2 = (A \ L) \cup {w} /\ w \in Nodes /\ w \notin A \ L
          BY <1>2, <4>4, <4>5
        <5>3. \A n \in A \ L : data[n].key # k
          BY <1>2, <4>1, <4>5 DEF Keyed
        <5>4. PICK v \in Values : data[w] = [key |-> k, val |-> v] /\ v = data[w].val
          BY <1>2, <1>5 DEF Keyed
        <5>5. MapOf(data, (A \ L) \cup {w}) = [MapOf(data, A \ L) EXCEPT ![k] = v]
          <6>1. PICK S : S = A \ L /\ Keyed(data, S) /\ \A n \in S : data[n].key # k
            BY <4>1, <5>3
          <6>2. MapOf(data, S \cup {w}) = [MapOf(data, S) EXCEPT ![k] = v]
            BY <5>2, <5>4, <6>1, MapIn
          <6> QED BY <6>1, <6>2
        <5> QED BY <1>2, <1>7, <1>8, <1>9, <5>1, <5>2, <5>4, <5>5
      <4>6. CASE w = iter
        <5>1. ~(k > Pos)
          BY <4>1, <4>2, <4>3, <4>6
        <5>2. B \ L2 = A \ L
          BY <4>1, <4>4, <4>6
        <5> QED BY <1>2, <1>7, <1>8, <5>1, <5>2
      <4> QED BY <4>4, <4>5, <4>6
    <3> QED BY <1>2, <1>4, <1>9, <1>11, <2>5, <3>1, <3>2 DEF Map!Remove
  <2> QED BY <2>4, <2>5
<1> QED BY <1>10, <1>11

\* The keys with an entry are those of the nodes.
LEMMA PresentIs ==
  ASSUME NEW dt, NEW S, Keyed(dt, S)
  PROVE  \A i : i \in Map!Present(MapOf(dt, S)) <=> \E x \in S : dt[x].key = i
<1>1. /\ \A n \in S : dt[n].key \in Keys /\ MapOf(dt, S)[dt[n].key] # Absent
      /\ \A k \in Keys : (\A n \in S : dt[n].key # k) => MapOf(dt, S)[k] = Absent
  <2>1. \A n \in S : dt[n].key \in Keys /\ MapOf(dt, S)[dt[n].key] = dt[n].val /\ dt[n].val # Absent
    BY EntryIs
  <2> QED BY <2>1, EntryIs
<1> QED BY <1>1 DEF Map!Present

\* What OrderedMap's iterator may read next are the keys on the way.
LEMMA AheadIs ==
  ASSUME NEW L, List(next, data, L), NEW A, Tracks(L, A), iter # Nil
  PROVE  /\ \A i : i \in Map!Live <=> \E x \in A \cap L : data[x].key = i
         /\ \A i : i \in Map!Ahead <=> \E x \in A : data[x].key = i
<1>1. Trail(next, data, iter, A, L)
  BY DEF Tracks
<1>2. /\ Entries(Linked) = MapOf(data, L) /\ Entries(Ghosts) = MapOf(data, A \ L)
      /\ JoinKey = JoinOf(data, iter, A, L)
  BY Shown
<1>3. /\ iter \in Nodes \cup {head_}
      /\ Keyed(data, L) /\ Keyed(data, A \ L)
  BY <1>1, TrailKeys DEF OnTheWay
<1>4. Pos = KeyAt(data, iter)
  BY <1>3 DEF Pos, KeyAt
<1>5. /\ \A i : i \in Map!Present(Entries(Linked)) <=> \E x \in L : data[x].key = i
      /\ \A i : i \in Map!Present(Entries(Ghosts)) <=> \E x \in A \ L : data[x].key = i
  BY <1>2, <1>3, PresentIs
<1>6. PICK j : j = JoinKey
  OBVIOUS
<1>7. /\ j = Absent => A \cap L = {}
      /\ j # Absent => \A x \in L : x \in A <=> KeyAt(data, x) > KeyAt(data, iter) /\ KeyAt(data, x) >= j
  BY <1>1, <1>2, <1>6, LiveAre
<1>8. \A x \in L : KeyAt(data, x) = data[x].key
  BY KeysAre
<1>9. \A i : i \in Map!Live <=> \E x \in A \cap L : data[x].key = i
  <2>1. CASE j = Absent
    BY <1>6, <1>7, <2>1 DEF Map!Live
  <2>2. CASE j # Absent
    <3>1. \A i : i \in Map!Live <=> i \in Map!Present(Entries(Linked)) /\ i > Pos /\ i >= j
      BY <1>6, <2>2 DEF Map!Live
    <3>2. \A x \in L : x \in A <=> data[x].key > Pos /\ data[x].key >= j
      BY <1>4, <1>7, <1>8, <2>2
    <3> QED BY <1>5, <3>1, <3>2
  <2> QED BY <2>1, <2>2
<1>10. \A i : i \in Map!Ahead <=> \E x \in A : data[x].key = i
  BY <1>5, <1>9 DEF Map!Ahead
<1> QED BY <1>9, <1>10

LEMMA MoveOnMaps ==
  ASSUME Shapes, NEW L \in SUBSET Nodes, Holds(L), NEW A \in SUBSET Nodes, Tracks(L, A), MoveOn
  PROVE  Map!Stop \/ \E k \in Keys : Map!Advance(k)
<1>1. UNCHANGED <<next, data>> /\ iter # Nil
  BY DEF MoveOn
<1>2. PICK B \in SUBSET Nodes :
        /\ Tracks(L, B)'
        /\ \/ iter' = Nil /\ A = {} /\ B = {}
           \/ /\ iter' \in A /\ \A b \in A : KeyAt(data, iter') <= KeyAt(data, b)
              /\ B = A \ {iter'}
  BY MoveOnTracks
<1>3. List(next, data, L) /\ List(next', data', L)
  BY <1>1 DEF Holds
<1>4. /\ Entries(Linked) = MapOf(data, L) /\ Entries(Ghosts) = MapOf(data, A \ L)
      /\ JoinKey = JoinOf(data, iter, A, L)
  BY <1>3, Shown
<1>5. /\ Entries(Linked)' = MapOf(data', L) /\ Entries(Ghosts)' = MapOf(data', B \ L)
      /\ JoinKey' = JoinOf(data', iter', B, L)
  BY <1>2, <1>3, ShownNext
<1>6. Entries(Linked)' = Entries(Linked)
  BY <1>1, <1>4, <1>5
<1>7. /\ \A i : i \in Map!Live <=> \E x \in A \cap L : data[x].key = i
      /\ \A i : i \in Map!Ahead <=> \E x \in A : data[x].key = i
  BY <1>1, <1>3, AheadIs
<1>8. CASE iter' = Nil /\ A = {} /\ B = {}
  <2>1. Map!Ahead = {} /\ seen' = seen
    BY <1>7, <1>8 DEF MoveOn
  <2>2. A \ L = B \ L
    BY <1>8
  <2>3. Entries(Ghosts)' = Entries(Ghosts)
    BY <1>1, <1>4, <1>5, <2>2
  <2>4. JoinKey' = 0 /\ Pos' = 0
    BY <1>8 DEF JoinKey, Pos
  <2> QED BY <1>1, <1>6, <1>8, <2>1, <2>3, <2>4 DEF Map!Stop
<1>9. CASE /\ iter' \in A /\ \A b \in A : KeyAt(data, iter') <= KeyAt(data, b)
           /\ B = A \ {iter'}
  <2> PICK a : a = iter'
    OBVIOUS
  <2>1. /\ a \in A /\ \A b \in A : KeyAt(data, a) <= KeyAt(data, b)
        /\ B = A \ {a} /\ a \in Nodes /\ a # Nil /\ a # head_
    BY <1>9, NodesAssumption DEF head_
  <2>2. Trail(next, data, iter, A, L)
    BY <1>1 DEF Tracks
  <2>3. OnTheWay(data, iter, A, L)
    BY <1>3, <2>2, TrailKeys
  <2>4. /\ iter \notin A
        /\ \A m \in A \cup {iter} : KeyAt(data, m) \in Nat
        /\ \A x, y \in A \cup {iter} : KeyAt(data, x) = KeyAt(data, y) => x = y
        /\ Keyed(data, L) /\ Keyed(data, A \ L)
    BY <2>3 DEF OnTheWay
  <2>5. \A x \in A : KeyAt(data, x) = data[x].key /\ data[x].key \in Keys
                     /\ KeyAt(data, x) > KeyAt(data, iter)
    BY <2>3 DEF OnTheWay
  <2>6. PICK k \in Keys : k = data[a].key /\ k = KeyAt(data, a)
    BY <2>1, <2>5
  <2>7. Pos' = k /\ (iter # Nil)' /\ seen' = [seen EXCEPT ![k] = data[a].val]
    BY <1>1, <2>1, <2>6 DEF Pos, MoveOn
  <2>8. k \in Map!Ahead /\ \A j \in Map!Ahead : k <= j
    BY <1>7, <2>1, <2>5, <2>6
  <2>9. CASE a \in L
    <3>1. k \in Map!Live
      BY <1>7, <2>1, <2>6, <2>9
    <3>2. Entries(Linked)[k] = data[a].val
      <4>1. MapOf(data, L)[data[a].key] = data[a].val
        BY <2>4, <2>9, EntryIs
      <4> QED BY <1>4, <2>6, <4>1
    <3>3. B \ L = A \ L
      BY <2>1, <2>9
    <3>4. Entries(Ghosts)' = Entries(Ghosts)
      BY <1>1, <1>4, <1>5, <3>3
    <3>5. JoinKey' = k
      <4>1. a \in JoinsOf(a, B, L) /\ JoinsOf(a, B, L) \subseteq A
        BY <2>1, <2>9 DEF JoinsOf
      <4>2. JoinsAt(data, JoinsOf(a, B, L), k)
        BY <2>1, <2>6, <4>1 DEF JoinsAt
      <4>3. k = JoinOf(data, a, B, L)
        BY <2>1, <2>4, <4>1, <4>2, JoinIs
      <4> QED BY <1>1, <1>5, <4>3
    <3> QED BY <1>1, <1>6, <2>7, <2>8, <3>1, <3>2, <3>4, <3>5 DEF Map!Advance
  <2>10. CASE a \notin L
    <3>1. k \notin Map!Live
      BY <1>7, <2>1, <2>4, <2>5, <2>6, <2>10
    <3>2. Entries(Ghosts)[k] = data[a].val
      <4>1. MapOf(data, A \ L)[data[a].key] = data[a].val
        BY <2>1, <2>4, <2>10, EntryIs
      <4> QED BY <1>4, <2>6, <4>1
    <3>3. B \ L = (A \ L) \ {a} /\ a \in A \ L
      BY <2>1, <2>10
    <3>4. Entries(Ghosts)' = [Entries(Ghosts) EXCEPT ![k] = Absent]
      <4>1. MapOf(data, (A \ L) \ {a}) = [MapOf(data, A \ L) EXCEPT ![data[a].key] = Absent]
        BY <2>4, <3>3, MapOut
      <4> QED BY <1>1, <1>4, <1>5, <2>6, <3>3, <4>1
    <3>5. JoinKey' = JoinKey
      <4>1. iter \notin L \cup {head_}
        BY <2>1, <2>2, <2>5, <2>10 DEF Trail
      <4>2. JoinsOf(a, B, L) = JoinsOf(iter, A, L)
        BY <2>1, <4>1 DEF JoinsOf
      <4>3. JoinOf(data, a, B, L) = JoinOf(data, iter, A, L)
        BY <1>1, <2>1, <4>2 DEF JoinOf
      <4> QED BY <1>1, <1>4, <1>5, <4>3
    <3> QED BY <1>1, <1>6, <2>7, <2>8, <3>1, <3>2, <3>4, <3>5 DEF Map!Advance
  <2> QED BY <2>9, <2>10
<1> QED BY <1>2, <1>8, <1>9

LEMMA NewIterMaps ==
  ASSUME NEW L \in SUBSET Nodes, Holds(L), NEW A \in SUBSET Nodes, Tracks(L, A), NewIter
  PROVE  Map!Start
<1>1. UNCHANGED <<next, data>> /\ iter = Nil /\ iter' = head_ /\ seen' = Nothing /\ head_ # Nil
  BY NodesAssumption DEF NewIter, head_
<1>2. List(next, data, L) /\ List(next', data', L)
  BY <1>1 DEF Holds
<1>3. Tracks(L, L)'
  BY <1>1, <1>2, TrailStarts DEF Tracks
<1>4. Entries(Linked)' = Entries(Linked)
  BY <1>1, <1>2, <1>3, Shown, ShownNext
<1>5. A \ L = {} /\ L \ L = {}
  BY <1>1 DEF Tracks
<1>6. Entries(Ghosts)' = Entries(Ghosts)
  <2>1. Entries(Ghosts) = MapOf(data, A \ L)
    BY <1>2, Shown
  <2>2. Entries(Ghosts)' = MapOf(data', L \ L)
    BY <1>2, <1>3, ShownNext
  <2> QED BY <1>1, <1>5, <2>1, <2>2
<1>7. JoinKey = 0 /\ Pos = 0 /\ Pos' = 0
  BY <1>1 DEF JoinKey, Pos
<1>8. JoinKey' = 0
  <2>1. head_ \in JoinsOf(head_, L, L)
    BY DEF JoinsOf
  <2>2. JoinKey' = JoinOf(data', iter', L, L)
    BY <1>2, <1>3, ShownNext
  <2> QED BY <1>1, <2>1, <2>2 DEF JoinOf
<1> QED BY <1>1, <1>4, <1>6, <1>7, <1>8 DEF Map!Start, Map!Nothing, Nothing

LEMMA NextMaps == IInv /\ [Next]_vars => [Map!Next]_(Map!mvars)
<1> SUFFICES ASSUME Shapes, NEW L \in SUBSET Nodes, NEW A \in SUBSET Nodes, Holds(L), Tracks(L, A),
                    [Next]_vars
             PROVE  Map!Next \/ UNCHANGED Map!mvars
  BY DEF IInv
<1>1. ASSUME NEW k \in Keys, Delete(k) PROVE Map!Next
  BY <1>1, DeleteMaps DEF Map!Next
<1>2. ASSUME NEW k \in Keys, NEW v \in Values, Insert(k, v) PROVE Map!Next
  BY <1>2, InsertMaps DEF Map!Next
<1>3. CASE NewIter
  BY <1>3, NewIterMaps DEF Map!Next
<1>4. CASE MoveOn
  BY <1>4, MoveOnMaps DEF Map!Next
<1>5. CASE UNCHANGED vars
  <2>1. UNCHANGED <<next, data, iter, seen>>
    BY <1>5 DEF vars
  <2>2. List(next, data, L) /\ List(next', data', L) /\ Tracks(L, A)'
    BY <2>1 DEF Holds, Tracks
  <2>3. /\ Entries(Linked)' = Entries(Linked) /\ Entries(Ghosts)' = Entries(Ghosts)
        /\ JoinKey' = JoinKey
    <3>1. /\ Entries(Linked) = MapOf(data, L) /\ Entries(Ghosts) = MapOf(data, A \ L)
          /\ JoinKey = JoinOf(data, iter, A, L)
      BY <2>2, Shown
    <3>2. /\ Entries(Linked)' = MapOf(data', L) /\ Entries(Ghosts)' = MapOf(data', A \ L)
          /\ JoinKey' = JoinOf(data', iter', A, L)
      BY <2>2, ShownNext
    <3> QED BY <2>1, <3>1, <3>2
  <2>4. Pos' = Pos
    BY <2>1 DEF Pos
  <2> QED BY <2>1, <2>3, <2>4 DEF Map!mvars
<1> QED BY <1>1, <1>2, <1>3, <1>4, <1>5 DEF Next

\* The list is a map in key order: Insert and Delete change their key and no
\* other, and an iterator reads in key order the entries from where it stands -
\* of the list, or, while its way leads over nodes unlinked behind it, those
\* nodes' until it meets the list again.
THEOREM ListIsAMap == Spec => ImplementsOrderedMap
BY Invariant, InitMaps, NextMaps, PTL DEF Spec, ImplementsOrderedMap, Map!Spec
=============================================================================

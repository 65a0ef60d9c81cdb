------------------------------ MODULE SkipList ------------------------------
(***************************************************************************)
(* SkipList (src/memtable/skiplist.h): nodes with a pointer per level, the *)
(* searches, Insert, Delete, the counters and an iterator.  Nodes are      *)
(* never freed, so the iterator may stand on a node that was unlinked.     *)
(* Levels count from 1 here; head_ is the node 0.                      *)
(***************************************************************************)
EXTENDS Integers, Sequences, FiniteSets, FiniteSetsExt, Functions

CONSTANTS
  Keys,             \* positive integers, in their string order
  Values, Absent,
  KeyLen, ValLen,   \* sizes in bytes
  Nodes,            \* addresses of nodes
  Nil,              \* nullptr
  kMaxHeight

ASSUME KeysAssumption == /\ Keys \subseteq Nat \ {0} /\ kMaxHeight \in Nat \ {0}
                         /\ KeyLen \in [Keys -> Nat] /\ ValLen \in [Values -> Nat]
ASSUME NodesAssumption == /\ Nil \notin Nodes \cup {0} /\ 0 \notin Nodes
                          /\ Absent \notin Values \cup Nat

VARIABLES
  next,        \* Node::next of every node and of head_
  data,        \* each node's key and value
  max_level, size, mem_usage,
  iter,        \* SkipListIterator::node; head_ before MoveToFirst, Nil when done
  seen         \* (history) what the iterator has read

vars == <<next, data, max_level, size, mem_usage, iter, seen>>

head_ == 0
Places == Nodes \cup {head_}
Level(n) == Len(next[n])
Nothing == [k \in Keys |-> Absent]

Init == /\ next = [n \in Places |-> IF n = head_ THEN [i \in 1..kMaxHeight |-> Nil] ELSE <<>>]
        /\ data = [n \in Nodes |-> Nil]
        /\ max_level = 1 /\ size = 0 /\ mem_usage = 0
        /\ iter = Nil /\ seen = Nothing

-----------------------------------------------------------------------------
(* The searches. *)

\* Get, Contains: down at a greater key or at the end, done at an equal one.
\* (Mutant of Search: a greater key ends it on every level.)
SearchOneWay(k) ==
  LET from[at \in Places \X (1..kMaxHeight)] ==
        LET n == next[at[1]][at[2]]
        IN  IF n \in Nodes /\ data[n].key = k THEN n
            ELSE IF n \in Nodes /\ data[n].key < k THEN from[<<n, at[2]>>]
            ELSE IF n \notin Nodes /\ at[2] > 1 THEN from[<<at[1], at[2] - 1>>]
            ELSE Nil
  IN  from[<<head_, max_level>>]

Search(k) ==
  LET from[at \in Places \X (1..kMaxHeight)] ==
        LET n == next[at[1]][at[2]]
        IN  IF n \in Nodes /\ data[n].key = k THEN n
            ELSE IF n \in Nodes /\ data[n].key < k THEN from[<<n, at[2]>>]
            ELSE IF at[2] > 1 THEN from[<<at[1], at[2] - 1>>]
            ELSE Nil
  IN  from[<<head_, max_level>>]

Contains(k) == Search(k) # Nil
Get(k) == IF Contains(k) THEN data[Search(k)].val ELSE Absent

\* FindPrevNode, and the search of Delete: on each level the last node before
\* k, each level starting where the one above ended.  Levels above max_level
\* have none: the new node goes behind head_.
\* (Mutant: only the bottom level is searched, the others count from head_.)
FindPrevAtBottom(k) ==
  LET last[n \in Places] ==
        LET m == next[n][1]
        IN  IF m \notin Nodes \/ data[m].key >= k THEN n ELSE last[m]
  IN  [i \in 1..kMaxHeight |-> IF i = 1 THEN last[head_] ELSE head_]

FindPrevNode(k) ==
  LET last[at \in Places \X (1..kMaxHeight)] ==
        LET m == next[at[1]][at[2]]
        IN  IF m \notin Nodes \/ data[m].key >= k THEN at[1] ELSE last[<<m, at[2]>>]
      prev[i \in 1..kMaxHeight] ==
        IF i > max_level THEN head_
        ELSE last[<<IF i = max_level THEN head_ ELSE prev[i + 1], i>>]
  IN  prev

-----------------------------------------------------------------------------
(* The operations. *)

\* The nodes on the way from n along the bottom level.
After(n) == LET rest[m \in Places] == IF next[m][1] \notin Nodes THEN {}
                                      ELSE {next[m][1]} \cup rest[next[m][1]]
            IN  rest[n]

Linked == After(head_)

\* A node that nothing leads to: unused, or leaked.
Unused == Nodes \ (Linked \cup IF iter = Nil THEN {} ELSE After(iter) \cup {iter})

\* What a node adds to mem_usage and what its removal takes from it.
\* (Mutants: only the key is counted.)
AddedKey(k, v) == KeyLen[k]
Added(k, v) == KeyLen[k] + ValLen[v]
RemovedKey(n) == KeyLen[data[n].key]
Removed(n) == KeyLen[data[n].key] + ValLen[data[n].val]

\* A coin for every level above the first.
RandomLevel == 1..kMaxHeight

\* A key that is there: warn and return.
Insert(k, v) ==
  /\ ~Contains(k)
  /\ \E n \in Unused, level \in RandomLevel :                       \* bound: Nodes
       LET prev == FindPrevNode(k)
       IN  /\ next' = [m \in Places |->
                        IF m = n THEN [i \in 1..level |-> next[prev[i]][i]]
                        ELSE [i \in DOMAIN next[m] |->
                               IF i <= level /\ prev[i] = m THEN n ELSE next[m][i]]]
           /\ data' = [data EXCEPT ![n] = [key |-> k, val |-> v]]
           /\ max_level' = Max({level, max_level})
  /\ size' = size + 1
  /\ mem_usage' = mem_usage + Added(k, v)
  /\ UNCHANGED <<iter, seen>>

\* The pointers to n lead past it; n keeps its own, and so does an iterator.
\* (Mutant: n's are cleared.)
Cut(n, prev) == [m \in Places |-> [i \in DOMAIN next[m] |->
                   IF m = n THEN Nil
                   ELSE IF i <= Level(n) /\ prev[i] = m THEN next[n][i] ELSE next[m][i]]]
Bypassed(n, prev) == [m \in Places |-> [i \in DOMAIN next[m] |->
                        IF i <= Level(n) /\ prev[i] = m THEN next[n][i] ELSE next[m][i]]]

Delete(k) ==
  /\ Contains(k)
  /\ LET prev == FindPrevNode(k)
         n == next[prev[1]][1]
     IN  /\ next' = Bypassed(n, prev)
         /\ mem_usage' = mem_usage - Removed(n)
  /\ size' = size - 1
  /\ UNCHANGED <<data, max_level, iter, seen>>

\* A new iterator; MoveToFirst and Next are one step each, with the key and
\* the value read there.
NewIter == /\ iter = Nil
           /\ iter' = head_ /\ seen' = Nothing
           /\ UNCHANGED <<next, data, max_level, size, mem_usage>>

\* (Mutant of MoveOn: it follows the node's top level.)
MoveOnTop ==
  /\ iter # Nil
  /\ iter' = next[iter][IF iter = head_ THEN 1 ELSE Level(iter)]
  /\ seen' = IF iter' = Nil THEN seen
             ELSE [seen EXCEPT ![data[iter'].key] = data[iter'].val]
  /\ UNCHANGED <<next, data, max_level, size, mem_usage>>

MoveOn == /\ iter # Nil
          /\ iter' = next[iter][1]
          /\ seen' = IF iter' = Nil THEN seen
                     ELSE [seen EXCEPT ![data[iter'].key] = data[iter'].val]
          /\ UNCHANGED <<next, data, max_level, size, mem_usage>>

Next == \/ \E k \in Keys : Delete(k) \/ \E v \in Values : Insert(k, v)
        \/ NewIter \/ MoveOn

Spec == Init /\ [][Next]_vars

-----------------------------------------------------------------------------
(* Properties. *)

\* Every variable holds a value of its type.
TypeOK == /\ DOMAIN next = Places
          /\ \A n \in Places : next[n] \in Seq(Nodes \cup {Nil}) /\ Level(n) <= kMaxHeight
          /\ data \in [Nodes -> [key : Keys, val : Values] \cup {Nil}]
          /\ max_level \in 1..kMaxHeight /\ size \in Nat /\ mem_usage \in Nat
          /\ iter \in Places \cup {Nil}
          /\ seen \in [Keys -> Values \cup {Absent}]

\* On every level the list leads in strictly ascending key order through the
\* nodes tall enough for it, and through all of those that are linked at all.
LevelsNested ==
  \A i \in 1..kMaxHeight : \A n \in Linked \cup {head_} :
    Level(n) >= i =>
      LET taller == {m \in Linked : Level(m) >= i /\ (n = head_ \/ data[m].key > data[n].key)}
      IN  IF taller = {} THEN next[n][i] = Nil
          ELSE /\ next[n][i] \in taller
               /\ \A m \in taller : data[next[n][i]].key <= data[m].key

\* The counters that MemTable's limit and Close rely on match the list.
CountersMatch ==
  /\ size = Cardinality(Linked)
  /\ mem_usage = SumFunctionOnSet([n \in Linked |-> KeyLen[data[n].key] + ValLen[data[n].val]], Linked)

\* A search from the top finds exactly the nodes of the bottom level.
SearchFindsLinked ==
  \A k \in Keys : LET at == {n \in Linked : data[n].key = k}
                  IN  IF at = {} THEN Search(k) = Nil ELSE Search(k) \in at

\* What the nodes S hold, by key.
Entries(S) == [k \in Keys |-> IF \E n \in S : data[n].key = k
                              THEN data[CHOOSE n \in S : data[n].key = k].val
                              ELSE Absent]

\* The iterator's key; the unlinked nodes on its way, and where the way meets
\* the list again.
Pos == IF iter \in {Nil, head_} THEN 0 ELSE data[iter].key
Ghosts == IF iter = Nil THEN {} ELSE After(iter) \ Linked
Joins == IF iter = Nil THEN {} ELSE (After(iter) \cup {iter}) \cap (Linked \cup {head_})
JoinKey == IF iter = Nil \/ head_ \in Joins THEN 0
           ELSE IF Joins = {} THEN Absent
           ELSE Min({data[n].key : n \in Joins})

Map == INSTANCE OrderedMap
         WITH map <- Entries(Linked), ghost <- Entries(Ghosts),
              walking <- iter # Nil, pos <- Pos, join <- JoinKey

\* The list is a map in key order, and an iterator on it - on unlinked nodes
\* too - reads what OrderedMap says, which is how DBImpl's flush reads it.
ImplementsOrderedMap == Map!Spec
=============================================================================

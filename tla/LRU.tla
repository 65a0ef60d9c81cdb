--------------------------------- MODULE LRU ---------------------------------
(***************************************************************************)
(* LRU (src/cache/lru.h): one shard of the cache with its nodes, their     *)
(* reference counts and the garbage station.  Every operation holds the    *)
(* shard's mutex, so each is one step; callers hold node pointers between  *)
(* steps.                                                                  *)
(***************************************************************************)
EXTENDS LRUList, FiniteSets

CONSTANTS
  Keys, Values,
  Nodes,       \* addresses of nodes
  None,        \* a null pointer, a free address, an absent key
  Holders,     \* places where a caller keeps the pointer get() returned
  cap,
  Releases,    \* "never", as DBImpl does; "listed" nodes only; or "always"
  MaxGets      \* bound: gets of a node that are not given back

ASSUME LimitAssumption == cap \in Nat /\ MaxGets \in Nat
ASSUME ReleasesAssumption == Releases \in {"never", "listed", "always"}
ASSUME HoldersAssumption == IsFiniteSet(Holders)
ASSUME NoneAssumption ==
  /\ None \notin Nodes \cup Values
  /\ None \notin [key : Keys, val : Values, ref_cnt : Nat, in_cache : BOOLEAN]

VARIABLES
  heap,       \* the nodes alive: address -> key, val, ref_cnt, in_cache
  nodes,      \* LRU::nodes, most recently used first
  index,      \* LRU::index: key -> the node its iterator leads to
  station,    \* LRU::garbage_station
  held,       \* each holder's key and pointer
  gets,       \* (history) for each node, the gets not given back
  used,       \* (history) the key inserted or got last
  undefined   \* the program did what C++ gives no meaning to

vars == <<heap, nodes, index, station, held, gets, used, undefined>>

Alive(n) == heap[n] # None
NotHeld == [key |-> None, node |-> None]

Init == /\ heap = [n \in Nodes |-> None]
        /\ nodes = <<>>
        /\ index = [k \in Keys |-> None]
        /\ station = [k \in Keys |-> None]
        /\ held = [h \in Holders |-> NotHeld]
        /\ gets = [n \in Nodes |-> 0]
        /\ used = None
        /\ undefined = FALSE

NewNode(k, v) == [key |-> k, val |-> v, ref_cnt |-> 1, in_cache |-> TRUE]

\* (Mutant of ToFront: the list stays as it is.)
InPlace(s, n) == s

\* nodes.splice(begin, nodes, it), for the node it leads to
ToFront(s, n) == Touch(s, n)

-----------------------------------------------------------------------------
(* The private helpers, on the heap and the station they are given. *)

\* (Mutants of Unref: < 0 for <= 0; the station keeps what is deleted.)
UnrefLate(hp, st, n) ==
  IF hp[n].ref_cnt - 1 < 0
  THEN [heap |-> [hp EXCEPT ![n] = None], station |-> [st EXCEPT ![hp[n].key] = None]]
  ELSE [heap |-> [hp EXCEPT ![n].ref_cnt = @ - 1], station |-> st]

UnrefOnly(hp, st, n) ==
  IF hp[n].ref_cnt - 1 <= 0
  THEN [heap |-> [hp EXCEPT ![n] = None], station |-> st]
  ELSE [heap |-> [hp EXCEPT ![n].ref_cnt = @ - 1], station |-> st]

\* unref: the last reference deletes the node and clears its key's station.
Unref(hp, st, n) ==
  IF hp[n].ref_cnt - 1 <= 0
  THEN [heap |-> [hp EXCEPT ![n] = None], station |-> [st EXCEPT ![hp[n].key] = None]]
  ELSE [heap |-> [hp EXCEPT ![n].ref_cnt = @ - 1], station |-> st]

\* (Mutant of PhantomErase: the node is deleted whoever holds it.)
EraseAtOnce(hp, list, ix, n) ==
  /\ nodes' = Unlink(list, ix[hp[n].key])
  /\ index' = [ix EXCEPT ![hp[n].key] = None]
  /\ heap' = [hp EXCEPT ![n] = None]
  /\ UNCHANGED station

\* phantom_erase_node: out of list and index, to the station, minus the
\* cache's own reference.
PhantomErase(hp, list, ix, n) ==
  LET k == hp[n].key
      after == Unref([hp EXCEPT ![n].in_cache = FALSE], [station EXCEPT ![k] = n], n)
  IN  /\ nodes' = Unlink(list, ix[k])
      /\ index' = [ix EXCEPT ![k] = None]
      /\ heap' = after.heap
      /\ station' = after.station

-----------------------------------------------------------------------------
(* The operations. *)

\* A node for a key already there is allocated and forgotten: no pointer to it
\* remains, and it leaves the model.
Insert(k, v) ==
  /\ ~undefined
  /\ IF index[k] = None
     THEN \E n \in {m \in Nodes : ~Alive(m)} :                          \* bound
            LET hp == [heap EXCEPT ![n] = NewNode(k, v)]
                list == PushFront(nodes, n)
                ix == [index EXCEPT ![k] = n]
            IN  /\ gets' = [gets EXCEPT ![n] = 0]
                /\ IF Len(list) > cap
                   THEN PhantomErase(hp, list, ix, Oldest(list))
                   ELSE heap' = hp /\ nodes' = list /\ index' = ix /\ UNCHANGED station
     ELSE /\ nodes' = ToFront(nodes, index[k])
          /\ UNCHANGED <<heap, index, station, gets>>
  /\ used' = k
  /\ UNCHANGED <<held, undefined>>

Erase(k) ==
  /\ ~undefined
  /\ index[k] # None
  /\ PhantomErase(heap, nodes, index, index[k])
  /\ UNCHANGED <<held, gets, used, undefined>>

\* (Mutant of Get: the reader's reference is not counted.)
GetUncounted(h, k) ==
  /\ ~undefined
  /\ held[h] = NotHeld
  /\ index[k] # None
  /\ gets[index[k]] < MaxGets                                        \* bound
  /\ nodes' = ToFront(nodes, index[k])
  /\ held' = [held EXCEPT ![h] = [key |-> k, node |-> index[k]]]
  /\ gets' = [gets EXCEPT ![index[k]] = @ + 1]
  /\ used' = k
  /\ UNCHANGED <<heap, index, station, undefined>>

Get(h, k) ==
  /\ ~undefined
  /\ held[h] = NotHeld
  /\ index[k] # None
  /\ gets[index[k]] < MaxGets                                        \* bound
  /\ nodes' = ToFront(nodes, index[k])
  /\ heap' = [heap EXCEPT ![index[k]].ref_cnt = @ + 1]
  /\ held' = [held EXCEPT ![h] = [key |-> k, node |-> index[k]]]
  /\ gets' = [gets EXCEPT ![index[k]] = @ + 1]
  /\ used' = k
  /\ UNCHANGED <<index, station, undefined>>

\* DBImpl copies the value and drops the pointer.
Drop(h) ==
  /\ ~undefined
  /\ held[h] # NotHeld
  /\ held' = [held EXCEPT ![h] = NotHeld]
  /\ UNCHANGED <<heap, nodes, index, station, gets, used, undefined>>

\* release(key) goes through the index: index[key] of a key that is not there
\* makes an iterator that leads nowhere, and of a key inserted again it is
\* another node.
Release(h) ==
  LET n == index[held[h].key]
      after == Unref(heap, station, n)
  IN  /\ ~undefined
      /\ held[h] # NotHeld
      /\ Releases = "always" \/ (Releases = "listed" /\ n = held[h].node)
      /\ held' = [held EXCEPT ![h] = NotHeld]
      /\ IF n = None \/ ~Alive(n)
         THEN undefined' = TRUE /\ UNCHANGED <<heap, station, gets>>
         ELSE /\ heap' = after.heap /\ station' = after.station
              /\ gets' = [gets EXCEPT ![held[h].node] = @ - 1]
              /\ UNCHANGED undefined
      /\ UNCHANGED <<nodes, index, used>>

Next == \/ \E k \in Keys : Erase(k) \/ \E v \in Values : Insert(k, v)
        \/ \E h \in Holders : Drop(h) \/ Release(h) \/ \E k \in Keys : Get(h, k)

Spec == Init /\ [][Next]_vars

-----------------------------------------------------------------------------
(* Properties. *)

NodeRecords == [key : Keys, val : Values, ref_cnt : Nat \ {0}, in_cache : BOOLEAN]

\* Every variable holds a value of its type; a node alive is referenced.
TypeOK == /\ heap \in [Nodes -> NodeRecords \cup {None}]
          /\ nodes \in Seq(Nodes)
          /\ index \in [Keys -> Nodes \cup {None}]
          /\ station \in [Keys -> Nodes \cup {None}]
          /\ held \in [Holders -> [key : Keys, node : Nodes] \cup {NotHeld}]
          /\ gets \in [Nodes -> Nat]
          /\ used \in Keys \cup {None}
          /\ undefined \in BOOLEAN

Members == {nodes[i] : i \in DOMAIN nodes}

\* A pointer that get returned leads to a node with the key asked for until
\* the caller drops it, whatever was evicted or erased meanwhile.
HeldStayAlive ==
  \A h \in Holders : held[h] # NotHeld =>
    Alive(held[h].node) /\ heap[held[h].node].key = held[h].key

\* A node's count is one for the cache while it is listed, and one for each
\* get that was not given back: nothing is deleted early or kept for nothing.
RefsCounted ==
  \A n \in Nodes : Alive(n) =>
    /\ heap[n].ref_cnt = gets[n] + (IF n \in Members THEN 1 ELSE 0)
    /\ heap[n].in_cache <=> n \in Members

\* The garbage station holds nodes that are alive, out of the cache and in use.
StationAlive ==
  \A k \in Keys : station[k] # None =>
    /\ Alive(station[k]) /\ heap[station[k]].key = k
    /\ station[k] \notin Members /\ gets[station[k]] > 0

KeyOf(n) == heap[n].key
Abstract == INSTANCE LRUSpec
              WITH Absent <- None,
                   order <- [i \in DOMAIN nodes |-> KeyOf(nodes[i])],
                   cached <- [k \in Keys |-> IF index[k] = None THEN None
                                             ELSE heap[index[k]].val]

\* The nodes, the index and the counts together are an LRU list.
ImplementsLRU == Abstract!Spec
=============================================================================

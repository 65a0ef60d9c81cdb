------------------------------ MODULE LRUList ------------------------------
(***************************************************************************)
(* The list/index pair of one LRU shard (src/cache/lru.h) as operators: a  *)
(* list of keys (in LRU, of nodes), most recently used first.  LRU::index  *)
(* is implicit: a key has an iterator exactly when the list holds it.      *)
(***************************************************************************)
EXTENDS Integers, Sequences

Listed(l, k) == \E i \in DOMAIN l : l[i] = k

Place(l, k) == CHOOSE i \in DOMAIN l : l[i] = k

\* nodes.erase(index[k])
Unlink(l, k) == SubSeq(l, 1, Place(l, k) - 1) \o SubSeq(l, Place(l, k) + 1, Len(l))

\* nodes.splice(nodes.begin(), nodes, index[k])
Touch(l, k) == <<k>> \o Unlink(l, k)

\* nodes.push_front(k) of a key that is not listed
PushFront(l, k) == <<k>> \o l

\* nodes.back(), and the list without it
Oldest(l) == l[Len(l)]
DropOldest(l) == SubSeq(l, 1, Len(l) - 1)

\* Every key sits in the list at most once.
Distinct(l) == \A i, j \in DOMAIN l : l[i] = l[j] => i = j
=============================================================================

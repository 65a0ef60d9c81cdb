------------------------------ MODULE LRUProofs ------------------------------
(***************************************************************************)
(* Theorems about LRU, for any keys, nodes, holders and any capacity, as   *)
(* long as release is called of listed nodes only, or never (Releases):    *)
(* the counts are right, no node is deleted under a holder, and the nodes  *)
(* and the index together are the LRU list of LRUSpec.                     *)
(***************************************************************************)
EXTENDS LRU, DataProofs

-----------------------------------------------------------------------------
(* The inductive invariant, in parts.  The parts name their state, since   *)
(* insert has put a node in front when it evicts another.                  *)

Typed(hp, list, ix, st, gs) ==
  /\ hp \in [Nodes -> NodeRecords \cup {None}]
  /\ list \in Seq(Nodes) /\ Distinct(list)
  /\ ix \in [Keys -> Nodes \cup {None}]
  /\ st \in [Keys -> Nodes \cup {None}]
  /\ gs \in [Nodes -> Nat]

\* The index leads to the listed nodes, and to no others.
Linked(hp, list, ix) ==
  /\ \A n \in Nodes : Listed(list, n) => hp[n] # None /\ ix[hp[n].key] = n
  /\ \A k \in Keys : ix[k] # None => Listed(list, ix[k]) /\ hp[ix[k]].key = k

Counted(hp, list, gs) ==
  \A n \in Nodes : hp[n] # None =>
    /\ hp[n].ref_cnt = gs[n] + (IF Listed(list, n) THEN 1 ELSE 0)
    /\ hp[n].in_cache <=> Listed(list, n)

Stationed(hp, list, st, gs) ==
  \A k \in Keys : st[k] # None =>
    /\ hp[st[k]] # None /\ hp[st[k]].key = k
    /\ ~Listed(list, st[k]) /\ gs[st[k]] > 0

Sound(hp, list, ix, st, gs) ==
  /\ Typed(hp, list, ix, st, gs)
  /\ Linked(hp, list, ix)
  /\ Counted(hp, list, gs)
  /\ Stationed(hp, list, st, gs)

\* Those who hold a node got it, and have not given it back.
Holding(n) == {h \in Holders : held[h] # NotHeld /\ held[h].node = n}

HeldCounted == \A n \in Nodes : Alive(n) => Cardinality(Holding(n)) <= gets[n]

Rest == /\ held \in [Holders -> [key : Keys, node : Nodes] \cup {NotHeld}]
        /\ used \in Keys \cup {None}
        /\ undefined = FALSE

IInv == Sound(heap, nodes, index, station, gets) /\ Rest /\ HeldStayAlive /\ HeldCounted

-----------------------------------------------------------------------------
(* Holders. *)

LEMMA HoldingIsFinite ==
  \A n : IsFiniteSet(Holding(n)) /\ Cardinality(Holding(n)) \in Nat
<1> SUFFICES ASSUME NEW n
             PROVE  IsFiniteSet(Holding(n)) /\ Cardinality(Holding(n)) \in Nat
  OBVIOUS
<1>1. Holding(n) \subseteq Holders
  BY DEF Holding
<1>2. IsFiniteSet(Holding(n))
  BY <1>1, HoldersAssumption, FS_Subset
<1> QED BY <1>2, FS_CardinalityType

\* A held node has a get that was not given back.
LEMMA HeldIsCounted ==
  ASSUME IInv, NEW h \in Holders, held[h] # NotHeld
  PROVE  held[h].node \in Nodes /\ held[h].key \in Keys /\ gets[held[h].node] > 0
<1> DEFINE n == held[h].node
           H == Holding(n)
<1>1. n \in Nodes /\ held[h].key \in Keys
  BY DEF IInv, Rest
<1>2. Alive(n)
  BY DEF IInv, HeldStayAlive
<1>3. h \in Holding(n)
  BY DEF Holding
<1>4. IsFiniteSet(H) /\ Cardinality(H) \in Nat /\ H # {}
  BY <1>3, HoldingIsFinite
<1>5. Cardinality(H) # 0
  <2> HIDE DEF H
  <2> QED BY <1>4, FS_EmptySet
<1>6. Cardinality(H) <= gets[n]
  BY <1>1, <1>2 DEF IInv, HeldCounted
<1>7. gets[n] \in Nat
  BY <1>1 DEF IInv, Sound, Typed
<1> HIDE DEF H
<1> QED BY <1>1, <1>4, <1>5, <1>6, <1>7

-----------------------------------------------------------------------------
(* phantom_erase_node. *)

\* Of a listed node: it leaves the list and the index, stays alive for as long
\* as someone got it, and no other node is touched.
LEMMA PhantomKeeps ==
  ASSUME NEW hp, NEW list, NEW ix, NEW gs, NEW n \in Nodes,
         Sound(hp, list, ix, station, gs), Listed(list, n),
         PhantomErase(hp, list, ix, n)
  PROVE  /\ Sound(heap', nodes', index', station', gs)
         /\ nodes' = Unlink(list, n)
         /\ index' = [ix EXCEPT ![hp[n].key] = None]
         /\ \A m \in Nodes : m # n => heap'[m] = hp[m]
         /\ gs[n] > 0 => heap'[n] # None /\ heap'[n].key = hp[n].key
<1> DEFINE k == hp[n].key
           marked == [hp EXCEPT ![n].in_cache = FALSE]
           left == [marked[n] EXCEPT !.ref_cnt = @ - 1]
           stay == [station EXCEPT ![k] = n]
           after == Unref(marked, stay, n)
<1>1. /\ hp \in [Nodes -> NodeRecords \cup {None}] /\ hp[n] # None /\ hp[n] \in NodeRecords
      /\ k \in Keys /\ ix[k] = n /\ gs[n] \in Nat
      /\ hp[n].ref_cnt = gs[n] + 1
      /\ station \in [Keys -> Nodes \cup {None}]
  <2>1. hp[n] # None /\ ix[hp[n].key] = n
    BY DEF Sound, Linked
  <2>2. hp[n].ref_cnt = gs[n] + 1
    BY <2>1 DEF Sound, Counted
  <2> QED BY <2>1, <2>2 DEF Sound, Typed, NodeRecords
<1>2. /\ nodes' = Unlink(list, n) /\ index' = [ix EXCEPT ![k] = None]
      /\ heap' = after.heap /\ station' = after.station
  BY <1>1 DEF PhantomErase
<1>3. /\ marked \in [Nodes -> NodeRecords \cup {None}]
      /\ \A m \in Nodes : m # n => marked[m] = hp[m]
      /\ marked[n] = [hp[n] EXCEPT !.in_cache = FALSE]
  BY <1>1 DEF NodeRecords
<1>4. /\ marked[n].key = k /\ marked[n].ref_cnt = gs[n] + 1
      /\ left.key = k /\ left.ref_cnt = gs[n] /\ left.in_cache = FALSE
      /\ gs[n] > 0 => left \in NodeRecords
  <2> HIDE DEF marked
  <2>1. /\ marked[n] \in NodeRecords /\ marked[n].key = k
        /\ marked[n].ref_cnt = gs[n] + 1 /\ marked[n].in_cache = FALSE
    BY <1>1, <1>3 DEF NodeRecords
  <2> DEFINE r == marked[n]
  <2> HIDE DEF r
  <2>2. r \in NodeRecords /\ r.ref_cnt - 1 = gs[n]
    BY <1>1, <2>1 DEF r
  <2>3. /\ [r EXCEPT !.ref_cnt = @ - 1].key = r.key
        /\ [r EXCEPT !.ref_cnt = @ - 1].in_cache = r.in_cache
        /\ [r EXCEPT !.ref_cnt = @ - 1].ref_cnt = gs[n]
    BY <2>2 DEF NodeRecords
  <2>4. gs[n] > 0 => [r EXCEPT !.ref_cnt = @ - 1] \in NodeRecords
    BY <1>1, <2>2 DEF NodeRecords
  <2> QED BY <2>1, <2>3, <2>4 DEF r
<1> HIDE DEF marked, stay, left
<1>5. /\ heap' \in [Nodes -> NodeRecords \cup {None}]
      /\ \A m \in Nodes : m # n => heap'[m] = hp[m]
      /\ heap'[n] = IF gs[n] > 0 THEN left ELSE None
      /\ station' = [station EXCEPT ![k] = IF gs[n] > 0 THEN n ELSE None]
  <2>1. CASE gs[n] > 0
    <3>1. heap' = [marked EXCEPT ![n].ref_cnt = @ - 1] /\ station' = stay
      BY <1>1, <1>2, <1>4, <2>1 DEF Unref
    <3>2. heap' = [marked EXCEPT ![n] = left]
      BY <3>1 DEF left
    <3> QED BY <1>3, <1>4, <2>1, <3>1, <3>2 DEF stay
  <2>2. CASE ~(gs[n] > 0)
    <3>1. heap' = [marked EXCEPT ![n] = None] /\ station' = [stay EXCEPT ![k] = None]
      BY <1>1, <1>2, <1>4, <2>2 DEF Unref
    <3>2. [stay EXCEPT ![k] = None] = [station EXCEPT ![k] = None]
      BY <1>1 DEF stay
    <3> QED BY <1>3, <2>2, <3>1, <3>2
  <2> QED BY <2>1, <2>2
<1>6. gs[n] > 0 => left # None
  BY <1>4, NoneAssumption DEF NodeRecords
<1> HIDE DEF after
<1>7. /\ nodes' \in Seq(Nodes) /\ Distinct(nodes')
      /\ \A m : Listed(nodes', m) <=> Listed(list, m) /\ m # n
  BY <1>2, UnlinkProps DEF Sound, Typed
<1>8. /\ index' \in [Keys -> Nodes \cup {None}]
      /\ \A j \in Keys : index'[j] = IF j = k THEN None ELSE ix[j]
  BY <1>1, <1>2 DEF Sound, Typed
<1>9. /\ station' \in [Keys -> Nodes \cup {None}]
      /\ \A j \in Keys : j # k => station'[j] = station[j]
      /\ station'[k] = IF gs[n] > 0 THEN n ELSE None
  BY <1>1, <1>5
<1>10. Typed(heap', nodes', index', station', gs)
  BY <1>5, <1>7, <1>8, <1>9 DEF Sound, Typed
<1>11. Linked(heap', nodes', index')
  <2>1. ASSUME NEW m \in Nodes, Listed(nodes', m)
        PROVE  heap'[m] # None /\ index'[heap'[m].key] = m
    <3>1. Listed(list, m) /\ m # n /\ heap'[m] = hp[m]
      BY <1>5, <1>7, <2>1
    <3>2. hp[m] # None /\ ix[hp[m].key] = m /\ hp[m].key \in Keys
      BY <1>1, <3>1 DEF Sound, Linked, NodeRecords
    <3>3. hp[m].key # k
      BY <1>1, <3>1, <3>2
    <3> QED BY <1>8, <3>1, <3>2, <3>3
  <2>2. ASSUME NEW j \in Keys, index'[j] # None
        PROVE  Listed(nodes', index'[j]) /\ heap'[index'[j]].key = j
    <3>1. j # k /\ index'[j] = ix[j] /\ ix[j] # None /\ ix[j] \in Nodes
      BY <1>8, <2>2
    <3>2. Listed(list, ix[j]) /\ hp[ix[j]].key = j
      BY <3>1 DEF Sound, Linked
    <3>3. ix[j] # n
      BY <3>1, <3>2
    <3> QED BY <1>5, <1>7, <3>1, <3>2, <3>3
  <2> QED BY <2>1, <2>2 DEF Linked
<1>12. Counted(heap', nodes', gs)
  <2> SUFFICES ASSUME NEW m \in Nodes, heap'[m] # None
               PROVE  /\ heap'[m].ref_cnt = gs[m] + (IF Listed(nodes', m) THEN 1 ELSE 0)
                      /\ heap'[m].in_cache <=> Listed(nodes', m)
    BY DEF Counted
  <2>1. CASE m = n
    BY <1>1, <1>4, <1>5, <1>7, <2>1
  <2>2. CASE m # n
    <3>1. heap'[m] = hp[m] /\ (Listed(nodes', m) <=> Listed(list, m))
      BY <1>5, <1>7, <2>2
    <3> QED BY <3>1 DEF Sound, Counted
  <2> QED BY <2>1, <2>2
<1>13. Stationed(heap', nodes', station', gs)
  <2> SUFFICES ASSUME NEW j \in Keys, station'[j] # None
               PROVE  /\ heap'[station'[j]] # None /\ heap'[station'[j]].key = j
                      /\ ~Listed(nodes', station'[j]) /\ gs[station'[j]] > 0
    BY DEF Stationed
  <2>1. CASE j = k
    <3>1. station'[j] = n /\ gs[n] > 0
      BY <1>9, <2>1
    <3> QED BY <1>4, <1>5, <1>6, <1>7, <2>1, <3>1
  <2>2. CASE j # k
    <3>1. station'[j] = station[j] /\ station[j] \in Nodes
      BY <1>1, <1>9, <2>2
    <3>2. /\ hp[station[j]] # None /\ hp[station[j]].key = j
          /\ ~Listed(list, station[j]) /\ gs[station[j]] > 0
      BY <3>1 DEF Sound, Stationed
    <3> QED BY <1>5, <1>7, <3>1, <3>2
  <2> QED BY <2>1, <2>2
<1> QED BY <1>2, <1>4, <1>5, <1>6, <1>10, <1>11, <1>12, <1>13 DEF Sound

-----------------------------------------------------------------------------
(* What the operations do to the shard. *)

\* insert puts a node of a key that is not there in front.
LEMMA FrontSound ==
  ASSUME IInv, NEW k \in Keys, NEW v \in Values, NEW n \in Nodes, ~Alive(n), index[k] = None
  PROVE  LET hp == [heap EXCEPT ![n] = NewNode(k, v)]
             list == PushFront(nodes, n)
         IN  /\ Sound(hp, list, [index EXCEPT ![k] = n], station, [gets EXCEPT ![n] = 0])
             /\ Len(list) = Len(nodes) + 1
<1> DEFINE hp == [heap EXCEPT ![n] = NewNode(k, v)]
           list == PushFront(nodes, n)
           ix == [index EXCEPT ![k] = n]
           gs == [gets EXCEPT ![n] = 0]
           new == NewNode(k, v)
<1>1. Typed(heap, nodes, index, station, gets)
  BY DEF IInv, Sound
<1>2. ~Listed(nodes, n)
  BY DEF IInv, Sound, Linked, Alive
<1>3. /\ list \in Seq(Nodes) /\ Len(list) = Len(nodes) + 1 /\ Distinct(list)
      /\ \A x : Listed(list, x) <=> Listed(nodes, x) \/ x = n
  BY <1>1, <1>2, PushFrontProps DEF Typed
<1>4. new \in NodeRecords /\ new # None /\ new.key = k /\ new.ref_cnt = 1 /\ new.in_cache = TRUE
  <2>1. /\ new \in [key : Keys, val : Values, ref_cnt : Nat, in_cache : BOOLEAN]
        /\ new \in NodeRecords
    BY DEF NewNode, NodeRecords
  <2>2. new # None
    BY <2>1, NoneAssumption DEF new
  <2> QED BY <2>1, <2>2 DEF NewNode
<1> HIDE DEF new, list
<1>5. /\ hp \in [Nodes -> NodeRecords \cup {None}]
      /\ \A m \in Nodes : hp[m] = IF m = n THEN new ELSE heap[m]
  BY <1>1, <1>4 DEF Typed, new
<1>6. /\ ix \in [Keys -> Nodes \cup {None}]
      /\ \A j \in Keys : ix[j] = IF j = k THEN n ELSE index[j]
      /\ gs \in [Nodes -> Nat]
      /\ \A m \in Nodes : gs[m] = IF m = n THEN 0 ELSE gets[m]
  BY <1>1 DEF Typed
<1> HIDE DEF hp, ix, gs
<1>7. Typed(hp, list, ix, station, gs)
  BY <1>1, <1>3, <1>5, <1>6 DEF Typed
<1>8. Linked(hp, list, ix)
  <2>1. ASSUME NEW m \in Nodes, Listed(list, m)
        PROVE  hp[m] # None /\ ix[hp[m].key] = m
    <3>1. CASE m = n
      BY <1>4, <1>5, <1>6, <3>1
    <3>2. CASE m # n
      <4>1. heap[m] # None /\ index[heap[m].key] = m
        BY <1>3, <2>1, <3>2 DEF IInv, Sound, Linked
      <4>2. heap[m].key \in Keys /\ heap[m].key # k
        BY <1>1, <4>1, NoneAssumption DEF Typed, NodeRecords
      <4> QED BY <1>5, <1>6, <3>2, <4>1, <4>2
    <3> QED BY <3>1, <3>2
  <2>2. ASSUME NEW j \in Keys, ix[j] # None
        PROVE  Listed(list, ix[j]) /\ hp[ix[j]].key = j
    <3>1. CASE j = k
      BY <1>3, <1>4, <1>5, <1>6, <3>1
    <3>2. CASE j # k
      <4>1. ix[j] = index[j] /\ index[j] \in Nodes
        BY <1>1, <1>6, <2>2, <3>2 DEF Typed
      <4>2. Listed(nodes, index[j]) /\ heap[index[j]].key = j
        BY <2>2, <4>1 DEF IInv, Sound, Linked
      <4> QED BY <1>2, <1>3, <1>5, <4>1, <4>2
    <3> QED BY <3>1, <3>2
  <2> QED BY <2>1, <2>2 DEF Linked
<1>9. Counted(hp, list, gs)
  <2> SUFFICES ASSUME NEW m \in Nodes, hp[m] # None
               PROVE  /\ hp[m].ref_cnt = gs[m] + (IF Listed(list, m) THEN 1 ELSE 0)
                      /\ hp[m].in_cache <=> Listed(list, m)
    BY DEF Counted
  <2>1. CASE m = n
    BY <1>3, <1>4, <1>5, <1>6, <2>1
  <2>2. CASE m # n
    <3>1. hp[m] = heap[m] /\ gs[m] = gets[m] /\ (Listed(list, m) <=> Listed(nodes, m))
      BY <1>3, <1>5, <1>6, <2>2
    <3> QED BY <3>1 DEF IInv, Sound, Counted
  <2> QED BY <2>1, <2>2
<1>10. Stationed(hp, list, station, gs)
  <2> SUFFICES ASSUME NEW j \in Keys, station[j] # None
               PROVE  /\ hp[station[j]] # None /\ hp[station[j]].key = j
                      /\ ~Listed(list, station[j]) /\ gs[station[j]] > 0
    BY DEF Stationed
  <2>1. /\ heap[station[j]] # None /\ heap[station[j]].key = j
        /\ ~Listed(nodes, station[j]) /\ gets[station[j]] > 0
    BY DEF IInv, Sound, Stationed
  <2>2. station[j] \in Nodes /\ station[j] # n
    BY <1>1, <2>1 DEF Typed, Alive
  <2> QED BY <1>3, <1>5, <1>6, <2>1, <2>2
<1> QED BY <1>3, <1>7, <1>8, <1>9, <1>10 DEF Sound, hp, list, ix, gs

\* get and release change the two counts of a listed node by the same amount.
LEMMA RecountSound ==
  ASSUME IInv, NEW n \in Nodes, Listed(nodes, n), NEW g \in Nat,
         heap' = [heap EXCEPT ![n].ref_cnt = g + 1], gets' = [gets EXCEPT ![n] = g],
         index' = index, station' = station,
         nodes' \in Seq(Nodes), Distinct(nodes'), \A x : Listed(nodes', x) <=> Listed(nodes, x)
  PROVE  /\ Sound(heap, nodes, index, station, gets)'
         /\ \A m \in Nodes : Alive(m) => heap'[m] # None /\ heap'[m].key = heap[m].key
         /\ \A m \in Nodes : Alive(m)' => Alive(m)
<1> DEFINE recounted == [heap[n] EXCEPT !.ref_cnt = g + 1]
<1>1. Typed(heap, nodes, index, station, gets)
  BY DEF IInv, Sound
<1>2. heap[n] # None /\ heap[n] \in NodeRecords /\ heap[n].in_cache = TRUE
  <2>1. heap[n] # None
    BY DEF IInv, Sound, Linked
  <2>2. heap[n] \in NodeRecords
    BY <1>1, <2>1 DEF Typed
  <2> QED BY <2>1, <2>2 DEF IInv, Sound, Counted, NodeRecords
<1>3. /\ recounted \in NodeRecords /\ recounted.key = heap[n].key
      /\ recounted.ref_cnt = g + 1 /\ recounted.in_cache = TRUE
  <2> DEFINE r == heap[n]
  <2> HIDE DEF r
  <2>1. r \in NodeRecords /\ r.in_cache = TRUE
    BY <1>2 DEF r
  <2>2. /\ [r EXCEPT !.ref_cnt = g + 1] \in NodeRecords
        /\ [r EXCEPT !.ref_cnt = g + 1].key = r.key
        /\ [r EXCEPT !.ref_cnt = g + 1].ref_cnt = g + 1
        /\ [r EXCEPT !.ref_cnt = g + 1].in_cache = TRUE
    BY <2>1 DEF NodeRecords
  <2> QED BY <2>2 DEF r
<1>4. recounted # None
  BY <1>3, NoneAssumption DEF NodeRecords
<1>5. heap' = [heap EXCEPT ![n] = recounted]
  OBVIOUS
<1> HIDE DEF recounted
<1>6. /\ heap' \in [Nodes -> NodeRecords \cup {None}]
      /\ \A m \in Nodes : heap'[m] = IF m = n THEN recounted ELSE heap[m]
      /\ gets' \in [Nodes -> Nat]
      /\ \A m \in Nodes : gets'[m] = IF m = n THEN g ELSE gets[m]
  BY <1>1, <1>3, <1>5 DEF Typed
<1>7. \A m \in Nodes : Alive(m) => heap'[m] # None /\ heap'[m].key = heap[m].key
  BY <1>3, <1>4, <1>6 DEF Alive
<1>8. \A m \in Nodes : Alive(m)' => Alive(m)
  BY <1>2, <1>6 DEF Alive
<1>9. Typed(heap', nodes', index', station', gets')
  BY <1>1, <1>6 DEF Typed
<1>10. Linked(heap', nodes', index')
  <2>1. \A m \in Nodes : Listed(nodes', m) => heap'[m] # None /\ index'[heap'[m].key] = m
    BY <1>7 DEF IInv, Sound, Linked, Alive
  <2>2. ASSUME NEW j \in Keys, index'[j] # None
        PROVE  Listed(nodes', index'[j]) /\ heap'[index'[j]].key = j
    <3>1. index[j] \in Nodes /\ Listed(nodes, index[j]) /\ heap[index[j]].key = j
      BY <1>1, <2>2 DEF IInv, Sound, Linked, Typed
    <3>2. Alive(index[j])
      BY <3>1 DEF IInv, Sound, Linked, Alive
    <3> QED BY <1>7, <3>1, <3>2
  <2> QED BY <2>1, <2>2 DEF Linked
<1>11. Counted(heap', nodes', gets')
  <2> SUFFICES ASSUME NEW m \in Nodes, heap'[m] # None
               PROVE  /\ heap'[m].ref_cnt = gets'[m] + (IF Listed(nodes', m) THEN 1 ELSE 0)
                      /\ heap'[m].in_cache <=> Listed(nodes', m)
    BY DEF Counted
  <2>1. CASE m = n
    BY <1>3, <1>6, <2>1
  <2>2. CASE m # n
    <3>1. heap'[m] = heap[m] /\ gets'[m] = gets[m] /\ heap[m] # None
      BY <1>6, <2>2
    <3> QED BY <3>1 DEF IInv, Sound, Counted
  <2> QED BY <2>1, <2>2
<1>12. Stationed(heap', nodes', station', gets')
  <2> SUFFICES ASSUME NEW j \in Keys, station[j] # None
               PROVE  /\ heap'[station[j]] # None /\ heap'[station[j]].key = j
                      /\ ~Listed(nodes', station[j]) /\ gets'[station[j]] > 0
    BY DEF Stationed
  <2>1. /\ heap[station[j]] # None /\ heap[station[j]].key = j
        /\ ~Listed(nodes, station[j]) /\ gets[station[j]] > 0
    BY DEF IInv, Sound, Stationed
  <2>2. station[j] \in Nodes /\ station[j] # n
    BY <1>1, <2>1 DEF Typed
  <2> QED BY <1>6, <1>7, <2>1, <2>2 DEF Alive
<1> QED BY <1>7, <1>8, <1>9, <1>10, <1>11, <1>12 DEF Sound

-----------------------------------------------------------------------------
(* Each operation keeps the invariant. *)

\* Holders keep their nodes when no node alive loses a get, and none with a
\* get loses its life.
LEMMA HoldersKept ==
  ASSUME IInv, held' = held, gets' \in [Nodes -> Nat],
         \A n \in Nodes : Alive(n) => gets'[n] = gets[n],
         \A n \in Nodes : Alive(n) /\ gets[n] > 0 => heap'[n] # None /\ heap'[n].key = heap[n].key
  PROVE  HeldStayAlive' /\ HeldCounted'
<1>1. \A n : Holding(n)' = Holding(n)
  BY DEF Holding, NotHeld
<1>2. HeldStayAlive'
  <2> SUFFICES ASSUME NEW h \in Holders, held[h] # NotHeld
               PROVE  heap'[held[h].node] # None /\ heap'[held[h].node].key = held[h].key
    BY DEF HeldStayAlive, Alive, NotHeld
  <2>1. held[h].node \in Nodes /\ gets[held[h].node] > 0
    BY HeldIsCounted
  <2>2. Alive(held[h].node) /\ heap[held[h].node].key = held[h].key
    BY DEF IInv, HeldStayAlive
  <2> QED BY <2>1, <2>2
<1>3. HeldCounted'
  <2> SUFFICES ASSUME NEW n \in Nodes PROVE Cardinality(Holding(n)) <= gets'[n]
    BY <1>1 DEF HeldCounted
  <2>1. CASE Alive(n)
    BY <2>1 DEF IInv, HeldCounted
  <2>2. CASE ~Alive(n)
    <3>1. Holding(n) = {}
      BY <2>2 DEF IInv, HeldStayAlive, Holding
    <3>2. Cardinality(Holding(n)) = 0
      BY <3>1, FS_EmptySet
    <3> QED BY <3>2
  <2> QED BY <2>1, <2>2
<1> QED BY <1>2, <1>3

LEMMA InitSound == Init => IInv
<1> SUFFICES ASSUME Init PROVE IInv
  OBVIOUS
<1>1. \A n : ~Listed(nodes, n)
  BY DEF Init, Listed
<1>2. Sound(heap, nodes, index, station, gets)
  BY <1>1 DEF Init, Sound, Typed, Linked, Counted, Stationed, Distinct
<1>3. Rest /\ HeldStayAlive /\ HeldCounted
  BY DEF Init, Rest, HeldStayAlive, HeldCounted, Alive
<1> QED BY <1>2, <1>3 DEF IInv

LEMMA InsertKeeps ==
  ASSUME IInv, NEW k \in Keys, NEW v \in Values, Insert(k, v)
  PROVE  IInv'
<1>1. used' \in Keys /\ held' = held /\ undefined' = undefined
  BY DEF Insert
<1>2. Rest'
  BY <1>1 DEF IInv, Rest, NotHeld
<1>3. CASE index[k] = None
  <2> DEFINE hp(n) == [heap EXCEPT ![n] = NewNode(k, v)]
             list(n) == PushFront(nodes, n)
             ix(n) == [index EXCEPT ![k] = n]
             gs(n) == [gets EXCEPT ![n] = 0]
  <2>1. PICK n \in Nodes :
          /\ ~Alive(n)
          /\ gets' = gs(n)
          /\ IF Len(list(n)) > cap
             THEN PhantomErase(hp(n), list(n), ix(n), Oldest(list(n)))
             ELSE heap' = hp(n) /\ nodes' = list(n) /\ index' = ix(n) /\ station' = station
    BY <1>3 DEF Insert
  <2>2. Sound(hp(n), list(n), ix(n), station, gs(n)) /\ Len(list(n)) = Len(nodes) + 1
    BY <1>3, <2>1, FrontSound
  <2>3. \A m \in Nodes : Alive(m) => hp(n)[m] = heap[m] /\ gs(n)[m] = gets[m]
    BY <2>1 DEF IInv, Sound, Typed, Alive
  <2>4. gs(n) \in [Nodes -> Nat]
    BY <2>2 DEF Sound, Typed
  <2>5. Len(nodes) \in Nat /\ list(n) \in Seq(Nodes) /\ Distinct(list(n))
    BY <2>2 DEF IInv, Sound, Typed
  <2> HIDE DEF hp, list, ix, gs
  <2>6. CASE Len(list(n)) > cap
    <3> DEFINE o == Oldest(list(n))
    <3>1. o \in Nodes /\ Listed(list(n), o)
      <4>1. Len(list(n)) > 0
        BY <2>2, <2>5
      <4> QED BY <2>5, <4>1, DropOldestProps
    <3>2. PhantomErase(hp(n), list(n), ix(n), o)
      BY <2>1, <2>6
    <3> HIDE DEF o
    <3>3. /\ Sound(heap', nodes', index', station', gs(n))
          /\ \A m \in Nodes : m # o => heap'[m] = hp(n)[m]
          /\ gs(n)[o] > 0 => heap'[o] # None /\ heap'[o].key = hp(n)[o].key
      BY <2>2, <3>1, <3>2, PhantomKeeps
    <3>4. \A m \in Nodes : Alive(m) /\ gets[m] > 0 => heap'[m] # None /\ heap'[m].key = heap[m].key
      BY <2>3, <3>3 DEF Alive
    <3>5. HeldStayAlive' /\ HeldCounted'
      BY <1>1, <2>1, <2>3, <2>4, <3>4, HoldersKept
    <3> QED BY <1>2, <2>1, <3>3, <3>5 DEF IInv
  <2>7. CASE ~(Len(list(n)) > cap)
    <3>1. heap' = hp(n) /\ nodes' = list(n) /\ index' = ix(n) /\ station' = station
      BY <2>1, <2>7
    <3>2. HeldStayAlive' /\ HeldCounted'
      BY <1>1, <2>1, <2>3, <2>4, <3>1, HoldersKept DEF Alive
    <3> QED BY <1>2, <2>1, <2>2, <3>1, <3>2 DEF IInv
  <2> QED BY <2>6, <2>7
<1>4. CASE index[k] # None
  <2>1. /\ nodes' = Touch(nodes, index[k])
        /\ UNCHANGED <<heap, index, station, gets>>
    BY <1>4 DEF Insert, ToFront
  <2>2. index[k] \in Nodes /\ Listed(nodes, index[k])
    BY <1>4 DEF IInv, Sound, Typed, Linked
  <2>3. /\ nodes' \in Seq(Nodes) /\ Distinct(nodes')
        /\ \A x : Listed(nodes', x) <=> Listed(nodes, x)
    BY <2>1, <2>2, TouchProps DEF IInv, Sound, Typed
  <2>4. Sound(heap, nodes, index, station, gets)'
    BY <2>1, <2>3 DEF IInv, Sound, Typed, Linked, Counted, Stationed
  <2>5. gets' \in [Nodes -> Nat]
    BY <2>4 DEF Sound, Typed
  <2>6. HeldStayAlive' /\ HeldCounted'
    BY <1>1, <2>1, <2>5, HoldersKept DEF Alive
  <2> QED BY <1>2, <2>4, <2>6 DEF IInv
<1> QED BY <1>3, <1>4

LEMMA EraseKeeps ==
  ASSUME IInv, NEW k \in Keys, Erase(k)
  PROVE  IInv'
<1> DEFINE n == index[k]
<1>1. /\ index[k] # None /\ PhantomErase(heap, nodes, index, index[k])
      /\ UNCHANGED <<held, gets, used, undefined>>
  BY DEF Erase
<1>2. n \in Nodes /\ Listed(nodes, n)
  BY <1>1 DEF IInv, Sound, Typed, Linked
<1>3. /\ Sound(heap', nodes', index', station', gets)
      /\ \A m \in Nodes : m # n => heap'[m] = heap[m]
      /\ gets[n] > 0 => heap'[n] # None /\ heap'[n].key = heap[n].key
  <2>1. Sound(heap, nodes, index, station, gets) /\ PhantomErase(heap, nodes, index, n)
    BY <1>1 DEF IInv
  <2> HIDE DEF n
  <2> QED BY <1>2, <2>1, PhantomKeeps
<1>4. \A m \in Nodes : Alive(m) /\ gets[m] > 0 => heap'[m] # None /\ heap'[m].key = heap[m].key
  BY <1>3 DEF Alive
<1>5. gets' \in [Nodes -> Nat]
  BY <1>1 DEF IInv, Sound, Typed
<1>6. HeldStayAlive' /\ HeldCounted'
  BY <1>1, <1>4, <1>5, HoldersKept
<1>7. Rest'
  BY <1>1 DEF IInv, Rest, NotHeld
<1> QED BY <1>1, <1>3, <1>6, <1>7 DEF IInv

LEMMA GetKeeps ==
  ASSUME IInv, NEW h \in Holders, NEW k \in Keys, Get(h, k)
  PROVE  IInv'
<1> DEFINE n == index[k]
           H == Holding(n)
<1>1. /\ held[h] = NotHeld /\ n # None
      /\ nodes' = Touch(nodes, n)
      /\ heap' = [heap EXCEPT ![n].ref_cnt = @ + 1]
      /\ held' = [held EXCEPT ![h] = [key |-> k, node |-> n]]
      /\ gets' = [gets EXCEPT ![n] = @ + 1]
      /\ used' = k /\ UNCHANGED <<index, station, undefined>>
  BY DEF Get, ToFront
<1>2. n \in Nodes /\ Listed(nodes, n) /\ heap[n] # None /\ heap[n].key = k
  BY <1>1 DEF IInv, Sound, Typed, Linked
<1>3. gets[n] \in Nat /\ heap[n].ref_cnt = gets[n] + 1
  BY <1>2 DEF IInv, Sound, Typed, Counted
<1>4. /\ nodes' \in Seq(Nodes) /\ Distinct(nodes')
      /\ \A x : Listed(nodes', x) <=> Listed(nodes, x)
  <2>1. nodes \in Seq(Nodes) /\ Distinct(nodes)
    BY DEF IInv, Sound, Typed
  <2> HIDE DEF n
  <2> QED BY <1>1, <1>2, <2>1, TouchProps
<1>5. /\ Sound(heap, nodes, index, station, gets)'
      /\ \A m \in Nodes : Alive(m) => heap'[m] # None /\ heap'[m].key = heap[m].key
      /\ \A m \in Nodes : Alive(m)' => Alive(m)
  <2>1. /\ heap' = [heap EXCEPT ![n].ref_cnt = (gets[n] + 1) + 1]
        /\ gets' = [gets EXCEPT ![n] = gets[n] + 1] /\ gets[n] + 1 \in Nat
    BY <1>1, <1>3
  <2> DEFINE g == gets[n] + 1
  <2>2. heap' = [heap EXCEPT ![n].ref_cnt = g + 1] /\ gets' = [gets EXCEPT ![n] = g] /\ g \in Nat
    BY <2>1
  <2>3. index' = index /\ station' = station
    BY <1>1
  <2> HIDE DEF n, g
  <2> QED BY <1>2, <1>4, <2>2, <2>3, RecountSound
<1>6. /\ held' \in [Holders -> [key : Keys, node : Nodes] \cup {NotHeld}]
      /\ held'[h] = [key |-> k, node |-> n]
      /\ \A i \in Holders : i # h => held'[i] = held[i]
  BY <1>1, <1>2 DEF IInv, Rest
<1>7. Rest'
  BY <1>1, <1>6 DEF IInv, Rest, NotHeld
<1>8. HeldStayAlive'
  <2> SUFFICES ASSUME NEW i \in Holders, held'[i] # NotHeld
               PROVE  heap'[held'[i].node] # None /\ heap'[held'[i].node].key = held'[i].key
    BY DEF HeldStayAlive, Alive, NotHeld
  <2>1. CASE i = h
    BY <1>2, <1>5, <1>6, <2>1 DEF Alive
  <2>2. CASE i # h
    <3>1. held'[i] = held[i] /\ held[i] # NotHeld
      BY <1>6, <2>2
    <3>2. held[i].node \in Nodes /\ Alive(held[i].node) /\ heap[held[i].node].key = held[i].key
      BY <3>1, HeldIsCounted DEF IInv, HeldStayAlive
    <3> QED BY <1>5, <3>1, <3>2
  <2> QED BY <2>1, <2>2
<1>9. HeldCounted'
  <2> SUFFICES ASSUME NEW m \in Nodes, Alive(m)' PROVE Cardinality(Holding(m)') <= gets'[m]
    BY DEF HeldCounted
  <2>1. Alive(m) /\ Cardinality(Holding(m)) <= gets[m] /\ gets[m] \in Nat
    BY <1>5 DEF IInv, HeldCounted, Sound, Typed
  <2>2. CASE m = n
    <3>1. Holding(m)' = Holding(m) \cup {h}
      <4>1. held'[h] # NotHeld /\ held'[h].node = m /\ NotHeld' = NotHeld
        BY <1>1, <1>6, <2>2 DEF NotHeld
      <4>2. \A i \in Holders : i # h => held'[i] = held[i]
        BY <1>6
      <4> HIDE DEF n
      <4> QED BY <4>1, <4>2 DEF Holding
    <3> DEFINE S == Holding(m)
    <3>2. IsFiniteSet(S) /\ Cardinality(S) \in Nat
      BY HoldingIsFinite
    <3> HIDE DEF S
    <3>3. Cardinality(S \cup {h}) <= Cardinality(S) + 1
      <4>1. Cardinality(S \cup {h}) = IF h \in S THEN Cardinality(S) ELSE Cardinality(S) + 1
        BY <3>2, FS_AddElement
      <4> DEFINE c == Cardinality(S)
      <4>2. c \in Nat /\ (Cardinality(S \cup {h}) = c \/ Cardinality(S \cup {h}) = c + 1)
        BY <3>2, <4>1
      <4> HIDE DEF c
      <4>3. Cardinality(S \cup {h}) <= c + 1
        BY <4>2
      <4> QED BY <4>3 DEF c
    <3>4. Cardinality(S \cup {h}) \in Nat
      BY <3>2, FS_AddElement, FS_CardinalityType
    <3>5. gets'[m] = gets[m] + 1
      BY <1>1, <2>2 DEF IInv, Sound, Typed
    <3> QED BY <2>1, <3>1, <3>2, <3>3, <3>4, <3>5 DEF S
  <2>3. CASE m # n
    <3>1. Holding(m)' = Holding(m)
      BY <1>1, <1>6, <2>3 DEF Holding, NotHeld
    <3>2. gets'[m] = gets[m]
      BY <1>1, <2>3 DEF IInv, Sound, Typed
    <3> QED BY <2>1, <3>1, <3>2
  <2> QED BY <2>2, <2>3
<1> QED BY <1>5, <1>7, <1>8, <1>9 DEF IInv

\* A holder lets go of its pointer: what the others hold is as it was.
LEMMA LetGo ==
  ASSUME IInv, NEW h \in Holders, held[h] # NotHeld, NEW n, n = held[h].node,
         held' = [held EXCEPT ![h] = NotHeld]
  PROVE  /\ held' \in [Holders -> [key : Keys, node : Nodes] \cup {NotHeld}]
         /\ \A i \in Holders : held'[i] # NotHeld => held'[i] = held[i]
         /\ \A m \in Nodes : m # n => Holding(m)' = Holding(m)
         /\ Cardinality(Holding(n)') = Cardinality(Holding(n)) - 1
         /\ Cardinality(Holding(n)) \in Nat
<1>1. /\ held' \in [Holders -> [key : Keys, node : Nodes] \cup {NotHeld}]
      /\ held'[h] = NotHeld /\ NotHeld' = NotHeld
      /\ \A i \in Holders : i # h => held'[i] = held[i]
  BY DEF IInv, Rest, NotHeld
<1>2. \A m \in Nodes : m # n => Holding(m)' = Holding(m)
  BY <1>1 DEF Holding
<1>3. Holding(n)' = Holding(n) \ {h} /\ h \in Holding(n)
  BY <1>1 DEF Holding
<1> DEFINE S == Holding(n)
<1>4. IsFiniteSet(S) /\ h \in S
  BY <1>3, HoldingIsFinite
<1> HIDE DEF S
<1>5. Cardinality(S \ {h}) = Cardinality(S) - 1 /\ Cardinality(S) \in Nat
  BY <1>4, FS_RemoveElement, FS_CardinalityType
<1>6. \A i \in Holders : held'[i] # NotHeld => held'[i] = held[i]
  BY <1>1
<1> QED BY <1>1, <1>2, <1>3, <1>5, <1>6 DEF S

LEMMA DropKeeps ==
  ASSUME IInv, NEW h \in Holders, Drop(h)
  PROVE  IInv'
<1>1. /\ held[h] # NotHeld /\ held' = [held EXCEPT ![h] = NotHeld]
      /\ UNCHANGED <<heap, nodes, index, station, gets, used, undefined>>
  BY DEF Drop
<1>2. PICK n : n = held[h].node
  OBVIOUS
<1>3. /\ held' \in [Holders -> [key : Keys, node : Nodes] \cup {NotHeld}]
      /\ \A i \in Holders : held'[i] # NotHeld => held'[i] = held[i]
      /\ \A m \in Nodes : m # n => Holding(m)' = Holding(m)
      /\ Cardinality(Holding(n)') = Cardinality(Holding(n)) - 1
      /\ Cardinality(Holding(n)) \in Nat
  BY <1>1, <1>2, LetGo
<1>4. Sound(heap, nodes, index, station, gets)'
  BY <1>1 DEF IInv, Sound, Typed, Linked, Counted, Stationed
<1>5. Rest'
  BY <1>1, <1>3 DEF IInv, Rest, NotHeld
<1>6. HeldStayAlive'
  BY <1>1, <1>3 DEF IInv, HeldStayAlive, Alive, NotHeld
<1>7. HeldCounted'
  <2> SUFFICES ASSUME NEW m \in Nodes, Alive(m) PROVE Cardinality(Holding(m)') <= gets[m]
    BY <1>1 DEF HeldCounted, Alive
  <2>1. Cardinality(Holding(m)) <= gets[m] /\ gets[m] \in Nat
    BY DEF IInv, HeldCounted, Sound, Typed
  <2>2. CASE m = n
    <3> DEFINE c == Cardinality(Holding(m))
    <3>1. Cardinality(Holding(m)') = c - 1 /\ c \in Nat /\ c <= gets[m]
      BY <1>3, <2>1, <2>2
    <3> HIDE DEF c
    <3> QED BY <2>1, <3>1
  <2>3. CASE m # n
    BY <1>3, <2>1, <2>3
  <2> QED BY <2>2, <2>3
<1> QED BY <1>4, <1>5, <1>6, <1>7 DEF IInv

\* release of a listed node never takes the last reference: that of the cache
\* is still there.
LEMMA ReleaseKeeps ==
  ASSUME IInv, Releases # "always", NEW h \in Holders, Release(h)
  PROVE  IInv'
<1>1. PICK n : n = held[h].node
  OBVIOUS
<1> DEFINE after == Unref(heap, station, n)
<1>2. /\ held[h] # NotHeld /\ index[held[h].key] = n
      /\ held' = [held EXCEPT ![h] = NotHeld]
      /\ UNCHANGED <<nodes, index, used>>
      /\ IF n = None \/ ~Alive(n)
         THEN undefined' = TRUE /\ UNCHANGED <<heap, station, gets>>
         ELSE /\ heap' = after.heap /\ station' = after.station
              /\ gets' = [gets EXCEPT ![n] = @ - 1]
              /\ UNCHANGED undefined
  BY <1>1 DEF Release
<1>3. /\ n \in Nodes /\ held[h].key \in Keys /\ n # None
      /\ Listed(nodes, n) /\ heap[n] # None /\ gets[n] \in Nat \ {0}
  <2>1. n \in Nodes /\ held[h].key \in Keys /\ gets[n] > 0
    BY <1>1, <1>2, HeldIsCounted
  <2>2. n # None
    BY <2>1, NoneAssumption
  <2>3. Listed(nodes, n)
    BY <1>2, <2>1, <2>2 DEF IInv, Sound, Linked
  <2> QED BY <2>1, <2>2, <2>3 DEF IInv, Sound, Linked, Typed
<1>4. /\ heap' = after.heap /\ station' = after.station
      /\ gets' = [gets EXCEPT ![n] = @ - 1] /\ undefined' = undefined
  BY <1>2, <1>3 DEF Alive
<1>5. heap[n].ref_cnt = gets[n] + 1
  BY <1>3 DEF IInv, Sound, Counted
<1> DEFINE g == gets[n] - 1
<1>6. /\ heap' = [heap EXCEPT ![n].ref_cnt = g + 1] /\ station' = station
      /\ gets' = [gets EXCEPT ![n] = g] /\ g \in Nat
  <2>1. ~(heap[n].ref_cnt - 1 <= 0) /\ heap[n].ref_cnt - 1 = g + 1 /\ g \in Nat
    BY <1>3, <1>5
  <2>2. after = [heap |-> [heap EXCEPT ![n].ref_cnt = @ - 1], station |-> station]
    BY <2>1 DEF Unref
  <2>3. heap' = [heap EXCEPT ![n].ref_cnt = heap[n].ref_cnt - 1] /\ station' = station
    BY <1>4, <2>2
  <2>4. gets' = [gets EXCEPT ![n] = g]
    BY <1>4
  <2> HIDE DEF g
  <2> QED BY <2>1, <2>3, <2>4
<1>7. /\ Sound(heap, nodes, index, station, gets)'
      /\ \A m \in Nodes : Alive(m) => heap'[m] # None /\ heap'[m].key = heap[m].key
      /\ \A m \in Nodes : Alive(m)' => Alive(m)
  <2>1. /\ nodes' \in Seq(Nodes) /\ Distinct(nodes') /\ index' = index
        /\ \A x : Listed(nodes', x) <=> Listed(nodes, x)
    BY <1>2 DEF IInv, Sound, Typed
  <2> HIDE DEF g
  <2> QED BY <1>3, <1>6, <2>1, RecountSound
<1>8. /\ held' \in [Holders -> [key : Keys, node : Nodes] \cup {NotHeld}]
      /\ \A i \in Holders : held'[i] # NotHeld => held'[i] = held[i]
      /\ \A m \in Nodes : m # n => Holding(m)' = Holding(m)
      /\ Cardinality(Holding(n)') = Cardinality(Holding(n)) - 1
      /\ Cardinality(Holding(n)) \in Nat
  BY <1>1, <1>2, LetGo
<1>9. Rest'
  BY <1>2, <1>4, <1>8 DEF IInv, Rest, NotHeld
<1>10. HeldStayAlive'
  <2> SUFFICES ASSUME NEW i \in Holders, held'[i] # NotHeld
               PROVE  heap'[held'[i].node] # None /\ heap'[held'[i].node].key = held'[i].key
    BY DEF HeldStayAlive, Alive, NotHeld
  <2>1. held'[i] = held[i] /\ held[i] # NotHeld
    BY <1>8
  <2>2. held[i].node \in Nodes /\ Alive(held[i].node) /\ heap[held[i].node].key = held[i].key
    BY <2>1, HeldIsCounted DEF IInv, HeldStayAlive
  <2> QED BY <1>7, <2>1, <2>2
<1>11. HeldCounted'
  <2> SUFFICES ASSUME NEW m \in Nodes, Alive(m)' PROVE Cardinality(Holding(m)') <= gets'[m]
    BY DEF HeldCounted
  <2>1. Alive(m) /\ Cardinality(Holding(m)) <= gets[m] /\ gets[m] \in Nat
    BY <1>7 DEF IInv, HeldCounted, Sound, Typed
  <2>2. gets'[m] = IF m = n THEN gets[m] - 1 ELSE gets[m]
    BY <1>3, <1>6 DEF IInv, Sound, Typed
  <2>3. CASE m = n
    <3> DEFINE c == Cardinality(Holding(m))
    <3>1. Cardinality(Holding(m)') = c - 1 /\ c \in Nat /\ c <= gets[m] /\ gets'[m] = gets[m] - 1
      BY <1>8, <2>1, <2>2, <2>3
    <3> HIDE DEF c
    <3> QED BY <2>1, <3>1
  <2>4. CASE m # n
    BY <1>8, <2>1, <2>2, <2>4
  <2> QED BY <2>3, <2>4
<1> QED BY <1>7, <1>9, <1>10, <1>11 DEF IInv

LEMMA StepKeeps == Releases # "always" /\ IInv /\ [Next]_vars => IInv'
<1> SUFFICES ASSUME Releases # "always", IInv, [Next]_vars PROVE IInv'
  OBVIOUS
<1>1. ASSUME NEW k \in Keys, Erase(k) PROVE IInv'
  BY <1>1, EraseKeeps
<1>2. ASSUME NEW k \in Keys, NEW v \in Values, Insert(k, v) PROVE IInv'
  BY <1>2, InsertKeeps
<1>3. ASSUME NEW h \in Holders, Drop(h) PROVE IInv'
  BY <1>3, DropKeeps
<1>4. ASSUME NEW h \in Holders, Release(h) PROVE IInv'
  BY <1>4, ReleaseKeeps
<1>5. ASSUME NEW h \in Holders, NEW k \in Keys, Get(h, k) PROVE IInv'
  BY <1>5, GetKeeps
<1>6. CASE UNCHANGED vars
  <2>1. /\ heap' = heap /\ nodes' = nodes /\ index' = index /\ station' = station
        /\ held' = held /\ gets' = gets /\ used' = used /\ undefined' = undefined
    BY <1>6 DEF vars
  <2>2. Sound(heap, nodes, index, station, gets)'
    BY <2>1 DEF IInv
  <2>3. Rest' /\ HeldStayAlive'
    BY <2>1 DEF IInv, Rest, HeldStayAlive, Alive, NotHeld
  <2>4. HeldCounted'
    BY <2>1 DEF IInv, HeldCounted, Holding, Alive, NotHeld
  <2> QED BY <2>2, <2>3, <2>4 DEF IInv
<1> QED BY <1>1, <1>2, <1>3, <1>4, <1>5, <1>6 DEF Next

-----------------------------------------------------------------------------
(* The theorems. *)

LEMMA AllSound == ASSUME Releases # "always" PROVE Spec => []IInv
<1>1. IInv /\ [Next]_vars => IInv'
  BY StepKeeps
<1> QED BY <1>1, InitSound, PTL DEF Spec

LEMMA MembersAreListed ==
  ASSUME IInv PROVE \A n : n \in Members <=> Listed(nodes, n)
BY DEF Members, Listed

\* LRU's types: above all, a node alive has a reference.
THEOREM TypeCorrect == ASSUME Releases # "always" PROVE Spec => []TypeOK
<1>1. IInv => TypeOK
  BY DEF IInv, Sound, Typed, Rest, TypeOK
<1> QED BY <1>1, AllSound, PTL

\* The count of a node is that of its listing and of the gets not given back.
THEOREM CountsAreRight == ASSUME Releases # "always" PROVE Spec => []RefsCounted
<1>1. IInv => RefsCounted
  BY MembersAreListed DEF IInv, Sound, Counted, RefsCounted, Alive
<1> QED BY <1>1, AllSound, PTL

\* No node is deleted, or reused, while a caller holds it.
THEOREM HeldNodesLive == ASSUME Releases # "always" PROVE Spec => []HeldStayAlive
<1>1. IInv => HeldStayAlive
  BY DEF IInv
<1> QED BY <1>1, AllSound, PTL

\* The garbage station holds evicted nodes that someone got, and no others.
THEOREM StationIsUsed == ASSUME Releases # "always" PROVE Spec => []StationAlive
<1>1. IInv => StationAlive
  BY MembersAreListed DEF IInv, Sound, Stationed, StationAlive, Alive
<1> QED BY <1>1, AllSound, PTL

-----------------------------------------------------------------------------
(* The nodes as the list of LRUSpec. *)

Order(hp, list) == [i \in DOMAIN list |-> hp[list[i]].key]

Cached(hp, ix) == [k \in Keys |-> IF ix[k] = None THEN None ELSE hp[ix[k]].val]

\* What the facts below need of a list: its nodes have keys, each its own.
Keyed(hp, list) ==
  /\ list \in Seq(Nodes) /\ Distinct(list)
  /\ \A i \in 1..Len(list) : hp[list[i]].key \in Keys
  /\ \A i, j \in 1..Len(list) : hp[list[i]].key = hp[list[j]].key => i = j

LEMMA SoundIsKeyed ==
  ASSUME NEW hp, NEW list, NEW ix, NEW st, NEW gs, Sound(hp, list, ix, st, gs)
  PROVE  Keyed(hp, list)
<1>1. list \in Seq(Nodes) /\ Distinct(list) /\ DOMAIN list = 1..Len(list)
  BY DEF Sound, Typed
<1>2. \A i \in 1..Len(list) : /\ list[i] \in Nodes /\ hp[list[i]].key \in Keys
                              /\ ix[hp[list[i]].key] = list[i]
  <2> SUFFICES ASSUME NEW i \in 1..Len(list)
               PROVE  /\ list[i] \in Nodes /\ hp[list[i]].key \in Keys
                      /\ ix[hp[list[i]].key] = list[i]
    OBVIOUS
  <2>1. list[i] \in Nodes /\ Listed(list, list[i])
    BY <1>1 DEF Listed
  <2>2. hp[list[i]] # None /\ ix[hp[list[i]].key] = list[i]
    BY <2>1 DEF Sound, Linked
  <2> QED BY <2>1, <2>2 DEF Sound, Typed, NodeRecords
<1>3. \A i, j \in 1..Len(list) : hp[list[i]].key = hp[list[j]].key => i = j
  BY <1>1, <1>2 DEF Distinct
<1> QED BY <1>1, <1>2, <1>3 DEF Keyed

LEMMA OrderProps ==
  ASSUME NEW hp, NEW list, Keyed(hp, list)
  PROVE  /\ Order(hp, list) \in Seq(Keys)
         /\ Len(Order(hp, list)) = Len(list)
         /\ Distinct(Order(hp, list))
         /\ \A i \in 1..Len(list) : Order(hp, list)[i] = hp[list[i]].key
<1> DEFINE o == Order(hp, list)
<1>1. list \in Seq(Nodes) /\ DOMAIN list = 1..Len(list) /\ Len(list) \in Nat
  BY DEF Keyed
<1>2. o = [i \in 1..Len(list) |-> hp[list[i]].key]
  BY <1>1 DEF Order
<1>3. \A i \in 1..Len(list) : hp[list[i]].key \in Keys
  BY DEF Keyed
<1>4. o \in Seq(Keys) /\ Len(o) = Len(list) /\ \A i \in 1..Len(list) : o[i] = hp[list[i]].key
  BY <1>1, <1>2, <1>3
<1> HIDE DEF o
<1>5. Distinct(o)
  BY <1>1, <1>4 DEF Distinct, Keyed
<1> QED BY <1>4, <1>5 DEF o

\* Taking out an element of a list without repetitions: the rest, in order.
LEMMA UnlinkAt ==
  ASSUME NEW S, NEW l \in Seq(S), Distinct(l), NEW i \in 1..Len(l)
  PROVE  /\ Unlink(l, l[i]) \in Seq(S)
         /\ Len(Unlink(l, l[i])) = Len(l) - 1
         /\ \A j \in 1..(Len(l) - 1) : Unlink(l, l[i])[j] = IF j < i THEN l[j] ELSE l[j + 1]
<1>1. DOMAIN l = 1..Len(l) /\ Listed(l, l[i])
  BY DEF Listed
<1>2. Place(l, l[i]) \in 1..Len(l) /\ l[Place(l, l[i])] = l[i]
  BY <1>1, PlaceIsAPlace
<1>3. Place(l, l[i]) = i
  BY <1>1, <1>2 DEF Distinct
<1> DEFINE m == SubSeq(l, 1, i - 1) \o SubSeq(l, i + 1, Len(l))
<1>4. m \in Seq(S) /\ Len(m) = Len(l) - 1 /\ \A j \in 1..Len(m) : m[j] = IF j < i THEN l[j] ELSE l[j + 1]
  BY CutProps
<1>5. Unlink(l, l[i]) = m
  BY <1>3 DEF Unlink
<1> HIDE DEF m
<1> QED BY <1>4, <1>5

\* Unlinking a node unlinks its key.
LEMMA OrderUnlink ==
  ASSUME NEW hp, NEW list, Keyed(hp, list), NEW n, Listed(list, n)
  PROVE  /\ Listed(Order(hp, list), hp[n].key)
         /\ Order(hp, Unlink(list, n)) = Unlink(Order(hp, list), hp[n].key)
         /\ Keyed(hp, Unlink(list, n))
<1> DEFINE o == Order(hp, list)
           m == Unlink(list, n)
           u == Unlink(o, hp[n].key)
<1>1. list \in Seq(Nodes) /\ Distinct(list) /\ DOMAIN list = 1..Len(list) /\ Len(list) \in Nat
  BY DEF Keyed
<1>2. PICK i \in 1..Len(list) : list[i] = n
  BY <1>1 DEF Listed
<1>3. /\ o \in Seq(Keys) /\ Len(o) = Len(list) /\ Distinct(o) /\ DOMAIN o = 1..Len(o)
      /\ \A j \in 1..Len(list) : o[j] = hp[list[j]].key
  BY OrderProps
<1>4. o[i] = hp[n].key /\ Listed(o, hp[n].key)
  BY <1>2, <1>3 DEF Listed
<1> HIDE DEF o
<1>5. /\ m \in Seq(Nodes) /\ Len(m) = Len(list) - 1
      /\ \A j \in 1..(Len(list) - 1) : m[j] = IF j < i THEN list[j] ELSE list[j + 1]
  BY <1>1, <1>2, UnlinkAt
<1>6. /\ u \in Seq(Keys) /\ Len(u) = Len(list) - 1
      /\ \A j \in 1..(Len(list) - 1) : u[j] = IF j < i THEN o[j] ELSE o[j + 1]
  <2>1. i \in 1..Len(o)
    BY <1>3
  <2>2. /\ Unlink(o, o[i]) \in Seq(Keys) /\ Len(Unlink(o, o[i])) = Len(o) - 1
        /\ \A j \in 1..(Len(o) - 1) : Unlink(o, o[i])[j] = IF j < i THEN o[j] ELSE o[j + 1]
    BY <1>3, <2>1, UnlinkAt
  <2>3. u = Unlink(o, o[i]) /\ Len(o) = Len(list)
    BY <1>3, <1>4
  <2> HIDE DEF u
  <2> QED BY <2>2, <2>3
<1>7. Distinct(m)
  BY <1>1, UnlinkProps
<1> HIDE DEF m, u
<1>8. Keyed(hp, m)
  <2> DEFINE up(j) == IF j < i THEN j ELSE j + 1
  <2>1. \A j \in 1..Len(m) : up(j) \in 1..Len(list) /\ m[j] = list[up(j)]
    BY <1>1, <1>2, <1>5
  <2>2. \A j, k \in 1..Len(m) : up(j) = up(k) => j = k
    BY <1>1, <1>5
  <2> HIDE DEF up
  <2>3. \A j \in 1..Len(m) : hp[m[j]].key \in Keys
    BY <2>1 DEF Keyed
  <2>4. ASSUME NEW j \in 1..Len(m), NEW k \in 1..Len(m), hp[m[j]].key = hp[m[k]].key
        PROVE  j = k
    <3>1. up(j) = up(k)
      BY <2>1, <2>4 DEF Keyed
    <3> QED BY <2>2, <3>1
  <2> QED BY <1>5, <1>7, <2>3, <2>4 DEF Keyed
<1>9. /\ Order(hp, m) \in Seq(Keys) /\ Len(Order(hp, m)) = Len(m)
      /\ \A j \in 1..Len(m) : Order(hp, m)[j] = hp[m[j]].key
  BY <1>8, OrderProps
<1>10. ASSUME NEW j \in 1..Len(u) PROVE Order(hp, m)[j] = u[j]
  <2>1. j \in 1..Len(m) /\ j \in 1..(Len(list) - 1) /\ j \in 1..Len(list) /\ j + 1 \in 1..Len(list)
    BY <1>1, <1>5, <1>6
  <2>2. CASE j < i
    BY <1>3, <1>5, <1>6, <1>9, <2>1, <2>2
  <2>3. CASE ~(j < i)
    BY <1>3, <1>5, <1>6, <1>9, <2>1, <2>3
  <2> QED BY <2>2, <2>3
<1>11. Order(hp, m) = u
  BY <1>5, <1>6, <1>9, <1>10, SeqEqual
<1> QED BY <1>4, <1>8, <1>11 DEF m, u, o

\* Putting a node in front puts its key in front.
LEMMA OrderPush ==
  ASSUME NEW hp, NEW list, Keyed(hp, list), NEW n \in Nodes, hp[n].key \in Keys
  PROVE  Order(hp, PushFront(list, n)) = PushFront(Order(hp, list), hp[n].key)
<1> DEFINE N == Len(list) + 1
<1>1. list \in Seq(Nodes) /\ Len(list) \in Nat
  BY DEF Keyed
<1>2. PICK k, o, m, p : k = hp[n].key /\ o = Order(hp, list) /\ m = PushFront(list, n) /\ p = PushFront(o, k)
  OBVIOUS
<1>3. o \in Seq(Keys) /\ Len(o) = Len(list) /\ \A j \in 1..Len(list) : o[j] = hp[list[j]].key
  BY <1>2, OrderProps
<1>4. m = [j \in 1..N |-> IF j = 1 THEN n ELSE list[j - 1]]
  BY <1>1, <1>2 DEF PushFront
<1>5. p = [j \in 1..N |-> IF j = 1 THEN k ELSE o[j - 1]]
  BY <1>2, <1>3 DEF PushFront
<1>6. ASSUME NEW j \in 1..N PROVE hp[m[j]].key = IF j = 1 THEN k ELSE o[j - 1]
  <2>1. CASE j = 1
    BY <1>2, <1>4, <2>1
  <2>2. CASE j # 1
    <3>1. j - 1 \in 1..Len(list)
      BY <1>1, <2>2
    <3>2. m[j] = list[j - 1] /\ o[j - 1] = hp[list[j - 1]].key
      BY <1>3, <1>4, <2>2, <3>1
    <3> QED BY <2>2, <3>2
  <2> QED BY <2>1, <2>2
<1>7. Order(hp, m) = [j \in 1..N |-> hp[m[j]].key]
  BY <1>4 DEF Order
<1>8. Order(hp, m) = p
  BY <1>5, <1>6, <1>7
<1> QED BY <1>2, <1>8

\* The oldest node has the oldest key; unlinking it drops it.
LEMMA OldestIs ==
  ASSUME NEW S, NEW l \in Seq(S), Distinct(l), Len(l) > 0
  PROVE  Unlink(l, Oldest(l)) = DropOldest(l)
<1> DEFINE n == Len(l) - 1
           u == Unlink(l, l[Len(l)])
           d == SubSeq(l, 1, n)
<1>1. Len(l) \in 1..Len(l) /\ n \in 0..Len(l) /\ n < Len(l)
  OBVIOUS
<1>2. u \in Seq(S) /\ Len(u) = n /\ \A j \in 1..n : u[j] = IF j < Len(l) THEN l[j] ELSE l[j + 1]
  BY <1>1, UnlinkAt
<1>3. d \in Seq(S) /\ Len(d) = n /\ \A j \in 1..n : d[j] = l[j]
  <2> HIDE DEF n
  <2> QED BY <1>1
<1>4. \A j \in 1..n : j < Len(l)
  BY <1>1
<1> HIDE DEF n, u, d
<1>5. u = d
  BY <1>2, <1>3, <1>4, SeqEqual
<1> QED BY <1>5 DEF u, d, n, Oldest, DropOldest

LEMMA OldestKey ==
  ASSUME NEW hp, NEW list, Keyed(hp, list), Len(list) > 0
  PROVE  /\ Oldest(Order(hp, list)) = hp[Oldest(list)].key
         /\ Oldest(list) \in Nodes /\ Listed(list, Oldest(list))
<1>1. list \in Seq(Nodes) /\ Len(list) \in 1..Len(list) /\ DOMAIN list = 1..Len(list)
  BY DEF Keyed
<1>2. Len(Order(hp, list)) = Len(list) /\ \A i \in 1..Len(list) : Order(hp, list)[i] = hp[list[i]].key
  BY OrderProps
<1> QED BY <1>1, <1>2 DEF Oldest, Listed

\* The order is a matter of the listed nodes' keys.
LEMMA OrderSame ==
  ASSUME NEW hp, NEW new, NEW list, Keyed(hp, list),
         \A n \in Nodes : Listed(list, n) => new[n].key = hp[n].key
  PROVE  Order(new, list) = Order(hp, list) /\ Keyed(new, list)
<1>1. list \in Seq(Nodes) /\ DOMAIN list = 1..Len(list)
  BY DEF Keyed
<1>2. \A i \in 1..Len(list) : new[list[i]].key = hp[list[i]].key
  BY <1>1 DEF Listed
<1>3. Order(new, list) = Order(hp, list)
  BY <1>1, <1>2 DEF Order
<1>4. Keyed(new, list)
  BY <1>2 DEF Keyed
<1> QED BY <1>3, <1>4

-----------------------------------------------------------------------------
(* The steps of LRUSpec. *)

LEMMA UseIs ==
  ASSUME NEW k, Listed(Order(heap, nodes), k),
         Order(heap', nodes') = Touch(Order(heap, nodes), k),
         Cached(heap', index') = Cached(heap, index), used' = k
  PROVE  Abstract!Use(k)
BY DEF Abstract!Use, Abstract!Listed, Abstract!Touch, Abstract!Unlink, Abstract!Place,
       Listed, Touch, Unlink, Place, Order, Cached, KeyOf

LEMMA RemoveIs ==
  ASSUME NEW k, Listed(Order(heap, nodes), k),
         Order(heap', nodes') = Unlink(Order(heap, nodes), k),
         Cached(heap', index') = [Cached(heap, index) EXCEPT ![k] = None], used' = used
  PROVE  Abstract!Remove(k)
BY DEF Abstract!Remove, Abstract!Listed, Abstract!Unlink, Abstract!Place,
       Listed, Unlink, Place, Order, Cached, KeyOf

LEMMA AddFits ==
  ASSUME NEW k, NEW v, NEW full, full = PushFront(Order(heap, nodes), k),
         ~Listed(Order(heap, nodes), k), used' = k, Len(full) <= cap,
         Order(heap', nodes') = full,
         Cached(heap', index') = [Cached(heap, index) EXCEPT ![k] = v]
  PROVE  Abstract!Add(k, v)
BY DEF Abstract!Add, Abstract!Listed, Abstract!PushFront,
       Listed, PushFront, Order, Cached, KeyOf

LEMMA AddEvicts ==
  ASSUME NEW k, NEW v, NEW full, full = PushFront(Order(heap, nodes), k),
         ~Listed(Order(heap, nodes), k), used' = k, ~(Len(full) <= cap),
         Order(heap', nodes') = DropOldest(full),
         Cached(heap', index') = [Cached(heap, index) EXCEPT ![k] = v, ![Oldest(full)] = None]
  PROVE  Abstract!Add(k, v)
BY DEF Abstract!Add, Abstract!Listed, Abstract!PushFront, Abstract!DropOldest, Abstract!Oldest,
       Listed, PushFront, DropOldest, Oldest, Order, Cached, KeyOf

LEMMA ListedKeys ==
  ASSUME IInv PROVE \A k \in Keys : Listed(Order(heap, nodes), k) <=> index[k] # None
<1> SUFFICES ASSUME NEW k \in Keys PROVE Listed(Order(heap, nodes), k) <=> index[k] # None
  OBVIOUS
<1>1. Keyed(heap, nodes)
  BY SoundIsKeyed DEF IInv
<1>2. PICK o : o = Order(heap, nodes)
  OBVIOUS
<1>3. /\ DOMAIN o = 1..Len(nodes) /\ DOMAIN nodes = 1..Len(nodes) /\ nodes \in Seq(Nodes)
      /\ \A i \in 1..Len(nodes) : o[i] = heap[nodes[i]].key
  BY <1>1, <1>2, OrderProps DEF Keyed
<1>4. ASSUME NEW i \in 1..Len(nodes), o[i] = k PROVE index[k] # None
  <2>1. nodes[i] \in Nodes /\ Listed(nodes, nodes[i]) /\ heap[nodes[i]].key = k
    BY <1>3, <1>4 DEF Listed
  <2> QED BY <2>1, NoneAssumption DEF IInv, Sound, Linked
<1>5. ASSUME index[k] # None PROVE Listed(o, k)
  <2>1. Listed(nodes, index[k]) /\ heap[index[k]].key = k
    BY <1>5 DEF IInv, Sound, Linked
  <2> QED BY <1>1, <1>2, <2>1, OrderUnlink
<1> QED BY <1>2, <1>3, <1>4, <1>5 DEF Listed

LEMMA OrderTouch ==
  ASSUME NEW hp, NEW list, Keyed(hp, list), NEW n \in Nodes, Listed(list, n), hp[n].key \in Keys
  PROVE  Order(hp, Touch(list, n)) = Touch(Order(hp, list), hp[n].key)
<1>1. /\ Order(hp, Unlink(list, n)) = Unlink(Order(hp, list), hp[n].key)
      /\ Keyed(hp, Unlink(list, n))
  BY OrderUnlink
<1>2. Order(hp, PushFront(Unlink(list, n), n)) = PushFront(Order(hp, Unlink(list, n)), hp[n].key)
  BY <1>1, OrderPush
<1>3. /\ Touch(list, n) = PushFront(Unlink(list, n), n)
      /\ Touch(Order(hp, list), hp[n].key) = PushFront(Unlink(Order(hp, list), hp[n].key), hp[n].key)
  BY DEF Touch, PushFront
<1> QED BY <1>1, <1>2, <1>3

\* phantom_erase_node takes the node's key out of the order and its value out
\* of the cache.
LEMMA PhantomMaps ==
  ASSUME NEW hp, NEW list, NEW ix, NEW gs, NEW n \in Nodes,
         Sound(hp, list, ix, station, gs), Listed(list, n),
         PhantomErase(hp, list, ix, n)
  PROVE  /\ Order(heap', nodes') = Unlink(Order(hp, list), hp[n].key)
         /\ Cached(heap', index') = [Cached(hp, ix) EXCEPT ![hp[n].key] = None]
<1>1. /\ nodes' = Unlink(list, n)
      /\ index' = [ix EXCEPT ![hp[n].key] = None]
      /\ \A m \in Nodes : m # n => heap'[m] = hp[m]
  BY PhantomKeeps
<1>2. Keyed(hp, list)
  BY SoundIsKeyed
<1>3. /\ Order(hp, nodes') = Unlink(Order(hp, list), hp[n].key)
      /\ Keyed(hp, nodes')
  BY <1>1, <1>2, OrderUnlink
<1>4. \A m : Listed(nodes', m) => m # n
  BY <1>1, <1>2, UnlinkProps DEF Keyed
<1>5. Order(heap', nodes') = Order(hp, nodes')
  <2>1. \A m \in Nodes : Listed(nodes', m) => heap'[m].key = hp[m].key
    BY <1>1, <1>4
  <2> QED BY <1>3, <2>1, OrderSame
<1>6. ix \in [Keys -> Nodes \cup {None}]
  BY DEF Sound, Typed
<1>7. ASSUME NEW j \in Keys
      PROVE  (IF index'[j] = None THEN None ELSE heap'[index'[j]].val)
               = IF j = hp[n].key THEN None ELSE IF ix[j] = None THEN None ELSE hp[ix[j]].val
  <2>1. CASE j = hp[n].key
    BY <1>1, <1>6, <2>1
  <2>2. CASE j # hp[n].key /\ ix[j] = None
    BY <1>1, <1>6, <2>2
  <2>3. CASE j # hp[n].key /\ ix[j] # None
    <3>1. index'[j] = ix[j] /\ ix[j] \in Nodes
      BY <1>1, <1>6, <2>3
    <3>2. hp[ix[j]].key = j
      BY <2>3 DEF Sound, Linked
    <3> QED BY <1>1, <2>3, <3>1, <3>2
  <2> QED BY <2>1, <2>2, <2>3
<1>8. Cached(heap', index') = [j \in Keys |-> IF j = hp[n].key THEN None
                                              ELSE IF ix[j] = None THEN None ELSE hp[ix[j]].val]
  BY <1>7 DEF Cached
<1>9. [Cached(hp, ix) EXCEPT ![hp[n].key] = None]
        = [j \in Keys |-> IF j = hp[n].key THEN None
                          ELSE IF ix[j] = None THEN None ELSE hp[ix[j]].val]
  BY DEF Cached
<1> QED BY <1>3, <1>5, <1>8, <1>9

LEMMA EraseMaps ==
  ASSUME IInv, NEW k \in Keys, Erase(k)
  PROVE  Abstract!Remove(k)
<1>1. PICK n : n = index[k]
  OBVIOUS
<1>2. /\ n # None /\ PhantomErase(heap, nodes, index, n) /\ used' = used
  BY <1>1 DEF Erase
<1>3. n \in Nodes /\ Listed(nodes, n) /\ heap[n].key = k
  BY <1>1, <1>2 DEF IInv, Sound, Typed, Linked
<1>4. Sound(heap, nodes, index, station, gets)
  BY DEF IInv
<1>5. /\ Order(heap', nodes') = Unlink(Order(heap, nodes), k)
      /\ Cached(heap', index') = [Cached(heap, index) EXCEPT ![k] = None]
  BY <1>2, <1>3, <1>4, PhantomMaps
<1>6. Listed(Order(heap, nodes), k)
  BY <1>1, <1>2, ListedKeys
<1> QED BY <1>2, <1>5, <1>6, RemoveIs

\* A count is neither a key nor a value.
LEMMA CountOnly ==
  ASSUME IInv, NEW n \in Nodes, heap[n] # None, NEW c, heap' = [heap EXCEPT ![n].ref_cnt = c]
  PROVE  \A m \in Nodes : heap'[m].key = heap[m].key /\ heap'[m].val = heap[m].val
<1>1. PICK r : r = heap[n]
  OBVIOUS
<1>2. r \in NodeRecords
  BY <1>1 DEF IInv, Sound, Typed
<1>3. [r EXCEPT !.ref_cnt = c].key = r.key /\ [r EXCEPT !.ref_cnt = c].val = r.val
  BY <1>2 DEF NodeRecords
<1>4. \A m \in Nodes : heap'[m] = IF m = n THEN [r EXCEPT !.ref_cnt = c] ELSE heap[m]
  BY <1>1 DEF IInv, Sound, Typed
<1> QED BY <1>1, <1>3, <1>4

LEMMA GetMaps ==
  ASSUME IInv, NEW h \in Holders, NEW k \in Keys, Get(h, k)
  PROVE  Abstract!Use(k)
<1>1. PICK n : n = index[k]
  OBVIOUS
<1>2. /\ n # None /\ nodes' = Touch(nodes, n) /\ heap' = [heap EXCEPT ![n].ref_cnt = @ + 1]
      /\ index' = index /\ used' = k
  BY <1>1 DEF Get, ToFront
<1>3. n \in Nodes /\ Listed(nodes, n) /\ heap[n].key = k /\ index \in [Keys -> Nodes \cup {None}]
  BY <1>1, <1>2 DEF IInv, Sound, Typed, Linked
<1>4. \A m \in Nodes : heap'[m].key = heap[m].key /\ heap'[m].val = heap[m].val
  <2>1. heap[n] # None /\ heap' = [heap EXCEPT ![n].ref_cnt = heap[n].ref_cnt + 1]
    BY <1>2, <1>3 DEF IInv, Sound, Linked
  <2> QED BY <1>3, <2>1, CountOnly
<1>5. Keyed(heap, nodes)
  BY SoundIsKeyed DEF IInv
<1>6. Keyed(heap', nodes) /\ Order(heap', nodes) = Order(heap, nodes)
  BY <1>4, <1>5, OrderSame
<1>7. Order(heap', nodes') = Touch(Order(heap, nodes), k)
  <2>1. PICK hp : hp = heap'
    OBVIOUS
  <2>2. Keyed(hp, nodes) /\ hp[n].key = k
    BY <1>3, <1>4, <1>6, <2>1
  <2>3. Order(hp, Touch(nodes, n)) = Touch(Order(hp, nodes), k)
    BY <1>3, <2>2, OrderTouch
  <2> QED BY <1>2, <1>6, <2>1, <2>3
<1>8. Cached(heap', index') = Cached(heap, index)
  BY <1>2, <1>3, <1>4 DEF Cached
<1>9. Listed(Order(heap, nodes), k)
  BY <1>1, <1>2, ListedKeys
<1> QED BY <1>2, <1>7, <1>8, <1>9, UseIs

\* release changes a count: the list does not see it.
LEMMA ReleaseMaps ==
  ASSUME IInv, Releases # "always", NEW h \in Holders, Release(h)
  PROVE  /\ Order(heap', nodes') = Order(heap, nodes)
         /\ Cached(heap', index') = Cached(heap, index)
         /\ used' = used
<1>1. PICK n : n = held[h].node
  OBVIOUS
<1>2. /\ held[h] # NotHeld /\ index[held[h].key] = n
      /\ nodes' = nodes /\ index' = index /\ used' = used
      /\ n # None /\ Alive(n) => heap' = Unref(heap, station, n).heap
  BY <1>1 DEF Release
<1>3. /\ n \in Nodes /\ held[h].key \in Keys /\ n # None /\ heap[n] # None
      /\ Listed(nodes, n) /\ gets[n] \in Nat \ {0}
  <2>1. n \in Nodes /\ held[h].key \in Keys /\ gets[n] > 0
    BY <1>1, <1>2, HeldIsCounted
  <2>2. n # None
    BY <2>1, NoneAssumption
  <2> QED BY <1>2, <2>1, <2>2 DEF IInv, Sound, Linked, Typed
<1>4. ~(heap[n].ref_cnt - 1 <= 0)
  BY <1>3 DEF IInv, Sound, Counted
<1>5. heap' = [heap EXCEPT ![n].ref_cnt = heap[n].ref_cnt - 1]
  BY <1>2, <1>3, <1>4 DEF Unref, Alive
<1>6. \A m \in Nodes : heap'[m].key = heap[m].key /\ heap'[m].val = heap[m].val
  BY <1>3, <1>5, CountOnly
<1>7. Keyed(heap, nodes) /\ index \in [Keys -> Nodes \cup {None}]
  BY SoundIsKeyed DEF IInv, Sound, Typed
<1>8. Order(heap', nodes) = Order(heap, nodes)
  BY <1>6, <1>7, OrderSame
<1>9. Cached(heap', index) = Cached(heap, index)
  BY <1>6, <1>7 DEF Cached
<1> QED BY <1>2, <1>8, <1>9

LEMMA InsertMaps ==
  ASSUME IInv, NEW k \in Keys, NEW v \in Values, Insert(k, v)
  PROVE  Abstract!Use(k) \/ Abstract!Add(k, v)
<1>1. Keyed(heap, nodes) /\ nodes \in Seq(Nodes)
  BY SoundIsKeyed DEF IInv, Keyed
<1>2. used' = k
  BY DEF Insert
<1>3. CASE index[k] # None
  <2>1. PICK n : n = index[k]
    OBVIOUS
  <2>2. /\ nodes' = Touch(nodes, n) /\ heap' = heap /\ index' = index
    BY <1>3, <2>1 DEF Insert, ToFront
  <2>3. n \in Nodes /\ Listed(nodes, n) /\ heap[n].key = k
    BY <1>3, <2>1 DEF IInv, Sound, Typed, Linked
  <2>4. Order(heap', nodes') = Touch(Order(heap, nodes), k)
    BY <1>1, <2>2, <2>3, OrderTouch
  <2>5. Cached(heap', index') = Cached(heap, index)
    BY <2>2
  <2>6. Listed(Order(heap, nodes), k)
    BY <1>3, ListedKeys
  <2> QED BY <1>2, <2>4, <2>5, <2>6, UseIs
<1>4. CASE index[k] = None
  <2>1. PICK n \in Nodes :
          /\ ~Alive(n)
          /\ gets' = [gets EXCEPT ![n] = 0]
          /\ IF Len(PushFront(nodes, n)) > cap
             THEN PhantomErase([heap EXCEPT ![n] = NewNode(k, v)], PushFront(nodes, n),
                               [index EXCEPT ![k] = n], Oldest(PushFront(nodes, n)))
             ELSE /\ heap' = [heap EXCEPT ![n] = NewNode(k, v)] /\ nodes' = PushFront(nodes, n)
                  /\ index' = [index EXCEPT ![k] = n] /\ station' = station
    BY <1>4 DEF Insert
  <2>2. PICK hp, list, ix, gs, full :
          /\ hp = [heap EXCEPT ![n] = NewNode(k, v)] /\ list = PushFront(nodes, n)
          /\ ix = [index EXCEPT ![k] = n] /\ gs = [gets EXCEPT ![n] = 0]
          /\ full = PushFront(Order(heap, nodes), k)
    OBVIOUS
  <2>3. Sound(hp, list, ix, station, gs) /\ Len(list) = Len(nodes) + 1
    BY <1>4, <2>1, <2>2, FrontSound
  <2>4. Keyed(hp, list)
    BY <2>3, SoundIsKeyed
  <2>5. /\ \A m \in Nodes : hp[m] = IF m = n THEN NewNode(k, v) ELSE heap[m]
        /\ \A j \in Keys : ix[j] = IF j = k THEN n ELSE index[j]
        /\ index \in [Keys -> Nodes \cup {None}] /\ heap[n] = None
    BY <2>1, <2>2 DEF IInv, Sound, Typed, Alive
  <2>6. \A m : Listed(nodes, m) => m # n
    BY <2>5 DEF IInv, Sound, Linked
  <2>7. Order(hp, nodes) = Order(heap, nodes) /\ Keyed(hp, nodes)
    <3>1. \A m \in Nodes : Listed(nodes, m) => hp[m].key = heap[m].key
      BY <2>5, <2>6
    <3> QED BY <1>1, <3>1, OrderSame
  <2>8. Order(hp, list) = full
    <3>1. hp[n].key = k
      BY <2>5 DEF NewNode
    <3> QED BY <2>2, <2>7, <3>1, OrderPush
  <2>9. Cached(hp, ix) = [Cached(heap, index) EXCEPT ![k] = v]
    <3>1. ASSUME NEW j \in Keys
          PROVE  (IF ix[j] = None THEN None ELSE hp[ix[j]].val)
                   = IF j = k THEN v ELSE IF index[j] = None THEN None ELSE heap[index[j]].val
      <4>1. CASE j = k
        BY <2>5, <4>1, NoneAssumption DEF NewNode
      <4>2. CASE j # k /\ index[j] = None
        BY <2>5, <4>2
      <4>3. CASE j # k /\ index[j] # None
        <5>1. index[j] \in Nodes /\ index[j] # n
          BY <2>5, <2>6, <4>3 DEF IInv, Sound, Linked
        <5> QED BY <2>5, <4>3, <5>1
      <4> QED BY <4>1, <4>2, <4>3
    <3> QED BY <3>1 DEF Cached
  <2>10. ~Listed(Order(heap, nodes), k)
    BY <1>4, ListedKeys
  <2>11. Len(full) = Len(list) /\ full \in Seq(Keys) /\ Distinct(full) /\ Len(list) \in Nat
    BY <2>4, <2>8, OrderProps DEF Keyed
  <2>12. CASE Len(list) > cap
    <3>1. PICK o : o = Oldest(list)
      OBVIOUS
    <3>2. /\ Oldest(full) = hp[o].key
          /\ o \in Nodes /\ Listed(list, o)
      <4>1. Len(list) > 0
        BY <1>1, <2>3
      <4> QED BY <2>4, <2>8, <3>1, <4>1, OldestKey
    <3>3. PhantomErase(hp, list, ix, o)
      BY <2>1, <2>2, <2>12, <3>1
    <3>4. /\ Order(heap', nodes') = Unlink(full, Oldest(full))
          /\ Cached(heap', index') = [Cached(hp, ix) EXCEPT ![Oldest(full)] = None]
      BY <2>3, <2>8, <3>2, <3>3, PhantomMaps
    <3>5. Unlink(full, Oldest(full)) = DropOldest(full)
      <4>1. Len(full) > 0
        BY <1>1, <2>3, <2>11
      <4> QED BY <2>11, <4>1, OldestIs
    <3>6. Cached(heap', index') = [Cached(heap, index) EXCEPT ![k] = v, ![Oldest(full)] = None]
      BY <2>9, <3>4
    <3>7. ~(Len(full) <= cap)
      BY <2>11, <2>12, LimitAssumption
    <3>8. Order(heap', nodes') = DropOldest(full)
      BY <3>4, <3>5
    <3>9. full = PushFront(Order(heap, nodes), k)
      BY <2>2
    <3> QED BY <1>2, <2>10, <3>6, <3>7, <3>8, <3>9, AddEvicts
  <2>13. CASE ~(Len(list) > cap)
    <3>1. heap' = hp /\ nodes' = list /\ index' = ix
      BY <2>1, <2>2, <2>13
    <3>2. Len(full) <= cap
      BY <2>11, <2>13, LimitAssumption
    <3>3. full = PushFront(Order(heap, nodes), k)
      BY <2>2
    <3>4. /\ Order(heap', nodes') = full
          /\ Cached(heap', index') = [Cached(heap, index) EXCEPT ![k] = v]
      BY <2>8, <2>9, <3>1
    <3> QED BY <1>2, <2>10, <3>2, <3>3, <3>4, AddFits
  <2> QED BY <2>12, <2>13
<1> QED BY <1>3, <1>4

LEMMA StepMaps ==
  Releases # "always" /\ IInv /\ [Next]_vars => [Abstract!Next]_(Abstract!avars)
<1> SUFFICES ASSUME Releases # "always", IInv, [Next]_vars
             PROVE  [Abstract!Next]_(Abstract!avars)
  OBVIOUS
<1>1. ASSUME NEW k \in Keys, Erase(k) PROVE Abstract!Next
  BY <1>1, EraseMaps DEF Abstract!Next
<1>2. ASSUME NEW k \in Keys, NEW v \in Values, Insert(k, v) PROVE Abstract!Next
  BY <1>2, InsertMaps DEF Abstract!Next
<1>3. ASSUME NEW h \in Holders, NEW k \in Keys, Get(h, k) PROVE Abstract!Next
  BY <1>3, GetMaps DEF Abstract!Next
<1>4. ASSUME Order(heap', nodes') = Order(heap, nodes), Cached(heap', index') = Cached(heap, index),
             used' = used
      PROVE  UNCHANGED Abstract!avars
  BY <1>4 DEF Abstract!avars, Order, Cached, KeyOf
<1>5. ASSUME NEW h \in Holders, Release(h) PROVE UNCHANGED Abstract!avars
  BY <1>4, <1>5, ReleaseMaps
<1>6. ASSUME NEW h \in Holders, Drop(h) PROVE UNCHANGED Abstract!avars
  BY <1>4, <1>6 DEF Drop
<1>7. CASE UNCHANGED vars
  BY <1>4, <1>7 DEF vars
<1> QED BY <1>1, <1>2, <1>3, <1>5, <1>6, <1>7 DEF Next

LEMMA InitMaps == Init => Abstract!Init
BY DEF Init, Abstract!Init, KeyOf

\* The nodes, the index and the counts are an LRU list: an insert adds or
\* refreshes its key, evicting the oldest of a full list, a hit refreshes it, an
\* erase removes it, and giving a node back is not seen.
THEOREM ShardIsAnLRU == ASSUME Releases # "always" PROVE Spec => ImplementsLRU
<1>1. Releases # "always" /\ IInv /\ [Next]_vars => [Abstract!Next]_(Abstract!avars)
  BY StepMaps
<1> QED BY <1>1, InitMaps, AllSound, PTL DEF Spec, ImplementsLRU, Abstract!Spec
=============================================================================

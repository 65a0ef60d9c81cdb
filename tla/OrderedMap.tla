----------------------------- MODULE OrderedMap -----------------------------
(***************************************************************************)
(* What SkipList promises MemTable: a map in key order and an iterator.    *)
(* The iterator may lag behind the map: entries removed while its way led  *)
(* over them are still there for it (ghosts), until the way joins the map  *)
(* again at `join`.  DBImpl's flush walks the memtable by these rules.     *)
(***************************************************************************)
EXTENDS Integers

CONSTANTS Keys, Values, Absent

VARIABLES map,                \* key -> value
          walking, pos,       \* the iterator, and the key it stands on
          ghost, join,        \* its way from there
          seen                \* what it has read
mvars == <<map, walking, pos, ghost, join, seen>>

Nothing == [k \in Keys |-> Absent]
Present(m) == {k \in Keys : m[k] # Absent}

Init == /\ map = Nothing
        /\ walking = FALSE /\ pos = 0 /\ ghost = Nothing /\ join = 0 /\ seen = Nothing

Insert(k, v) == /\ map[k] = Absent
                /\ map' = [map EXCEPT ![k] = v]
                /\ UNCHANGED <<walking, pos, ghost, join, seen>>

Follows(n, k) == LET after == {j \in Present(map) : j > k}
                 IN  IF after = {} THEN n = Absent
                     ELSE n \in after /\ \A j \in after : n <= j

Remove(k) == /\ map[k] # Absent
             /\ map' = [map EXCEPT ![k] = Absent]
             /\ IF walking /\ join = k
                THEN /\ \E n \in Keys \cup {Absent} : Follows(n, k) /\ join' = n
                     /\ ghost' = IF k > pos THEN [ghost EXCEPT ![k] = map[k]] ELSE ghost
                ELSE UNCHANGED <<ghost, join>>
             /\ UNCHANGED <<walking, pos, seen>>

Start == /\ ~walking
         /\ walking' = TRUE /\ seen' = Nothing
         /\ UNCHANGED <<map, pos, ghost, join>>

Live == IF join = Absent THEN {} ELSE {k \in Present(map) : k > pos /\ k >= join}
Ahead == Present(ghost) \cup Live

Advance(k) == /\ walking
              /\ k \in Ahead /\ \A j \in Ahead : k <= j
              /\ pos' = k
              /\ IF k \in Live
                 THEN /\ seen' = [seen EXCEPT ![k] = map[k]]
                      /\ join' = k
                      /\ UNCHANGED ghost
                 ELSE /\ seen' = [seen EXCEPT ![k] = ghost[k]]
                      /\ ghost' = [ghost EXCEPT ![k] = Absent]
                      /\ UNCHANGED join
              /\ UNCHANGED <<map, walking>>

Stop == /\ walking
        /\ Ahead = {}
        /\ walking' = FALSE /\ pos' = 0 /\ join' = 0
        /\ UNCHANGED <<map, ghost, seen>>

Next == \/ \E k \in Keys : Remove(k) \/ Advance(k) \/ \E v \in Values : Insert(k, v)
        \/ Start \/ Stop

Spec == Init /\ [][Next]_mvars
=============================================================================

------------------------------- MODULE LRUSpec -------------------------------
(***************************************************************************)
(* What a shard of the cache promises (and DBImpl relies on): at most cap  *)
(* keys, most recently used first, with the value of their first insert.   *)
(***************************************************************************)
EXTENDS LRUList

CONSTANTS Keys, Values, Absent, cap

VARIABLES order,   \* the cached keys, most recently used first
          cached,  \* their values
          used     \* the key used last

avars == <<order, cached, used>>

Init == order = <<>> /\ cached = [k \in Keys |-> Absent] /\ used = Absent

\* A hit, or an insert of a key that is there.
Use(k) == /\ Listed(order, k)
          /\ order' = Touch(order, k)
          /\ used' = k
          /\ UNCHANGED cached

Add(k, v) ==
  LET full == PushFront(order, k)
  IN  /\ ~Listed(order, k)
      /\ used' = k
      /\ IF Len(full) <= cap
         THEN /\ order' = full
              /\ cached' = [cached EXCEPT ![k] = v]
         ELSE /\ order' = DropOldest(full)
              /\ cached' = [cached EXCEPT ![k] = v, ![Oldest(full)] = Absent]

Remove(k) == /\ Listed(order, k)
             /\ order' = Unlink(order, k)
             /\ cached' = [cached EXCEPT ![k] = Absent]
             /\ UNCHANGED used

Next == \E k \in Keys : Use(k) \/ Remove(k) \/ \E v \in Values : Add(k, v)

Spec == Init /\ [][Next]_avars
=============================================================================

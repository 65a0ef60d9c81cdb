------------------------------ MODULE KVStore ------------------------------
(***************************************************************************)
(* What DB promises its callers (src/db/db.h): a map from keys to values   *)
(* that is both Set and Update under Put, loses a key under Delete, and of *)
(* which a part - everything up to the last persist - survives the         *)
(* process.  Empty stands for "no value": Delete stores the empty string   *)
(* as a tombstone and the command line reads "" as NOTFOUND.               *)
(***************************************************************************)
CONSTANTS Keys, Values, Empty

VARIABLES running,    \* a process has the database open
          store,      \* what a read should return
          persisted   \* what is left after the process is gone

kvars == <<running, store, persisted>>

Contents == [Keys -> Values \cup {Empty}]

Init == /\ running = TRUE
        /\ store = [k \in Keys |-> Empty]
        /\ persisted = [k \in Keys |-> Empty]

\* A Put of the empty string and a Delete leave the same contents.
Write(k, v) == /\ running
               /\ store' = [store EXCEPT ![k] = v]
               /\ UNCHANGED <<running, persisted>>

\* A full memtable, or Close, brings everything written so far to disk.
Persist == /\ running
           /\ persisted' = store
           /\ UNCHANGED <<running, store>>

\* The process dies, or exits after Close.
Lose == /\ running
        /\ running' = FALSE
        /\ store' = persisted
        /\ UNCHANGED persisted

Reopen == /\ ~running
          /\ running' = TRUE
          /\ UNCHANGED <<store, persisted>>

Next == \/ \E k \in Keys, v \in Values \cup {Empty} : Write(k, v)
        \/ Persist
        \/ Lose
        \/ Reopen

Spec == Init /\ [][Next]_kvars
=============================================================================

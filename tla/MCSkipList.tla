----------------------------- MODULE MCSkipList -----------------------------
(***************************************************************************)
(* An instance of SkipList for TLC.                                        *)
(***************************************************************************)
EXTENDS SkipList, TLC

MCKeys == 1..3
MCKeyLen == [k \in MCKeys |-> k]
MCValLen == [v \in Values |-> IF v = "" THEN 0 ELSE 2]
Symmetry == Permutations(Nodes)

\* What a leaked node holds is never read again.
Reachable == LET used == Nodes \ Unused
             IN  <<[n \in used \cup {head_} |-> next[n]], [n \in used |-> data[n]],
                   max_level, size, mem_usage, iter, seen>>
=============================================================================

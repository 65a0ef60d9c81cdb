----------------------------- MODULE MCSSTable ------------------------------
(***************************************************************************)
(* Instances of SSTable and SSTParser for TLC: keys of up to three of two  *)
(* letters, in ASCII, and three keys of which each begins with the one     *)
(* before.                                                                 *)
(***************************************************************************)
EXTENDS SSTParser

Letters == {97, 98}
MCNested == {<<97>>, <<97, 98>>, <<97, 98, 98>>}
MCKeys == {<<>>} \cup UNION {[1..n -> Letters] : n \in 1..3}
MCHash == [k \in MCKeys |-> FoldLeft(LAMBDA h, b : (31 * h + 7 * b + 11) % 256, 17, k)]
=============================================================================

----------------------------- MODULE MCAllocate -----------------------------
(***************************************************************************)
(* An instance of FreeListAllocate for TLC: blocks of one, two and three   *)
(* words and one size that goes to malloc.                                 *)
(***************************************************************************)
EXTENDS FreeListAllocate

MCSizes == {0, 5, 16, 20, 40}
=============================================================================

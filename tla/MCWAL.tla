------------------------------- MODULE MCWAL -------------------------------
(***************************************************************************)
(* An instance of FileWriter for TLC.                                      *)
(***************************************************************************)
EXTENDS FileWriter

MCLogLens == {0, 1, 2, 4, 7}
=============================================================================

-------------------------------- MODULE MCDB --------------------------------
(***************************************************************************)
(* Instances of DBImpl for TLC.                                            *)
(***************************************************************************)
EXTENDS DBProps, TLC

MCKeys == 1..2
MCKeyLen == [k \in MCKeys |-> 1]
MCValLen == [v \in Values \cup {Empty} |-> IF v = Empty THEN 0 ELSE 1]
MCShardOf == [k \in MCKeys |-> 0]
=============================================================================

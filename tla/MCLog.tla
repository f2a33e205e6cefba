------------------------------- MODULE MCLog -------------------------------
(* Room for two operations at a time and three processes, so that one waits;  *)
(* two blocks, so that operations share them; two crashes, so that one may     *)
(* fall into the recovery from the other.                                      *)
EXTENDS Log

MCImage == [b \in Blocks |-> 0]
=============================================================================

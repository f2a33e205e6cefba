-------------------------------- MODULE MCBFS --------------------------------
(* Bounds for model-checking the process table and the scheduler.  A quantum  *)
(* of 2 lets a process be charged a tick with and without using it up.        *)
EXTENDS BFS

MCNiceFirst == -20
MCNiceArgs == {-1}
=============================================================================

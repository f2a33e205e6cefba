---------------------------- MODULE MCKernelLocks ----------------------------
(* The locks that are taken outside ptable.lock do not nest among each other, *)
(* nor do those taken inside it, so each kind has one name: CPUs then wait     *)
(* for each other more often than they would.                                  *)
EXTENDS KernelLocks, TLC

MCRank == "inner" :> 0 @@ "ptable" :> 1 @@ "outer" :> 2

MCSymmetry == Permutations(CPUs) \cup Permutations(Procs)
=============================================================================

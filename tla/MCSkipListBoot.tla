--------------------------- MODULE MCSkipListBoot ---------------------------
(* Two processes with different deadlines are enough for a walk to pass a     *)
(* node that the other CPU has reset.                                         *)
EXTENDS SkipListBoot

MCRunnable == <<[value |-> 5, pid |-> 1], [value |-> 6, pid |-> 2]>>
MCValues == {5, 6}
MCPids == {1, 2}
=============================================================================

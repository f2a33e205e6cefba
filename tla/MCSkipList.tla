----------------------------- MODULE MCSkipList -----------------------------
(* Bounds for model-checking the skip list: three nodes, two levels, and      *)
(* more possible entries (two deadlines for each of two pids) than nodes, so  *)
(* that the list fills up, equal deadlines meet and nodes are reused.         *)
EXTENDS SkipList

MCValues == {5, 6}
MCPids == {1, 2}
=============================================================================

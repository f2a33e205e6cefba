----------------------------- MODULE AtomicDisk -----------------------------
(***************************************************************************)
(* What log.c promises the file system: a crash undoes the operations of   *)
(* the last transaction entirely or not at all, and no operation that is   *)
(* still under way is ever made permanent.                                 *)
(***************************************************************************)
EXTENDS Naturals

CONSTANTS Blocks, Vals

VARIABLES
  stable,     \* the contents of the disk a crash would leave
  current,    \* the contents operations see
  active      \* the number of operations between begin_op and end_op

vars == <<stable, current, active>>

Init ==
  /\ stable \in [Blocks -> Vals]
  /\ current = stable
  /\ active = 0

Begin == active' = active + 1 /\ UNCHANGED <<stable, current>>

Write ==
  /\ active > 0
  /\ \E b \in Blocks, v \in Vals : current' = [current EXCEPT ![b] = v]
  /\ UNCHANGED <<stable, active>>

End == active > 0 /\ active' = active - 1 /\ UNCHANGED <<stable, current>>

Commit ==
  /\ active = 0
  /\ stable' = current
  /\ UNCHANGED <<current, active>>

Crash ==
  /\ current' = stable
  /\ active' = 0
  /\ UNCHANGED stable

Next == Begin \/ Write \/ End \/ Commit \/ Crash

Spec == Init /\ [][Next]_vars
=============================================================================

---------------------------- MODULE SkipListBoot ----------------------------
(***************************************************************************)
(* Two CPUs at boot.  One is in its scheduler loop: with ptable.lock held  *)
(* it enters each runnable process into the list and takes the first one,  *)
(* which soon yields with ticks left and so stays runnable with the same   *)
(* deadline.  The other CPU calls scheduler() only now (main.c 55-57) and  *)
(* runs initSkipList without the lock (proc.c 369), one node at a time.    *)
(***************************************************************************)
EXTENDS SkipList, Sequences

CONSTANT Runnable   \* the runnable processes, as entries in table order

VARIABLES
  turn,   \* the place of the scheduler's pass in Runnable, past it for the pick
  wipe    \* the node the second CPU's initSkipList resets next

bootvars == <<vars, turn, wipe>>

\* The first CPU's own initSkipList has run.
BootInit ==
  /\ valid = [n \in Index |-> IF n = 0 THEN 1 ELSE 0]
  /\ value = [n \in Index |-> -1]
  /\ pid = [n \in Index |-> -1]
  /\ forward = [n \in Index |-> [l \in Levels |-> Nil]]
  /\ backward = [n \in Index |-> [l \in Levels |-> Nil]]
  /\ maxlevel = [n \in Index |-> IF n = 0 THEN MAX_SKIPLIST_LEVEL ELSE 0]
  /\ level = 0
  /\ pc = "idle"
  /\ call = NoCall
  /\ cur = 0
  /\ lv = 0
  /\ back = NoBack
  /\ node = 0
  /\ reply = NoReply
  /\ turn = 1
  /\ wipe = 0

WipeHead ==
  /\ wipe = 0
  /\ level' = 0
  /\ valid' = [valid EXCEPT ![0] = 1]
  /\ value' = [value EXCEPT ![0] = -1]
  /\ pid' = [pid EXCEPT ![0] = -1]
  /\ maxlevel' = [maxlevel EXCEPT ![0] = MAX_SKIPLIST_LEVEL]
  /\ forward' = [forward EXCEPT ![0] = [l \in Levels |-> Nil]]
  /\ backward' = [backward EXCEPT ![0] = [l \in Levels |-> Nil]]
  /\ wipe' = 1
  /\ UNCHANGED <<pc, locals, reply, turn>>

WipeNode ==
  /\ wipe \in Nodes
  /\ valid' = [valid EXCEPT ![wipe] = 0]
  /\ value' = [value EXCEPT ![wipe] = -1]
  /\ pid' = [pid EXCEPT ![wipe] = -1]
  /\ forward' = [forward EXCEPT ![wipe] = [l \in Levels |-> Nil]]
  /\ backward' = [backward EXCEPT ![wipe] = [l \in Levels |-> Nil]]
  /\ wipe' = wipe + 1
  /\ UNCHANGED <<maxlevel, level, pc, locals, reply, turn>>

Wipe == WipeHead \/ WipeNode

\* The pass over the table, and the pick that ends it.  A write through a backward
\* link of -1 falls outside nodeList and leaves the list as it is.
Pass ==
  \/ /\ turn <= Len(Runnable)
     /\ Enter(Runnable[turn].value, Runnable[turn].pid)
     /\ turn' = turn + 1
  \/ /\ turn > Len(Runnable)
     /\ Take \/ TakeNothing
     /\ turn' = 1

BootNext ==
  \/ (Pass \/ (Step /\ UNCHANGED turn)) /\ UNCHANGED wipe
  \/ Wipe

BootSpec ==
  /\ BootInit
  /\ [][BootNext]_bootvars
  /\ WF_bootvars(Step /\ UNCHANGED <<turn, wipe>>)
  /\ WF_bootvars(Wipe)

\* proc.c 348-350: the scheduler "loops, doing: - choose a process to run - swtch to
\* start running that process".  Each search and insertion of its pass over the table
\* must come to an end for it to get that far.
SchedulerLoops == [](pc # "idle" => <>(pc = "idle"))
=============================================================================

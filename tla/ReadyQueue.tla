----------------------------- MODULE ReadyQueue -----------------------------
(***************************************************************************)
(* What the scheduler in proc.c needs from its run queue, independent of   *)
(* the skip list that implements it: a set of entries (virtual deadline,   *)
(* pid) of bounded size, with three calls.  The scheduler's pass over      *)
(* ptable makes Enter and Leave calls; picking the next process is Take,   *)
(* which must return an entry with the earliest deadline.  The reply of    *)
(* the last call is part of the state, so that an implementation is held   *)
(* to the answers it gives and not only to the entries it keeps.           *)
(***************************************************************************)
EXTENDS Integers, FiniteSets

CONSTANTS
  Capacity,   \* the most entries the queue holds
  Values,     \* virtual deadlines
  Pids        \* process ids

VARIABLES queue, reply

Entry(v, p) == [value |-> v, pid |-> p]

Reply(result, v, p) == [result |-> result, value |-> v, pid |-> p]

NoReply == Reply("none", -1, -1)

Init ==
  /\ queue = {}
  /\ reply = NoReply

\* initSkipList: every CPU empties the queue when it enters scheduler().
Reset ==
  /\ queue' = {}
  /\ reply' = NoReply

\* A call begins; its effect and its reply come in one later step.
Begin ==
  /\ reply' = NoReply
  /\ UNCHANGED queue

\* A runnable process is entered once; a full queue refuses it.
Enter(v, p) ==
  \/ /\ Entry(v, p) \in queue
     /\ reply' = Reply("present", v, p)
     /\ UNCHANGED queue
  \/ /\ Entry(v, p) \notin queue
     /\ Cardinality(queue) < Capacity
     /\ queue' = queue \cup {Entry(v, p)}
     /\ reply' = Reply("inserted", v, p)
  \/ /\ Entry(v, p) \notin queue
     /\ Cardinality(queue) = Capacity
     /\ reply' = Reply("full", v, p)
     /\ UNCHANGED queue

Leave(v, p) ==
  \/ /\ Entry(v, p) \in queue
     /\ queue' = queue \ {Entry(v, p)}
     /\ reply' = Reply("removed", v, p)
  \/ /\ Entry(v, p) \notin queue
     /\ reply' = Reply("absent", v, p)
     /\ UNCHANGED queue

\* The earliest deadline leaves the queue; ties are broken either way.
Take ==
  \/ \E e \in queue :
       /\ \A f \in queue : e.value <= f.value
       /\ queue' = queue \ {e}
       /\ reply' = Reply("taken", e.value, e.pid)
  \/ /\ queue = {}
     /\ reply' = Reply("empty", -1, -1)
     /\ UNCHANGED queue

Next ==
  \/ Reset
  \/ Begin
  \/ \E v \in Values, p \in Pids : Enter(v, p) \/ Leave(v, p)
  \/ Take

Spec == Init /\ [][Next]_<<queue, reply>>
=============================================================================

------------------------------ MODULE SkipList ------------------------------
(***************************************************************************)
(* The skip list of proc.c (lines 672-914): an array of NPROC + 1 nodes    *)
(* linked by indices, node 0 being the sentinel head, sorted by virtual    *)
(* deadline on every level.  One step is one iteration of one of the       *)
(* code's loops, so that the loop invariants are state invariants.         *)
(*                                                                         *)
(* The caller is scheduler(), which makes three kinds of calls with        *)
(* ptable.lock held:                                                       *)
(*   "enter"  slSearch, then slInsert if nothing was found (391-398);      *)
(*   "leave"  slDelete, whose first half is the same slSearch that guards  *)
(*            the call (399-405);                                          *)
(*   "take"   slDelete of the first node of level 0 (411-421).             *)
(***************************************************************************)
EXTENDS Integers

CONSTANTS
  NPROC,                \* nodes besides the head (param.h)
  MAX_SKIPLIST_LEVEL,   \* levels (bfs.h)
  Values,               \* the virtual deadlines callers use
  Pids                  \* the pids callers use

ASSUME SkipListAssumption ==
  /\ NPROC \in Nat \ {0}
  /\ MAX_SKIPLIST_LEVEL \in Nat \ {0}
  /\ Values \subseteq Int
  /\ Pids \subseteq Nat \ {0}

Nodes == 1 .. NPROC
Index == 0 .. NPROC                      \* 0 is the head
Levels == 0 .. (MAX_SKIPLIST_LEVEL - 1)
Nil == -1
Links == Index \cup {Nil}

VARIABLES
  \* struct SkipList sl, one variable per field of struct SkipNode
  valid, value, pid, forward, backward, maxlevel, level,
  \* the call in progress and the locals of slSearch, slInsert, slDelete
  pc,      \* which loop is running, "idle" between calls
  call,    \* [op, value, pid]
  cur,     \* currentNode, nodeIdxToInsert
  lv,      \* the loop counter i
  back,    \* backNodesIdxToUpdate
  node,    \* newNode, nodeToDelete
  reply    \* what the last call returned, none while one runs

list == <<valid, value, pid, forward, backward, maxlevel, level>>
locals == <<call, cur, lv, back, node>>
vars == <<list, pc, locals, reply>>

Reply(result, v, p) == [result |-> result, value |-> v, pid |-> p]

NoCall == [op |-> "none", value |-> -1, pid |-> -1]
NoReply == Reply("none", -1, -1)
NoBack == [l \in Levels |-> 0]

\* Static storage is zero except for sl.level.
Init ==
  /\ valid = [n \in Index |-> 0]
  /\ value = [n \in Index |-> 0]
  /\ pid = [n \in Index |-> 0]
  /\ forward = [n \in Index |-> [l \in Levels |-> 0]]
  /\ backward = [n \in Index |-> [l \in Levels |-> 0]]
  /\ maxlevel = [n \in Index |-> 0]
  /\ level = -1
  /\ pc = "idle"
  /\ call = NoCall
  /\ cur = 0
  /\ lv = 0
  /\ back = NoBack
  /\ node = 0
  /\ reply = NoReply

initSkipList ==
  /\ pc = "idle"
  /\ level' = 0
  /\ valid' = [n \in Index |-> IF n = 0 THEN 1 ELSE 0]
  /\ value' = [n \in Index |-> -1]
  /\ pid' = [n \in Index |-> -1]
  /\ forward' = [n \in Index |-> [l \in Levels |-> Nil]]
  /\ backward' = [n \in Index |-> [l \in Levels |-> Nil]]
  /\ maxlevel' = [maxlevel EXCEPT ![0] = MAX_SKIPLIST_LEVEL]
  /\ reply' = NoReply
  /\ UNCHANGED <<pc, locals>>

-----------------------------------------------------------------------------
(* Calls.  Before initSkipList (sl.level = -1) every call returns at once  *)
(* and changes nothing.                                                    *)

Begin(op, v, p) ==
  /\ pc = "idle"
  /\ level # -1
  /\ pc' = "search"
  /\ call' = [op |-> op, value |-> v, pid |-> p]
  /\ cur' = 0
  /\ lv' = level
  /\ reply' = NoReply
  /\ UNCHANGED <<list, back, node>>

\* The locals go out of scope.
Return(result) ==
  /\ pc' = "idle"
  /\ reply' = Reply(result, call.value, call.pid)
  /\ call' = NoCall
  /\ cur' = 0
  /\ lv' = 0
  /\ back' = NoBack
  /\ node' = 0

Enter(v, p) == Begin("enter", v, p)

Leave(v, p) == Begin("leave", v, p)

\* firstNode; an empty level 0 makes the code read the slot before the array,
\* a value the range check of the same condition then discards.
First == forward[0][0]

FirstIsValid == First \in Nodes /\ valid[First] = 1

Take ==
  /\ FirstIsValid
  /\ Begin("take", value[First], pid[First])

TakeNothing ==
  /\ pc = "idle"
  /\ level # -1
  /\ ~FirstIsValid
  /\ reply' = Reply("empty", -1, -1)
  /\ UNCHANGED <<list, pc, locals>>

-----------------------------------------------------------------------------
(* slSearch, and the first part of slInsert, which walks the same way.     *)

HasNext(n, l) == forward[n][l] # Nil /\ valid[forward[n][l]] # 0

\* Mutant: ties are passed.
NextIsBeforeTies(n, l, v) == HasNext(n, l) /\ value[forward[n][l]] <= v

NextIsBefore(n, l, v) == HasNext(n, l) /\ value[forward[n][l]] < v

MoveRight ==
  /\ pc \in {"search", "insert"}
  /\ NextIsBefore(cur, lv, call.value)
  /\ cur' = forward[cur][lv]
  /\ UNCHANGED <<list, pc, call, lv, back, node, reply>>

SearchDown ==
  /\ pc = "search"
  /\ ~NextIsBefore(cur, lv, call.value)
  /\ IF lv > 0 THEN lv' = lv - 1 /\ pc' = pc
               ELSE lv' = lv /\ pc' = "scan"
  /\ UNCHANGED <<list, call, cur, back, node, reply>>

\* The bottom level holds every node of the searched value in a row.
NextIsEqual == HasNext(cur, 0) /\ value[forward[cur][0]] = call.value

NextIsTarget == NextIsEqual /\ pid[forward[cur][0]] = call.pid

\* Mutant: the loop starts again from the head.
ScanRightRestarts ==
  /\ pc = "scan"
  /\ NextIsEqual
  /\ ~NextIsTarget
  /\ cur' = 0
  /\ UNCHANGED <<list, pc, call, lv, back, node, reply>>

ScanRight ==
  /\ pc = "scan"
  /\ NextIsEqual
  /\ ~NextIsTarget
  /\ cur' = forward[cur][0]
  /\ UNCHANGED <<list, pc, call, lv, back, node, reply>>

Found ==
  /\ pc = "scan"
  /\ NextIsTarget
  /\ \/ /\ call.op = "enter"
        /\ Return("present")
     \/ /\ call.op # "enter"
        /\ cur' = forward[cur][0]
        /\ node' = cur'
        /\ lv' = maxlevel[cur']
        /\ pc' = "unlink"
        /\ UNCHANGED <<call, back, reply>>
  /\ UNCHANGED list

NotFound ==
  /\ pc = "scan"
  /\ ~NextIsEqual
  /\ \/ /\ call.op = "enter"
        /\ pc' = "insert"
        /\ cur' = 0
        /\ lv' = level
        /\ UNCHANGED <<call, back, node, reply>>
     \/ /\ call.op # "enter"
        /\ Return("absent")
  /\ UNCHANGED list

-----------------------------------------------------------------------------
(* The rest of slInsert.                                                   *)

InsertDown ==
  /\ pc = "insert"
  /\ ~NextIsBefore(cur, lv, call.value)
  /\ back' = [back EXCEPT ![lv] = cur]
  /\ IF lv > 0 THEN lv' = lv - 1 /\ pc' = pc
               ELSE lv' = lv /\ pc' = "place"
  /\ UNCHANGED <<list, call, cur, node, reply>>

\* slUpLevel draws a level; sl.level is raised even when no node is free.
Raised(newLevel) == IF newLevel > level THEN newLevel ELSE level

\* slFindFreeNode returns the first node that is not valid.
slFindFreeNode(n) == valid[n] # 1 /\ \A m \in Nodes : m < n => valid[m] = 1

PlaceFull ==
  /\ pc = "place"
  /\ \A n \in Nodes : valid[n] = 1
  /\ \E newLevel \in Levels : level' = Raised(newLevel)
  /\ Return("full")
  /\ UNCHANGED <<valid, value, pid, forward, backward, maxlevel>>

\* Levels the list did not have yet start at the head.
Place ==
  /\ pc = "place"
  /\ \E newLevel \in Levels, n \in Nodes :
       /\ slFindFreeNode(n)
       /\ level' = Raised(newLevel)
       /\ back' = [l \in Levels |-> IF l > level /\ l <= newLevel THEN 0 ELSE back[l]]
       /\ node' = n
       /\ value' = [value EXCEPT ![n] = call.value]
       /\ pid' = [pid EXCEPT ![n] = call.pid]
       /\ valid' = [valid EXCEPT ![n] = 1]
       /\ maxlevel' = [maxlevel EXCEPT ![n] = newLevel]
  /\ lv' = 0
  /\ pc' = "link"
  /\ UNCHANGED <<forward, backward, call, cur, reply>>

\* Mutant: the node in front is not pointed back at the new one.
LinkForwardOnly ==
  /\ pc = "link"
  /\ forward' = [forward EXCEPT ![node][lv] = forward[back[lv]][lv], ![back[lv]][lv] = node]
  /\ backward' = [backward EXCEPT ![node][lv] = back[lv]]
  /\ IF lv < maxlevel[node]
     THEN lv' = lv + 1 /\ UNCHANGED <<pc, call, cur, back, node, reply>>
     ELSE Return("inserted")
  /\ UNCHANGED <<valid, value, pid, maxlevel, level>>

Link ==
  /\ pc = "link"
  /\ LET b == back[lv]
         f == forward[b][lv]
     IN IF f # Nil /\ valid[f] = 1
        THEN /\ forward' = [forward EXCEPT ![node][lv] = f, ![b][lv] = node]
             /\ backward' = [backward EXCEPT ![f][lv] = node, ![node][lv] = b]
        ELSE /\ forward' = [forward EXCEPT ![node][lv] = Nil, ![b][lv] = node]
             /\ backward' = [backward EXCEPT ![node][lv] = b]
  /\ IF lv < maxlevel[node]
     THEN lv' = lv + 1 /\ UNCHANGED <<pc, call, cur, back, node, reply>>
     ELSE Return("inserted")
  /\ UNCHANGED <<valid, value, pid, maxlevel, level>>

-----------------------------------------------------------------------------
(* The rest of slDelete.  The node keeps its value, pid and maxlevel, which *)
(* the scheduler reads after the call (424, 434).                          *)

Unlink ==
  /\ pc = "unlink"
  /\ LET b == backward[node][lv]
         f == forward[node][lv]
     IN /\ forward' = [forward EXCEPT ![b][lv] = f, ![node][lv] = Nil]
        /\ backward' = IF f # Nil
                       THEN [backward EXCEPT ![f][lv] = b, ![node][lv] = Nil]
                       ELSE [backward EXCEPT ![node][lv] = Nil]
  /\ IF lv > 0
     THEN lv' = lv - 1 /\ UNCHANGED <<valid, pc, call, cur, back, node, reply>>
     ELSE /\ valid' = [valid EXCEPT ![node] = 0]
          /\ Return(IF call.op = "take" THEN "taken" ELSE "removed")
  /\ UNCHANGED <<value, pid, maxlevel, level>>

-----------------------------------------------------------------------------

Call ==
  \/ initSkipList
  \/ \E v \in Values, p \in Pids : Enter(v, p) \/ Leave(v, p)
  \/ Take
  \/ TakeNothing

Step ==
  \/ MoveRight \/ SearchDown \/ ScanRight \/ Found \/ NotFound
  \/ InsertDown \/ PlaceFull \/ Place \/ Link \/ Unlink

Next == Call \/ Step

Spec == Init /\ [][Next]_vars

\* A call runs with ptable.lock held and interrupts off: it is never abandoned.
FairSpec == Spec /\ WF_vars(Step)

-----------------------------------------------------------------------------
(* Properties.                                                             *)

\* Type correctness: links are array indices or -1, levels are in range, and
\* no loop counter of slSearch, slInsert or slDelete leaves the arrays.
TypeOK ==
  /\ valid \in [Index -> {0, 1}]
  /\ value \in [Index -> Int]
  /\ pid \in [Index -> Int]
  /\ forward \in [Index -> [Levels -> Links]]
  /\ backward \in [Index -> [Levels -> Links]]
  /\ maxlevel \in [Index -> 0 .. MAX_SKIPLIST_LEVEL]
  /\ level \in Levels \cup {-1}
  /\ pc \in {"idle", "search", "scan", "insert", "place", "link", "unlink"}
  /\ call \in [op : {"none", "enter", "leave", "take"}, value : Int, pid : Int]
  /\ cur \in Index
  /\ lv \in Levels
  /\ back \in [Levels -> Index]
  /\ node \in Index
  /\ reply \in [result : {"none", "present", "inserted", "full", "removed",
                           "absent", "taken", "empty"},
                value : Int, pid : Int]

\* n is threaded into the list of level l: a valid node is, on each level up to
\* its maxlevel, except for the levels slInsert has yet to link and slDelete has
\* already unlinked.
LinkedAt(n, l) ==
  \/ n = 0
  \/ /\ n \in Nodes
     /\ valid[n] = 1
     /\ l <= maxlevel[n]
     /\ (pc = "link" /\ n = node) => l < lv
     /\ (pc = "unlink" /\ n = node) => l <= lv

\* On every level the forward and backward links of threaded nodes are inverse
\* to each other, at every step of an insertion or a deletion; slDelete relies
\* on backward[] to find the node before the one it unlinks.
LinksMirrored ==
  level # -1 =>
    \A n \in Index, l \in Levels : LinkedAt(n, l) =>
      /\ forward[n][l] # Nil =>
           /\ forward[n][l] \in Nodes
           /\ LinkedAt(forward[n][l], l)
           /\ backward[forward[n][l]][l] = n
      /\ n # 0 =>
           /\ backward[n][l] \in Index
           /\ LinkedAt(backward[n][l], l)
           /\ forward[backward[n][l]][l] = n

\* Deadlines never decrease along any level, at every step of a call: what the
\* scheduler takes for the first node is the earliest deadline on level 0.
LevelsSorted ==
  level # -1 =>
    \A n \in Nodes, l \in Levels :
      LinkedAt(n, l) /\ forward[n][l] # Nil => value[n] <= value[forward[n][l]]

\* The k-th node after the head on level l, -1 past the end.
Chain(l) ==
  LET at[k \in 0 .. NPROC + 1] ==
        IF k = 0 THEN 0
        ELSE IF at[k - 1] = Nil THEN Nil ELSE forward[at[k - 1]][l]
  IN at

\* Walking level l from the head meets every node threaded into it exactly once
\* and ends: no entry is lost from the bottom level or from an express level,
\* and no slSearch can run round a cycle.
ChainsComplete ==
  level # -1 =>
    \A l \in Levels :
      /\ Chain(l)[NPROC + 1] = Nil
      /\ {Chain(l)[k] : k \in 1 .. NPROC} \ {Nil} = {n \in Nodes : LinkedAt(n, l)}

\* The entries held, as the caller sees them: an insertion or deletion counts
\* when the call returns.
Held ==
  {[value |-> value[n], pid |-> pid[n]] :
     n \in {m \in Nodes : valid[m] = 1 /\ ~(pc = "link" /\ m = node)}}

RQ == INSTANCE ReadyQueue WITH Capacity <- NPROC, queue <- Held

\* The skip list implements the run queue: its calls keep the same entries and
\* give the same answers as the set of ReadyQueue, so a search never misses an
\* entry, no entry is entered twice, the list is refused as full only when
\* NPROC entries are in it, and the entry taken has the earliest deadline.
ImplementsReadyQueue == RQ!Spec

\* Every call returns: the loops of slSearch, slInsert and slDelete terminate.
CallsReturn == [](pc # "idle" => <>(pc = "idle"))

\* The list is well formed at every step of a call, not only between calls: no index or level
\* leaves the arrays, links are inverse, levels sorted, and no node is lost or in a cycle.
WellFormed == TypeOK /\ LinksMirrored /\ LevelsSorted /\ ChainsComplete
=============================================================================

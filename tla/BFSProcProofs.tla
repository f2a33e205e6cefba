--------------------------- MODULE BFSProcProofs ---------------------------
(***************************************************************************)
(* nicefork, exit, wait and kill keep the invariant of BFS.  One lemma per *)
(* action: first the facts and equations the action gives, then the        *)
(* conjuncts it cannot disturb, then one step for each of the others.      *)
(***************************************************************************)
EXTENDS BFSLemmas

USE DEF proc, locals, cpu, locks

\* allocproc claims an UNUSED slot and gives it a fresh pid.
LEMMA AllocProcKeeps ==
  ASSUME IInv, NEW c \in CPUs, NEW nice \in NiceArgs, AllocProc(c, nice)
  PROVE  IInv'
<1>0. /\ state \in [Slots -> States]
      /\ pid \in [Slots -> Nat]
      /\ place \in [Slots -> Places]
      /\ child \in [Slots -> Slots \cup {NoSlot}]
      /\ nicearg \in [Slots -> Int]
      /\ nextpid \in Nat
  BY DEF IInv, TypeOK, ProcTypeOK, LocalsTypeOK
<1>1. /\ cproc[c] # NoSlot /\ cproc[c] \in Slots /\ state[cproc[c]] = "RUNNING"
      /\ \A d \in CPUs : cproc[d] = cproc[c] => d = c
      /\ place[cproc[c]] = "user"
      /\ trap[c] = "none" /\ lock # c
  BY OnCPU DEF AllocProc, Syscall, At
<1>2. PICK p \in Slots : /\ state[p] = "UNUSED"
                         /\ state' = [state EXCEPT ![p] = "EMBRYO"]
                         /\ pid' = [pid EXCEPT ![p] = nextpid]
                         /\ child' = [child EXCEPT ![cproc[c]] = p]
  BY Zenon DEF AllocProc
<1>3. /\ nextpid' = nextpid + 1
      /\ place' = [place EXCEPT ![cproc[c]] = "claimed"]
      /\ nicearg' = [nicearg EXCEPT ![cproc[c]] = nice]
  BY Zenon DEF AllocProc
<1>4. UNCHANGED <<parent, chan, killed, niceness, vdeadline, ticks_left, until, ticks,
                 cproc, started, trap, lock, tickslock, queue, panicked>>
  BY Zenon DEF AllocProc
<1>5. CPUTypeOK' /\ LockHandedOver' /\ QuantumInRange'
  BY <1>4, Unchanged, Zenon
<1>6. ProcTypeOK'
  BY <1>1, <1>2, <1>3, <1>4, <1>0 DEF IInv, TypeOK, ProcTypeOK, States
<1>7. LocalsTypeOK'
  BY <1>1, <1>2, <1>3, <1>4, BFSAssumption DEF IInv, TypeOK, LocalsTypeOK, Places
<1>8. RunsOnOneCPU'
  BY <1>0, <1>2, <1>4 DEF IInv, RunsOnOneCPU
<1>9. PidsDistinct'
  BY <1>0, <1>2, <1>3, <1>4 DEF IInv, PidsDistinct
<1>10. QueueIsFresh'
  BY <1>0, <1>2, <1>4 DEF IInv, QueueIsFresh, Entry
<1>11. ForkOwnsChild'
  BY <1>0, <1>1, <1>2, <1>3, <1>4 DEF IInv, ForkOwnsChild, Forking
<1>12. FamilyTree'
  BY <1>0, <1>2, <1>4, Constants DEF IInv, FamilyTree, ParentAlive, Alive
<1>13. NoStuckWaiter'
  BY <1>0, <1>2, <1>4 DEF IInv, NoStuckWaiter, IsZombieChild
<1>14. TicksLockHeld'
  BY <1>0, <1>1, <1>3, <1>4, TicksFrame, Constants
<1>15. NoMissedTick'
  BY <1>0, <1>2, <1>4 DEF IInv, NoMissedTick
<1> QED
  BY <1>5, <1>6, <1>7, <1>8, <1>9, <1>10, <1>11, <1>12, <1>13, <1>14, <1>15, Zenon
  DEF IInv, TypeOK

\* A failed fork gives its own slot back.
LEMMA ForkFailsKeeps ==
  ASSUME IInv, NEW c \in CPUs, ForkFails(c)
  PROVE  IInv'
<1>0. /\ state \in [Slots -> States]
      /\ place \in [Slots -> Places]
      /\ child \in [Slots -> Slots \cup {NoSlot}]
      /\ nicearg \in [Slots -> Int]
  BY DEF IInv, TypeOK, ProcTypeOK, LocalsTypeOK
<1>1. /\ cproc[c] # NoSlot /\ cproc[c] \in Slots /\ state[cproc[c]] = "RUNNING"
      /\ \A d \in CPUs : cproc[d] = cproc[c] => d = c
      /\ place[cproc[c]] \in {"claimed", "copying"}
      /\ trap[c] = "none" /\ lock # c
  BY OnCPU DEF ForkFails, At
<1>2. /\ child[cproc[c]] \in Slots /\ state[child[cproc[c]]] = "EMBRYO"
      /\ child[cproc[c]] # cproc[c]
      /\ \A q \in Slots : place[q] \in Forking /\ q # cproc[c] =>
           child[q] # child[cproc[c]]
  BY <1>1, ForkChild DEF Forking
<1>3. /\ state' = [state EXCEPT ![child[cproc[c]]] = "UNUSED"]
      /\ place' = [place EXCEPT ![cproc[c]] = "user"]
      /\ child' = [child EXCEPT ![cproc[c]] = NoSlot]
      /\ nicearg' = [nicearg EXCEPT ![cproc[c]] = 0]
  BY Zenon DEF ForkFails
<1>4. UNCHANGED <<pid, parent, chan, killed, niceness, vdeadline, ticks_left, until,
                 nextpid, ticks, cproc, started, trap, lock, tickslock, queue,
                 panicked>>
  BY Zenon DEF ForkFails
<1>5. CPUTypeOK' /\ LockHandedOver' /\ QuantumInRange'
  BY <1>4, Unchanged, Zenon
<1>6. ProcTypeOK'
  BY <1>1, <1>2, <1>3, <1>4 DEF IInv, TypeOK, ProcTypeOK, States
<1>7. LocalsTypeOK'
  BY <1>1, <1>2, <1>3, <1>4 DEF IInv, TypeOK, LocalsTypeOK, Places
<1>8. RunsOnOneCPU'
  BY <1>0, <1>2, <1>3, <1>4 DEF IInv, RunsOnOneCPU
<1>9. PidsDistinct'
  BY <1>0, <1>2, <1>3, <1>4 DEF IInv, PidsDistinct
<1>10. QueueIsFresh'
  BY <1>0, <1>2, <1>3, <1>4 DEF IInv, QueueIsFresh, Entry
<1>11. ForkOwnsChild'
  BY <1>0, <1>1, <1>2, <1>3, <1>4 DEF IInv, ForkOwnsChild, Forking
<1>12. FamilyTree'
  BY <1>0, <1>2, <1>3, <1>4, Constants DEF IInv, FamilyTree, ParentAlive, Alive
<1>13. NoStuckWaiter'
  BY <1>0, <1>2, <1>3, <1>4 DEF IInv, NoStuckWaiter, IsZombieChild
<1>14. TicksLockHeld'
  BY <1>0, <1>1, <1>3, <1>4, TicksFrame, Constants
<1>15. NoMissedTick'
  BY <1>0, <1>2, <1>3, <1>4 DEF IInv, NoMissedTick
<1> QED
  BY <1>5, <1>6, <1>7, <1>8, <1>9, <1>10, <1>11, <1>12, <1>13, <1>14, <1>15, Zenon
  DEF IInv, TypeOK

\* allocproc finishes the slot it claimed.
LEMMA AllocDoneKeeps ==
  ASSUME IInv, NEW c \in CPUs, AllocDone(c)
  PROVE  IInv'
<1>0. /\ niceness \in [Slots -> Int]
      /\ vdeadline \in [Slots -> Int]
      /\ place \in [Slots -> Places]
  BY DEF IInv, TypeOK, ProcTypeOK, LocalsTypeOK
<1>1. /\ cproc[c] # NoSlot /\ cproc[c] \in Slots /\ state[cproc[c]] = "RUNNING"
      /\ \A d \in CPUs : cproc[d] = cproc[c] => d = c
      /\ place[cproc[c]] = "claimed"
      /\ trap[c] = "none" /\ lock # c
  BY OnCPU DEF AllocDone, At
<1>2. /\ child[cproc[c]] \in Slots /\ state[child[cproc[c]]] = "EMBRYO"
      /\ child[cproc[c]] # cproc[c]
      /\ \A q \in Slots : place[q] \in Forking /\ q # cproc[c] =>
           child[q] # child[cproc[c]]
  BY <1>1, ForkChild DEF Forking
<1>3. /\ niceness' = [niceness EXCEPT ![child[cproc[c]]] = 0]
      /\ vdeadline' = [vdeadline EXCEPT ![child[cproc[c]]] = Deadline(0)]
      /\ place' = [place EXCEPT ![cproc[c]] = "copying", ![child[cproc[c]]] = "user"]
  BY Zenon DEF AllocDone
<1>4. Deadline(0) \in Int
  BY DeadlineType
<1>5. UNCHANGED <<state, pid, parent, chan, killed, ticks_left, child, until, nicearg,
                 nextpid, ticks, cproc, started, trap, lock, tickslock, queue,
                 panicked>>
  BY Zenon DEF AllocDone
<1>6. CPUTypeOK' /\ RunsOnOneCPU' /\ PidsDistinct' /\ FamilyTree' /\ LockHandedOver'
      /\ NoStuckWaiter' /\ NoMissedTick' /\ QuantumInRange'
  BY <1>5, Unchanged, Zenon
<1>7. ProcTypeOK'
  BY <1>2, <1>3, <1>4, <1>5 DEF IInv, TypeOK, ProcTypeOK, States
<1>8. LocalsTypeOK'
  BY <1>1, <1>2, <1>3, <1>5 DEF IInv, TypeOK, LocalsTypeOK, Places
<1>9. QueueIsFresh'
  BY <1>0, <1>2, <1>3, <1>5 DEF IInv, QueueIsFresh, Entry
<1>10. ForkOwnsChild'
  BY <1>0, <1>1, <1>2, <1>3, <1>5 DEF IInv, ForkOwnsChild, Forking
<1>11. TicksLockHeld'
  BY <1>0, <1>1, <1>2, <1>3, <1>5, TicksFrame, Constants
<1> QED
  BY <1>6, <1>7, <1>8, <1>9, <1>10, <1>11, Zenon DEF IInv, TypeOK

\* nicefork fills in the child, which is not its own parent.
LEMMA ForkFillKeeps ==
  ASSUME IInv, NEW c \in CPUs, ForkFill(c)
  PROVE  IInv'
<1>0. /\ parent \in [Slots -> Slots \cup {NoSlot}]
      /\ niceness \in [Slots -> Int]
      /\ vdeadline \in [Slots -> Int]
      /\ place \in [Slots -> Places]
  BY DEF IInv, TypeOK, ProcTypeOK, LocalsTypeOK
<1>1. /\ cproc[c] # NoSlot /\ cproc[c] \in Slots /\ state[cproc[c]] = "RUNNING"
      /\ \A d \in CPUs : cproc[d] = cproc[c] => d = c
      /\ place[cproc[c]] = "copying"
      /\ trap[c] = "none" /\ lock # c
  BY OnCPU DEF ForkFill, At
<1>2. /\ child[cproc[c]] \in Slots /\ state[child[cproc[c]]] = "EMBRYO"
      /\ child[cproc[c]] # cproc[c]
      /\ \A q \in Slots : place[q] \in Forking /\ q # cproc[c] =>
           child[q] # child[cproc[c]]
  BY <1>1, ForkChild DEF Forking
<1>3. /\ parent' = [parent EXCEPT ![child[cproc[c]]] = cproc[c]]
      /\ niceness' = [niceness EXCEPT ![child[cproc[c]]] = nicearg[cproc[c]]]
      /\ vdeadline' = [vdeadline EXCEPT ![child[cproc[c]]] = Deadline(nicearg[cproc[c]])]
      /\ place' = [place EXCEPT ![cproc[c]] = "launch"]
  BY Zenon DEF ForkFill
<1>4. nicearg[cproc[c]] \in Int /\ Deadline(nicearg[cproc[c]]) \in Int
  BY <1>1, Types, DeadlineType
<1>5. UNCHANGED <<state, pid, chan, killed, ticks_left, child, until, nicearg,
                 nextpid, ticks, cproc, started, trap, lock, tickslock, queue,
                 panicked>>
  BY Zenon DEF ForkFill
<1>6. CPUTypeOK' /\ RunsOnOneCPU' /\ PidsDistinct' /\ LockHandedOver'
      /\ NoMissedTick' /\ QuantumInRange'
  BY <1>5, Unchanged, Zenon
<1>7. ProcTypeOK'
  BY <1>1, <1>2, <1>3, <1>4, <1>5 DEF IInv, TypeOK, ProcTypeOK, States
<1>8. LocalsTypeOK'
  BY <1>1, <1>3, <1>5 DEF IInv, TypeOK, LocalsTypeOK, Places
<1>9. QueueIsFresh'
  BY <1>0, <1>2, <1>3, <1>5 DEF IInv, QueueIsFresh, Entry
<1>10. ForkOwnsChild'
  <2>1. /\ place'[cproc[c]] = "launch" /\ parent'[child[cproc[c]]] = cproc[c]
        /\ \A q \in Slots : q # cproc[c] => place'[q] = place[q]
        /\ \A q \in Slots : q # child[cproc[c]] => parent'[q] = parent[q]
    BY <1>1, <1>2, <1>3, <1>0
  <2>2. ASSUME NEW q \in Slots, place'[q] \in Forking, q # cproc[c]
        PROVE  parent'[child[q]] = parent[child[q]]
    BY <1>2, <2>1, <2>2 DEF IInv, ForkOwnsChild
  <2> QED
    BY <1>1, <1>2, <2>1, <2>2, <1>5 DEF IInv, ForkOwnsChild, Forking
<1>11. FamilyTree'
  BY <1>0, <1>1, <1>2, <1>3, <1>5, Constants DEF IInv, FamilyTree, ParentAlive, Alive
<1>12. NoStuckWaiter'
  BY <1>0, <1>2, <1>3, <1>5 DEF IInv, NoStuckWaiter, IsZombieChild
<1>13. TicksLockHeld'
  BY <1>0, <1>1, <1>3, <1>5, TicksFrame, Constants
<1> QED
  BY <1>6, <1>7, <1>8, <1>9, <1>10, <1>11, <1>12, <1>13, Zenon DEF IInv, TypeOK

\* nicefork launches the child, whose parent is running.
LEMMA ForkDoneKeeps ==
  ASSUME IInv, NEW c \in CPUs, ForkDone(c)
  PROVE  IInv'
<1>0. /\ state \in [Slots -> States]
      /\ place \in [Slots -> Places]
      /\ child \in [Slots -> Slots \cup {NoSlot}]
      /\ nicearg \in [Slots -> Int]
  BY DEF IInv, TypeOK, ProcTypeOK, LocalsTypeOK
<1>1. /\ cproc[c] # NoSlot /\ cproc[c] \in Slots /\ state[cproc[c]] = "RUNNING"
      /\ \A d \in CPUs : cproc[d] = cproc[c] => d = c
      /\ place[cproc[c]] = "launch"
      /\ trap[c] = "none" /\ lock # c
  BY OnCPU DEF ForkDone, At
<1>2. /\ child[cproc[c]] \in Slots /\ state[child[cproc[c]]] = "EMBRYO"
      /\ child[cproc[c]] # cproc[c]
      /\ \A q \in Slots : place[q] \in Forking /\ q # cproc[c] =>
           child[q] # child[cproc[c]]
      /\ parent[child[cproc[c]]] = cproc[c]
  BY <1>1, ForkChild DEF Forking
<1>3. /\ state' = [state EXCEPT ![child[cproc[c]]] = "RUNNABLE"]
      /\ place' = [place EXCEPT ![cproc[c]] = "user"]
      /\ child' = [child EXCEPT ![cproc[c]] = NoSlot]
      /\ nicearg' = [nicearg EXCEPT ![cproc[c]] = 0]
  BY Zenon DEF ForkDone
<1>4. UNCHANGED <<pid, parent, chan, killed, niceness, vdeadline, ticks_left, until,
                 nextpid, ticks, cproc, started, trap, lock, tickslock, queue,
                 panicked>>
  BY Zenon DEF ForkDone
<1>5. CPUTypeOK' /\ LockHandedOver' /\ QuantumInRange'
  BY <1>4, Unchanged, Zenon
<1>6. ProcTypeOK'
  BY <1>1, <1>2, <1>3, <1>4 DEF IInv, TypeOK, ProcTypeOK, States
<1>7. LocalsTypeOK'
  BY <1>1, <1>2, <1>3, <1>4 DEF IInv, TypeOK, LocalsTypeOK, Places
<1>8. RunsOnOneCPU'
  BY <1>0, <1>2, <1>3, <1>4 DEF IInv, RunsOnOneCPU
<1>9. PidsDistinct'
  BY <1>0, <1>2, <1>3, <1>4 DEF IInv, PidsDistinct
<1>10. QueueIsFresh'
  BY <1>0, <1>2, <1>3, <1>4 DEF IInv, QueueIsFresh, Entry
<1>11. ForkOwnsChild'
  BY <1>0, <1>1, <1>2, <1>3, <1>4 DEF IInv, ForkOwnsChild, Forking
<1>12. FamilyTree'
  BY <1>0, <1>1, <1>2, <1>3, <1>4, Constants DEF IInv, FamilyTree, ParentAlive, Alive
<1>13. NoStuckWaiter'
  BY <1>0, <1>2, <1>3, <1>4 DEF IInv, NoStuckWaiter, IsZombieChild
<1>14. TicksLockHeld'
  BY <1>0, <1>1, <1>3, <1>4, TicksFrame, Constants
<1>15. NoMissedTick'
  BY <1>0, <1>2, <1>3, <1>4 DEF IInv, NoMissedTick
<1> QED
  BY <1>5, <1>6, <1>7, <1>8, <1>9, <1>10, <1>11, <1>12, <1>13, <1>14, <1>15, Zenon
  DEF IInv, TypeOK

\* A process on its way into exit is in user mode, not in a fork or a sleep.
LEMMA EnterExitKeeps ==
  ASSUME IInv, NEW c \in CPUs, EnterExit(c)
  PROVE  IInv'
<1>0. place \in [Slots -> Places]
  BY DEF IInv, TypeOK, LocalsTypeOK
<1>1. /\ cproc[c] # NoSlot /\ cproc[c] \in Slots /\ state[cproc[c]] = "RUNNING"
      /\ \A d \in CPUs : cproc[d] = cproc[c] => d = c
      /\ place[cproc[c]] = "user"
      /\ trap[c] = "none" /\ lock # c
  BY OnCPU DEF EnterExit, At
<1>2. place' = [place EXCEPT ![cproc[c]] = "exit"]
  BY Zenon DEF EnterExit
<1>3. UNCHANGED <<state, pid, parent, chan, killed, niceness, vdeadline, ticks_left,
                 child, until, nicearg, nextpid, ticks, cproc, started, trap, lock,
                 tickslock, queue, panicked>>
  BY Zenon DEF EnterExit
<1>4. ProcTypeOK' /\ CPUTypeOK' /\ RunsOnOneCPU' /\ PidsDistinct' /\ QueueIsFresh'
      /\ FamilyTree' /\ LockHandedOver' /\ NoStuckWaiter' /\ NoMissedTick'
      /\ QuantumInRange'
  BY <1>3, Unchanged, Zenon
<1>5. LocalsTypeOK'
  BY <1>1, <1>2, <1>3 DEF IInv, TypeOK, LocalsTypeOK, Places
<1>6. ForkOwnsChild'
  BY <1>0, <1>1, <1>2, <1>3, ForkFrame DEF IInv, ForkOwnsChild, Forking
<1>7. TicksLockHeld'
  BY <1>0, <1>1, <1>2, <1>3, TicksFrame, Constants
<1> QED
  BY <1>4, <1>5, <1>6, <1>7, Zenon DEF IInv, TypeOK

\* A faulting process is running, so the flag it sets belongs to no sleeper.
LEMMA FaultKeeps ==
  ASSUME IInv, NEW c \in CPUs, Fault(c)
  PROVE  IInv'
<1>0. /\ killed \in [Slots -> {0, 1}]
      /\ place \in [Slots -> Places]
  BY DEF IInv, TypeOK, ProcTypeOK, LocalsTypeOK
<1>1. /\ cproc[c] # NoSlot /\ cproc[c] \in Slots /\ state[cproc[c]] = "RUNNING"
      /\ \A d \in CPUs : cproc[d] = cproc[c] => d = c
      /\ place[cproc[c]] = "user"
      /\ trap[c] = "none" /\ lock # c
  BY OnCPU DEF Fault, At
<1>2. /\ killed' = [killed EXCEPT ![cproc[c]] = 1]
      /\ place' = [place EXCEPT ![cproc[c]] = "exit"]
  BY Zenon DEF Fault
<1>3. UNCHANGED <<state, pid, parent, chan, niceness, vdeadline, ticks_left, child,
                 until, nicearg, nextpid, ticks, cproc, started, trap, lock,
                 tickslock, queue, panicked>>
  BY Zenon DEF Fault
<1>4. CPUTypeOK' /\ RunsOnOneCPU' /\ PidsDistinct' /\ QueueIsFresh' /\ FamilyTree'
      /\ LockHandedOver' /\ NoMissedTick' /\ QuantumInRange'
  BY <1>3, Unchanged, Zenon
<1>5. ProcTypeOK'
  BY <1>1, <1>2, <1>3 DEF IInv, TypeOK, ProcTypeOK, States
<1>6. LocalsTypeOK'
  BY <1>1, <1>2, <1>3 DEF IInv, TypeOK, LocalsTypeOK, Places
<1>7. ForkOwnsChild'
  BY <1>0, <1>1, <1>2, <1>3, ForkFrame DEF IInv, ForkOwnsChild, Forking
<1>8. NoStuckWaiter'
  BY <1>0, <1>1, <1>2, <1>3 DEF IInv, NoStuckWaiter, IsZombieChild
<1>9. TicksLockHeld'
  BY <1>0, <1>1, <1>2, <1>3, TicksFrame, Constants
<1> QED
  BY <1>4, <1>5, <1>6, <1>7, <1>8, <1>9, Zenon DEF IInv, TypeOK

\* exit hands the children to init, wakes whoever waits for one of the zombies, and makes
\* the process itself a zombie.
LEMMA ExitKeeps ==
  ASSUME IInv, NEW c \in CPUs, Exit(c)
  PROVE  IInv'
<1>0. /\ state \in [Slots -> States]
      /\ parent \in [Slots -> Slots \cup {NoSlot}]
      /\ cproc \in [CPUs -> Slots \cup {NoSlot}]
  BY DEF IInv, TypeOK, ProcTypeOK, CPUTypeOK
<1>1. /\ cproc[c] # NoSlot /\ cproc[c] \in Slots /\ state[cproc[c]] = "RUNNING"
      /\ \A d \in CPUs : cproc[d] = cproc[c] => d = c
      /\ place[cproc[c]] = "exit" /\ cproc[c] # initproc
      /\ trap[c] = "none" /\ lock # c
  BY OnCPU DEF Exit, At
<1>2. /\ state'[cproc[c]] = "ZOMBIE"
      /\ \A q \in Slots : parent'[q] = IF parent[q] = cproc[c] THEN initproc ELSE parent[q]
      /\ \A q \in Slots \ {cproc[c]} :
           \/ state'[q] = state[q]
           \/ state[q] = "SLEEPING" /\ state'[q] = "RUNNABLE"
  BY ExitEffect
<1>3. \A q \in Slots : state'[q] = "SLEEPING" =>
        /\ chan[q] # parent[cproc[c]]
        /\ chan[q] = initproc => \A z \in Slots : parent[z] = cproc[c] => state[z] # "ZOMBIE"
  BY ExitEffect
<1>4. cproc' = [cproc EXCEPT ![c] = NoSlot] /\ lock' = NoCPU
  BY Zenon DEF Exit, sched
<1>5. state' \in [Slots -> States] /\ parent' \in [Slots -> Slots \cup {NoSlot}]
  BY <1>1, <1>0, Constants DEF Exit, Reparent, ExitWakes, wakeup1, States
<1>6. UNCHANGED <<pid, chan, killed, niceness, vdeadline, ticks_left, place, child,
                 until, nicearg, nextpid, ticks, started, trap, tickslock, queue,
                 panicked>>
  BY Zenon DEF Exit, sched
<1>7. LocalsTypeOK'
  BY <1>6, Unchanged, Zenon
<1>8. RunsOnOneCPU' /\ LockHandedOver' /\ QuantumInRange'
  <2>1. trap' = [trap EXCEPT ![c] = "none"]
    BY <1>1, <1>6, Types
  <2>2. \A q \in Slots \ {cproc[c]} : state'[q] = "RUNNING" <=> state[q] = "RUNNING"
    BY <1>2
  <2>3. state'[cproc[c]] # "RUNNING"
    BY <1>2
  <2> QED
    BY <1>1, <1>4, <2>1, <2>2, <2>3, <1>6, OffCPU, Zenon
<1>9. ProcTypeOK'
  BY <1>5, <1>6 DEF IInv, TypeOK, ProcTypeOK, States
<1>10. CPUTypeOK'
  BY <1>4, <1>6 DEF IInv, TypeOK, CPUTypeOK
<1>11. PidsDistinct'
  BY <1>0, <1>1, <1>2, <1>6 DEF IInv, PidsDistinct
<1>12. QueueIsFresh'
  BY <1>0, <1>1, <1>2, <1>6 DEF IInv, QueueIsFresh, Entry
<1>13. ForkOwnsChild'
  BY <1>1, <1>2, <1>6, ForkFrame DEF IInv, ForkOwnsChild, Forking
<1>14. FamilyTree'
  <2>1. /\ state'[initproc] \in Alive
        /\ parent'[initproc] = NoSlot
        /\ \A q \in Slots : parent'[q] # q
    BY <1>1, <1>2, Constants DEF IInv, FamilyTree, Alive
  <2>2. ASSUME NEW q \in Slots \ {initproc},
               state'[q] \in {"RUNNABLE", "RUNNING", "SLEEPING", "ZOMBIE"}
        PROVE  parent'[q] \in Slots /\ state'[parent'[q]] \in {"RUNNABLE", "RUNNING", "SLEEPING"}
    <3>1. /\ parent[q] \in Slots
          /\ state[parent[q]] \in {"RUNNABLE", "RUNNING", "SLEEPING"}
      BY <1>1, <1>2, <2>2 DEF IInv, FamilyTree, ParentAlive
    <3> QED
      BY <1>2, <2>1, <3>1, Constants, Zenon DEF Alive
  <2> QED
    BY <2>1, <2>2 DEF FamilyTree, ParentAlive
<1>15. NoStuckWaiter'
  <2> SUFFICES ASSUME NEW p \in Slots, state'[p] = "SLEEPING", chan'[p] = p
               PROVE  /\ killed'[p] = 0
                      /\ \A q \in Slots : ~(parent'[q] = p /\ state'[q] = "ZOMBIE")
    BY DEF NoStuckWaiter, IsZombieChild
  <2>1. p # cproc[c] /\ state[p] = "SLEEPING" /\ chan[p] = p
    BY <1>1, <1>2, <1>6
  <2>2. killed'[p] = 0
    BY <2>1, <1>6 DEF IInv, NoStuckWaiter
  <2>3. ASSUME NEW q \in Slots, parent'[q] = p, state'[q] = "ZOMBIE" PROVE FALSE
    <3>1. CASE q = cproc[c]
      <4>1. parent[q] # q
        BY DEF IInv, FamilyTree
      <4> QED
        BY <1>2, <1>3, <2>1, <2>3, <3>1, <4>1
    <3>2. CASE q # cproc[c]
      <4>1. state[q] = "ZOMBIE"
        BY <1>2, <2>3, <3>2
      <4> QED
        BY <1>2, <1>3, <2>1, <2>3, <4>1 DEF IInv, NoStuckWaiter, IsZombieChild
    <3> QED
      BY <3>1, <3>2
  <2> QED
    BY <2>2, <2>3
<1>16. TicksLockHeld'
  BY <1>0, <1>1, <1>4, <1>6, TicksFrame, Constants
<1>17. NoMissedTick'
  BY <1>0, <1>1, <1>2, <1>6 DEF IInv, NoMissedTick
<1> QED
  BY <1>7, <1>8, <1>9, <1>10, <1>11, <1>12, <1>13, <1>14, <1>15, <1>16, <1>17, Zenon
  DEF IInv, TypeOK

\* panic stops everything.
LEMMA InitExitsKeeps ==
  ASSUME IInv, NEW c \in CPUs, InitExits(c)
  PROVE  IInv'
<1>1. panicked' = TRUE
  BY Zenon DEF InitExits
<1>2. UNCHANGED <<state, pid, parent, chan, killed, niceness, vdeadline, ticks_left,
                 place, child, until, nicearg, nextpid, ticks, cproc, started, trap,
                 lock, tickslock, queue>>
  BY Zenon DEF InitExits
<1>3. ProcTypeOK' /\ LocalsTypeOK' /\ RunsOnOneCPU' /\ PidsDistinct' /\ QueueIsFresh'
      /\ ForkOwnsChild' /\ FamilyTree' /\ LockHandedOver' /\ NoStuckWaiter'
      /\ TicksLockHeld' /\ NoMissedTick' /\ QuantumInRange'
  BY <1>2, Unchanged, Zenon
<1>4. CPUTypeOK'
  BY <1>1, <1>2 DEF IInv, TypeOK, CPUTypeOK
<1> QED
  BY <1>3, <1>4, Zenon DEF IInv, TypeOK

\* wait frees a zombie child: no live process has it as its parent.
LEMMA ReapKeeps ==
  ASSUME IInv, NEW c \in CPUs, cproc[c] # NoSlot, trap[c] = "none",
         place[cproc[c]] \in {"user", "wait"}, lock \in {c, NoCPU}, Reap(cproc[c]),
         UNCHANGED <<niceness, vdeadline, ticks_left, child, until, nicearg, nextpid, ticks,
                     started, trap, tickslock, queue, panicked>>
  PROVE  IInv'
<1>0. /\ state \in [Slots -> States]
      /\ pid \in [Slots -> Nat]
      /\ parent \in [Slots -> Slots \cup {NoSlot}]
      /\ chan \in [Slots -> Chans]
      /\ killed \in [Slots -> {0, 1}]
      /\ place \in [Slots -> Places]
  BY DEF IInv, TypeOK, ProcTypeOK, LocalsTypeOK
<1>1. /\ cproc[c] # NoSlot /\ cproc[c] \in Slots /\ state[cproc[c]] = "RUNNING"
      /\ \A d \in CPUs : cproc[d] = cproc[c] => d = c
  BY OnCPU
<1>2. PICK z \in Slots : /\ parent[z] = cproc[c] /\ state[z] = "ZOMBIE"
                         /\ pid' = [pid EXCEPT ![z] = 0]
                         /\ parent' = [parent EXCEPT ![z] = NoSlot]
                         /\ killed' = [killed EXCEPT ![z] = 0]
                         /\ state' = [state EXCEPT ![z] = "UNUSED"]
  BY Zenon DEF Reap, IsZombieChild
<1>3. /\ place' = [place EXCEPT ![cproc[c]] = "user"]
      /\ chan' = [chan EXCEPT ![cproc[c]] = NoChan] /\ lock' = NoCPU
  BY Zenon DEF Reap
<1>4. UNCHANGED <<niceness, vdeadline, ticks_left, child, until, nicearg, nextpid,
                 ticks, cproc, started, trap, tickslock, queue, panicked>>
  BY Zenon DEF Reap
<1>5. QuantumInRange'
  BY <1>4, Unchanged, Zenon
<1>6. ProcTypeOK'
  BY <1>2, <1>3, <1>4, Constants DEF IInv, TypeOK, ProcTypeOK, States
<1>7. LocalsTypeOK'
  BY <1>3, <1>4, Zenon DEF IInv, TypeOK, LocalsTypeOK, Places
<1>8. CPUTypeOK'
  BY <1>3, <1>4 DEF IInv, TypeOK, CPUTypeOK
<1>9. RunsOnOneCPU'
  BY <1>0, <1>2, <1>4 DEF IInv, RunsOnOneCPU
<1>10. PidsDistinct'
  BY <1>0, <1>2, <1>4 DEF IInv, PidsDistinct
<1>11. QueueIsFresh'
  BY <1>0, <1>2, <1>4 DEF IInv, QueueIsFresh, Entry
<1>12. ForkOwnsChild'
  <2>1. \A q \in Slots : state[q] # "ZOMBIE" => state'[q] = state[q] /\ parent'[q] = parent[q]
    BY <1>0, <1>2
  <2>2. \A q \in Slots : place'[q] \in Forking => place'[q] = place[q]
    BY <1>0, <1>3 DEF Forking
  <2>3. \A q \in Slots : place[q] \in Forking => /\ state[q] \in {"RUNNABLE", "RUNNING"}
                                                 /\ child[q] \in Slots
                                                 /\ state[child[q]] = "EMBRYO"
    BY DEF IInv, ForkOwnsChild
  <2> QED
    BY <2>1, <2>2, <2>3, <1>4, SMTT(30) DEF IInv, ForkOwnsChild
<1>13. FamilyTree'
  BY <1>0, <1>2, <1>4, Constants DEF IInv, FamilyTree, ParentAlive, Alive
<1>14. LockHandedOver'
  BY <1>3, <1>4, Constants DEF IInv, LockHandedOver
<1>15. NoStuckWaiter'
  BY <1>0, <1>1, <1>2, <1>3, <1>4, Constants DEF IInv, NoStuckWaiter, IsZombieChild
<1>16. TicksLockHeld'
  BY <1>0, <1>1, <1>3, <1>4, TicksFrame, Constants
<1>17. NoMissedTick'
  BY <1>0, <1>1, <1>2, <1>3, <1>4, Constants DEF IInv, NoMissedTick
<1> QED
  BY <1>5, <1>6, <1>7, <1>8, <1>9, <1>10, <1>11, <1>12, <1>13, <1>14, <1>15, <1>16,
     <1>17, Zenon DEF IInv, TypeOK

\* wait gives up.
LEMMA WaitGivesUpKeeps ==
  ASSUME IInv, NEW c \in CPUs, cproc[c] # NoSlot, trap[c] = "none",
         place[cproc[c]] \in {"user", "wait"}, lock \in {c, NoCPU}, WaitGivesUp(cproc[c]),
         UNCHANGED <<niceness, vdeadline, ticks_left, child, until, nicearg, nextpid, ticks,
                     started, trap, tickslock, queue, panicked>>
  PROVE  IInv'
<1>0. /\ chan \in [Slots -> Chans]
      /\ place \in [Slots -> Places]
  BY DEF IInv, TypeOK, ProcTypeOK, LocalsTypeOK
<1>1. /\ cproc[c] # NoSlot /\ cproc[c] \in Slots /\ state[cproc[c]] = "RUNNING"
      /\ \A d \in CPUs : cproc[d] = cproc[c] => d = c
  BY OnCPU
<1>2. /\ place' = [place EXCEPT ![cproc[c]] = "user"]
      /\ chan' = [chan EXCEPT ![cproc[c]] = NoChan] /\ lock' = NoCPU
  BY Zenon DEF WaitGivesUp
<1>3. UNCHANGED <<state, pid, parent, killed, niceness, vdeadline, ticks_left, child,
                 until, nicearg, nextpid, ticks, cproc, started, trap, tickslock,
                 queue, panicked>>
  BY Zenon DEF WaitGivesUp
<1>4. RunsOnOneCPU' /\ PidsDistinct' /\ QueueIsFresh' /\ FamilyTree'
      /\ QuantumInRange'
  BY <1>3, Unchanged, Zenon
<1>5. ProcTypeOK'
  BY <1>2, <1>3, Constants DEF IInv, TypeOK, ProcTypeOK, States
<1>6. LocalsTypeOK'
  BY <1>2, <1>3, Zenon DEF IInv, TypeOK, LocalsTypeOK, Places
<1>7. CPUTypeOK'
  BY <1>2, <1>3 DEF IInv, TypeOK, CPUTypeOK
<1>8. ForkOwnsChild'
  BY <1>0, <1>1, <1>2, <1>3, ForkFrame DEF IInv, ForkOwnsChild, Forking
<1>9. LockHandedOver'
  BY <1>2, <1>3, Constants DEF IInv, LockHandedOver
<1>10. NoStuckWaiter'
  BY <1>0, <1>1, <1>2, <1>3 DEF IInv, NoStuckWaiter, IsZombieChild
<1>11. TicksLockHeld'
  BY <1>0, <1>1, <1>2, <1>3, TicksFrame, Constants
<1>12. NoMissedTick'
  BY <1>0, <1>1, <1>2, <1>3, Constants DEF IInv, NoMissedTick
<1> QED
  BY <1>4, <1>5, <1>6, <1>7, <1>8, <1>9, <1>10, <1>11, <1>12, Zenon DEF IInv, TypeOK

\* wait goes to sleep with no zombie child, not killed, and with the lock held since it
\* looked.
LEMMA WaitSleepsKeeps ==
  ASSUME IInv, NEW c \in CPUs, cproc[c] # NoSlot, trap[c] = "none",
         place[cproc[c]] \in {"user", "wait"}, lock \in {c, NoCPU}, WaitSleeps(c, cproc[c]),
         UNCHANGED <<niceness, vdeadline, ticks_left, child, until, nicearg, nextpid, ticks,
                     started, trap, tickslock, queue, panicked>>
  PROVE  IInv'
<1>0. /\ state \in [Slots -> States]
      /\ chan \in [Slots -> Chans]
      /\ place \in [Slots -> Places]
      /\ cproc \in [CPUs -> Slots \cup {NoSlot}]
  BY DEF IInv, TypeOK, ProcTypeOK, LocalsTypeOK, CPUTypeOK
<1>1. /\ cproc[c] # NoSlot /\ cproc[c] \in Slots /\ state[cproc[c]] = "RUNNING"
      /\ \A d \in CPUs : cproc[d] = cproc[c] => d = c
  BY OnCPU
<1>2. killed[cproc[c]] = 0 /\ \A q \in Slots : ~IsZombieChild(q, cproc[c])
  BY Zenon DEF WaitSleeps
<1>3. /\ chan' = [chan EXCEPT ![cproc[c]] = cproc[c]]
      /\ state' = [state EXCEPT ![cproc[c]] = "SLEEPING"]
      /\ place' = [place EXCEPT ![cproc[c]] = "wait"]
      /\ cproc' = [cproc EXCEPT ![c] = NoSlot] /\ lock' = NoCPU
  BY Zenon DEF WaitSleeps, sched
<1>4. UNCHANGED <<pid, parent, killed, niceness, vdeadline, ticks_left, child, until,
                 nicearg, nextpid, ticks, started, trap, tickslock, queue, panicked>>
  BY Zenon DEF WaitSleeps, sched
<1>5. RunsOnOneCPU' /\ LockHandedOver' /\ QuantumInRange'
  BY <1>1, <1>3, <1>4, <1>0, Types, OffCPU, Zenon
<1>6. PidsDistinct' /\ QueueIsFresh' /\ ForkOwnsChild' /\ FamilyTree'
  BY <1>1, <1>3, <1>4, Asleep, Zenon DEF Places, Forking
<1>7. ProcTypeOK'
  BY <1>1, <1>3, <1>4, Constants, Zenon DEF IInv, TypeOK, ProcTypeOK, States
<1>8. LocalsTypeOK'
  BY <1>3, <1>4, Zenon DEF IInv, TypeOK, LocalsTypeOK, Places
<1>9. CPUTypeOK'
  BY <1>3, <1>4 DEF IInv, TypeOK, CPUTypeOK
<1>10. NoStuckWaiter'
  BY <1>0, <1>1, <1>2, <1>3, <1>4 DEF IInv, NoStuckWaiter, IsZombieChild
<1>11. TicksLockHeld'
  BY <1>0, <1>1, <1>3, <1>4, TicksFrame, Constants
<1>12. NoMissedTick'
  BY <1>0, <1>1, <1>3, <1>4, Constants DEF IInv, NoMissedTick
<1> QED
  BY <1>5, <1>6, <1>7, <1>8, <1>9, <1>10, <1>11, <1>12, Zenon DEF IInv, TypeOK

\* The first round of wait.
LEMMA WaitKeeps ==
  ASSUME IInv, NEW c \in CPUs, Wait(c)
  PROVE  IInv'
<1>1. /\ cproc[c] # NoSlot /\ trap[c] = "none" /\ place[cproc[c]] \in {"user", "wait"}
      /\ lock \in {c, NoCPU}
  BY DEF Wait, Syscall, At
<1>2. UNCHANGED <<niceness, vdeadline, ticks_left, child, until, nicearg, nextpid, ticks,
                  started, trap, tickslock, queue, panicked>>
  BY Zenon DEF Wait
<1>3. Reap(cproc[c]) \/ WaitGivesUp(cproc[c]) \/ WaitSleeps(c, cproc[c])
  BY Zenon DEF Wait, WaitRound
<1> QED
  BY <1>1, <1>2, <1>3, ReapKeeps, WaitGivesUpKeeps, WaitSleepsKeeps, Zenon

\* kill wakes the process it marks, if it sleeps.
LEMMA KillKeeps ==
  ASSUME IInv, NEW c \in CPUs, NEW target \in 0 .. MaxPid, Kill(c, target)
  PROVE  IInv'
<1>0. /\ state \in [Slots -> States]
      /\ killed \in [Slots -> {0, 1}]
  BY DEF IInv, TypeOK, ProcTypeOK
<1>1. PICK p \in Slots :
        /\ killed' = [killed EXCEPT ![p] = 1]
        /\ state' = IF state[p] = "SLEEPING" THEN [state EXCEPT ![p] = "RUNNABLE"] ELSE state
  BY Zenon DEF Kill
<1>2. \A q \in Slots : \/ state'[q] = state[q] /\ (q = p => state[q] # "SLEEPING")
                       \/ q = p /\ state[q] = "SLEEPING" /\ state'[q] = "RUNNABLE"
  BY <1>1, <1>0
<1>3. UNCHANGED <<pid, parent, chan, niceness, vdeadline, ticks_left, place, child,
                 until, nicearg, nextpid, ticks, cproc, started, trap, lock,
                 tickslock, queue, panicked>>
  BY Zenon DEF Kill
<1>4. LocalsTypeOK' /\ CPUTypeOK' /\ LockHandedOver' /\ TicksLockHeld'
      /\ QuantumInRange'
  BY <1>3, Unchanged, Zenon
<1>5. RunsOnOneCPU' /\ PidsDistinct' /\ QueueIsFresh' /\ ForkOwnsChild'
      /\ FamilyTree'
  BY <1>2, <1>3, Woken
<1>6. ProcTypeOK'
  BY <1>1, <1>3 DEF IInv, TypeOK, ProcTypeOK, States
<1>7. NoStuckWaiter'
  BY <1>0, <1>1, <1>2, <1>3 DEF IInv, NoStuckWaiter, IsZombieChild
<1>8. NoMissedTick'
  BY <1>0, <1>2, <1>3 DEF IInv, NoMissedTick
<1> QED
  BY <1>4, <1>5, <1>6, <1>7, <1>8, Zenon DEF IInv, TypeOK
=============================================================================

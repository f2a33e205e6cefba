----------------------------- MODULE BFSLemmas -----------------------------
(***************************************************************************)
(* Facts about BFS that the proofs of its invariant share: what slots and  *)
(* channels are, the type of each variable, what the scheduler picks, what *)
(* exit does to each slot, and which steps leave a conjunct alone.         *)
(***************************************************************************)
EXTENDS BFS, TLAPS

USE DEF proc, locals, cpu, locks

\* What slots, channels and CPUs have to do with each other; the proofs do not look
\* inside these sets again.
LEMMA Constants ==
  /\ BootCPU \in CPUs /\ NoCPU \notin CPUs
  /\ NoSlot \notin Slots /\ initproc \in Slots
  /\ Slots \subseteq Int
  /\ Slots \subseteq Chans
  /\ NoChan \in Chans /\ TicksChan \in Chans /\ DeviceChan \in Chans
  /\ NoChan \notin Slots /\ TicksChan \notin Slots /\ DeviceChan \notin Slots
  /\ NoChan # TicksChan /\ NoChan # DeviceChan /\ TicksChan # DeviceChan
  BY BFSAssumption
  DEF Slots, NoSlot, initproc, Chans, NoChan, TicksChan, DeviceChan

\* The types of the variables, for the proofs that need them and not the rest of TypeOK.
LEMMA Types ==
  ASSUME IInv
  PROVE  /\ state \in [Slots -> States]
         /\ pid \in [Slots -> Nat]
         /\ parent \in [Slots -> Slots \cup {NoSlot}]
         /\ niceness \in [Slots -> Int]
         /\ vdeadline \in [Slots -> Int]
         /\ place \in [Slots -> Places]
         /\ nicearg \in [Slots -> Int]
         /\ ticks \in Nat
         /\ cproc \in [CPUs -> Slots \cup {NoSlot}]
         /\ trap \in [CPUs -> {"none", "tick", "account", "yield"}]
  BY DEF IInv, TypeOK, ProcTypeOK, LocalsTypeOK, CPUTypeOK

\* The deadline arithmetic of allocproc, nicefork and yield stays in the integers.
LEMMA DeadlineType ==
  ASSUME IInv, NEW n \in Int
  PROVE  Deadline(n) \in Int
  BY Types, BFSAssumption DEF Deadline

\* The entry at the front of the list belongs to one process, which is RUNNABLE and has
\* the earliest deadline; the search by pid (proc.c 423-425) finds it.
LEMMA SchedulePick ==
  ASSUME IInv, NEW e \in Earliest(Populated)
  PROVE  /\ NextProc(e) \in Slots
         /\ state[NextProc(e)] = "RUNNABLE"
         /\ Entry(NextProc(e)) = e
         /\ \A q \in Slots : state[q] = "RUNNABLE" =>
              vdeadline[NextProc(e)] <= vdeadline[q]
<1> USE DEF IInv, TypeOK, ProcTypeOK, PidsDistinct
<1>1. PICK p \in Slots : state[p] = "RUNNABLE" /\ Entry(p) = e
  BY DEF Earliest, Populated, QueueIsFresh
<1>2. pid[p] = e.pid /\ pid[p] > 0
  BY <1>1, Constants DEF Entry
<1>3. \A q \in Slots : pid[q] = e.pid => q = p
  BY <1>2
<1>4. NextProc(e) = p
  BY <1>2, <1>3 DEF NextProc
<1>5. ASSUME NEW q \in Slots, state[q] = "RUNNABLE"
      PROVE  vdeadline[p] <= vdeadline[q]
  <2>1. Entry(q) \in Populated
    <3>1. ASSUME NEW r \in Slots, Entry(r) = Entry(q), state[r] \notin {"UNUSED", "RUNNABLE"}
          PROVE  FALSE
      <4>1. pid[r] = pid[q]
        BY <3>1 DEF Entry
      <4> QED
        BY <4>1, <3>1, <1>5
    <3> QED
      BY <3>1, <1>5 DEF Populated
  <2>2. e.value <= Entry(q).value
    BY <2>1 DEF Earliest
  <2> QED
    BY <2>2, <1>1 DEF Entry
<1> QED
  BY <1>1, <1>4, <1>5

\* The process of a CPU is a slot, is RUNNING, and is no other CPU's.
LEMMA OnCPU ==
  ASSUME IInv, NEW c \in CPUs, cproc[c] # NoSlot
  PROVE  /\ cproc[c] \in Slots
         /\ state[cproc[c]] = "RUNNING"
         /\ \A d \in CPUs : cproc[d] = cproc[c] => d = c
  BY DEF IInv, TypeOK, CPUTypeOK, RunsOnOneCPU

\* ptable.lock is held, between steps, by a CPU that has just been switched to a process.
LEMMA LockedOnCPU ==
  ASSUME IInv, NEW c \in CPUs, lock = c
  PROVE  cproc[c] # NoSlot /\ trap[c] = "none"
  BY DEF IInv, LockHandedOver

\* What Schedule does, in terms of the process it picks.
LEMMA ScheduleEffect ==
  ASSUME IInv, NEW c \in CPUs, Schedule(c)
  PROVE  /\ cproc[c] = NoSlot /\ trap[c] = "none" /\ lock' = c
         /\ \E p \in Slots :
              /\ state[p] = "RUNNABLE"
              /\ \A q \in Slots : state[q] = "RUNNABLE" => vdeadline[p] <= vdeadline[q]
              /\ queue' = Populated \ {Entry(p)}
              /\ cproc' = [cproc EXCEPT ![c] = p]
              /\ state' = [state EXCEPT ![p] = "RUNNING"]
              /\ ticks_left' = [ticks_left EXCEPT ![p] = Refilled(p)]
         /\ UNCHANGED <<pid, parent, chan, killed, niceness, vdeadline, locals,
                        nextpid, ticks, started, trap, tickslock, panicked>>
<1>1. PICK e \in Earliest(Populated) :
        /\ queue' = Populated \ {e}
        /\ cproc' = [cproc EXCEPT ![c] = NextProc(e)]
        /\ state' = [state EXCEPT ![NextProc(e)] = "RUNNING"]
        /\ ticks_left' = [ticks_left EXCEPT ![NextProc(e)] = Refilled(NextProc(e))]
  BY Zenon DEF Schedule, Taken
<1>2. /\ cproc[c] = NoSlot /\ trap[c] = "none" /\ lock' = c
      /\ UNCHANGED <<pid, parent, chan, killed, niceness, vdeadline, locals,
                     nextpid, ticks, started, trap, tickslock, panicked>>
  BY DEF Schedule, InScheduler
<1> QED
  BY <1>1, <1>2, SchedulePick

\* What Exit does to each slot: the process becomes a zombie, its children go to init,
\* and a process that sleeps on is neither the parent nor, with a zombie among those
\* children, init.
LEMMA ExitEffect ==
  ASSUME IInv, NEW c \in CPUs, Exit(c)
  PROVE  /\ cproc[c] \in Slots /\ cproc[c] # initproc
         /\ state[cproc[c]] = "RUNNING" /\ state'[cproc[c]] = "ZOMBIE"
         /\ place[cproc[c]] = "exit"
         /\ \A q \in Slots : parent'[q] = IF parent[q] = cproc[c] THEN initproc ELSE parent[q]
         /\ \A q \in Slots \ {cproc[c]} :
              \/ state'[q] = state[q]
              \/ state[q] = "SLEEPING" /\ state'[q] = "RUNNABLE"
         /\ \A q \in Slots : state'[q] = "SLEEPING" =>
              /\ chan[q] # parent[cproc[c]]
              /\ chan[q] = initproc =>
                   \A z \in Slots : parent[z] = cproc[c] => state[z] # "ZOMBIE"
         /\ UNCHANGED <<chan, killed, place, child>>
<1>1. cproc[c] \in Slots /\ state[cproc[c]] = "RUNNING" /\ cproc[c] # initproc
  BY OnCPU DEF Exit, At
<1>2. state \in [Slots -> States]
  BY DEF IInv, TypeOK, ProcTypeOK
<1>3. /\ place[cproc[c]] = "exit"
      /\ \A q \in Slots : parent'[q] = IF parent[q] = cproc[c] THEN initproc ELSE parent[q]
      /\ UNCHANGED <<chan, killed, place, child>>
  BY <1>1 DEF Exit, At, Reparent
<1> DEFINE woken == wakeup1(state, parent[cproc[c]])
<1>4. \A q \in Slots : woken[q] = IF state[q] = "SLEEPING" /\ chan[q] = parent[cproc[c]]
                                  THEN "RUNNABLE" ELSE state[q]
  BY DEF wakeup1
<1>5. CASE \E q \in Slots : parent[q] = cproc[c] /\ woken[q] = "ZOMBIE"
  <2>1. state' = [wakeup1(woken, initproc) EXCEPT ![cproc[c]] = "ZOMBIE"]
    BY <1>5 DEF Exit, ExitWakes
  <2>2. \A q \in Slots : wakeup1(woken, initproc)[q] =
                           IF woken[q] = "SLEEPING" /\ chan[q] = initproc
                           THEN "RUNNABLE" ELSE woken[q]
    BY DEF wakeup1
  <2>3. \A q \in Slots : state'[q] = IF q = cproc[c] THEN "ZOMBIE"
                                     ELSE wakeup1(woken, initproc)[q]
    BY <2>1 DEF wakeup1
  <2> HIDE DEF woken
  <2> QED
    BY <1>1, <1>3, <1>4, <2>2, <2>3
<1>6. CASE ~\E q \in Slots : parent[q] = cproc[c] /\ woken[q] = "ZOMBIE"
  <2>1. state' = [woken EXCEPT ![cproc[c]] = "ZOMBIE"]
    BY <1>6 DEF Exit, ExitWakes
  <2>2. \A q \in Slots : state'[q] = IF q = cproc[c] THEN "ZOMBIE" ELSE woken[q]
    BY <2>1 DEF wakeup1
  <2> HIDE DEF woken
  <2> QED
    BY <1>1, <1>3, <1>4, <1>6, <2>2
<1> QED
  BY <1>5, <1>6

\* A process in sys_sleep's loop holds tickslock, alone, and if it has decided to sleep
\* its time has not come.
LEMMA InTicksLoop ==
  ASSUME IInv, NEW c \in CPUs, cproc[c] # NoSlot, place[cproc[c]] \in {"check", "dosleep"}
  PROVE  /\ tickslock = c
         /\ place[cproc[c]] = "dosleep" => ticks < until[cproc[c]]
         /\ trap[c] = "none" /\ lock # c
         /\ \A q \in Slots : q # cproc[c] => place[q] \notin {"check", "dosleep"}
  BY OnCPU DEF IInv, TicksLockHeld

\* The slot claimed by a process in nicefork is an EMBRYO that no other fork has claimed.
LEMMA ForkChild ==
  ASSUME IInv, NEW c \in CPUs, cproc[c] # NoSlot, place[cproc[c]] \in Forking
  PROVE  /\ child[cproc[c]] \in Slots
         /\ state[child[cproc[c]]] = "EMBRYO"
         /\ child[cproc[c]] # cproc[c]
         /\ place[cproc[c]] = "launch" => parent[child[cproc[c]]] = cproc[c]
         /\ \A q \in Slots : place[q] \in Forking /\ q # cproc[c] => child[q] # child[cproc[c]]
  BY OnCPU DEF IInv, ForkOwnsChild

\* Each conjunct of the invariant depends on some of the variables only.
LEMMA Unchanged ==
  ASSUME IInv
  PROVE  /\ UNCHANGED <<state, pid, parent, chan, killed, niceness, vdeadline, ticks_left>> =>
              ProcTypeOK'
         /\ UNCHANGED <<place, child, until, nicearg, nextpid, ticks>> => LocalsTypeOK'
         /\ UNCHANGED <<cproc, started, trap, lock, tickslock, queue, panicked>> =>
              CPUTypeOK'
         /\ UNCHANGED <<state, cproc>> => RunsOnOneCPU'
         /\ UNCHANGED <<nextpid, pid, state>> => PidsDistinct'
         /\ UNCHANGED <<queue, state, pid, vdeadline>> => QueueIsFresh'
         /\ UNCHANGED <<place, state, child, parent>> => ForkOwnsChild'
         /\ UNCHANGED <<state, parent>> => FamilyTree'
         /\ UNCHANGED <<lock, cproc, trap>> => LockHandedOver'
         /\ UNCHANGED <<state, chan, killed, parent>> => NoStuckWaiter'
         /\ UNCHANGED <<trap, tickslock, place, cproc, lock, ticks, until>> =>
              TicksLockHeld'
         /\ UNCHANGED <<state, chan, ticks, until, trap>> => NoMissedTick'
         /\ UNCHANGED <<ticks_left, cproc, trap>> => QuantumInRange'
<1>1. UNCHANGED <<state, pid, parent, chan, killed, niceness, vdeadline, ticks_left>> =>
        ProcTypeOK'
  BY DEF IInv, TypeOK, ProcTypeOK
<1>2. UNCHANGED <<place, child, until, nicearg, nextpid, ticks>> => LocalsTypeOK'
  BY DEF IInv, TypeOK, LocalsTypeOK
<1>3. UNCHANGED <<cproc, started, trap, lock, tickslock, queue, panicked>> => CPUTypeOK'
  BY DEF IInv, TypeOK, CPUTypeOK
<1>4. UNCHANGED <<state, cproc>> => RunsOnOneCPU'
  BY DEF IInv, RunsOnOneCPU
<1>5. UNCHANGED <<nextpid, pid, state>> => PidsDistinct'
  BY DEF IInv, PidsDistinct
<1>6. UNCHANGED <<queue, state, pid, vdeadline>> => QueueIsFresh'
  BY DEF IInv, QueueIsFresh, Entry
<1>7. UNCHANGED <<place, state, child, parent>> => ForkOwnsChild'
  BY DEF IInv, ForkOwnsChild, Forking
<1>8. UNCHANGED <<state, parent>> => FamilyTree'
  BY DEF IInv, FamilyTree, ParentAlive, Alive
<1>9. UNCHANGED <<lock, cproc, trap>> => LockHandedOver'
  BY DEF IInv, LockHandedOver
<1>10. UNCHANGED <<state, chan, killed, parent>> => NoStuckWaiter'
  BY DEF IInv, NoStuckWaiter, IsZombieChild
<1>11. UNCHANGED <<trap, tickslock, place, cproc, lock, ticks, until>> => TicksLockHeld'
  BY DEF IInv, TicksLockHeld
<1>12. UNCHANGED <<state, chan, ticks, until, trap>> => NoMissedTick'
  BY DEF IInv, NoMissedTick
<1>13. UNCHANGED <<ticks_left, cproc, trap>> => QuantumInRange'
  BY DEF IInv, QuantumInRange, QuantumBounded
<1> QED
  BY <1>1, <1>2, <1>3, <1>4, <1>5, <1>6, <1>7, <1>8, <1>9, <1>10, <1>11, <1>12,
     <1>13

\* What sys_sleep relies on survives a step that leaves tickslock, ticks and until alone
\* and does not move a process into or within its loop.
LEMMA TicksFrame ==
  ASSUME IInv, NEW c \in CPUs, UNCHANGED <<tickslock, ticks, until>>,
         trap'[BootCPU] = "tick" => trap[BootCPU] = "tick",
         \A d \in CPUs \ {c} : cproc'[d] = cproc[d] /\ trap'[d] = trap[d],
         lock' \in {lock, NoCPU, c},
         \A p \in Slots : place'[p] \in {"check", "dosleep"} =>
                            place'[p] = place[p] /\ cproc[c] # p
  PROVE  TicksLockHeld'
<1>1. ASSUME NEW p \in Slots, place'[p] \in {"check", "dosleep"}
      PROVE  \E d \in CPUs : /\ cproc'[d] = p
                             /\ tickslock' = d
                             /\ trap'[d] = "none"
                             /\ lock' # d
                             /\ place'[p] = "dosleep" => ticks' < until'[p]
  <2>1. PICK d \in CPUs : /\ cproc[d] = p
                          /\ tickslock = d
                          /\ trap[d] = "none"
                          /\ lock # d
                          /\ place[p] = "dosleep" => ticks < until[p]
    BY <1>1 DEF IInv, TicksLockHeld
  <2>2. d # c
    BY <1>1, <2>1
  <2> QED
    BY <1>1, <2>1, <2>2, Constants
<1> QED
  BY <1>1 DEF IInv, TicksLockHeld

\* A fork under way keeps its slot if the process stays where it is, runs or can run, and
\* the slot stays an EMBRYO.
LEMMA ForkFrame ==
  ASSUME IInv,
         \A p \in Slots : place'[p] \in Forking =>
           /\ place'[p] = place[p] /\ child'[p] = child[p]
           /\ state'[p] \in {"RUNNABLE", "RUNNING"},
         \A q \in Slots : state[q] = "EMBRYO" => state'[q] = "EMBRYO",
         \A p, q \in Slots : place[p] = "launch" /\ parent[q] = p => parent'[q] = p
  PROVE  ForkOwnsChild'
<1>1. \A p \in Slots : place'[p] \in Forking =>
        /\ place'[p] = place[p] /\ child'[p] = child[p]
        /\ child[p] \in Slots /\ state[child[p]] = "EMBRYO"
        /\ place[p] = "launch" => parent[child[p]] = p
  BY DEF IInv, ForkOwnsChild
<1>2. \A p, q \in Slots : place'[p] \in Forking /\ place'[q] \in Forking /\ p # q =>
        child'[p] # child'[q]
  BY <1>1 DEF IInv, ForkOwnsChild
<1> QED
  BY <1>1, <1>2 DEF ForkOwnsChild

\* A wakeup, of any number of sleepers, disturbs none of these.
LEMMA Woken ==
  ASSUME IInv, UNCHANGED <<pid, parent, vdeadline, place, child, nextpid, cproc, queue>>,
         \A q \in Slots : \/ state'[q] = state[q]
                          \/ state[q] = "SLEEPING" /\ state'[q] = "RUNNABLE"
  PROVE  /\ RunsOnOneCPU' /\ PidsDistinct' /\ QueueIsFresh' /\ ForkOwnsChild'
         /\ FamilyTree'
<1>1. RunsOnOneCPU'
  BY DEF IInv, RunsOnOneCPU
<1>2. PidsDistinct'
  BY DEF IInv, PidsDistinct
<1>3. QueueIsFresh'
  BY DEF IInv, QueueIsFresh, Entry
<1>4. \A p \in Slots : place[p] \in Forking => state[p] \in {"RUNNABLE", "RUNNING"}
  BY DEF IInv, ForkOwnsChild
<1>5. ForkOwnsChild'
  BY <1>4, ForkFrame
<1>6. FamilyTree'
  BY Constants, Zenon DEF IInv, FamilyTree, ParentAlive, Alive
<1> QED
  BY <1>1, <1>2, <1>3, <1>5, <1>6

\* A process that goes off its CPU, and is not RUNNING any more, leaves the CPU without a
\* process, a lock or a pending yield.
LEMMA OffCPU ==
  ASSUME IInv, NEW c \in CPUs, cproc[c] # NoSlot,
         cproc' = [cproc EXCEPT ![c] = NoSlot], lock' = NoCPU, UNCHANGED ticks_left,
         trap' = [trap EXCEPT ![c] = "none"],
         state'[cproc[c]] # "RUNNING",
         \A q \in Slots \ {cproc[c]} : state'[q] = "RUNNING" <=> state[q] = "RUNNING"
  PROVE  RunsOnOneCPU' /\ LockHandedOver' /\ QuantumInRange'
<1>1. /\ cproc[c] \in Slots /\ NoSlot \notin Slots
      /\ \A d \in CPUs : cproc[d] = cproc[c] => d = c
  BY OnCPU, Constants
<1>2. cproc'[c] = NoSlot /\ \A d \in CPUs \ {c} : cproc'[d] = cproc[d] /\ trap'[d] = trap[d]
  BY Types
<1>3. \A p \in Slots : state'[p] = "RUNNING" <=> \E d \in CPUs : cproc'[d] = p
  BY <1>1, <1>2 DEF IInv, RunsOnOneCPU
<1>4. \A d, e \in CPUs : d # e /\ cproc'[d] # NoSlot => cproc'[d] # cproc'[e]
  BY <1>2 DEF IInv, RunsOnOneCPU
<1>5. trap'[c] = "none" /\ NoCPU \notin CPUs
  BY Types, Constants
<1>6. LockHandedOver'
  BY <1>2, <1>5 DEF IInv, LockHandedOver
<1>7. QuantumInRange'
  BY <1>2 DEF IInv, QuantumInRange, QuantumBounded
<1> QED
  BY <1>3, <1>4, <1>6, <1>7 DEF RunsOnOneCPU

\* A running process that goes to sleep, and is not in a fork, disturbs none of these.
LEMMA Asleep ==
  ASSUME IInv, NEW p \in Slots, state[p] = "RUNNING", place[p] \notin Forking,
         state' = [state EXCEPT ![p] = "SLEEPING"],
         NEW w \in Places \ Forking, place' = [place EXCEPT ![p] = w],
         UNCHANGED <<pid, parent, vdeadline, child, nextpid, queue>>
  PROVE  PidsDistinct' /\ QueueIsFresh' /\ ForkOwnsChild' /\ FamilyTree'
<1>1. state'[p] = "SLEEPING" /\ \A q \in Slots \ {p} : state'[q] = state[q]
  BY Types
<1>2. PidsDistinct'
  BY <1>1 DEF IInv, PidsDistinct
<1>3. QueueIsFresh'
  BY <1>1 DEF IInv, QueueIsFresh, Entry
<1>4. FamilyTree'
  BY <1>1, Constants, Types DEF IInv, FamilyTree, ParentAlive, Alive
<1>5. place'[p] \notin Forking /\ \A q \in Slots \ {p} : place'[q] = place[q]
  BY Types
<1>6. \A q \in Slots : place[q] \in Forking => state[q] \in {"RUNNABLE", "RUNNING"}
  BY DEF IInv, ForkOwnsChild
<1>7. ForkOwnsChild'
  BY <1>1, <1>5, <1>6, ForkFrame
<1> QED
  BY <1>2, <1>3, <1>4, <1>7
=============================================================================

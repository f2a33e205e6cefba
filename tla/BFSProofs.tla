----------------------------- MODULE BFSProofs -----------------------------
(***************************************************************************)
(* The invariant of BFS and what follows from it, for any table size, set  *)
(* of CPUs, quantum and workload.  Every action keeps IInv: see            *)
(* BFSProcProofs and BFSTimeProofs.                                        *)
(***************************************************************************)
EXTENDS BFSProcProofs, BFSTimeProofs

USE DEF proc, locals, cpu, locks

\* A process switched to releases ptable.lock; a process in sys_sleep's loop is not switched
\* to, because it holds tickslock and never left its CPU.
LEMMA ReleaseKeeps ==
  ASSUME IInv, NEW c \in CPUs, Resume(c), place[cproc[c]] # "wait"
  PROVE  IInv'
<1>0. /\ chan \in [Slots -> Chans]
      /\ place \in [Slots -> Places]
  BY DEF IInv, TypeOK, ProcTypeOK, LocalsTypeOK
<1>1. /\ lock = c
      /\ cproc[c] # NoSlot /\ cproc[c] \in Slots /\ state[cproc[c]] = "RUNNING"
      /\ \A d \in CPUs : cproc[d] = cproc[c] => d = c
      /\ place[cproc[c]] \notin {"check", "dosleep"}
  BY LockedOnCPU, OnCPU, InTicksLoop DEF Resume
<1>2. /\ lock' = NoCPU
      /\ chan' \in {chan, [chan EXCEPT ![cproc[c]] = NoChan]}
      /\ \/ place' = place
         \/ \E w \in {"awake", "user"} : place' = [place EXCEPT ![cproc[c]] = w]
  BY DEF Resume
<1>3. UNCHANGED <<state, pid, parent, killed, niceness, vdeadline, ticks_left, child,
                 until, nicearg, nextpid, ticks, cproc, started, trap, tickslock,
                 queue, panicked>>
  BY Zenon DEF Resume
<1>4. RunsOnOneCPU' /\ PidsDistinct' /\ QueueIsFresh' /\ FamilyTree'
      /\ QuantumInRange'
  BY <1>3, Unchanged, Zenon
<1>5. ProcTypeOK'
  BY <1>2, <1>3, Constants DEF IInv, TypeOK, ProcTypeOK, States
<1>6. LocalsTypeOK'
  BY <1>2, <1>3 DEF IInv, TypeOK, LocalsTypeOK, Places
<1>7. CPUTypeOK'
  BY <1>2, <1>3 DEF IInv, TypeOK, CPUTypeOK
<1>8. ForkOwnsChild'
  BY <1>0, <1>1, <1>2, <1>3, ForkFrame DEF IInv, ForkOwnsChild, Forking
<1>9. LockHandedOver'
  BY <1>2, <1>3, Constants DEF IInv, LockHandedOver
<1>10. NoStuckWaiter'
  BY <1>0, <1>1, <1>2, <1>3 DEF IInv, NoStuckWaiter, IsZombieChild
<1>11. TicksLockHeld'
  BY <1>0, <1>1, <1>2, <1>3, TicksFrame, Constants
<1>12. NoMissedTick'
  BY <1>0, <1>1, <1>2, <1>3, Constants DEF IInv, NoMissedTick
<1> QED
  BY <1>4, <1>5, <1>6, <1>7, <1>8, <1>9, <1>10, <1>11, <1>12, Zenon DEF IInv, TypeOK

\* The process goes on after swtch, in wait with another round.
LEMMA ResumeKeeps ==
  ASSUME IInv, NEW c \in CPUs, Resume(c)
  PROVE  IInv'
<1>1. CASE place[cproc[c]] # "wait"
  BY <1>1, ReleaseKeeps
<1>2. CASE place[cproc[c]] = "wait"
  <2>1. cproc[c] # NoSlot /\ trap[c] = "none" /\ lock \in {c, NoCPU}
    BY LockedOnCPU DEF Resume
  <2>2. UNCHANGED <<niceness, vdeadline, ticks_left, child, until, nicearg, nextpid, ticks,
                    started, trap, tickslock, queue, panicked>>
    BY Zenon DEF Resume
  <2>3. Reap(cproc[c]) \/ WaitGivesUp(cproc[c]) \/ WaitSleeps(c, cproc[c])
    BY <1>2 DEF Resume, WaitRound
  <2>4. place[cproc[c]] \in {"user", "wait"}
    BY <1>2
  <2> QED
    BY <2>1, <2>2, <2>3, <2>4, ReapKeeps, WaitGivesUpKeeps, WaitSleepsKeeps, Zenon
<1> QED
  BY <1>1, <1>2


\* What userinit leaves behind satisfies the invariant.
LEMMA InitIInv == Init => IInv
<1> SUFFICES ASSUME Init PROVE IInv
  OBVIOUS
<1>1. ProcTypeOK /\ LocalsTypeOK
  BY Constants, BFSAssumption DEF Init, ProcTypeOK, LocalsTypeOK, States, Places
<1>2. CPUTypeOK
  BY Constants DEF Init, CPUTypeOK
<1>3. RunsOnOneCPU /\ QueueIsFresh /\ LockHandedOver
  BY Constants DEF Init, RunsOnOneCPU, QueueIsFresh, LockHandedOver
<1>4. PidsDistinct
  BY Constants DEF Init, PidsDistinct
<1>5. ForkOwnsChild /\ TicksLockHeld
  BY Constants DEF Init, ForkOwnsChild, Forking, TicksLockHeld
<1>6. FamilyTree
  BY Constants DEF Init, FamilyTree, ParentAlive, Alive
<1>7. NoStuckWaiter /\ NoMissedTick
  BY Constants DEF Init, NoStuckWaiter, NoMissedTick
<1>8. QuantumInRange
  BY Constants, BFSAssumption DEF Init, QuantumInRange, QuantumBounded
<1> QED
  BY <1>1, <1>2, <1>3, <1>4, <1>5, <1>6, <1>7, <1>8 DEF IInv, TypeOK

\* Every reachable state of the process table and the CPUs satisfies IInv.
THEOREM Invariance == Spec => []IInv
<1>1. IInv /\ [Next]_vars => IInv'
  <2> SUFFICES ASSUME IInv, [Next]_vars PROVE IInv'
    OBVIOUS
  <2>1. ASSUME UNCHANGED vars PROVE IInv'
    BY <2>1, Unchanged, Zenon DEF vars, IInv, TypeOK
  <2> QED
    BY <2>1, AllocProcKeeps, ForkFailsKeeps, AllocDoneKeeps, ForkFillKeeps, ForkDoneKeeps,
       EnterExitKeeps, FaultKeeps, ExitKeeps, InitExitsKeeps, WaitKeeps, KillKeeps,
       SysSleepKeeps, SleepCheckKeeps, SleepOnTicksKeeps, RetakeTicksLockKeeps,
       SleepOnDeviceKeeps, WakeDeviceKeeps, TimerBootKeeps, TickWakeupKeeps,
       TimerOtherKeeps, AccountKeeps, YieldKeeps, EnterSchedulerKeeps,
       SchedulerIdleKeeps, ScheduleKeeps, ResumeKeeps, Zenon
    DEF Next, Running, CPUStep, Halted
<1> QED
  BY InitIInv, <1>1, PTL DEF Spec

\* Every variable keeps its type; in particular the scheduler never leaves the table,
\* although it indexes it with a pid when no slot has the pid it looks for.
THEOREM TypeCorrect == Spec => []TypeOK
<1>1. IInv => TypeOK
  BY DEF IInv
<1> QED
  BY <1>1, Invariance, PTL

\* A process is RUNNING exactly on the one CPU that has it.
THEOREM OneCPU == Spec => []RunsOnOneCPU
<1>1. IInv => RunsOnOneCPU
  BY DEF IInv
<1> QED
  BY <1>1, Invariance, PTL

\* The scheduler never finds an outdated entry in the list, so inserting without looking
\* for the process's older entry is sound.
THEOREM FreshQueue == Spec => []QueueIsFresh
<1>1. IInv => QueueIsFresh
  BY DEF IInv
<1> QED
  BY <1>1, Invariance, PTL

\* exit leaves no process without a live parent to wait for it.
THEOREM NoOrphans == Spec => []ParentAlive
<1>1. IInv => ParentAlive
  BY DEF IInv, FamilyTree
<1> QED
  BY <1>1, Invariance, PTL

\* No wakeup is lost between exit or kill and wait.
THEOREM NoLostChild == Spec => []NoStuckWaiter
<1>1. IInv => NoStuckWaiter
  BY DEF IInv
<1> QED
  BY <1>1, Invariance, PTL

\* No wakeup is lost between the clock and sys_sleep.
THEOREM NoLostTick == Spec => []NoMissedTick
<1>1. IInv => NoMissedTick
  BY DEF IInv
<1> QED
  BY <1>1, Invariance, PTL

\* A running process never has more than a quantum, and none only on its way to yield.
THEOREM BoundedQuantum == Spec => []QuantumBounded
<1>1. IInv => QuantumBounded
  BY DEF IInv, QuantumInRange
<1> QED
  BY <1>1, Invariance, PTL

\* The scheduler's choice always has the earliest deadline of the runnable processes.
THEOREM EDF == Spec => EarliestDeadlineFirst
<1> DEFINE Picks == \A p \in Slots : state[p] # "RUNNING" /\ state'[p] = "RUNNING" =>
                      /\ state[p] = "RUNNABLE"
                      /\ \A q \in Slots : state[q] = "RUNNABLE" =>
                           vdeadline[p] <= vdeadline[q]
<1>1. IInv /\ [Next]_vars => [Picks]_vars
  <2> SUFFICES ASSUME IInv, Next PROVE Picks
    BY DEF vars
  <2>0. state \in [Slots -> States]
    BY DEF IInv, TypeOK, ProcTypeOK
  <2>1. ASSUME NEW c \in CPUs, Schedule(c) PROVE Picks
    <3>1. PICK p \in Slots :
            /\ state[p] = "RUNNABLE"
            /\ \A q \in Slots : state[q] = "RUNNABLE" => vdeadline[p] <= vdeadline[q]
            /\ state' = [state EXCEPT ![p] = "RUNNING"]
      BY <2>1, ScheduleEffect
    <3> QED
      BY <2>0, <3>1
  <2>2. ASSUME NEW c \in CPUs, NEW nice \in NiceArgs, AllocProc(c, nice) PROVE Picks
    BY <2>0, <2>2 DEF AllocProc
  <2>3. ASSUME NEW c \in CPUs, ForkFails(c) PROVE Picks
    BY <2>0, <2>3 DEF ForkFails
  <2>4. ASSUME NEW c \in CPUs, ForkDone(c) PROVE Picks
    BY <2>0, <2>4 DEF ForkDone
  <2>5. ASSUME NEW c \in CPUs, Exit(c) PROVE Picks
    BY <2>5, ExitEffect
  <2>6. ASSUME NEW c \in CPUs, Wait(c) PROVE Picks
    BY <2>0, <2>6 DEF Wait, WaitRound, Reap, WaitGivesUp, WaitSleeps, IsZombieChild, sched
  <2>7. ASSUME NEW c \in CPUs, NEW target \in 0 .. MaxPid, Kill(c, target) PROVE Picks
    BY <2>0, <2>7 DEF Kill
  <2>8. ASSUME NEW c \in CPUs, SleepOnTicks(c) PROVE Picks
    BY <2>0, <2>8 DEF SleepOnTicks, sched
  <2>9. ASSUME NEW c \in CPUs, SleepOnDevice(c) PROVE Picks
    BY <2>0, <2>9 DEF SleepOnDevice, sched
  <2>10. ASSUME NEW c \in CPUs, SysYield(c) PROVE Picks
    BY <2>0, <2>10 DEF SysYield, yield, sched
  <2>11. ASSUME NEW c \in CPUs, TimerYield(c) PROVE Picks
    BY <2>0, <2>11 DEF TimerYield, yield, sched
  <2>12. ASSUME NEW c \in CPUs, Resume(c) PROVE Picks
    BY <2>0, <2>12
    DEF Resume, WaitRound, Reap, WaitGivesUp, WaitSleeps, IsZombieChild, sched
  <2>13. ASSUME WakeDevice PROVE Picks
    BY <2>0, <2>13 DEF WakeDevice, wakeup1
  <2>14. ASSUME TickWakeup PROVE Picks
    BY <2>0, <2>14 DEF TickWakeup, wakeup1
  <2>15. ASSUME UNCHANGED state PROVE Picks
    BY <2>15
  <2>16. ASSUME NEW c \in CPUs,
               AllocDone(c) \/ ForkFill(c) \/ EnterExit(c) \/ Fault(c)
                 \/ InitExits(c) \/ (\E n \in SleepArgs : SysSleep(c, n))
                 \/ SleepCheck(c) \/ RetakeTicksLock(c) \/ TimerOther(c) \/ Account(c)
                 \/ EnterScheduler(c) \/ SchedulerIdle(c)
        PROVE  UNCHANGED state
    BY <2>16, Zenon
    DEF AllocDone, ForkFill, EnterExit, Fault, InitExits, SysSleep, SleepCheck,
        RetakeTicksLock, TimerOther, Account, EnterScheduler, SchedulerIdle
  <2>17. ASSUME TimerBoot PROVE UNCHANGED state
    BY <2>17, Zenon DEF TimerBoot
  <2> HIDE DEF Picks
  <2> QED
    BY <2>1, <2>2, <2>3, <2>4, <2>5, <2>6, <2>7, <2>8, <2>9, <2>10, <2>11, <2>12,
       <2>13, <2>14, <2>15, <2>16, <2>17, Zenon
    DEF Next, Running, CPUStep, Halted, vars
<1> QED
  BY <1>1, Invariance, PTL DEF Spec, EarliestDeadlineFirst

\* A deadline changes only while its process is created or when it has used up its
\* quantum.
THEOREM KeptDeadlines == Spec => DeadlineKept
<1> DEFINE Kept == \A p \in Slots : vdeadline'[p] # vdeadline[p] =>
                     state[p] = "EMBRYO" \/ (state[p] = "RUNNING" /\ ticks_left[p] = 0)
<1>1. IInv /\ [Next]_vars => [Kept]_vars
  <2> SUFFICES ASSUME IInv, Next PROVE Kept
    BY DEF vars
  <2>0. /\ vdeadline \in [Slots -> Int] /\ ticks_left \in [Slots -> Int]
        /\ \A p \in Slots : 0 <= ticks_left[p]
    BY DEF IInv, TypeOK, ProcTypeOK, QuantumInRange
  <2>1. ASSUME NEW c \in CPUs, AllocDone(c) \/ ForkFill(c) PROVE Kept
    BY <2>0, <2>1, ForkChild DEF AllocDone, ForkFill, At, Forking
  <2>2. ASSUME NEW c \in CPUs, SysYield(c) \/ TimerYield(c) PROVE Kept
    <3>1. cproc[c] \in Slots /\ state[cproc[c]] = "RUNNING"
      BY <2>2, OnCPU DEF SysYield, TimerYield, Syscall, At, IInv, LockHandedOver
    <3>2. vdeadline' = [vdeadline EXCEPT ![cproc[c]] = YieldDeadline(cproc[c])]
      BY <2>2, Zenon DEF SysYield, TimerYield, yield
    <3>3. CASE ticks_left[cproc[c]] <= 0
      <4>1. ticks_left[cproc[c]] = 0
        BY <2>0, <3>1, <3>3
      <4>2. \A p \in Slots : p # cproc[c] => vdeadline'[p] = vdeadline[p]
        BY <2>0, <3>2
      <4> QED
        BY <3>1, <4>1, <4>2
    <3>4. CASE ~(ticks_left[cproc[c]] <= 0)
      BY <2>0, <3>1, <3>2, <3>4 DEF YieldDeadline
    <3> QED
      BY <3>3, <3>4
  <2>3. ASSUME UNCHANGED vdeadline PROVE Kept
    BY <2>3
  <2>4. ASSUME NEW c \in CPUs,
               (\E nice \in NiceArgs : AllocProc(c, nice)) \/ ForkFails(c)
                 \/ ForkDone(c) \/ EnterExit(c) \/ Fault(c) \/ Exit(c) \/ InitExits(c)
                 \/ Wait(c) \/ (\E target \in 0 .. MaxPid : Kill(c, target))
                 \/ (\E n \in SleepArgs : SysSleep(c, n)) \/ SleepCheck(c)
                 \/ SleepOnTicks(c) \/ RetakeTicksLock(c) \/ SleepOnDevice(c)
                 \/ TimerOther(c) \/ Account(c) \/ EnterScheduler(c)
                 \/ SchedulerIdle(c) \/ Schedule(c) \/ Resume(c)
        PROVE  UNCHANGED vdeadline
    BY <2>4, Zenon
    DEF AllocProc, ForkFails, ForkDone, EnterExit, Fault, Exit, InitExits, Wait,
        Kill, SysSleep, SleepCheck, SleepOnTicks, RetakeTicksLock, SleepOnDevice,
        TimerOther, Account, EnterScheduler, SchedulerIdle, Schedule, Resume, yield,
        sched, WaitRound, Reap, WaitGivesUp, WaitSleeps, sched
  <2>5. ASSUME WakeDevice \/ TimerBoot \/ TickWakeup PROVE UNCHANGED vdeadline
    BY <2>5, Zenon DEF WakeDevice, TimerBoot, TickWakeup
  <2> HIDE DEF Kept
  <2> QED
    BY <2>1, <2>2, <2>3, <2>4, <2>5, Zenon DEF Next, Running, CPUStep, Halted, vars
<1> QED
  BY <1>1, Invariance, PTL DEF Spec, DeadlineKept
=============================================================================

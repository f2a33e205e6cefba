--------------------------- MODULE BFSTimeProofs ---------------------------
(***************************************************************************)
(* sleep and wakeup, the timer interrupt, yield and the scheduler keep the *)
(* invariant of BFS; laid out as BFSProcProofs.                            *)
(***************************************************************************)
EXTENDS BFSLemmas

USE DEF proc, locals, cpu, locks

\* sys_sleep takes tickslock when nobody has it, so nobody else is in its loop.
LEMMA SysSleepKeeps ==
  ASSUME IInv, NEW c \in CPUs, NEW n \in SleepArgs, SysSleep(c, n)
  PROVE  IInv'
<1>0. /\ place \in [Slots -> Places]
      /\ until \in [Slots -> Nat]
  BY DEF IInv, TypeOK, LocalsTypeOK
<1>1. /\ cproc[c] # NoSlot /\ cproc[c] \in Slots /\ state[cproc[c]] = "RUNNING"
      /\ \A d \in CPUs : cproc[d] = cproc[c] => d = c
      /\ place[cproc[c]] = "user"
      /\ trap[c] = "none" /\ lock # c
  BY OnCPU DEF SysSleep, Syscall, At
<1>2. /\ tickslock = NoCPU /\ tickslock' = c
      /\ until' = [until EXCEPT ![cproc[c]] = ticks + n]
      /\ place' = [place EXCEPT ![cproc[c]] = "check"]
  BY Zenon DEF SysSleep
<1>3. ticks + n \in Nat
  BY Types, BFSAssumption
<1>4. UNCHANGED <<state, pid, parent, chan, killed, niceness, vdeadline, ticks_left,
                 child, nicearg, nextpid, ticks, cproc, started, trap, lock, queue,
                 panicked>>
  BY Zenon DEF SysSleep
<1>5. ProcTypeOK' /\ RunsOnOneCPU' /\ PidsDistinct' /\ QueueIsFresh' /\ FamilyTree'
      /\ LockHandedOver' /\ NoStuckWaiter' /\ QuantumInRange'
  BY <1>4, Unchanged, Zenon
<1>6. LocalsTypeOK'
  BY <1>1, <1>2, <1>3, <1>4 DEF IInv, TypeOK, LocalsTypeOK, Places
<1>7. CPUTypeOK'
  BY <1>2, <1>4 DEF IInv, TypeOK, CPUTypeOK
<1>8. ForkOwnsChild'
  BY <1>0, <1>1, <1>2, <1>4, ForkFrame DEF IInv, ForkOwnsChild, Forking
<1>9. TicksLockHeld'
  BY <1>0, <1>1, <1>2, <1>4, Constants DEF IInv, TicksLockHeld
<1>10. NoMissedTick'
  BY <1>0, <1>1, <1>2, <1>4 DEF IInv, NoMissedTick
<1> QED
  BY <1>5, <1>6, <1>7, <1>8, <1>9, <1>10, Zenon DEF IInv, TypeOK

\* The check of ticks ends the call or, while tickslock is held, decides to sleep.
LEMMA SleepCheckKeeps ==
  ASSUME IInv, NEW c \in CPUs, SleepCheck(c)
  PROVE  IInv'
<1>0. /\ place \in [Slots -> Places]
      /\ until \in [Slots -> Nat]
  BY DEF IInv, TypeOK, LocalsTypeOK
<1>1. /\ cproc[c] # NoSlot /\ cproc[c] \in Slots /\ state[cproc[c]] = "RUNNING"
      /\ \A d \in CPUs : cproc[d] = cproc[c] => d = c
      /\ place[cproc[c]] = "check"
      /\ trap[c] = "none" /\ lock # c
  BY OnCPU DEF SleepCheck, At
<1>2. /\ tickslock = c
      /\ \A q \in Slots : q # cproc[c] => place[q] \notin {"check", "dosleep"}
  BY <1>1, InTicksLoop
<1>3. \/ /\ tickslock' = NoCPU
         /\ until' = [until EXCEPT ![cproc[c]] = 0]
         /\ place' = [place EXCEPT ![cproc[c]] = "user"]
      \/ /\ ~(ticks >= until[cproc[c]])
         /\ place' = [place EXCEPT ![cproc[c]] = "dosleep"]
         /\ UNCHANGED <<tickslock, until>>
  BY Zenon DEF SleepCheck
<1>4. UNCHANGED <<state, pid, parent, chan, killed, niceness, vdeadline, ticks_left,
                 child, nicearg, nextpid, ticks, cproc, started, trap, lock, queue,
                 panicked>>
  BY Zenon DEF SleepCheck
<1>5. ProcTypeOK' /\ RunsOnOneCPU' /\ PidsDistinct' /\ QueueIsFresh' /\ FamilyTree'
      /\ LockHandedOver' /\ NoStuckWaiter' /\ QuantumInRange'
  BY <1>4, Unchanged, Zenon
<1>6. LocalsTypeOK'
  BY <1>1, <1>3, <1>4 DEF IInv, TypeOK, LocalsTypeOK, Places
<1>7. CPUTypeOK'
  BY <1>3, <1>4 DEF IInv, TypeOK, CPUTypeOK
<1>8. ForkOwnsChild'
  BY <1>0, <1>1, <1>3, <1>4, ForkFrame DEF IInv, ForkOwnsChild, Forking
<1>9. TicksLockHeld'
  <2>1. trap[BootCPU] # "tick"
    BY <1>1, <1>2 DEF IInv, TicksLockHeld
  <2>2. \A q \in Slots : place'[q] \in {"check", "dosleep"} =>
          /\ q = cproc[c] /\ tickslock' = c
          /\ place'[q] = "dosleep" => ticks < until'[q]
    BY <1>1, <1>2, <1>3, <1>0, Types
  <2> QED
    BY <1>1, <2>1, <2>2, <1>4 DEF TicksLockHeld
<1>10. NoMissedTick'
  BY <1>0, <1>1, <1>3, <1>4 DEF IInv, NoMissedTick
<1> QED
  BY <1>5, <1>6, <1>7, <1>8, <1>9, <1>10, Zenon DEF IInv, TypeOK

\* A process goes to sleep on ticks before its time has come, and only then lets
\* tickslock go.
LEMMA SleepOnTicksKeeps ==
  ASSUME IInv, NEW c \in CPUs, SleepOnTicks(c)
  PROVE  IInv'
<1>0. /\ state \in [Slots -> States]
      /\ chan \in [Slots -> Chans]
      /\ place \in [Slots -> Places]
      /\ cproc \in [CPUs -> Slots \cup {NoSlot}]
  BY DEF IInv, TypeOK, ProcTypeOK, LocalsTypeOK, CPUTypeOK
<1>1. /\ cproc[c] # NoSlot /\ cproc[c] \in Slots /\ state[cproc[c]] = "RUNNING"
      /\ \A d \in CPUs : cproc[d] = cproc[c] => d = c
      /\ place[cproc[c]] = "dosleep"
      /\ trap[c] = "none" /\ lock # c
  BY OnCPU DEF SleepOnTicks, At
<1>2. /\ tickslock = c /\ ticks < until[cproc[c]]
      /\ \A q \in Slots : q # cproc[c] => place[q] \notin {"check", "dosleep"}
  BY <1>1, InTicksLoop
<1>3. /\ tickslock' = NoCPU
      /\ chan' = [chan EXCEPT ![cproc[c]] = TicksChan]
      /\ state' = [state EXCEPT ![cproc[c]] = "SLEEPING"]
      /\ place' = [place EXCEPT ![cproc[c]] = "asleep"]
      /\ cproc' = [cproc EXCEPT ![c] = NoSlot] /\ lock' = NoCPU
  BY Zenon DEF SleepOnTicks, sched
<1>4. UNCHANGED <<pid, parent, killed, niceness, vdeadline, ticks_left, child, until,
                 nicearg, nextpid, ticks, started, trap, queue, panicked>>
  BY Zenon DEF SleepOnTicks, sched
<1>5. RunsOnOneCPU' /\ LockHandedOver' /\ QuantumInRange'
  BY <1>1, <1>3, <1>4, <1>0, Types, OffCPU, Zenon
<1>6. PidsDistinct' /\ QueueIsFresh' /\ ForkOwnsChild' /\ FamilyTree'
  BY <1>1, <1>3, <1>4, Asleep, Zenon DEF Places, Forking
<1>7. ProcTypeOK'
  BY <1>1, <1>3, <1>4, Constants DEF IInv, TypeOK, ProcTypeOK, States
<1>8. LocalsTypeOK'
  BY <1>1, <1>3, <1>4 DEF IInv, TypeOK, LocalsTypeOK, Places
<1>9. CPUTypeOK'
  BY <1>3, <1>4 DEF IInv, TypeOK, CPUTypeOK
<1>10. NoStuckWaiter'
  BY <1>0, <1>1, <1>3, <1>4, Constants DEF IInv, NoStuckWaiter, IsZombieChild
<1>11. TicksLockHeld'
  <2>1. trap[BootCPU] # "tick"
    BY <1>1, <1>2 DEF IInv, TicksLockHeld
  <2>2. \A q \in Slots : place'[q] \notin {"check", "dosleep"}
    BY <1>2, <1>3, <1>0
  <2> QED
    BY <2>1, <2>2, <1>4 DEF TicksLockHeld
<1>12. NoMissedTick'
  BY <1>0, <1>1, <1>2, <1>3, <1>4 DEF IInv, NoMissedTick
<1> QED
  BY <1>5, <1>6, <1>7, <1>8, <1>9, <1>10, <1>11, <1>12, Zenon DEF IInv, TypeOK

\* Back from sleep, the process takes tickslock when nobody has it.
LEMMA RetakeTicksLockKeeps ==
  ASSUME IInv, NEW c \in CPUs, RetakeTicksLock(c)
  PROVE  IInv'
<1>0. place \in [Slots -> Places]
  BY DEF IInv, TypeOK, LocalsTypeOK
<1>1. /\ cproc[c] # NoSlot /\ cproc[c] \in Slots /\ state[cproc[c]] = "RUNNING"
      /\ \A d \in CPUs : cproc[d] = cproc[c] => d = c
      /\ place[cproc[c]] = "awake"
      /\ trap[c] = "none" /\ lock # c
  BY OnCPU DEF RetakeTicksLock, At
<1>2. /\ tickslock = NoCPU /\ tickslock' = c
      /\ place' = [place EXCEPT ![cproc[c]] = "check"]
  BY Zenon DEF RetakeTicksLock
<1>3. UNCHANGED <<state, pid, parent, chan, killed, niceness, vdeadline, ticks_left,
                 child, until, nicearg, nextpid, ticks, cproc, started, trap, lock,
                 queue, panicked>>
  BY Zenon DEF RetakeTicksLock
<1>4. ProcTypeOK' /\ RunsOnOneCPU' /\ PidsDistinct' /\ QueueIsFresh' /\ FamilyTree'
      /\ LockHandedOver' /\ NoStuckWaiter' /\ NoMissedTick' /\ QuantumInRange'
  BY <1>3, Unchanged, Zenon
<1>5. LocalsTypeOK'
  BY <1>1, <1>2, <1>3 DEF IInv, TypeOK, LocalsTypeOK, Places
<1>6. CPUTypeOK'
  BY <1>1, <1>2, <1>3 DEF IInv, TypeOK, CPUTypeOK
<1>7. ForkOwnsChild'
  BY <1>0, <1>1, <1>2, <1>3, ForkFrame DEF IInv, ForkOwnsChild, Forking
<1>8. TicksLockHeld'
  BY <1>0, <1>1, <1>2, <1>3, Constants DEF IInv, TicksLockHeld
<1> QED
  BY <1>4, <1>5, <1>6, <1>7, <1>8, Zenon DEF IInv, TypeOK

\* A process sleeping on a device is none of wait's or the clock's.
LEMMA SleepOnDeviceKeeps ==
  ASSUME IInv, NEW c \in CPUs, SleepOnDevice(c)
  PROVE  IInv'
<1>0. /\ state \in [Slots -> States]
      /\ chan \in [Slots -> Chans]
      /\ place \in [Slots -> Places]
      /\ cproc \in [CPUs -> Slots \cup {NoSlot}]
  BY DEF IInv, TypeOK, ProcTypeOK, LocalsTypeOK, CPUTypeOK
<1>1. /\ cproc[c] # NoSlot /\ cproc[c] \in Slots /\ state[cproc[c]] = "RUNNING"
      /\ \A d \in CPUs : cproc[d] = cproc[c] => d = c
      /\ place[cproc[c]] = "user"
      /\ trap[c] = "none" /\ lock # c
  BY OnCPU DEF SleepOnDevice, Syscall, At
<1>2. /\ chan' = [chan EXCEPT ![cproc[c]] = DeviceChan]
      /\ state' = [state EXCEPT ![cproc[c]] = "SLEEPING"]
      /\ place' = [place EXCEPT ![cproc[c]] = "device"]
      /\ cproc' = [cproc EXCEPT ![c] = NoSlot] /\ lock' = NoCPU
  BY Zenon DEF SleepOnDevice, sched
<1>3. UNCHANGED <<pid, parent, killed, niceness, vdeadline, ticks_left, child, until,
                 nicearg, nextpid, ticks, started, trap, tickslock, queue, panicked>>
  BY Zenon DEF SleepOnDevice, sched
<1>4. RunsOnOneCPU' /\ LockHandedOver' /\ QuantumInRange'
  BY <1>1, <1>2, <1>3, <1>0, Types, OffCPU, Zenon
<1>5. PidsDistinct' /\ QueueIsFresh' /\ ForkOwnsChild' /\ FamilyTree'
  BY <1>1, <1>2, <1>3, Asleep, Zenon DEF Places, Forking
<1>6. ProcTypeOK'
  BY <1>1, <1>2, <1>3, Constants DEF IInv, TypeOK, ProcTypeOK, States
<1>7. LocalsTypeOK'
  BY <1>1, <1>2, <1>3 DEF IInv, TypeOK, LocalsTypeOK, Places
<1>8. CPUTypeOK'
  BY <1>1, <1>2, <1>3 DEF IInv, TypeOK, CPUTypeOK
<1>9. NoStuckWaiter'
  BY <1>0, <1>1, <1>2, <1>3, Constants DEF IInv, NoStuckWaiter, IsZombieChild
<1>10. TicksLockHeld'
  BY <1>0, <1>1, <1>2, <1>3, TicksFrame, Constants
<1>11. NoMissedTick'
  BY <1>0, <1>1, <1>2, <1>3, Constants DEF IInv, NoMissedTick
<1> QED
  BY <1>4, <1>5, <1>6, <1>7, <1>8, <1>9, <1>10, <1>11, Zenon DEF IInv, TypeOK

\* A device's wakeup turns sleepers RUNNABLE.
LEMMA WakeDeviceKeeps ==
  ASSUME IInv, WakeDevice
  PROVE  IInv'
<1>0. state \in [Slots -> States]
  BY DEF IInv, TypeOK, ProcTypeOK
<1>1. /\ \A q \in Slots : \/ state'[q] = state[q] /\ ~(state[q] = "SLEEPING" /\ chan[q] = DeviceChan)
                          \/ state[q] = "SLEEPING" /\ state'[q] = "RUNNABLE"
      /\ state' \in [Slots -> States]
  BY <1>0 DEF WakeDevice, wakeup1, States
<1>2. UNCHANGED <<pid, parent, chan, killed, niceness, vdeadline, ticks_left, place,
                 child, until, nicearg, nextpid, ticks, cproc, started, trap, lock,
                 tickslock, queue, panicked>>
  BY Zenon DEF WakeDevice
<1>3. LocalsTypeOK' /\ CPUTypeOK' /\ LockHandedOver' /\ TicksLockHeld'
      /\ QuantumInRange'
  BY <1>2, Unchanged, Zenon
<1>4. RunsOnOneCPU' /\ PidsDistinct' /\ QueueIsFresh' /\ ForkOwnsChild'
      /\ FamilyTree'
  BY <1>1, <1>2, Woken
<1>5. ProcTypeOK'
  BY <1>1, <1>2 DEF IInv, TypeOK, ProcTypeOK, States
<1>6. NoStuckWaiter'
  BY <1>0, <1>1, <1>2 DEF IInv, NoStuckWaiter, IsZombieChild
<1>7. NoMissedTick'
  BY <1>0, <1>1, <1>2 DEF IInv, NoMissedTick
<1> QED
  BY <1>3, <1>4, <1>5, <1>6, <1>7, Zenon DEF IInv, TypeOK

\* The clock advances only when nobody has tickslock, and takes it.
LEMMA TimerBootKeeps ==
  ASSUME IInv, TimerBoot
  PROVE  IInv'
<1>0. /\ ticks \in Nat
      /\ trap \in [CPUs -> {"none", "tick", "account", "yield"}]
  BY DEF IInv, TypeOK, LocalsTypeOK, CPUTypeOK
<1>1. /\ trap[BootCPU] = "none" /\ lock # BootCPU
      /\ tickslock = NoCPU /\ tickslock' = BootCPU
      /\ ticks' = ticks + 1
      /\ trap' = [trap EXCEPT ![BootCPU] = "tick"]
  BY Zenon DEF TimerBoot, Interruptible
<1>2. UNCHANGED <<state, pid, parent, chan, killed, niceness, vdeadline, ticks_left,
                 place, child, until, nicearg, nextpid, cproc, started, lock, queue,
                 panicked>>
  BY Zenon DEF TimerBoot
<1>3. ProcTypeOK' /\ RunsOnOneCPU' /\ PidsDistinct' /\ QueueIsFresh'
      /\ ForkOwnsChild' /\ FamilyTree' /\ NoStuckWaiter'
  BY <1>2, Unchanged, Zenon
<1>4. LocalsTypeOK'
  BY <1>1, <1>2, Constants DEF IInv, TypeOK, LocalsTypeOK, Places
<1>5. CPUTypeOK'
  BY <1>1, <1>2, Constants DEF IInv, TypeOK, CPUTypeOK
<1>6. LockHandedOver'
  BY <1>0, <1>1, <1>2, Constants DEF IInv, LockHandedOver
<1>7. TicksLockHeld'
  BY <1>0, <1>1, <1>2, Constants DEF IInv, TicksLockHeld
<1>8. NoMissedTick'
  BY <1>0, <1>1, <1>2, Constants DEF IInv, NoMissedTick
<1>9. QuantumInRange'
  BY <1>0, <1>1, <1>2, Constants DEF IInv, QuantumInRange, QuantumBounded
<1> QED
  BY <1>3, <1>4, <1>5, <1>6, <1>7, <1>8, <1>9, Zenon DEF IInv, TypeOK

\* The interrupt wakes the sleepers before it lets tickslock go.
LEMMA TickWakeupKeeps ==
  ASSUME IInv, TickWakeup
  PROVE  IInv'
<1>0. /\ state \in [Slots -> States]
      /\ trap \in [CPUs -> {"none", "tick", "account", "yield"}]
  BY DEF IInv, TypeOK, ProcTypeOK, CPUTypeOK
<1>1. trap[BootCPU] = "tick"
  BY Zenon DEF TickWakeup
<1>2. /\ \A q \in Slots : \/ state'[q] = state[q] /\ ~(state[q] = "SLEEPING" /\ chan[q] = TicksChan)
                          \/ state[q] = "SLEEPING" /\ state'[q] = "RUNNABLE"
      /\ state' \in [Slots -> States]
  BY <1>0 DEF TickWakeup, wakeup1, States
<1>3. /\ tickslock' = NoCPU
      /\ trap' = [trap EXCEPT ![BootCPU] = "account"]
  BY Zenon DEF TickWakeup
<1>4. UNCHANGED <<pid, parent, chan, killed, niceness, vdeadline, ticks_left, place,
                 child, until, nicearg, nextpid, ticks, cproc, started, lock, queue,
                 panicked>>
  BY Zenon DEF TickWakeup
<1>5. LocalsTypeOK'
  BY <1>4, Unchanged, Zenon
<1>6. RunsOnOneCPU' /\ PidsDistinct' /\ QueueIsFresh' /\ ForkOwnsChild'
      /\ FamilyTree'
  BY <1>2, <1>4, Woken
<1>7. ProcTypeOK'
  BY <1>2, <1>4 DEF IInv, TypeOK, ProcTypeOK, States
<1>8. CPUTypeOK'
  BY <1>3, <1>4, Constants DEF IInv, TypeOK, CPUTypeOK
<1>9. LockHandedOver'
  BY <1>0, <1>1, <1>3, <1>4, Constants DEF IInv, LockHandedOver
<1>10. NoStuckWaiter'
  BY <1>0, <1>2, <1>4 DEF IInv, NoStuckWaiter, IsZombieChild
<1>11. TicksLockHeld'
  BY <1>0, <1>1, <1>3, <1>4, Constants DEF IInv, TicksLockHeld
<1>12. NoMissedTick'
  BY <1>0, <1>1, <1>2, <1>3, <1>4, Constants DEF IInv, NoMissedTick
<1>13. QuantumInRange'
  BY <1>0, <1>1, <1>3, <1>4, Constants DEF IInv, QuantumInRange, QuantumBounded
<1> QED
  BY <1>5, <1>6, <1>7, <1>8, <1>9, <1>10, <1>11, <1>12, <1>13, Zenon DEF IInv, TypeOK

\* A timer interrupt on another CPU than the first.
LEMMA TimerOtherKeeps ==
  ASSUME IInv, NEW c \in CPUs, TimerOther(c)
  PROVE  IInv'
<1>0. trap \in [CPUs -> {"none", "tick", "account", "yield"}]
  BY DEF IInv, TypeOK, CPUTypeOK
<1>1. /\ c # BootCPU /\ trap[c] = "none" /\ lock # c /\ tickslock # c
      /\ trap' = [trap EXCEPT ![c] = "account"]
  BY Zenon DEF TimerOther, Interruptible
<1>2. UNCHANGED <<state, pid, parent, chan, killed, niceness, vdeadline, ticks_left,
                 place, child, until, nicearg, nextpid, ticks, cproc, started, lock,
                 tickslock, queue, panicked>>
  BY Zenon DEF TimerOther
<1>3. ProcTypeOK' /\ LocalsTypeOK' /\ RunsOnOneCPU' /\ PidsDistinct' /\ QueueIsFresh'
      /\ ForkOwnsChild' /\ FamilyTree' /\ NoStuckWaiter'
  BY <1>2, Unchanged, Zenon
<1>4. CPUTypeOK'
  BY <1>1, <1>2 DEF IInv, TypeOK, CPUTypeOK
<1>5. LockHandedOver'
  BY <1>0, <1>1, <1>2 DEF IInv, LockHandedOver
<1>6. TicksLockHeld'
  BY <1>0, <1>1, <1>2, Constants DEF IInv, TicksLockHeld
<1>7. NoMissedTick'
  BY <1>0, <1>1, <1>2, Constants DEF IInv, NoMissedTick
<1>8. QuantumInRange'
  BY <1>0, <1>1, <1>2 DEF IInv, QuantumInRange, QuantumBounded
<1> QED
  BY <1>3, <1>4, <1>5, <1>6, <1>7, <1>8, Zenon DEF IInv, TypeOK

\* The charge for a tick: the process had one, and must yield if it has none left.
LEMMA AccountKeeps ==
  ASSUME IInv, NEW c \in CPUs, Account(c)
  PROVE  IInv'
<1>0. /\ ticks_left \in [Slots -> Int]
      /\ place \in [Slots -> Places]
      /\ trap \in [CPUs -> {"none", "tick", "account", "yield"}]
  BY DEF IInv, TypeOK, ProcTypeOK, LocalsTypeOK, CPUTypeOK
<1>1. trap[c] = "account"
  BY Zenon DEF Account
<1>2. \/ /\ trap' = [trap EXCEPT ![c] = "none"]
         /\ UNCHANGED <<place, ticks_left>>
      \/ /\ cproc[c] # NoSlot /\ place[cproc[c]] = "user"
         /\ trap' = [trap EXCEPT ![c] = "none"]
         /\ place' = [place EXCEPT ![cproc[c]] = "exit"]
         /\ UNCHANGED ticks_left
      \/ /\ cproc[c] # NoSlot
         /\ ticks_left' = [ticks_left EXCEPT ![cproc[c]] = @ - 1]
         /\ trap' = [trap EXCEPT ![c] = IF ticks_left[cproc[c]] - 1 = 0 THEN "yield" ELSE "none"]
         /\ UNCHANGED place
  BY Zenon DEF Account
<1>3. cproc[c] # NoSlot => /\ cproc[c] \in Slots
                            /\ \A d \in CPUs : cproc[d] = cproc[c] => d = c
                            /\ ticks_left[cproc[c]] > 0
  BY <1>1, OnCPU DEF IInv, QuantumInRange, QuantumBounded
<1>4. UNCHANGED <<state, pid, parent, chan, killed, niceness, vdeadline, child, until,
                 nicearg, nextpid, ticks, cproc, started, lock, tickslock, queue,
                 panicked>>
  BY Zenon DEF Account
<1>5. RunsOnOneCPU' /\ PidsDistinct' /\ QueueIsFresh' /\ FamilyTree'
      /\ NoStuckWaiter'
  BY <1>4, Unchanged, Zenon
<1>6. ProcTypeOK'
  BY <1>2, <1>3, <1>4, SMTT(30) DEF IInv, TypeOK, ProcTypeOK, States
<1>7. LocalsTypeOK'
  BY <1>2, <1>4 DEF IInv, TypeOK, LocalsTypeOK, Places
<1>8. CPUTypeOK'
  BY <1>2, <1>4 DEF IInv, TypeOK, CPUTypeOK
<1>9. ForkOwnsChild'
  BY <1>0, <1>2, <1>3, <1>4, ForkFrame, SMTT(30) DEF IInv, ForkOwnsChild, Forking
<1>10. LockHandedOver'
  BY <1>0, <1>1, <1>2, <1>4 DEF IInv, LockHandedOver
<1>11. TicksLockHeld'
  <2>1. cproc[c] # NoSlot => place[cproc[c]] \notin {"check", "dosleep"}
    BY <1>1, InTicksLoop
  <2>2. \A d \in CPUs \ {c} : trap'[d] = trap[d]
    BY <1>2, <1>0
  <2>3. trap'[c] # "tick"
    BY <1>2, <1>0
  <2>4. \A p \in Slots : place'[p] \in {"check", "dosleep"} =>
          place'[p] = place[p] /\ cproc[c] # p
    BY <1>2, <2>1, <1>0, Constants
  <2> QED
    BY <2>2, <2>3, <2>4, <1>4, TicksFrame, Constants
<1>12. NoMissedTick'
  BY <1>0, <1>1, <1>2, <1>4, Constants DEF IInv, NoMissedTick
<1>13. QuantumInRange'
  <2>1. CASE ticks_left' = ticks_left /\ trap' = [trap EXCEPT ![c] = "none"]
    BY <1>1, <2>1, <1>4, <1>0 DEF IInv, QuantumInRange, QuantumBounded
  <2>2. CASE /\ cproc[c] # NoSlot
             /\ ticks_left' = [ticks_left EXCEPT ![cproc[c]] = @ - 1]
             /\ trap' = [trap EXCEPT ![c] = IF ticks_left[cproc[c]] - 1 = 0
                                            THEN "yield" ELSE "none"]
    <3>1. \A q \in Slots : ticks_left'[q] = IF q = cproc[c] THEN ticks_left[q] - 1
                                                            ELSE ticks_left[q]
      BY <1>3, <2>2, <1>0
    <3>2. \A q \in Slots : 0 <= ticks_left'[q] /\ ticks_left'[q] <= BFS_DEFAULT_QUANTUM
      BY <1>3, <2>2, <3>1, <1>0, BFSAssumption DEF IInv, QuantumInRange
    <3>3. ASSUME NEW d \in CPUs, cproc[d] # NoSlot
          PROVE  ticks_left'[cproc[d]] > 0 \/ trap'[d] = "yield"
      <4>1. CASE d = c
        BY <1>3, <2>2, <3>1, <4>1, <1>0
      <4>2. CASE d # c
        <5>1. cproc[d] \in Slots /\ cproc[d] # cproc[c] /\ trap'[d] = trap[d]
          BY <1>3, <2>2, <3>3, <4>2, OnCPU, <1>0
        <5> QED
          BY <3>1, <3>3, <5>1 DEF IInv, QuantumInRange, QuantumBounded
      <4> QED
        BY <4>1, <4>2
    <3> QED
      BY <3>2, <3>3, <1>4, OnCPU DEF QuantumInRange, QuantumBounded
  <2> QED
    BY <1>2, <2>1, <2>2
<1> QED
  BY <1>5, <1>6, <1>7, <1>8, <1>9, <1>10, <1>11, <1>12, <1>13, Zenon DEF IInv, TypeOK

\* yield, called by the process or at the end of a quantum, leaves its process RUNNABLE
\* and off the CPU.  A process in sys_sleep's loop cannot be interrupted, so it is not here.
LEMMA YieldKeeps ==
  ASSUME IInv, NEW c \in CPUs, SysYield(c) \/ TimerYield(c)
  PROVE  IInv'
<1>0. /\ state \in [Slots -> States]
      /\ vdeadline \in [Slots -> Int]
      /\ cproc \in [CPUs -> Slots \cup {NoSlot}]
      /\ trap \in [CPUs -> {"none", "tick", "account", "yield"}]
  BY DEF IInv, TypeOK, ProcTypeOK, CPUTypeOK
<1>1. /\ cproc[c] # NoSlot /\ cproc[c] \in Slots /\ state[cproc[c]] = "RUNNING"
      /\ \A d \in CPUs : cproc[d] = cproc[c] => d = c
      /\ place[cproc[c]] \notin {"check", "dosleep"}
  BY OnCPU, InTicksLoop DEF SysYield, TimerYield, Syscall, At, IInv, LockHandedOver
<1>2. /\ state' = [state EXCEPT ![cproc[c]] = "RUNNABLE"]
      /\ cproc' = [cproc EXCEPT ![c] = NoSlot] /\ lock' = NoCPU
      /\ vdeadline' = [vdeadline EXCEPT ![cproc[c]] = YieldDeadline(cproc[c])]
  BY Zenon DEF SysYield, TimerYield, yield, sched
<1>3. trap' = [trap EXCEPT ![c] = "none"]
  BY <1>0 DEF SysYield, TimerYield, Syscall, At
<1>4. YieldDeadline(cproc[c]) \in Int
  BY <1>0, <1>1, Types, DeadlineType DEF YieldDeadline
<1>5. UNCHANGED <<pid, parent, chan, killed, niceness, ticks_left, place, child,
                 until, nicearg, nextpid, ticks, started, tickslock, queue, panicked>>
  BY Zenon DEF SysYield, TimerYield, yield, sched
<1>6. LocalsTypeOK'
  BY <1>5, Unchanged, Zenon
<1>7. RunsOnOneCPU' /\ LockHandedOver' /\ QuantumInRange'
  BY <1>1, <1>2, <1>3, <1>5, <1>0, OffCPU, Zenon
<1>8. ProcTypeOK'
  BY <1>1, <1>2, <1>4, <1>5 DEF IInv, TypeOK, ProcTypeOK, States
<1>9. CPUTypeOK'
  BY <1>2, <1>3, <1>5 DEF IInv, TypeOK, CPUTypeOK
<1>10. PidsDistinct'
  BY <1>0, <1>1, <1>2, <1>5 DEF IInv, PidsDistinct
<1>11. QueueIsFresh'
  BY <1>0, <1>1, <1>2, <1>5 DEF IInv, QueueIsFresh, Entry
<1>12. ForkOwnsChild'
  BY <1>0, <1>1, <1>2, <1>5, ForkFrame DEF IInv, ForkOwnsChild, Forking
<1>13. FamilyTree'
  BY <1>0, <1>1, <1>2, <1>5, Constants DEF IInv, FamilyTree, ParentAlive, Alive
<1>14. NoStuckWaiter'
  BY <1>0, <1>1, <1>2, <1>5 DEF IInv, NoStuckWaiter, IsZombieChild
<1>15. TicksLockHeld'
  BY <1>0, <1>1, <1>2, <1>3, <1>5, TicksFrame, Constants
<1>16. NoMissedTick'
  <2>1. \A q \in Slots : state'[q] = "SLEEPING" => state[q] = "SLEEPING"
    BY <1>2, <1>0
  <2>2. trap[BootCPU] = "tick" => trap'[BootCPU] = "tick"
    BY <1>3, <1>0, Constants DEF SysYield, TimerYield, Syscall, At
  <2> QED
    BY <2>1, <2>2, <1>5 DEF IInv, NoMissedTick
<1> QED
  BY <1>6, <1>7, <1>8, <1>9, <1>10, <1>11, <1>12, <1>13, <1>14, <1>15, <1>16, Zenon
  DEF IInv, TypeOK

\* A CPU that enters scheduler() empties the list.
LEMMA EnterSchedulerKeeps ==
  ASSUME IInv, NEW c \in CPUs, EnterScheduler(c)
  PROVE  IInv'
<1>1. started' = started \cup {c} /\ queue' = {}
  BY Zenon DEF EnterScheduler
<1>2. UNCHANGED <<state, pid, parent, chan, killed, niceness, vdeadline, ticks_left,
                 place, child, until, nicearg, nextpid, ticks, cproc, trap, lock,
                 tickslock, panicked>>
  BY Zenon DEF EnterScheduler
<1>3. ProcTypeOK' /\ LocalsTypeOK' /\ RunsOnOneCPU' /\ PidsDistinct'
      /\ ForkOwnsChild' /\ FamilyTree' /\ LockHandedOver' /\ NoStuckWaiter'
      /\ TicksLockHeld' /\ NoMissedTick' /\ QuantumInRange'
  BY <1>2, Unchanged, Zenon
<1>4. CPUTypeOK'
  BY <1>1, <1>2 DEF IInv, TypeOK, CPUTypeOK
<1>5. QueueIsFresh'
  BY <1>1, <1>2 DEF IInv, QueueIsFresh, Entry
<1> QED
  BY <1>3, <1>4, <1>5, Zenon DEF IInv, TypeOK

\* A pass that finds nothing leaves nothing in the list.
LEMMA SchedulerIdleKeeps ==
  ASSUME IInv, NEW c \in CPUs, SchedulerIdle(c)
  PROVE  IInv'
<1>1. queue' = {}
  BY Zenon DEF SchedulerIdle
<1>2. UNCHANGED <<state, pid, parent, chan, killed, niceness, vdeadline, ticks_left,
                 place, child, until, nicearg, nextpid, ticks, cproc, started, trap,
                 lock, tickslock, panicked>>
  BY Zenon DEF SchedulerIdle
<1>3. ProcTypeOK' /\ LocalsTypeOK' /\ RunsOnOneCPU' /\ PidsDistinct'
      /\ ForkOwnsChild' /\ FamilyTree' /\ LockHandedOver' /\ NoStuckWaiter'
      /\ TicksLockHeld' /\ NoMissedTick' /\ QuantumInRange'
  BY <1>2, Unchanged, Zenon
<1>4. CPUTypeOK'
  BY <1>1, <1>2 DEF IInv, TypeOK, CPUTypeOK
<1>5. QueueIsFresh'
  BY <1>1, <1>2 DEF IInv, QueueIsFresh, Entry
<1> QED
  BY <1>3, <1>4, <1>5, Zenon DEF IInv, TypeOK

\* The scheduler switches a CPU without a process to a RUNNABLE one, whose entry it takes
\* off the list and whose quantum it refills if it is empty.
LEMMA ScheduleKeeps ==
  ASSUME IInv, NEW c \in CPUs, Schedule(c)
  PROVE  IInv'
<1>0. /\ state \in [Slots -> States]
      /\ ticks_left \in [Slots -> Int]
      /\ cproc \in [CPUs -> Slots \cup {NoSlot}]
  BY DEF IInv, TypeOK, ProcTypeOK, CPUTypeOK
<1>1. /\ cproc[c] = NoSlot /\ trap[c] = "none" /\ lock' = c
  BY ScheduleEffect
<1>2. PICK p \in Slots :
        /\ state[p] = "RUNNABLE"
        /\ queue' = Populated \ {Entry(p)}
        /\ cproc' = [cproc EXCEPT ![c] = p]
        /\ state' = [state EXCEPT ![p] = "RUNNING"]
        /\ ticks_left' = [ticks_left EXCEPT ![p] = Refilled(p)]
  BY ScheduleEffect
<1>3. UNCHANGED <<pid, parent, chan, killed, niceness, vdeadline, place, child, until,
                 nicearg, nextpid, ticks, started, trap, tickslock, panicked>>
  BY Zenon DEF Schedule
<1>4. LocalsTypeOK'
  BY <1>3, Unchanged, Zenon
<1>5. ProcTypeOK'
  BY <1>0, <1>2, <1>3, BFSAssumption DEF Refilled, IInv, TypeOK, ProcTypeOK, States
<1>6. CPUTypeOK'
  <2>1. Populated \subseteq [value : Int, pid : Nat]
    BY Types, SMTT(30) DEF Populated, Entry, IInv, TypeOK, CPUTypeOK
  <2> QED
    BY <1>1, <1>2, <2>1, <1>3 DEF IInv, TypeOK, CPUTypeOK
<1>7. RunsOnOneCPU'
  <2>1. \A d \in CPUs : cproc[d] # p
    BY <1>2, OnCPU, Constants
  <2>2. cproc'[c] = p /\ \A d \in CPUs \ {c} : cproc'[d] = cproc[d]
    BY <1>2, <1>0
  <2>3. state'[p] = "RUNNING" /\ \A q \in Slots \ {p} : state'[q] = state[q]
    BY <1>2, <1>0
  <2>4. \A q \in Slots : state'[q] = "RUNNING" <=> \E d \in CPUs : cproc'[d] = q
    BY <1>1, <2>2, <2>3, Constants DEF IInv, RunsOnOneCPU
  <2>5. \A d, e \in CPUs : d # e /\ cproc'[d] # NoSlot => cproc'[d] # cproc'[e]
    BY <2>1, <2>2 DEF IInv, RunsOnOneCPU
  <2> QED
    BY <2>4, <2>5 DEF RunsOnOneCPU
<1>8. PidsDistinct'
  BY <1>0, <1>2, <1>3 DEF IInv, PidsDistinct
<1>9. QueueIsFresh'
  <2> SUFFICES ASSUME NEW e \in queue'
               PROVE  \E q \in Slots : state'[q] = "RUNNABLE" /\ Entry(q)' = e
    BY DEF QueueIsFresh
  <2>1. e # Entry(p) /\ e \in Populated
    BY <1>2
  <2>2. PICK q \in Slots : state[q] = "RUNNABLE" /\ Entry(q) = e
    BY <2>1 DEF IInv, QueueIsFresh, Populated
  <2> QED
    BY <1>2, <2>1, <2>2, <1>3, <1>0 DEF Entry
<1>10. ForkOwnsChild'
  BY <1>0, <1>2, <1>3, ForkFrame DEF IInv, ForkOwnsChild, Forking
<1>11. FamilyTree'
  BY <1>0, <1>2, <1>3, Constants DEF IInv, FamilyTree, ParentAlive, Alive
<1>12. LockHandedOver'
  BY <1>0, <1>1, <1>2, <1>3, Constants DEF IInv, LockHandedOver
<1>13. NoStuckWaiter'
  BY <1>0, <1>2, <1>3 DEF IInv, NoStuckWaiter, IsZombieChild
<1>14. TicksLockHeld'
  BY <1>0, <1>1, <1>2, <1>3, TicksFrame, Constants
<1>15. NoMissedTick'
  BY <1>0, <1>2, <1>3 DEF IInv, NoMissedTick
<1>16. QuantumInRange'
  <2>1. \A d \in CPUs : cproc[d] # p
    BY <1>2, OnCPU, Constants
  <2>2. \A q \in Slots : ticks_left[q] \in 0 .. BFS_DEFAULT_QUANTUM
    BY <1>0, BFSAssumption DEF IInv, QuantumInRange
  <2>3. /\ ticks_left'[p] \in 1 .. BFS_DEFAULT_QUANTUM
        /\ \A q \in Slots \ {p} : ticks_left'[q] = ticks_left[q]
    BY <1>2, <2>2, <1>0, BFSAssumption DEF Refilled
  <2>4. \A q \in Slots : 0 <= ticks_left'[q] /\ ticks_left'[q] <= BFS_DEFAULT_QUANTUM
    BY <2>2, <2>3, BFSAssumption, SMTT(30)
  <2>5. QuantumBounded'
    BY <1>2, <2>1, <2>3, <1>3, <1>0, Constants DEF IInv, QuantumInRange, QuantumBounded
  <2> QED
    BY <2>4, <2>5 DEF QuantumInRange
<1> QED
  BY <1>4, <1>5, <1>6, <1>7, <1>8, <1>9, <1>10, <1>11, <1>12, <1>13, <1>14, <1>15,
     <1>16, Zenon DEF IInv, TypeOK
=============================================================================

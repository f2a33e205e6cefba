--------------------------------- MODULE BFS ---------------------------------
(***************************************************************************)
(* The process table and the BFS scheduler: proc.c, the timer path of      *)
(* trap.c, and the system calls of sysproc.c that change a process.        *)
(*                                                                         *)
(* CPUs interleave.  A stretch of code that holds ptable.lock is one step; *)
(* code outside it is cut wherever another CPU or an interrupt can act.    *)
(* The lock itself is a variable because the scheduler hands it to the     *)
(* process it switches to (proc.c 427-429, 475-483): that step ends with   *)
(* the lock held and Resume, on the same CPU, releases it.                 *)
(*                                                                         *)
(* The run queue is the set of entries that ReadyQueue promises and        *)
(* SkipList implements.  Files, memory and the trap frame of a process are *)
(* left out; a call that may fail for lack of memory fails or succeeds.    *)
(***************************************************************************)
EXTENDS Integers

CONSTANTS
  NPROC,                  \* slots of ptable.proc
  CPUs, BootCPU, NoCPU,   \* BootCPU is the one whose cpuid() is 0
  BFS_DEFAULT_QUANTUM,
  PRIO_BASE,              \* the 21 of PRIO_RATIO
  BFS_NICE_FIRST_LEVEL, BFS_NICE_LAST_LEVEL,
  Calls,                  \* the workload: what processes may do in user mode
  NiceArgs, SleepArgs,    \* arguments tried with nicefork and sys_sleep
  MaxPid, MaxTicks        \* bounds on nextpid and ticks

ASSUME BFSAssumption ==
  /\ NPROC \in Nat \ {0}
  /\ BootCPU \in CPUs
  /\ NoCPU \notin CPUs
  /\ BFS_DEFAULT_QUANTUM \in Nat \ {0}
  /\ PRIO_BASE \in Nat
  /\ BFS_NICE_FIRST_LEVEL \in Int
  /\ BFS_NICE_LAST_LEVEL \in Int
  /\ NiceArgs \subseteq Int
  /\ SleepArgs \subseteq Nat
  /\ MaxPid \in Nat
  /\ MaxTicks \in Nat

Slots == 1 .. NPROC
NoSlot == 0
initproc == 1               \* userinit runs first and takes the first slot

\* What a process can sleep on: a slot (wait sleeps on its own), &ticks, or some
\* driver's channel.
NoChan == 0
TicksChan == NPROC + 1
DeviceChan == NPROC + 2
Chans == 0 .. NPROC + 2

States == {"UNUSED", "EMBRYO", "SLEEPING", "RUNNABLE", "RUNNING", "ZOMBIE"}

\* Where a process is in the kernel: in user mode, in nicefork with a slot claimed
\* by allocproc, with allocproc returned, or with the child complete; in exit before
\* it takes ptable.lock; asleep in wait; in sys_sleep with tickslock held, with the
\* check passed, asleep, or awake and after tickslock; asleep on a device.
Places == {"user", "claimed", "copying", "launch", "exit", "wait",
           "check", "dosleep", "asleep", "awake", "device"}

VARIABLES
  state, pid, parent, chan, killed, niceness, vdeadline, ticks_left, \* struct proc
  place, child, until,     \* locals: the place above, nicefork's np, sys_sleep's end
  nicearg,                 \* nicefork's argument
  nextpid, ticks,
  cproc,                   \* struct cpu's proc, NoSlot for none
  started,                 \* the CPUs that have entered scheduler()
  trap,                    \* the CPU's timer interrupt: "none", "tick", "account", "yield"
  lock, tickslock,         \* holder of ptable.lock, of tickslock
  queue,                   \* sl, as the set of its entries
  panicked

proc == <<state, pid, parent, chan, killed, niceness, vdeadline, ticks_left>>
locals == <<place, child, until, nicearg>>
cpu == <<cproc, started, trap>>
locks == <<lock, tickslock>>
vars == <<proc, locals, nextpid, ticks, cpu, locks, queue, panicked>>

\* ticks + PRIO_RATIO(n) * BFS_DEFAULT_QUANTUM, where PRIO_RATIO(n) is the text
\* "n + 21": the product takes the 21 only.
Deadline(n) == ticks + n + PRIO_BASE * BFS_DEFAULT_QUANTUM

Entry(p) == [value |-> vdeadline[p], pid |-> pid[p]]

\* userinit has made slot 1 runnable; no CPU has entered scheduler() yet.
Init ==
  /\ state = [p \in Slots |-> IF p = initproc THEN "RUNNABLE" ELSE "UNUSED"]
  /\ pid = [p \in Slots |-> IF p = initproc THEN 1 ELSE 0]
  /\ parent = [p \in Slots |-> NoSlot]
  /\ chan = [p \in Slots |-> NoChan]
  /\ killed = [p \in Slots |-> 0]
  /\ niceness = [p \in Slots |-> 0]
  /\ vdeadline = [p \in Slots |-> IF p = initproc
                                  THEN PRIO_BASE * BFS_DEFAULT_QUANTUM ELSE 0]
  /\ ticks_left = [p \in Slots |-> 0]
  /\ place = [p \in Slots |-> "user"]
  /\ child = [p \in Slots |-> NoSlot]
  /\ until = [p \in Slots |-> 0]
  /\ nicearg = [p \in Slots |-> 0]
  /\ nextpid = 2
  /\ ticks = 0
  /\ cproc = [c \in CPUs |-> NoSlot]
  /\ started = {}
  /\ trap = [c \in CPUs |-> "none"]
  /\ lock = NoCPU
  /\ tickslock = NoCPU
  /\ queue = {}
  /\ panicked = FALSE

\* The process CPU c is executing, outside an interrupt and with the lock handed
\* over, at the given place in its code.
At(c, where) ==
  /\ cproc[c] # NoSlot
  /\ trap[c] = "none"
  /\ lock # c
  /\ place[cproc[c]] = where

\* A system call from user mode; trap() sends a killed process to exit instead.
Syscall(c, name) == name \in Calls /\ At(c, "user") /\ killed[cproc[c]] = 0

\* wakeup1 as a function of the states it starts from.
wakeup1(st, ch) ==
  [p \in Slots |-> IF st[p] = "SLEEPING" /\ chan[p] = ch THEN "RUNNABLE" ELSE st[p]]

\* sched(): the CPU goes back to its scheduler loop, which releases ptable.lock.
sched(c) ==
  /\ cproc' = [cproc EXCEPT ![c] = NoSlot]
  /\ lock' = NoCPU

-----------------------------------------------------------------------------
(* allocproc and nicefork.  fork() is nicefork(0).                         *)

\* Arguments out of range and a full table return -1 and change nothing.
AllocProc(c, nice) ==
  /\ Syscall(c, "fork")
  /\ BFS_NICE_FIRST_LEVEL <= nice /\ nice <= BFS_NICE_LAST_LEVEL
  /\ lock = NoCPU
  /\ nextpid <= MaxPid
  /\ \E p \in Slots :
       /\ state[p] = "UNUSED"
       /\ \A q \in Slots : q < p => state[q] # "UNUSED"
       /\ state' = [state EXCEPT ![p] = "EMBRYO"]
       /\ pid' = [pid EXCEPT ![p] = nextpid]
       /\ child' = [child EXCEPT ![cproc[c]] = p]
  /\ nextpid' = nextpid + 1
  /\ place' = [place EXCEPT ![cproc[c]] = "claimed"]
  /\ nicearg' = [nicearg EXCEPT ![cproc[c]] = nice]
  /\ UNCHANGED <<parent, chan, killed, niceness, vdeadline, ticks_left, until,
                 ticks, cpu, locks, queue, panicked>>

\* kalloc or copyuvm returns 0: the slot is freed without the lock and keeps its pid.
ForkFails(c) ==
  /\ At(c, "claimed") \/ At(c, "copying")
  /\ state' = [state EXCEPT ![child[cproc[c]]] = "UNUSED"]
  /\ place' = [place EXCEPT ![cproc[c]] = "user"]
  /\ child' = [child EXCEPT ![cproc[c]] = NoSlot]
  /\ nicearg' = [nicearg EXCEPT ![cproc[c]] = 0]
  /\ UNCHANGED <<pid, parent, chan, killed, niceness, vdeadline, ticks_left, until,
                 nextpid, ticks, cpu, locks, queue, panicked>>

\* allocproc has its kernel stack, points the new context at forkret, and returns.
AllocDone(c) ==
  /\ At(c, "claimed")
  /\ niceness' = [niceness EXCEPT ![child[cproc[c]]] = 0]
  /\ vdeadline' = [vdeadline EXCEPT ![child[cproc[c]]] = Deadline(0)]
  /\ place' = [place EXCEPT ![cproc[c]] = "copying", ![child[cproc[c]]] = "user"]
  /\ UNCHANGED <<state, pid, parent, chan, killed, ticks_left, child, until, nicearg,
                 nextpid, ticks, cpu, locks, queue, panicked>>

ForkFill(c) ==
  /\ At(c, "copying")
  /\ LET p == cproc[c] IN
       /\ parent' = [parent EXCEPT ![child[p]] = p]
       /\ niceness' = [niceness EXCEPT ![child[p]] = nicearg[p]]
       /\ vdeadline' = [vdeadline EXCEPT ![child[p]] = Deadline(nicearg[p])]
       /\ place' = [place EXCEPT ![p] = "launch"]
  /\ UNCHANGED <<state, pid, chan, killed, ticks_left, child, until, nicearg,
                 nextpid, ticks, cpu, locks, queue, panicked>>

ForkDone(c) ==
  /\ At(c, "launch")
  /\ lock = NoCPU
  /\ state' = [state EXCEPT ![child[cproc[c]]] = "RUNNABLE"]
  /\ place' = [place EXCEPT ![cproc[c]] = "user"]
  /\ child' = [child EXCEPT ![cproc[c]] = NoSlot]
  /\ nicearg' = [nicearg EXCEPT ![cproc[c]] = 0]
  /\ UNCHANGED <<pid, parent, chan, killed, niceness, vdeadline, ticks_left, until,
                 nextpid, ticks, cpu, locks, queue, panicked>>

-----------------------------------------------------------------------------
(* exit, wait and kill.                                                    *)

\* sys_exit, or trap() finding the killed flag on its way to or from user mode.
\* Closing the process's files is left out.
EnterExit(c) ==
  /\ At(c, "user")
  /\ "exit" \in Calls \/ killed[cproc[c]] # 0
  /\ place' = [place EXCEPT ![cproc[c]] = "exit"]
  /\ UNCHANGED <<proc, child, until, nicearg, nextpid, ticks, cpu, locks, queue, panicked>>

\* An exception in user mode marks the process and sends it to exit.
Fault(c) ==
  /\ "fault" \in Calls /\ At(c, "user")
  /\ killed' = [killed EXCEPT ![cproc[c]] = 1]
  /\ place' = [place EXCEPT ![cproc[c]] = "exit"]
  /\ UNCHANGED <<state, pid, parent, chan, niceness, vdeadline, ticks_left, child, until,
                 nicearg, nextpid, ticks, cpu, locks, queue, panicked>>

\* Abandoned children go to init.
Reparent(p) == [q \in Slots |-> IF parent[q] = p THEN initproc ELSE parent[q]]

\* Mutant: init is not told of the zombies it is given.
ExitWakesParentOnly(p) == wakeup1(state, parent[p])

\* The parent is woken, and init too if it is given a zombie.
ExitWakes(p) ==
  LET woken == wakeup1(state, parent[p])
  IN IF \E q \in Slots : parent[q] = p /\ woken[q] = "ZOMBIE"
     THEN wakeup1(woken, initproc) ELSE woken

Exit(c) ==
  /\ At(c, "exit")
  /\ cproc[c] # initproc
  /\ lock = NoCPU
  /\ parent' = Reparent(cproc[c])
  /\ state' = [ExitWakes(cproc[c]) EXCEPT ![cproc[c]] = "ZOMBIE"]
  /\ sched(c)
  /\ UNCHANGED <<pid, chan, killed, niceness, vdeadline, ticks_left, locals,
                 nextpid, ticks, started, trap, tickslock, queue, panicked>>

\* panic("init exiting")
InitExits(c) ==
  /\ At(c, "exit")
  /\ cproc[c] = initproc
  /\ panicked' = TRUE
  /\ UNCHANGED <<proc, locals, nextpid, ticks, cpu, locks, queue>>

IsZombieChild(q, p) == parent[q] = p /\ state[q] = "ZOMBIE"

\* One round of wait()'s loop for the process p on CPU c: free the first zombie
\* child, give up, or sleep on itself.
Reap(p) ==
  /\ \E z \in Slots :
       /\ IsZombieChild(z, p)
       /\ \A q \in Slots : q < z => ~IsZombieChild(q, p)
       /\ pid' = [pid EXCEPT ![z] = 0]
       /\ parent' = [parent EXCEPT ![z] = NoSlot]
       /\ killed' = [killed EXCEPT ![z] = 0]
       /\ state' = [state EXCEPT ![z] = "UNUSED"]
  /\ place' = [place EXCEPT ![p] = "user"]
  /\ chan' = [chan EXCEPT ![p] = NoChan]
  /\ lock' = NoCPU
  /\ UNCHANGED cproc

WaitGivesUp(p) ==
  /\ \A q \in Slots : ~IsZombieChild(q, p)
  /\ (\A q \in Slots : parent[q] # p) \/ killed[p] # 0
  /\ place' = [place EXCEPT ![p] = "user"]
  /\ chan' = [chan EXCEPT ![p] = NoChan]
  /\ lock' = NoCPU
  /\ UNCHANGED <<state, pid, parent, killed, cproc>>

WaitSleeps(c, p) ==
  /\ \A q \in Slots : ~IsZombieChild(q, p)
  /\ \E q \in Slots : parent[q] = p
  /\ killed[p] = 0
  /\ place' = [place EXCEPT ![p] = "wait"]
  /\ chan' = [chan EXCEPT ![p] = p]
  /\ state' = [state EXCEPT ![p] = "SLEEPING"]
  /\ sched(c)
  /\ UNCHANGED <<pid, parent, killed>>

WaitRound(c, p) == Reap(p) \/ WaitGivesUp(p) \/ WaitSleeps(c, p)

Wait(c) ==
  /\ Syscall(c, "wait")
  /\ lock = NoCPU
  /\ WaitRound(c, cproc[c])
  /\ UNCHANGED <<niceness, vdeadline, ticks_left, child, until, nicearg, nextpid, ticks,
                 started, trap, tickslock, queue, panicked>>

\* The first slot with that pid, whatever its state.
Kill(c, target) ==
  /\ Syscall(c, "kill")
  /\ lock = NoCPU
  /\ \E p \in Slots :
       /\ pid[p] = target
       /\ \A q \in Slots : q < p => pid[q] # target
       /\ killed' = [killed EXCEPT ![p] = 1]
       /\ state' = IF state[p] = "SLEEPING" THEN [state EXCEPT ![p] = "RUNNABLE"]
                                            ELSE state
  /\ UNCHANGED <<pid, parent, chan, niceness, vdeadline, ticks_left, locals,
                 nextpid, ticks, cpu, locks, queue, panicked>>

-----------------------------------------------------------------------------
(* sleep and wakeup.  sys_sleep reads ticks under tickslock; sleep takes    *)
(* ptable.lock before it lets tickslock go.                                *)

SysSleep(c, n) ==
  /\ Syscall(c, "sleep")
  /\ tickslock = NoCPU
  /\ tickslock' = c
  /\ until' = [until EXCEPT ![cproc[c]] = ticks + n]
  /\ place' = [place EXCEPT ![cproc[c]] = "check"]
  /\ UNCHANGED <<proc, child, nicearg, nextpid, ticks, cpu, lock, queue, panicked>>

\* while(ticks - ticks0 < n): the call ends, or the process goes on to sleep.
SleepCheck(c) ==
  /\ At(c, "check")
  /\ LET p == cproc[c] IN
       IF ticks >= until[p] \/ killed[p] # 0
       THEN /\ tickslock' = NoCPU
            /\ until' = [until EXCEPT ![p] = 0]
            /\ place' = [place EXCEPT ![p] = "user"]
       ELSE /\ place' = [place EXCEPT ![p] = "dosleep"]
            /\ UNCHANGED <<tickslock, until>>
  /\ UNCHANGED <<proc, child, nicearg, nextpid, ticks, cpu, lock, queue, panicked>>

SleepOnTicks(c) ==
  /\ At(c, "dosleep")
  /\ lock = NoCPU
  /\ tickslock' = NoCPU
  /\ chan' = [chan EXCEPT ![cproc[c]] = TicksChan]
  /\ state' = [state EXCEPT ![cproc[c]] = "SLEEPING"]
  /\ place' = [place EXCEPT ![cproc[c]] = "asleep"]
  /\ sched(c)
  /\ UNCHANGED <<pid, parent, killed, niceness, vdeadline, ticks_left, child, until,
                 nicearg, nextpid, ticks, started, trap, queue, panicked>>

\* Back from sleep(), which takes tickslock again for the loop's next check.
RetakeTicksLock(c) ==
  /\ At(c, "awake")
  /\ tickslock = NoCPU
  /\ tickslock' = c
  /\ place' = [place EXCEPT ![cproc[c]] = "check"]
  /\ UNCHANGED <<proc, child, until, nicearg, nextpid, ticks, cpu, lock, queue, panicked>>

\* A system call that blocks on a device or a pipe; its own lock and condition are
\* not part of this module.
SleepOnDevice(c) ==
  /\ Syscall(c, "read")
  /\ lock = NoCPU
  /\ chan' = [chan EXCEPT ![cproc[c]] = DeviceChan]
  /\ state' = [state EXCEPT ![cproc[c]] = "SLEEPING"]
  /\ place' = [place EXCEPT ![cproc[c]] = "device"]
  /\ sched(c)
  /\ UNCHANGED <<pid, parent, killed, niceness, vdeadline, ticks_left, child, until,
                 nicearg, nextpid, ticks, started, trap, tickslock, queue, panicked>>

\* The device's interrupt handler calls wakeup.
WakeDevice ==
  /\ lock = NoCPU
  /\ state' = wakeup1(state, DeviceChan)
  /\ UNCHANGED <<pid, parent, chan, killed, niceness, vdeadline, ticks_left, locals,
                 nextpid, ticks, cpu, locks, queue, panicked>>

-----------------------------------------------------------------------------
(* The timer interrupt.  Interrupts are off until a CPU enters scheduler() *)
(* and while it holds a spinlock.                                          *)

\* Mutant: tickslock is taken with interrupts on.
InterruptibleInSleep(c) == c \in started /\ trap[c] = "none" /\ lock # c

Interruptible(c) == c \in started /\ trap[c] = "none" /\ lock # c /\ tickslock # c

\* Mutant: ticks is advanced without tickslock.
TimerBootUnlocked ==
  /\ Interruptible(BootCPU)
  /\ ticks < MaxTicks
  /\ ticks' = ticks + 1
  /\ trap' = [trap EXCEPT ![BootCPU] = "tick"]
  /\ UNCHANGED <<proc, locals, nextpid, cproc, started, locks, queue, panicked>>

TimerBoot ==
  /\ Interruptible(BootCPU)
  /\ tickslock = NoCPU
  /\ ticks < MaxTicks
  /\ tickslock' = BootCPU
  /\ ticks' = ticks + 1
  /\ trap' = [trap EXCEPT ![BootCPU] = "tick"]
  /\ UNCHANGED <<proc, locals, nextpid, cproc, started, lock, queue, panicked>>

TickWakeup ==
  /\ trap[BootCPU] = "tick"
  /\ lock = NoCPU
  /\ state' = wakeup1(state, TicksChan)
  /\ tickslock' = NoCPU
  /\ trap' = [trap EXCEPT ![BootCPU] = "account"]
  /\ UNCHANGED <<pid, parent, chan, killed, niceness, vdeadline, ticks_left, locals,
                 nextpid, ticks, cproc, started, lock, queue, panicked>>

TimerOther(c) ==
  /\ c # BootCPU
  /\ Interruptible(c)
  /\ trap' = [trap EXCEPT ![c] = "account"]
  /\ UNCHANGED <<proc, locals, nextpid, ticks, cproc, started, locks, queue, panicked>>

\* The end of trap(): exit if killed in user mode, else charge the process a tick
\* and yield when its quantum is used up.
Account(c) ==
  /\ trap[c] = "account"
  /\ LET p == cproc[c] IN
       \/ /\ p = NoSlot
          /\ trap' = [trap EXCEPT ![c] = "none"]
          /\ UNCHANGED <<place, ticks_left>>
       \/ /\ p # NoSlot
          /\ killed[p] # 0 /\ place[p] = "user"
          /\ trap' = [trap EXCEPT ![c] = "none"]
          /\ place' = [place EXCEPT ![p] = "exit"]
          /\ UNCHANGED ticks_left
       \/ /\ p # NoSlot
          /\ ~(killed[p] # 0 /\ place[p] = "user")
          /\ state[p] = "RUNNING"
          /\ ticks_left' = [ticks_left EXCEPT ![p] = @ - 1]
          /\ trap' = [trap EXCEPT ![c] = IF ticks_left[p] - 1 = 0 THEN "yield" ELSE "none"]
          /\ UNCHANGED place
  /\ UNCHANGED <<state, pid, parent, chan, killed, niceness, vdeadline, child, until,
                 nicearg, nextpid, ticks, cproc, started, locks, queue, panicked>>

\* Mutant: the deadline moves at every yield.
YieldDeadlineAlways(p) == Deadline(niceness[p])

YieldDeadline(p) == IF ticks_left[p] <= 0 THEN Deadline(niceness[p]) ELSE vdeadline[p]

\* yield() takes ptable.lock for itself.
yield(c) ==
  /\ lock = NoCPU
  /\ LET p == cproc[c] IN
       /\ state' = [state EXCEPT ![p] = "RUNNABLE"]
       /\ vdeadline' = [vdeadline EXCEPT ![p] = YieldDeadline(p)]
  /\ sched(c)
  /\ UNCHANGED <<pid, parent, chan, killed, niceness, ticks_left, locals,
                 nextpid, ticks, started, tickslock, queue, panicked>>

SysYield(c) ==
  /\ Syscall(c, "yield")
  /\ yield(c)
  /\ UNCHANGED trap

TimerYield(c) ==
  /\ trap[c] = "yield"
  /\ trap' = [trap EXCEPT ![c] = "none"]
  /\ yield(c)

-----------------------------------------------------------------------------
(* scheduler().                                                            *)

\* Each CPU empties the list as it enters, without the lock.
EnterScheduler(c) ==
  /\ c \notin started
  /\ started' = started \cup {c}
  /\ queue' = {}
  /\ UNCHANGED <<proc, locals, nextpid, ticks, cproc, trap, locks, panicked>>

\* The pass over the table: runnable processes are in, other live ones are out.
Populated ==
  (queue \cup {Entry(p) : p \in {q \in Slots : state[q] = "RUNNABLE"}})
    \ {Entry(p) : p \in {q \in Slots : state[q] \notin {"UNUSED", "RUNNABLE"}}}

\* Mutant: the pid is taken for the slot.
NextProcByPid(e) == e.pid

\* The last slot with the entry's pid, or else the slot the pid numbers.
NextProc(e) ==
  IF \E p \in Slots : pid[p] = e.pid
  THEN CHOOSE p \in Slots : pid[p] = e.pid /\ \A q \in Slots : q > p => pid[q] # e.pid
  ELSE e.pid

\* Mutant: the list is sorted the other way.
Latest(q) == {e \in q : \A f \in q : e.value >= f.value}

Earliest(q) == {e \in q : \A f \in q : e.value <= f.value}

InScheduler(c) == c \in started /\ cproc[c] = NoSlot /\ trap[c] = "none" /\ lock = NoCPU

SchedulerIdle(c) ==
  /\ InScheduler(c)
  /\ Populated = {}
  /\ queue' = {}
  /\ UNCHANGED <<proc, locals, nextpid, ticks, cpu, locks, panicked>>

\* Mutant: the entry taken stays in the list.
TakenStays(e) == Populated

Taken(e) == Populated \ {e}

Refilled(p) == IF ticks_left[p] <= 0 THEN BFS_DEFAULT_QUANTUM ELSE ticks_left[p]

Schedule(c) ==
  /\ InScheduler(c)
  /\ \E e \in Earliest(Populated) :
       LET p == NextProc(e) IN
         /\ queue' = Taken(e)
         /\ cproc' = [cproc EXCEPT ![c] = p]
         /\ state' = [state EXCEPT ![p] = "RUNNING"]
         /\ ticks_left' = [ticks_left EXCEPT ![p] = Refilled(p)]
  /\ lock' = c
  /\ UNCHANGED <<pid, parent, chan, killed, niceness, vdeadline, locals,
                 nextpid, ticks, started, trap, tickslock, panicked>>

\* The process runs again after swtch, with ptable.lock held: at the end of yield or
\* in forkret it releases the lock; at the end of sleep it clears chan first; in wait
\* it looks for zombies again before letting the lock go.
Resume(c) ==
  /\ lock = c
  /\ LET p == cproc[c] IN
       \/ /\ place[p] \notin {"wait", "asleep", "device"}
          /\ lock' = NoCPU
          /\ UNCHANGED <<state, pid, parent, chan, killed, place, cproc>>
       \/ /\ place[p] \in {"asleep", "device"}
          /\ chan' = [chan EXCEPT ![p] = NoChan]
          /\ place' = [place EXCEPT ![p] = IF @ = "asleep" THEN "awake" ELSE "user"]
          /\ lock' = NoCPU
          /\ UNCHANGED <<state, pid, parent, killed, cproc>>
       \/ /\ place[p] = "wait"
          /\ WaitRound(c, p)
  /\ UNCHANGED <<niceness, vdeadline, ticks_left, child, until, nicearg, nextpid, ticks,
                 started, trap, tickslock, queue, panicked>>

-----------------------------------------------------------------------------

CPUStep(c) ==
  \/ \E nice \in NiceArgs : AllocProc(c, nice)
  \/ ForkFails(c) \/ AllocDone(c) \/ ForkFill(c) \/ ForkDone(c)
  \/ EnterExit(c) \/ Fault(c) \/ Exit(c) \/ InitExits(c)
  \/ Wait(c)
  \/ \E target \in 0 .. MaxPid : Kill(c, target)
  \/ \E n \in SleepArgs : SysSleep(c, n)
  \/ SleepCheck(c) \/ SleepOnTicks(c) \/ RetakeTicksLock(c)
  \/ SleepOnDevice(c)
  \/ TimerOther(c) \/ Account(c) \/ SysYield(c) \/ TimerYield(c)
  \/ EnterScheduler(c) \/ SchedulerIdle(c) \/ Schedule(c) \/ Resume(c)

Running ==
  \/ \E c \in CPUs : CPUStep(c)
  \/ WakeDevice
  \/ TimerBoot
  \/ TickWakeup

\* panic() loops for ever.
Halted == panicked /\ UNCHANGED vars

Next == (~panicked /\ Running) \/ Halted

Spec == Init /\ [][Next]_vars

-----------------------------------------------------------------------------
(* Properties.                                                             *)

ProcTypeOK ==
  /\ state \in [Slots -> States]
  /\ pid \in [Slots -> Nat]
  /\ parent \in [Slots -> Slots \cup {NoSlot}]
  /\ chan \in [Slots -> Chans]
  /\ killed \in [Slots -> {0, 1}]
  /\ niceness \in [Slots -> Int]
  /\ vdeadline \in [Slots -> Int]
  /\ ticks_left \in [Slots -> Int]

LocalsTypeOK ==
  /\ place \in [Slots -> Places]
  /\ child \in [Slots -> Slots \cup {NoSlot}]
  /\ until \in [Slots -> Nat]
  /\ nicearg \in [Slots -> Int]
  /\ nextpid \in Nat
  /\ ticks \in Nat

CPUTypeOK ==
  /\ cproc \in [CPUs -> Slots \cup {NoSlot}]
  /\ started \in SUBSET CPUs
  /\ trap \in [CPUs -> {"none", "tick", "account", "yield"}]
  /\ lock \in CPUs \cup {NoCPU}
  /\ tickslock \in CPUs \cup {NoCPU}
  /\ queue \in SUBSET [value : Int, pid : Nat]
  /\ panicked \in BOOLEAN

\* The fields of struct proc, the locals of a process in the kernel and those of
\* struct cpu have their types: in particular the process a CPU is switched to is a
\* slot of the table, although NextProc falls back on the pid itself (proc.c 418).
TypeOK == ProcTypeOK /\ LocalsTypeOK /\ CPUTypeOK

\* A process is RUNNING exactly while one CPU has it as its current process, and no
\* two CPUs have the same one: the state a process is left in by yield, sleep, exit
\* and the scheduler agrees with struct cpu at every release of ptable.lock.
RunsOnOneCPU ==
  /\ \A p \in Slots : state[p] = "RUNNING" <=> \E c \in CPUs : cproc[c] = p
  /\ \A c, d \in CPUs : c # d /\ cproc[c] # NoSlot => cproc[c] # cproc[d]

\* Every entry of the skip list names a process that is runnable and carries its
\* present deadline.  The scheduler assumes so when it inserts without looking for
\* an older entry of the same process ("We assume that possible duplicate would
\* already be invalid", proc.c 394) and when it runs whatever it takes from the list.
QueueIsFresh ==
  \A e \in queue : \E p \in Slots : state[p] = "RUNNABLE" /\ Entry(p) = e

\* Every process but init has a parent that can still call wait for it: exit hands
\* its children to init before it becomes a zombie, and a fork that is under way
\* keeps its process from exiting.
ParentAlive ==
  \A p \in Slots \ {initproc} :
    state[p] \in {"RUNNABLE", "RUNNING", "SLEEPING", "ZOMBIE"} =>
      /\ parent[p] \in Slots
      /\ state[parent[p]] \in {"RUNNABLE", "RUNNING", "SLEEPING"}

\* No wakeup is lost between exit and wait: a process asleep in wait has no zombie
\* child and has not been killed, whether the zombie was its own child or came to
\* init from a parent that exited.
NoStuckWaiter ==
  \A p \in Slots : state[p] = "SLEEPING" /\ chan[p] = p =>
    /\ killed[p] = 0
    /\ \A q \in Slots : ~IsZombieChild(q, p)

\* No wakeup is lost between the clock and sys_sleep: a process is asleep past its
\* time only while the timer interrupt, with tickslock held, is about to wake it.
NoMissedTick ==
  \A p \in Slots : state[p] = "SLEEPING" /\ chan[p] = TicksChan =>
    ticks < until[p] \/ trap[BootCPU] = "tick"

\* A running process has between 1 and BFS_DEFAULT_QUANTUM ticks to go, except
\* between the tick that uses the quantum up and the yield it forces.
QuantumBounded ==
  \A c \in CPUs : cproc[c] # NoSlot =>
    /\ ticks_left[cproc[c]] <= BFS_DEFAULT_QUANTUM
    /\ ticks_left[cproc[c]] > 0 \/ trap[c] = "yield"

\* The scheduler runs a process that was runnable, with a deadline no later than
\* that of any other runnable process.
EarliestDeadlineFirst ==
  [][\A p \in Slots : state[p] # "RUNNING" /\ state'[p] = "RUNNING" =>
       /\ state[p] = "RUNNABLE"
       /\ \A q \in Slots : state[q] = "RUNNABLE" => vdeadline[p] <= vdeadline[q]]_vars

\* A deadline changes only "whenever a process is created or fully consumes its
\* quantum" (proc.h 56): sleeping, waking, being killed and yielding early keep it.
DeadlineKept ==
  [][\A p \in Slots : vdeadline'[p] # vdeadline[p] =>
       state[p] = "EMBRYO" \/ (state[p] = "RUNNING" /\ ticks_left[p] = 0)]_vars

-----------------------------------------------------------------------------
(* What the proofs need besides: the parts of the inductive invariant.     *)

Alive == {"RUNNABLE", "RUNNING", "SLEEPING"}

Forking == {"claimed", "copying", "launch"}

\* Pids are handed out once, whether their slot is in use or a failed fork left it.
PidsDistinct ==
  /\ nextpid > 0
  /\ \A p \in Slots : pid[p] < nextpid /\ (state[p] # "UNUSED" => pid[p] > 0)
  /\ \A p, q \in Slots : p # q /\ pid[p] = pid[q] => pid[p] = 0

\* The slot a fork has claimed is its own until the fork ends.
ForkOwnsChild ==
  /\ \A p \in Slots : place[p] \in Forking =>
       /\ state[p] \in {"RUNNABLE", "RUNNING"}
       /\ child[p] \in Slots
       /\ state[child[p]] = "EMBRYO"
       /\ place[p] = "launch" => parent[child[p]] = p
  /\ \A p, q \in Slots :
       place[p] \in Forking /\ place[q] \in Forking /\ p # q => child[p] # child[q]

\* init never dies and has no parent, so handing orphans to it makes no cycle.
FamilyTree ==
  /\ ParentAlive
  /\ state[initproc] \in Alive
  /\ parent[initproc] = NoSlot
  /\ \A p \in Slots : parent[p] # p

\* Only a CPU that has just switched to a process holds ptable.lock between steps.
LockHandedOver ==
  \A c \in CPUs :
    /\ lock = c => cproc[c] # NoSlot /\ trap[c] = "none"
    /\ trap[c] = "yield" => cproc[c] # NoSlot

\* tickslock is held by the timer interrupt or by a process inside sys_sleep, and
\* keeps ticks still between that process's check and its going to sleep.
TicksLockHeld ==
  /\ trap[BootCPU] = "tick" => tickslock = BootCPU
  /\ \A p \in Slots : place[p] \in {"check", "dosleep"} =>
       \E c \in CPUs :
         /\ cproc[c] = p
         /\ tickslock = c
         /\ trap[c] = "none"
         /\ lock # c
         /\ place[p] = "dosleep" => ticks < until[p]

\* A quantum never goes below zero, for a process that runs or for one that waits.
QuantumInRange ==
  /\ \A p \in Slots : 0 <= ticks_left[p] /\ ticks_left[p] <= BFS_DEFAULT_QUANTUM
  /\ QuantumBounded

\* All of these together, which every step of every CPU preserves.
IInv ==
  /\ TypeOK
  /\ RunsOnOneCPU
  /\ PidsDistinct
  /\ QueueIsFresh
  /\ ForkOwnsChild
  /\ FamilyTree
  /\ LockHandedOver
  /\ NoStuckWaiter
  /\ TicksLockHeld
  /\ NoMissedTick
  /\ QuantumInRange

-----------------------------------------------------------------------------
(* What the sources say and the code does not do.                          *)

\* proc.h 57-58: a deadline "is computed as the current time (in ticks) plus the
\* product of the process' priority ratio and the default quantum amount".
DeadlineIsProduct ==
  [][\A p \in Slots : vdeadline'[p] # vdeadline[p] =>
       vdeadline'[p] = ticks + (niceness'[p] + PRIO_BASE) * BFS_DEFAULT_QUANTUM]_vars

\* bfs.h 1: BFS_DEFAULT_QUANTUM is the "Length of quantum (in ticks) assigned by
\* default to each process".  The scheduler assigns it to a process that has no ticks
\* left, so a new process must start without any.
NewProcessGetsQuantum ==
  [][\A p \in Slots : state[p] = "EMBRYO" /\ state'[p] = "RUNNABLE" =>
       ticks_left[p] <= 0]_vars
=============================================================================

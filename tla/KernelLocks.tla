----------------------------- MODULE KernelLocks -----------------------------
(***************************************************************************)
(* The kernel's use of its spin locks.  A critical section is the sequence *)
(* of lock operations from a first acquire to the release that leaves the  *)
(* thread without a spin lock; system calls and exit() are sequences of    *)
(* sections, the interrupt handlers and a pass of the scheduler are one or *)
(* two.  A process may run any section at any time, and a process that has *)
(* given up the CPU may get it back at any time: what decides this (data,  *)
(* sleep and wakeup) is in the other modules.  A loop that sleeps does so  *)
(* at most once, since it is then back where it was.                       *)
(***************************************************************************)
EXTENDS Spinlock, Sequences

CONSTANTS
  pipelock, idelock, slk, loglock, tickslock, cons, kmem,
  Prints,         \* the scheduler prints: BFS_PRINT is 1, or schedlog is active
  ConsoleInput    \* there is console input and somebody reads it

VARIABLES
  code,           \* what is left of the section a thread is in
  icode           \* the same for the handler that has interrupted it

kvars == <<vars, code, icode>>

Acq(l) == [op |-> "acquire", lock |-> l]
Rel(l) == [op |-> "release", lock |-> l]
Sch == [op |-> "sched", lock |-> ptable]
Pick == [op |-> "swtch", lock |-> ptable]
Die == [op |-> "exit", lock |-> ptable]

\* Each way through one of S, then each through one of T.
Then(S, T) == {s \o t : s \in S, t \in T}

Maybe(S) == S \cup {<<>>}

-----------------------------------------------------------------------------
(* proc.c                                                                  *)

wakeup == {<<Acq(ptable), Rel(ptable)>>}

sleepSwapsBack(l) ==
  IF l = ptable THEN {<<Sch>>} ELSE {<<Acq(ptable), Rel(l), Sch, Acq(l), Rel(ptable)>>}

sleep(l) ==
  IF l = ptable THEN {<<Sch>>} ELSE {<<Acq(ptable), Rel(l), Sch, Rel(ptable), Acq(l)>>}

\* A section that only holds l: kalloc, kfree, allocproc, kill, cprintf, ...
Only(l) == {<<Acq(l), Rel(l)>>}

\* A section on l with S in it.
Section(l, S) == Then(Then({<<Acq(l)>>}, S), {<<Rel(l)>>})

wait == Section(ptable, Then(Maybe(sleep(ptable)), Maybe(Only(kmem))))

yield == {<<Acq(ptable), Sch, Rel(ptable)>>}

exit == {<<Acq(ptable), Die>>}

dbgprintf == IF Prints THEN Only(cons) ELSE {<<>>}

\* One pass of scheduler() after sti(): the list is brought up to date and a process, if
\* there is one, is taken out of it, both with prints; the process comes back to the
\* last release.
scheduler ==
  Section(ptable, Then(Maybe(dbgprintf), Maybe(Then(dbgprintf, {<<Pick>>}))))

-----------------------------------------------------------------------------
(* Files, disk, pipes, console, clock.                                     *)

acquiresleep == Section(slk, Maybe(sleep(slk)))

releasesleep == Section(slk, wakeup)

\* The buffer is not valid before the interrupt, which needs idelock.
iderw == Section(idelock, sleep(idelock))

ideintr == Section(idelock, Maybe(wakeup))

begin_op == Section(loglock, Maybe(sleep(loglock)))

end_op == Section(loglock, Maybe(wakeup))

pipeclose == Section(pipelock, wakeup)

pipewrite == Section(pipelock, Then(Maybe(Then(wakeup, sleep(pipelock))), Maybe(wakeup)))

piperead == Section(pipelock, Then(Maybe(sleep(pipelock)), Maybe(wakeup)))

consoleread == Section(cons, Maybe(sleep(cons)))

\* procdump, which prints, comes after the release.
consoleintr == Then(Section(cons, Maybe(wakeup)), Maybe(Only(cons)))

sys_sleep == Section(tickslock, Maybe(sleep(tickslock)))

clock == Section(tickslock, wakeup)

-----------------------------------------------------------------------------
Calls ==
  UNION {Only(l) : l \in Locks}
    \cup wait \cup yield \cup exit \cup acquiresleep \cup releasesleep \cup iderw
    \cup begin_op \cup end_op \cup pipeclose \cup pipewrite \cup piperead \cup sys_sleep
    \cup (IF ConsoleInput THEN consoleread ELSE {})

\* The part of trap() for devices and the clock; a process may yield at the end.
trap(t) ==
  LET device == Maybe(clock) \cup ideintr \cup Only(cons)
                  \cup (IF ConsoleInput THEN consoleintr ELSE {})
  IN  device \cup (IF t \in Procs THEN Then(Maybe(clock), yield) ELSE {})

KInit ==
  /\ Init
  /\ code = [t \in CPUs \cup Procs |-> IF t \in Procs THEN <<Rel(ptable)>> ELSE <<>>]
  /\ icode = [t \in CPUs \cup Procs |-> <<>>]

Todo(t) == IF inirq[t] THEN icode[t] ELSE code[t]

\* The thread on c does the first operation of q and has the rest left.
Step(c, q) ==
  /\ CASE Head(q).op = "acquire" -> acquire(c, Head(q).lock)
       [] Head(q).op = "release" -> release(c, Head(q).lock)
       [] Head(q).op = "swtch" -> \E p \in Procs : Todo(p) # <<Die>> /\ swtch(c, p)
       [] OTHER -> sched(c)
  /\ LET rest == IF Head(q).op = "exit" THEN q ELSE Tail(q)
     IN  IF inirq[cur[c]]
         THEN icode' = [icode EXCEPT ![cur[c]] = rest] /\ UNCHANGED code
         ELSE code' = [code EXCEPT ![cur[c]] = rest] /\ UNCHANGED icode

Continue(c) == Todo(cur[c]) # <<>> /\ Step(c, Todo(cur[c]))

\* A system call starts its next section, or exit() does that trap() calls for a process
\* interrupted in user space.
Call(c) ==
  /\ cur[c] \in Procs
  /\ Todo(cur[c]) = <<>>
  /\ code[cur[c]] = <<>>
  /\ \E q \in Calls : Step(c, q)

Lock(c) == (Take(c) \/ Record(c) \/ Unlock(c)) /\ UNCHANGED <<code, icode>>

Trap(c) ==
  /\ Interrupt(c)
  /\ \E q \in trap(cur[c]) : icode' = [icode EXCEPT ![cur[c]] = q]
  /\ UNCHANGED code

TrapReturn(c) == icode[cur[c]] = <<>> /\ iret(c) /\ UNCHANGED <<code, icode>>

Loop(c) == code[c] = <<>> /\ sti(c) /\ UNCHANGED <<code, icode>>

Pass(c) ==
  /\ cur[c] = c
  /\ ready[c] /\ ~inirq[c]
  /\ code[c] = <<>>
  /\ \E q \in scheduler : Step(c, q)

\* The slot of a process that has exited gets a new one, which starts in forkret.
Fork(p) ==
  /\ Todo(p) = <<Die>>
  /\ allocproc(p)
  /\ code' = [code EXCEPT ![p] = <<Rel(ptable)>>]
  /\ icode' = [icode EXCEPT ![p] = <<>>]

KNext ==
  \/ \E c \in CPUs :
       Continue(c) \/ Call(c) \/ Lock(c) \/ Trap(c) \/ TrapReturn(c)
         \/ Loop(c) \/ Pass(c)
  \/ \E p \in Procs : Fork(p)

KSpec == KInit /\ [][KNext]_kvars

\* The kernel takes its locks in the order of Rank, enters the scheduler with ptable.lock
\* alone and leaves handlers without a lock, so it is one of the uses that Spinlock's
\* theorems are about.
LocksInOrder == Spec
=============================================================================

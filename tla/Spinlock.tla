------------------------------ MODULE Spinlock ------------------------------
(***************************************************************************)
(* Spin locks and interrupt masking (spinlock.c), and the part of the      *)
(* context switch that touches them: sched() carries intena over, the      *)
(* scheduler hands ptable.lock to the process it switches to, and an       *)
(* interrupt runs on the stack of whatever it interrupts.                  *)
(*                                                                         *)
(* A CPU runs its own scheduler thread or a process.  What that thread     *)
(* does between lock operations is left open: Next allows any use of the   *)
(* locks that takes them in the order Rank gives and that calls sched and  *)
(* swtch with ptable.lock alone.  KernelLocks shows that the kernel's code *)
(* is such a use.                                                          *)
(***************************************************************************)
EXTENDS Integers, FiniteSets

CONSTANTS
  CPUs, NoCPU,
  Procs,
  Locks, NoLock,
  ptable,         \* ptable.lock
  Rank            \* a lock is taken while holding locks of higher rank only

ASSUME SpinlockAssumption ==
  /\ NoCPU \notin CPUs
  /\ CPUs \cap Procs = {}
  /\ IsFiniteSet(Locks)
  /\ NoLock \notin Locks
  /\ ptable \in Locks
  /\ Rank \in [Locks -> Nat]

VARIABLES
  locked, owner,   \* struct spinlock's locked and cpu
  ncli, intena,    \* struct cpu's
  ie,              \* the CPU's interrupt flag, FL_IF
  stage, lk,       \* where the CPU is inside acquire or release, and of which lock
  held,            \* the locks whose acquire has returned, not yet released
  cur,             \* the thread on the CPU, the CPU itself for its scheduler
  inirq,           \* the thread has been interrupted and runs the handler
  saved,           \* sched()'s local intena
  fresh,           \* the processes that start in forkret
  ready,           \* the scheduler has passed sti() and may still pick a process
  panicked

lockvars == <<locked, owner, stage, lk, held>>
cpuvars == <<ncli, intena, ie>>
threads == <<cur, inirq, saved, fresh, ready>>
vars == <<lockvars, cpuvars, threads, panicked>>

\* The state mpmain leaves: interrupts off, nothing locked.
Init ==
  /\ locked = [l \in Locks |-> 0]
  /\ owner = [l \in Locks |-> NoCPU]
  /\ ncli = [c \in CPUs |-> 0]
  /\ intena = [c \in CPUs |-> FALSE]
  /\ ie = [c \in CPUs |-> FALSE]
  /\ stage = [c \in CPUs |-> "run"]
  /\ lk = [c \in CPUs |-> NoLock]
  /\ held = [c \in CPUs |-> {}]
  /\ cur = [c \in CPUs |-> c]
  /\ inirq = [t \in CPUs \cup Procs |-> FALSE]
  /\ saved = [p \in Procs |-> FALSE]
  /\ fresh = Procs
  /\ ready = [c \in CPUs |-> FALSE]
  /\ panicked = FALSE

Panic == panicked' = TRUE

pushcli(c) ==
  /\ ie' = [ie EXCEPT ![c] = FALSE]
  /\ intena' = [intena EXCEPT ![c] = IF ncli[c] = 0 THEN ie[c] ELSE @]
  /\ ncli' = [ncli EXCEPT ![c] = @ + 1]

popcliUnnested(c) ==
  /\ ncli' = [ncli EXCEPT ![c] = @ - 1]
  /\ ie' = [ie EXCEPT ![c] = intena[c]]
  /\ UNCHANGED <<intena, panicked>>

popcli(c) ==
  /\ ncli' = [ncli EXCEPT ![c] = @ - 1]
  /\ IF ie[c] \/ ncli[c] < 1
     THEN Panic /\ UNCHANGED ie
     ELSE ie' = [ie EXCEPT ![c] = ncli[c] = 1 /\ intena[c]] /\ UNCHANGED panicked
  /\ UNCHANGED intena

holding(c, l) == locked[l] = 1 /\ owner[l] = c

-----------------------------------------------------------------------------
(* acquire: mask interrupts, spin on xchg, record the holder.              *)

acquire(c, l) ==
  /\ stage[c] = "run"
  /\ pushcli(c)
  /\ IF holding(c, l)
     THEN Panic /\ UNCHANGED <<stage, lk>>
     ELSE /\ stage' = [stage EXCEPT ![c] = "spin"]
          /\ lk' = [lk EXCEPT ![c] = l]
          /\ UNCHANGED panicked
  /\ UNCHANGED <<locked, owner, held, threads>>

TakeBlindly(c) ==
  /\ stage[c] = "spin"
  /\ locked' = [locked EXCEPT ![lk[c]] = 1]
  /\ stage' = [stage EXCEPT ![c] = "record"]
  /\ UNCHANGED <<owner, lk, held, cpuvars, threads, panicked>>

Take(c) ==
  /\ stage[c] = "spin"
  /\ locked[lk[c]] = 0
  /\ locked' = [locked EXCEPT ![lk[c]] = 1]
  /\ stage' = [stage EXCEPT ![c] = "record"]
  /\ UNCHANGED <<owner, lk, held, cpuvars, threads, panicked>>

Record(c) ==
  /\ stage[c] = "record"
  /\ owner' = [owner EXCEPT ![lk[c]] = c]
  /\ held' = [held EXCEPT ![c] = @ \cup {lk[c]}]
  /\ stage' = [stage EXCEPT ![c] = "run"]
  /\ lk' = [lk EXCEPT ![c] = NoLock]
  /\ UNCHANGED <<locked, cpuvars, threads, panicked>>

(* release: forget the holder, unlock, unmask.                             *)

release(c, l) ==
  /\ stage[c] = "run"
  /\ IF ~holding(c, l)
     THEN Panic /\ UNCHANGED lockvars
     ELSE /\ owner' = [owner EXCEPT ![l] = NoCPU]
          /\ held' = [held EXCEPT ![c] = @ \ {l}]
          /\ stage' = [stage EXCEPT ![c] = "unlock"]
          /\ lk' = [lk EXCEPT ![c] = l]
          /\ UNCHANGED <<locked, panicked>>
  /\ UNCHANGED <<cpuvars, threads>>

Unlock(c) ==
  /\ stage[c] = "unlock"
  /\ locked' = [locked EXCEPT ![lk[c]] = 0]
  /\ stage' = [stage EXCEPT ![c] = "run"]
  /\ lk' = [lk EXCEPT ![c] = NoLock]
  /\ popcli(c)
  /\ UNCHANGED <<owner, held, threads>>

-----------------------------------------------------------------------------
(* Interrupts.  The gates of trap.c's tvinit clear FL_IF for every vector   *)
(* but the system call's; iret restores it.                                *)

Interrupt(c) ==
  /\ stage[c] = "run"
  /\ ie[c]
  /\ ie' = [ie EXCEPT ![c] = FALSE]
  /\ inirq' = [inirq EXCEPT ![cur[c]] = TRUE]
  /\ UNCHANGED <<lockvars, ncli, intena, cur, saved, fresh, ready, panicked>>

iret(c) ==
  /\ stage[c] = "run"
  /\ inirq[cur[c]]
  /\ ie' = [ie EXCEPT ![c] = TRUE]
  /\ inirq' = [inirq EXCEPT ![cur[c]] = FALSE]
  /\ UNCHANGED <<lockvars, ncli, intena, cur, saved, fresh, ready, panicked>>

(* The scheduler thread.                                                   *)

sti(c) ==
  /\ stage[c] = "run"
  /\ cur[c] = c
  /\ ~inirq[c]
  /\ ie' = [ie EXCEPT ![c] = TRUE]
  /\ ready' = [ready EXCEPT ![c] = TRUE]
  /\ UNCHANGED <<lockvars, ncli, intena, cur, inirq, saved, fresh, panicked>>

\* The process goes on after its own call of swtch in sched(), where it sets intena
\* back, or at the start of forkret.
swtch(c, p) ==
  /\ stage[c] = "run"
  /\ cur[c] = c
  /\ ~inirq[c]
  /\ ready[c]
  /\ \A d \in CPUs : cur[d] # p
  /\ cur' = [cur EXCEPT ![c] = p]
  /\ intena' = [intena EXCEPT ![c] = IF p \in fresh THEN @ ELSE saved[p]]
  /\ fresh' = fresh \ {p}
  /\ UNCHANGED <<lockvars, ncli, ie, inirq, saved, ready, panicked>>

sched(c) ==
  /\ stage[c] = "run"
  /\ cur[c] \in Procs
  /\ IF ~holding(c, ptable) \/ ncli[c] # 1 \/ ie[c]
     THEN Panic /\ UNCHANGED <<cur, saved, ready>>
     ELSE /\ saved' = [saved EXCEPT ![cur[c]] = intena[c]]
          /\ cur' = [cur EXCEPT ![c] = c]
          /\ ready' = [ready EXCEPT ![c] = FALSE]
          /\ UNCHANGED panicked
  /\ UNCHANGED <<lockvars, cpuvars, inirq, fresh>>

\* A slot whose process has exited gets a new one.
allocproc(p) ==
  /\ \A c \in CPUs : cur[c] # p
  /\ p \notin fresh
  /\ fresh' = fresh \cup {p}
  /\ inirq' = [inirq EXCEPT ![p] = FALSE]
  /\ UNCHANGED <<lockvars, cpuvars, cur, saved, ready, panicked>>

-----------------------------------------------------------------------------
(* What the rest of the kernel may do.                                     *)

InOrder(c, l) == \A m \in held[c] : Rank[l] < Rank[m]

\* The scheduler takes no lock before it has passed sti().
Acquire(c, l) ==
  /\ InOrder(c, l)
  /\ cur[c] = c => ready[c] \/ inirq[c]
  /\ acquire(c, l)

Release(c, l) == l \in held[c] /\ release(c, l)

Iret(c) == held[c] = {} /\ iret(c)

Sti(c) == held[c] = {} /\ sti(c)

Swtch(c, p) == held[c] = {ptable} /\ swtch(c, p)

Sched(c) == held[c] = {ptable} /\ sched(c)

CPUStep(c) ==
  \/ \E l \in Locks : Acquire(c, l) \/ Release(c, l)
  \/ Take(c) \/ Record(c) \/ Unlock(c)
  \/ Interrupt(c) \/ Iret(c)
  \/ Sti(c) \/ Sched(c)
  \/ \E p \in Procs : Swtch(c, p)

Next ==
  \/ \E c \in CPUs : CPUStep(c)
  \/ \E p \in Procs : allocproc(p)

Spec == Init /\ [][Next]_vars

-----------------------------------------------------------------------------
(* Properties.                                                             *)

TypeOK ==
  /\ locked \in [Locks -> {0, 1}]
  /\ owner \in [Locks -> CPUs \cup {NoCPU}]
  /\ ncli \in [CPUs -> Nat]
  /\ intena \in [CPUs -> BOOLEAN]
  /\ ie \in [CPUs -> BOOLEAN]
  /\ stage \in [CPUs -> {"run", "spin", "record", "unlock"}]
  /\ lk \in [CPUs -> Locks \cup {NoLock}]
  /\ held \in [CPUs -> SUBSET Locks]
  /\ cur \in [CPUs -> CPUs \cup Procs]
  /\ inirq \in [CPUs \cup Procs -> BOOLEAN]
  /\ saved \in [Procs -> BOOLEAN]
  /\ fresh \in SUBSET Procs
  /\ ready \in [CPUs -> BOOLEAN]
  /\ panicked \in BOOLEAN

\* Two CPUs never both have a lock, although the holder is recorded after the xchg
\* and forgotten before the lock is free again, and although a CPU's locks outlive a
\* change of thread.
MutualExclusion ==
  \A c, d \in CPUs : c # d => held[c] \cap held[d] = {}

\* No use of the locks in order makes acquire, release, popcli or sched panic:
\* holding() answers right whenever it is asked, and sched() always finds
\* ptable.lock alone and ncli at 1.
NeverPanics == ~panicked

\* A CPU takes interrupts exactly while its process has no lock and is not in a
\* handler: pushcli and popcli nest, what they restore is the flag of the thread and
\* not of the CPU, and a handler that gives up the CPU does not turn interrupts on
\* for the threads that run before it resumes.
InterruptsMasked ==
  \A c \in CPUs :
    /\ ie[c] => held[c] = {} /\ stage[c] = "run" /\ ~inirq[cur[c]]
    /\ cur[c] \in Procs /\ held[c] = {} /\ stage[c] = "run" /\ ~inirq[cur[c]] => ie[c]

\* Among any CPUs there is one that does not spin for a lock of another of them: no
\* set of CPUs waits in a circle.
NoCyclicWait ==
  \A S \in (SUBSET CPUs) \ {{}} :
    \E c \in S : stage[c] = "spin" => \A d \in S : lk[c] \notin held[d]

-----------------------------------------------------------------------------
(* The parts of the inductive invariant.                                   *)

\* The lock word is set while some CPU has the lock, or is about to record that or
\* has just forgotten it; owner agrees with held.
LockWords ==
  /\ \A c \in CPUs, l \in Locks : owner[l] = c <=> l \in held[c]
  /\ \A c \in CPUs : stage[c] # "run" <=> lk[c] # NoLock
  /\ \A l \in Locks : owner[l] # NoCPU => locked[l] = 1
  /\ \A c \in CPUs : stage[c] \in {"record", "unlock"} =>
       locked[lk[c]] = 1 /\ owner[lk[c]] = NoCPU
  /\ \A c, d \in CPUs :
       stage[c] \in {"record", "unlock"} /\ stage[d] \in {"record", "unlock"}
         /\ lk[c] = lk[d] => c = d

\* ncli counts the locks held, and the one being acquired or released.
CliCountsLocks ==
  \A c \in CPUs :
    ncli[c] = Cardinality(held[c]) + (IF stage[c] = "run" THEN 0 ELSE 1)

\* A lock is waited for in order.
WaitsInOrder ==
  \A c \in CPUs : stage[c] \in {"spin", "record"} => InOrder(c, lk[c])

\* A thread is on one CPU, and a scheduler thread on its own.
ThreadsApart ==
  /\ \A c \in CPUs : cur[c] \in Procs \cup {c}
  /\ \A c, d \in CPUs : cur[c] = cur[d] => c = d
  /\ \A c \in CPUs : cur[c] \notin fresh
  /\ \A p \in fresh : ~inirq[p]
  /\ \A c \in CPUs : cur[c] # c => ~inirq[c]

\* intena holds the flag of the thread that runs, saved that of one that does not.
FlagsKept ==
  /\ \A c \in CPUs : ncli[c] > 0 \/ inirq[cur[c]] => ~ie[c]
  /\ \A c \in CPUs : inirq[cur[c]] /\ ncli[c] > 0 => ~intena[c]
  /\ \A c \in CPUs : ~inirq[cur[c]] /\ (cur[c] \in Procs \/ ready[c]) =>
       IF ncli[c] > 0 THEN intena[c] ELSE ie[c]
  /\ \A p \in Procs : p \notin fresh /\ (\A c \in CPUs : cur[c] # p) =>
       (saved[p] <=> ~inirq[p])

\* All of these together, which every step preserves.
IInv ==
  /\ TypeOK
  /\ NeverPanics
  /\ LockWords
  /\ CliCountsLocks
  /\ WaitsInOrder
  /\ ThreadsApart
  /\ FlagsKept
=============================================================================

--------------------------- MODULE SpinlockProofs ---------------------------
(***************************************************************************)
(* Proofs that any ordered use of the spin locks is safe: IInv of Spinlock *)
(* is inductive, and its properties follow.                                *)
(***************************************************************************)
EXTENDS Spinlock, FiniteSetTheorems, WellFoundedInduction, TLAPS

\* Each CPU holds finitely many locks, and ncli is 0 exactly when it holds none and is
\* neither acquiring nor releasing one (pushcli and popcli count).
LEMMA NoneHeld ==
  ASSUME IInv, NEW c \in CPUs
  PROVE  /\ IsFiniteSet(held[c])
         /\ Cardinality(held[c]) \in Nat
         /\ ncli[c] = 0 <=> held[c] = {} /\ stage[c] = "run"
         /\ ncli[c] \in Nat
<1>1. held[c] \subseteq Locks /\ IsFiniteSet(Locks) /\ ncli[c] \in Nat
  BY SpinlockAssumption DEF IInv, TypeOK
<1>2. IsFiniteSet(held[c])
  BY <1>1, FS_Subset
<1>3. Cardinality(held[c]) \in Nat /\ (Cardinality(held[c]) = 0 <=> held[c] = {})
  BY <1>2, FS_CardinalityType, FS_EmptySet
<1>4. ncli[c] = Cardinality(held[c]) + (IF stage[c] = "run" THEN 0 ELSE 1)
  BY DEF IInv, CliCountsLocks
<1> QED BY <1>1, <1>2, <1>3, <1>4

\* The initial state satisfies the invariant.
LEMMA InitInv == Init => IInv
<1> SUFFICES ASSUME Init PROVE IInv
  OBVIOUS
<1>1. Cardinality({}) = 0
  BY FS_EmptySet
<1>2. TypeOK /\ NeverPanics
  BY SpinlockAssumption DEF Init, TypeOK, NeverPanics
<1>3. LockWords
  BY SpinlockAssumption DEF Init, LockWords
<1>4. CliCountsLocks /\ WaitsInOrder
  BY <1>1 DEF Init, CliCountsLocks, WaitsInOrder
<1>5. ThreadsApart
  BY SpinlockAssumption DEF Init, ThreadsApart
<1>6. FlagsKept
  BY SpinlockAssumption DEF Init, FlagsKept
<1> QED BY <1>2, <1>3, <1>4, <1>5, <1>6 DEF IInv

\* Takes no lock it has, so acquire does not panic, and waits in order.
LEMMA AcquireKeeps ==
  ASSUME IInv, NEW c \in CPUs, NEW l \in Locks, Acquire(c, l)
  PROVE  IInv'
<1>0. /\ TypeOK /\ NeverPanics /\ LockWords /\ CliCountsLocks
      /\ WaitsInOrder /\ ThreadsApart /\ FlagsKept
  BY DEF IInv
<1>1. ~holding(c, l)
  BY SpinlockAssumption DEF IInv, TypeOK, LockWords, Acquire, InOrder, holding
<1>2. stage[c] = "run" /\ InOrder(c, l) /\ (cur[c] = c => ready[c] \/ inirq[c])
  BY <1>1 DEF Acquire, acquire, pushcli, lockvars, cpuvars, threads
<1>3. /\ ncli' = [ncli EXCEPT ![c] = @ + 1]
      /\ intena' = [intena EXCEPT ![c] = IF ncli[c] = 0 THEN ie[c] ELSE @]
      /\ ie' = [ie EXCEPT ![c] = FALSE]
      /\ stage' = [stage EXCEPT ![c] = "spin"]
      /\ lk' = [lk EXCEPT ![c] = l]
      /\ UNCHANGED <<locked, owner, held, cur, inirq, saved, fresh, ready, panicked>>
  BY <1>1, <1>0, SpinlockAssumption
  DEF TypeOK, Acquire, acquire, pushcli, lockvars, cpuvars, threads
<1>4. TypeOK' /\ NeverPanics'
  BY <1>0, <1>2, <1>3, SpinlockAssumption, NoneHeld
  DEF TypeOK, NeverPanics
<1>5. LockWords'
  BY <1>0, <1>2, <1>3, <1>4, SpinlockAssumption DEF TypeOK, LockWords
<1>6. CliCountsLocks'
  BY <1>0, <1>2, <1>3, <1>4, NoneHeld
  DEF TypeOK, CliCountsLocks
<1>7. WaitsInOrder'
  BY <1>0, <1>2, <1>3, <1>4, SpinlockAssumption DEF TypeOK, WaitsInOrder, InOrder
<1>8. ThreadsApart'
  BY <1>0, <1>3 DEF ThreadsApart
<1>9. FlagsKept'
  BY <1>0, <1>2, <1>3, <1>4, SpinlockAssumption, NoneHeld
  DEF TypeOK, FlagsKept, ThreadsApart
<1> QED BY <1>4, <1>5, <1>6, <1>7, <1>8, <1>9 DEF IInv

\* The xchg that finds 0 keeps the invariant.
LEMMA TakeKeeps ==
  ASSUME IInv, NEW c \in CPUs, Take(c)
  PROVE  IInv'
<1>0. /\ TypeOK /\ NeverPanics /\ LockWords /\ CliCountsLocks
      /\ WaitsInOrder /\ ThreadsApart /\ FlagsKept
  BY DEF IInv
<1>2. stage[c] = "spin" /\ locked[lk[c]] = 0
  BY DEF Take, lockvars, cpuvars, threads
<1>3. /\ locked' = [locked EXCEPT ![lk[c]] = 1]
      /\ stage' = [stage EXCEPT ![c] = "record"]
      /\ UNCHANGED <<owner, ncli, intena, ie, lk, held, cur, inirq, saved, fresh, ready, panicked>>
  BY <1>0, SpinlockAssumption DEF TypeOK, Take, lockvars, cpuvars, threads
<1>4. TypeOK' /\ NeverPanics'
  BY <1>0, <1>2, <1>3, SpinlockAssumption, NoneHeld
  DEF TypeOK, NeverPanics
<1>5. LockWords'
  BY <1>0, <1>2, <1>3, <1>4, SpinlockAssumption DEF TypeOK, LockWords
<1>6. CliCountsLocks'
  BY <1>0, <1>2, <1>3, <1>4, NoneHeld
  DEF TypeOK, CliCountsLocks
<1>7. WaitsInOrder'
  BY <1>0, <1>2, <1>3, <1>4, SpinlockAssumption DEF TypeOK, WaitsInOrder, InOrder
<1>8. ThreadsApart'
  BY <1>0, <1>3 DEF ThreadsApart
<1>9. FlagsKept'
  BY <1>0, <1>3 DEF FlagsKept
<1> QED BY <1>4, <1>5, <1>6, <1>7, <1>8, <1>9 DEF IInv

\* Recording the holder keeps the invariant.
LEMMA RecordKeeps ==
  ASSUME IInv, NEW c \in CPUs, Record(c)
  PROVE  IInv'
<1>0. /\ TypeOK /\ NeverPanics /\ LockWords /\ CliCountsLocks
      /\ WaitsInOrder /\ ThreadsApart /\ FlagsKept
  BY DEF IInv
<1>2. stage[c] = "record"
  BY DEF Record, lockvars, cpuvars, threads
<1>3. /\ owner' = [owner EXCEPT ![lk[c]] = c]
      /\ stage' = [stage EXCEPT ![c] = "run"]
      /\ lk' = [lk EXCEPT ![c] = NoLock]
      /\ held' = [held EXCEPT ![c] = @ \cup {lk[c]}]
      /\ UNCHANGED <<locked, ncli, intena, ie, cur, inirq, saved, fresh, ready, panicked>>
  BY <1>0, SpinlockAssumption DEF TypeOK, Record, lockvars, cpuvars, threads
<1>4. TypeOK' /\ NeverPanics'
  <2>1. lk[c] \in Locks
    BY <1>0, <1>2 DEF TypeOK, LockWords
  <2>2. ncli' \in [CPUs -> Nat]
    BY <1>0, <1>3 DEF TypeOK
  <2> QED BY <1>0, <1>3, <2>1, <2>2 DEF TypeOK, NeverPanics
<1>5. LockWords'
  BY <1>0, <1>2, <1>3, <1>4, SpinlockAssumption DEF TypeOK, LockWords
<1>6. CliCountsLocks'
  <2> SUFFICES ASSUME NEW d \in CPUs
               PROVE  ncli'[d] = Cardinality(held'[d]) + (IF stage'[d] = "run" THEN 0 ELSE 1)
    BY DEF CliCountsLocks
  <2>1. CASE d # c
    BY <1>0, <1>3, <2>1 DEF TypeOK, CliCountsLocks
  <2>2. CASE d = c
    <3>1. lk[c] \notin held[c]
      BY <1>0, <1>2, SpinlockAssumption DEF TypeOK, LockWords
    <3>2. IsFiniteSet(held[c]) /\ Cardinality(held[c]) \in Nat
      BY NoneHeld
    <3>3. Cardinality(held[c] \cup {lk[c]}) = Cardinality(held[c]) + 1
      BY <3>1, <3>2, FS_AddElement
    <3>4. held'[c] = held[c] \cup {lk[c]} /\ stage'[c] = "run" /\ ncli'[c] = ncli[c]
      BY <1>0, <1>3 DEF TypeOK
    <3> QED BY <1>0, <1>2, <2>2, <3>2, <3>3, <3>4 DEF CliCountsLocks
  <2> QED BY <2>1, <2>2
<1>7. WaitsInOrder'
  BY <1>0, <1>2, <1>3, <1>4, SpinlockAssumption DEF TypeOK, WaitsInOrder, InOrder
<1>8. ThreadsApart'
  BY <1>0, <1>3 DEF ThreadsApart
<1>9. FlagsKept'
  BY <1>0, <1>3 DEF FlagsKept
<1> QED BY <1>4, <1>5, <1>6, <1>7, <1>8, <1>9 DEF IInv

\* Release of a lock that is held does not panic.
LEMMA ReleaseKeeps ==
  ASSUME IInv, NEW c \in CPUs, NEW l \in Locks, Release(c, l)
  PROVE  IInv'
<1>0. /\ TypeOK /\ NeverPanics /\ LockWords /\ CliCountsLocks
      /\ WaitsInOrder /\ ThreadsApart /\ FlagsKept
  BY DEF IInv
<1>1. holding(c, l)
  BY SpinlockAssumption DEF IInv, TypeOK, LockWords, Release, holding
<1>2. stage[c] = "run" /\ l \in held[c]
  BY <1>1 DEF Release, release, lockvars, cpuvars, threads
<1>3. /\ owner' = [owner EXCEPT ![l] = NoCPU]
      /\ stage' = [stage EXCEPT ![c] = "unlock"]
      /\ lk' = [lk EXCEPT ![c] = l]
      /\ held' = [held EXCEPT ![c] = @ \ {l}]
      /\ UNCHANGED <<locked, ncli, intena, ie, cur, inirq, saved, fresh, ready, panicked>>
  BY <1>1, <1>0, SpinlockAssumption DEF TypeOK, Release, release, lockvars, cpuvars, threads
<1>4. TypeOK' /\ NeverPanics'
  BY <1>0, <1>2, <1>3, SpinlockAssumption, NoneHeld
  DEF TypeOK, NeverPanics
<1>5. LockWords'
  BY <1>0, <1>2, <1>3, <1>4, SpinlockAssumption DEF TypeOK, LockWords
<1>6. CliCountsLocks'
  <2> SUFFICES ASSUME NEW d \in CPUs
               PROVE  ncli'[d] = Cardinality(held'[d]) + (IF stage'[d] = "run" THEN 0 ELSE 1)
    BY DEF CliCountsLocks
  <2>1. CASE d # c
    BY <1>0, <1>3, <2>1 DEF TypeOK, CliCountsLocks
  <2>2. CASE d = c
    <3>1. l \in held[c]
      BY <1>0, <1>2, SpinlockAssumption DEF TypeOK, LockWords
    <3>2. IsFiniteSet(held[c]) /\ Cardinality(held[c]) \in Nat
      BY NoneHeld
    <3>3. Cardinality(held[c] \ {l}) = Cardinality(held[c]) - 1
      BY <3>1, <3>2, FS_RemoveElement
    <3>4. held'[c] = held[c] \ {l} /\ stage'[c] = "unlock" /\ ncli'[c] = ncli[c]
      BY <1>0, <1>3 DEF TypeOK
    <3> QED BY <1>0, <1>2, <2>2, <3>2, <3>3, <3>4 DEF CliCountsLocks
  <2> QED BY <2>1, <2>2
<1>7. WaitsInOrder'
  BY <1>0, <1>2, <1>3, <1>4, SpinlockAssumption DEF TypeOK, WaitsInOrder, InOrder
<1>8. ThreadsApart'
  BY <1>0, <1>3 DEF ThreadsApart
<1>9. FlagsKept'
  BY <1>0, <1>3 DEF FlagsKept
<1> QED BY <1>4, <1>5, <1>6, <1>7, <1>8, <1>9 DEF IInv

\* Popcli does not panic and restores the interrupt flag.
LEMMA UnlockKeeps ==
  ASSUME IInv, NEW c \in CPUs, Unlock(c)
  PROVE  IInv'
<1>0. /\ TypeOK /\ NeverPanics /\ LockWords /\ CliCountsLocks
      /\ WaitsInOrder /\ ThreadsApart /\ FlagsKept
  BY DEF IInv
<1>1. ~(ie[c] \/ ncli[c] < 1)
  BY NoneHeld DEF IInv, TypeOK, FlagsKept, Unlock
<1>2. stage[c] = "unlock"
  BY <1>1 DEF Unlock, popcli, lockvars, cpuvars, threads
<1>3. /\ locked' = [locked EXCEPT ![lk[c]] = 0]
      /\ ncli' = [ncli EXCEPT ![c] = @ - 1]
      /\ ie' = [ie EXCEPT ![c] = ncli[c] = 1 /\ intena[c]]
      /\ stage' = [stage EXCEPT ![c] = "run"]
      /\ lk' = [lk EXCEPT ![c] = NoLock]
      /\ UNCHANGED <<owner, intena, held, cur, inirq, saved, fresh, ready, panicked>>
  BY <1>1, <1>0, SpinlockAssumption DEF TypeOK, Unlock, popcli, lockvars, cpuvars, threads
<1>4. TypeOK' /\ NeverPanics'
  <2>1. lk[c] \in Locks
    BY <1>0, <1>2 DEF TypeOK, LockWords
  <2>2. ncli' \in [CPUs -> Nat]
    BY <1>0, <1>1, <1>3 DEF TypeOK
  <2> QED BY <1>0, <1>3, <2>1, <2>2 DEF TypeOK, NeverPanics
<1>5. LockWords'
  BY <1>0, <1>2, <1>3, <1>4, SpinlockAssumption DEF TypeOK, LockWords
<1>6. CliCountsLocks'
  BY <1>0, <1>2, <1>3, <1>4, NoneHeld
  DEF TypeOK, CliCountsLocks
<1>7. WaitsInOrder'
  BY <1>0, <1>2, <1>3, <1>4, SpinlockAssumption DEF TypeOK, WaitsInOrder, InOrder
<1>8. ThreadsApart'
  BY <1>0, <1>3 DEF ThreadsApart
<1>9. FlagsKept'
  BY <1>0, <1>2, <1>3, <1>4, SpinlockAssumption, NoneHeld
  DEF TypeOK, FlagsKept, ThreadsApart
<1> QED BY <1>4, <1>5, <1>6, <1>7, <1>8, <1>9 DEF IInv

\* An interrupt runs on the thread it finds.
LEMMA InterruptKeeps ==
  ASSUME IInv, NEW c \in CPUs, Interrupt(c)
  PROVE  IInv'
<1>0. /\ TypeOK /\ NeverPanics /\ LockWords /\ CliCountsLocks
      /\ WaitsInOrder /\ ThreadsApart /\ FlagsKept
  BY DEF IInv
<1>2. stage[c] = "run" /\ ie[c]
  BY DEF Interrupt, lockvars, cpuvars, threads
<1>3. /\ ie' = [ie EXCEPT ![c] = FALSE]
      /\ inirq' = [inirq EXCEPT ![cur[c]] = TRUE]
      /\ UNCHANGED <<locked, owner, ncli, intena, stage, lk, held, cur, saved, fresh, ready, panicked>>
  BY <1>0, SpinlockAssumption DEF TypeOK, Interrupt, lockvars, cpuvars, threads
<1>4. TypeOK' /\ NeverPanics'
  BY <1>0, <1>2, <1>3, SpinlockAssumption, NoneHeld
  DEF TypeOK, NeverPanics
<1>5. LockWords'
  BY <1>0, <1>3 DEF LockWords
<1>6. CliCountsLocks'
  BY <1>0, <1>3 DEF CliCountsLocks
<1>7. WaitsInOrder'
  BY <1>0, <1>3 DEF WaitsInOrder, InOrder
<1>8. ThreadsApart'
  BY <1>0, <1>2, <1>3, <1>4, SpinlockAssumption DEF TypeOK, ThreadsApart
<1>9. FlagsKept'
  BY <1>0, <1>2, <1>3, <1>4, SpinlockAssumption, NoneHeld
  DEF TypeOK, FlagsKept, ThreadsApart
<1> QED BY <1>4, <1>5, <1>6, <1>7, <1>8, <1>9 DEF IInv

\* The end of a handler restores the interrupt flag.
LEMMA IretKeeps ==
  ASSUME IInv, NEW c \in CPUs, Iret(c)
  PROVE  IInv'
<1>0. /\ TypeOK /\ NeverPanics /\ LockWords /\ CliCountsLocks
      /\ WaitsInOrder /\ ThreadsApart /\ FlagsKept
  BY DEF IInv
<1>2. stage[c] = "run" /\ held[c] = {} /\ inirq[cur[c]]
  BY DEF Iret, iret, lockvars, cpuvars, threads
<1>3. /\ ie' = [ie EXCEPT ![c] = TRUE]
      /\ inirq' = [inirq EXCEPT ![cur[c]] = FALSE]
      /\ UNCHANGED <<locked, owner, ncli, intena, stage, lk, held, cur, saved, fresh, ready, panicked>>
  BY <1>0, SpinlockAssumption DEF TypeOK, Iret, iret, lockvars, cpuvars, threads
<1>4. TypeOK' /\ NeverPanics'
  BY <1>0, <1>2, <1>3, SpinlockAssumption, NoneHeld
  DEF TypeOK, NeverPanics
<1>5. LockWords'
  BY <1>0, <1>3 DEF LockWords
<1>6. CliCountsLocks'
  BY <1>0, <1>3 DEF CliCountsLocks
<1>7. WaitsInOrder'
  BY <1>0, <1>3 DEF WaitsInOrder, InOrder
<1>8. ThreadsApart'
  BY <1>0, <1>2, <1>3, <1>4, SpinlockAssumption DEF TypeOK, ThreadsApart
<1>9. FlagsKept'
  BY <1>0, <1>2, <1>3, <1>4, SpinlockAssumption, NoneHeld
  DEF TypeOK, FlagsKept, ThreadsApart
<1> QED BY <1>4, <1>5, <1>6, <1>7, <1>8, <1>9 DEF IInv

\* The scheduler turns interrupts on when it holds no lock.
LEMMA StiKeeps ==
  ASSUME IInv, NEW c \in CPUs, Sti(c)
  PROVE  IInv'
<1>0. /\ TypeOK /\ NeverPanics /\ LockWords /\ CliCountsLocks
      /\ WaitsInOrder /\ ThreadsApart /\ FlagsKept
  BY DEF IInv
<1>2. stage[c] = "run" /\ held[c] = {} /\ cur[c] = c /\ ~inirq[c]
  BY DEF Sti, sti, lockvars, cpuvars, threads
<1>3. /\ ie' = [ie EXCEPT ![c] = TRUE]
      /\ ready' = [ready EXCEPT ![c] = TRUE]
      /\ UNCHANGED <<locked, owner, ncli, intena, stage, lk, held, cur, inirq, saved, fresh, panicked>>
  BY <1>0, SpinlockAssumption DEF TypeOK, Sti, sti, lockvars, cpuvars, threads
<1>4. TypeOK' /\ NeverPanics'
  BY <1>0, <1>2, <1>3, SpinlockAssumption, NoneHeld
  DEF TypeOK, NeverPanics
<1>5. LockWords'
  BY <1>0, <1>3 DEF LockWords
<1>6. CliCountsLocks'
  BY <1>0, <1>3 DEF CliCountsLocks
<1>7. WaitsInOrder'
  BY <1>0, <1>3 DEF WaitsInOrder, InOrder
<1>8. ThreadsApart'
  BY <1>0, <1>3 DEF ThreadsApart
<1>9. FlagsKept'
  BY <1>0, <1>2, <1>3, <1>4, SpinlockAssumption, NoneHeld
  DEF TypeOK, FlagsKept, ThreadsApart
<1> QED BY <1>4, <1>5, <1>6, <1>7, <1>8, <1>9 DEF IInv

\* The process that resumes gets its own intena.
LEMMA SwtchKeeps ==
  ASSUME IInv, NEW c \in CPUs, NEW p \in Procs, Swtch(c, p)
  PROVE  IInv'
<1>0. /\ TypeOK /\ NeverPanics /\ LockWords /\ CliCountsLocks
      /\ WaitsInOrder /\ ThreadsApart /\ FlagsKept
  BY DEF IInv
<1>2. /\ stage[c] = "run" /\ held[c] = {ptable} /\ cur[c] = c
      /\ ~inirq[c] /\ ready[c] /\ (\A d \in CPUs : cur[d] # p)
  BY DEF Swtch, swtch, lockvars, cpuvars, threads
<1>3. /\ intena' = [intena EXCEPT ![c] = IF p \in fresh THEN @ ELSE saved[p]]
      /\ cur' = [cur EXCEPT ![c] = p]
      /\ fresh' = fresh \ {p}
      /\ UNCHANGED <<locked, owner, ncli, ie, stage, lk, held, inirq, saved, ready, panicked>>
  BY <1>0, SpinlockAssumption DEF TypeOK, Swtch, swtch, lockvars, cpuvars, threads
<1>4. TypeOK' /\ NeverPanics'
  BY <1>0, <1>2, <1>3, SpinlockAssumption, NoneHeld
  DEF TypeOK, NeverPanics
<1>5. LockWords'
  BY <1>0, <1>3 DEF LockWords
<1>6. CliCountsLocks'
  BY <1>0, <1>3 DEF CliCountsLocks
<1>7. WaitsInOrder'
  BY <1>0, <1>3 DEF WaitsInOrder, InOrder
<1>8. ThreadsApart'
  BY <1>0, <1>2, <1>3, <1>4, SpinlockAssumption DEF TypeOK, ThreadsApart
<1>9. FlagsKept'
  <2>1. ncli[c] > 0 /\ intena[c]
    BY <1>0, <1>2, NoneHeld DEF FlagsKept
  <2>2. intena'[c] <=> ~inirq[p]
    BY <1>0, <1>2, <1>3, <2>1 DEF TypeOK, FlagsKept, ThreadsApart
  <2>3. cur'[c] = p /\ \A d \in CPUs : d # c => cur'[d] = cur[d] /\ intena'[d] = intena[d]
    BY <1>0, <1>3 DEF TypeOK
  <2>4. \A d \in CPUs : ncli'[d] > 0 \/ inirq'[cur'[d]] => ~ie'[d]
    BY <1>0, <1>3, <2>1, <2>3 DEF FlagsKept
  <2>5. \A d \in CPUs : inirq'[cur'[d]] /\ ncli'[d] > 0 => ~intena'[d]
    BY <1>0, <1>3, <2>2, <2>3 DEF FlagsKept
  <2>6. \A d \in CPUs : ~inirq'[cur'[d]] /\ (cur'[d] \in Procs \/ ready'[d]) =>
          IF ncli'[d] > 0 THEN intena'[d] ELSE ie'[d]
    BY <1>0, <1>3, <2>1, <2>2, <2>3 DEF FlagsKept
  <2>7. \A q \in Procs : q \notin fresh' /\ (\A d \in CPUs : cur'[d] # q) =>
          (saved'[q] <=> ~inirq'[q])
    <3> SUFFICES ASSUME NEW q \in Procs, q \notin fresh', \A d \in CPUs : cur'[d] # q
                 PROVE  saved'[q] <=> ~inirq'[q]
      OBVIOUS
    <3>1. q # p /\ q \notin fresh
      BY <1>3, <2>3
    <3>2. q # c
      BY SpinlockAssumption
    <3>3. \A d \in CPUs : cur[d] # q
      BY <1>2, <2>3, <3>2
    <3> QED BY <1>0, <1>3, <3>1, <3>3 DEF FlagsKept
  <2> QED BY <2>4, <2>5, <2>6, <2>7 DEF FlagsKept
<1> QED BY <1>4, <1>5, <1>6, <1>7, <1>8, <1>9 DEF IInv

\* Sched() does not panic and saves the intena of its process.
LEMMA SchedKeeps ==
  ASSUME IInv, NEW c \in CPUs, Sched(c)
  PROVE  IInv'
<1>0. /\ TypeOK /\ NeverPanics /\ LockWords /\ CliCountsLocks
      /\ WaitsInOrder /\ ThreadsApart /\ FlagsKept
  BY DEF IInv
<1>1. /\ holding(c, ptable)
      /\ ncli[c] = 1
      /\ ~ie[c]
  <2>1. held[c] = {ptable} /\ stage[c] = "run"
    BY DEF Sched, sched
  <2>2. Cardinality(held[c]) = 1
    BY <2>1, FS_Singleton
  <2>3. ncli[c] = 1
    BY <2>1, <2>2 DEF IInv, CliCountsLocks
  <2> QED BY <2>1, <2>3, SpinlockAssumption DEF IInv, LockWords, FlagsKept, holding
<1>2. stage[c] = "run" /\ held[c] = {ptable} /\ cur[c] \in Procs /\ ncli[c] = 1
  BY <1>1 DEF Sched, sched, lockvars, cpuvars, threads
<1>3. /\ cur' = [cur EXCEPT ![c] = c]
      /\ saved' = [saved EXCEPT ![cur[c]] = intena[c]]
      /\ ready' = [ready EXCEPT ![c] = FALSE]
      /\ UNCHANGED <<locked, owner, ncli, intena, ie, stage, lk, held, inirq, fresh, panicked>>
  BY <1>1, <1>0, SpinlockAssumption DEF TypeOK, Sched, sched, lockvars, cpuvars, threads
<1>4. TypeOK' /\ NeverPanics'
  BY <1>0, <1>2, <1>3, SpinlockAssumption, NoneHeld
  DEF TypeOK, NeverPanics
<1>5. LockWords'
  BY <1>0, <1>3 DEF LockWords
<1>6. CliCountsLocks'
  BY <1>0, <1>3 DEF CliCountsLocks
<1>7. WaitsInOrder'
  BY <1>0, <1>3 DEF WaitsInOrder, InOrder
<1>8. ThreadsApart'
  BY <1>0, <1>2, <1>3, <1>4, SpinlockAssumption DEF TypeOK, ThreadsApart
<1>9. FlagsKept'
  BY <1>0, <1>2, <1>3, <1>4, SpinlockAssumption, NoneHeld, SMTT(30)
  DEF TypeOK, FlagsKept, ThreadsApart
<1> QED BY <1>4, <1>5, <1>6, <1>7, <1>8, <1>9 DEF IInv

\* A new process in a slot starts outside any handler.
LEMMA AllocprocKeeps ==
  ASSUME IInv, NEW p \in Procs, allocproc(p)
  PROVE  IInv'
<1>0. /\ TypeOK /\ NeverPanics /\ LockWords /\ CliCountsLocks
      /\ WaitsInOrder /\ ThreadsApart /\ FlagsKept
  BY DEF IInv
<1>2. p \notin fresh /\ (\A c \in CPUs : cur[c] # p)
  BY DEF allocproc, lockvars, cpuvars, threads
<1>3. /\ inirq' = [inirq EXCEPT ![p] = FALSE]
      /\ fresh' = fresh \cup {p}
      /\ UNCHANGED <<locked, owner, ncli, intena, ie, stage, lk, held, cur, saved, ready, panicked>>
  BY <1>0, SpinlockAssumption DEF TypeOK, allocproc, lockvars, cpuvars, threads
<1>4. TypeOK' /\ NeverPanics'
  BY <1>0, <1>2, <1>3, SpinlockAssumption, NoneHeld
  DEF TypeOK, NeverPanics
<1>5. LockWords'
  BY <1>0, <1>3 DEF LockWords
<1>6. CliCountsLocks'
  BY <1>0, <1>3 DEF CliCountsLocks
<1>7. WaitsInOrder'
  BY <1>0, <1>3 DEF WaitsInOrder, InOrder
<1>8. ThreadsApart'
  BY <1>0, <1>2, <1>3, <1>4, SpinlockAssumption DEF TypeOK, ThreadsApart
<1>9. FlagsKept'
  BY <1>0, <1>2, <1>3, <1>4, SpinlockAssumption, NoneHeld
  DEF TypeOK, FlagsKept, ThreadsApart
<1> QED BY <1>4, <1>5, <1>6, <1>7, <1>8, <1>9 DEF IInv

\* No step of Next breaks the invariant.
LEMMA NextKeeps == IInv /\ [Next]_vars => IInv'
<1> SUFFICES ASSUME IInv, [Next]_vars PROVE IInv'
  OBVIOUS
<1>1. CASE UNCHANGED vars
  BY <1>1, SMTT(30) DEF vars, lockvars, cpuvars, threads, IInv, TypeOK, NeverPanics, LockWords,
              CliCountsLocks, WaitsInOrder, InOrder, ThreadsApart, FlagsKept
<1>2. ASSUME NEW c \in CPUs, CPUStep(c) PROVE IInv'
  BY <1>2, AcquireKeeps, TakeKeeps, RecordKeeps, ReleaseKeeps, UnlockKeeps, InterruptKeeps,
     IretKeeps, StiKeeps, SwtchKeeps, SchedKeeps DEF CPUStep
<1>3. ASSUME NEW p \in Procs, allocproc(p) PROVE IInv'
  BY <1>3, AllocprocKeeps
<1> QED BY <1>1, <1>2, <1>3 DEF Next

\* The invariant holds throughout.
THEOREM Invariance == Spec => []IInv
<1> QED BY InitInv, NextKeeps, PTL DEF Spec

\* No two CPUs are ever both between acquire and release of one lock.
THEOREM Exclusion == Spec => []MutualExclusion
<1>1. IInv => MutualExclusion
  BY DEF IInv, LockWords, MutualExclusion, TypeOK
<1> QED BY <1>1, Invariance, PTL

\* acquire, release, popcli and sched never panic when locks are used in order.
THEOREM PanicFree == Spec => []NeverPanics
<1>1. IInv => NeverPanics
  BY DEF IInv
<1> QED BY <1>1, Invariance, PTL

\* A CPU's interrupt flag is that of the thread it runs, and off while it has a lock.
THEOREM Masking == Spec => []InterruptsMasked
<1>1. IInv => InterruptsMasked
  <2> SUFFICES ASSUME IInv, NEW c \in CPUs
               PROVE  /\ ie[c] => held[c] = {} /\ stage[c] = "run" /\ ~inirq[cur[c]]
                      /\ cur[c] \in Procs /\ held[c] = {} /\ stage[c] = "run"
                           /\ ~inirq[cur[c]] => ie[c]
    BY DEF InterruptsMasked
  <2>1. FlagsKept
    BY DEF IInv
  <2>2. (ncli[c] = 0 <=> held[c] = {} /\ stage[c] = "run") /\ ncli[c] \in Nat
    BY NoneHeld
  <2> QED BY <2>1, <2>2 DEF FlagsKept
<1> QED BY <1>1, Invariance, PTL

\* CPUs that take locks in one order never spin in a circle: of the locks that a set of
\* CPUs spins for, one of least rank has no holder that spins for a lock of the set.
THEOREM DeadlockFree == Spec => []NoCyclicWait
<1>1. IInv => NoCyclicWait
  <2> SUFFICES ASSUME IInv, NEW S \in (SUBSET CPUs) \ {{}},
                      \A c \in S : stage[c] = "spin" /\ \E d \in S : lk[c] \in held[d]
               PROVE  FALSE
    BY DEF NoCyclicWait
  <2> DEFINE R == {Rank[lk[c]] : c \in S}
  <2>1. \A c \in S : lk[c] \in Locks /\ Rank[lk[c]] \in Nat
    BY SpinlockAssumption DEF IInv, TypeOK, LockWords
  <2>2. R \in SUBSET Nat /\ R # {}
    BY <2>1
  <2>3. PICK n \in R : \A m \in R : ~(<<m, n>> \in OpToRel(<, Nat))
    <3> HIDE DEF R
    <3> QED BY <2>2, NatLessThanWellFounded, WFMin
  <2>4. \A m \in R : ~(m < n)
    BY <2>2, <2>3 DEF OpToRel
  <2>5. PICK c \in S : n = Rank[lk[c]]
    OBVIOUS
  <2>6. PICK d \in S : lk[c] \in held[d]
    OBVIOUS
  <2>7. Rank[lk[d]] < Rank[lk[c]]
    BY <2>6 DEF IInv, WaitsInOrder, InOrder
  <2> QED BY <2>4, <2>5, <2>7
<1> QED BY <1>1, Invariance, PTL
=============================================================================

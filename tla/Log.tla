-------------------------------- MODULE Log --------------------------------
(***************************************************************************)
(* The file system log (log.c), with a crash possible before and after     *)
(* every disk write, also during recovery.  A block is one sector, so a    *)
(* write of a block happens or does not.  The buffer cache is the contents *)
(* bread returns; Bio models it.                                           *)
(***************************************************************************)
EXTENDS Integers, Sequences, FiniteSets, SequencesExt

CONSTANTS
  Procs, Blocks, Vals,
  Image,         \* the contents of the disk at first
  LOGSIZE, MAXOPBLOCKS,
  size,          \* log.size, the blocks of the log on disk with the header
  OpBlocks,      \* the most blocks one operation adds to the log
  MaxCrashes     \* bound on the number of crashes

\* begin_op reserves MAXOPBLOCKS per operation, but log_write refuses when the log is
\* full even if it would add nothing, and the header takes one of the size blocks.
ASSUME LogAssumption ==
  /\ IsFiniteSet(Procs)
  /\ Image \in [Blocks -> Vals]
  /\ {LOGSIZE, MAXOPBLOCKS, size, OpBlocks, MaxCrashes} \subseteq Nat
  /\ MAXOPBLOCKS <= LOGSIZE
  /\ OpBlocks < MAXOPBLOCKS
  /\ LOGSIZE - MAXOPBLOCKS + OpBlocks < size - 1

VARIABLES
  home, logged, header,          \* the disk: home locations, log blocks, log header
  cache,                         \* the contents of the buffer cache
  lh, outstanding, committing,   \* struct log
  pc,                            \* where each process is
  added,                         \* the blocks its operation has added to the log
  stage, tail,                   \* where commit() or recovery is, and install's loop index
  crashes, panicked

disk == <<home, logged, header>>
vars == <<disk, cache, lh, outstanding, committing, pc, added, stage, tail, crashes,
          panicked>>

Init ==
  /\ home = Image
  /\ logged \in [1..LOGSIZE -> {Image[b] : b \in Blocks}]
  /\ header = <<>>
  /\ cache = home
  /\ lh = <<>>
  /\ outstanding = 0
  /\ committing = FALSE
  /\ pc = [p \in Procs |-> "idle"]
  /\ added = [p \in Procs |-> 0]
  /\ stage = "boot"
  /\ tail = 0
  /\ crashes = 0
  /\ panicked = FALSE

wakeup(f) == [p \in Procs |-> IF f[p] = "asleep" THEN "idle" ELSE f[p]]

-----------------------------------------------------------------------------
(* Operations.  A process that is woken tries begin_op again.              *)

Full == Len(lh) + (outstanding + 1) * MAXOPBLOCKS > LOGSIZE

begin_op(p) ==
  /\ stage # "boot" /\ (stage = "run" \/ committing)
  /\ pc[p] = "idle"
  /\ IF committing \/ Full
     THEN /\ pc' = [pc EXCEPT ![p] = "asleep"]
          /\ UNCHANGED <<outstanding, added>>
     ELSE /\ pc' = [pc EXCEPT ![p] = "op"]
          /\ outstanding' = outstanding + 1
          /\ added' = [added EXCEPT ![p] = 0]
  /\ UNCHANGED <<disk, cache, lh, committing, stage, tail, crashes, panicked>>

WithoutAbsorption(b) == Append(lh, b)

WithBlock(b) == IF b \in ToSet(lh) THEN lh ELSE Append(lh, b)

\* The caller's change of the buffer and log_write.
log_write(p, b, v) ==
  /\ pc[p] = "op"
  /\ b \in ToSet(lh) \/ added[p] < OpBlocks
  /\ cache' = [cache EXCEPT ![b] = v]
  /\ IF Len(lh) >= LOGSIZE \/ Len(lh) >= size - 1 \/ outstanding < 1
     THEN panicked' = TRUE /\ UNCHANGED <<lh, added>>
     ELSE /\ lh' = WithBlock(b)
          /\ added' = [added EXCEPT ![p] = IF b \in ToSet(lh) THEN @ ELSE @ + 1]
          /\ UNCHANGED panicked
  /\ UNCHANGED <<disk, outstanding, committing, pc, stage, tail, crashes>>

EndWakesNobody(p) == pc' = [pc EXCEPT ![p] = "idle"]

EndWakes(p) == pc' = [wakeup(pc) EXCEPT ![p] = "idle"]

end_op(p) ==
  /\ pc[p] = "op"
  /\ outstanding' = outstanding - 1
  /\ panicked' = committing
  /\ IF outstanding = 1
     THEN /\ committing' = TRUE
          /\ pc' = [pc EXCEPT ![p] = "commit"]
          /\ stage' = IF lh = <<>> THEN "done" ELSE "log"
          /\ tail' = 0
     ELSE EndWakes(p) /\ UNCHANGED <<committing, stage, tail>>
  /\ UNCHANGED <<disk, cache, lh, added, crashes>>

-----------------------------------------------------------------------------
(* commit(), one step for each disk write, and recovery, which shares      *)
(* install_trans with it.                                                  *)

write_log ==
  /\ stage = "log"
  /\ logged' = [logged EXCEPT ![tail + 1] = cache[lh[tail + 1]]]
  /\ tail' = tail + 1
  /\ stage' = IF tail + 1 = Len(lh) THEN "head" ELSE "log"
  /\ UNCHANGED <<home, header, cache, lh, outstanding, committing, pc, added, crashes,
                 panicked>>

write_head ==
  /\ stage = "head"
  /\ header' = lh
  /\ stage' = "install"
  /\ tail' = 0
  /\ UNCHANGED <<home, logged, cache, lh, outstanding, committing, pc, added, crashes,
                 panicked>>

FromCache == cache[lh[tail + 1]]

\* install_trans copies from the log, which holds what was committed.
FromLog == logged[tail + 1]

install_trans ==
  /\ stage = "install"
  /\ home' = [home EXCEPT ![lh[tail + 1]] = FromLog]
  /\ cache' = [cache EXCEPT ![lh[tail + 1]] = FromLog]
  /\ tail' = tail + 1
  /\ stage' = IF tail + 1 = Len(lh) THEN "erase" ELSE "install"
  /\ UNCHANGED <<logged, header, lh, outstanding, committing, pc, added, crashes, panicked>>

erase ==
  /\ stage = "erase"
  /\ lh' = <<>>
  /\ header' = <<>>
  /\ stage' = IF committing THEN "done" ELSE "run"
  /\ UNCHANGED <<home, logged, cache, outstanding, committing, pc, added, tail, crashes,
                 panicked>>

CommitEnds(f) == [p \in Procs |-> IF f[p] = "commit" THEN "idle" ELSE f[p]]

CommitEndsAndWakes(f) == wakeup(CommitEnds(f))

EndCommit ==
  /\ stage = "done"
  /\ stage' = "run"
  /\ committing' = FALSE
  /\ pc' = CommitEndsAndWakes(pc)
  /\ UNCHANGED <<disk, cache, lh, outstanding, added, tail, crashes, panicked>>

read_head ==
  /\ stage = "boot"
  /\ lh' = header
  /\ stage' = IF header = <<>> THEN "erase" ELSE "install"
  /\ tail' = 0
  /\ UNCHANGED <<disk, cache, outstanding, committing, pc, added, crashes, panicked>>

Crash ==
  /\ crashes < MaxCrashes
  /\ crashes' = crashes + 1
  /\ cache' = home
  /\ lh' = <<>>
  /\ outstanding' = 0
  /\ committing' = FALSE
  /\ pc' = [p \in Procs |-> "idle"]
  /\ added' = [p \in Procs |-> 0]
  /\ stage' = "boot"
  /\ tail' = 0
  /\ UNCHANGED <<disk, panicked>>

DiskStep ==
  write_log \/ write_head \/ install_trans \/ erase \/ EndCommit \/ read_head

Next ==
  /\ ~panicked
  /\ \/ \E p \in Procs : begin_op(p) \/ end_op(p)
     \/ \E p \in Procs, b \in Blocks, v \in Vals : log_write(p, b, v)
     \/ DiskStep
     \/ Crash

Spec == Init /\ [][Next]_vars

\* Disk requests complete, and an operation does not last for ever.
FairSpec ==
  Spec /\ WF_vars(~panicked /\ DiskStep) /\ \A p \in Procs : WF_vars(~panicked /\ end_op(p))

-----------------------------------------------------------------------------
(* Properties.                                                             *)

Recovering == stage = "boot" \/ (stage \in {"install", "erase"} /\ ~committing)

\* What recovery leaves of a disk; what a crash now would leave.
RecoveredFrom(hm, lg, hd) ==
  [b \in Blocks |->
     IF b \in ToSet(hd) THEN lg[CHOOSE i \in 1..Len(hd) : hd[i] = b] ELSE hm[b]]

Recovered == RecoveredFrom(home, logged, header)

Atomic == INSTANCE AtomicDisk WITH
  stable <- Recovered,
  current <- IF Recovering THEN Recovered ELSE cache,
  active <- outstanding

\* Transactions are atomic: whatever the order of the disk writes and wherever a crash
\* falls, also a second one during recovery, recovery restores the state of the last
\* commit, in which no operation was half done.
AtomicCommit == Atomic!Spec

\* Operations that keep to OpBlocks never find the log full.
NeverTooBig == ~panicked

\* Nobody sleeps in begin_op past the moment there is room: whoever sleeps has to, and
\* there is an operation or a commit whose end wakes it.
NoStuckOp ==
  \A p \in Procs : pc[p] = "asleep" =>
    (committing \/ Full) /\ (committing \/ outstanding > 0)

\* A commit and a recovery end, and so does every wait in begin_op.
LogAvailable ==
  /\ (stage # "run") ~> (stage = "run")
  /\ \A p \in Procs : (pc[p] = "asleep") ~> (pc[p] # "asleep")

-----------------------------------------------------------------------------
(* The inductive invariant behind the first three properties.              *)

TypeOK ==
  /\ home \in [Blocks -> Vals] /\ cache \in [Blocks -> Vals]
  /\ logged \in [1..LOGSIZE -> Vals]
  /\ lh \in Seq(Blocks) /\ header \in Seq(Blocks)
  /\ outstanding \in Nat /\ tail \in Nat
  /\ committing \in BOOLEAN
  /\ pc \in [Procs -> {"idle", "asleep", "op", "commit"}]
  /\ added \in [Procs -> Nat]
  /\ stage \in {"boot", "run", "log", "head", "install", "erase", "done"}
  /\ panicked = FALSE

OpsOf(f) == {p \in Procs : f[p] = "op"}
Ops == OpsOf(pc)

\* The log blocks that operations under way may still add.
ReservedOf(f, n) == {r \in OpsOf(f) \X (1..MAXOPBLOCKS) : n[r[1]] < r[2]}
Reserved == ReservedOf(pc, added)

\* What is in the log and what is reserved fit in it.
Budget ==
  /\ outstanding = Cardinality(Ops)
  /\ \A p \in Ops : added[p] <= OpBlocks
  /\ Len(lh) + Cardinality(Reserved) <= LOGSIZE

\* A block has one place in the log, so the order of installation does not matter.
Distinct(s) == \A i, j \in 1..Len(s) : s[i] = s[j] => i = j

\* The stages of a commit and of recovery, and what is in the headers meanwhile.
Phases ==
  /\ Ops # {} => stage = "run"
  /\ committing => stage \in {"log", "head", "install", "erase", "done"}
  /\ stage \in {"log", "head", "done"} => committing
  /\ stage \in {"run", "log", "head", "done"} => header = <<>>
  /\ stage \in {"install", "erase"} => header = lh
  /\ stage \in {"boot", "done"} \/ (stage = "run" /\ Ops = {}) => lh = <<>>
  /\ stage \in {"log", "install"} => tail < Len(lh)
  /\ stage \in {"head", "erase"} => tail = Len(lh)
  /\ stage = "head" => tail > 0
  /\ Recovering => \A p \in Procs : pc[p] = "idle"

\* How the disk and the cache agree, up to the block copied last.
Contents ==
  /\ Recovering => cache = home
  /\ ~Recovering => \A b \in Blocks \ ToSet(lh) : cache[b] = home[b]
  /\ stage \in {"log", "head"} => \A i \in 1..tail : logged[i] = cache[lh[i]]
  /\ stage \in {"install", "erase"} => \A i \in 1..tail : logged[i] = home[lh[i]]
  /\ stage \in {"install", "erase"} /\ committing =>
       \A i \in 1..Len(lh) : logged[i] = cache[lh[i]]

\* The bookkeeping of begin_op, log_write and end_op is exact, and at each stage of a commit the
\* disk and the cache agree on what was copied so far.
IInv ==
  /\ TypeOK
  /\ Budget
  /\ Distinct(lh) /\ Distinct(header) /\ Len(header) <= LOGSIZE
  /\ Phases
  /\ Contents
  /\ NoStuckOp
=============================================================================

----------------------------- MODULE LogProofs ------------------------------
(***************************************************************************)
(* Proofs about the log for every set of processes and blocks, every size  *)
(* and any number of crashes: IInv of Log is inductive, the log never      *)
(* overflows, no sleeper is forgotten, and Log implements AtomicDisk.      *)
(***************************************************************************)
EXTENDS Log, FiniteSetTheorems, TLAPS

\* The processes in an operation, and the blocks they may still add, are finitely many; the
\* blocks are at most MAXOPBLOCKS for each of them, as begin_op counts.
LEMMA Counting ==
  ASSUME NEW f, NEW n
  PROVE  /\ IsFiniteSet(OpsOf(f)) /\ Cardinality(OpsOf(f)) \in Nat
         /\ IsFiniteSet(ReservedOf(f, n)) /\ Cardinality(ReservedOf(f, n)) \in Nat
         /\ Cardinality(ReservedOf(f, n)) <= Cardinality(OpsOf(f)) * MAXOPBLOCKS
<1>1. IsFiniteSet(OpsOf(f)) /\ Cardinality(OpsOf(f)) \in Nat
  BY LogAssumption, FS_Subset, FS_CardinalityType DEF OpsOf
<1>2. IsFiniteSet(1..MAXOPBLOCKS) /\ Cardinality(1..MAXOPBLOCKS) = MAXOPBLOCKS
  <2>1. MAXOPBLOCKS \in Int /\ 1 \in Int /\ MAXOPBLOCKS >= 0
    BY LogAssumption
  <2> QED BY <2>1, FS_Interval
<1>3. /\ IsFiniteSet(OpsOf(f) \X (1..MAXOPBLOCKS))
      /\ Cardinality(OpsOf(f) \X (1..MAXOPBLOCKS)) = Cardinality(OpsOf(f)) * MAXOPBLOCKS
  BY <1>1, <1>2, FS_Product
<1>4. ReservedOf(f, n) \subseteq OpsOf(f) \X (1..MAXOPBLOCKS)
  BY DEF ReservedOf
<1> QED BY <1>1, <1>3, <1>4, FS_Subset, FS_CardinalityType

\* An operation under way finds room for another block, also for one that is in the log already:
\* neither panic of log_write is reached.
LEMMA RoomForOne ==
  ASSUME IInv, NEW p \in Procs, pc[p] = "op"
  PROVE  Len(lh) < LOGSIZE /\ Len(lh) < size - 1 /\ outstanding >= 1
<1>1. /\ IsFiniteSet(Ops) /\ Cardinality(Ops) \in Nat
      /\ IsFiniteSet(Reserved) /\ Cardinality(Reserved) \in Nat
  BY Counting DEF Ops, Reserved
<1>2. Ops # {} /\ outstanding = Cardinality(Ops) /\ added[p] \in Nat /\ added[p] <= OpBlocks
  BY DEF IInv, TypeOK, Budget, Ops, OpsOf
<1>3. outstanding >= 1
  BY <1>1, <1>2, FS_EmptySet
<1> DEFINE mine == {p} \X ((added[p] + 1)..MAXOPBLOCKS)
<1>4. mine \subseteq Reserved
  BY <1>2 DEF Reserved, ReservedOf, OpsOf
<1>5. Cardinality(mine) = MAXOPBLOCKS - added[p]
  <2>1. /\ IsFiniteSet((added[p] + 1)..MAXOPBLOCKS)
        /\ Cardinality((added[p] + 1)..MAXOPBLOCKS) = MAXOPBLOCKS - added[p]
    <3>1. added[p] + 1 \in Int /\ MAXOPBLOCKS \in Int /\ added[p] + 1 <= MAXOPBLOCKS
      BY <1>2, LogAssumption
    <3>2. /\ IsFiniteSet((added[p] + 1)..MAXOPBLOCKS)
          /\ Cardinality((added[p] + 1)..MAXOPBLOCKS)
               = IF added[p] + 1 > MAXOPBLOCKS THEN 0 ELSE MAXOPBLOCKS - (added[p] + 1) + 1
      BY <3>1, FS_Interval
    <3> QED BY <3>1, <3>2, <1>2
  <2>2. IsFiniteSet({p}) /\ Cardinality({p}) = 1
    BY FS_Singleton
  <2> HIDE DEF mine
  <2> DEFINE T == (added[p] + 1)..MAXOPBLOCKS
  <2> HIDE DEF T
  <2>3. IsFiniteSet(T) /\ Cardinality(T) = MAXOPBLOCKS - added[p]
    BY <2>1 DEF T
  <2>4. Cardinality({p} \X T) = Cardinality({p}) * Cardinality(T)
    BY ONLY <2>3, <2>2, FS_Product, Zenon
  <2>5. mine = {p} \X T
    BY DEF mine, T
  <2>6. Cardinality(mine) = 1 * (MAXOPBLOCKS - added[p])
    BY <2>3, <2>4, <2>5, <2>2
  <2> QED BY <2>6, <1>2, LogAssumption
<1>6. Cardinality(mine) <= Cardinality(Reserved)
  BY <1>1, <1>4, FS_Subset
<1>7. Len(lh) + Cardinality(Reserved) <= LOGSIZE /\ Len(lh) \in Nat
  BY DEF IInv, Budget, TypeOK
<1>8. Len(lh) + (MAXOPBLOCKS - OpBlocks) <= LOGSIZE
  BY <1>1, <1>2, <1>5, <1>6, <1>7, LogAssumption, SMTT(30)
<1> QED BY <1>3, <1>7, <1>8, LogAssumption

\* The first state.
LEMMA InitInv == Init => IInv
<1> SUFFICES ASSUME Init PROVE IInv
  OBVIOUS
<1> USE DEF Init
<1>1. TypeOK
  <2>1. {Image[b] : b \in Blocks} \subseteq Vals
    BY LogAssumption
  <2>2. logged \in [1..LOGSIZE -> Vals]
    BY <2>1
  <2>3. home \in [Blocks -> Vals] /\ cache \in [Blocks -> Vals]
    BY LogAssumption
  <2>4. lh \in Seq(Blocks) /\ header \in Seq(Blocks)
    OBVIOUS
  <2>5. /\ outstanding \in Nat /\ tail \in Nat /\ panicked = FALSE
        /\ committing \in BOOLEAN /\ stage = "boot"
    OBVIOUS
  <2>6. /\ pc \in [Procs -> {"idle", "asleep", "op", "commit"}]
        /\ added \in [Procs -> Nat]
    OBVIOUS
  <2> HIDE DEF Init
  <2> QED BY <2>2, <2>3, <2>4, <2>5, <2>6 DEF TypeOK
<1>2. Ops = {} /\ Reserved = {}
  BY DEF Ops, OpsOf, Reserved, ReservedOf
<1>3. Budget
  BY <1>2, FS_EmptySet, LogAssumption DEF Budget
<1>4. Phases /\ Contents /\ NoStuckOp
  BY <1>2 DEF Phases, Contents, NoStuckOp, Recovering
<1> QED BY <1>1, <1>3, <1>4, LogAssumption DEF IInv, Distinct

\* The sizes of the lists of blocks.
LEMMA Lengths ==
  ASSUME IInv
  PROVE  /\ Len(lh) \in Nat /\ Len(lh) <= LOGSIZE /\ LOGSIZE \in Nat
         /\ Len(header) \in Nat /\ Len(header) <= LOGSIZE
         /\ \A i \in 1..Len(lh) : lh[i] \in Blocks /\ i \in 1..LOGSIZE
         /\ DOMAIN lh = 1..Len(lh)
<1>1. Cardinality(Reserved) \in Nat
  BY Counting DEF Reserved
<1>2. lh \in Seq(Blocks) /\ header \in Seq(Blocks)
  BY DEF IInv, TypeOK
<1>3. Len(lh) + Cardinality(Reserved) <= LOGSIZE /\ Len(header) <= LOGSIZE
  BY DEF IInv, Budget
<1> QED BY <1>1, <1>2, <1>3, LogAssumption

\* What a step of a commit or of recovery leaves alone.
LEMMA Frame ==
  ASSUME IInv, pc' = pc, added' = added, outstanding' = outstanding
  PROVE  /\ Ops' = Ops /\ Reserved' = Reserved
         /\ lh' = lh => Budget'
         /\ lh' = lh /\ committing' = committing => NoStuckOp'
BY DEF Ops, Reserved, Budget, NoStuckOp, IInv, Full

\* write_log copies one block from the cache to the log.
LEMMA WriteLog ==
  ASSUME IInv, write_log
  PROVE  IInv'
<1>1. /\ stage = "log" /\ committing /\ tail < Len(lh) /\ tail \in Nat /\ TypeOK
      /\ Phases /\ Contents /\ Distinct(lh) /\ Distinct(header)
  BY DEF IInv, Phases, TypeOK, write_log
<1>2. /\ logged' = [logged EXCEPT ![tail + 1] = cache[lh[tail + 1]]]
      /\ tail' = tail + 1
      /\ stage' = IF tail + 1 = Len(lh) THEN "head" ELSE "log"
      /\ UNCHANGED <<home, header, cache, lh, outstanding, committing, pc, added, panicked>>
  BY DEF write_log
<1>3. tail + 1 \in 1..Len(lh) /\ tail + 1 \in 1..LOGSIZE /\ lh[tail + 1] \in Blocks
  BY <1>1, Lengths
<1>4. TypeOK'
  BY <1>1, <1>2, <1>3 DEF TypeOK
<1>5. Phases'
  <2>1. Ops' = Ops
    BY <1>2, Frame
  <2>2. Len(lh) \in Nat /\ tail + 1 <= Len(lh)
    BY <1>1, Lengths
  <2> QED BY <1>1, <1>2, <2>1, <2>2 DEF Phases, Recovering
<1>6. Contents'
  <2>1. \A i \in 1..tail' : logged'[i] = cache'[lh'[i]]
    BY <1>1, <1>2, <1>3 DEF Contents, TypeOK
  <2> QED BY <1>1, <1>2, <2>1 DEF Contents, Recovering
<1>7. Distinct(lh)' /\ Distinct(header)' /\ Len(header)' <= LOGSIZE
  BY <1>1, <1>2, Lengths DEF Distinct
<1> QED BY <1>2, <1>4, <1>5, <1>6, <1>7, Frame DEF IInv

\* write_head writes the header: from here on the transaction is permanent.
LEMMA WriteHead ==
  ASSUME IInv, write_head
  PROVE  IInv'
<1>1. /\ stage = "head" /\ committing /\ tail = Len(lh) /\ TypeOK
      /\ Phases /\ Contents /\ Distinct(lh) /\ tail > 0
  BY DEF IInv, Phases, TypeOK, write_head
<1>2. /\ header' = lh /\ stage' = "install" /\ tail' = 0
      /\ UNCHANGED <<home, logged, cache, lh, outstanding, committing, pc, added, panicked>>
  BY DEF write_head
<1>3. TypeOK'
  BY <1>1, <1>2 DEF TypeOK
<1>4. Ops' = Ops
  BY <1>2, Frame
<1>5. Phases'
  BY <1>1, <1>2, <1>4 DEF Phases, Recovering
<1>6. Contents'
  BY <1>1, <1>2 DEF Contents, Recovering
<1>7. Distinct(lh)' /\ Distinct(header)' /\ Len(header)' <= LOGSIZE
  BY <1>1, <1>2, Lengths DEF Distinct
<1> QED BY <1>2, <1>3, <1>5, <1>6, <1>7, Frame DEF IInv

\* install_trans copies one block from the log to its home.
LEMMA InstallTrans ==
  ASSUME IInv, install_trans
  PROVE  IInv'
<1>1. /\ stage = "install" /\ tail < Len(lh) /\ tail \in Nat /\ TypeOK /\ header = lh
      /\ Phases /\ Contents /\ Distinct(lh) /\ Distinct(header)
  BY DEF IInv, Phases, TypeOK, install_trans
<1>2. /\ home' = [home EXCEPT ![lh[tail + 1]] = logged[tail + 1]]
      /\ cache' = [cache EXCEPT ![lh[tail + 1]] = logged[tail + 1]]
      /\ tail' = tail + 1
      /\ stage' = IF tail + 1 = Len(lh) THEN "erase" ELSE "install"
      /\ UNCHANGED <<logged, header, lh, outstanding, committing, pc, added, panicked>>
  BY DEF install_trans, FromLog
<1>3. tail + 1 \in 1..Len(lh) /\ tail + 1 \in 1..LOGSIZE /\ lh[tail + 1] \in Blocks
  BY <1>1, Lengths
<1>4. TypeOK'
  BY <1>1, <1>2, <1>3 DEF TypeOK
<1>5. Phases'
  <2>1. Ops' = Ops
    BY <1>2, Frame
  <2>2. Len(lh) \in Nat /\ tail + 1 <= Len(lh)
    BY <1>1, Lengths
  <2> QED BY <1>1, <1>2, <2>1, <2>2 DEF Phases, Recovering
<1>6. Contents'
  <2>1. \A i \in 1..tail' : logged'[i] = home'[lh'[i]]
    <3> SUFFICES ASSUME NEW i \in 1..(tail + 1)
                 PROVE  logged[i] = home'[lh[i]]
      BY <1>2
    <3>1. CASE i = tail + 1
      BY <3>1, <1>2, <1>3 DEF TypeOK, IInv
    <3>2. CASE i # tail + 1
      <4>1. i \in 1..tail /\ i \in 1..Len(lh)
        BY <3>2, <1>1, Lengths
      <4>2. lh[i] # lh[tail + 1] /\ lh[i] \in Blocks
        BY <4>1, <3>2, <1>1, <1>3, Lengths DEF Distinct
      <4>3. logged[i] = home[lh[i]]
        BY <4>1, <1>1 DEF Contents
      <4> QED BY <4>2, <4>3, <1>1, <1>2, <1>3 DEF TypeOK
    <3> QED BY <3>1, <3>2
  <2>2. committing => \A i \in 1..Len(lh) : logged'[i] = cache'[lh'[i]]
    BY <1>1, <1>2, <1>3, Lengths DEF Contents, TypeOK, Distinct
  <2>3. Recovering' = Recovering
    BY <1>1, <1>2 DEF Recovering
  <2>4. Recovering => cache' = home'
    BY <1>1, <1>2 DEF Contents
  <2>5. ~Recovering => \A b \in Blocks \ ToSet(lh') : cache'[b] = home'[b]
    BY <1>1, <1>2, <1>3 DEF Contents, TypeOK
  <2> QED BY <1>1, <1>2, <2>1, <2>2, <2>3, <2>4, <2>5 DEF Contents
<1>7. Distinct(lh)' /\ Distinct(header)' /\ Len(header)' <= LOGSIZE
  <2>1. Len(header) <= LOGSIZE
    BY Lengths
  <2> QED BY <1>1, <1>2, <2>1 DEF Distinct
<1> QED BY <1>2, <1>4, <1>5, <1>6, <1>7, Frame DEF IInv

\* erase clears the header: the blocks are home, so the log is not needed any more.
LEMMA Erase ==
  ASSUME IInv, erase
  PROVE  IInv'
<1>1. /\ stage = "erase" /\ tail = Len(lh) /\ TypeOK /\ header = lh /\ Ops = {}
      /\ Phases /\ Contents /\ Budget /\ NoStuckOp
  BY DEF IInv, Phases, erase
<1>2. /\ lh' = <<>> /\ header' = <<>>
      /\ stage' = IF committing THEN "done" ELSE "run"
      /\ UNCHANGED <<home, logged, cache, outstanding, committing, pc, added, tail, panicked>>
  BY DEF erase
<1>3. TypeOK'
  BY <1>1, <1>2 DEF TypeOK
<1>4. Ops' = Ops /\ Reserved' = Reserved
  BY <1>2, Frame
<1>5. Budget'
  <2>1. Cardinality(Reserved) \in Nat /\ Len(lh) \in Nat /\ LOGSIZE \in Nat /\ Len(lh') = 0
    BY <1>2, Counting, Lengths DEF Reserved
  <2> QED BY <1>1, <1>2, <1>4, <2>1 DEF Budget
<1>6. Phases'
  BY <1>1, <1>2, <1>4 DEF Phases, Recovering, TypeOK
<1>7. Contents'
  <2>1. Recovering => cache = home
    BY <1>1 DEF Contents
  <2>2. \A b \in Blocks : cache[b] = home[b]
    <3>1. CASE committing
      <4> SUFFICES ASSUME NEW b \in Blocks PROVE cache[b] = home[b]
        OBVIOUS
      <4>1. ~Recovering
        BY <3>1, <1>1 DEF Recovering
      <4>2. CASE b \in ToSet(lh)
        <5>1. PICK i \in 1..Len(lh) : b = lh[i]
          BY <4>2, Lengths DEF ToSet
        <5>2. logged[i] = home[lh[i]]
          BY <1>1 DEF Contents
        <5>3. logged[i] = cache[lh[i]]
          BY <1>1, <3>1 DEF Contents
        <5> QED BY <5>1, <5>2, <5>3
      <4>3. CASE b \notin ToSet(lh)
        BY <4>1, <4>3, <1>1 DEF Contents
      <4> QED BY <4>2, <4>3
    <3>2. CASE ~committing
      BY <3>2, <2>1, <1>1 DEF Recovering
    <3> QED BY <3>1, <3>2
  <2> QED BY <1>1, <1>2, <2>2 DEF Contents, Recovering
<1>8. NoStuckOp'
  BY <1>1, <1>2 DEF NoStuckOp, Phases, Recovering
<1>9. Distinct(lh)' /\ Distinct(header)' /\ Len(header)' <= LOGSIZE
  BY <1>2, LogAssumption DEF Distinct
<1> QED BY <1>3, <1>5, <1>6, <1>7, <1>8, <1>9 DEF IInv

\* The committing process wakes everybody up.
LEMMA EndCommits ==
  ASSUME IInv, EndCommit
  PROVE  IInv'
<1>1. /\ stage = "done" /\ TypeOK /\ lh = <<>> /\ header = <<>> /\ Ops = {} /\ committing
      /\ Phases /\ Contents /\ Budget
  BY DEF IInv, Phases, EndCommit
<1>2. /\ stage' = "run" /\ committing' = FALSE
      /\ pc' = CommitEndsAndWakes(pc)
      /\ UNCHANGED <<home, logged, header, cache, lh, outstanding, added, tail, panicked>>
  BY DEF EndCommit, disk
<1>3. \A p \in Procs : pc'[p] = "idle"
  BY <1>1, <1>2 DEF CommitEndsAndWakes, CommitEnds, wakeup, TypeOK, Ops, OpsOf
<1>4. pc' \in [Procs -> {"idle"}]
  BY <1>2, <1>3 DEF CommitEndsAndWakes, wakeup
<1>5. TypeOK'
  BY <1>1, <1>2, <1>4 DEF TypeOK
<1>6. Ops' = {} /\ Reserved' = {} /\ Reserved = {}
  BY <1>1, <1>3 DEF Ops, OpsOf, Reserved, ReservedOf
<1>7. Budget'
  BY <1>1, <1>2, <1>6 DEF Budget
<1>8. Phases' /\ Contents'
  BY <1>1, <1>2, <1>3, <1>6 DEF Phases, Contents, Recovering
<1>9. NoStuckOp'
  BY <1>3 DEF NoStuckOp
<1> QED BY <1>1, <1>2, <1>5, <1>7, <1>8, <1>9, LogAssumption DEF IInv, Distinct

\* Recovery begins with the header that is on the disk.
LEMMA ReadHead ==
  ASSUME IInv, read_head
  PROVE  IInv'
<1>1. /\ stage = "boot" /\ TypeOK /\ lh = <<>> /\ Ops = {} /\ ~committing
      /\ Phases /\ Contents /\ Budget /\ Distinct(header) /\ Recovering
  BY DEF IInv, Phases, read_head, Recovering
<1>2. /\ lh' = header /\ tail' = 0
      /\ stage' = IF header = <<>> THEN "erase" ELSE "install"
      /\ UNCHANGED <<home, logged, header, cache, outstanding, committing, pc, added, panicked>>
  BY DEF read_head, disk
<1>3. TypeOK'
  BY <1>1, <1>2 DEF TypeOK
<1>4. Ops' = {} /\ Reserved' = {}
  BY <1>1, <1>2 DEF Ops, OpsOf, Reserved, ReservedOf
<1>5. Budget'
  BY <1>1, <1>2, <1>4, FS_EmptySet, Lengths DEF Budget
<1>6. \A p \in Procs : pc'[p] = "idle"
  BY <1>1, <1>2 DEF Phases
<1>7. header # <<>> => Len(header) > 0
  BY <1>1 DEF TypeOK
<1>8. Phases'
  BY <1>1, <1>2, <1>4, <1>6, <1>7 DEF Phases, Recovering
<1>9. Contents'
  BY <1>1, <1>2 DEF Contents, Recovering
<1>10. NoStuckOp'
  BY <1>6 DEF NoStuckOp
<1>11. Distinct(lh)' /\ Distinct(header)' /\ Len(header)' <= LOGSIZE
  BY <1>1, <1>2, Lengths DEF Distinct
<1> QED BY <1>3, <1>5, <1>8, <1>9, <1>10, <1>11 DEF IInv

\* A crash keeps the disk and nothing else.
LEMMA Crashes ==
  ASSUME IInv, Crash
  PROVE  IInv'
<1>1. TypeOK /\ Distinct(header)
  BY DEF IInv
<1>2. /\ cache' = home /\ lh' = <<>> /\ outstanding' = 0 /\ committing' = FALSE
      /\ pc' = [p \in Procs |-> "idle"] /\ added' = [p \in Procs |-> 0]
      /\ stage' = "boot" /\ tail' = 0
      /\ UNCHANGED <<home, logged, header, panicked>>
  BY DEF Crash, disk
<1>3. TypeOK'
  <2>1. lh' \in Seq(Blocks) /\ outstanding' \in Nat /\ tail' \in Nat /\ stage' = "boot"
    BY <1>2
  <2>2. /\ pc' \in [Procs -> {"idle", "asleep", "op", "commit"}]
        /\ added' \in [Procs -> Nat]
    BY <1>2
  <2>3. cache' \in [Blocks -> Vals] /\ committing' \in BOOLEAN
    BY <1>1, <1>2 DEF TypeOK
  <2>4. UNCHANGED <<home, logged, header, panicked>>
    BY <1>2
  <2> QED BY <1>1, <2>1, <2>2, <2>3, <2>4 DEF TypeOK
<1>4. Ops' = {} /\ Reserved' = {}
  BY <1>2 DEF Ops, OpsOf, Reserved, ReservedOf
<1>5. Budget'
  BY <1>2, <1>4, FS_EmptySet, LogAssumption DEF Budget
<1>6. Phases' /\ Contents' /\ NoStuckOp'
  BY <1>2, <1>4 DEF Phases, Contents, NoStuckOp, Recovering
<1>7. Distinct(lh)' /\ Distinct(header)' /\ Len(header)' <= LOGSIZE
  BY <1>1, <1>2, Lengths DEF Distinct
<1> QED BY <1>3, <1>5, <1>6, <1>7 DEF IInv

\* begin_op goes to sleep, or reserves MAXOPBLOCKS after it has seen that they fit.
LEMMA BeginOp ==
  ASSUME IInv, NEW p \in Procs, begin_op(p)
  PROVE  IInv'
<1>1. /\ stage = "run" \/ committing
      /\ pc[p] = "idle" /\ TypeOK /\ Phases /\ Contents /\ Budget /\ NoStuckOp /\ ~Recovering
      /\ Distinct(lh) /\ Distinct(header)
  BY DEF IInv, begin_op, Recovering
<1>2. UNCHANGED <<home, logged, header, cache, lh, committing, stage, tail, panicked>>
  BY DEF begin_op, disk
<1>3. Contents'
  BY <1>1, <1>2 DEF Contents, Recovering
<1>4. Distinct(lh)' /\ Distinct(header)' /\ Len(header)' <= LOGSIZE
  BY <1>1, <1>2, Lengths DEF Distinct
<1>5. Len(lh) \in Nat /\ LOGSIZE \in Nat /\ MAXOPBLOCKS \in Nat /\ MAXOPBLOCKS <= LOGSIZE
  BY Lengths, LogAssumption
<1>6. CASE committing \/ Full
  <2>1. pc' = [pc EXCEPT ![p] = "asleep"] /\ UNCHANGED <<outstanding, added>>
    BY <1>6 DEF begin_op
  <2>2. TypeOK'
    BY <1>1, <1>2, <2>1 DEF TypeOK
  <2>3. Ops' = Ops
    BY <1>1, <2>1 DEF Ops, OpsOf, TypeOK
  <2>4. Reserved' = Reserved
    BY <2>1, <2>3 DEF Reserved, ReservedOf, Ops
  <2>5. Budget'
    BY <1>1, <1>2, <2>1, <2>3, <2>4 DEF Budget
  <2>6. Phases'
    BY <1>1, <1>2, <2>3 DEF Phases, Recovering
  <2>7. committing \/ outstanding > 0
    <3> SUFFICES ASSUME ~committing, outstanding = 0
                 PROVE  FALSE
      BY <1>1 DEF TypeOK
    <3>1. Ops = {}
      BY <1>1, Counting, FS_EmptySet DEF Budget, Ops
    <3>2. Len(lh) = 0
      BY <3>1, <1>1 DEF Phases
    <3> QED BY <3>2, <1>5, <1>6 DEF Full
  <2>8. NoStuckOp'
    BY <1>1, <1>2, <1>6, <2>1, <2>7 DEF NoStuckOp, Full, TypeOK
  <2> QED BY <1>3, <1>4, <2>2, <2>5, <2>6, <2>8 DEF IInv
<1>7. CASE ~(committing \/ Full)
  <2>1. /\ pc' = [pc EXCEPT ![p] = "op"]
        /\ outstanding' = outstanding + 1
        /\ added' = [added EXCEPT ![p] = 0]
    BY <1>7 DEF begin_op
  <2>2. TypeOK'
    BY <1>1, <1>2, <2>1 DEF TypeOK
  <2>3. Ops' = Ops \cup {p} /\ p \notin Ops
    BY <1>1, <2>1 DEF Ops, OpsOf, TypeOK
  <2>4. Cardinality(Ops') = outstanding'
    BY <1>1, <2>1, <2>3, Counting, FS_AddElement DEF Budget, Ops
  <2>5. Len(lh) + (outstanding + 1) * MAXOPBLOCKS <= LOGSIZE
    BY <1>1, <1>5, <1>7 DEF Full, TypeOK
  <2>6. Budget'
    <3>1. Cardinality(Reserved') \in Nat /\ Cardinality(Reserved') <= Cardinality(Ops') * MAXOPBLOCKS
      BY Counting DEF Reserved, Ops
    <3>2. (outstanding + 1) * MAXOPBLOCKS \in Nat
      BY <1>1, <1>5 DEF TypeOK
    <3>3. Len(lh') + Cardinality(Reserved') <= LOGSIZE
      BY <1>2, <1>5, <2>1, <2>4, <2>5, <3>1, <3>2
    <3>4. \A q \in Ops' : added'[q] <= OpBlocks
      BY <1>1, <2>1, <2>3, LogAssumption DEF Budget, TypeOK, Ops, OpsOf
    <3> QED BY <2>4, <3>3, <3>4 DEF Budget
  <2>7. Phases'
    BY <1>1, <1>2, <1>7, <2>3 DEF Phases, Recovering
  <2>8. NoStuckOp'
    BY <1>1, <1>7, <2>1 DEF NoStuckOp, TypeOK
  <2> QED BY <1>3, <1>4, <2>2, <2>6, <2>7, <2>8 DEF IInv
<1> QED BY <1>6, <1>7

\* log_write takes one of the blocks the operation reserved, or none when the block is there.
LEMMA LogWrite ==
  ASSUME IInv, NEW p \in Procs, NEW b \in Blocks, NEW v \in Vals, log_write(p, b, v)
  PROVE  IInv'
<1>1. /\ pc[p] = "op" /\ TypeOK /\ Phases /\ Contents /\ Budget /\ NoStuckOp
      /\ Distinct(lh) /\ Distinct(header)
      /\ b \in ToSet(lh) \/ added[p] < OpBlocks
  BY DEF IInv, log_write
<1>2. Len(lh) < LOGSIZE /\ Len(lh) < size - 1 /\ outstanding >= 1
  BY <1>1, RoomForOne
<1>3. Len(lh) \in Nat /\ LOGSIZE \in Nat /\ size \in Nat /\ outstanding \in Nat /\ added[p] \in Nat
  BY <1>1, Lengths, LogAssumption DEF TypeOK
<1>4. /\ cache' = [cache EXCEPT ![b] = v]
      /\ lh' = IF b \in ToSet(lh) THEN lh ELSE Append(lh, b)
      /\ added' = [added EXCEPT ![p] = IF b \in ToSet(lh) THEN @ ELSE @ + 1]
      /\ UNCHANGED <<home, logged, header, outstanding, committing, pc, stage, tail, panicked>>
  BY <1>2, <1>3 DEF log_write, WithBlock, disk
<1>5. p \in Ops /\ Ops' = Ops /\ stage = "run" /\ header = <<>> /\ ~committing
  BY <1>1, <1>4 DEF Ops, OpsOf, Phases
<1>6. TypeOK'
  BY <1>1, <1>3, <1>4 DEF TypeOK
<1>7. Len(lh') \in Nat /\ Len(lh') = IF b \in ToSet(lh) THEN Len(lh) ELSE Len(lh) + 1
  BY <1>1, <1>4 DEF TypeOK
<1>8. Budget'
  <2>1. \A q \in Ops' : added'[q] <= OpBlocks
    BY <1>1, <1>3, <1>4, <1>5, LogAssumption DEF Budget, TypeOK, Ops, OpsOf
  <2>2. CASE b \in ToSet(lh)
    <3>1. lh' = lh /\ added' = added
      BY <2>2, <1>1, <1>4 DEF TypeOK
    <3> QED BY <3>1, <1>4, Frame
  <2>3. CASE b \notin ToSet(lh)
    <3> DEFINE x == <<p, added[p] + 1>>
    <3>1. x \in Reserved
      BY <2>3, <1>1, <1>3, <1>5, LogAssumption DEF Reserved, ReservedOf, Ops
    <3>2. Reserved' = Reserved \ {x}
      <4>1. \A r \in Ops \X (1..MAXOPBLOCKS) :
              added'[r[1]] < r[2] <=> added[r[1]] < r[2] /\ r # x
        BY <2>3, <1>1, <1>3, <1>4, LogAssumption DEF TypeOK, Ops, OpsOf
      <4> QED BY <4>1, <1>5 DEF Reserved, ReservedOf, Ops
    <3>3. IsFiniteSet(Reserved) /\ Cardinality(Reserved) \in Nat
      BY Counting DEF Reserved
    <3>4. Cardinality(Reserved') = Cardinality(Reserved) - 1
      BY <3>1, <3>2, <3>3, FS_RemoveElement
    <3>5. Len(lh') + Cardinality(Reserved') <= LOGSIZE
      BY <2>3, <1>1, <1>3, <1>7, <3>3, <3>4 DEF Budget
    <3> QED BY <2>1, <3>5, <1>1, <1>4, <1>5 DEF Budget
  <2> QED BY <2>2, <2>3
<1>9. Distinct(lh)' /\ Distinct(header)' /\ Len(header)' <= LOGSIZE
  <2>1. \A i, j \in 1..Len(lh') : lh'[i] = lh'[j] => i = j
    <3>0. \A i, j \in 1..Len(lh) : lh[i] = lh[j] => i = j
      BY <1>1 DEF Distinct
    <3>1. CASE b \in ToSet(lh)
      <4>1. lh' = lh
        BY <3>1, <1>4
      <4> QED BY <4>1, <3>0
    <3>2. CASE b \notin ToSet(lh)
      <4>1. \A i \in 1..Len(lh) : lh'[i] = lh[i] /\ lh[i] # b
        <5>1. \A i \in 1..Len(lh) : lh'[i] = lh[i]
          BY <3>2, <1>1, <1>4 DEF TypeOK
        <5>2. \A i \in 1..Len(lh) : lh[i] # b
          BY <3>2, Lengths DEF ToSet
        <5> QED BY <5>1, <5>2
      <4>2. lh'[Len(lh) + 1] = b
        BY <3>2, <1>1, <1>4 DEF TypeOK
      <4>3. \A i \in 1..Len(lh') : i \in 1..Len(lh) \/ i = Len(lh) + 1
        BY <3>2, <1>3, <1>7
      <4>4. SUFFICES ASSUME NEW i \in 1..Len(lh'), NEW j \in 1..Len(lh'), lh'[i] = lh'[j]
                     PROVE  i = j
        OBVIOUS
      <4>5. CASE i \in 1..Len(lh) /\ j \in 1..Len(lh)
        BY <4>1, <4>4, <4>5, <3>0
      <4>6. CASE i = Len(lh) + 1 \/ j = Len(lh) + 1
        BY <4>1, <4>2, <4>3, <4>4, <4>6
      <4> QED BY <4>3, <4>5, <4>6
    <3> QED BY <3>1, <3>2
  <2>2. Distinct(header)' /\ Len(header)' <= LOGSIZE
    <3>1. header' = header /\ Distinct(header) /\ Len(header) <= LOGSIZE
      BY <1>1, <1>4, Lengths
    <3> QED BY <3>1 DEF Distinct
  <2> QED BY <2>1, <2>2 DEF Distinct
<1>10. Phases'
  BY <1>1, <1>4, <1>5 DEF Phases, Recovering
<1>11. Contents'
  <2>1. ToSet(lh) \subseteq ToSet(lh') /\ b \in ToSet(lh')
    <3>1. CASE b \in ToSet(lh)
      BY <3>1, <1>4
    <3>2. CASE b \notin ToSet(lh)
      <4>1. \A i \in 1..Len(lh) : lh'[i] = lh[i]
        BY <3>2, <1>1, <1>4 DEF TypeOK
      <4>2. lh'[Len(lh) + 1] = b /\ DOMAIN lh' = 1..(Len(lh) + 1) /\ DOMAIN lh = 1..Len(lh)
        BY <3>2, <1>1, <1>4 DEF TypeOK
      <4> QED BY <4>1, <4>2, <1>3 DEF ToSet
    <3> QED BY <3>1, <3>2
  <2>2. \A c \in Blocks \ ToSet(lh') : cache'[c] = home'[c]
    BY <2>1, <1>1, <1>4, <1>5 DEF Contents, Recovering, TypeOK
  <2> QED BY <2>2, <1>4, <1>5 DEF Contents, Recovering
<1>12. NoStuckOp'
  <2>1. (outstanding + 1) * MAXOPBLOCKS \in Nat
    BY <1>3, LogAssumption
  <2>2. Full => Full'
    BY <2>1, <1>3, <1>4, <1>7 DEF Full
  <2> QED BY <2>2, <1>1, <1>4 DEF NoStuckOp
<1> QED BY <1>6, <1>8, <1>9, <1>10, <1>11, <1>12 DEF IInv

\* end_op gives back what the operation reserved; the last one starts the commit.
LEMMA EndOp ==
  ASSUME IInv, NEW p \in Procs, end_op(p)
  PROVE  IInv'
<1>1. /\ pc[p] = "op" /\ TypeOK /\ Phases /\ Contents /\ Budget /\ NoStuckOp
      /\ Distinct(lh) /\ Distinct(header)
  BY DEF IInv, end_op
<1>2. /\ outstanding' = outstanding - 1 /\ panicked' = committing
      /\ UNCHANGED <<home, logged, header, cache, lh, added>>
  BY DEF end_op, disk
<1>3. p \in Ops /\ stage = "run" /\ header = <<>> /\ committing = FALSE /\ ~Recovering
  BY <1>1 DEF Ops, OpsOf, Phases, TypeOK, Recovering
<1>4. outstanding >= 1 /\ outstanding \in Nat
  BY <1>1, RoomForOne DEF TypeOK
<1>5. Distinct(lh)' /\ Distinct(header)' /\ Len(header)' <= LOGSIZE
  BY <1>1, <1>2, Lengths DEF Distinct
<1>6. /\ pc' \in [Procs -> {"idle", "asleep", "op", "commit"}]
      /\ \A q \in Procs : pc'[q] = "op" <=> pc[q] = "op" /\ q # p
  <2>1. CASE outstanding = 1
    BY <2>1, <1>1 DEF end_op, TypeOK
  <2>2. CASE outstanding # 1
    BY <2>2, <1>1 DEF end_op, EndWakes, wakeup, TypeOK
  <2> QED BY <2>1, <2>2
<1>7. Ops' = Ops \ {p}
  BY <1>6 DEF Ops, OpsOf
<1>8. Budget'
  <2>1. IsFiniteSet(Ops) /\ IsFiniteSet(Reserved) /\ Cardinality(Reserved) \in Nat
    BY Counting DEF Ops, Reserved
  <2>2. Cardinality(Ops') = outstanding'
    BY <1>1, <1>2, <1>3, <1>7, <2>1, FS_RemoveElement DEF Budget
  <2>3. Reserved' \subseteq Reserved
    BY <1>2, <1>7 DEF Reserved, ReservedOf, Ops
  <2>4. Cardinality(Reserved') <= Cardinality(Reserved) /\ Cardinality(Reserved') \in Nat
    BY <2>1, <2>3, FS_Subset, FS_CardinalityType
  <2>5. Len(lh') + Cardinality(Reserved') <= LOGSIZE
    BY <1>1, <1>2, <2>1, <2>4, Lengths DEF Budget
  <2>6. \A q \in Ops' : added'[q] <= OpBlocks
    BY <1>1, <1>2, <1>7 DEF Budget
  <2> QED BY <2>2, <2>5, <2>6 DEF Budget
<1>9. CASE outstanding = 1
  <2>1. /\ committing' = TRUE /\ tail' = 0 /\ stage' = IF lh = <<>> THEN "done" ELSE "log"
    BY <1>9 DEF end_op
  <2>2. Ops' = {}
    BY <1>2, <1>8, <1>9, Counting, FS_EmptySet DEF Budget, Ops
  <2>3. TypeOK'
    BY <1>1, <1>2, <1>3, <1>6, <1>9, <2>1 DEF TypeOK
  <2>4. lh # <<>> => Len(lh) > 0
    BY <1>1 DEF TypeOK
  <2>5. Phases'
    BY <1>1, <1>2, <1>3, <2>1, <2>2, <2>4 DEF Phases, Recovering
  <2>6. Contents'
    BY <1>1, <1>2, <1>3, <2>1 DEF Contents, Recovering
  <2>7. NoStuckOp'
    BY <2>1 DEF NoStuckOp
  <2> QED BY <1>5, <1>8, <2>3, <2>5, <2>6, <2>7 DEF IInv
<1>10. CASE outstanding # 1
  <2>1. EndWakes(p) /\ UNCHANGED <<committing, stage, tail>>
    BY <1>10 DEF end_op
  <2>2. Ops' # {}
    <3>1. Cardinality(Ops') # 0
      BY <1>2, <1>4, <1>8, <1>10 DEF Budget
    <3> QED BY <3>1, FS_EmptySet
  <2>3. TypeOK'
    BY <1>1, <1>2, <1>3, <1>4, <1>6, <2>1 DEF TypeOK
  <2>4. Phases' /\ Contents'
    BY <1>1, <1>2, <1>3, <2>1, <2>2 DEF Phases, Contents, Recovering
  <2>5. NoStuckOp'
    BY <1>1, <2>1 DEF NoStuckOp, EndWakes, wakeup, TypeOK
  <2> QED BY <1>5, <1>8, <2>3, <2>4, <2>5 DEF IInv
<1> QED BY <1>9, <1>10

\* Every step keeps the invariant.
LEMMA NextInv == IInv /\ [Next]_vars => IInv'
<1> SUFFICES ASSUME IInv, [Next]_vars PROVE IInv'
  OBVIOUS
<1>1. CASE Next
  <2>1. ASSUME NEW p \in Procs, begin_op(p) PROVE IInv'
    BY <2>1, BeginOp
  <2>2. ASSUME NEW p \in Procs, end_op(p) PROVE IInv'
    BY <2>2, EndOp
  <2>3. ASSUME NEW p \in Procs, NEW b \in Blocks, NEW v \in Vals, log_write(p, b, v) PROVE IInv'
    BY <2>3, LogWrite
  <2>4. CASE DiskStep
    BY <2>4, WriteLog, WriteHead, InstallTrans, Erase, EndCommits, ReadHead DEF DiskStep
  <2>5. CASE Crash
    BY <2>5, Crashes
  <2> QED BY <1>1, <2>1, <2>2, <2>3, <2>4, <2>5 DEF Next
<1>2. CASE UNCHANGED vars
  BY <1>2, SMTT(30) DEF vars, disk, IInv, TypeOK, Budget, Ops, Reserved, Distinct, Phases, Contents,
              NoStuckOp, Full, Recovering
<1> QED BY <1>1, <1>2

\* The bookkeeping of operations is exact, and the disk and the cache agree at every stage of a
\* commit and of recovery.
THEOREM Invariance == Spec => []IInv
<1>1. Init => IInv
  BY InitInv
<1>2. IInv /\ [Next]_vars => IInv'
  BY NextInv
<1> QED BY <1>1, <1>2, PTL DEF Spec

\* Operations that keep to their limit never meet the panics of log_write and end_op.
THEOREM LogNeverOverflows == Spec => []NeverTooBig
<1>1. IInv => NeverTooBig
  BY DEF IInv, TypeOK, NeverTooBig
<1> QED BY <1>1, Invariance, PTL

\* Nobody sleeps in begin_op without a reason, or without somebody who will wake it.
THEOREM NobodyStuck == Spec => []NoStuckOp
<1>1. IInv => NoStuckOp
  BY DEF IInv
<1> QED BY <1>1, Invariance, PTL

\* While no header is on the disk, recovery would leave the home blocks as they are.
LEMMA NothingLogged ==
  ASSUME NEW hm \in [Blocks -> Vals], NEW lg
  PROVE  RecoveredFrom(hm, lg, <<>>) = hm
BY DEF RecoveredFrom, ToSet

\* With a header on the disk, recovery takes the blocks it names from the log.
LEMMA RecoveredBlocks ==
  ASSUME NEW hm \in [Blocks -> Vals], NEW lg \in [1..LOGSIZE -> Vals],
         NEW hd \in Seq(Blocks), Distinct(hd), Len(hd) <= LOGSIZE
  PROVE  /\ RecoveredFrom(hm, lg, hd) \in [Blocks -> Vals]
         /\ \A i \in 1..Len(hd) : RecoveredFrom(hm, lg, hd)[hd[i]] = lg[i]
         /\ \A b \in Blocks \ ToSet(hd) : RecoveredFrom(hm, lg, hd)[b] = hm[b]
<1> DEFINE rec == RecoveredFrom(hm, lg, hd)
<1>1. Len(hd) \in Nat /\ DOMAIN hd = 1..Len(hd) /\ LOGSIZE \in Nat
  BY LogAssumption
<1>2. \A i, j \in 1..Len(hd) : hd[i] = hd[j] => i = j
  BY DEF Distinct
<1>3. \A i \in 1..Len(hd) : hd[i] \in Blocks /\ hd[i] \in ToSet(hd)
  BY <1>1 DEF ToSet
<1>4. \A i \in 1..Len(hd) : (CHOOSE k \in 1..Len(hd) : hd[k] = hd[i]) = i
  BY <1>2
<1>5. \A i \in 1..Len(hd) : rec[hd[i]] = lg[i]
  BY <1>3, <1>4 DEF RecoveredFrom
<1>6. \A b \in Blocks \ ToSet(hd) : rec[b] = hm[b]
  BY DEF RecoveredFrom
<1>7. \A i \in 1..Len(hd) : lg[i] \in Vals
  BY <1>1
<1>8. \A b \in Blocks : rec[b] \in Vals
  <2> SUFFICES ASSUME NEW b \in Blocks PROVE rec[b] \in Vals
    OBVIOUS
  <2>1. CASE b \in ToSet(hd)
    <3>1. PICK i \in 1..Len(hd) : b = hd[i]
      BY <2>1, <1>1 DEF ToSet
    <3> QED BY <3>1, <1>5, <1>7
  <2>2. CASE b \notin ToSet(hd)
    BY <2>2, <1>6
  <2> QED BY <2>1, <2>2
<1>9. rec \in [Blocks -> Vals]
  BY <1>8 DEF RecoveredFrom
<1> QED BY <1>5, <1>6, <1>9

\* A step that writes nothing to the disk does not change what recovery would leave.
LEMMA SameRecovered ==
  ASSUME UNCHANGED <<home, logged, header>>
  PROVE  Recovered' = Recovered
BY DEF Recovered

\* The steps of a commit and of recovery: write_head commits, the others change nothing that an
\* operation or a crash could see.
LEMMA DiskStepRefines ==
  ASSUME IInv, IInv', DiskStep
  PROVE  Atomic!Commit \/ UNCHANGED Atomic!vars
<1>0. /\ TypeOK /\ Phases /\ Contents /\ Distinct(lh)
      /\ Len(lh) <= LOGSIZE /\ home \in [Blocks -> Vals] /\ logged \in [1..LOGSIZE -> Vals]
      /\ lh \in Seq(Blocks) /\ cache \in [Blocks -> Vals]
  BY Lengths DEF IInv, TypeOK
<1>1. CASE write_log
  <2>1. header = <<>> /\ header' = <<>> /\ home' = home
    BY <1>0, <1>1 DEF write_log, Phases
  <2>2. Recovered' = Recovered
    BY <1>0, <2>1, NothingLogged DEF Recovered
  <2>3. ~Recovering /\ ~Recovering' /\ cache' = cache /\ outstanding' = outstanding
    BY <1>0, <1>1 DEF write_log, Recovering
  <2> QED BY <2>2, <2>3 DEF Atomic!vars
<1>2. CASE write_head
  <2>1. /\ stage = "head" /\ tail = Len(lh) /\ committing /\ Ops = {} /\ header' = lh
        /\ UNCHANGED <<home, logged, cache, lh, outstanding, committing>> /\ stage' = "install"
    BY <1>0, <1>2 DEF write_head, Phases
  <2>2. ~Recovering /\ ~Recovering' /\ outstanding = 0
    BY <2>1, FS_EmptySet DEF Recovering, IInv, Budget
  <2>3. Recovered' = RecoveredFrom(home, logged, lh)
    BY <2>1 DEF Recovered
  <2>4. /\ Recovered' \in [Blocks -> Vals]
        /\ \A i \in 1..Len(lh) : Recovered'[lh[i]] = logged[i]
        /\ \A b \in Blocks \ ToSet(lh) : Recovered'[b] = home[b]
    <3>1. /\ RecoveredFrom(home, logged, lh) \in [Blocks -> Vals]
          /\ \A i \in 1..Len(lh) : RecoveredFrom(home, logged, lh)[lh[i]] = logged[i]
          /\ \A b \in Blocks \ ToSet(lh) : RecoveredFrom(home, logged, lh)[b] = home[b]
      BY <1>0, RecoveredBlocks
    <3> QED BY <2>3, <3>1
  <2>5. ASSUME NEW b \in Blocks PROVE Recovered'[b] = cache[b]
    <3>1. CASE b \in ToSet(lh)
      <4>1. PICK i \in 1..Len(lh) : b = lh[i]
        BY <3>1, Lengths DEF ToSet
      <4>2. logged[i] = cache[lh[i]]
        BY <1>0, <2>1 DEF Contents
      <4> QED BY <2>4, <4>1, <4>2
    <3>2. CASE b \notin ToSet(lh)
      BY <2>4, <3>2, <1>0, <2>2 DEF Contents
    <3> QED BY <3>1, <3>2
  <2>6. Recovered' = cache
    BY <1>0, <2>4, <2>5
  <2> QED BY <2>1, <2>2, <2>6 DEF Atomic!Commit
<1>3. CASE install_trans
  <2>1. /\ stage = "install" /\ header = lh /\ tail < Len(lh) /\ tail \in Nat
        /\ UNCHANGED <<logged, header, lh, outstanding, committing>>
        /\ stage' \in {"install", "erase"}
        /\ home' = [home EXCEPT ![lh[tail + 1]] = logged[tail + 1]]
        /\ cache' = [cache EXCEPT ![lh[tail + 1]] = logged[tail + 1]]
    BY <1>0, <1>3 DEF install_trans, Phases, TypeOK, FromLog
  <2>2. tail + 1 \in 1..Len(lh) /\ lh[tail + 1] \in ToSet(header)
    BY <2>1, Lengths DEF ToSet
  <2>3. \A b \in Blocks : Recovered'[b] = Recovered[b]
    BY <1>0, <2>1, <2>2 DEF Recovered, RecoveredFrom
  <2>4. Recovered' = Recovered
    BY <2>3 DEF Recovered, RecoveredFrom
  <2>5. Recovering' = Recovering
    BY <2>1 DEF Recovering
  <2>6. ~Recovering => cache' = cache
    BY <1>0, <2>1, <2>2 DEF Recovering, Contents, TypeOK
  <2> QED BY <2>1, <2>4, <2>5, <2>6 DEF Atomic!vars
<1>4. CASE erase
  <2>1. /\ stage = "erase" /\ header = lh /\ tail = Len(lh) /\ header' = <<>>
        /\ UNCHANGED <<home, logged, cache, outstanding, committing>>
        /\ stage' \in {"run", "done"}
    BY <1>0, <1>4 DEF erase, Phases
  <2>2. Recovered' = home
    BY <1>0, <2>1, NothingLogged DEF Recovered
  <2>3. \A b \in Blocks : Recovered[b] = home[b]
    <3> SUFFICES ASSUME NEW b \in Blocks PROVE Recovered[b] = home[b]
      OBVIOUS
    <3>1. CASE b \in ToSet(lh)
      <4>1. PICK i \in 1..Len(lh) : b = lh[i]
        BY <3>1, Lengths DEF ToSet
      <4>2. logged[i] = home[lh[i]]
        BY <1>0, <2>1 DEF Contents
      <4>3. Recovered[lh[i]] = logged[i]
        BY <1>0, <2>1, RecoveredBlocks DEF Recovered
      <4> QED BY <4>1, <4>2, <4>3
    <3>2. CASE b \notin ToSet(lh)
      BY <1>0, <3>2, <2>1, RecoveredBlocks DEF Recovered
    <3> QED BY <3>1, <3>2
  <2>4. Recovered = home
    <3>1. Recovered \in [Blocks -> Vals] /\ home \in [Blocks -> Vals]
      BY <1>0, <2>1, RecoveredBlocks DEF Recovered
    <3> QED BY <2>3, <3>1
  <2>5. ~Recovering' /\ (Recovering => cache = home)
    BY <1>0, <2>1 DEF Recovering, Contents
  <2> QED BY <2>1, <2>2, <2>4, <2>5 DEF Atomic!vars
<1>5. CASE EndCommit
  <2>1. /\ UNCHANGED <<home, logged, header, cache, outstanding>> /\ ~Recovering /\ ~Recovering'
    BY <1>0, <1>5 DEF EndCommit, disk, Recovering
  <2> QED BY <2>1, SameRecovered DEF Atomic!vars
<1>6. CASE read_head
  <2>1. /\ UNCHANGED <<home, logged, header, outstanding>> /\ Recovering /\ Recovering'
    BY <1>0, <1>6 DEF read_head, disk, Recovering, Phases
  <2> QED BY <2>1, SameRecovered DEF Atomic!vars
<1> QED BY <1>1, <1>2, <1>3, <1>4, <1>5, <1>6 DEF DiskStep

\* Every step is a step of the atomic disk, or changes nothing of it.
LEMMA StepRefines ==
  ASSUME IInv, IInv', [Next]_vars
  PROVE  [Atomic!Next]_(Atomic!vars)
<1>0. TypeOK /\ Phases
  BY DEF IInv
<1>1. ASSUME NEW p \in Procs, begin_op(p)
      PROVE  Atomic!Begin \/ UNCHANGED Atomic!vars
  <2>1. /\ UNCHANGED <<home, logged, header, cache>> /\ ~Recovering /\ ~Recovering'
        /\ outstanding' \in {outstanding, outstanding + 1}
    BY <1>1 DEF begin_op, disk, Recovering
  <2> QED BY <2>1, SameRecovered DEF Atomic!vars, Atomic!Begin
<1>2. ASSUME NEW p \in Procs, end_op(p)
      PROVE  Atomic!End
  <2>1. /\ UNCHANGED <<home, logged, header, cache>> /\ outstanding' = outstanding - 1
    BY <1>2 DEF end_op, disk
  <2>2. p \in Ops /\ stage = "run" /\ outstanding >= 1 /\ ~Recovering
    BY <1>0, <1>2, RoomForOne DEF end_op, Ops, OpsOf, Phases, Recovering
  <2>3. ~Recovering'
    BY <1>2, <2>2 DEF end_op, Recovering
  <2> QED BY <2>1, <2>2, <2>3, <1>0, SameRecovered DEF Atomic!End, TypeOK
<1>3. ASSUME NEW p \in Procs, NEW b \in Blocks, NEW v \in Vals, log_write(p, b, v)
      PROVE  Atomic!Write
  <2>1. /\ UNCHANGED <<home, logged, header, outstanding, stage, committing>>
        /\ cache' = [cache EXCEPT ![b] = v]
    BY <1>3 DEF log_write, disk
  <2>2. p \in Ops /\ stage = "run" /\ outstanding >= 1 /\ ~Recovering /\ ~Recovering'
    BY <1>0, <1>3, <2>1, RoomForOne DEF log_write, Ops, OpsOf, Phases, Recovering
  <2> DEFINE cur == IF Recovering THEN Recovered ELSE cache
  <2>3. outstanding > 0 /\ UNCHANGED outstanding /\ Recovered' = Recovered
    BY <2>1, <2>2, <1>0, SameRecovered DEF TypeOK
  <2>4. cur' = [cur EXCEPT ![b] = v]
    BY <2>1, <2>2
  <2>5. \E c \in Blocks, w \in Vals : cur' = [cur EXCEPT ![c] = w]
    BY <2>4
  <2> QED BY <2>3, <2>5 DEF Atomic!Write
<1>4. CASE DiskStep
  BY <1>4, DiskStepRefines DEF Atomic!Next
<1>5. CASE Crash
  <2>1. /\ UNCHANGED <<home, logged, header>> /\ Recovering' /\ outstanding' = 0
    BY <1>5 DEF Crash, disk, Recovering
  <2>2. Recovered' = Recovered
    BY <2>1, SameRecovered
  <2> QED BY <2>1, <2>2 DEF Atomic!Crash, Atomic!Next
<1>6. CASE UNCHANGED vars
  <2>1. UNCHANGED <<home, logged, header, cache, stage, committing, outstanding>>
    BY <1>6 DEF vars, disk
  <2> QED BY <2>1, SameRecovered DEF Atomic!vars, Recovering
<1> QED BY <1>1, <1>2, <1>3, <1>4, <1>5, <1>6 DEF Next, Atomic!Next

\* Log implements AtomicDisk: recovery from a crash at any point restores the state of the last
\* commit, and a commit happens only when no operation is under way.
THEOREM TransactionsAtomic == Spec => AtomicCommit
<1>1. Init => Atomic!Init
  <2> SUFFICES ASSUME Init PROVE Atomic!Init
    OBVIOUS
  <2>1. Recovered = Image /\ Recovering /\ outstanding = 0
    BY LogAssumption, NothingLogged DEF Init, Recovered, Recovering
  <2> QED BY <2>1, LogAssumption DEF Atomic!Init
<1>2. IInv /\ IInv' /\ [Next]_vars => [Atomic!Next]_(Atomic!vars)
  BY StepRefines
<1> QED BY <1>1, <1>2, Invariance, PTL DEF Spec, AtomicCommit, Atomic!Spec
=============================================================================

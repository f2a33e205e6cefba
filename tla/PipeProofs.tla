----------------------------- MODULE PipeProofs -----------------------------
(***************************************************************************)
(* Proofs about a pipe for any processes, any PIPESIZE that divides the    *)
(* number of values of a uint, and any reads and writes: PipeInv is        *)
(* inductive, nobody sleeps past its reason, the page is freed last, and   *)
(* the ring is a queue.                                                    *)
(***************************************************************************)
EXTENDS Pipe, TLAPS, SequenceTheorems

-----------------------------------------------------------------------------
(* Remainders.                                                             *)

\* Adding a multiple of m does not change a remainder.
LEMMA ModShift ==
  ASSUME NEW m \in Nat \ {0}, NEW a \in Int, NEW q \in Int, NEW b, b = a + q * m
  PROVE  b % m = a % m
<1>1. a = (a \div m) * m + (a % m) /\ a \div m \in Int /\ a % m \in 0..(m - 1)
  OBVIOUS
<1>2. ASSUME NEW d \in Int, NEW r \in 0..(m - 1), a = d * m + r
      PROVE  b % m = r
  <2>1. b = (d + q) * m + r
    BY <1>2
  <2>2. ((d + q) * m + r) % m = r
    <3>1. ASSUME NEW e \in Int PROVE (e * m + r) % m = r
      OBVIOUS
    <3> QED BY <3>1
  <2> QED BY <2>1, <2>2
<1> QED BY <1>1, <1>2

\* Numbers less than m apart with the same remainder are equal.
LEMMA ModDistinct ==
  ASSUME NEW m \in Nat \ {0}, NEW a \in Int, NEW b \in Int, a % m = b % m, b - a \in 0..(m - 1)
  PROVE  a = b
<1>1. a = (a \div m) * m + (a % m) /\ a \div m \in Int /\ a % m \in 0..(m - 1)
  OBVIOUS
<1>2. b = (b \div m) * m + (b % m) /\ b \div m \in Int
  OBVIOUS
<1>3. ASSUME NEW d \in Int, NEW e \in Int, NEW r \in 0..(m - 1), a = d * m + r, b = e * m + r
      PROVE  a = b
  <2>1. b - a = (e - d) * m
    BY <1>3
  <2>2. ASSUME NEW k \in Int, k * m \in 0..(m - 1) PROVE k = 0
    <3>1. CASE k >= 1
      <4>1. k * m >= m
        BY <3>1
      <4> QED BY <4>1, <2>2
    <3>2. CASE k <= -1
      <4>1. k * m <= -m
        BY <3>2
      <4> QED BY <4>1, <2>2
    <3> QED BY <3>1, <3>2
  <2>3. e - d = 0
    BY <2>1, <2>2
  <2> QED BY <2>1, <2>3
<1> QED BY <1>1, <1>2, <1>3

\* The number of bytes in the ring, when one is put and when one is taken.
LEMMA FillStep ==
  ASSUME NEW u \in Nat \ {0}, NEW r \in 0..(u - 1), NEW w \in 0..(u - 1)
  PROVE  /\ (w - r) % u = IF r <= w THEN w - r ELSE w - r + u
         /\ (w - r) % u < u - 1 => (((w + 1) % u) - r) % u = ((w - r) % u) + 1
         /\ w # r => (w - ((r + 1) % u)) % u = ((w - r) % u) - 1
<1>1. ASSUME NEW a \in 0..(u - 1) PROVE a % u = a /\ (a - u) % u = a
  OBVIOUS
<1>2. ASSUME NEW a \in 0..(u - 1), NEW b \in 0..(u - 1)
      PROVE  (a - b) % u = IF b <= a THEN a - b ELSE a - b + u
  <2>1. CASE b <= a
    BY <1>1, <2>1
  <2>2. CASE ~(b <= a)
    <3>1. a - b + u \in 0..(u - 1) /\ a - b = (a - b + u) - u
      BY <2>2
    <3> QED BY <1>1, <2>2, <3>1
  <2> QED BY <2>1, <2>2
<1>3. ASSUME NEW a \in 0..(u - 1) PROVE (a + 1) % u = IF a + 1 = u THEN 0 ELSE a + 1
  OBVIOUS
<1>4. (w + 1) % u \in 0..(u - 1) /\ (r + 1) % u \in 0..(u - 1)
  OBVIOUS
<1>5. (w - r) % u = IF r <= w THEN w - r ELSE w - r + u
  BY <1>2
<1>6. (((w + 1) % u) - r) % u
        = IF r <= (w + 1) % u THEN ((w + 1) % u) - r ELSE ((w + 1) % u) - r + u
  BY <1>2, <1>4
<1>7. (w - ((r + 1) % u)) % u
        = IF (r + 1) % u <= w THEN w - ((r + 1) % u) ELSE w - ((r + 1) % u) + u
  BY <1>2, <1>4
<1>8. (w - r) % u < u - 1 => (((w + 1) % u) - r) % u = ((w - r) % u) + 1
  BY <1>3, <1>4, <1>5, <1>6
<1>9. w # r => (w - ((r + 1) % u)) % u = ((w - r) % u) - 1
  BY <1>3, <1>4, <1>5, <1>7
<1> QED BY <1>5, <1>8, <1>9

\* The ring is smaller than the counters.
LEMMA Sizes == PIPESIZE \in Nat \ {0} /\ UintMax1 \in Nat \ {0} /\ PIPESIZE < UintMax1
BY PipeAssumption

\* Positions that are UintMax1 apart have the same place in the ring.
LEMMA WrapPlace ==
  ASSUME NEW a \in Int
  PROVE  (a + UintMax1) % PIPESIZE = a % PIPESIZE
<1> DEFINE c == UintMax1 \div PIPESIZE
<1>1. UintMax1 = c * PIPESIZE + (UintMax1 % PIPESIZE) /\ c \in Int
  BY Sizes
<1>2. UintMax1 % PIPESIZE = 0
  BY PipeAssumption
<1>3. UintMax1 = c * PIPESIZE
  BY <1>1, <1>2, Sizes
<1> HIDE DEF c
<1>4. a + UintMax1 = a + c * PIPESIZE
  BY <1>3
<1> QED BY <1>1, <1>4, Sizes, ModShift

\* The next free place of the ring is none of those that hold bytes.
LEMMA PutPlace ==
  ASSUME NEW r \in 0..(UintMax1 - 1), NEW w \in 0..(UintMax1 - 1), NEW n, n = (w - r) % UintMax1,
         n <= PIPESIZE, w # (r + PIPESIZE) % UintMax1
  PROVE  /\ n \in Nat /\ n < PIPESIZE
         /\ w % PIPESIZE = (r + n) % PIPESIZE
         /\ \A k \in 1..n : (r + k - 1) % PIPESIZE # w % PIPESIZE
<1>1. (w - r) % UintMax1 = IF r <= w THEN w - r ELSE w - r + UintMax1
  BY Sizes, FillStep
<1>2. n \in Nat /\ (w = r + n \/ r + n = w + UintMax1)
  BY <1>1, Sizes
<1>3. n < PIPESIZE
  <2> SUFFICES ASSUME n = PIPESIZE PROVE w = (r + PIPESIZE) % UintMax1
    BY <1>2, Sizes
  <2>1. CASE w = r + n
    BY <2>1, Sizes
  <2>2. CASE r + n = w + UintMax1
    <3>1. r + PIPESIZE = UintMax1 + w
      BY <2>2, Sizes
    <3>2. (UintMax1 + w) % UintMax1 = w
      BY Sizes
    <3> QED BY <3>1, <3>2
  <2> QED BY <1>2, <2>1, <2>2
<1>4. w % PIPESIZE = (r + n) % PIPESIZE
  <2>1. (w + UintMax1) % PIPESIZE = w % PIPESIZE
    <3>1. w \in Int
      BY Sizes
    <3> QED BY <3>1, WrapPlace
  <2> QED BY <1>2, <2>1
<1>5. ASSUME NEW k \in 1..n PROVE (r + k - 1) % PIPESIZE # (r + n) % PIPESIZE
  <2> DEFINE a == r + k - 1
  <2> DEFINE b == r + n
  <2>1. a \in Int /\ b \in Int /\ b - a \in 0..(PIPESIZE - 1) /\ a # b
    BY <1>2, <1>3, Sizes
  <2> HIDE DEF a, b
  <2>2. a % PIPESIZE # b % PIPESIZE
    BY <2>1, Sizes, ModDistinct
  <2> QED BY <2>2 DEF a, b
<1> QED BY <1>2, <1>3, <1>4, <1>5

\* When the counter of bytes read wraps, the places of the ring do not move.
LEMMA TakePlace ==
  ASSUME NEW r \in 0..(UintMax1 - 1), NEW k \in Int
  PROVE  (((r + 1) % UintMax1) + k - 1) % PIPESIZE = (r + k) % PIPESIZE
<1>1. (r + 1) % UintMax1 = IF r + 1 = UintMax1 THEN 0 ELSE r + 1
  BY Sizes
<1>2. CASE r + 1 # UintMax1
  <2>1. ((r + 1) % UintMax1) + k - 1 = r + k
    BY <1>1, <1>2, Sizes
  <2> QED BY <2>1
<1>3. CASE r + 1 = UintMax1
  <2>1. ((k - 1) + UintMax1) % PIPESIZE = (k - 1) % PIPESIZE
    <3>1. k - 1 \in Int
      OBVIOUS
    <3> QED BY <3>1, WrapPlace
  <2>2. (k - 1) + UintMax1 = r + k /\ ((r + 1) % UintMax1) + k - 1 = k - 1
    BY <1>1, <1>3, Sizes
  <2> QED BY <2>1, <2>2
<1> QED BY <1>2, <1>3

-----------------------------------------------------------------------------
(* The invariant.                                                          *)

\* pipealloc makes an empty pipe with both ends open.
LEMMA PipeInitInv == PipeInit => PipeInv
<1> SUFFICES ASSUME PipeInit PROVE PipeInv
  OBVIOUS
<1>1. PipeTypeOK
  <2>1. data \in [0..PIPESIZE - 1 -> Bytes]
    BY DEF PipeInit, Bytes
  <2>2. nread \in 0..UintMax1 - 1 /\ nwrite \in 0..UintMax1 - 1
    BY Sizes DEF PipeInit
  <2>3. left \in [PipeProcs -> Seq(Bytes)] /\ got \in [PipeProcs -> Seq(Bytes)]
    <3>1. <<>> \in Seq(Bytes)
      OBVIOUS
    <3> QED BY <3>1 DEF PipeInit
  <2>4. ends \in [PipeProcs -> SUBSET {"r", "w"}] /\ want \in [PipeProcs -> Int]
    BY DEF PipeInit
  <2>5. at \in [PipeProcs -> {"user"} \cup Writing \cup Reading]
    BY DEF PipeInit
  <2>6. killed \in [PipeProcs -> BOOLEAN] /\ plock \in PipeProcs \cup {"none"}
    BY DEF PipeInit
  <2>7. readopen \in BOOLEAN /\ writeopen \in BOOLEAN /\ freed \in BOOLEAN
    BY DEF PipeInit
  <2> QED BY <2>1, <2>2, <2>3, <2>4, <2>5, <2>6, <2>7 DEF PipeTypeOK
<1>2. EndsAgree
  BY PipeAssumption DEF PipeInit, EndsAgree, Holding, Writing, Reading
<1>3. Sleepers /\ Partners
  BY DEF PipeInit, Sleepers, Partners
<1>4. (nwrite - nread) % UintMax1 <= PIPESIZE
  <2>1. nwrite - nread = 0 /\ 0 % UintMax1 = 0
    BY Sizes DEF PipeInit
  <2> QED BY <2>1, Sizes
<1> QED BY <1>1, <1>2, <1>3, <1>4 DEF PipeInv

\* Sleepers keep their reasons in a step that leaves the counters alone, if those who go to
\* sleep have one and whoever was to wake sleepers does so before it leaves.
LEMMA SleepersKept ==
  ASSUME Sleepers, UNCHANGED <<nread, nwrite>>,
         \A q \in PipeProcs : killed[q] => killed'[q],
         \A q \in PipeProcs :
           at'[q] \in {"must wait for room", "sleep on nwrite"} => at'[q] = at[q] \/ PipeFull,
         \A q \in PipeProcs :
           at'[q] \in {"must wait for data", "sleep on nread"} => at'[q] = at[q] \/ nread = nwrite,
         \A q \in PipeProcs : at[q] = "copy" =>
           at'[q] = "copy" \/ \A c \in PipeProcs : at'[c] # "sleep on nwrite",
         \A q \in PipeProcs : at[q] = "write" =>
           at'[q] = "write" \/ killed'[q] \/ \A c \in PipeProcs : at'[c] # "sleep on nread"
  PROVE  Sleepers'
<1>1. PipeFull' = PipeFull
  BY DEF PipeFull
<1> SUFFICES ASSUME NEW p \in PipeProcs
             PROVE  /\ at'[p] = "must wait for room" => PipeFull
                    /\ at'[p] = "must wait for data" => nread = nwrite
                    /\ at'[p] = "sleep on nwrite" => PipeFull \/ \E q \in PipeProcs : at'[q] = "copy"
                    /\ at'[p] = "sleep on nread" =>
                         nread = nwrite \/ \E q \in PipeProcs : at'[q] = "write" \/ killed'[q]
  BY <1>1 DEF Sleepers
<1>2. at'[p] = "must wait for room" => PipeFull
  BY DEF Sleepers
<1>3. at'[p] = "must wait for data" => nread = nwrite
  BY DEF Sleepers
<1>4. at'[p] = "sleep on nwrite" => PipeFull \/ \E q \in PipeProcs : at'[q] = "copy"
  BY DEF Sleepers
<1>5. at'[p] = "sleep on nread" =>
        nread = nwrite \/ \E q \in PipeProcs : at'[q] = "write" \/ killed'[q]
  BY DEF Sleepers
<1> QED BY <1>2, <1>3, <1>4, <1>5

\* A step that moves one process to or from a place where it holds the lock, and may wake
\* others, without touching the bytes and the ends.
LEMMA PipeMove ==
  ASSUME PipeInv, NEW p \in PipeProcs, NEW to,
         UNCHANGED <<data, nread, nwrite, readopen, writeopen, freed, ends, killed>>,
         left' \in [PipeProcs -> Seq(Bytes)], want' \in [PipeProcs -> Int],
         got' \in [PipeProcs -> Seq(Bytes)],
         at' \in [PipeProcs -> {"user"} \cup Writing \cup Reading],
         \A q \in PipeProcs : at'[q] = IF q = p THEN to ELSE IF at'[q] = at[q] THEN at[q]
                                       ELSE Woken(at[q]),
         \A q \in PipeProcs \ {p} : at'[q] # at[q] => at[q] \in Asleep,
         plock = p \/ plock = "none",
         plock' = IF to \in Holding THEN p ELSE "none",
         to \in Writing => "w" \in ends[p], to \in Reading => "r" \in ends[p],
         to \in {"must wait for room", "sleep on nwrite"} => PipeFull /\ readopen,
         to \in {"must wait for data", "sleep on nread"} => nread = nwrite /\ writeopen,
         at[p] = "copy" => to = "copy" \/ \A c \in PipeProcs : at'[c] # "sleep on nwrite",
         at[p] = "write" =>
           to = "write" \/ killed[p] \/ \A c \in PipeProcs : at'[c] # "sleep on nread"
  PROVE  PipeInv'
<1>1. PipeTypeOK /\ EndsAgree /\ Sleepers /\ Partners /\ (nwrite - nread) % UintMax1 <= PIPESIZE
  BY DEF PipeInv
<1>2. PipeTypeOK'
  <2>1. plock' \in PipeProcs \cup {"none"}
    OBVIOUS
  <2> QED BY <1>1, <2>1 DEF PipeTypeOK
<1>3. \A q \in PipeProcs \ {p} : /\ at'[q] \in Holding <=> at[q] \in Holding
                                 /\ at'[q] \in Writing <=> at[q] \in Writing
                                 /\ at'[q] \in Reading <=> at[q] \in Reading
  BY DEF Holding, Writing, Reading, Asleep, Woken
<1>4. EndsAgree'
  <2>1. \A q \in PipeProcs : at'[q] \in Holding <=> plock' = q
    BY <1>1, <1>3, PipeAssumption DEF EndsAgree
  <2>2. \A q \in PipeProcs : at'[q] \in Writing => "w" \in ends[q]
    BY <1>1, <1>3 DEF EndsAgree
  <2>3. \A q \in PipeProcs : at'[q] \in Reading => "r" \in ends[q]
    BY <1>1, <1>3 DEF EndsAgree
  <2> QED BY <1>1, <2>1, <2>2, <2>3 DEF EndsAgree
<1>5. Sleepers'
  <2>1. \A q \in PipeProcs : killed[q] => killed'[q]
    OBVIOUS
  <2>2. \A q \in PipeProcs :
          at'[q] \in {"must wait for room", "sleep on nwrite"} => at'[q] = at[q] \/ PipeFull
    BY DEF Woken
  <2>3. \A q \in PipeProcs :
          at'[q] \in {"must wait for data", "sleep on nread"} => at'[q] = at[q] \/ nread = nwrite
    BY DEF Woken
  <2>4. \A q \in PipeProcs : at[q] = "copy" =>
          at'[q] = "copy" \/ \A c \in PipeProcs : at'[c] # "sleep on nwrite"
    BY DEF Asleep
  <2>5. \A q \in PipeProcs : at[q] = "write" =>
          at'[q] = "write" \/ killed'[q] \/ \A c \in PipeProcs : at'[c] # "sleep on nread"
    BY DEF Asleep
  <2> QED BY <1>1, <2>1, <2>2, <2>3, <2>4, <2>5, SleepersKept
<1>6. Partners'
  BY <1>1 DEF Partners, Woken
<1> QED BY <1>1, <1>2, <1>4, <1>5, <1>6 DEF PipeInv

\* Entering a call.
LEMMA PipeEnters ==
  ASSUME PipeInv, NEW p \in PipeProcs,
         \/ \E s \in Written : pipewrite(p, s)
         \/ \E n \in ReadSizes : piperead(p, n)
  PROVE  PipeInv'
<1>1. PipeTypeOK /\ EndsAgree
  BY DEF PipeInv
<1>2. ASSUME NEW s \in Written, pipewrite(p, s) PROVE PipeInv'
  <2>1. /\ at[p] = "user" /\ "w" \in ends[p] /\ plock = "none" /\ plock' = p
        /\ at' = [at EXCEPT ![p] = "write"] /\ left' = [left EXCEPT ![p] = s]
        /\ UNCHANGED <<data, nread, nwrite, readopen, writeopen, freed, ends, want, got, killed>>
    BY <1>2 DEF pipewrite, Locks
  <2>2. left' \in [PipeProcs -> Seq(Bytes)]
    BY <1>1, <2>1, PipeAssumption DEF PipeTypeOK
  <2>3. at' \in [PipeProcs -> {"user"} \cup Writing \cup Reading]
    BY <1>1, <2>1 DEF PipeTypeOK, Writing
  <2>4. \A q \in PipeProcs : at'[q] = IF q = p THEN "write" ELSE at[q]
    BY <1>1, <2>1 DEF PipeTypeOK
  <2> QED BY <1>1, <2>1, <2>2, <2>3, <2>4, PipeMove DEF PipeTypeOK, Holding, Writing, Reading
<1>3. ASSUME NEW n \in ReadSizes, piperead(p, n) PROVE PipeInv'
  <2>1. /\ at[p] = "user" /\ "r" \in ends[p] /\ plock = "none" /\ plock' = p
        /\ at' = [at EXCEPT ![p] = "empty?"] /\ want' = [want EXCEPT ![p] = n]
        /\ got' = [got EXCEPT ![p] = <<>>]
        /\ UNCHANGED <<data, nread, nwrite, readopen, writeopen, freed, ends, left, killed>>
    BY <1>3 DEF piperead, Locks
  <2>2. want' \in [PipeProcs -> Int] /\ got' \in [PipeProcs -> Seq(Bytes)]
    BY <1>1, <2>1, PipeAssumption DEF PipeTypeOK
  <2>3. at' \in [PipeProcs -> {"user"} \cup Writing \cup Reading]
    BY <1>1, <2>1 DEF PipeTypeOK, Reading
  <2>4. \A q \in PipeProcs : at'[q] = IF q = p THEN "empty?" ELSE at[q]
    BY <1>1, <2>1 DEF PipeTypeOK
  <2> QED BY <1>1, <2>1, <2>2, <2>3, <2>4, PipeMove DEF PipeTypeOK, Holding, Writing, Reading
<1> QED BY <1>2, <1>3

\* What a step that wakes the sleepers of one channel and moves p does to the others.
LEMMA PipeWakes ==
  ASSUME PipeTypeOK, NEW p \in PipeProcs, NEW chan \in Asleep,
         NEW to \in {"user"} \cup Writing \cup Reading, to \notin Asleep,
         at' = [PipeWakeup(at, chan) EXCEPT ![p] = to]
  PROVE  /\ at' \in [PipeProcs -> {"user"} \cup Writing \cup Reading]
         /\ \A q \in PipeProcs : at'[q] = IF q = p THEN to ELSE IF at'[q] = at[q] THEN at[q]
                                         ELSE Woken(at[q])
         /\ \A q \in PipeProcs \ {p} : at'[q] # at[q] => at[q] \in Asleep
         /\ \A q \in PipeProcs : at'[q] # chan
<1>1. Woken(chan) \in (Writing \cup Reading) \ Asleep
  BY DEF Woken, Asleep, Writing, Reading
<1>2. PipeWakeup(at, chan) \in [PipeProcs -> {"user"} \cup Writing \cup Reading]
  BY <1>1 DEF PipeWakeup, PipeTypeOK
<1>3. \A q \in PipeProcs : at'[q] = IF q = p THEN to ELSE IF at[q] = chan THEN Woken(chan) ELSE at[q]
  BY DEF PipeWakeup
<1> QED BY <1>1, <1>2, <1>3

\* A write that finds the pipe full, or has put its last byte.
LEMMA PipeWriteEnds ==
  ASSUME PipeInv, NEW p \in PipeProcs, WriteBlocked(p) \/ WriteDone(p)
  PROVE  PipeInv'
<1>1. PipeTypeOK /\ EndsAgree
  BY DEF PipeInv
<1>2. at[p] = "write" /\ plock = p /\ "w" \in ends[p]
  BY <1>1 DEF WriteBlocked, WriteDone, EndsAgree, Holding, Writing
<1>3. CASE WriteBlocked(p) /\ (~readopen \/ killed[p])
  <2>1. /\ at' = [at EXCEPT ![p] = "user"] /\ plock' = "none" /\ left' = [left EXCEPT ![p] = <<>>]
        /\ UNCHANGED <<data, nread, nwrite, readopen, writeopen, freed, ends, want, got, killed>>
    BY <1>3 DEF WriteBlocked, ReturnFrom
  <2>2. left' \in [PipeProcs -> Seq(Bytes)]
    BY <1>1, <2>1 DEF PipeTypeOK
  <2>3. at' \in [PipeProcs -> {"user"} \cup Writing \cup Reading]
    BY <1>1, <2>1 DEF PipeTypeOK
  <2>4. \A q \in PipeProcs : at'[q] = IF q = p THEN "user" ELSE at[q]
    BY <1>1, <2>1 DEF PipeTypeOK
  <2>5. killed[p] \/ \A c \in PipeProcs : at'[c] # "sleep on nread"
    BY <1>1, <1>3, <2>4 DEF EndsAgree, Reading
  <2> QED BY <1>1, <1>2, <2>1, <2>2, <2>3, <2>4, <2>5, PipeMove
          DEF PipeTypeOK, Holding, Writing, Reading
<1>4. CASE WriteBlocked(p) /\ ~(~readopen \/ killed[p])
  <2>1. /\ at' = [PipeWakeup(at, "sleep on nread") EXCEPT ![p] = "must wait for room"]
        /\ PipeFull /\ readopen
        /\ UNCHANGED <<data, nread, nwrite, readopen, writeopen, freed, ends, left, want, got,
                       killed, plock>>
    BY <1>4 DEF WriteBlocked, WriteWaits
  <2>2. /\ "must wait for room" \in {"user"} \cup Writing \cup Reading
        /\ "must wait for room" \notin Asleep /\ "sleep on nread" \in Asleep
    BY DEF Writing, Asleep
  <2>3. /\ at' \in [PipeProcs -> {"user"} \cup Writing \cup Reading]
        /\ \A q \in PipeProcs : at'[q] = IF q = p THEN "must wait for room"
                                        ELSE IF at'[q] = at[q] THEN at[q] ELSE Woken(at[q])
        /\ \A q \in PipeProcs \ {p} : at'[q] # at[q] => at[q] \in Asleep
        /\ \A q \in PipeProcs : at'[q] # "sleep on nread"
    BY <1>1, <2>1, <2>2, PipeWakes
  <2> QED BY <1>1, <1>2, <2>1, <2>3, PipeMove DEF PipeTypeOK, Holding, Writing, Reading
<1>5. CASE WriteDone(p)
  <2>1. /\ at' = [PipeWakeup(at, "sleep on nread") EXCEPT ![p] = "user"] /\ plock' = "none"
        /\ UNCHANGED <<data, nread, nwrite, readopen, writeopen, freed, ends, left, want, got,
                       killed>>
    BY <1>5 DEF WriteDone, ReturnFrom
  <2>2. "user" \notin Asleep /\ "sleep on nread" \in Asleep
    BY DEF Asleep
  <2>3. /\ at' \in [PipeProcs -> {"user"} \cup Writing \cup Reading]
        /\ \A q \in PipeProcs : at'[q] = IF q = p THEN "user"
                                        ELSE IF at'[q] = at[q] THEN at[q] ELSE Woken(at[q])
        /\ \A q \in PipeProcs \ {p} : at'[q] # at[q] => at[q] \in Asleep
        /\ \A q \in PipeProcs : at'[q] # "sleep on nread"
    BY <1>1, <2>1, <2>2, PipeWakes
  <2> QED BY <1>1, <1>2, <2>1, <2>3, PipeMove DEF PipeTypeOK, Holding, Writing, Reading
<1> QED BY <1>3, <1>4, <1>5

\* A read that looks whether there are bytes, or has taken its last.
LEMMA PipeReadEnds ==
  ASSUME PipeInv, NEW p \in PipeProcs, ReadChecks(p) \/ ReadDone(p)
  PROVE  PipeInv'
<1>1. PipeTypeOK /\ EndsAgree
  BY DEF PipeInv
<1>2. at[p] \in {"empty?", "copy"} /\ plock = p /\ "r" \in ends[p]
  BY <1>1 DEF ReadChecks, ReadDone, EndsAgree, Holding, Reading
<1>3. CASE ReadChecks(p)
  <2>1. PICK to \in {"user", "must wait for data", "copy"} :
          /\ at' = [at EXCEPT ![p] = to]
          /\ plock' = IF to = "user" THEN "none" ELSE plock
          /\ to = "must wait for data" => nread = nwrite /\ writeopen
    BY <1>3 DEF ReadChecks, ReturnFrom
  <2>2. /\ at[p] = "empty?"
        /\ UNCHANGED <<data, nread, nwrite, readopen, writeopen, freed, ends, left, want, got,
                       killed>>
    BY <1>3 DEF ReadChecks
  <2>3. at' \in [PipeProcs -> {"user"} \cup Writing \cup Reading]
    BY <1>1, <2>1 DEF PipeTypeOK, Reading
  <2>4. \A q \in PipeProcs : at'[q] = IF q = p THEN to ELSE at[q]
    BY <1>1, <2>1 DEF PipeTypeOK
  <2> QED BY <1>1, <1>2, <2>1, <2>2, <2>3, <2>4, PipeMove DEF PipeTypeOK, Holding, Writing, Reading
<1>4. CASE ReadDone(p)
  <2>1. /\ at' = [PipeWakeup(at, "sleep on nwrite") EXCEPT ![p] = "user"] /\ plock' = "none"
        /\ at[p] = "copy"
        /\ UNCHANGED <<data, nread, nwrite, readopen, writeopen, freed, ends, left, want, got,
                       killed>>
    BY <1>4 DEF ReadDone, ReturnFrom
  <2>2. "user" \notin Asleep /\ "sleep on nwrite" \in Asleep
    BY DEF Asleep
  <2>3. /\ at' \in [PipeProcs -> {"user"} \cup Writing \cup Reading]
        /\ \A q \in PipeProcs : at'[q] = IF q = p THEN "user"
                                        ELSE IF at'[q] = at[q] THEN at[q] ELSE Woken(at[q])
        /\ \A q \in PipeProcs \ {p} : at'[q] # at[q] => at[q] \in Asleep
        /\ \A q \in PipeProcs : at'[q] # "sleep on nwrite"
    BY <1>1, <2>1, <2>2, PipeWakes
  <2> QED BY <1>1, <1>2, <2>1, <2>3, PipeMove DEF PipeTypeOK, Holding, Writing, Reading
<1> QED BY <1>3, <1>4

\* A process goes to sleep, or takes the lock again.
LEMMA PipeSleeps ==
  ASSUME PipeInv, NEW p \in PipeProcs, PipeSleep(p) \/ PipeResume(p)
  PROVE  PipeInv'
<1>1. PipeTypeOK /\ EndsAgree /\ Sleepers /\ Partners
  BY DEF PipeInv
<1>2. PICK to \in {"sleep on nwrite", "sleep on nread", "write", "empty?"} :
        /\ at' = [at EXCEPT ![p] = to]
        /\ plock' = IF to \in Holding THEN p ELSE "none"
        /\ to = "sleep on nwrite" => at[p] = "must wait for room"
        /\ to = "sleep on nread" => at[p] = "must wait for data"
        /\ to = "write" => at[p] = "write again"
        /\ to = "empty?" => at[p] = "read again"
  BY DEF PipeSleep, PipeResume, Locks, Holding
<1>3. UNCHANGED <<data, nread, nwrite, readopen, writeopen, freed, ends, left, want, got, killed>>
  BY DEF PipeSleep, PipeResume
<1>4. plock = p \/ plock = "none"
  BY <1>1 DEF PipeSleep, PipeResume, Locks, EndsAgree, Holding
<1>5. at' \in [PipeProcs -> {"user"} \cup Writing \cup Reading]
  BY <1>1, <1>2 DEF PipeTypeOK, Writing, Reading
<1>6. \A q \in PipeProcs : at'[q] = IF q = p THEN to ELSE at[q]
  BY <1>1, <1>2 DEF PipeTypeOK
<1>7. /\ to \in Writing => "w" \in ends[p]
      /\ to \in Reading => "r" \in ends[p]
  BY <1>1, <1>2 DEF EndsAgree, Writing, Reading
<1>8. /\ to \in {"must wait for room", "sleep on nwrite"} => PipeFull /\ readopen
      /\ to \in {"must wait for data", "sleep on nread"} => nread = nwrite /\ writeopen
  BY <1>1, <1>2 DEF Sleepers, Partners
<1> QED BY <1>1, <1>2, <1>3, <1>4, <1>5, <1>6, <1>7, <1>8, PipeMove DEF PipeTypeOK

\* A byte is put into the ring.
LEMMA PipePuts ==
  ASSUME PipeInv, NEW p \in PipeProcs, WriteByte(p)
  PROVE  PipeInv'
<1>1. PipeTypeOK /\ EndsAgree /\ Sleepers /\ Partners /\ (nwrite - nread) % UintMax1 <= PIPESIZE
  BY DEF PipeInv
<1>2. /\ at[p] = "write" /\ left[p] # <<>> /\ ~PipeFull
      /\ data' = [data EXCEPT ![nwrite % PIPESIZE] = Head(left[p])]
      /\ nwrite' = (nwrite + 1) % UintMax1
      /\ left' = [left EXCEPT ![p] = Tail(left[p])]
      /\ UNCHANGED <<nread, readopen, writeopen, freed, plock, ends, at, want, got, killed>>
  BY DEF WriteByte
<1>3. left[p] \in Seq(Bytes) /\ Head(left[p]) \in Bytes /\ Tail(left[p]) \in Seq(Bytes)
  BY <1>1, <1>2 DEF PipeTypeOK
<1>4. PipeTypeOK'
  <2>1. nwrite' \in 0..UintMax1 - 1
    BY <1>1, <1>2, Sizes DEF PipeTypeOK
  <2>2. data' \in [0..PIPESIZE - 1 -> Bytes] /\ left' \in [PipeProcs -> Seq(Bytes)]
    BY <1>1, <1>2, <1>3 DEF PipeTypeOK
  <2> QED BY <1>1, <1>2, <2>1, <2>2 DEF PipeTypeOK
<1>5. EndsAgree'
  BY <1>1, <1>2 DEF EndsAgree
<1>6. plock = p /\ \A q \in PipeProcs : at[q] \in Holding => q = p
  BY <1>1, <1>2 DEF EndsAgree, Holding
<1>7. Sleepers'
  <2>1. \A q \in PipeProcs : at[q] \notin {"must wait for room", "must wait for data", "copy"}
    BY <1>2, <1>6 DEF Holding
  <2>2. \A q \in PipeProcs : at[q] # "sleep on nwrite"
    BY <1>1, <1>2, <2>1 DEF Sleepers
  <2> QED BY <1>2, <2>1, <2>2 DEF Sleepers
<1>8. (nwrite' - nread') % UintMax1 <= PIPESIZE
  <2>1. nread \in 0..(UintMax1 - 1) /\ nwrite \in 0..(UintMax1 - 1)
    BY <1>1 DEF PipeTypeOK
  <2>2. /\ (nwrite - nread) % UintMax1 \in Nat
        /\ (nwrite - nread) % UintMax1 < PIPESIZE
    BY <1>1, <1>2, <2>1, PutPlace DEF PipeFull
  <2>3. (nwrite - nread) % UintMax1 < UintMax1 - 1
    BY <2>2, Sizes
  <2>4. (((nwrite + 1) % UintMax1) - nread) % UintMax1 = ((nwrite - nread) % UintMax1) + 1
    BY <2>1, <2>3, FillStep, Sizes
  <2> QED BY <1>2, <2>2, <2>4, Sizes
<1>9. Partners'
  BY <1>1, <1>2 DEF Partners
<1> QED BY <1>4, <1>5, <1>7, <1>8, <1>9 DEF PipeInv

\* A byte is taken out of the ring.
LEMMA PipeTakes ==
  ASSUME PipeInv, NEW p \in PipeProcs, ReadByte(p)
  PROVE  PipeInv'
<1>1. PipeTypeOK /\ EndsAgree /\ Sleepers /\ Partners /\ (nwrite - nread) % UintMax1 <= PIPESIZE
  BY DEF PipeInv
<1>2. /\ at[p] = "copy" /\ nread # nwrite
      /\ got' = [got EXCEPT ![p] = Append(got[p], data[nread % PIPESIZE])]
      /\ nread' = (nread + 1) % UintMax1
      /\ want' = [want EXCEPT ![p] = want[p] - 1]
      /\ UNCHANGED <<data, nwrite, readopen, writeopen, freed, plock, ends, at, left, killed>>
  BY DEF ReadByte
<1>3. PipeTypeOK'
  <2>1. nread' \in 0..UintMax1 - 1 /\ nread % PIPESIZE \in 0..PIPESIZE - 1
    BY <1>1, <1>2, Sizes DEF PipeTypeOK
  <2>2. data[nread % PIPESIZE] \in Bytes
    BY <1>1, <2>1 DEF PipeTypeOK
  <2>3. got' \in [PipeProcs -> Seq(Bytes)]
    BY <1>1, <1>2, <2>2 DEF PipeTypeOK
  <2>4. want' \in [PipeProcs -> Int]
    BY <1>1, <1>2 DEF PipeTypeOK
  <2> QED BY <1>1, <1>2, <2>1, <2>3, <2>4 DEF PipeTypeOK
<1>4. EndsAgree'
  BY <1>1, <1>2 DEF EndsAgree
<1>5. plock = p /\ \A q \in PipeProcs : at[q] \in Holding => q = p
  BY <1>1, <1>2 DEF EndsAgree, Holding
<1>6. Sleepers'
  <2>1. \A q \in PipeProcs : at[q] \notin {"must wait for room", "must wait for data"}
    BY <1>2, <1>5 DEF Holding
  <2>2. \A q \in PipeProcs : at[q] = "sleep on nread" =>
          \E c \in PipeProcs : at[c] = "write" \/ killed[c]
    BY <1>1, <1>2 DEF Sleepers
  <2> QED BY <1>2, <2>1, <2>2 DEF Sleepers
<1>7. (nwrite' - nread') % UintMax1 <= PIPESIZE
  <2>1. nread \in 0..(UintMax1 - 1) /\ nwrite \in 0..(UintMax1 - 1)
    BY <1>1 DEF PipeTypeOK
  <2>2. (nwrite - ((nread + 1) % UintMax1)) % UintMax1 = ((nwrite - nread) % UintMax1) - 1
    BY <1>2, <2>1, FillStep, Sizes
  <2>3. (nwrite - nread) % UintMax1 \in Nat
    BY <2>1, Sizes
  <2> QED BY <1>1, <1>2, <2>2, <2>3, Sizes
<1>8. Partners'
  BY <1>1, <1>2 DEF Partners
<1> QED BY <1>3, <1>4, <1>6, <1>7, <1>8 DEF PipeInv

\* An end is closed, and the last close of an end wakes the other side.
LEMMA PipeCloses ==
  ASSUME PipeInv, NEW p \in PipeProcs, NEW e \in {"r", "w"}, Close(p, e)
  PROVE  PipeInv'
<1>1. PipeTypeOK /\ EndsAgree /\ Sleepers /\ Partners /\ (nwrite - nread) % UintMax1 <= PIPESIZE
  BY DEF PipeInv
<1>2. /\ at[p] = "user" /\ plock = "none" /\ e \in ends[p]
      /\ ends' = [ends EXCEPT ![p] = ends[p] \ {e}]
      /\ UNCHANGED <<data, nread, nwrite, plock, left, want, got, killed>>
  BY DEF Close
<1>3. \A q \in PipeProcs : ends'[q] = IF q = p THEN ends[p] \ {e} ELSE ends[q]
  BY <1>1, <1>2 DEF PipeTypeOK
<1>4. ends' \in [PipeProcs -> SUBSET {"r", "w"}]
  BY <1>1, <1>2 DEF PipeTypeOK
<1>5. \A q \in PipeProcs : at[q] \notin Holding
  BY <1>1, <1>2, PipeAssumption DEF EndsAgree
<1>6. CASE \E q \in PipeProcs \ {p} : e \in ends[q]
  <2>1. UNCHANGED <<readopen, writeopen, freed, at>>
    BY <1>6 DEF Close
  <2>2. PipeTypeOK'
    BY <1>1, <1>2, <1>4, <2>1 DEF PipeTypeOK
  <2>3. EndsAgree'
    <3>1. (\E q \in PipeProcs : "r" \in ends'[q]) <=> \E q \in PipeProcs : "r" \in ends[q]
      BY <1>3, <1>6
    <3>2. (\E q \in PipeProcs : "w" \in ends'[q]) <=> \E q \in PipeProcs : "w" \in ends[q]
      BY <1>3, <1>6
    <3>3. \A q \in PipeProcs : /\ at[q] \in Writing => "w" \in ends'[q]
                               /\ at[q] \in Reading => "r" \in ends'[q]
      BY <1>1, <1>2, <1>3 DEF EndsAgree, Writing, Reading
    <3> QED BY <1>1, <1>2, <2>1, <3>1, <3>2, <3>3 DEF EndsAgree
  <2>4. Sleepers' /\ Partners' /\ (nwrite' - nread') % UintMax1 <= PIPESIZE
    BY <1>1, <1>2, <2>1 DEF Sleepers, Partners, PipeFull
  <2> QED BY <2>2, <2>3, <2>4 DEF PipeInv
<1>7. CASE ~\E q \in PipeProcs \ {p} : e \in ends[q]
  <2>1. /\ writeopen' = (writeopen /\ ~(e = "w"))
        /\ readopen' = (readopen /\ (e = "w"))
        /\ freed' = (~readopen' /\ ~writeopen')
    BY <1>7 DEF Close, pipeclose, BothClosed
  <2>2. PICK chan \in Asleep : /\ at' = PipeWakeup(at, chan)
                               /\ chan = IF e = "w" THEN "sleep on nread" ELSE "sleep on nwrite"
    BY <1>7 DEF Close, pipeclose, WakesOtherEnd, Asleep
  <2>3. \A q \in PipeProcs : at'[q] = IF at[q] = chan THEN Woken(chan) ELSE at[q]
    BY <2>2 DEF PipeWakeup
  <2>4. at' \in [PipeProcs -> {"user"} \cup Writing \cup Reading]
    BY <1>1, <2>2 DEF PipeTypeOK, PipeWakeup, Asleep, Woken, Writing, Reading
  <2>5. PipeTypeOK'
    <3>1. readopen' \in BOOLEAN /\ writeopen' \in BOOLEAN /\ freed' \in BOOLEAN
      BY <2>1
    <3> QED BY <1>1, <1>2, <1>4, <2>4, <3>1 DEF PipeTypeOK
  <2>6. \A q \in PipeProcs : /\ at'[q] \in Holding <=> at[q] \in Holding
                             /\ at'[q] \in Writing <=> at[q] \in Writing
                             /\ at'[q] \in Reading <=> at[q] \in Reading
    BY <2>3 DEF Asleep, Woken, Holding, Writing, Reading
  <2>7. EndsAgree'
    <3>1. \A q \in PipeProcs : at'[q] \in Holding <=> plock' = q
      BY <1>1, <1>2, <2>6 DEF EndsAgree
    <3>2. \A q \in PipeProcs : /\ at'[q] \in Writing => "w" \in ends'[q]
                               /\ at'[q] \in Reading => "r" \in ends'[q]
      <4>1. at[p] \notin Writing /\ at[p] \notin Reading
        BY <1>2 DEF Writing, Reading
      <4> QED BY <1>1, <1>3, <2>6, <4>1 DEF EndsAgree
    <3>3. readopen' <=> \E q \in PipeProcs : "r" \in ends'[q]
      BY <1>1, <1>3, <1>7, <2>1 DEF EndsAgree
    <3>4. writeopen' <=> \E q \in PipeProcs : "w" \in ends'[q]
      BY <1>1, <1>3, <1>7, <2>1 DEF EndsAgree
    <3> QED BY <2>1, <3>1, <3>2, <3>3, <3>4 DEF EndsAgree
  <2>8. Sleepers'
    <3>1. \A q \in PipeProcs : at'[q] \in Asleep => at'[q] = at[q]
      BY <2>3 DEF Asleep, Woken
    <3>2. \A q \in PipeProcs : at'[q] \notin Holding
      BY <1>5, <2>6
    <3>3. \A q \in PipeProcs : at'[q] \notin {"must wait for room", "must wait for data"}
      BY <3>2 DEF Holding
    <3>4. \A q \in PipeProcs : at[q] \notin {"copy", "write"}
      BY <1>5 DEF Holding
    <3>5. \A q \in PipeProcs : at'[q] \in {"sleep on nwrite", "sleep on nread"} => at'[q] = at[q]
      BY <3>1 DEF Asleep
    <3>6. \A q \in PipeProcs : killed[q] => killed'[q]
      BY <1>2
    <3> QED BY <1>1, <1>2, <3>3, <3>4, <3>5, <3>6, SleepersKept
  <2>9. (nwrite' - nread') % UintMax1 <= PIPESIZE
    BY <1>1, <1>2
  <2>10. Partners'
    <3>1. \A q \in PipeProcs : at'[q] \notin {"must wait for room", "must wait for data"}
      BY <1>5, <2>6 DEF Holding
    <3>2. \A q \in PipeProcs : at'[q] \in Asleep => at'[q] = at[q] /\ at'[q] # chan
      BY <2>3 DEF Asleep, Woken
    <3>3. \A q \in PipeProcs : at'[q] = "sleep on nwrite" => readopen'
      BY <1>1, <2>1, <2>2, <3>2 DEF Partners, Asleep
    <3>4. \A q \in PipeProcs : at'[q] = "sleep on nread" => writeopen'
      BY <1>1, <2>1, <2>2, <3>2 DEF Partners, Asleep
    <3> QED BY <3>1, <3>3, <3>4 DEF Partners
  <2> QED BY <2>5, <2>7, <2>8, <2>9, <2>10 DEF PipeInv
<1> QED BY <1>6, <1>7

\* kill wakes a sleeper, and marks the process before that.
LEMMA PipeKills ==
  ASSUME PipeInv, NEW p \in PipeProcs, Kill(p)
  PROVE  PipeInv'
<1>1. PipeTypeOK /\ EndsAgree /\ Sleepers /\ Partners /\ (nwrite - nread) % UintMax1 <= PIPESIZE
  BY DEF PipeInv
<1>2. /\ killed' = [killed EXCEPT ![p] = TRUE]
      /\ at' = [at EXCEPT ![p] = IF at[p] \in Asleep THEN Woken(at[p]) ELSE at[p]]
      /\ UNCHANGED <<data, nread, nwrite, readopen, writeopen, freed, plock, ends, left, want, got>>
  BY DEF Kill
<1>3. at' \in [PipeProcs -> {"user"} \cup Writing \cup Reading]
  BY <1>1, <1>2 DEF PipeTypeOK, Asleep, Woken, Writing, Reading
<1>4. \A q \in PipeProcs : at'[q] = IF q = p /\ at[q] \in Asleep THEN Woken(at[q]) ELSE at[q]
  BY <1>1, <1>2 DEF PipeTypeOK
<1>5. killed' \in [PipeProcs -> BOOLEAN] /\ \A q \in PipeProcs : killed[q] => killed'[q]
  BY <1>1, <1>2 DEF PipeTypeOK
<1>6. PipeTypeOK'
  BY <1>1, <1>2, <1>3, <1>5 DEF PipeTypeOK
<1>7. EndsAgree'
  <2>1. \A q \in PipeProcs : /\ at'[q] \in Holding <=> at[q] \in Holding
                             /\ at'[q] \in Writing <=> at[q] \in Writing
                             /\ at'[q] \in Reading <=> at[q] \in Reading
    BY <1>4 DEF Asleep, Woken, Holding, Writing, Reading
  <2> QED BY <1>1, <1>2, <2>1 DEF EndsAgree
<1>8. Sleepers'
  <2>1. \A q \in PipeProcs : at'[q] # at[q] => at[q] \in Asleep /\ at'[q] = Woken(at[q])
    BY <1>4
  <2>2. \A q \in PipeProcs :
          at'[q] \in {"must wait for room", "sleep on nwrite"} => at'[q] = at[q] \/ PipeFull
    BY <2>1 DEF Woken
  <2>3. \A q \in PipeProcs :
          at'[q] \in {"must wait for data", "sleep on nread"} => at'[q] = at[q] \/ nread = nwrite
    BY <2>1 DEF Woken
  <2>4. \A q \in PipeProcs : /\ at[q] = "copy" => at'[q] = "copy"
                             /\ at[q] = "write" => at'[q] = "write"
    BY <2>1 DEF Asleep
  <2>5. \A q \in PipeProcs : killed[q] => killed'[q]
    BY <1>5
  <2> QED BY <1>1, <1>2, <2>2, <2>3, <2>4, <2>5, SleepersKept
<1>9. (nwrite' - nread') % UintMax1 <= PIPESIZE
  BY <1>1, <1>2
<1>10. Partners'
  <2>1. \A q \in PipeProcs :
          at'[q] \in {"must wait for room", "must wait for data", "sleep on nwrite", "sleep on nread"}
            => at'[q] = at[q]
    BY <1>4 DEF Woken
  <2> QED BY <1>1, <1>2, <2>1 DEF Partners
<1> QED BY <1>6, <1>7, <1>8, <1>9, <1>10 DEF PipeInv

\* A step that changes nothing.
LEMMA PipeStutters == PipeInv /\ UNCHANGED pipevars => PipeInv'
<1> SUFFICES ASSUME PipeInv, UNCHANGED pipevars PROVE PipeInv'
  OBVIOUS
<1>1. UNCHANGED <<data, nread, nwrite, readopen, writeopen, freed, plock, ends, at, left, want,
                  got, killed>>
  BY DEF pipevars
<1> QED BY <1>1 DEF PipeInv, PipeTypeOK, EndsAgree, Sleepers, Partners, PipeFull

-----------------------------------------------------------------------------
(* The theorems.                                                           *)

\* The flags, ends, calls and sleepers of a pipe (pipe.c) fit together and the ring holds at
\* most PIPESIZE bytes, for any number of processes and any PIPESIZE that divides 2^32.
THEOREM PipeInvariance == PipeSpec => []PipeInv
<1>1. PipeInit => PipeInv
  BY PipeInitInv
<1>2. PipeInv /\ [PipeNext]_pipevars => PipeInv'
  <2> SUFFICES ASSUME PipeInv, [PipeNext]_pipevars PROVE PipeInv'
    OBVIOUS
  <2>1. CASE UNCHANGED pipevars
    BY <2>1, PipeStutters
  <2>2. ASSUME NEW p \in PipeProcs, PipeStep(p) PROVE PipeInv'
    BY <2>2, PipePuts, PipeTakes, PipeWriteEnds, PipeReadEnds, PipeSleeps DEF PipeStep
  <2>3. ASSUME NEW p \in PipeProcs, NEW e \in {"r", "w"}, Close(p, e) PROVE PipeInv'
    BY <2>3, PipeCloses
  <2>4. ASSUME NEW p \in PipeProcs, Kill(p) PROVE PipeInv'
    BY <2>4, PipeKills
  <2> QED BY <2>1, <2>2, <2>3, <2>4, PipeEnters DEF PipeNext
<1> QED BY <1>1, <1>2, PTL DEF PipeSpec

\* sleep and wakeup in pipewrite and piperead lose no wakeup, but for the killed writer's.
THEOREM NoLostWakeup == PipeSpec => []PipeNoLostWakeup
<1>1. PipeInv => PipeNoLostWakeup
  <2> SUFFICES ASSUME PipeInv, plock = "none", NEW p \in PipeProcs
               PROVE  /\ at[p] = "sleep on nwrite" => PipeFull /\ readopen
                      /\ at[p] = "sleep on nread" =>
                           (nread = nwrite \/ \E q \in PipeProcs : killed[q]) /\ writeopen
    BY DEF PipeNoLostWakeup
  <2>1. EndsAgree /\ Sleepers /\ Partners
    BY DEF PipeInv
  <2>2. \A q \in PipeProcs : at[q] \notin {"copy", "write"}
    BY <2>1, PipeAssumption DEF EndsAgree, Holding
  <2> QED BY <2>1, <2>2 DEF Sleepers, Partners
<1> QED BY <1>1, PipeInvariance, PTL

\* pipeclose frees the page with the last end, when nobody is in a call on the pipe.
THEOREM FreedLast == PipeSpec => []PipeFreedLast
<1>1. PipeInv => PipeFreedLast
  <2> SUFFICES ASSUME PipeInv PROVE PipeFreedLast
    OBVIOUS
  <2>1. PipeTypeOK /\ EndsAgree
    BY DEF PipeInv
  <2>2. (~readopen /\ ~writeopen) <=> \A p \in PipeProcs : ends[p] = {}
    <3>1. \A p \in PipeProcs : ends[p] \subseteq {"r", "w"}
      BY <2>1 DEF PipeTypeOK
    <3> QED BY <2>1, <3>1 DEF EndsAgree
  <2>3. freed => \A p \in PipeProcs : at[p] = "user"
    BY <2>1, <2>2 DEF EndsAgree, PipeTypeOK
  <2> QED BY <2>1, <2>2, <2>3 DEF EndsAgree, PipeFreedLast
<1> QED BY <1>1, PipeInvariance, PTL

-----------------------------------------------------------------------------
(* The ring is a queue.                                                    *)

\* A sequence with one element more, element by element.
LEMMA AppendIs ==
  ASSUME NEW S, NEW n \in Nat, NEW s \in Seq(S), Len(s) = n, NEW x \in S,
         NEW t \in Seq(S), Len(t) = n + 1,
         \A k \in 1..(n + 1) : t[k] = IF k = n + 1 THEN x ELSE s[k]
  PROVE  t = Append(s, x)
<1>1. Append(s, x) \in Seq(S) /\ Len(Append(s, x)) = n + 1
  OBVIOUS
<1>2. \A i \in 1..(n + 1) : t[i] = Append(s, x)[i]
  OBVIOUS
<1> QED BY <1>1, <1>2, SeqEqual

\* A sequence without its first element, element by element.
LEMMA TailIs ==
  ASSUME NEW S, NEW n \in Nat \ {0}, NEW s \in Seq(S), Len(s) = n,
         NEW t, t = [k \in 1..(n - 1) |-> s[k + 1]]
  PROVE  t = Tail(s) /\ s # <<>> /\ Head(s) = s[1]
<1>1. t \in Seq(S) /\ Len(t) = n - 1
  <2>1. \A k \in 1..(n - 1) : t[k] \in S
    BY ElementOfSeq
  <2> QED BY <2>1
<1>2. Tail(s) \in Seq(S) /\ Len(Tail(s)) = n - 1
  OBVIOUS
<1>3. \A i \in 1..(n - 1) : t[i] = Tail(s)[i]
  OBVIOUS
<1>4. t = Tail(s)
  BY <1>1, <1>2, <1>3, SeqEqual
<1>5. s # <<>> /\ Head(s) = s[1]
  OBVIOUS
<1> QED BY <1>4, <1>5

\* The bytes in the ring d between the counters r and w, in the order they were put.
RingOf(d, r, w) == [k \in 1..(w - r) % UintMax1 |-> d[(r + k - 1) % PIPESIZE]]

\* What RingOf is.
LEMMA RingIsSeq ==
  ASSUME NEW d \in [0..PIPESIZE - 1 -> Bytes], NEW r \in 0..(UintMax1 - 1),
         NEW w \in 0..(UintMax1 - 1)
  PROVE  RingOf(d, r, w) \in Seq(Bytes) /\ Len(RingOf(d, r, w)) = (w - r) % UintMax1
<1> DEFINE n == (w - r) % UintMax1
<1>1. n \in Nat
  BY Sizes
<1>2. \A k \in 1..n : d[(r + k - 1) % PIPESIZE] \in Bytes
  <2>1. \A k \in 1..n : (r + k - 1) % PIPESIZE \in 0..PIPESIZE - 1
    BY <1>1, Sizes
  <2> QED BY <2>1
<1> HIDE DEF n
<1>3. RingOf(d, r, w) = [k \in 1..n |-> d[(r + k - 1) % PIPESIZE]]
  BY DEF RingOf, n
<1>4. RingOf(d, r, w) \in Seq(Bytes) /\ Len(RingOf(d, r, w)) = n
  BY <1>1, <1>2, <1>3
<1> QED BY <1>4 DEF n

\* Putting a byte appends it.
LEMMA RingPut ==
  ASSUME NEW d \in [0..PIPESIZE - 1 -> Bytes], NEW r \in 0..(UintMax1 - 1),
         NEW w \in 0..(UintMax1 - 1), NEW x \in Bytes,
         (w - r) % UintMax1 <= PIPESIZE, w # (r + PIPESIZE) % UintMax1
  PROVE  RingOf([d EXCEPT ![w % PIPESIZE] = x], r, (w + 1) % UintMax1) = Append(RingOf(d, r, w), x)
<1> DEFINE n == (w - r) % UintMax1
<1> DEFINE e == [d EXCEPT ![w % PIPESIZE] = x]
<1> DEFINE s == RingOf(d, r, w)
<1> DEFINE t == RingOf(e, r, (w + 1) % UintMax1)
<1>1. /\ n \in Nat /\ n < PIPESIZE
      /\ w % PIPESIZE = (r + n) % PIPESIZE
      /\ \A k \in 1..n : (r + k - 1) % PIPESIZE # w % PIPESIZE
  BY PutPlace
<1>2. (((w + 1) % UintMax1) - r) % UintMax1 = n + 1
  <2>1. n < UintMax1 - 1
    BY <1>1, Sizes
  <2> QED BY <2>1, FillStep, Sizes
<1>3. t = [k \in 1..(n + 1) |-> e[(r + k - 1) % PIPESIZE]]
  BY <1>2 DEF RingOf
<1>4. \A k \in 1..(n + 1) : (r + k - 1) % PIPESIZE \in 0..PIPESIZE - 1
  BY <1>1, Sizes
<1>5. s \in Seq(Bytes) /\ Len(s) = n
  BY RingIsSeq
<1>6. \A k \in 1..n : s[k] = d[(r + k - 1) % PIPESIZE]
  BY DEF RingOf
<1>7. t \in Seq(Bytes) /\ Len(t) = n + 1
  <2>1. e \in [0..PIPESIZE - 1 -> Bytes] /\ (w + 1) % UintMax1 \in 0..(UintMax1 - 1)
    BY Sizes
  <2> HIDE DEF e
  <2> QED BY <1>2, <2>1, RingIsSeq
<1> HIDE DEF n, s, t
<1>8. \A k \in 1..(n + 1) : e[(r + k - 1) % PIPESIZE] = IF k = n + 1 THEN x ELSE s[k]
  <2> SUFFICES ASSUME NEW k \in 1..(n + 1)
               PROVE  e[(r + k - 1) % PIPESIZE] = IF k = n + 1 THEN x ELSE s[k]
    OBVIOUS
  <2>1. CASE k = n + 1
    <3>1. r + k - 1 = r + n
      BY <1>1, <2>1, Sizes
    <3>2. (r + k - 1) % PIPESIZE = w % PIPESIZE
      BY <1>1, <3>1
    <3> QED BY <1>4, <2>1, <3>2
  <2>2. CASE k # n + 1
    <3>1. k \in 1..n
      BY <1>1, <2>2
    <3> QED BY <1>1, <1>4, <1>6, <2>2, <3>1
  <2> QED BY <2>1, <2>2
<1>9. \A k \in 1..(n + 1) : t[k] = IF k = n + 1 THEN x ELSE s[k]
  BY <1>3, <1>8
<1> HIDE DEF e
<1>10. t = Append(s, x)
  BY <1>1, <1>5, <1>7, <1>9, AppendIs
<1> QED BY <1>10 DEF s, t, e

\* Taking a byte takes the first.
LEMMA RingTake ==
  ASSUME NEW d \in [0..PIPESIZE - 1 -> Bytes], NEW r \in 0..(UintMax1 - 1),
         NEW w \in 0..(UintMax1 - 1), r # w
  PROVE  /\ RingOf(d, r, w) # <<>>
         /\ RingOf(d, (r + 1) % UintMax1, w) = Tail(RingOf(d, r, w))
         /\ Head(RingOf(d, r, w)) = d[r % PIPESIZE]
<1> DEFINE n == (w - r) % UintMax1
<1> DEFINE s == RingOf(d, r, w)
<1> DEFINE t == RingOf(d, (r + 1) % UintMax1, w)
<1>1. n \in Nat \ {0}
  <2>1. n = IF r <= w THEN w - r ELSE w - r + UintMax1
    BY FillStep, Sizes
  <2> QED BY <2>1, Sizes
<1>2. (w - ((r + 1) % UintMax1)) % UintMax1 = n - 1
  BY FillStep, Sizes
<1>3. t = [k \in 1..(n - 1) |-> d[(((r + 1) % UintMax1) + k - 1) % PIPESIZE]]
  BY <1>2 DEF RingOf
<1>4. s \in Seq(Bytes) /\ Len(s) = n
  BY RingIsSeq
<1>5. \A k \in 1..n : s[k] = d[(r + k - 1) % PIPESIZE]
  BY DEF RingOf
<1> HIDE DEF n, s, t
<1>6. \A k \in 1..(n - 1) : d[(((r + 1) % UintMax1) + k - 1) % PIPESIZE] = s[k + 1]
  <2> SUFFICES ASSUME NEW k \in 1..(n - 1)
               PROVE  d[(((r + 1) % UintMax1) + k - 1) % PIPESIZE] = s[k + 1]
    OBVIOUS
  <2>1. (((r + 1) % UintMax1) + k - 1) % PIPESIZE = (r + k) % PIPESIZE
    <3>1. k \in Int
      BY <1>1
    <3> QED BY <3>1, TakePlace
  <2>2. k + 1 \in 1..n /\ r + (k + 1) - 1 = r + k
    BY <1>1, Sizes
  <2> QED BY <1>5, <2>1, <2>2
<1>7. t = [k \in 1..(n - 1) |-> s[k + 1]]
  BY <1>3, <1>6
<1>8. t = Tail(s) /\ s # <<>> /\ Head(s) = s[1]
  BY <1>1, <1>4, <1>7, TailIs
<1>9. s[1] = d[r % PIPESIZE]
  <2>1. 1 \in 1..n /\ r + 1 - 1 = r
    BY <1>1, Sizes
  <2> QED BY <1>5, <2>1
<1> QED BY <1>8, <1>9 DEF s, t

\* pipewrite appends to the ring and piperead takes from its front, for any bytes and also when
\* nread and nwrite wrap: nothing is lost, duplicated or reordered.
THEOREM Fifo == PipeSpec => PipeIsFifo
<1> DEFINE Queue ==
      \/ Buffered' = Buffered /\ \A p \in PipeProcs : got'[p] \in {got[p], <<>>}
      \/ \E p \in PipeProcs : /\ left[p] # <<>> /\ left'[p] = Tail(left[p])
                              /\ Buffered' = Append(Buffered, Head(left[p]))
      \/ \E p \in PipeProcs : /\ Buffered # <<>> /\ Buffered' = Tail(Buffered)
                              /\ got'[p] = Append(got[p], Head(Buffered))
<1>1. PipeInv /\ [PipeNext]_pipevars => [Queue]_pipevars
  <2> SUFFICES ASSUME PipeInv, PipeNext PROVE Queue
    OBVIOUS
  <2>1. PipeTypeOK /\ (nwrite - nread) % UintMax1 <= PIPESIZE
    BY DEF PipeInv
  <2>2. Buffered = RingOf(data, nread, nwrite) /\ Buffered' = RingOf(data', nread', nwrite')
    BY DEF Buffered, RingOf
  <2>3. /\ data \in [0..PIPESIZE - 1 -> Bytes] /\ nread \in 0..(UintMax1 - 1)
        /\ nwrite \in 0..(UintMax1 - 1)
    BY <2>1 DEF PipeTypeOK
  <2>4. ASSUME NEW p \in PipeProcs, WriteByte(p) PROVE Queue
    <3>1. /\ left[p] # <<>> /\ ~PipeFull
          /\ data' = [data EXCEPT ![nwrite % PIPESIZE] = Head(left[p])]
          /\ nwrite' = (nwrite + 1) % UintMax1 /\ nread' = nread
          /\ left'[p] = Tail(left[p])
      BY <2>1, <2>4 DEF WriteByte, PipeTypeOK
    <3>2. Head(left[p]) \in Bytes
      BY <2>1, <3>1 DEF PipeTypeOK
    <3>3. RingOf([data EXCEPT ![nwrite % PIPESIZE] = Head(left[p])], nread, (nwrite + 1) % UintMax1)
            = Append(RingOf(data, nread, nwrite), Head(left[p]))
      BY <2>1, <2>3, <3>1, <3>2, RingPut DEF PipeFull
    <3>4. Buffered' = Append(Buffered, Head(left[p]))
      BY <2>2, <3>1, <3>3
    <3> QED BY <3>1, <3>4
  <2>5. ASSUME NEW p \in PipeProcs, ReadByte(p) PROVE Queue
    <3>1. /\ nread # nwrite /\ nread' = (nread + 1) % UintMax1 /\ nwrite' = nwrite /\ data' = data
          /\ got'[p] = Append(got[p], data[nread % PIPESIZE])
      BY <2>1, <2>5 DEF ReadByte, PipeTypeOK
    <3>2. /\ RingOf(data, nread, nwrite) # <<>>
          /\ RingOf(data, (nread + 1) % UintMax1, nwrite) = Tail(RingOf(data, nread, nwrite))
          /\ Head(RingOf(data, nread, nwrite)) = data[nread % PIPESIZE]
      BY <2>3, <3>1, RingTake
    <3> QED BY <2>2, <3>1, <3>2
  <2>6. ASSUME UNCHANGED <<data, nread, nwrite>>, \A p \in PipeProcs : got'[p] \in {got[p], <<>>}
        PROVE  Queue
    <3>1. Buffered' = Buffered
      BY <2>2, <2>6
    <3> QED BY <2>6, <3>1
  <2>7. ASSUME NEW p \in PipeProcs, NEW n \in ReadSizes, piperead(p, n) PROVE Queue
    BY <2>1, <2>6, <2>7 DEF piperead, PipeTypeOK
  <2>8. ASSUME NEW p \in PipeProcs,
               \/ \E s \in Written : pipewrite(p, s)
               \/ WriteBlocked(p) \/ WriteDone(p) \/ ReadChecks(p) \/ ReadDone(p)
               \/ PipeSleep(p) \/ PipeResume(p) \/ Kill(p)
               \/ \E e \in {"r", "w"} : Close(p, e)
        PROVE  Queue
    <3>1. UNCHANGED <<data, nread, nwrite, got>>
      BY <2>8 DEF pipewrite, WriteBlocked, WriteDone, ReadChecks, ReadDone, PipeSleep, PipeResume,
                  Kill, Close
    <3> QED BY <2>6, <3>1
  <2> HIDE DEF Queue
  <2> QED BY <2>4, <2>5, <2>7, <2>8 DEF PipeNext, PipeStep
<1> QED BY <1>1, PipeInvariance, PTL DEF PipeSpec, PipeIsFifo
=============================================================================

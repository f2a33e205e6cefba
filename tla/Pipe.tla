-------------------------------- MODULE Pipe --------------------------------
(***************************************************************************)
(* A pipe (pipe.c) shared by processes that write, read and close its ends *)
(* and may be killed.  One step handles one byte, holding p->lock; the     *)
(* check of killed and the sleep are two steps, between which kill can     *)
(* come.  A process keeps its end open while it is in a call.              *)
(***************************************************************************)
EXTENDS Integers, Sequences, FiniteSets

CONSTANTS
  PipeProcs,
  PIPESIZE,
  UintMax1,      \* the number of values of a uint
  Written,       \* the byte sequences written
  ReadSizes,     \* the sizes of reads
  MaxCalls       \* bound on the reads and writes of one process

Bytes == {"junk"} \cup UNION {{s[i] : i \in 1..Len(s)} : s \in Written}

\* nread and nwrite wrap, so the ring keeps its order only if PIPESIZE divides 2^32.
ASSUME PipeAssumption ==
  /\ {PIPESIZE, UintMax1} \subseteq Nat \ {0}
  /\ UintMax1 % PIPESIZE = 0 /\ PIPESIZE < UintMax1
  /\ PipeProcs # {} /\ "none" \notin PipeProcs
  /\ Written \subseteq Seq(Bytes) /\ ReadSizes \subseteq Nat

VARIABLES
  data, nread, nwrite, readopen, writeopen,   \* struct pipe
  freed,        \* the page went back to kfree
  plock,        \* the process that has p->lock, or "none"
  ends,         \* the ends each process has open
  at,           \* where each process is
  left, want, got,     \* bytes still to write; still to read; read by this call
  killed, calls

pipevars == <<data, nread, nwrite, readopen, writeopen, freed, plock, ends, at, left, want,
              got, killed, calls>>

\* pipealloc, and forks that share the two ends.
PipeInit ==
  /\ data = [i \in 0..PIPESIZE - 1 |-> "junk"]
  /\ nread = 0 /\ nwrite = 0
  /\ readopen = TRUE /\ writeopen = TRUE
  /\ freed = FALSE
  /\ plock = "none"
  /\ ends = [p \in PipeProcs |-> {"r", "w"}]
  /\ at = [p \in PipeProcs |-> "user"]
  /\ left = [p \in PipeProcs |-> <<>>]
  /\ want = [p \in PipeProcs |-> 0]
  /\ got = [p \in PipeProcs |-> <<>>]
  /\ killed = [p \in PipeProcs |-> FALSE]
  /\ calls = [p \in PipeProcs |-> 0]

Asleep == {"sleep on nwrite", "sleep on nread"}

Woken(s) == IF s = "sleep on nwrite" THEN "write again" ELSE "read again"

\* wakeup(chan), chan being the place where the sleepers are.
PipeWakeup(f, chan) == [p \in PipeProcs |-> IF f[p] = chan THEN Woken(chan) ELSE f[p]]

Locks(p) == plock = "none" /\ plock' = p

ReturnFrom(p, f) == at' = [f EXCEPT ![p] = "user"] /\ plock' = "none"

-----------------------------------------------------------------------------
pipewrite(p, s) ==
  /\ at[p] = "user" /\ ~killed[p] /\ "w" \in ends[p] /\ calls[p] < MaxCalls
  /\ Locks(p)
  /\ at' = [at EXCEPT ![p] = "write"]
  /\ left' = [left EXCEPT ![p] = s]
  /\ calls' = [calls EXCEPT ![p] = @ + 1]
  /\ UNCHANGED <<data, nread, nwrite, readopen, writeopen, freed, ends, want, got, killed>>

PipeFullLate == nwrite = (nread + PIPESIZE + 1) % UintMax1

PipeFull == nwrite = (nread + PIPESIZE) % UintMax1

WriteByte(p) ==
  /\ at[p] = "write" /\ left[p] # <<>> /\ ~PipeFull
  /\ data' = [data EXCEPT ![nwrite % PIPESIZE] = Head(left[p])]
  /\ nwrite' = (nwrite + 1) % UintMax1
  /\ left' = [left EXCEPT ![p] = Tail(@)]
  /\ UNCHANGED <<nread, readopen, writeopen, freed, plock, ends, at, want, got, killed, calls>>

WriteWaitsSilently(p) == at' = [at EXCEPT ![p] = "must wait for room"]

WriteWaits(p) == at' = [PipeWakeup(at, "sleep on nread") EXCEPT ![p] = "must wait for room"]

WriteBlocked(p) ==
  /\ at[p] = "write" /\ left[p] # <<>> /\ PipeFull
  /\ IF ~readopen \/ killed[p]
     THEN ReturnFrom(p, at) /\ left' = [left EXCEPT ![p] = <<>>]
     ELSE WriteWaits(p) /\ UNCHANGED <<left, plock>>
  /\ UNCHANGED <<data, nread, nwrite, readopen, writeopen, freed, ends, want, got, killed, calls>>

WriteDone(p) ==
  /\ at[p] = "write" /\ left[p] = <<>>
  /\ ReturnFrom(p, PipeWakeup(at, "sleep on nread"))
  /\ UNCHANGED <<data, nread, nwrite, readopen, writeopen, freed, ends, left, want, got,
                 killed, calls>>

piperead(p, n) ==
  /\ at[p] = "user" /\ ~killed[p] /\ "r" \in ends[p] /\ calls[p] < MaxCalls
  /\ Locks(p)
  /\ at' = [at EXCEPT ![p] = "empty?"]
  /\ want' = [want EXCEPT ![p] = n]
  /\ got' = [got EXCEPT ![p] = <<>>]
  /\ calls' = [calls EXCEPT ![p] = @ + 1]
  /\ UNCHANGED <<data, nread, nwrite, readopen, writeopen, freed, ends, left, killed>>

ReadChecks(p) ==
  /\ at[p] = "empty?"
  /\ IF nread = nwrite /\ writeopen
     THEN IF killed[p]
          THEN ReturnFrom(p, at)
          ELSE at' = [at EXCEPT ![p] = "must wait for data"] /\ UNCHANGED plock
     ELSE at' = [at EXCEPT ![p] = "copy"] /\ UNCHANGED plock
  /\ UNCHANGED <<data, nread, nwrite, readopen, writeopen, freed, ends, left, want, got,
                 killed, calls>>

ReadByte(p) ==
  /\ at[p] = "copy" /\ want[p] > 0 /\ nread # nwrite
  /\ got' = [got EXCEPT ![p] = Append(@, data[nread % PIPESIZE])]
  /\ nread' = (nread + 1) % UintMax1
  /\ want' = [want EXCEPT ![p] = @ - 1]
  /\ UNCHANGED <<data, nwrite, readopen, writeopen, freed, plock, ends, at, left, killed, calls>>

ReadDone(p) ==
  /\ at[p] = "copy" /\ (want[p] = 0 \/ nread = nwrite)
  /\ ReturnFrom(p, PipeWakeup(at, "sleep on nwrite"))
  /\ UNCHANGED <<data, nread, nwrite, readopen, writeopen, freed, ends, left, want, got,
                 killed, calls>>

\* sleep releases the lock and takes it again once the process is woken and runs.
PipeSleep(p) ==
  /\ at[p] \in {"must wait for room", "must wait for data"}
  /\ at' = [at EXCEPT ![p] =
              IF @ = "must wait for room" THEN "sleep on nwrite" ELSE "sleep on nread"]
  /\ plock' = "none"
  /\ UNCHANGED <<data, nread, nwrite, readopen, writeopen, freed, ends, left, want, got,
                 killed, calls>>

PipeResume(p) ==
  /\ at[p] \in {"write again", "read again"}
  /\ Locks(p)
  /\ at' = [at EXCEPT ![p] = IF @ = "write again" THEN "write" ELSE "empty?"]
  /\ UNCHANGED <<data, nread, nwrite, readopen, writeopen, freed, ends, left, want, got,
                 killed, calls>>

-----------------------------------------------------------------------------
FreesAtOnce(r, w) == ~r \/ ~w

BothClosed(r, w) == ~r /\ ~w

WakesSameEnd(writable) ==
  at' = PipeWakeup(at, IF writable THEN "sleep on nwrite" ELSE "sleep on nread")

WakesOtherEnd(writable) ==
  at' = PipeWakeup(at, IF writable THEN "sleep on nread" ELSE "sleep on nwrite")

\* The last fileclose of an end.
pipeclose(writable) ==
  /\ writeopen' = (writeopen /\ ~writable)
  /\ readopen' = (readopen /\ writable)
  /\ WakesOtherEnd(writable)
  /\ freed' = BothClosed(readopen', writeopen')

Close(p, e) ==
  /\ at[p] = "user" /\ e \in ends[p]
  /\ plock = "none"
  /\ ends' = [ends EXCEPT ![p] = @ \ {e}]
  /\ IF \E q \in PipeProcs \ {p} : e \in ends[q]
     THEN UNCHANGED <<readopen, writeopen, freed, at>>
     ELSE pipeclose(e = "w")
  /\ UNCHANGED <<data, nread, nwrite, plock, left, want, got, killed, calls>>

Kill(p) ==
  /\ ~killed[p]
  /\ killed' = [killed EXCEPT ![p] = TRUE]
  /\ at' = [at EXCEPT ![p] = IF @ \in Asleep THEN Woken(@) ELSE @]
  /\ UNCHANGED <<data, nread, nwrite, readopen, writeopen, freed, plock, ends, left, want,
                 got, calls>>

PipeStep(p) ==
  \/ WriteByte(p) \/ WriteBlocked(p) \/ WriteDone(p)
  \/ ReadChecks(p) \/ ReadByte(p) \/ ReadDone(p)
  \/ PipeSleep(p) \/ PipeResume(p)

PipeNext ==
  \E p \in PipeProcs :
    \/ \E s \in Written : pipewrite(p, s)
    \/ \E n \in ReadSizes : piperead(p, n)
    \/ PipeStep(p)
    \/ \E e \in {"r", "w"} : Close(p, e)
    \/ Kill(p)

\* A process in a call runs on, unless it sleeps or waits for the lock.
PipeFair == \A p \in PipeProcs : WF_pipevars(PipeStep(p))

-----------------------------------------------------------------------------
(* Properties.                                                             *)

Buffered ==
  [k \in 1..(nwrite - nread) % UintMax1 |-> data[(nread + k - 1) % PIPESIZE]]

\* The pipe is a queue: a step puts the next byte of a write at its end, takes its first
\* byte into a read, or leaves it alone, also when the counters wrap.
PipeIsFifo ==
  [][\/ Buffered' = Buffered /\ \A p \in PipeProcs : got'[p] \in {got[p], <<>>}
     \/ \E p \in PipeProcs : /\ left[p] # <<>> /\ left'[p] = Tail(left[p])
                             /\ Buffered' = Append(Buffered, Head(left[p]))
     \/ \E p \in PipeProcs : /\ Buffered # <<>> /\ Buffered' = Tail(Buffered)
                             /\ got'[p] = Append(got[p], Head(Buffered))]_pipevars

\* Nobody sleeps past its reason: when the lock is free, a sleeping writer would find the
\* pipe full with a reader, a sleeping reader would find it empty with a writer.  The one
\* exception is pipewrite's error return: a killed writer leaves without a wakeup for the
\* bytes it has put.
PipeNoLostWakeup ==
  plock = "none" => \A p \in PipeProcs :
    /\ at[p] = "sleep on nwrite" => PipeFull /\ readopen
    /\ at[p] = "sleep on nread" =>
         (nread = nwrite \/ \E q \in PipeProcs : killed[q]) /\ writeopen

\* The pipe's page is freed when the last end is closed, and never under a process that is
\* in a call on it.
PipeFreedLast ==
  /\ freed <=> \A p \in PipeProcs : ends[p] = {}
  /\ freed => \A p \in PipeProcs : at[p] = "user"

\* A process that waits in a call while nobody has the other end open gets out of it.
PipeHangup ==
  \A p \in PipeProcs :
    (\/ at[p] = "sleep on nread" /\ ~writeopen
     \/ left[p] # <<>> /\ ~readopen) ~> (at[p] = "user")

-----------------------------------------------------------------------------
(* The inductive invariant behind PipeIsFifo, PipeNoLostWakeup and         *)
(* PipeFreedLast.                                                          *)

PipeSpec == PipeInit /\ [][PipeNext]_pipevars

Holding == {"write", "must wait for room", "empty?", "must wait for data", "copy"}
Writing == {"write", "must wait for room", "sleep on nwrite", "write again"}
Reading == {"empty?", "must wait for data", "copy", "sleep on nread", "read again"}

PipeTypeOK ==
  /\ data \in [0..PIPESIZE - 1 -> Bytes]
  /\ nread \in 0..UintMax1 - 1 /\ nwrite \in 0..UintMax1 - 1
  /\ readopen \in BOOLEAN /\ writeopen \in BOOLEAN /\ freed \in BOOLEAN
  /\ plock \in PipeProcs \cup {"none"}
  /\ ends \in [PipeProcs -> SUBSET {"r", "w"}]
  /\ at \in [PipeProcs -> {"user"} \cup Writing \cup Reading]
  /\ left \in [PipeProcs -> Seq(Bytes)]
  /\ got \in [PipeProcs -> Seq(Bytes)]
  /\ want \in [PipeProcs -> Int]
  /\ killed \in [PipeProcs -> BOOLEAN]

\* The flags of the pipe, the ends processes hold and the calls they are in agree.
EndsAgree ==
  /\ \A p \in PipeProcs : at[p] \in Holding <=> plock = p
  /\ \A p \in PipeProcs : at[p] \in Writing => "w" \in ends[p]
  /\ \A p \in PipeProcs : at[p] \in Reading => "r" \in ends[p]
  /\ readopen <=> \E p \in PipeProcs : "r" \in ends[p]
  /\ writeopen <=> \E p \in PipeProcs : "w" \in ends[p]
  /\ freed <=> ~readopen /\ ~writeopen

\* Whoever sleeps, or is about to, has its reason, or the holder of the lock will wake it.
Sleepers ==
  \A p \in PipeProcs :
    /\ at[p] = "must wait for room" => PipeFull
    /\ at[p] = "must wait for data" => nread = nwrite
    /\ at[p] = "sleep on nwrite" => PipeFull \/ \E q \in PipeProcs : at[q] = "copy"
    /\ at[p] = "sleep on nread" =>
         nread = nwrite \/ \E q \in PipeProcs : at[q] = "write" \/ killed[q]

\* Whoever sleeps, or is about to, has a partner: the last close of an end wakes the other.
Partners ==
  \A p \in PipeProcs :
    /\ at[p] \in {"must wait for room", "sleep on nwrite"} => readopen
    /\ at[p] \in {"must wait for data", "sleep on nread"} => writeopen

\* The flags, ends, calls and sleepers of a pipe fit together, and the ring holds at most
\* PIPESIZE bytes although its counters wrap.
PipeInv ==
  /\ PipeTypeOK
  /\ EndsAgree
  /\ Sleepers
  /\ Partners
  /\ (nwrite - nread) % UintMax1 <= PIPESIZE
=============================================================================

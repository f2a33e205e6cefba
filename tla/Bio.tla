-------------------------------- MODULE Bio ---------------------------------
(***************************************************************************)
(* The buffer cache (bio.c), its sleep locks (sleeplock.c) and the disk    *)
(* driver's queue (ide.c): processes get, read, change, write and release  *)
(* buffers while the disk interrupts.  Each step is what happens under one *)
(* holding of bcache.lock, the sleep lock's spin lock or idelock.          *)
(***************************************************************************)
EXTENDS Integers, Sequences, FiniteSets, SequencesExt

CONSTANTS
  BioProcs, BlockNos,
  Contents,      \* what is written
  Bufs,          \* the NBUF buffers
  MaxPinned,     \* the most buffers the log keeps dirty
  MaxUses        \* bound on the calls of bget and bwrite

ASSUME BioAssumption ==
  /\ IsFiniteSet(Bufs) /\ IsFiniteSet(BioProcs)
  /\ MaxPinned + Cardinality(BioProcs) <= Cardinality(Bufs)

VARIABLES
  mru,           \* the list of buffers from head.next, most recently used first
  blockno, valid, dirty, refcnt, bdata,      \* struct buf
  locked,        \* b->lock: the process that has it, or "none"
  idequeue,      \* requests, the first one active on the disk
  store,         \* the contents of the disk
  doing, buf,    \* what each process does, and the buffer it uses
  uses, noBuffers

biovars == <<mru, blockno, valid, dirty, refcnt, bdata, locked, idequeue, store, doing, buf,
             uses, noBuffers>>

\* binit puts each buffer at the front of the list.
BioInit ==
  /\ mru = SetToSeq(Bufs)
  /\ blockno = [b \in Bufs |-> "none"]
  /\ valid = {} /\ dirty = {}
  /\ refcnt = [b \in Bufs |-> 0]
  /\ bdata = [b \in Bufs |-> "junk"]
  /\ locked = [b \in Bufs |-> "none"]
  /\ idequeue = <<>>
  /\ store = [n \in BlockNos |-> "old"]
  /\ doing = [p \in BioProcs |-> "nothing"]
  /\ buf = [p \in BioProcs |-> "none"]
  /\ uses = 0
  /\ noBuffers = FALSE

-----------------------------------------------------------------------------
CachedInUse(n) == {b \in Bufs : blockno[b] = n /\ refcnt[b] > 0}

Cached(n) == {b \in Bufs : blockno[b] = n}

AnyUnreferenced == {i \in DOMAIN mru : refcnt[mru[i]] = 0}

\* A buffer that log.c has changed and not yet written stays in the cache.
Recyclable == {i \in DOMAIN mru : refcnt[mru[i]] = 0 /\ mru[i] \notin dirty}

Chosen(n) ==
  IF Cached(n) # {} THEN Cached(n)
  ELSE IF Recyclable # {} THEN {mru[Max(Recyclable)]} ELSE {}

bget(p, n) ==
  /\ doing[p] = "nothing" /\ uses < MaxUses
  /\ uses' = uses + 1
  /\ IF Chosen(n) = {}
     THEN noBuffers' = TRUE /\ UNCHANGED <<blockno, valid, refcnt, buf, doing>>
     ELSE \E b \in Chosen(n) :
            /\ blockno' = [blockno EXCEPT ![b] = n]
            /\ valid' = IF Cached(n) = {} THEN valid \ {b} ELSE valid
            /\ refcnt' = [refcnt EXCEPT ![b] = @ + 1]
            /\ buf' = [buf EXCEPT ![p] = b]
            /\ doing' = [doing EXCEPT ![p] = "acquiresleep"]
            /\ UNCHANGED noBuffers
  /\ UNCHANGED <<mru, dirty, bdata, locked, idequeue, store>>

\* acquiresleep, and the test of B_VALID in bread.
acquiresleep(p) ==
  /\ doing[p] = "acquiresleep"
  /\ IF locked[buf[p]] = "none"
     THEN /\ locked' = [locked EXCEPT ![buf[p]] = p]
          /\ doing' = [doing EXCEPT ![p] = IF buf[p] \in valid THEN "use" ELSE "iderw"]
     ELSE doing' = [doing EXCEPT ![p] = "sleep on lock"] /\ UNCHANGED locked
  /\ UNCHANGED <<mru, blockno, valid, dirty, refcnt, bdata, idequeue, store, buf, uses,
                 noBuffers>>

\* Append the buffer to idequeue, start the disk if it is idle, and wait.
iderw(p) ==
  /\ doing[p] = "iderw"
  /\ idequeue' = Append(idequeue, buf[p])
  /\ doing' = [doing EXCEPT ![p] = "sleep on io"]
  /\ UNCHANGED <<mru, blockno, valid, dirty, refcnt, bdata, locked, store, buf, uses, noBuffers>>

ReadsAlways(b) == [bdata EXCEPT ![b] = store[blockno[b]]]

\* insl, unless the request was a write.
ReadsIfClean(b) == IF b \in dirty THEN bdata ELSE [bdata EXCEPT ![b] = store[blockno[b]]]

StopsWhenDone == <<>>

\* idestart is called for the next request.
StartsNext == Tail(idequeue)

WakesHolder(b) ==
  [p \in BioProcs |-> IF doing[p] = "sleep on io" /\ buf[p] = b THEN "use" ELSE doing[p]]

\* The active request is over: idestart sent the data of a write, ideintr reads the others.
ideintr ==
  /\ idequeue # <<>>
  /\ LET b == Head(idequeue)
     IN  /\ store' = IF b \in dirty THEN [store EXCEPT ![blockno[b]] = bdata[b]] ELSE store
         /\ bdata' = ReadsIfClean(b)
         /\ valid' = valid \union {b}
         /\ dirty' = dirty \ {b}
         /\ doing' = WakesHolder(b)
  /\ idequeue' = StartsNext
  /\ UNCHANGED <<mru, blockno, refcnt, locked, buf, uses, noBuffers>>

\* A change of the data, then bwrite.
bwrite(p, c) ==
  /\ doing[p] = "use" /\ uses < MaxUses
  /\ uses' = uses + 1
  /\ bdata' = [bdata EXCEPT ![buf[p]] = c]
  /\ dirty' = dirty \union {buf[p]}
  /\ doing' = [doing EXCEPT ![p] = "iderw"]
  /\ UNCHANGED <<mru, blockno, valid, refcnt, locked, idequeue, store, buf, noBuffers>>

\* A change of the data, then log_write's B_DIRTY, which pins the buffer.
pin(p, c) ==
  /\ doing[p] = "use" /\ Cardinality(dirty \union {buf[p]}) <= MaxPinned
  /\ bdata' = [bdata EXCEPT ![buf[p]] = c]
  /\ dirty' = dirty \union {buf[p]}
  /\ UNCHANGED <<mru, blockno, valid, refcnt, locked, idequeue, store, doing, buf, uses,
                 noBuffers>>

WakesSleepers(b) ==
  [p \in BioProcs |->
     IF doing[p] = "sleep on lock" /\ buf[p] = b THEN "acquiresleep" ELSE doing[p]]

releasesleep(p) ==
  /\ doing[p] = "use"
  /\ locked' = [locked EXCEPT ![buf[p]] = "none"]
  /\ doing' = [WakesSleepers(buf[p]) EXCEPT ![p] = "brelse"]
  /\ UNCHANGED <<mru, blockno, valid, dirty, refcnt, bdata, idequeue, store, buf, uses,
                 noBuffers>>

DropsRef(b) == [refcnt EXCEPT ![b] = @ - 1]

brelse(p) ==
  /\ doing[p] = "brelse"
  /\ refcnt' = DropsRef(buf[p])
  /\ mru' = IF refcnt[buf[p]] = 1
            THEN <<buf[p]>> \o SelectSeq(mru, LAMBDA b : b # buf[p]) ELSE mru
  /\ buf' = [buf EXCEPT ![p] = "none"]
  /\ doing' = [doing EXCEPT ![p] = "nothing"]
  /\ UNCHANGED <<blockno, valid, dirty, bdata, locked, idequeue, store, uses, noBuffers>>

BioStep(p) == acquiresleep(p) \/ iderw(p) \/ releasesleep(p) \/ brelse(p)

BioNext ==
  /\ ~noBuffers
  /\ \/ \E p \in BioProcs :
          \/ \E n \in BlockNos : bget(p, n)
          \/ \E c \in Contents : bwrite(p, c) \/ pin(p, c)
          \/ BioStep(p)
     \/ ideintr

\* A process that has a buffer gives it back, and the disk answers.
BioFair == WF_biovars(ideintr) /\ \A p \in BioProcs : WF_biovars(BioStep(p))

-----------------------------------------------------------------------------
(* Properties.                                                             *)

\* What a reader of a block gets.
Current(n) ==
  LET cached == {b \in valid : blockno[b] = n}
  IN  IF cached = {} THEN store[n] ELSE bdata[CHOOSE b \in cached : TRUE]

\* The cache is transparent: what a block contains changes only by the process that has its
\* buffer locked, whatever is evicted, read again, written or left dirty meanwhile.
CacheTransparent ==
  [][\A n \in BlockNos :
       Current(n)' # Current(n) =>
         \E p \in BioProcs : doing[p] = "use" /\ blockno[buf[p]] = n
                             /\ locked[buf[p]] = p]_biovars

\* A block has at most one buffer, and a buffer in use is not given to another block.
OneBufferPerBlock ==
  /\ \A b, c \in Bufs : blockno[b] = blockno[c] /\ blockno[b] # "none" => b = c
  /\ \A b \in Bufs : refcnt[b] = Cardinality({p \in BioProcs : buf[p] = b})

\* Whoever sleeps for a buffer's lock finds it taken, and whoever waits for the disk has its
\* buffer in the queue, once.
BioNoLostWakeup ==
  \A p \in BioProcs :
    /\ doing[p] = "sleep on lock" => locked[buf[p]] # "none"
    /\ doing[p] = "sleep on io" =>
         Cardinality({i \in DOMAIN idequeue : idequeue[i] = buf[p]}) = 1

\* With a buffer for every process besides the ones the log pins, bget finds one.
EnoughBuffers == ~noBuffers

\* Every bread returns.
BreadReturns ==
  \A p \in BioProcs : (buf[p] # "none") ~> (doing[p] \in {"use", "nothing"})

\* bget gives out buffers soundly: one for each block, enough of them, and none whose sleeping
\* users are forgotten.
CacheSound == OneBufferPerBlock /\ EnoughBuffers /\ BioNoLostWakeup
=============================================================================

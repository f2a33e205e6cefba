------------------------------- MODULE Blocks -------------------------------
(***************************************************************************)
(* The blocks of files: mkfs.c, which lays out the first image, and then   *)
(* the block allocator, bmap, readi, writei and itrunc of fs.c, which work *)
(* on it.  Writes to different inodes interleave block by block; an inode  *)
(* is locked while it is read or written, and the cached inode is loaded   *)
(* again from the disk between uses.  Contents are counted in units of     *)
(* four bytes, the size of a block number.                                 *)
(***************************************************************************)
EXTENDS Integers, Sequences, FiniteSets, SequencesExt

CONSTANTS
  FSSIZE, nmeta, \* blocks of the disk, and those before the data blocks
  BSIZE, NDIRECT,
  UintMax1,      \* 2^32 in the code
  FileInums,         \* the files; RootIno is the root directory
  ImageSizes,    \* how large the files copied into the image may be
  Offsets, Counts, Values,   \* arguments of reads and writes
  MaxFileOps     \* bound on the number of operations

RootIno == 1

ASSUME BlocksAssumption ==
  /\ {FSSIZE, nmeta, BSIZE, NDIRECT} \subseteq Nat \ {0} /\ nmeta < FSSIZE
  /\ FileInums \subseteq Nat /\ RootIno \in FileInums /\ 0 \notin Values

VARIABLES
  disk,          \* the contents of the data blocks
  bitmap,        \* the blocks marked in use
  diskInode,        \* the inodes on disk
  inode,         \* and as the kernel has them cached
  contents,      \* what was written into each file
  fop,           \* the operation in progress on each inode
  phase,         \* mkfs, the kernel, or why it stopped
  jobs,          \* what mkfs has still to append: inode, length and value
  freeblock,
  hole,          \* mkfs gave the root directory a last block that is not there
  fileops

bvars == <<disk, bitmap, diskInode, inode, contents, fop, phase, jobs, freeblock, hole, fileops>>

NINDIRECT == BSIZE
MAXFILE == NDIRECT + NINDIRECT
Zeroed == [k \in 0..BSIZE - 1 |-> 0]
NoOp == [kind |-> "none", off |-> 0, left |-> 0, n |-> 0, v |-> 0, got |-> <<>>]
EmptyInode == [size |-> 0, addrs |-> [n \in 0..NDIRECT |-> 0]]

\* The entries "." and "..", then an entry and the contents of each file.
Image(sizes) ==
  <<[inum |-> RootIno, n |-> 2, v |-> Min(Values)]>> \o
  FlattenSeq([k \in 1..Cardinality(DOMAIN sizes) |->
    LET i == SetToSortSeq(DOMAIN sizes, <)[k]
    IN  <<[inum |-> RootIno, n |-> 1, v |-> Min(Values)],
          [inum |-> i, n |-> sizes[i], v |-> Max(Values)]>>])

BlocksInit ==
  /\ disk = [b \in nmeta..FSSIZE |-> Zeroed]
  /\ bitmap = {}
  /\ diskInode = [i \in FileInums |-> EmptyInode]
  /\ inode = diskInode
  /\ contents = [i \in FileInums |-> <<>>]
  /\ fop = [i \in FileInums |-> NoOp]
  /\ phase = "none"
  /\ jobs = <<>>
  /\ freeblock = nmeta
  /\ hole = FALSE
  /\ fileops = 0

Lesser(a, b) == IF a < b THEN a ELSE b

\* Writing m units of value v at off of the file: contents grow or are overwritten.
Overwrite(s, off, m, v) ==
  [k \in 1..(IF off + m > Len(s) THEN off + m ELSE Len(s)) |->
     IF off < k /\ k <= off + m THEN v ELSE s[k]]

\* memmove of m units into a block.
CopyIn(block, at, m, v) == [k \in DOMAIN block |-> IF at <= k /\ k < at + m THEN v ELSE block[k]]

-----------------------------------------------------------------------------
(* bmap, for mkfs and for the kernel: the block of a file, and what is     *)
(* allocated for it, the indirect block and the block itself.              *)

NeedsIndirect(ip, bn) == bn >= NDIRECT /\ ip.addrs[NDIRECT] = 0

Mapped(d, ip, bn) ==
  IF bn < NDIRECT THEN ip.addrs[bn]
  ELSE IF ip.addrs[NDIRECT] = 0 THEN 0 ELSE d[ip.addrs[NDIRECT]][bn - NDIRECT]

\* How many blocks bmap allocates.
Wanted(d, ip, bn) ==
  (IF NeedsIndirect(ip, bn) THEN 1 ELSE 0) + (IF Mapped(d, ip, bn) = 0 THEN 1 ELSE 0)

\* The inode and the disk once bmap has used the blocks new, and the block found.
bmap(d, ip, bn, new) ==
  LET indirect == IF NeedsIndirect(ip, bn) THEN new[1] ELSE ip.addrs[NDIRECT]
      addr == IF Mapped(d, ip, bn) = 0 THEN new[Len(new)] ELSE Mapped(d, ip, bn)
      zeroed == [b \in DOMAIN d |-> IF b \in ToSet(new) THEN Zeroed ELSE d[b]]
  IN  IF bn < NDIRECT
      THEN [ip |-> [ip EXCEPT !.addrs[bn] = addr], disk |-> zeroed, addr |-> addr]
      ELSE [ip |-> [ip EXCEPT !.addrs[NDIRECT] = indirect],
            disk |-> [zeroed EXCEPT ![indirect][bn - NDIRECT] = addr], addr |-> addr]

-----------------------------------------------------------------------------
(* mkfs                                                                    *)

\* main: which files the image holds.
mkfs ==
  /\ phase = "none" /\ phase' = "mkfs"
  /\ \E files \in SUBSET (FileInums \ {RootIno}) :
       \E sizes \in [files -> ImageSizes] : jobs' = Image(sizes)
  /\ UNCHANGED <<disk, bitmap, diskInode, inode, contents, fop, freeblock, hole, fileops>>

\* The check lets sector FSSIZE pass, but iappend reads a block before it writes it, and
\* there is nothing to read at the end of the image.
CheckPasses(b) == b <= FSSIZE

rsect(b) == CheckPasses(b) /\ b < FSSIZE

\* One iteration of iappend, which takes blocks from freeblock on.
iappend ==
  LET job == Head(jobs)
      ip == diskInode[job.inum]
      bn == ip.size \div BSIZE
      n1 == Lesser(job.n, (bn + 1) * BSIZE - ip.size)
      new == [k \in 1..Wanted(disk, ip, bn) |-> freeblock + k - 1]
      mapped == bmap(disk, ip, bn, new)
  IN  /\ phase = "mkfs" /\ jobs # <<>>
      /\ IF bn >= MAXFILE \/ \E b \in ToSet(new) : ~rsect(b)
         THEN phase' = "mkfs failed"
              /\ UNCHANGED <<disk, diskInode, contents, freeblock, jobs>>
         ELSE /\ disk' = [mapped.disk EXCEPT ![mapped.addr] =
                            CopyIn(@, ip.size % BSIZE, n1, job.v)]
              /\ diskInode' = [diskInode EXCEPT ![job.inum] = [mapped.ip EXCEPT !.size = @ + n1]]
              /\ contents' = [contents EXCEPT ![job.inum] = Overwrite(@, ip.size, n1, job.v)]
              /\ freeblock' = freeblock + Len(new)
              /\ jobs' = IF n1 = job.n THEN Tail(jobs) ELSE [jobs EXCEPT ![1].n = @ - n1]
              /\ UNCHANGED phase
      /\ UNCHANGED <<bitmap, inode, fop, hole, fileops>>

\* The root directory fills its last block, and the bitmap is written.
finish ==
  LET size == ((diskInode[RootIno].size \div BSIZE) + 1) * BSIZE
  IN  /\ phase = "mkfs" /\ jobs = <<>>
      /\ diskInode' = [diskInode EXCEPT ![RootIno].size = size]
      /\ contents' = [contents EXCEPT ![RootIno] =
                        @ \o [k \in 1..size - diskInode[RootIno].size |-> 0]]
      /\ bitmap' = 0..freeblock - 1
      /\ inode' = diskInode'
      /\ hole' = (diskInode[RootIno].size % BSIZE = 0)
      /\ phase' = "kernel"
      /\ UNCHANGED <<disk, fop, jobs, freeblock, fileops>>

-----------------------------------------------------------------------------
(* The kernel                                                              *)

FreeBlocks == 0..FSSIZE - 1 \ bitmap

\* balloc takes the first free block, and zeroes it.
balloc(k) == SetToSortSeq(FreeBlocks, <)[k]

Overflows(off, n) == (off + n) % UintMax1 < off

readable(i, off, n) == off <= inode[i].size /\ ~Overflows(off, n)

writable(i, off, n) ==
  readable(i, off, n) /\ (off + n) % UintMax1 <= MAXFILE * BSIZE

Start(i, kind, off, n, v) ==
  /\ phase = "kernel" /\ fop[i] = NoOp /\ fileops < MaxFileOps
  /\ fop' = [fop EXCEPT ![i] =
       [kind |-> kind, off |-> off, left |-> n, n |-> n, v |-> v, got |-> <<>>]]
  /\ fileops' = fileops + 1
  /\ UNCHANGED <<disk, bitmap, diskInode, inode, contents, phase, jobs, freeblock, hole>>

readi(i, off, n) ==
  /\ readable(i, off, n)
  /\ Start(i, "read", off, IF off + n > inode[i].size THEN inode[i].size - off ELSE n, 0)

writei(i, off, n, v) == writable(i, off, n) /\ Start(i, "write", off, n, v)

\* The panics of bmap, of balloc, and of the disk driver for a block past the disk.
Fails(i, bn) ==
  CASE bn >= MAXFILE -> "bmap: out of range"
    [] bn < MAXFILE /\ Wanted(disk, inode[i], bn) > Cardinality(FreeBlocks) -> "balloc: out of blocks"
    [] bn < MAXFILE /\ Mapped(disk, inode[i], bn) >= FSSIZE -> "incorrect blockno"
    [] OTHER -> "none"

\* One iteration of the loops of readi and writei.
Step(i) ==
  LET op == fop[i]
      bn == op.off \div BSIZE
      at == op.off % BSIZE
      m == Lesser(op.left, BSIZE - at)
      new == [k \in 1..Wanted(disk, inode[i], bn) |-> balloc(k)]
      mapped == bmap(disk, inode[i], bn, new)
      data == mapped.disk[mapped.addr]
  IN  /\ phase = "kernel" /\ op.left > 0
      /\ IF Fails(i, bn) # "none"
         THEN phase' = Fails(i, bn) /\ UNCHANGED <<disk, bitmap, inode, contents, fop>>
         ELSE /\ bitmap' = bitmap \cup ToSet(new)
              /\ inode' = [inode EXCEPT ![i] = mapped.ip]
              /\ fop' = [fop EXCEPT ![i] = [@ EXCEPT !.off = @ + m, !.left = @ - m,
                   !.got = IF op.kind = "read" THEN @ \o [k \in 1..m |-> data[at + k - 1]] ELSE @]]
              /\ IF op.kind = "write"
                 THEN /\ disk' = [mapped.disk EXCEPT ![mapped.addr] = CopyIn(@, at, m, op.v)]
                      /\ contents' = [contents EXCEPT ![i] = Overwrite(@, op.off, m, op.v)]
                 ELSE disk' = mapped.disk /\ UNCHANGED contents
              /\ UNCHANGED phase
      /\ UNCHANGED <<diskInode, jobs, freeblock, hole, fileops>>

NeverGrows(ip, off) == FALSE

Grows(ip, off) == off > ip.size

\* writei extends the size and writes the inode to disk; the inode is unlocked.
Finish(i) ==
  LET extends == fop[i].kind = "write" /\ fop[i].n > 0 /\ Grows(inode[i], fop[i].off)
  IN  /\ phase = "kernel" /\ fop[i] # NoOp /\ fop[i].left = 0
      /\ inode' = IF extends THEN [inode EXCEPT ![i].size = fop[i].off] ELSE inode
      /\ diskInode' = IF extends THEN [diskInode EXCEPT ![i] = inode'[i]] ELSE diskInode
      /\ fop' = [fop EXCEPT ![i] = NoOp]
      /\ UNCHANGED <<disk, bitmap, contents, phase, jobs, freeblock, hole, fileops>>

DirectBlocks(ip) == {ip.addrs[n] : n \in 0..NDIRECT} \ {0}

IndirectBlocks(ip) ==
  IF ip.addrs[NDIRECT] = 0 THEN {} ELSE {disk[ip.addrs[NDIRECT]][k] : k \in 0..NINDIRECT - 1} \ {0}

BlocksOf(ip) == DirectBlocks(ip) \cup IndirectBlocks(ip)

FreesDataOnly(ip) == BlocksOf(ip) \ {ip.addrs[NDIRECT]}

FreesAll(ip) == BlocksOf(ip)

\* itrunc, when the last link and reference of a file are gone.
itrunc(i) ==
  /\ phase = "kernel" /\ fop[i] = NoOp /\ fileops < MaxFileOps /\ i # RootIno
  /\ IF BlocksOf(inode[i]) \subseteq bitmap
     THEN /\ bitmap' = bitmap \ FreesAll(inode[i])
          /\ inode' = [inode EXCEPT ![i] = EmptyInode]
          /\ diskInode' = [diskInode EXCEPT ![i] = EmptyInode]
          /\ UNCHANGED phase
     ELSE phase' = "freeing free block" /\ UNCHANGED <<bitmap, inode, diskInode>>
  /\ contents' = [contents EXCEPT ![i] = <<>>]
  /\ fileops' = fileops + 1
  /\ UNCHANGED <<disk, fop, jobs, freeblock, hole>>

\* The cached inode is given up, and ilock loads it again.
reload(i) ==
  /\ phase = "kernel" /\ fop[i] = NoOp
  /\ inode' = [inode EXCEPT ![i] = diskInode[i]]
  /\ UNCHANGED <<disk, bitmap, diskInode, contents, fop, phase, jobs, freeblock, hole, fileops>>

BlocksNext ==
  \/ mkfs \/ iappend \/ finish
  \/ \E i \in FileInums :
       \/ Step(i) \/ Finish(i) \/ itrunc(i) \/ reload(i)
       \/ \E off \in Offsets, n \in Counts :
            readi(i, off, n) \/ \E v \in Values : writei(i, off, n, v)

-----------------------------------------------------------------------------
(* Properties.  One image is an exception: that whose root directory fills *)
(* its last block exactly, which finish extends by a block that is not     *)
(* there.                                                                  *)

Whole == {i \in FileInums : i = RootIno => ~hole}

\* The bitmap is exact while processes write, extend and truncate files at once: a block is
\* marked in use if and only if it is metadata or some file's, and it is of one file, once.
BitmapExact ==
  phase = "kernel" /\ ~hole =>
    /\ bitmap = 0..nmeta - 1 \cup UNION {BlocksOf(inode[i]) : i \in FileInums}
    /\ \A i, j \in FileInums : i # j => BlocksOf(inode[i]) \cap BlocksOf(inode[j]) = {}
    /\ \A i \in FileInums : \A a, b \in 0..MAXFILE - 1 :
         a # b /\ Mapped(disk, inode[i], a) # 0 =>
           Mapped(disk, inode[i], a) \notin {Mapped(disk, inode[i], b), inode[i].addrs[NDIRECT]}

\* Files keep what was written: every unit up to the size, in the image and after any writes,
\* is found by bmap where the last write of it put it, and reads return exactly those.
ReadsBack ==
  /\ \A i \in Whole : fop[i] = NoOp /\ phase = "kernel" => Len(contents[i]) = inode[i].size
  /\ \A i \in Whole : phase = "kernel" =>
       \A k \in 0..inode[i].size - 1 :
         LET b == Mapped(disk, inode[i], k \div BSIZE)
         IN  b # 0 /\ contents[i][k + 1] = disk[b][k % BSIZE]
  /\ \A i \in Whole : fop[i].kind = "read" =>
       fop[i].got = SubSeq(contents[i], fop[i].off - Len(fop[i].got) + 1, fop[i].off)

\* What an operation changed of the inode is on disk when the inode is unlocked, although
\* only a write that extends the file calls iupdate: no block is forgotten on the next load.
WrittenThrough ==
  \A i \in Whole : phase = "kernel" /\ fop[i] = NoOp => diskInode[i] = inode[i]

\* No argument of a read or a write, and no sequence of them on an image that mkfs made,
\* reaches the panics of bmap, of bfree and of the disk driver.
NoBlockPanic ==
  phase \notin {"bmap: out of range", "freeing free block", "incorrect blockno"}

\* balloc, bfree and itrunc keep the bitmap exact, and no read, write or image reaches a block
\* that is not there.
AllocationExact == BitmapExact /\ NoBlockPanic

\* writei keeps what was written, for a reader now and for one after the inode is loaded again.
FilesKept == ReadsBack /\ WrittenThrough
=============================================================================

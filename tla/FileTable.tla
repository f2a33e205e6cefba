----------------------------- MODULE FileTable ------------------------------
(***************************************************************************)
(* The table of open files and the descriptors of processes (file.c,       *)
(* sysfile.c, pipe.c, and fork and exit): open, pipe, dup, close, read and *)
(* write, with every table and the memory possibly exhausted.  A step is   *)
(* what happens under one holding of ftable.lock or of an inode's lock;    *)
(* inodes and pipes are what the files refer to.                           *)
(***************************************************************************)
EXTENDS Integers, Sequences, FiniteSets, SequencesExt

CONSTANTS
  FProcs,
  NFILE, NOFILE,
  Pages,         \* the pages kalloc has for pipes
  FInodes,       \* the inodes that are opened
  ChunkMax,      \* the most bytes one transaction of filewrite writes
  Lengths,       \* the lengths of reads and writes
  MaxSyscalls    \* bound on the number of calls

ASSUME FileTableAssumption ==
  {NFILE, NOFILE, ChunkMax} \subseteq Nat /\ Pages \subseteq Nat /\ ChunkMax > 0

VARIABLES
  ftable,        \* the files: ref, type, obj and off
  inodeRefs,     \* references to each inode
  pipeEnds,      \* the open ends of each pipe page; {} is a free page
  holder,        \* who has the lock of each inode
  fproc,         \* the processes
  moved,         \* bytes read and written through each file since it was opened
  syscalls

fvars == <<ftable, inodeRefs, pipeEnds, holder, fproc, moved, syscalls>>

Files == 1..NFILE
Fds == 0..NOFILE - 1
NoObj == "none"
initproc == CHOOSE p \in FProcs : TRUE

\* ofile; the files and the inode in local variables; what a fileclose has still to release;
\* the bytes left to move and the offset read.
NewProc(born) ==
  [born |-> born, ofile |-> [d \in Fds |-> 0], pc |-> "user", held |-> <<>>, inode |-> NoObj,
   closing |-> <<>>, fd |-> 0, left |-> 0, op |-> "none", seen |-> 0]

\* init runs, and the other slots are for children.
FTInit ==
  /\ ftable = [f \in Files |-> [ref |-> 0, type |-> "FD_NONE", obj |-> NoObj, off |-> 0]]
  /\ inodeRefs = [i \in FInodes |-> 0]
  /\ pipeEnds = [g \in Pages |-> {}]
  /\ holder = [i \in FInodes |-> "none"]
  /\ fproc = [p \in FProcs |-> NewProc(p = initproc)]
  /\ moved = [f \in Files |-> 0]
  /\ syscalls = 0

Runs(p, label) == fproc[p].born /\ fproc[p].pc = label /\ fproc[p].closing = <<>>

StartCall(p) == Runs(p, "user") /\ syscalls < MaxSyscalls /\ syscalls' = syscalls + 1

FreeFiles == {f \in Files : ftable[f].ref = 0}
FreeFds(p) == {d \in Fds : fproc[p].ofile[d] = 0}

\* filealloc leaves the fields of the file as they were.
filealloc == [ftable EXCEPT ![Min(FreeFiles)].ref = 1]

-----------------------------------------------------------------------------
(* fileclose: one reference less, and when it was the last, the object is  *)
(* released after ftable.lock is.                                          *)

ClearsType(f) == "FD_NONE"

Less(t, f) ==
  [t EXCEPT ![f] = [@ EXCEPT !.ref = @ - 1, !.type = IF t[f].ref = 1 THEN ClearsType(f) ELSE @]]

\* The object the close of this file releases, if any.
Releases(t, f) ==
  IF t[f].ref = 1 /\ t[f].type # "FD_NONE" THEN <<[type |-> t[f].type, obj |-> t[f].obj]>> ELSE <<>>

\* pipeclose or iput of an object.
Release(p) ==
  /\ fproc[p].closing # <<>>
  /\ LET c == Head(fproc[p].closing)
     IN  IF c.type = "FD_INODE"
         THEN inodeRefs' = [inodeRefs EXCEPT ![c.obj] = @ - 1] /\ UNCHANGED pipeEnds
         ELSE /\ pipeEnds' = [pipeEnds EXCEPT ![c.obj.page] = @ \ {c.obj.end}]
              /\ UNCHANGED inodeRefs
  /\ fproc' = [fproc EXCEPT ![p].closing = Tail(@)]
  /\ UNCHANGED <<ftable, holder, moved, syscalls>>

\* The calls close the files in their local variables one after the other; an open that
\* failed then puts its inode.
CloseHeld(p) ==
  /\ Runs(p, "close held") \/ Runs(p, "exit")
  /\ IF fproc[p].held = <<>>
     THEN /\ fproc' = [fproc EXCEPT ![p] =
               IF @.pc = "exit" THEN NewProc(FALSE)
               ELSE [@ EXCEPT !.pc = "user", !.inode = NoObj, !.closing =
                       IF fproc[p].inode = NoObj THEN <<>>
                       ELSE <<[type |-> "FD_INODE", obj |-> fproc[p].inode]>>]]
          /\ UNCHANGED ftable
     ELSE LET f == Head(fproc[p].held)
          IN  /\ ftable' = Less(ftable, f)
              /\ fproc' = [fproc EXCEPT ![p].held = Tail(@), ![p].closing = Releases(ftable, f)]
  /\ UNCHANGED <<inodeRefs, pipeEnds, holder, moved, syscalls>>

sys_close(p, d) ==
  /\ StartCall(p) /\ fproc[p].ofile[d] # 0
  /\ fproc' = [fproc EXCEPT ![p].ofile[d] = 0, ![p].held = <<fproc[p].ofile[d]>>,
                            ![p].pc = "close held"]
  /\ UNCHANGED <<ftable, inodeRefs, pipeEnds, holder, moved>>

-----------------------------------------------------------------------------
\* create or namei gives sys_open a reference to the inode.
sys_open(p, i) ==
  /\ StartCall(p)
  /\ inodeRefs' = [inodeRefs EXCEPT ![i] = @ + 1]
  /\ fproc' = [fproc EXCEPT ![p].inode = i, ![p].pc = "open"]
  /\ UNCHANGED <<ftable, pipeEnds, holder, moved>>

\* filealloc and fdalloc; when one fails the file is closed and the inode put.
OpenFile(p) ==
  LET f == Min(FreeFiles)
  IN  /\ Runs(p, "open")
      /\ \/ /\ FreeFiles = {}
            /\ fproc' = [fproc EXCEPT ![p].pc = "close held"]
            /\ UNCHANGED ftable
         \/ /\ FreeFiles # {} /\ FreeFds(p) = {}
            /\ ftable' = filealloc
            /\ fproc' = [fproc EXCEPT ![p].pc = "close held", ![p].held = <<f>>]
         \/ /\ FreeFiles # {} /\ FreeFds(p) # {}
            /\ ftable' = filealloc
            /\ fproc' = [fproc EXCEPT ![p].pc = "fill", ![p].ofile[Min(FreeFds(p))] = f,
                                      ![p].fd = Min(FreeFds(p))]
      /\ UNCHANGED <<inodeRefs, pipeEnds, holder, moved, syscalls>>

FillFile(p) ==
  LET f == fproc[p].ofile[fproc[p].fd]
  IN  /\ Runs(p, "fill")
      /\ ftable' = [ftable EXCEPT ![f] =
           [@ EXCEPT !.type = "FD_INODE", !.obj = fproc[p].inode, !.off = 0]]
      /\ moved' = [moved EXCEPT ![f] = 0]
      /\ fproc' = [fproc EXCEPT ![p].pc = "user", ![p].inode = NoObj, ![p].fd = 0]
      /\ UNCHANGED <<inodeRefs, pipeEnds, holder, syscalls>>

-----------------------------------------------------------------------------
\* pipealloc: a file for each end, then the page.
sys_pipe(p) ==
  /\ StartCall(p)
  /\ fproc' = [fproc EXCEPT ![p].pc = "pipealloc"]
  /\ UNCHANGED <<ftable, inodeRefs, pipeEnds, holder, moved>>

PipeFile(p) ==
  /\ Runs(p, "pipealloc") /\ Len(fproc[p].held) < 2
  /\ IF FreeFiles = {}
     THEN fproc' = [fproc EXCEPT ![p].pc = "close held"] /\ UNCHANGED ftable
     ELSE /\ ftable' = filealloc
          /\ fproc' = [fproc EXCEPT ![p].held = Append(@, Min(FreeFiles))]
  /\ UNCHANGED <<inodeRefs, pipeEnds, holder, moved, syscalls>>

PipePage(p) ==
  LET free == {g \in Pages : pipeEnds[g] = {}}
      g == Min(free)
      End(f, e) == [ftable[f] EXCEPT !.type = "FD_PIPE", !.obj = [page |-> g, end |-> e]]
  IN  /\ Runs(p, "pipealloc") /\ Len(fproc[p].held) = 2
      /\ IF free = {}
         THEN fproc' = [fproc EXCEPT ![p].pc = "close held"] /\ UNCHANGED <<ftable, pipeEnds>>
         ELSE /\ pipeEnds' = [pipeEnds EXCEPT ![g] = {"r", "w"}]
              /\ ftable' = [ftable EXCEPT ![fproc[p].held[1]] = End(fproc[p].held[1], "r"),
                                          ![fproc[p].held[2]] = End(fproc[p].held[2], "w")]
              /\ fproc' = [fproc EXCEPT ![p].pc = "pipe fds"]
      /\ UNCHANGED <<inodeRefs, holder, moved, syscalls>>

KeepsFirstFd(p, d) == [fproc[p].ofile EXCEPT ![d] = fproc[p].held[1]]

DropsFirstFd(p, d) == fproc[p].ofile

\* sys_pipe's two descriptors; with room for one only, that one is taken back.
PipeFds(p) ==
  /\ Runs(p, "pipe fds")
  /\ IF Cardinality(FreeFds(p)) < 2
     THEN fproc' = [fproc EXCEPT ![p].pc = "close held",
            ![p].ofile = IF FreeFds(p) = {} THEN @ ELSE DropsFirstFd(p, Min(FreeFds(p)))]
     ELSE LET a == Min(FreeFds(p))
              b == Min(FreeFds(p) \ {a})
          IN  fproc' = [fproc EXCEPT ![p].pc = "user", ![p].held = <<>>,
                ![p].ofile = [@ EXCEPT ![a] = fproc[p].held[1], ![b] = fproc[p].held[2]]]
  /\ UNCHANGED <<ftable, inodeRefs, pipeEnds, holder, moved, syscalls>>

-----------------------------------------------------------------------------
\* fdalloc, then filedup.
sys_dup(p, d) ==
  /\ StartCall(p) /\ fproc[p].ofile[d] # 0
  /\ IF FreeFds(p) = {}
     THEN UNCHANGED <<fproc, ftable>>
     ELSE /\ fproc' = [fproc EXCEPT ![p].ofile[Min(FreeFds(p))] = fproc[p].ofile[d]]
          /\ ftable' = [ftable EXCEPT ![fproc[p].ofile[d]].ref = @ + 1]
  /\ UNCHANGED <<inodeRefs, pipeEnds, holder, moved>>

\* The files a child shares, each duplicated.
fork(p, c) ==
  /\ StartCall(p) /\ ~fproc[c].born
  /\ fproc' = [fproc EXCEPT ![c] = [NewProc(TRUE) EXCEPT !.ofile = fproc[p].ofile]]
  /\ ftable' = [f \in Files |->
       [ftable[f] EXCEPT !.ref = @ + Cardinality({d \in Fds : fproc[p].ofile[d] = f})]]
  /\ UNCHANGED <<inodeRefs, pipeEnds, holder, moved>>

exit(p) ==
  /\ StartCall(p) /\ p # initproc
  /\ fproc' = [fproc EXCEPT ![p].ofile = [d \in Fds |-> 0], ![p].pc = "exit",
       ![p].held = SelectSeq([n \in 1..NOFILE |-> fproc[p].ofile[n - 1]], LAMBDA f : f # 0)]
  /\ UNCHANGED <<ftable, inodeRefs, pipeEnds, holder, moved>>

-----------------------------------------------------------------------------
(* fileread and filewrite on an inode: the lock, the offset, the transfer. *)

Transfer(p, d, n, op) ==
  /\ StartCall(p) /\ fproc[p].ofile[d] # 0
  /\ ftable[fproc[p].ofile[d]].type = "FD_INODE"
  /\ fproc' = [fproc EXCEPT ![p].fd = d, ![p].left = n, ![p].op = op, ![p].pc = "lock inode"]
  /\ UNCHANGED <<ftable, inodeRefs, pipeEnds, holder, moved>>

Chunk(n) == IF n > ChunkMax THEN ChunkMax ELSE n

Unlockable(i) == TRUE

Lockable(i) == holder[i] = "none"

LockInode(p) ==
  LET f == fproc[p].ofile[fproc[p].fd]
  IN  /\ Runs(p, "lock inode") /\ Lockable(ftable[f].obj)
      /\ holder' = [holder EXCEPT ![ftable[f].obj] = p]
      /\ fproc' = [fproc EXCEPT ![p].seen = ftable[f].off, ![p].pc = "move"]
      /\ UNCHANGED <<ftable, inodeRefs, pipeEnds, moved, syscalls>>

\* readi reads what there is; writei writes its chunk or fails, which ends the loop.
Moved(p) == IF fproc[p].op = "read" THEN 0..fproc[p].left ELSE {0, Chunk(fproc[p].left)}

Move(p) ==
  LET f == fproc[p].ofile[fproc[p].fd]
  IN  /\ Runs(p, "move")
      /\ \E k \in Moved(p) :
           /\ ftable' = [ftable EXCEPT ![f].off = fproc[p].seen + k]
           /\ moved' = [moved EXCEPT ![f] = @ + k]
           /\ fproc' = [fproc EXCEPT ![p] =
                IF @.op = "read" \/ k = 0 \/ @.left = k
                THEN [@ EXCEPT !.pc = "user", !.left = 0, !.seen = 0, !.fd = 0, !.op = "none"]
                ELSE [@ EXCEPT !.pc = "lock inode", !.left = @ - k, !.seen = 0]]
      /\ holder' = [holder EXCEPT ![ftable[f].obj] = "none"]
      /\ UNCHANGED <<inodeRefs, pipeEnds, syscalls>>

FTNext ==
  \E p \in FProcs :
    \/ Release(p) \/ CloseHeld(p) \/ OpenFile(p) \/ FillFile(p)
    \/ PipeFile(p) \/ PipePage(p) \/ PipeFds(p) \/ LockInode(p) \/ Move(p)
    \/ sys_pipe(p) \/ exit(p)
    \/ \E i \in FInodes : sys_open(p, i)
    \/ \E c \in FProcs : fork(p, c)
    \/ \E d \in Fds : sys_close(p, d) \/ sys_dup(p, d)
    \/ \E d \in Fds, n \in Lengths, op \in {"read", "write"} : Transfer(p, d, n, op)

-----------------------------------------------------------------------------
(* Properties.                                                             *)

\* Every reference is accounted for: a file has as many as there are descriptors of it and
\* local variables of calls in progress, on every path with or without a failure.
FileRefsExact ==
  \A f \in Files :
    ftable[f].ref = Cardinality({<<p, d>> \in FProcs \X Fds : fproc[p].ofile[d] = f})
                    + Cardinality({<<p, n>> \in FProcs \X (1..2 + NOFILE) :
                                     n <= Len(fproc[p].held) /\ fproc[p].held[n] = f})

Refers(f, type, obj) == ftable[f].ref > 0 /\ ftable[f].type = type /\ ftable[f].obj = obj

Closing(p, type, obj) == \E n \in DOMAIN fproc[p].closing :
                           fproc[p].closing[n] = [type |-> type, obj |-> obj]

\* What files refer to is released exactly once: an inode has a reference for each file and
\* call in progress, and the ends of a pipe that are open are those of some file.
ObjectsReleasedOnce ==
  /\ \A i \in FInodes :
       inodeRefs[i] = Cardinality({f \in Files : Refers(f, "FD_INODE", i)})
                      + Cardinality({p \in FProcs : fproc[p].inode = i})
                      + Cardinality({p \in FProcs : Closing(p, "FD_INODE", i)})
  /\ \A g \in Pages, e \in {"r", "w"} :
       LET o == [page |-> g, end |-> e]
       IN  e \in pipeEnds[g] <=> \/ \E f \in Files : Refers(f, "FD_PIPE", o)
                                 \/ \E p \in FProcs : Closing(p, "FD_PIPE", o)

\* Processes that share a file share its offset: no transfer is lost, repeated or laid over
\* another one, although a long write is several transactions.
OffsetExact == \A f \in Files : Refers(f, "FD_INODE", ftable[f].obj) => ftable[f].off = moved[f]

\* References are exact on both levels, those to files and those of files to inodes and pipes,
\* on every path of open, pipe, dup, close, fork and exit that fails halfway.
ReferencesExact == FileRefsExact /\ ObjectsReleasedOnce
=============================================================================

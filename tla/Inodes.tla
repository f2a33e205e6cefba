------------------------------- MODULE Inodes -------------------------------
(***************************************************************************)
(* The inode cache, path lookup and the system calls on names (fs.c,       *)
(* sysfile.c), run by concurrent processes.  A step is what happens        *)
(* between two operations on the locks of inodes; a process first does the *)
(* iputs it has to do (todo), then takes the lock it needs (want), then    *)
(* goes on at pc.  A directory is the function of its entries; what it and *)
(* a file hold in blocks is in Blocks.                                     *)
(***************************************************************************)
EXTENDS Integers, Sequences, FiniteSets, SequencesExt

CONSTANTS
  IProcs,
  NINODE, ninodes,   \* the slots of the cache; the inodes on disk, 0 not being used
  Names,
  Requests,          \* the calls: [op, abs, path, new]; abs: the paths begin with /
  MaxRequests        \* bound on the number of calls

ASSUME InodesAssumption == {NINODE, ninodes} \subseteq Nat /\ NINODE > 0 /\ ninodes > 3

VARIABLES
  dinode,            \* on disk: type and nlink of each inode
  entries,           \* the contents of directories
  icache,            \* the cached inodes
  ilk,               \* who has the lock of each
  proc,              \* each process's place in its call and its local variables
  requests, ipanic

ivars == <<dinode, entries, icache, ilk, proc, requests, ipanic>>

ROOTINO == 1
Inums == 1..ninodes - 1
Slots == 1..NINODE
NoEntries == [n \in Names \union {".."} |-> 0]

\* A disk with a file "a" and an empty directory "d", and processes in the root.
InodesInit ==
  /\ dinode = [i \in Inums |->
       CASE i = ROOTINO -> [type |-> "dir", nlink |-> 2]
         [] i = 2 -> [type |-> "file", nlink |-> 1]
         [] i = 3 -> [type |-> "dir", nlink |-> 1]
         [] OTHER -> [type |-> "free", nlink |-> 0]]
  /\ entries = [i \in Inums |->
       CASE i = ROOTINO -> [NoEntries EXCEPT !["a"] = 2, !["d"] = 3, ![".."] = ROOTINO]
         [] i = 3 -> [NoEntries EXCEPT ![".."] = ROOTINO]
         [] OTHER -> NoEntries]
  /\ icache = [s \in Slots |->
       [inum |-> IF s = 1 THEN ROOTINO ELSE 0, valid |-> FALSE, type |-> "free", nlink |-> 0,
        ref |-> IF s = 1 THEN Cardinality(IProcs) ELSE 0]]
  /\ ilk = [s \in Slots |-> "none"]
  /\ proc = [p \in IProcs |->
       [pc |-> "user", req |-> [op |-> "none"], path |-> <<>>,
        cur |-> 0, dp |-> 0, ip |-> 0, todo |-> <<>>, putting |-> "no", want |-> 0,
        ofiles |-> <<>>, cwd |-> 1]]
  /\ requests = 0
  /\ ipanic = "no"

-----------------------------------------------------------------------------
(* The cache.                                                              *)

\* The slot of an inode, and the slot iget returns.
SlotsOf(i) == {s \in Slots : icache[s].ref > 0 /\ icache[s].inum = i}
Empty == {s \in Slots : icache[s].ref = 0}
SlotFor(i) == IF SlotsOf(i) # {} THEN Min(SlotsOf(i)) ELSE Min(Empty)

iget(i) ==
  [icache EXCEPT ![SlotFor(i)] =
     IF SlotsOf(i) # {} THEN [@ EXCEPT !.ref = @ + 1]
     ELSE [@ EXCEPT !.inum = i, !.ref = 1, !.valid = FALSE]]

idup(s) == [icache EXCEPT ![s].ref = @ + 1]

Loaded(s) ==
  IF icache[s].valid THEN icache[s]
  ELSE [icache[s] EXCEPT !.valid = TRUE, !.type = dinode[icache[s].inum].type,
                         !.nlink = dinode[icache[s].inum].nlink]

ilock(p) ==
  LET s == proc[p].want
  IN  /\ proc[p].todo = <<>> /\ s # 0
      /\ ilk[s] = "none"
      /\ ilk' = [ilk EXCEPT ![s] = p]
      /\ icache' = [icache EXCEPT ![s] = Loaded(s)]
      /\ ipanic' = IF icache[s].ref < 1 \/ Loaded(s).type = "free" THEN "ilock" ELSE ipanic
      /\ proc' = [proc EXCEPT ![p].want = 0]
      /\ UNCHANGED <<dinode, entries, requests>>

-----------------------------------------------------------------------------
(* iput, in its four steps: lock and check, free on disk, unlock, drop.    *)

FreesUnlinked(s) == icache[s].valid /\ icache[s].nlink = 0

FreesUnused(s) == icache[s].valid /\ icache[s].nlink = 0 /\ icache[s].ref = 1

iputLock(p) ==
  /\ proc[p].todo # <<>> /\ proc[p].putting = "no"
  /\ LET s == Head(proc[p].todo)
     IN  /\ ilk[s] = "none"
         /\ ilk' = [ilk EXCEPT ![s] = p]
         /\ proc' = [proc EXCEPT ![p].putting = IF FreesUnused(s) THEN "free" ELSE "unlock"]
  /\ UNCHANGED <<dinode, entries, icache, requests, ipanic>>

iputFree(p) ==
  /\ proc[p].putting = "free"
  /\ LET i == icache[Head(proc[p].todo)].inum
     IN  /\ dinode' = [dinode EXCEPT ![i].type = "free"]
         /\ entries' = [entries EXCEPT ![i] = NoEntries]
  /\ proc' = [proc EXCEPT ![p].putting = "forget"]
  /\ UNCHANGED <<icache, ilk, requests, ipanic>>

ValidAfter(s, freed) == icache[s].valid /\ ~freed

iputUnlock(p) ==
  /\ proc[p].putting \in {"forget", "unlock"}
  /\ LET s == Head(proc[p].todo)
     IN  /\ icache' = [icache EXCEPT ![s].valid = ValidAfter(s, proc[p].putting = "forget")]
         /\ ilk' = [ilk EXCEPT ![s] = "none"]
  /\ proc' = [proc EXCEPT ![p].putting = "drop"]
  /\ UNCHANGED <<dinode, entries, requests, ipanic>>

iputDrop(p) ==
  /\ proc[p].putting = "drop"
  /\ icache' = [icache EXCEPT ![Head(proc[p].todo)].ref = @ - 1]
  /\ proc' = [proc EXCEPT ![p].todo = Tail(@), ![p].putting = "no"]
  /\ UNCHANGED <<dinode, entries, ilk, requests, ipanic>>

-----------------------------------------------------------------------------
(* Lookup.                                                                 *)

At(p, label) == proc[p].pc = label /\ proc[p].todo = <<>> /\ proc[p].want = 0

Unlocked(s) == [ilk EXCEPT ![s] = "none"]

Inode(s) == icache[s].inum

\* The calls that look for the parent directory.
WantsParent(p) ==
  \/ proc[p].req.op \in {"creat", "mkdir", "unlink"}
  \/ proc[p].req.op = "link" /\ proc[p].ip # 0

\* The call returns; what its local variables held is of no more use.
Done(r) ==
  [r EXCEPT !.pc = "user", !.req = [op |-> "none"], !.path = <<>>, !.cur = 0, !.dp = 0, !.ip = 0]

\* A lookup that fails ends the call, or undoes the link.
FailedLookup(p) ==
  IF proc[p].req.op = "link" /\ proc[p].ip # 0
  THEN [proc[p] EXCEPT !.pc = "undo link", !.want = proc[p].ip]
  ELSE Done(proc[p])

\* The start of namex: an empty path names the directory it starts from.
StartsAt(r, s, names) ==
  [r EXCEPT !.cur = s, !.path = names, !.want = s,
            !.ip = IF names = <<>> THEN s ELSE @,
            !.pc = IF names = <<>> THEN r.req.op ELSE "namex"]

Base(p, q) == IF q.abs THEN SlotFor(ROOTINO) ELSE proc[p].cwd
BaseHeld(p, q) == IF q.abs THEN iget(ROOTINO) ELSE idup(proc[p].cwd)

request(p, q) ==
  /\ At(p, "user") /\ requests < MaxRequests
  /\ requests' = requests + 1
  /\ icache' = BaseHeld(p, q)
  /\ proc' = [proc EXCEPT ![p] =
       StartsAt([@ EXCEPT !.req = q, !.dp = 0, !.ip = 0], Base(p, q), q.path)]
  /\ UNCHANGED <<dinode, entries, ilk, ipanic>>

\* One turn of namex's loop, with the directory locked.
namex(p) ==
  LET s == proc[p].cur
      name == Head(proc[p].path)
      next == entries[Inode(s)][name]
      last == Len(proc[p].path) = 1
  IN  /\ At(p, "namex")
      /\ ilk' = Unlocked(s)
      /\ \/ /\ icache[s].type = "dir" /\ WantsParent(p) /\ last
            /\ proc' = [proc EXCEPT ![p].dp = s, ![p].want = s, ![p].pc = "parent"]
            /\ UNCHANGED icache
         \/ /\ icache[s].type = "dir" /\ ~(WantsParent(p) /\ last) /\ next # 0
            /\ icache' = iget(next)
            /\ proc' = [proc EXCEPT ![p] =
                 [StartsAt(@, SlotFor(next), Tail(@.path)) EXCEPT !.todo = <<s>>]]
         \/ /\ icache[s].type # "dir" \/ (~(WantsParent(p) /\ last) /\ next = 0)
            /\ proc' = [proc EXCEPT ![p] = [FailedLookup(p) EXCEPT !.todo = <<s>>]]
            /\ UNCHANGED icache
      /\ UNCHANGED <<dinode, entries, requests, ipanic>>

-----------------------------------------------------------------------------
(* The calls.                                                              *)

\* Do these iputs and go on at a label, or return.
Then(p, label, puts) == [proc EXCEPT ![p].pc = label, ![p].todo = puts]
Return(p, puts) == [proc EXCEPT ![p] = [Done(@) EXCEPT !.todo = puts]]

\* iunlock and return with the inode in an open file.
Opens(p) ==
  [proc EXCEPT ![p] = [Done(@) EXCEPT !.ofiles = Append(@, proc[p].ip)]]

\* A directory is opened for reading only.
open(p) ==
  /\ At(p, "open")
  /\ ilk' = Unlocked(proc[p].ip)
  /\ \/ proc' = Opens(p)
     \/ icache[proc[p].ip].type = "dir" /\ proc' = Return(p, <<proc[p].ip>>)
  /\ UNCHANGED <<dinode, entries, icache, requests, ipanic>>

chdir(p) ==
  /\ At(p, "chdir")
  /\ ilk' = Unlocked(proc[p].ip)
  /\ proc' = IF icache[proc[p].ip].type # "dir"
             THEN Return(p, <<proc[p].ip>>)
             ELSE [Return(p, <<proc[p].cwd>>) EXCEPT ![p].cwd = proc[p].ip]
  /\ UNCHANGED <<dinode, entries, icache, requests, ipanic>>

\* fileclose of the last reference to an open file.
close(p) ==
  /\ At(p, "user") /\ proc[p].ofiles # <<>>
  /\ proc' = [Return(p, <<Head(proc[p].ofiles)>>) EXCEPT ![p].ofiles = Tail(@)]
  /\ UNCHANGED <<dinode, entries, icache, ilk, requests, ipanic>>

\* nlink changes in the cache and, by iupdate, on disk.
Links(s, k) ==
  /\ icache' = [icache EXCEPT ![s].nlink = @ + k]
  /\ dinode' = [dinode EXCEPT ![Inode(s)].nlink = icache[s].nlink + k]

Counted(s) == icache[s].nlink + 1

link(p) ==
  LET s == proc[p].ip
  IN  /\ At(p, "link")
      /\ ilk' = Unlocked(s)
      /\ IF icache[s].type = "dir"
         THEN proc' = Return(p, <<s>>) /\ UNCHANGED <<icache, dinode>>
         ELSE /\ icache' = [BaseHeld(p, proc[p].req) EXCEPT ![s].nlink = Counted(s)]
              /\ dinode' = [dinode EXCEPT ![Inode(s)].nlink = Counted(s)]
              /\ proc' = [proc EXCEPT ![p] = StartsAt(@, Base(p, @.req), @.req.new)]
      /\ UNCHANGED <<entries, requests, ipanic>>

UndoLink(p) ==
  /\ At(p, "undo link")
  /\ ilk' = Unlocked(proc[p].ip)
  /\ Links(proc[p].ip, -1)
  /\ proc' = Return(p, <<proc[p].ip>>)
  /\ UNCHANGED <<entries, requests, ipanic>>

Name(p) == Head(proc[p].path)

Found(p) == entries[Inode(proc[p].dp)][Name(p)]

\* With the parent locked: the name exists.
FindsName(p) ==
  LET d == proc[p].dp
      s == SlotFor(Found(p))
      next == CASE proc[p].req.op \in {"creat", "mkdir"} ->
                     [pc |-> "exists", ip |-> s, want |-> s, todo |-> <<d>>, unlock |-> {d}]
                [] proc[p].req.op = "unlink" ->
                     [pc |-> "unlink", ip |-> s, want |-> s, todo |-> <<>>, unlock |-> {}]
                [] proc[p].req.op = "link" ->
                     [pc |-> "leave parent", ip |-> proc[p].ip, want |-> 0, todo |-> <<s>>,
                      unlock |-> {}]
  IN  /\ At(p, "parent") /\ Found(p) # 0
      /\ icache' = iget(Found(p))
      /\ ilk' = [t \in Slots |-> IF t \in next.unlock THEN "none" ELSE ilk[t]]
      /\ proc' = [proc EXCEPT ![p].pc = next.pc, ![p].ip = next.ip, ![p].want = next.want,
                              ![p].todo = next.todo]
      /\ UNCHANGED <<dinode, entries, requests, ipanic>>

PutsParentOnly(p) == <<proc[p].dp>>

PutsBoth(p) == <<proc[p].dp, proc[p].ip>>

\* dirlink of link, and the end of the call.
dirlink(p) ==
  LET d == proc[p].dp
  IN  /\ At(p, "parent") /\ Found(p) = 0 /\ proc[p].req.op = "link"
      /\ entries' = [entries EXCEPT ![Inode(d)][Name(p)] = Inode(proc[p].ip)]
      /\ ilk' = Unlocked(d)
      /\ proc' = Return(p, PutsBoth(p))
      /\ UNCHANGED <<dinode, icache, requests, ipanic>>

\* The name to unlink does not exist; or, after the iput of the inode, it may not be unlinked
\* or linked.
LeaveParent(p) ==
  /\ \/ At(p, "parent") /\ Found(p) = 0 /\ proc[p].req.op = "unlink"
     \/ At(p, "leave parent")
  /\ ilk' = Unlocked(proc[p].dp)
  /\ proc' = [proc EXCEPT ![p] =
       [FailedLookup(p) EXCEPT !.todo = <<proc[p].dp>>]]
  /\ UNCHANGED <<dinode, entries, icache, requests, ipanic>>

\* create finds no such name: a free inode gets its type on disk and a slot.
ialloc(p) ==
  LET free == {i \in Inums : dinode[i].type = "free"}
      i == Min(free)
      type == IF proc[p].req.op = "mkdir" THEN "dir" ELSE "file"
  IN  /\ At(p, "parent") /\ Found(p) = 0 /\ proc[p].req.op \in {"creat", "mkdir"}
      /\ dinode' = [dinode EXCEPT ![i] = [type |-> type, nlink |-> 0]]
      /\ icache' = iget(i)
      /\ proc' = [proc EXCEPT ![p].ip = SlotFor(i), ![p].want = SlotFor(i), ![p].pc = "create"]
      /\ UNCHANGED <<entries, ilk, requests, ipanic>>

\* With the new inode locked: its links, its dots, its name.
create(p) ==
  LET d == proc[p].dp
      s == proc[p].ip
      sub == IF icache[s].type = "dir" THEN 1 ELSE 0
  IN  /\ At(p, "create")
      /\ icache' = [icache EXCEPT ![s].nlink = 1, ![d].nlink = @ + sub]
      /\ dinode' = [dinode EXCEPT ![Inode(s)].nlink = 1,
                                 ![Inode(d)].nlink = icache[d].nlink + sub]
      /\ entries' = [entries EXCEPT
           ![Inode(d)][Name(p)] = Inode(s),
           ![Inode(s)] = IF sub = 1 THEN [NoEntries EXCEPT ![".."] = Inode(d)] ELSE NoEntries]
      /\ ilk' = Unlocked(d)
      /\ proc' = Then(p, "created", <<d>>)
      /\ UNCHANGED <<requests, ipanic>>

\* create returns the locked inode to sys_open or sys_mkdir, or refuses it.
created(p) ==
  LET s == proc[p].ip
  IN  /\ At(p, "created") \/ At(p, "exists")
      /\ ilk' = Unlocked(s)
      /\ proc' = IF proc[p].req.op = "creat" /\ icache[s].type = "file"
                 THEN Opens(p) ELSE Return(p, <<s>>)
      /\ UNCHANGED <<dinode, entries, icache, requests, ipanic>>

\* isdirempty looks at the entries after the dots.
isdirempty(i) == \A n \in Names : entries[i][n] = 0

\* With both inodes locked.
unlink(p) ==
  LET d == proc[p].dp
      s == proc[p].ip
      sub == IF icache[s].type = "dir" THEN 1 ELSE 0
  IN  /\ At(p, "unlink")
      /\ ipanic' = IF icache[s].nlink < 1 THEN "unlink: nlink < 1" ELSE ipanic
      /\ IF sub = 1 /\ ~isdirempty(Inode(s))
         THEN /\ ilk' = Unlocked(s)
              /\ proc' = Then(p, "leave parent", <<s>>)
              /\ UNCHANGED <<icache, dinode, entries>>
         ELSE /\ entries' = [entries EXCEPT ![Inode(d)][Name(p)] = 0]
              /\ Links(d, -sub)
              /\ ilk' = Unlocked(d)
              /\ proc' = Then(p, "unlinked", <<d>>)
      /\ UNCHANGED requests

unlinked(p) ==
  /\ At(p, "unlinked")
  /\ Links(proc[p].ip, -1)
  /\ ilk' = Unlocked(proc[p].ip)
  /\ proc' = Return(p, <<proc[p].ip>>)
  /\ UNCHANGED <<entries, requests, ipanic>>

InodesNext ==
  /\ ipanic = "no"
  /\ \E p \in IProcs :
       \/ \E q \in Requests : request(p, q)
       \/ iputLock(p) \/ iputFree(p) \/ iputUnlock(p) \/ iputDrop(p)
       \/ ilock(p) \/ namex(p)
       \/ open(p) \/ chdir(p) \/ close(p) \/ link(p) \/ UndoLink(p)
       \/ FindsName(p) \/ dirlink(p) \/ LeaveParent(p)
       \/ ialloc(p) \/ create(p) \/ created(p) \/ unlink(p) \/ unlinked(p)

-----------------------------------------------------------------------------
(* Properties.                                                             *)

\* Every inode that is locked has a type, and every name that is unlinked was counted:
\* the panics of ilock and sys_unlink do not happen.
NoInodePanic == ipanic = "no"

\* An inode has at most one slot of the cache in use, however iget, iput and ialloc
\* interleave, and what the cache says of a locked inode is on disk.
OneSlotPerInode ==
  \A s \in Slots : icache[s].ref > 0 =>
    /\ SlotsOf(icache[s].inum) = {s}
    /\ icache[s].valid /\ (\A p \in IProcs : proc[p].putting # "forget") =>
         dinode[icache[s].inum] = [type |-> icache[s].type, nlink |-> icache[s].nlink]

\* An inode is freed only when nobody can reach it: open files and current directories are
\* allocated, and so is what a directory entry names.
InUseNotFreed ==
  /\ \A p \in IProcs :
       \A s \in Range(proc[p].ofiles) \union {proc[p].cwd} : dinode[Inode(s)].type # "free"
  /\ \A i \in Inums, n \in Names :
       entries[i][n] # 0 => dinode[entries[i][n]].type # "free"

Quiet == \A p \in IProcs : At(p, "user")

\* When no call is in progress, the references in the cache are those of open files and
\* current directories: no path through the calls loses one or drops one twice.
RefsBalance ==
  Quiet => \A s \in Slots :
    icache[s].ref = Cardinality({p \in IProcs : proc[p].cwd = s})
      + Cardinality({<<p, k>> \in IProcs \X (1..MaxRequests) :
                       k <= Len(proc[p].ofiles) /\ proc[p].ofiles[k] = s})

\* A link count is never below the number of names, at any moment of a call.
LinksCounted ==
  \A i \in Inums : dinode[i].type # "free" =>
    Cardinality({<<j, n>> \in Inums \X Names : entries[j][n] = i}) <= dinode[i].nlink

\* The processes waiting for inode locks do not wait in a circle.
NoInodeDeadlock ==
  \A p, q \in IProcs : p # q =>
    LET Needs(x) == IF proc[x].todo # <<>> /\ proc[x].putting = "no" THEN Head(proc[x].todo)
                    ELSE IF proc[x].todo = <<>> THEN proc[x].want ELSE 0
    IN  ~(\E s, t \in Slots : Needs(p) = s /\ ilk[s] = q /\ Needs(q) = t /\ ilk[t] = p)

\* Inodes are freed and cached soundly while calls race: what can be reached is allocated, an
\* inode has one slot of the cache, and ilock and sys_unlink find what they expect.
InodesSafe == InUseNotFreed /\ OneSlotPerInode /\ NoInodePanic

\* The two counts that iput decides by are right: references in the cache and links on disk.
CountsExact == RefsBalance /\ LinksCounted
=============================================================================

--------------------------------- MODULE Vm ---------------------------------
(***************************************************************************)
(* User memory (vm.c, kalloc.c, exec.c, and the memory side of fork, wait  *)
(* and sbrk): page directories are built page by page while processes      *)
(* compete for the physical pages, and any allocation may be the one that  *)
(* fails.  Sizes are in bytes, for they need not be multiples of a page.   *)
(* The kernel's half of an address space needs one page table here.        *)
(***************************************************************************)
EXTENDS Integers, Sequences, FiniteSets, SequencesExt

CONSTANTS
  VProcs,
  NPages,          \* physical pages
  PGSIZE, NPTE, NPDE,
  Programs,        \* program headers: sequences of [vaddr, filesz, memsz]
  ArgBytes,        \* bytes of arguments exec may have to push
  Increments,      \* arguments of sbrk
  AddrMax1,        \* 2^32 in the code
  MaxVmCalls       \* bound on the number of calls

ASSUME VmAssumption ==
  /\ {NPages, PGSIZE, NPTE, NPDE} \subseteq Nat \ {0}
  /\ PGSIZE * NPTE * NPDE < AddrMax1

VARIABLES
  freelist,        \* how often each page is on the free list
  pgdir,           \* the directory of each process, and the one it is making
  vmsz,            \* p->sz
  kstack,
  guard,           \* the page under the stack, until sbrk gives it up
  vjob,            \* the call in progress
  vmpanic, vmcalls

vmvars == <<freelist, pgdir, vmsz, kstack, guard, vjob, vmpanic, vmcalls>>

VPages == 0..NPTE * NPDE - 1
KERNBASE == PGSIZE * NPTE * NPDE
Phys == 1..NPages
Up(n) == (n + PGSIZE - 1) \div PGSIZE

\* A directory: its own page, the kernel's page table, user page tables, pages, and which
\* of them have PTE_U; 0 is not present.
NoDir ==
  [dir |-> 0, ktab |-> 0, tabs |-> [i \in 0..NPDE - 1 |-> 0], pte |-> [v \in VPages |-> 0],
   user |-> {}]

Idle ==
  [op |-> "none", pc |-> "idle", which |-> "cur", a |-> 0, from |-> 0, to |-> 0, mem |-> 0,
   segs |-> <<>>, child |-> "none"]

initp == CHOOSE p \in VProcs : TRUE

\* userinit and inituvm gave the first process a page of code.
VmInit ==
  /\ freelist = [g \in Phys |-> IF g > 5 THEN 1 ELSE 0]
  /\ pgdir = [x \in VProcs \X {"cur", "new"} |->
       IF x = <<initp, "cur">>
       THEN [dir |-> 1, ktab |-> 2, tabs |-> [NoDir.tabs EXCEPT ![0] = 3],
             pte |-> [NoDir.pte EXCEPT ![0] = 4], user |-> {0}]
       ELSE NoDir]
  /\ vmsz = [p \in VProcs |-> IF p = initp THEN PGSIZE ELSE 0]
  /\ kstack = [p \in VProcs |-> IF p = initp THEN 5 ELSE 0]
  /\ guard = [p \in VProcs |-> -1]
  /\ vjob = [p \in VProcs |-> Idle]
  /\ vmpanic = "no"
  /\ vmcalls = 0

-----------------------------------------------------------------------------
(* Pages.                                                                  *)

Free == {g \in Phys : freelist[g] > 0}

kalloc == Min(Free)

Taken(f, g) == [f EXCEPT ![g] = @ - 1]

kfree(f, pages) == [g \in Phys |-> f[g] + (IF g \in pages THEN 1 ELSE 0)]

\* The pages deallocuvm takes out of a directory, and what it leaves.
RoundsDown(n) == n \div PGSIZE

FirstFreed(n) == Up(n)

Between(newsz, oldsz) == {v \in VPages : FirstFreed(newsz) <= v /\ v * PGSIZE < oldsz}

Present(d, vs) == {d.pte[v] : v \in vs} \ {0}

deallocuvm(d, vs) ==
  [d EXCEPT !.pte = [v \in VPages |-> IF v \in vs THEN 0 ELSE d.pte[v]], !.user = @ \ vs]

\* Everything freevm frees.
Tables(d) == ({d.tabs[i] : i \in 0..NPDE - 1} \cup {d.ktab, d.dir}) \ {0}

freevm(d) == Present(d, VPages) \cup Tables(d)

-----------------------------------------------------------------------------
(* The calls begin.                                                        *)

Alive(p) == pgdir[<<p, "cur">>].dir # 0

Begin(p, job) ==
  /\ vmpanic = "no" /\ Alive(p) /\ vjob[p] = Idle /\ vmcalls < MaxVmCalls
  /\ vmcalls' = vmcalls + 1
  /\ vjob' = [vjob EXCEPT ![p] = job]

\* fork: allocproc's kernel stack, then copyuvm.
vfork(p, c) ==
  /\ kstack[c] = 0 /\ \A q \in VProcs : vjob[q].child # c
  /\ Begin(p, IF Free = {} THEN Idle
              ELSE [Idle EXCEPT !.op = "fork", !.pc = "setupkvm", !.which = "new",
                                !.to = vmsz[p], !.child = c])
  /\ IF Free = {} THEN UNCHANGED <<freelist, kstack>>
     ELSE kstack' = [kstack EXCEPT ![c] = kalloc] /\ freelist' = Taken(freelist, kalloc)
  /\ UNCHANGED <<pgdir, vmsz, guard, vmpanic>>

exec(p, prog) ==
  /\ Begin(p, [Idle EXCEPT !.op = "exec", !.pc = "setupkvm", !.which = "new", !.segs = prog])
  /\ UNCHANGED <<freelist, pgdir, vmsz, kstack, guard, vmpanic>>

\* The first page allocuvm adds.
StartsAbove(oldsz) == Up(oldsz)

\* growproc with n > 0 runs allocuvm; the limit is checked first.
grow(p, n) ==
  /\ n > 0
  /\ Begin(p, IF vmsz[p] + n >= KERNBASE THEN Idle
              ELSE [Idle EXCEPT !.op = "grow", !.pc = "page", !.a = StartsAbove(vmsz[p]),
                                !.from = vmsz[p], !.to = vmsz[p] + n])
  /\ UNCHANGED <<freelist, pgdir, vmsz, kstack, guard, vmpanic>>

\* growproc with n < 0: a process left without memory is told that it failed, and its size
\* stays; it can only fault, which ends it.
shrink(p, n) ==
  LET newsz == (vmsz[p] + n) % AddrMax1
      gone == IF newsz < vmsz[p] THEN Between(newsz, vmsz[p]) ELSE {}
      d == pgdir[<<p, "cur">>]
  IN  /\ n < 0
      /\ Begin(p, IF newsz = 0 THEN [Idle EXCEPT !.pc = "doomed"] ELSE Idle)
      /\ freelist' = kfree(freelist, Present(d, gone))
      /\ pgdir' = [pgdir EXCEPT ![<<p, "cur">>] = deallocuvm(d, gone)]
      /\ vmsz' = [vmsz EXCEPT ![p] = IF newsz \in 1..@ THEN newsz ELSE @]
      /\ guard' = [guard EXCEPT ![p] = IF @ \in gone THEN -1 ELSE @]
      /\ UNCHANGED <<kstack, vmpanic>>

\* exit, and the wait that frees the process.
reap(p) ==
  /\ vmpanic = "no" /\ p # initp /\ Alive(p) /\ vjob[p].pc \in {"idle", "doomed"}
  /\ freelist' = kfree(freelist, freevm(pgdir[<<p, "cur">>]) \cup {kstack[p]})
  /\ pgdir' = [pgdir EXCEPT ![<<p, "cur">>] = NoDir]
  /\ kstack' = [kstack EXCEPT ![p] = 0]
  /\ vmsz' = [vmsz EXCEPT ![p] = 0]
  /\ guard' = [guard EXCEPT ![p] = -1]
  /\ vjob' = [vjob EXCEPT ![p] = Idle]
  /\ UNCHANGED <<vmpanic, vmcalls>>

-----------------------------------------------------------------------------
(* What a failure undoes.                                                  *)

LeaksStack(p) == {}

DropsStack(p) == IF vjob[p].op = "fork" THEN {kstack[vjob[p].child]} ELSE {}

\* allocuvm gives back what it took; copyuvm, exec and setupkvm the whole new directory, and
\* fork its child's stack.
Fail(p) ==
  LET j == vjob[p]
      d == pgdir[<<p, j.which>>]
      vs == Between(j.from, j.to)
      freed == (IF j.op = "grow" THEN Present(d, vs) ELSE freevm(d)) \cup DropsStack(p)
  IN  /\ freelist' = kfree(freelist, (freed \cup {j.mem}) \ {0})
      /\ pgdir' = [pgdir EXCEPT ![<<p, j.which>>] =
                     IF j.op = "grow" THEN deallocuvm(d, vs) ELSE NoDir]
      /\ kstack' = IF j.op = "fork" THEN [kstack EXCEPT ![j.child] = 0] ELSE kstack
      /\ vjob' = [vjob EXCEPT ![p] = Idle]
      /\ UNCHANGED <<vmsz, guard, vmpanic, vmcalls>>

Works(p, label) == vmpanic = "no" /\ vjob[p].pc = label

-----------------------------------------------------------------------------
\* setupkvm: the directory, then the page table of the kernel.
setupkvm(p) ==
  LET x == <<p, "new">>
      started == pgdir[x].dir # 0
  IN  /\ Works(p, "setupkvm")
      /\ IF Free = {} THEN Fail(p)
         ELSE /\ freelist' = Taken(freelist, kalloc)
              /\ pgdir' = IF started THEN [pgdir EXCEPT ![x].ktab = kalloc]
                                     ELSE [pgdir EXCEPT ![x].dir = kalloc]
              /\ vjob' = [vjob EXCEPT ![p].pc =
                   IF ~started THEN @ ELSE IF vjob[p].op = "exec" THEN "segment" ELSE "page"]
              /\ UNCHANGED <<vmsz, kstack, guard, vmpanic, vmcalls>>

\* The pages that are missing when fork copies them.
CopyPanics(p) ==
  vjob[p].op = "fork" /\ pgdir[<<p, "cur">>].pte[vjob[p].a] = 0

\* The loops of allocuvm and copyuvm: a page,
AllocPage(p) ==
  LET j == vjob[p]
  IN  /\ Works(p, "page") /\ j.a * PGSIZE < j.to
      /\ IF CopyPanics(p)
         THEN /\ vmpanic' = "copyuvm"
              /\ UNCHANGED <<freelist, pgdir, vmsz, kstack, guard, vjob, vmcalls>>
         ELSE IF Free = {} THEN Fail(p)
         ELSE /\ freelist' = Taken(freelist, kalloc)
              /\ vjob' = [vjob EXCEPT ![p].mem = kalloc, ![p].pc = "map"]
              /\ UNCHANGED <<pgdir, vmsz, kstack, guard, vmpanic, vmcalls>>

\* The permissions of a new page: for a copy, those of the original.
PermUser(p, v) == vjob[p].op = "fork" => v \in pgdir[<<p, "cur">>].user

\* and its mapping, for which mappages may need a page table.
MapPage(p) ==
  LET j == vjob[p]
      x == <<p, j.which>>
      t == j.a \div NPTE
      needs == pgdir[x].tabs[t] = 0
  IN  /\ Works(p, "map")
      /\ IF needs /\ Free = {} THEN Fail(p)
         ELSE /\ freelist' = IF needs THEN Taken(freelist, kalloc) ELSE freelist
              /\ pgdir' = [pgdir EXCEPT ![x] =
                   [@ EXCEPT !.tabs[t] = IF needs THEN kalloc ELSE @, !.pte[j.a] = j.mem,
                             !.user = IF PermUser(p, j.a) THEN @ \cup {j.a} ELSE @]]
              /\ vmpanic' = IF pgdir[x].pte[j.a] # 0 THEN "remap" ELSE vmpanic
              /\ vjob' = [vjob EXCEPT ![p].a = @ + 1, ![p].mem = 0, ![p].pc = "page"]
              /\ UNCHANGED <<vmsz, kstack, guard, vmcalls>>

\* The loop has reached the new size.
GrowDone(p) ==
  /\ Works(p, "page") /\ vjob[p].op = "grow" /\ vjob[p].a * PGSIZE >= vjob[p].to
  /\ vmsz' = [vmsz EXCEPT ![p] = vjob[p].to]
  /\ vjob' = [vjob EXCEPT ![p] = Idle]
  /\ UNCHANGED <<freelist, pgdir, kstack, guard, vmpanic, vmcalls>>

ForkDone(p) ==
  LET c == vjob[p].child
  IN  /\ Works(p, "page") /\ vjob[p].op = "fork" /\ vjob[p].a * PGSIZE >= vjob[p].to
      /\ pgdir' = [pgdir EXCEPT ![<<c, "cur">>] = pgdir[<<p, "new">>], ![<<p, "new">>] = NoDir]
      /\ vmsz' = [vmsz EXCEPT ![c] = vmsz[p]]
      /\ guard' = [guard EXCEPT ![c] = guard[p]]
      /\ vjob' = [vjob EXCEPT ![p] = Idle]
      /\ UNCHANGED <<freelist, kstack, vmpanic, vmcalls>>

-----------------------------------------------------------------------------
(* exec.                                                                   *)

\* allocuvm from the size so far (to) to newsz, which returns 0 or the size.
Allocates(p, newsz, label) ==
  LET j == vjob[p]
      size == IF newsz < j.to THEN j.to ELSE newsz
  IN  IF newsz >= KERNBASE \/ size = 0 THEN Fail(p)
      ELSE /\ vjob' = [vjob EXCEPT ![p].a = StartsAbove(j.to), ![p].from = j.to,
                                   ![p].to = size, ![p].pc = "page", ![p].op = label]
           /\ UNCHANGED <<freelist, pgdir, vmsz, kstack, guard, vmpanic, vmcalls>>

\* The checks of a program header, or the two pages for the stack after the last one.
Segment(p) ==
  LET j == vjob[p]
      ph == Head(j.segs)
  IN  /\ Works(p, "segment")
      /\ IF j.segs = <<>>
         THEN Allocates(p, PGSIZE * (Up(j.to) + 2), "stack")
         ELSE IF ph.memsz < ph.filesz \/ (ph.vaddr + ph.memsz) % AddrMax1 < ph.vaddr THEN Fail(p)
         ELSE Allocates(p, ph.vaddr + ph.memsz, "exec")

\* loaduvm of the segment, which may fail to read the file.
loaduvm(p) ==
  LET j == vjob[p]
      ph == Head(j.segs)
      d == pgdir[<<p, "new">>]
      pages == {v \in VPages : ph.vaddr <= v * PGSIZE /\ v * PGSIZE < ph.vaddr + ph.filesz}
  IN  /\ Works(p, "page") /\ j.op = "exec" /\ j.a * PGSIZE >= j.to
      /\ \/ Fail(p)
         \/ /\ ph.vaddr % PGSIZE = 0
            /\ vmpanic' = IF \E v \in pages : d.pte[v] = 0 THEN "loaduvm" ELSE vmpanic
            /\ vjob' = [vjob EXCEPT ![p].segs = Tail(@), ![p].pc = "segment"]
            /\ UNCHANGED <<freelist, pgdir, vmsz, kstack, guard, vmcalls>>

\* The guard page, the arguments under the top of the stack, and the new image.
Commit(p) ==
  LET j == vjob[p]
      new == pgdir[<<p, "new">>]
      g == j.to \div PGSIZE - 2
      user == new.user \ {g}
  IN  /\ Works(p, "page") /\ j.op = "stack" /\ j.a * PGSIZE >= j.to
      /\ \E n \in ArgBytes :
           IF \E v \in VPages : j.to - n < (v + 1) * PGSIZE /\ v * PGSIZE < j.to /\ v \notin user
           THEN Fail(p)
           ELSE /\ pgdir' = [pgdir EXCEPT ![<<p, "cur">>] = [new EXCEPT !.user = user],
                                          ![<<p, "new">>] = NoDir]
                /\ freelist' = kfree(freelist, freevm(pgdir[<<p, "cur">>]))
                /\ vmsz' = [vmsz EXCEPT ![p] = j.to]
                /\ guard' = [guard EXCEPT ![p] = g]
                /\ vjob' = [vjob EXCEPT ![p] = Idle]
                /\ UNCHANGED <<kstack, vmpanic, vmcalls>>

VmNext ==
  \E p \in VProcs :
    \/ \E c \in VProcs : vfork(p, c)
    \/ \E prog \in Programs : exec(p, prog)
    \/ \E n \in Increments : grow(p, n) \/ shrink(p, n)
    \/ reap(p) \/ setupkvm(p) \/ AllocPage(p) \/ MapPage(p) \/ GrowDone(p) \/ ForkDone(p)
    \/ Segment(p) \/ loaduvm(p) \/ Commit(p)

-----------------------------------------------------------------------------
(* Properties.                                                             *)

\* Every place that holds a page, with the page.
Held ==
  LET Dirs == DOMAIN pgdir
  IN  {<<"page", x, v, pgdir[x].pte[v]>> : x \in Dirs, v \in VPages}
      \cup {<<"table", x, i, pgdir[x].tabs[i]>> : x \in Dirs, i \in 0..NPDE - 1}
      \cup {<<"directory", x, 0, pgdir[x].dir>> : x \in Dirs}
      \cup {<<"kernel table", x, 0, pgdir[x].ktab>> : x \in Dirs}
      \cup {<<"stack", p, 0, kstack[p]>> : p \in VProcs}
      \cup {<<"in hand", p, 0, vjob[p].mem>> : p \in VProcs}

\* Pages are conserved: at every moment, also in the middle of a fork, an exec or an sbrk and
\* after any allocation has failed, each page is on the free list once or has one use.
PagesConserved ==
  LET inUse == {h \in Held : h[4] # 0}
  IN  /\ {h[4] : h \in inUse} = Phys \ Free
      /\ Cardinality(inUse) = Cardinality(Phys \ Free)
      /\ \A g \in Phys : freelist[g] <= 1

\* p->sz is exact: a process between calls has a page for every byte of its size and none
\* above, which is what the next growth, fork or exec takes for granted.
SizeIsMapped ==
  \A p \in VProcs : Alive(p) /\ vjob[p] = Idle =>
    \A v \in VPages : pgdir[<<p, "cur">>].pte[v] # 0 <=> v < Up(vmsz[p])

\* No program header, size or order of calls reaches the panics of mappages, loaduvm and
\* copyuvm.
NoVmPanic == vmpanic = "no"

\* The page under the stack stays out of the program's reach, in its children too, as long
\* as it is part of the process.
GuardKept ==
  \A p \in VProcs : Alive(p) /\ guard[p] >= 0 => guard[p] \notin pgdir[<<p, "cur">>].user

\* An address space is what its process takes it for: its size is mapped, its guard page is out
\* of reach, and allocuvm, loaduvm and copyuvm find what they expect in it.
AddressSpaceExact == SizeIsMapped /\ GuardKept /\ NoVmPanic
=============================================================================

------------------------------ MODULE MCFiles -------------------------------
(***************************************************************************)
(* Parts of the system that share no state, checked in one run: the layers *)
(* of the file system (inodes and directories, the table of open files,    *)
(* the blocks of files), memory, and the allocator and the shell of user  *)
(* programs.  A behaviour is one of these, and the others stay as they are *)
(* at first.                                                               *)
(***************************************************************************)
EXTENDS Inodes, FileTable, Blocks, Vm, Malloc, Shell

VARIABLE layer

Request(o, path, new) == [op |-> o, abs |-> FALSE, path |-> path, new |-> new]

\* Two names in the root directory and one in a directory made, entered and removed.
MCRequests ==
  {Request("creat", <<"a">>, <<>>), Request("open", <<"d">>, <<>>),
   Request("unlink", <<"a">>, <<>>), Request("unlink", <<"d">>, <<>>),
   Request("mkdir", <<"d">>, <<>>), Request("chdir", <<"d">>, <<>>),
   Request("link", <<"a">>, <<"d", "a">>), Request("creat", <<"d", "a">>, <<>>)}

\* The processes of the inode layer are all alike.
MCSymmetry == Permutations(IProcs)

\* Programs of one and of two pages, programs exec refuses, and one too large for memory.
Segm(v, f, m) == [vaddr |-> v, filesz |-> f, memsz |-> m]
MCPrograms ==
  {<<Segm(0, 1, 1)>>, <<Segm(0, 2, 2), Segm(2, 1, 1)>>, <<Segm(0, 2, 1)>>, <<Segm(1, 1, 1)>>,
   <<Segm(2, 1, 1), Segm(0, 1, 1)>>, <<Segm(2, 0, 31)>>}
MCIncrements == {3, -1, -2, -3}

\* Pipelines, a block, redirections, a command in the background, a missing one, and errors.
MCRunLines ==
  {<<"a", "|", "a", "|", "a">>, <<"(", "a", ";", "a", ")", "|", "a">>,
   <<"a", ">", "a", "|", "a", "<", "a", ">", "a">>, <<"a", "|", "a", "&", ";", "a">>,
   <<"a", "|">>, <<"a", " ", "a", " ", "a">>, <<"(", "a", ">", "a", ")", "a">>}

Init ==
  /\ InodesInit /\ FTInit /\ BlocksInit /\ VmInit /\ MallocInit /\ ShellInit
  /\ layer \in {"inodes", "files", "blocks", "memory", "malloc", "shell"}

Next ==
  /\ UNCHANGED layer
  /\ \/ layer = "inodes" /\ InodesNext /\ UNCHANGED <<fvars, bvars, vmvars, mvars, shvars>>
     \/ layer = "files" /\ FTNext /\ UNCHANGED <<ivars, bvars, vmvars, mvars, shvars>>
     \/ layer = "blocks" /\ BlocksNext /\ UNCHANGED <<ivars, fvars, vmvars, mvars, shvars>>
     \/ layer = "memory" /\ VmNext /\ UNCHANGED <<ivars, fvars, bvars, mvars, shvars>>
     \/ layer = "malloc" /\ MallocNext /\ UNCHANGED <<ivars, fvars, bvars, vmvars, shvars>>
     \/ layer = "shell" /\ ShellNext /\ UNCHANGED <<ivars, fvars, bvars, vmvars, mvars>>

Spec == Init /\ [][Next]_<<layer, ivars, fvars, bvars, vmvars, mvars, shvars>>
=============================================================================

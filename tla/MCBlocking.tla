----------------------------- MODULE MCBlocking -----------------------------
(***************************************************************************)
(* Parts of the kernel that share no state, checked in one run: a          *)
(* behaviour is one of a pipe, of the buffer cache with the disk, of the   *)
(* console, or of the keyboard, and the others stay as they are at first.  *)
(***************************************************************************)
EXTENDS Pipe, Bio, Console, Keyboard

VARIABLE part

MCWritten == {<<"a">>, <<"a", "b", "c">>}

Init ==
  /\ PipeInit /\ BioInit /\ ConsInit /\ KbdInit
  /\ part \in {"pipe", "buffers", "console", "keyboard"}

Next ==
  /\ UNCHANGED part
  /\ \/ part = "pipe" /\ PipeNext /\ UNCHANGED <<biovars, consvars, kbdvars>>
     \/ part = "buffers" /\ BioNext /\ UNCHANGED <<pipevars, consvars, kbdvars>>
     \/ part = "console" /\ ConsNext /\ UNCHANGED <<pipevars, biovars, kbdvars>>
     \/ part = "keyboard" /\ KbdNext /\ UNCHANGED <<pipevars, biovars, consvars>>

Spec ==
  /\ Init /\ [][Next]_<<part, pipevars, biovars, consvars, kbdvars>>
  /\ PipeFair /\ BioFair
=============================================================================

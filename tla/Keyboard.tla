------------------------------ MODULE Keyboard ------------------------------
(***************************************************************************)
(* The keyboard (kbd.c, kbd.h): keys go down and up, the controller sends  *)
(* their scan codes one byte at a time, and kbdgetc keeps the modifiers    *)
(* and turns codes into characters.                                        *)
(***************************************************************************)
EXTENDS Integers, Sequences

CONSTANT Keys      \* the keys that are used

VARIABLES
  shift,       \* kbdgetc's flags
  wire,        \* the bytes the controller still has
  held,        \* the keys that are down
  char         \* what kbdgetc returned: <<map, code, upper case>>, or "none"

kbdvars == <<shift, wire, held, char>>

KbdInit == shift = {} /\ wire = <<>> /\ held = {} /\ char = "none"

E0 == 224

\* The codes of a key going down; the right-hand modifiers are escaped, and PrtSc sends an
\* escaped shift first.
Makes == [lctl |-> <<29>>, rctl |-> <<E0, 29>>, lshift |-> <<42>>, rshift |-> <<54>>,
          lalt |-> <<56>>, ralt |-> <<E0, 56>>, caps |-> <<58>>, a |-> <<30>>,
          up |-> <<E0, 72>>, prtsc |-> <<E0, 42, E0, 55>>]

Breaks(k) == [i \in DOMAIN Makes[k] |-> IF Makes[k][i] = E0 THEN E0 ELSE Makes[k][i] + 128]

shiftcode(code) ==
  CASE code \in {29, 157} -> {"CTL"}
    [] code \in {42, 54}  -> {"SHIFT"}
    [] code \in {56, 184} -> {"ALT"}
    [] OTHER              -> {}

togglecode(code) == IF code = 58 THEN {"CAPSLOCK"} ELSE {}

Toggle(s, t) == (s \ t) \union (t \ s)

CodeAsSent(data) == data

\* After an escape the code is one of the upper half of the tables.
Escaped(data) == IF "E0ESC" \in shift THEN data + 128 ELSE data

charcode(s) ==
  IF "CTL" \in s THEN "ctlmap" ELSE IF "SHIFT" \in s THEN "shiftmap" ELSE "normalmap"

kbdgetc ==
  /\ wire # <<>>
  /\ wire' = Tail(wire)
  /\ LET data == Head(wire)
     IN  \/ /\ data = E0
            /\ shift' = shift \union {"E0ESC"}
            /\ char' = "none"
         \/ /\ data # E0 /\ data >= 128
            /\ LET key == IF "E0ESC" \in shift THEN data ELSE data - 128
               IN  shift' = shift \ (shiftcode(key) \union {"E0ESC"})
            /\ char' = "none"
         \/ /\ data < 128
            /\ LET key == Escaped(data)
                   s == Toggle((shift \ {"E0ESC"}) \union shiftcode(key), togglecode(key))
                   upper == charcode(s) = "shiftmap"
               IN  /\ shift' = s
                   /\ char' = <<charcode(s), key, upper # ("CAPSLOCK" \in s)>>
  /\ UNCHANGED held

KeyDown(k) ==
  /\ wire = <<>> /\ k \notin held
  /\ held' = held \union {k}
  /\ wire' = Makes[k]
  /\ UNCHANGED <<shift, char>>

KeyUp(k) ==
  /\ wire = <<>> /\ k \in held
  /\ held' = held \ {k}
  /\ wire' = Breaks(k)
  /\ UNCHANGED <<shift, char>>

KbdNext == kbdgetc \/ \E k \in Keys : KeyDown(k) \/ KeyUp(k)

-----------------------------------------------------------------------------
KeysOf(flag) ==
  CASE flag = "CTL" -> {"lctl", "rctl"}
    [] flag = "SHIFT" -> {"lshift", "rshift"}
    [] flag = "ALT" -> {"lalt", "ralt"}

\* No modifier sticks: once every byte has arrived, a modifier is off when none of its keys
\* is down and on when all of them are, whatever order the keys and the escapes came in.
NoStuckModifier ==
  wire = <<>> =>
    /\ "E0ESC" \notin shift
    /\ \A flag \in {"CTL", "SHIFT", "ALT"} :
         /\ KeysOf(flag) \intersect held = {} => flag \notin shift
         /\ KeysOf(flag) \subseteq held => flag \in shift
=============================================================================

------------------------------ MODULE Console -------------------------------
(***************************************************************************)
(* The console (console.c): the ring of typed characters, edited by the    *)
(* interrupt handler and read by processes that may be killed, and the     *)
(* cursor of the screen.  Between two steps cons.lock may be held.         *)
(***************************************************************************)
EXTENDS Integers, Sequences, SequencesExt

CONSTANTS
  Readers,
  INPUT_BUF,
  IndexMax1,     \* the number of values of a uint
  Typed,         \* the characters that arrive
  ReadCounts,    \* the sizes of reads
  COLS, ROWS,    \* the screen
  MaxTyped, MaxReads

\* The indices wrap, so the ring keeps its order only if INPUT_BUF divides 2^32.
ASSUME ConsoleAssumption ==
  {INPUT_BUF, IndexMax1, COLS, ROWS} \subseteq Nat \ {0} /\ IndexMax1 % INPUT_BUF = 0

VARIABLES
  ring, r, w, e,       \* struct input
  pos,                 \* the cursor
  conslock, in, room, out, dead,   \* the lock; per reader: place, n, bytes read, killed
  typed, reads

consvars == <<ring, r, w, e, pos, conslock, in, room, out, dead, typed, reads>>

ConsInit ==
  /\ ring = [i \in 0..INPUT_BUF - 1 |-> "nul"]
  /\ r = 0 /\ w = 0 /\ e = 0
  /\ pos = 0
  /\ conslock = "none"
  /\ in = [p \in Readers |-> "user"]
  /\ room = [p \in Readers |-> 0]
  /\ out = [p \in Readers |-> <<>>]
  /\ dead = [p \in Readers |-> FALSE]
  /\ typed = 0 /\ reads = 0

Diff(a, b) == (a - b) % IndexMax1

-----------------------------------------------------------------------------
(* The screen.                                                             *)

ScrollsLate(q) == IF q \div COLS > ROWS THEN q - COLS ELSE q

ScrollsUp(q) == IF q \div COLS >= ROWS THEN q - COLS ELSE q

cgaputc(q, c) ==
  ScrollsUp(CASE c = "newline" -> q + COLS - (q % COLS)
              [] c = "BACKSPACE" -> IF q > 0 THEN q - 1 ELSE q
              [] OTHER -> q + 1)

-----------------------------------------------------------------------------
(* Input.                                                                  *)

ConsWakeup == [p \in Readers |-> IF in[p] = "sleep" THEN "woken" ELSE in[p]]

\* Ctl-U: back to the last newline or the last character a reader may have.
Rubout ==
  LET Stop(k) == \/ (w + k) % IndexMax1 = w
                 \/ ring[(w + k - 1) % INPUT_BUF] = "newline"
  IN  (w + Max({k \in 0..Diff(e, w) : Stop(k)})) % IndexMax1

Backspaces(q, k) == IF q >= k THEN q - k ELSE 0

RoomPastEdit == Diff(e, w) < INPUT_BUF

RoomLeft == Diff(e, r) < INPUT_BUF

EndsLineOnly(c, last) == c \in {"newline", "ctl-D"}

\* The line is complete, or the ring is full.
EndsLine(c, last) == c \in {"newline", "ctl-D"} \/ last = (r + INPUT_BUF) % IndexMax1

\* One character of consoleintr's loop.
consoleintr(c) ==
  /\ conslock = "none" /\ typed < MaxTyped
  /\ typed' = typed + 1
  /\ \/ /\ c = "ctl-U"
        /\ e' = Rubout
        /\ pos' = Backspaces(pos, Diff(e, Rubout))
        /\ UNCHANGED <<ring, w, in>>
     \/ /\ c = "ctl-H"
        /\ e' = IF e # w THEN (e - 1) % IndexMax1 ELSE e
        /\ pos' = IF e # w THEN cgaputc(pos, "BACKSPACE") ELSE pos
        /\ UNCHANGED <<ring, w, in>>
     \/ /\ c \notin {"ctl-U", "ctl-H"} /\ RoomLeft
        /\ ring' = [ring EXCEPT ![e % INPUT_BUF] = c]
        /\ e' = (e + 1) % IndexMax1
        /\ pos' = cgaputc(pos, c)
        /\ IF EndsLine(c, e') THEN w' = e' /\ in' = ConsWakeup ELSE UNCHANGED <<w, in>>
     \/ /\ c \notin {"ctl-U", "ctl-H"} /\ ~RoomLeft
        /\ UNCHANGED <<ring, w, e, pos, in>>
  /\ UNCHANGED <<r, conslock, room, out, dead, reads>>

-----------------------------------------------------------------------------
(* Reads and writes.                                                       *)

consoleread(p, n) ==
  /\ in[p] = "user" /\ ~dead[p] /\ reads < MaxReads
  /\ reads' = reads + 1
  /\ conslock = "none" /\ conslock' = p
  /\ in' = [in EXCEPT ![p] = "read"]
  /\ room' = [room EXCEPT ![p] = n]
  /\ out' = [out EXCEPT ![p] = <<>>]
  /\ UNCHANGED <<ring, r, w, e, pos, dead, typed>>

Returns(p) == in' = [in EXCEPT ![p] = "user"] /\ conslock' = "none"

ReadWaits(p) ==
  /\ in[p] = "read" /\ room[p] > 0 /\ r = w
  /\ IF dead[p]
     THEN Returns(p)
     ELSE in' = [in EXCEPT ![p] = "must sleep"] /\ UNCHANGED conslock
  /\ UNCHANGED <<ring, r, w, e, pos, room, out, dead, typed, reads>>

EatsEof(p) == (r + 1) % IndexMax1

\* ^D after some bytes stays for the next read, which then returns 0.
KeepsEof(p) == IF out[p] = <<>> THEN (r + 1) % IndexMax1 ELSE r

ReadChar(p) ==
  /\ in[p] = "read" /\ room[p] > 0 /\ r # w
  /\ LET c == ring[r % INPUT_BUF]
     IN  IF c = "ctl-D"
         THEN r' = KeepsEof(p) /\ Returns(p) /\ UNCHANGED <<room, out>>
         ELSE /\ r' = (r + 1) % IndexMax1
              /\ out' = [out EXCEPT ![p] = Append(@, c)]
              /\ room' = [room EXCEPT ![p] = @ - 1]
              /\ IF c = "newline" \/ room[p] = 1 THEN Returns(p) ELSE UNCHANGED <<in, conslock>>
  /\ UNCHANGED <<ring, w, e, pos, dead, typed, reads>>

ConsSleep(p) ==
  /\ in[p] = "must sleep"
  /\ in' = [in EXCEPT ![p] = "sleep"]
  /\ conslock' = "none"
  /\ UNCHANGED <<ring, r, w, e, pos, room, out, dead, typed, reads>>

ConsResume(p) ==
  /\ in[p] = "woken" /\ conslock = "none"
  /\ conslock' = p
  /\ in' = [in EXCEPT ![p] = "read"]
  /\ UNCHANGED <<ring, r, w, e, pos, room, out, dead, typed, reads>>

ConsKill(p) ==
  /\ ~dead[p]
  /\ dead' = [dead EXCEPT ![p] = TRUE]
  /\ in' = [in EXCEPT ![p] = IF @ = "sleep" THEN "woken" ELSE @]
  /\ UNCHANGED <<ring, r, w, e, pos, conslock, room, out, typed, reads>>

\* One character of consolewrite or cprintf.
consputc(c) ==
  /\ conslock = "none"
  /\ pos' = cgaputc(pos, c)
  /\ UNCHANGED <<ring, r, w, e, conslock, in, room, out, dead, typed, reads>>

ConsStep(p) == ReadWaits(p) \/ ReadChar(p) \/ ConsSleep(p) \/ ConsResume(p)

ConsNext ==
  \/ \E c \in Typed : consoleintr(c)
  \/ \E c \in {"x", "newline"} : consputc(c)
  \/ \E p \in Readers :
       \/ \E n \in ReadCounts : consoleread(p, n)
       \/ ConsStep(p)
       \/ ConsKill(p)

-----------------------------------------------------------------------------
(* Properties.                                                             *)

Pending == [k \in 1..Diff(w, r) |-> ring[(r + k - 1) % INPUT_BUF]]
Editing == [k \in 1..Diff(e, w) |-> ring[(w + k - 1) % INPUT_BUF]]

\* Lines reach the readers as they were edited: typing and erasing change only the line
\* being edited, a finished line is appended to what readers may have, readers take from
\* its front, and a ^D is taken only by a read that then returns nothing.
LinesKept ==
  [][\/ /\ Pending' = Pending
        /\ \/ IsPrefix(Editing', Editing)
           \/ IsPrefix(Editing, Editing') /\ Len(Editing') = Len(Editing) + 1
     \/ /\ Editing' = <<>>
        /\ IsPrefix(Pending \o Editing, Pending') /\ Len(Pending') = Len(Pending \o Editing) + 1
     \/ /\ Editing' = Editing /\ Pending # <<>> /\ Pending' = Tail(Pending)
        /\ \E p \in Readers :
             \/ out'[p] = Append(out[p], Head(Pending)) /\ Head(Pending) # "ctl-D"
             \/ out[p] = <<>> /\ in'[p] = "user" /\ in[p] # "user"
                  /\ Head(Pending) = "ctl-D"]_consvars

\* A reader sleeps only while there is nothing to read.
ConsNoLostWakeup ==
  conslock = "none" => \A p \in Readers : in[p] = "sleep" => r = w

\* The ring never wedges: when it is full, all of it can be read.
NeverWedged == Diff(e, r) <= INPUT_BUF /\ (Diff(e, r) = INPUT_BUF => w = e)

\* The cursor stays in the rows that scroll, so no store is outside the screen.
CursorOnScreen == pos \in 0..ROWS * COLS - 1

\* What is typed can be read: consoleread sleeps only while there is nothing to read, and a full
\* ring is one that it can empty.
InputReaches == ConsNoLostWakeup /\ NeverWedged
=============================================================================

------------------------------- MODULE Shell --------------------------------
(***************************************************************************)
(* The shell (sh.c): its parser, on lines of characters, and runcmd, on    *)
(* processes that fork, redirect their descriptors, and wait.  A parsed    *)
(* command names words by their position in the line, as the pointers of   *)
(* the code do.  A program that was executed reads its input to the end    *)
(* when that is a pipe, and may stop at any time otherwise.                *)
(***************************************************************************)
EXTENDS Integers, Sequences, FiniteSets, SequencesExt

CONSTANTS
  SProcs,        \* process slots; 1 is the shell
  Chars,         \* the characters typed
  MaxLine,       \* the longest line typed
  RunLines,      \* the lines that are run
  MAXARGS

ASSUME ShellAssumption == MAXARGS \in Nat \ {0} /\ 1 \in SProcs

VARIABLES
  line,          \* the input
  shmode,        \* typing or running
  sproc          \* the processes

shvars == <<line, shmode, sproc>>

Symbols == {"<", "|", ">", "&", ";", "(", ")"}

-----------------------------------------------------------------------------
(* Tokens.                                                                 *)

\* The first position from i on whose character is in a set, or the end.
FirstIn(s, i, set) == Min({k \in i..Len(s) : s[k] \in set} \cup {Len(s) + 1})

Skip(s, i) == FirstIn(s, i, Range(s) \ {" "})

Char(s, i) == IF i <= Len(s) THEN s[i] ELSE "end"

\* The kind of the token at q, where no blanks are, and the position after it.
Kind(s, q) ==
  CASE Char(s, q) = ">" /\ Char(s, q + 1) = ">" -> "+"
    [] Char(s, q) \in Symbols \cup {"end"} /\ ~(Char(s, q) = ">" /\ Char(s, q + 1) = ">") -> Char(s, q)
    [] OTHER -> "a"

After(s, q, kind) ==
  CASE kind = "end" -> q
    [] kind = "+" -> q + 2
    [] kind \in Symbols -> q + 1
    [] kind = "a" -> FirstIn(s, q, Symbols \cup {" "})

TokenAt(s, q, kind) == [tok |-> kind, q |-> q, next |-> Skip(s, After(s, q, kind))]

gettoken(s, i) == TokenAt(s, Skip(s, i), Kind(s, Skip(s, i)))

peek(s, i, toks) == Char(s, Skip(s, i)) \in toks

-----------------------------------------------------------------------------
(* The parser.  A command is PANIC when there is a syntax error.  P[nt, i] *)
(* is the function for nt applied at position i: where it ends, and the    *)
(* command.                                                                *)

Parsed(i, c) == [i |-> i, c |-> c]
PANIC == [type |-> "PANIC"]

execcmd(argv) == [type |-> "EXEC", argv |-> argv]
redircmd(c, f, fd) == [type |-> "REDIR", cmd |-> c, file |-> f, fd |-> fd]
pipecmd(l, r, at) == IF PANIC \in {l, r} THEN PANIC
                     ELSE [type |-> "PIPE", left |-> l, right |-> r, at |-> at]
listcmd(l, r) == IF PANIC \in {l, r} THEN PANIC ELSE [type |-> "LIST", left |-> l, right |-> r]
backcmd(c) == [type |-> "BACK", cmd |-> c]

\* The redirections from a position on.
parseredirs(s) ==
  LET f[i \in 1..Len(s) + 1] ==
        IF ~peek(s, i, {"<", ">"}) THEN [i |-> i, rs |-> <<>>, ok |-> TRUE]
        ELSE LET t == gettoken(s, i)
                 w == gettoken(s, t.next)
                 rest == f[w.next]
                 redir == [file |-> w.q, fd |-> IF t.tok = "<" THEN 0 ELSE 1]
             IN  IF w.tok # "a" THEN [i |-> i, rs |-> <<>>, ok |-> FALSE]
                 ELSE [rest EXCEPT !.rs = <<redir>> \o @]
  IN  f

Redirect(c, rs) == FoldLeft(LAMBDA d, r : redircmd(d, r.file, r.fd), c, rs)

\* The words from a position on, with the redirections among them.
Words(s) ==
  LET f[i \in 1..Len(s) + 1] ==
        LET t == gettoken(s, i)
            more == parseredirs(s)[t.next]
            rest == f[more.i]
        IN  IF peek(s, i, {"|", ")", "&", ";", "end"})
            THEN [i |-> i, argv |-> <<>>, rs |-> <<>>, ok |-> TRUE]
            ELSE IF t.tok # "a" \/ ~more.ok THEN [i |-> i, argv |-> <<>>, rs |-> <<>>, ok |-> FALSE]
            ELSE [rest EXCEPT !.argv = <<t.q>> \o @, !.rs = more.rs \o @]
  IN  f

WordsFrom(r, w) ==
  IF ~r.ok \/ ~w.ok \/ Len(w.argv) >= MAXARGS THEN Parsed(r.i, PANIC)
  ELSE Parsed(w.i, Redirect(execcmd(w.argv), r.rs \o w.rs))

Exec(s, r) == WordsFrom(r, Words(s)[r.i])

Block(s, line1, r) ==
  IF line1.c = PANIC \/ ~peek(s, line1.i, {")"}) \/ ~r.ok THEN Parsed(r.i, PANIC)
  ELSE Parsed(r.i, Redirect(line1.c, r.rs))

parseblock(s, line1) == Block(s, line1, parseredirs(s)[gettoken(s, line1.i).next])

parseexec(s, i, P) ==
  IF peek(s, i, {"("}) THEN parseblock(s, P["line", gettoken(s, i).next])
  ELSE Exec(s, parseredirs(s)[i])

PipeRest(s, e, P) ==
  IF e.c = PANIC \/ ~peek(s, e.i, {"|"}) THEN e
  ELSE LET rest == P["pipe", gettoken(s, e.i).next]
       IN  Parsed(rest.i, pipecmd(e.c, rest.c, Skip(s, e.i)))

parsepipe(s, i, P) == PipeRest(s, P["exec", i], P)

OneBack(s, i) == IF peek(s, i, {"&"}) THEN <<gettoken(s, i).next>> ELSE <<>>

\* The positions after the ampersands from a position on.
Backs(s, i) ==
  LET f[j \in 1..Len(s) + 1] ==
        IF peek(s, j, {"&"}) THEN <<gettoken(s, j).next>> \o f[gettoken(s, j).next] ELSE <<>>
  IN  f[i]

Background(p, backs) ==
  IF p.c = PANIC \/ backs = <<>> THEN p
  ELSE Parsed(Last(backs), FoldLeft(LAMBDA c, i : backcmd(c), p.c, backs))

LineRest(s, b, P) ==
  IF b.c = PANIC \/ ~peek(s, b.i, {";"}) THEN b
  ELSE LET rest == P["line", gettoken(s, b.i).next] IN Parsed(rest.i, listcmd(b.c, rest.c))

ParsedPipe(s, p, P) == LineRest(s, Background(p, Backs(s, p.i)), P)

parseline(s, i, P) == ParsedPipe(s, P["pipe", i], P)

parser(s) ==
  LET f[nt \in {"line", "pipe", "exec"}, i \in 1..Len(s) + 1] ==
        CASE nt = "line" -> parseline(s, i, f)
          [] nt = "pipe" -> parsepipe(s, i, f)
          [] nt = "exec" -> parseexec(s, i, f)
  IN  f

\* Anything left over is a syntax error.
AllOf(s, p) == IF Skip(s, p.i) <= Len(s) THEN PANIC ELSE p.c

parsecmd(s) == AllOf(s, parser(s)["line", 1])

\* nulterminate visits every word of a command.
RECURSIVE nulterminate(_)
nulterminate(c) ==
  CASE c.type = "EXEC" -> c.argv
    [] c.type = "REDIR" -> Append(nulterminate(c.cmd), c.file)
    [] c.type \in {"PIPE", "LIST"} -> nulterminate(c.left) \o nulterminate(c.right)
    [] c.type = "BACK" -> nulterminate(c.cmd)

-----------------------------------------------------------------------------
(* Processes.  A descriptor that is open is the console, a file or an end  *)
(* of a pipe; a pipe is named by its place in the line.                    *)

Tty == <<"console", 0>>
TtyFds == [d \in 0..2 |-> Tty]
NoProc == [pc |-> "none", cmd |-> PANIC, fds |-> <<>>, parent |-> 0, kids |-> 0]

ShellInit ==
  /\ line = <<>>
  /\ shmode = "typing"
  /\ sproc = [k \in SProcs |-> IF k = 1 THEN [NoProc EXCEPT !.pc = "getcmd", !.fds = TtyFds]
                                       ELSE NoProc]

type(c) ==
  /\ shmode = "typing" /\ Len(line) < MaxLine
  /\ line' = Append(line, c)
  /\ UNCHANGED <<shmode, sproc>>

Slot == Min({k \in SProcs : sproc[k].pc = "none"})
Lowest(fds) == Min((0..Cardinality(DOMAIN fds)) \ DOMAIN fds)
Opened(fds, obj) == Lowest(fds) :> obj @@ fds
Shut(fds, ds) == Restrict(fds, DOMAIN fds \ ds)

\* An exit closes the descriptors; the children are left to init, and so is the process
\* when its parent is gone.
Exits(k) ==
  sproc' = [j \in SProcs |->
    IF j = k THEN IF sproc[k].parent = 0 THEN NoProc
                  ELSE [NoProc EXCEPT !.pc = "zombie", !.parent = sproc[k].parent]
    ELSE IF sproc[j].parent = k
         THEN IF sproc[j].pc = "zombie" THEN NoProc ELSE [sproc[j] EXCEPT !.parent = 0]
    ELSE sproc[j]]

\* k goes on as r, and its child begins at a label with a command and the descriptors fds;
\* or the fork fails (or the pipe before it), and k panics.
fork1(k, r, label, c, fds) ==
  \/ sproc' = [sproc EXCEPT
       ![k] = [r EXCEPT !.kids = @ + 1],
       ![Slot] = [NoProc EXCEPT !.pc = label, !.cmd = c, !.fds = fds, !.parent = k]]
  \/ Exits(k)

Going(k, label) == shmode = "running" /\ sproc[k].pc = label

\* main reads a line and forks the process that parses and runs it.
getcmd(s) ==
  /\ shmode = "typing" /\ line = <<>>
  /\ line' = s /\ shmode' = "running"
  /\ fork1(1, [sproc[1] EXCEPT !.pc = "wait"], "run", parsecmd(s), sproc[1].fds)

Is(k, t) == Going(k, "run") /\ sproc[k].cmd.type = t

\* A process whose command is a syntax error, or empty, exits.
Nothing(c) == c = PANIC \/ (c.type = "EXEC" /\ c.argv = <<>>)

runExec(k) ==
  /\ Is(k, "EXEC") \/ Is(k, "PANIC")
  /\ IF Nothing(sproc[k].cmd) THEN Exits(k) ELSE sproc' = [sproc EXCEPT ![k].pc = "program"]
  /\ UNCHANGED <<line, shmode>>

\* close, then open, which may fail.
runRedir(k) ==
  LET c == sproc[k].cmd
      fds == Shut(sproc[k].fds, {c.fd})
  IN  /\ Is(k, "REDIR")
      /\ \/ Exits(k)
         \/ sproc' = [sproc EXCEPT ![k].cmd = c.cmd, ![k].fds = Opened(fds, <<"file", c.file>>)]
      /\ UNCHANGED <<line, shmode>>

runList(k) ==
  /\ Is(k, "LIST")
  /\ fork1(k, [sproc[k] EXCEPT !.pc = "wait"], "run", sproc[k].cmd.left, sproc[k].fds)
  /\ UNCHANGED <<line, shmode>>

\* pipe, and the fork of the left side.
runPipe(k) ==
  LET c == sproc[k].cmd
      fds == Opened(Opened(sproc[k].fds, <<"r", c.at>>), <<"w", c.at>>)
  IN  /\ Is(k, "PIPE")
      /\ fork1(k, [sproc[k] EXCEPT !.pc = "right side", !.fds = fds], "left", c, fds)
      /\ UNCHANGED <<line, shmode>>

End(k, e) == CHOOSE d \in DOMAIN sproc[k].fds : sproc[k].fds[d] = <<e, sproc[k].cmd.at>>

KeepsOtherEnd(k, e) == {End(k, e)}

ChildCloses(k, e) == {End(k, "r"), End(k, "w")}

\* In a child: close the descriptor, dup the end in its place, close both ends.
PipeChild(k) ==
  /\ \E side \in {[pc |-> "left", fd |-> 1, e |-> "w"], [pc |-> "right", fd |-> 0, e |-> "r"]} :
       /\ Going(k, side.pc)
       /\ LET c == sproc[k].cmd
              dup == Opened(Shut(sproc[k].fds, {side.fd}), <<side.e, c.at>>)
          IN  sproc' = [sproc EXCEPT ![k].pc = "run", ![k].fds = Shut(dup, ChildCloses(k, side.e)),
                                     ![k].cmd = IF side.pc = "left" THEN c.left ELSE c.right]
  /\ UNCHANGED <<line, shmode>>

RightSide(k) ==
  /\ Going(k, "right side")
  /\ fork1(k, [sproc[k] EXCEPT !.pc = "close ends"], "right", sproc[k].cmd, sproc[k].fds)
  /\ UNCHANGED <<line, shmode>>

ParentKeepsEnd(k) == {End(k, "r")}

ParentCloses(k) == {End(k, "r"), End(k, "w")}

CloseEnds(k) ==
  /\ Going(k, "close ends")
  /\ sproc' = [sproc EXCEPT ![k].pc = "wait", ![k].fds = Shut(@, ParentCloses(k))]
  /\ UNCHANGED <<line, shmode>>

runBack(k) ==
  /\ Is(k, "BACK")
  /\ fork1(k, [sproc[k] EXCEPT !.pc = "exit"], "run", sproc[k].cmd.cmd, sproc[k].fds)
  /\ UNCHANGED <<line, shmode>>

exitShell(k) ==
  /\ Going(k, "exit")
  /\ Exits(k)
  /\ UNCHANGED <<line, shmode>>

Zombies(k) == {j \in SProcs : sproc[j].pc = "zombie" /\ sproc[j].parent = k}

\* wait; then the right side of a list, a second wait, the end, or the next line.
wait(k) ==
  /\ Going(k, "wait") /\ Zombies(k) # {}
  /\ LET r == [sproc[k] EXCEPT !.kids = @ - 1]
         next == CASE k = 1 -> [r EXCEPT !.pc = "getcmd"]
                   [] k # 1 /\ r.cmd.type = "LIST" -> [r EXCEPT !.pc = "run", !.cmd = r.cmd.right]
                   [] k # 1 /\ r.cmd.type = "PIPE" /\ r.kids > 0 -> r
                   [] OTHER -> [r EXCEPT !.pc = "exit"]
     IN  sproc' = [sproc EXCEPT ![k] = next, ![Min(Zombies(k))] = NoProc]
  /\ UNCHANGED <<line, shmode>>

\* A program ends; one that reads a pipe ends when nobody can write to it any more.
AtEof(k) ==
  \A n \in 1..Len(line) :
    sproc[k].fds[0] = <<"r", n>> => \A j \in SProcs : <<"w", n>> \notin Range(sproc[j].fds)

ProgramEnds(k) ==
  /\ Going(k, "program") /\ AtEof(k)
  /\ Exits(k)
  /\ UNCHANGED <<line, shmode>>

ShellNext ==
  \/ \E c \in Chars : type(c)
  \/ \E s \in RunLines : getcmd(s)
  \/ \E k \in SProcs :
       \/ runExec(k) \/ runRedir(k) \/ runList(k) \/ runPipe(k) \/ PipeChild(k) \/ RightSide(k)
       \/ CloseEnds(k) \/ runBack(k) \/ exitShell(k) \/ wait(k) \/ ProgramEnds(k)

-----------------------------------------------------------------------------
(* Properties.                                                             *)

\* The tokens of a line, and the language of the shell on them.
RECURSIVE TokensFrom(_, _)
TokensFrom(s, i) ==
  LET t == gettoken(s, i) IN IF t.tok = "end" THEN <<>> ELSE <<t>> \o TokensFrom(s, t.next)

Kinds(s) == [n \in DOMAIN TokensFrom(s, 1) |-> TokensFrom(s, 1)[n].tok]
To(t, k) == SubSeq(t, 1, k)
From(t, k) == SubSeq(t, k, Len(t))

\* Words and redirections, the words fewer than MAXARGS.
RECURSIVE Items(_, _)
Items(t, n) ==
  \/ t = <<>>
  \/ t # <<>> /\ t[1] = "a" /\ n + 1 < MAXARGS /\ Items(From(t, 2), n + 1)
  \/ Len(t) > 1 /\ t[1] \in {"<", ">", "+"} /\ t[2] = "a" /\ Items(From(t, 3), n)

RECURSIVE IsLine(_)
RECURSIVE IsPipe(_)
IsExec(t) ==
  \/ Items(t, 0)
  \/ /\ t # <<>> /\ t[1] = "("
     /\ \E k \in 2..Len(t) : /\ t[k] = ")" /\ IsLine(SubSeq(t, 2, k - 1))
                             /\ ToSet(From(t, k + 1)) \subseteq {"<", ">", "+", "a"}
                             /\ Items(From(t, k + 1), MAXARGS)
IsPipe(t) ==
  \/ IsExec(t)
  \/ \E k \in DOMAIN t : t[k] = "|" /\ IsExec(To(t, k - 1)) /\ IsPipe(From(t, k + 1))
IsLine(t) ==
  \E k \in 0..Len(t) : \E m \in k..Len(t) :
    /\ IsPipe(To(t, k)) /\ ToSet(SubSeq(t, k + 1, m)) \subseteq {"&"}
    /\ m = Len(t) \/ (t[m + 1] = ";" /\ IsLine(From(t, m + 2)))

\* The parser accepts exactly the lines of the grammar, and every word of the line is in the
\* command once: no token is dropped, read twice or left over.
ParserExact ==
  LET c == parsecmd(line)
      words == SelectSeq(TokensFrom(line, 1), LAMBDA t : t.tok = "a")
  IN  /\ (c # PANIC) = IsLine(Kinds(line))
      /\ c # PANIC => /\ ToSet(nulterminate(c)) = {w.q : w \in ToSet(words)}
                      /\ Len(nulterminate(c)) = Len(words)

\* What the programs of a command read and write: first argument, input, output.
RECURSIVE Wiring(_, _, _)
Wiring(c, in, out) ==
  CASE c.type = "EXEC" -> IF c.argv = <<>> THEN {} ELSE {<<c.argv[1], in, out>>}
    [] c.type = "REDIR" -> IF c.fd = 0 THEN Wiring(c.cmd, <<"file", c.file>>, out)
                           ELSE Wiring(c.cmd, in, <<"file", c.file>>)
    [] c.type = "PIPE" -> Wiring(c.left, in, <<"w", c.at>>) \cup Wiring(c.right, <<"r", c.at>>, out)
    [] c.type = "LIST" -> Wiring(c.left, in, out) \cup Wiring(c.right, in, out)
    [] c.type = "BACK" -> Wiring(c.cmd, in, out)

\* Every program starts with the input and output that its place in the command gives it, the
\* console as its third descriptor, and nothing else open, however forks, pipes and redirections
\* moved descriptors around; a shell that waits holds no more than that either.
WiredAsWritten ==
  /\ \A k \in SProcs : sproc[k].pc = "program" =>
       /\ <<sproc[k].cmd.argv[1], sproc[k].fds[0], sproc[k].fds[1]>>
            \in Wiring(parsecmd(line), Tty, Tty)
       /\ sproc[k].fds[2] = Tty
  /\ \A k \in SProcs : sproc[k].pc \in {"program", "wait"} =>
       DOMAIN sproc[k].fds = 0..2

Blocked(k) ==
  CASE sproc[k].pc = "program" -> ~AtEof(k)
    [] sproc[k].pc = "wait" -> Zombies(k) = {}
    [] sproc[k].pc \in {"none", "zombie", "getcmd"} -> TRUE
    [] OTHER -> FALSE

\* The shell gets its prompt back: as long as it waits, some process of the command can still
\* run, so that no reader waits for the end of a pipe that a waiting process keeps open.
NoStuckCommand ==
  shmode = "running" /\ (\A k \in SProcs : Blocked(k)) =>
    \A k \in SProcs : sproc[k].pc \in {"none", "getcmd"}
=============================================================================

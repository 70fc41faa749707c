------------------------------- MODULE Shell --------------------------------
(***************************************************************************)
(* The shell (sh.c): the parser, from tokens to a tree of commands, and    *)
(* runcmd, which walks the tree in a family of processes.  A process is    *)
(* known by the place in the tree it was forked for.  Descriptors are      *)
(* given out lowest first, as fdalloc does; fds maps the open ones to      *)
(* what they are open on.                                                  *)
(***************************************************************************)
EXTENDS Integers, Sequences, FiniteSets, SequencesExt, Functions

CONSTANTS
  Words,   \* the words of a command line
  MAXARGS  \* places in argv, the terminating 0 included

EXEC(argv) == [type |-> "EXEC", argv |-> argv]
REDIR(cmd, file, fd) == [type |-> "REDIR", cmd |-> cmd, file |-> file, fd |-> fd]
PIPE(left, right) == [type |-> "PIPE", left |-> left, right |-> right]
LIST(left, right) == [type |-> "LIST", left |-> left, right |-> right]
BACK(cmd) == [type |-> "BACK", cmd |-> cmd]

-----------------------------------------------------------------------------
(* The parser.  A function of the parser takes the tokens that are left    *)
(* and returns what it built and the tokens after it.                      *)

\* A panic ends the process; here no function consumes this token, and
\* parsecmd finds it left over.
Panic == <<"panic">>

peek(s, toks) == s # <<>> /\ Head(s) \in toks
Drop(s, n) == SubSeq(s, n + 1, Len(s))

\* The files and descriptors of the redirections at the head of s.
RECURSIVE parseredirs(_, _)
parseredirs(redirs, s) ==
  IF ~peek(s, {"<", ">", ">>"}) THEN [redirs |-> redirs, s |-> s]
  ELSE IF ~peek(Tail(s), Words) THEN [redirs |-> redirs, s |-> Panic]
  ELSE parseredirs(Append(redirs, [file |-> s[2], fd |-> IF s[1] = "<" THEN 0 ELSE 1]), Drop(s, 2))

\* Each redirection is put around those before it.
Redirect(cmd, redirs) == FoldLeft(LAMBDA c, r : REDIR(c, r.file, r.fd), cmd, redirs)

RECURSIVE parseargs(_, _, _)
parseargs(argv, redirs, s) ==
  IF s = <<>> \/ peek(s, {"|", ")", "&", ";"})
  THEN [cmd |-> Redirect(EXEC(argv), redirs), s |-> s]
  ELSE IF Head(s) \notin Words \/ Len(argv) + 1 >= MAXARGS
  THEN [cmd |-> Redirect(EXEC(argv), redirs), s |-> Panic]
  ELSE LET r == parseredirs(redirs, Tail(s))
       IN parseargs(Append(argv, Head(s)), r.redirs, r.s)

RECURSIVE parseline(_), parseblock(_), parsepipe(_), parseback(_)

parseexec(s) ==
  IF peek(s, {"("}) THEN parseblock(s)
  ELSE LET r == parseredirs(<<>>, s) IN parseargs(<<>>, r.redirs, r.s)

parseblock(s) ==
  LET line == parseline(Tail(s))
      r == parseredirs(<<>>, Tail(line.s))
  IN IF ~peek(line.s, {")"}) THEN [line EXCEPT !.s = Panic]
     ELSE [cmd |-> Redirect(line.cmd, r.redirs), s |-> r.s]

parsepipe(s) ==
  LET left == parseexec(s)
      right == parsepipe(Tail(left.s))
  IN IF peek(left.s, {"|"}) THEN [cmd |-> PIPE(left.cmd, right.cmd), s |-> right.s] ELSE left

\* The loop of parseline over "&".
parseback(line) ==
  IF peek(line.s, {"&"}) THEN parseback([cmd |-> BACK(line.cmd), s |-> Tail(line.s)]) ELSE line

parseline(s) ==
  LET left == parseback(parsepipe(s))
      right == parseline(Tail(left.s))
  IN IF peek(left.s, {";"}) THEN [cmd |-> LIST(left.cmd, right.cmd), s |-> right.s] ELSE left

parsecmd(s) == LET line == parseline(s) IN IF line.s = <<>> THEN line.cmd ELSE Panic

-----------------------------------------------------------------------------
(* runcmd.                                                                 *)

VARIABLES
  line,  \* the tree of the line that main read
  ps,    \* the processes that run it, zombies included
  torn   \* the pipes whose right side could not be forked

shellVars == <<line, ps, torn>>

\* Places that are not in the tree: the main program of the shell, and init.
Main == <<2>>
initproc == <<3>>

Console == [i \in 0 .. 2 |-> [on |-> "console", of |-> <<>>]]
File(f) == [on |-> "file", of |-> f]
PipeEnd(place, i) == [on |-> IF i = 0 THEN "reads" ELSE "writes", of |-> place]

Close(fds, fd) == Restrict(fds, DOMAIN fds \ {fd})
Lowest(fds) == CHOOSE i \in 0 .. Cardinality(DOMAIN fds) :
                 i \notin DOMAIN fds /\ \A j \in 0 .. i - 1 : j \in DOMAIN fds
Fdalloc(fds, on) == (Lowest(fds) :> on) @@ fds

\* main: the line is parsed and run in a child, which main waits for.
Starts(t) ==
  /\ line = t /\ torn = {}
  /\ ps = (<<>> :> [cmd |-> t, at |-> <<>>, pc |-> "run", fds |-> Console, parent |-> Main])

\* fork1: the child runs cmd, which is at place.
Child(p, cmd, place, fds) ==
  place :> [cmd |-> cmd, at |-> place, pc |-> "run", fds |-> fds, parent |-> p]

\* exit: a zombie until its parent waits.  Its own children, and its entry
\* if it is an orphan, are left to init.
Exited(procs, p) ==
  LET Left(q) == procs[q].parent = p /\ procs[q].pc = "zombie"
  IN [q \in {r \in DOMAIN procs : ~Left(r) /\ ~(r = p /\ procs[p].parent = initproc)} |->
        IF q = p THEN [procs[p] EXCEPT !.pc = "zombie", !.fds = Restrict(@, {})]
        ELSE IF procs[q].parent = p THEN [procs[q] EXCEPT !.parent = initproc] ELSE procs[q]]

Is(p, type) == ps[p].pc = "run" /\ ps[p].cmd.type = type

\* exec of the program, which may fail.
Exec(p) ==
  /\ Is(p, "EXEC")
  /\ \/ ps[p].cmd.argv # <<>> /\ ps' = [ps EXCEPT ![p].pc = "prog"]
     \/ ps' = Exited(ps, p)

\* The descriptor is closed, so that open gets its number.  open may fail.
Redir(p) ==
  /\ Is(p, "REDIR")
  /\ LET cmd == ps[p].cmd
         fds == Fdalloc(Close(ps[p].fds, cmd.fd), File(cmd.file))
     IN \/ ps' = [ps EXCEPT ![p].fds = fds, ![p].cmd = cmd.cmd, ![p].at = Append(@, 0)]
        \/ ps' = Exited(ps, p)

List(p) ==
  /\ Is(p, "LIST")
  /\ ps' = [ps EXCEPT ![p].pc = "wait"] @@ Child(p, ps[p].cmd.left, Append(ps[p].at, 0), ps[p].fds)

\* The two ends take the lowest free descriptors; end i of the pipe becomes
\* descriptor i of the child, and the child keeps no other.
PipeFds(p) == Fdalloc(Fdalloc(ps[p].fds, PipeEnd(ps[p].at, 0)), PipeEnd(ps[p].at, 1))
PipeEnds(fds, at, i) == {fd \in DOMAIN fds : fd > 2 /\ fds[fd] = PipeEnd(at, i)}

Plug(fds, at, i) ==
  LET dup == Fdalloc(Close(fds, i), PipeEnd(at, i))
  IN Restrict(dup, DOMAIN dup \ (PipeEnds(fds, at, 0) \cup PipeEnds(fds, at, 1)))

PipeLeft(p) ==
  /\ Is(p, "PIPE")
  /\ LET fds == PipeFds(p)
     IN ps' = [ps EXCEPT ![p].pc = "right", ![p].fds = fds]
              @@ Child(p, ps[p].cmd.left, Append(ps[p].at, 0), Plug(fds, ps[p].at, 1))

\* mutant: the parent keeps the ends of the pipe while it waits
PipeRightKeeps(p) ==
  /\ ps[p].pc = "right"
  /\ ps' = [ps EXCEPT ![p].pc = "wait"]
           @@ Child(p, ps[p].cmd.right, Append(ps[p].at, 1), Plug(ps[p].fds, ps[p].at, 0))

PipeRight(p) ==
  /\ ps[p].pc = "right"
  /\ LET fds == ps[p].fds
         keep == DOMAIN fds \ (PipeEnds(fds, ps[p].at, 0) \cup PipeEnds(fds, ps[p].at, 1))
     IN ps' = [ps EXCEPT ![p].pc = "wait", ![p].fds = Restrict(fds, keep)]
              @@ Child(p, ps[p].cmd.right, Append(ps[p].at, 1), Plug(fds, ps[p].at, 0))

\* The child is not waited for.
Back(p) ==
  /\ Is(p, "BACK")
  /\ ps' = Exited(ps @@ Child(p, ps[p].cmd.cmd, Append(ps[p].at, 0), ps[p].fds), p)

Kids(p) == {q \in DOMAIN ps : ps[q].parent = p}
Reaped(z) == Restrict(ps, DOMAIN ps \ {z})

\* mutant: a pipe is waited for once
WaitOnce(p) ==
  /\ ps[p].pc = "wait"
  /\ \E z \in Kids(p) :
       /\ ps[z].pc = "zombie"
       /\ ps' = IF ps[p].cmd.type = "LIST"
                THEN [Reaped(z) EXCEPT ![p].pc = "run", ![p].cmd = @.right, ![p].at = Append(@, 1)]
                ELSE Exited(Reaped(z), p)

\* wait takes any child that has ended.  A list goes on with its right
\* command, a pipe waits for two.
Wait(p) ==
  /\ ps[p].pc = "wait"
  /\ \E z \in Kids(p) :
       /\ ps[z].pc = "zombie"
       /\ ps' = IF ps[p].cmd.type = "LIST"
                THEN [Reaped(z) EXCEPT ![p].pc = "run", ![p].cmd = @.right, ![p].at = Append(@, 1)]
                ELSE IF Kids(p) = {z} THEN Exited(Reaped(z), p) ELSE Reaped(z)

\* A program that reads a pipe ends when all who can write to it have.
ProgEnds(p) ==
  /\ ps[p].pc = "prog"
  /\ ps[p].fds[0].on = "reads" =>
       ~ \E q \in DOMAIN ps : \E i \in DOMAIN ps[q].fds : ps[q].fds[i] = PipeEnd(ps[p].fds[0].of, 1)
  /\ ps' = Exited(ps, p)

\* fork1 panics when there is no process to be had: what p has forked for a
\* pipe is left to init.
NoFork(p) ==
  /\ Is(p, "LIST") \/ Is(p, "PIPE") \/ Is(p, "BACK") \/ ps[p].pc = "right"
  /\ ps' = Exited(ps, p)
  /\ torn' = IF ps[p].pc = "right" THEN torn \cup {ps[p].at} ELSE torn

Runcmd(p) == Exec(p) \/ Redir(p) \/ List(p) \/ PipeLeft(p) \/ PipeRight(p) \/ Back(p)

ShellNext ==
  /\ UNCHANGED line
  /\ \E p \in DOMAIN ps :
       \/ (Runcmd(p) \/ Wait(p) \/ ProgEnds(p)) /\ UNCHANGED torn
       \/ NoFork(p)

-----------------------------------------------------------------------------
(* Properties.                                                             *)

\* A line for a tree, with parentheses only where the tree needs them:
\* ";" binds less than "&", "&" less than "|", "|" less than a redirection.
Level(t) == CASE t.type = "LIST" -> 0 [] t.type = "BACK" -> 1 [] t.type = "PIPE" -> 2 [] OTHER -> 3

RECURSIVE Unparse(_, _)
Unparse(t, level) ==
  LET bare == CASE t.type = "EXEC" -> t.argv
                [] t.type = "REDIR" -> Unparse(t.cmd, 3) \o <<IF t.fd = 0 THEN "<" ELSE ">", t.file>>
                [] t.type = "PIPE" -> Unparse(t.left, 3) \o <<"|">> \o Unparse(t.right, 2)
                [] t.type = "LIST" -> Unparse(t.left, 1) \o <<";">> \o Unparse(t.right, 0)
                [] t.type = "BACK" -> Unparse(t.cmd, 1) \o <<"&">>
  IN IF Level(t) >= level THEN bare ELSE <<"(">> \o bare \o <<")">>

RECURSIVE Fits(_)
Fits(t) ==
  CASE t.type = "EXEC" -> Len(t.argv) < MAXARGS
    [] t.type \in {"REDIR", "BACK"} -> Fits(t.cmd)
    [] OTHER -> Fits(t.left) /\ Fits(t.right)

\* parsecmd reads every command from the text of that command, whatever is
\* nested in what, and refuses a line with too many arguments rather than
\* write past argv (sh.c:329-447).
RoundTrip(t) == parsecmd(Unparse(t, 0)) = IF Fits(t) THEN t ELSE Panic

\* What the program at place is to have: the redirections and pipes it is
\* under, the inner ones before the outer ones.
RECURSIVE Wiring(_, _, _, _)
Wiring(t, at, place, fds) ==
  IF place = <<>> THEN fds
  ELSE LET next(sub, f) == Wiring(sub, Append(at, Head(place)), Tail(place), f)
           side == IF Head(place) = 0 THEN t.left ELSE t.right
       IN CASE t.type = "REDIR" -> next(t.cmd, [fds EXCEPT ![t.fd] = File(t.file)])
            [] t.type = "PIPE" ->
                 next(side, [fds EXCEPT ![1 - Head(place)] = PipeEnd(at, 1 - Head(place))])
            [] t.type = "LIST" -> next(side, fds)
            [] t.type = "BACK" -> next(t.cmd, fds)

\* A program starts with descriptors 0, 1 and 2 on what the line says, and
\* with no end of a pipe besides (sh.c:84-87, 100-119).
Wired ==
  \A p \in DOMAIN ps :
    ps[p].pc = "prog" => ps[p].fds = Wiring(line, <<>>, ps[p].at, Console)

RECURSIVE Sub(_, _)
Sub(t, place) ==
  IF place = <<>> THEN t
  ELSE Sub(IF t.type \in {"REDIR", "BACK"} THEN t.cmd
           ELSE IF Head(place) = 0 THEN t.left ELSE t.right, Tail(place))

\* Whether somebody waits for what is at q, under place: it is not in the
\* background, and no pipe around it is torn.
Foreground(place, q) ==
  /\ IsPrefix(place, q)
  /\ ~ \E at \in torn : IsPrefix(at, q)
  /\ \A k \in Len(place) .. Len(q) - 1 : Sub(line, SubSeq(q, 1, k)).type # "BACK"

\* A command after ";" starts when all that is before it has ended, except
\* what is in the background: wait never takes another child for the one it
\* is for (sh.c:92-98, 120-121).
InOrder ==
  \A p, q \in DOMAIN ps : ps[p].pc # "zombie" /\ ps[q].pc # "zombie" =>
    \A k \in 0 .. Len(ps[p].at) - 1 :
      LET before == SubSeq(ps[p].at, 1, k)
      IN Sub(line, before).type = "LIST" /\ ps[p].at[k + 1] = 1
           => ~Foreground(Append(before, 0), ps[q].at)

\* Main prompts again when all that is not in the background has ended
\* (sh.c:120-121, 168-170).
Prompt ==
  <<>> \in DOMAIN ps /\ ps[<<>>].pc = "zombie" =>
    \A p \in DOMAIN ps : ps[p].pc # "zombie" => ~Foreground(<<>>, ps[p].at)

Over == \A p \in DOMAIN ps : ps[p].pc = "zombie"
=============================================================================

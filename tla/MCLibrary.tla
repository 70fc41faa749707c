----------------------------- MODULE MCLibrary ------------------------------
(***************************************************************************)
(* The parts that share no state, checked together: the user allocator,    *)
(* the shell, the data of files, the keyboard, and functions of text.  A   *)
(* behaviour is one of one part; for a function it is one input.           *)
(***************************************************************************)
EXTENDS Umalloc, Text, Shell, FileData, Keyboard

CONSTANTS TextLength  \* length of the texts, patterns and paths

VARIABLE input  \* what the behaviour is about

libVars == <<mallocVars, shellVars, dataVars, kbdVars, input>>

Idle == ps = <<>> /\ line = <<>> /\ torn = {}

\* The commands of T, and those made of them.
Nest(T) ==
  T \cup {REDIR(t, "f", fd) : t \in T, fd \in 0 .. 1} \cup {BACK(t) : t \in T}
    \cup {PIPE(l, r) : l, r \in T} \cup {LIST(l, r) : l, r \in T}
RunTrees ==
  LET a == EXEC(<<"a">>)
      T == Nest(Nest({a}))
  IN T \cup {PIPE(a, t) : t \in T} \cup {PIPE(t, a) : t \in T} \cup {LIST(a, t) : t \in T}
       \cup {LIST(t, a) : t \in T} \cup {BACK(t) : t \in T}
ParseTrees == Nest(Nest({EXEC([i \in 1 .. n |-> "a"]) : n \in {0, 1, MAXARGS - 1, MAXARGS}}))

Texts(chars, n) == UNION {[1 .. k -> chars] : k \in 0 .. n}

MCBytesOf(i) == IF i = 1 THEN {1, 2} ELSE {3}

\* Control on both sides, shift with the escaped code that keyboards send
\* around the arrows, the lock, and a letter.
MCKeys == {<<"1D", FALSE>>, <<"1D", TRUE>>, <<"2A", FALSE>>, <<"2A", TRUE>>,
           <<"38", TRUE>>, <<"3A", FALSE>>, <<"1E", FALSE>>}

About(what) == input.about = what

InitState == Idle /\ \E part \in {"malloc", "data", "kbd"} : input = [about |-> part]
InitShell == \E t \in RunTrees : Starts(parsecmd(Unparse(t, 0))) /\ input = [about |-> "run"]
InitText ==
  /\ Idle
  /\ \/ \E t \in ParseTrees : input = [about |-> "parse", tree |-> t]
     \/ \E dst, src, n \in 0 .. TextLength + 1 :
          input = [about |-> "memmove", dst |-> dst, src |-> src, n |-> n]
     \/ \E path \in Texts({"/", "a", "b"}, TextLength + 2) : input = [about |-> "path", path |-> path]
     \/ \E xx \in -(UINT \div 2) .. UINT \div 2 - 1, base \in {10, 16} :
          input = [about |-> "print", xx |-> xx, base |-> base]
     \/ \E re \in Texts({"a", ".", "*", "^", "$"}, TextLength), text \in Texts({"a", "b"}, 3) :
          input = [about |-> "match", re |-> re, text |-> text]

Init == MallocInit /\ DataInit /\ KbdInit /\ (InitState \/ InitShell \/ InitText)

MallocStep == About("malloc") /\ MallocNext /\ UNCHANGED <<shellVars, dataVars, kbdVars>>
ShellStep == About("run") /\ ShellNext /\ UNCHANGED <<mallocVars, dataVars, kbdVars>>
DataStep == About("data") /\ DataNext /\ UNCHANGED <<mallocVars, shellVars, kbdVars>>
KbdStep == About("kbd") /\ KbdNext /\ UNCHANGED <<mallocVars, shellVars, dataVars>>

Next == (MallocStep \/ ShellStep \/ DataStep \/ KbdStep) /\ UNCHANGED input

-----------------------------------------------------------------------------
(* Properties.                                                             *)

\* RoundTrip of module Shell.
Parses == About("parse") => RoundTrip(input.tree)

\* A line means what it says and its commands run accordingly (sh.c:57-133,
\* 329-447): it is parsed to its tree, programs have the descriptors it names,
\* and commands and the prompt wait for what is before them.
LineInv == Parses /\ Wired /\ InOrder /\ Prompt

\* Every line ends, however its processes interleave and whatever fails:
\* nobody keeps the write end of a pipe that a reader waits on
\* (sh.c:107-108, 114-119).
LineEnds == About("run") ~> Over

\* memmove gives the bytes that were at src also where the two ranges
\* overlap, on either side (string.c:31-49).
MovesOverlap ==
  About("memmove") =>
    LET mem == [a \in 0 .. 2 * TextLength + 2 |-> a]
    IN memmove(mem, input.dst, input.src, input.n) = Moved(mem, input.dst, input.src, input.n)

\* namex goes through the names between slashes, however many slashes there
\* are and wherever, each cut to DIRSIZ, and takes only the last for the last
\* one: nameiparent stops there (fs.c:576-599, 604-637).
PathSplit == About("path") => Elements(input.path) = Names(input.path)

\* A number is printed with its digits and no more, the smallest int too
\* (console.c:27-52, printf.c:11-36).
Printed ==
  About("print") =>
    LET s == printint(input.xx, input.base, TRUE)
        u == printint(input.xx, input.base, FALSE)
        digits == IF input.xx < 0 THEN Tail(s) ELSE s
    IN /\ Value(digits, input.base) = (IF input.xx < 0 THEN -input.xx ELSE input.xx)
       /\ input.xx < 0 => s[1] = "-"
       /\ Value(u, input.base) = input.xx % UINT
       /\ Len(u) > 1 => u[1] # 0
       /\ Len(digits) > 1 => digits[1] # 0

\* atoi reads back every int printed as unsigned (ulib.c:84-93).
ReadBack == About("print") => atoi(printint(input.xx, 10, FALSE)) = input.xx

\* grep finds exactly the lines of which the pattern matches a part
\* (grep.c:71-105).
GrepFinds == About("match") => match(input.re, input.text) = Matches(input.re, input.text)

\* The functions of the library, and the keyboard's of the bytes it is sent,
\* give what their definitions say (kbd.c:6-35, string.c, fs.c:576-599,
\* printf.c, ulib.c, grep.c).
Computed == Modifiers /\ MovesOverlap /\ PathSplit /\ Printed /\ ReadBack /\ GrepFinds

Spec == Init /\ [][Next]_libVars /\ WF_libVars(ShellStep /\ UNCHANGED input)
=============================================================================

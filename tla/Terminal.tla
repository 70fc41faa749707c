------------------------------ MODULE Terminal ------------------------------
(***************************************************************************)
(* Terminal input (console.c): the interrupt handlers of the keyboard and  *)
(* the serial line put characters into a ring, processes read lines out of *)
(* it.  Characters are tokens: letters, "\n", "\r", "^D" (end of file),    *)
(* "^U" (kill line) and "^H" (erase).                                      *)
(*                                                                         *)
(* A handler runs in one critical section of input.lock, a character at a  *)
(* time; a reader is cut at each turn of its loop, with the lock held.     *)
(* The three indices are unsigned ints, which wrap.                        *)
(***************************************************************************)
EXTENDS Integers, Sequences

CONSTANTS
  Readers,    \* processes that read the terminal
  Letters,    \* characters that are not treated in a special way
  INPUT_BUF,  \* size of the ring (128)
  UINT,       \* an unsigned int counts modulo UINT
  Sizes,      \* numbers of bytes passed to read
  None

Stored == Letters \cup {"\n", "^D"}

ASSUME TerminalAssumption ==
  /\ INPUT_BUF \in Nat \ {0} /\ UINT \in Nat \ {0}
  /\ UINT % INPUT_BUF = 0 /\ 2 * INPUT_BUF <= UINT
  /\ Sizes \subseteq Nat /\ None \notin Readers
  /\ Letters \cap {"\n", "\r", "^D", "^U", "^H"} = {} /\ Letters # {}

VARIABLES
  buf, r, w, e,  \* the fields of input: characters, read, write, edit index
  holder,        \* the reader that holds input.lock, or None
  pc,            \* where a reader is
  target, n,     \* locals of consoleread
  dst,           \* what the call has read
  killed         \* proc->killed

ring == <<buf, r, w, e>>
vars == <<ring, holder, pc, target, n, dst, killed>>

\* Unsigned arithmetic.
Plus(x, k) == IF x + k < UINT THEN x + k ELSE x + k - UINT
Minus(x, y) == IF x >= y THEN x - y ELSE x - y + UINT
At(x) == buf[x % INPUT_BUF]

Init ==
  /\ buf \in [0 .. INPUT_BUF - 1 -> {CHOOSE c \in Letters : TRUE}]
  /\ r = 0 /\ w = 0 /\ e = 0
  /\ holder = None
  /\ pc = [p \in Readers |-> "user"]
  /\ target = [p \in Readers |-> 0] /\ n = [p \in Readers |-> 0]
  /\ dst = [p \in Readers |-> <<>>]
  /\ killed = [p \in Readers |-> FALSE]

-----------------------------------------------------------------------------
(* consoleintr.                                                            *)

\* wakeup(&input.r)
Wakeup == pc' = [p \in Readers |-> IF pc[p] = "asleep" THEN "acquire" ELSE pc[p]]

\* The line is sent.
Sends(c, next) == c \in {"\n", "^D"} \/ next = Plus(r, INPUT_BUF)

HasRoom == Minus(e, r) < INPUT_BUF

\* mutant: nobody is woken for ^D
TypeQuiet(key) ==
  LET c == IF key = "\r" THEN "\n" ELSE key
      next == Plus(e, 1)
  IN /\ HasRoom
     /\ buf' = [buf EXCEPT ![e % INPUT_BUF] = c]
     /\ e' = next
     /\ w' = IF Sends(c, next) THEN next ELSE w
     /\ IF Sends(c, next) /\ c # "^D" THEN Wakeup ELSE pc' = pc
     /\ UNCHANGED <<r, holder, target, n, dst, killed>>

\* The default case: a return key counts as the end of a line.
Type(key) ==
  LET c == IF key = "\r" THEN "\n" ELSE key
      next == Plus(e, 1)
  IN /\ HasRoom
     /\ buf' = [buf EXCEPT ![e % INPUT_BUF] = c]
     /\ e' = next
     /\ IF Sends(c, next) THEN w' = next /\ Wakeup ELSE w' = w /\ pc' = pc
     /\ UNCHANGED <<r, holder, target, n, dst, killed>>

Erase ==
  /\ e # w
  /\ e' = Minus(e, 1)
  /\ UNCHANGED <<buf, r, w, holder, pc, target, n, dst, killed>>

\* ^U erases back to w or the end of a line.
KillLine ==
  \E k \in 0 .. Minus(e, w) :
    /\ \A j \in 1 .. k : At(Minus(e, j)) # "\n"
    /\ k = Minus(e, w) \/ At(Minus(e, k + 1)) = "\n"
    /\ e' = Minus(e, k)
    /\ UNCHANGED <<buf, r, w, holder, pc, target, n, dst, killed>>

Intr ==
  /\ holder = None
  /\ (\E key \in Stored \cup {"\r"} : Type(key)) \/ Erase \/ KillLine

-----------------------------------------------------------------------------
(* consoleread.                                                            *)

\* read, up to acquire.
Call(p) ==
  /\ pc[p] = "user"
  /\ \E k \in Sizes : target' = [target EXCEPT ![p] = k] /\ n' = [n EXCEPT ![p] = k]
  /\ dst' = [dst EXCEPT ![p] = <<>>]
  /\ pc' = [pc EXCEPT ![p] = "acquire"]
  /\ UNCHANGED <<ring, holder, killed>>

Acquire(p) ==
  /\ pc[p] = "acquire" /\ holder = None
  /\ holder' = p
  /\ pc' = [pc EXCEPT ![p] = "loop"]
  /\ UNCHANGED <<ring, target, n, dst, killed>>

\* release, and back to user space; a process that has been killed exits, and
\* another one takes its place.
Leave(p) ==
  /\ holder' = None
  /\ pc' = [pc EXCEPT ![p] = "user"]
  /\ killed' = [killed EXCEPT ![p] = FALSE]

\* All that was asked for has been read, or there is nothing and p is killed.
Return(p) ==
  /\ pc[p] = "loop"
  /\ n[p] = 0 \/ (r = w /\ killed[p])
  /\ Leave(p)
  /\ UNCHANGED <<ring, target, n, dst>>

\* sleep(&input.r, &input.lock)
Sleep(p) ==
  /\ pc[p] = "loop" /\ n[p] > 0 /\ r = w /\ ~killed[p]
  /\ holder' = None
  /\ pc' = [pc EXCEPT ![p] = "asleep"]
  /\ UNCHANGED <<ring, target, n, dst, killed>>

\* mutant: ^D is taken from the ring in any case
EndOfFileTaken(p) ==
  /\ pc[p] = "loop" /\ n[p] > 0 /\ r # w /\ At(r) = "^D"
  /\ r' = Plus(r, 1)
  /\ Leave(p)
  /\ UNCHANGED <<buf, w, e, target, n, dst>>

\* mutant: ^D is put back and the call waits for more
EndOfFileWaits(p) ==
  /\ pc[p] = "loop" /\ n[p] > 0 /\ r # w /\ At(r) = "^D"
  /\ holder' = None
  /\ pc' = [pc EXCEPT ![p] = "acquire"]
  /\ UNCHANGED <<ring, target, n, dst, killed>>

\* ^D stays for the next call unless this one has read nothing.
EndOfFile(p) ==
  /\ pc[p] = "loop" /\ n[p] > 0 /\ r # w /\ At(r) = "^D"
  /\ r' = IF n[p] < target[p] THEN r ELSE Plus(r, 1)
  /\ Leave(p)
  /\ UNCHANGED <<buf, w, e, target, n, dst>>

\* A character; the end of the line ends the call.
Take(p) ==
  /\ pc[p] = "loop" /\ n[p] > 0 /\ r # w /\ At(r) # "^D"
  /\ r' = Plus(r, 1)
  /\ dst' = [dst EXCEPT ![p] = Append(@, At(r))]
  /\ n' = [n EXCEPT ![p] = @ - 1]
  /\ IF At(r) = "\n" THEN Leave(p) ELSE UNCHANGED <<holder, pc, killed>>
  /\ UNCHANGED <<buf, w, e, target>>

\* kill of a process in the call.
Kill(p) ==
  /\ pc[p] # "user" /\ ~killed[p]
  /\ killed' = [killed EXCEPT ![p] = TRUE]
  /\ pc' = [pc EXCEPT ![p] = IF @ = "asleep" THEN "acquire" ELSE @]
  /\ UNCHANGED <<ring, holder, target, n, dst>>

Step(p) == Acquire(p) \/ Return(p) \/ Sleep(p) \/ EndOfFile(p) \/ Take(p)

Next == Intr \/ \E p \in Readers : Call(p) \/ Step(p) \/ Kill(p)

Spec == Init /\ [][Next]_vars
FairSpec == Spec /\ \A p \in Readers : WF_vars(Step(p))

-----------------------------------------------------------------------------
(* Properties.                                                             *)

\* Every variable has its type.
TypeOK ==
  /\ buf \in [0 .. INPUT_BUF - 1 -> Stored]
  /\ r \in 0 .. UINT - 1 /\ w \in 0 .. UINT - 1 /\ e \in 0 .. UINT - 1
  /\ holder \in Readers \cup {None}
  /\ pc \in [Readers -> {"user", "acquire", "loop", "asleep"}]
  /\ target \in [Readers -> Nat] /\ n \in [Readers -> Nat]
  /\ dst \in [Readers -> Seq(Stored)]
  /\ killed \in [Readers -> BOOLEAN]

\* The indices stay in order around the ring, however often they wrap, and a
\* full ring has been sent, or nobody could ever empty it (console.c:212, 216).
RingOK ==
  /\ Minus(w, r) <= Minus(e, r)
  /\ Minus(e, r) <= INPUT_BUF
  /\ Minus(e, r) = INPUT_BUF => w = e

\* Nobody sleeps while something has been sent, also when a reader puts a ^D
\* back (console.c:237-243, 216-219, 250).
NoneForgotten == r # w => \A p \in Readers : pc[p] # "asleep"

\* A reader in its loop holds the lock, and has stored as many characters as
\* it has counted, also when it goes on after a sleep (console.c:256-257).
CallInv ==
  \A p \in Readers :
    /\ pc[p] = "loop" <=> holder = p
    /\ Len(dst[p]) + n[p] = target[p]

\* The line being typed holds no end of line: ^U, which looks for one, stops
\* at w (console.c:199-203).
LineInv == \A i \in 0 .. Minus(e, w) - 1 : At(Plus(w, i)) \notin {"\n", "^D"}

\* The ring and its readers: the indices are in order and full rings sent
\* (RingOK), no line is left while somebody sleeps (NoneForgotten), the
\* readers count what they store (CallInv) and the line being typed is one
\* line (LineInv).
RingInv == TypeOK /\ RingOK /\ NoneForgotten /\ CallInv /\ LineInv

\* The ring is a line and a queue: everything typed and not erased is read
\* once and in order, whoever reads it; the line being typed holds no end of
\* line, so ^U erases all of it; nothing that has been sent is erased.
Part(from, to) == [i \in 1 .. Minus(to, from) |-> At(Plus(from, i - 1))]
Lines == INSTANCE LineInput WITH
  Cap <- INPUT_BUF, line <- Part(w, e), queue <- Part(r, w),
  open <- {p \in Readers : pc[p] # "user"}, want <- target, got <- dst
ImplementsLineInput == Lines!Spec

\* What has been sent is read, as long as somebody is reading: whoever gets
\* the lock first.
InCall == \E p \in Readers : pc[p] # "user"
Consumed == \A i \in 0 .. UINT - 1 : (r = i /\ r # w /\ InCall) ~> (r # i \/ ~InCall)
=============================================================================

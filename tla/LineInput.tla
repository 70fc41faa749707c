----------------------------- MODULE LineInput ------------------------------
(***************************************************************************)
(* What the terminal promises to those who read it: a line is typed and    *)
(* edited, sent when it is ended or nothing more fits, and read in order.  *)
(* A call gets at most a line; the end-of-file key ends a call that has    *)
(* read something without being used up, so that the next call gets        *)
(* nothing.                                                                *)
(***************************************************************************)
EXTENDS Integers, Sequences

CONSTANTS
  Readers,
  Letters,  \* what can be typed, other than "\n" and "^D"
  Cap,      \* how many characters fit
  Sizes     \* how many a call asks for

VARIABLES
  line,   \* the line being typed
  queue,  \* what has been sent and not been read
  open,   \* the readers that are in a call
  want,   \* how many characters a reader asked for
  got     \* what a reader has got

vars == <<line, queue, open, want, got>>

Init ==
  /\ line = <<>> /\ queue = <<>> /\ open = {}
  /\ want = [p \in Readers |-> 0] /\ got = [p \in Readers |-> <<>>]

Type(c) ==
  LET typed == Append(line, c)
  IN /\ Len(queue) + Len(line) < Cap
     /\ IF c \in {"\n", "^D"} \/ Len(queue) + Len(typed) = Cap
        THEN queue' = queue \o typed /\ line' = <<>>
        ELSE queue' = queue /\ line' = typed
     /\ UNCHANGED <<open, want, got>>

Erase ==
  /\ line # <<>>
  /\ line' = SubSeq(line, 1, Len(line) - 1)
  /\ UNCHANGED <<queue, open, want, got>>

KillLine ==
  /\ line' = <<>>
  /\ UNCHANGED <<queue, open, want, got>>

Call(p) ==
  /\ p \notin open
  /\ \E k \in Sizes : want' = [want EXCEPT ![p] = k]
  /\ got' = [got EXCEPT ![p] = <<>>]
  /\ open' = open \cup {p}
  /\ UNCHANGED <<line, queue>>

Take(p) ==
  /\ p \in open /\ Len(got[p]) < want[p]
  /\ queue # <<>> /\ Head(queue) # "^D"
  /\ got' = [got EXCEPT ![p] = Append(@, Head(queue))]
  /\ queue' = Tail(queue)
  /\ open' = IF Head(queue) = "\n" THEN open \ {p} ELSE open
  /\ UNCHANGED <<line, want>>

EndOfFile(p) ==
  /\ p \in open /\ Len(got[p]) < want[p]
  /\ queue # <<>> /\ Head(queue) = "^D"
  /\ queue' = IF got[p] = <<>> THEN Tail(queue) ELSE queue
  /\ open' = open \ {p}
  /\ UNCHANGED <<line, want, got>>

\* A call ends with all it asked for; one that is killed ends with nothing to
\* read.
Return(p) ==
  /\ p \in open /\ (Len(got[p]) = want[p] \/ queue = <<>>)
  /\ open' = open \ {p}
  /\ UNCHANGED <<line, queue, want, got>>

Next ==
  \/ \E c \in Letters \cup {"\n", "^D"} : Type(c)
  \/ Erase \/ KillLine
  \/ \E p \in Readers : Call(p) \/ Take(p) \/ EndOfFile(p) \/ Return(p)

Spec == Init /\ [][Next]_vars
=============================================================================

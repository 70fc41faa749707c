-------------------------------- MODULE Text --------------------------------
(***************************************************************************)
(* Functions on bytes and text: memmove (string.c), skipelem (fs.c),       *)
(* printint (console.c, printf.c), atoi (ulib.c) and the pattern matcher   *)
(* of grep.c, each with a definition of what it is to compute.  A text is  *)
(* a sequence of characters; the character after the last is NUL.          *)
(***************************************************************************)
EXTENDS Integers, Sequences, SequencesExt

CONSTANTS
  DIRSIZ,  \* length of a name in a directory
  UINT     \* an unsigned int counts modulo UINT

Char(s, i) == IF i <= Len(s) THEN s[i] ELSE "NUL"
From(s, i) == SubSeq(s, i, Len(s))

-----------------------------------------------------------------------------
(* Copies.                                                                 *)

\* A turn of a loop that copies: byte i of src to dst.
Copy(mem, dst, src, i) == [mem EXCEPT ![dst + i] = mem[src + i]]

RECURSIVE Forward(_, _, _, _, _), Backward(_, _, _, _)
Forward(mem, dst, src, i, n) ==
  IF i = n THEN mem ELSE Forward(Copy(mem, dst, src, i), dst, src, i + 1, n)
Backward(mem, dst, src, n) ==
  IF n = 0 THEN mem ELSE Backward(Copy(mem, dst, src, n - 1), dst, src, n - 1)

memmove(mem, dst, src, n) ==
  IF src < dst /\ src + n > dst THEN Backward(mem, dst, src, n) ELSE Forward(mem, dst, src, 0, n)

-----------------------------------------------------------------------------
(* Paths.                                                                  *)

RECURSIVE SkipSlashes(_), ToSlash(_, _)
SkipSlashes(path) == IF Char(path, 1) = "/" THEN SkipSlashes(Tail(path)) ELSE path
ToSlash(path, i) == IF Char(path, i) \in {"/", "NUL"} THEN i - 1 ELSE ToSlash(path, i + 1)

\* mutant: slashes after the name stay
skipelemOne(path) ==
  LET s == SkipSlashes(path)
      len == ToSlash(s, 1)
  IN [name |-> SubSeq(s, 1, IF len >= DIRSIZ THEN DIRSIZ ELSE len), rest |-> From(s, len + 1)]

\* The next name, cut to DIRSIZ, and the path after it; no name: << >>.
skipelem(path) ==
  LET s == SkipSlashes(path)
      len == ToSlash(s, 1)
  IN [name |-> SubSeq(s, 1, IF len >= DIRSIZ THEN DIRSIZ ELSE len),
      rest |-> SkipSlashes(From(s, len + 1))]

\* The names that the loop of namex goes through, and whether it takes each
\* for the last one.
RECURSIVE Elements(_)
Elements(path) ==
  LET e == skipelem(path)
  IN IF e.name = <<>> THEN <<>>
     ELSE << [name |-> e.name, last |-> e.rest = <<>>] >> \o Elements(e.rest)

-----------------------------------------------------------------------------
(* Numbers.                                                                *)

RECURSIVE Digits(_, _)
Digits(x, base) == (IF x < base THEN <<>> ELSE Digits(x \div base, base)) \o << x % base >>

\* printint: the magnitude is unsigned, and so is a negative xx if sign is 0.
printint(xx, base, sign) ==
  IF sign /\ xx < 0 THEN <<"-">> \o Digits((-xx) % UINT, base) ELSE Digits(xx % UINT, base)

\* atoi of a text of digits: a result above the largest int wraps.
atoi(s) ==
  LET u == FoldLeft(LAMBDA n, d : (n * 10 + d) % UINT, 0, s)
  IN IF u >= UINT \div 2 THEN u - UINT ELSE u

-----------------------------------------------------------------------------
(* grep.                                                                   *)

RECURSIVE matchhere(_, _), matchstar(_, _, _)
matchhere(re, text) ==
  IF Char(re, 1) = "NUL" THEN TRUE
  ELSE IF Char(re, 2) = "*" THEN matchstar(re[1], From(re, 3), text)
  ELSE IF re = <<"$">> THEN text = <<>>
  ELSE text # <<>> /\ re[1] \in {".", text[1]} /\ matchhere(Tail(re), Tail(text))

matchstar(c, re, text) ==
  \/ matchhere(re, text)
  \/ text # <<>> /\ c \in {".", text[1]} /\ matchstar(c, re, Tail(text))

match(re, text) ==
  IF Char(re, 1) = "^" THEN matchhere(Tail(re), text)
  ELSE \E i \in 1 .. Len(text) + 1 : matchhere(re, From(text, i))

-----------------------------------------------------------------------------
(* What they are to compute.                                               *)

\* The bytes at dst are those that were at src, and no other byte changes.
Moved(mem, dst, src, n) ==
  [a \in DOMAIN mem |-> IF a \in dst .. dst + n - 1 THEN mem[a - dst + src] ELSE mem[a]]

\* The maximal runs without a slash.
Runs(path) ==
  {<<i, j>> \in (1 .. Len(path)) \X (1 .. Len(path)) :
     /\ i <= j /\ \A k \in i .. j : path[k] # "/"
     /\ (i = 1 \/ path[i - 1] = "/") /\ (j = Len(path) \/ path[j + 1] = "/")}
Names(path) ==
  LET runs == SetToSortSeq(Runs(path), LAMBDA x, y : x[1] < y[1])
  IN [k \in 1 .. Len(runs) |->
        [name |-> SubSeq(path, runs[k][1],
                         IF runs[k][2] - runs[k][1] + 1 > DIRSIZ
                         THEN runs[k][1] + DIRSIZ - 1 ELSE runs[k][2]),
         last |-> k = Len(runs)]]

\* The value of a numeral.
RECURSIVE Value(_, _)
Value(s, base) == IF s = <<>> THEN 0 ELSE Value(Front(s), base) * base + Last(s)

\* The ends of what the items of a pattern match from place i on: an item is
\* a character or ".", with or without a star.
RECURSIVE Ends(_, _, _)
Ends(re, text, i) ==
  IF re = <<>> THEN {i}
  ELSE LET fits(k) == re[1] \in {".", text[k]}
           star == Char(re, 2) = "*"
           after == IF star
                    THEN {j \in i .. Len(text) + 1 : \A k \in i .. j - 1 : fits(k)}
                    ELSE {j \in {i + 1} : i <= Len(text) /\ fits(i)}
       IN UNION {Ends(From(re, IF star THEN 3 ELSE 2), text, j) : j \in after}

\* The pattern without its marks "^" and "$" matches some part of the text, at
\* the beginning or to the end where the marks say so.  A character before "*"
\* is no mark, and neither is a "$" that would be the item of the star.
Matches(re, text) ==
  LET begin == Char(re, 1) = "^"
      body == IF begin THEN Tail(re) ELSE re
      IsEnd == body # <<>> /\ Last(body) = "$"
      core == IF IsEnd THEN Front(body) ELSE body
  IN \E i \in (IF begin THEN {1} ELSE 1 .. Len(text) + 1) :
       IF IsEnd THEN Len(text) + 1 \in Ends(core, text, i) ELSE Ends(core, text, i) # {}
=============================================================================

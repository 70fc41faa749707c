--------------------------- MODULE TerminalProofs ---------------------------
(***************************************************************************)
(* The terminal's ring is a line and a queue, for any number of readers,   *)
(* any size of the ring and any width of its indices.                      *)
(***************************************************************************)
EXTENDS Terminal, SequenceTheorems, TLAPS

(* Division with remainder, and what it says of two numbers less than a ring
   apart, and of a counter that has wrapped. *)
LEMMA DivMod ==
  ASSUME NEW a \in Int, NEW P \in Nat \ {0}
  PROVE  /\ a % P \in 0 .. P - 1 /\ a \div P \in Int
         /\ a = P * (a \div P) + (a % P)
OBVIOUS

LEMMA NoMultiple ==
  ASSUME NEW P \in Nat \ {0}, NEW d \in Int, 0 < P * d, P * d < P
  PROVE  FALSE
<1>1. CASE d <= 0
  BY <1>1
<1>2. CASE d >= 1
  BY <1>2
<1> QED BY <1>1, <1>2

LEMMA ModDistinct ==
  ASSUME NEW P \in Nat \ {0}, NEW a \in Int, NEW b \in Int, a < b, b < a + P
  PROVE  a % P # b % P
<1> SUFFICES ASSUME a % P = b % P PROVE FALSE
  OBVIOUS
<1> DEFINE qa == a \div P
           qb == b \div P
           d == qb - qa
<1>1. /\ qa \in Int /\ qb \in Int /\ a % P \in Int
      /\ a = P * qa + (a % P) /\ b = P * qb + (b % P)
  BY DivMod
<1> HIDE DEF qa, qb
<1>2. b - a = P * qb - P * qa
  BY <1>1
<1>3. P * qb - P * qa = P * d
  BY <1>1
<1>4. d \in Int
  BY <1>1
<1>5. 0 < P * d /\ P * d < P
  BY <1>2, <1>3
<1> HIDE DEF d
<1> QED BY <1>4, <1>5, NoMultiple

LEMMA ModShift ==
  ASSUME NEW P \in Nat \ {0}, NEW a \in Int, NEW U \in Int, U % P = 0
  PROVE  (a - U) % P = a % P
<1> DEFINE q == a \div P
           k == U \div P
           c == (a - U) \div P
           x == a % P
           y == (a - U) % P
<1>1. q \in Int /\ x \in 0 .. P - 1 /\ a = P * q + x
  BY DivMod
<1>2. k \in Int /\ U = P * k + 0
  BY DivMod
<1>3. c \in Int /\ y \in 0 .. P - 1 /\ a - U = P * c + y
  <2>1. a - U \in Int
    OBVIOUS
  <2> HIDE DEF c, y
  <2> QED BY <2>1, DivMod DEF c, y
<1> HIDE DEF q, k, c, x, y
<1>4. P * k \in Int /\ U = P * k
  BY <1>2
<1>5. P * q + x - P * k = P * c + y
  BY <1>1, <1>3, <1>4
<1>6. P * q - P * k - P * c = P * (q - k - c)
  BY <1>1, <1>2, <1>3
<1>7. P * (q - k - c) = y - x
  BY <1>1, <1>2, <1>3, <1>5, <1>6
<1>8. CASE y > x
  BY <1>1, <1>2, <1>3, <1>7, <1>8, NoMultiple
<1>9. CASE y < x
  <2>1. P * (-(q - k - c)) = x - y
    BY <1>1, <1>2, <1>3, <1>7
  <2> QED BY <1>1, <1>2, <1>3, <2>1, <1>9, NoMultiple
<1>10. x = y
  BY <1>1, <1>3, <1>8, <1>9
<1> QED BY <1>10 DEF x, y

-----------------------------------------------------------------------------
(* Unsigned arithmetic as the code uses it. *)
LEMMA Bounds ==
  /\ INPUT_BUF \in Nat \ {0} /\ UINT \in Nat \ {0} /\ 2 * INPUT_BUF <= UINT
  /\ 0 \in 0 .. UINT - 1
BY TerminalAssumption

LEMMA Unsigned ==
  ASSUME NEW x \in 0 .. UINT - 1, NEW y \in 0 .. UINT - 1, NEW k \in 0 .. UINT - 1
  PROVE  /\ Plus(x, k) \in 0 .. UINT - 1 /\ Minus(x, k) \in 0 .. UINT - 1
         /\ Minus(x, y) \in 0 .. UINT - 1
         /\ Minus(x, y) = 0 <=> x = y
         /\ Plus(x, 0) = x /\ Minus(x, 0) = x
         /\ Plus(y, Minus(x, y)) = x /\ Minus(Plus(x, k), x) = k
BY Bounds DEF Plus, Minus

(* Two positions less than a ring apart are two slots of the ring. *)
LEMMA TwoSlots ==
  ASSUME NEW x \in 0 .. UINT - 1, NEW i \in 0 .. INPUT_BUF - 1, NEW j \in 0 .. INPUT_BUF - 1,
         i # j
  PROVE  Plus(x, i) % INPUT_BUF # Plus(x, j) % INPUT_BUF
<1>1. \A k \in 0 .. INPUT_BUF - 1 : Plus(x, k) % INPUT_BUF = (x + k) % INPUT_BUF
  <2> TAKE k \in 0 .. INPUT_BUF - 1
  <2>1. x + k \in Int /\ UINT \in Int /\ UINT % INPUT_BUF = 0
    BY Bounds, TerminalAssumption
  <2>2. ((x + k) - UINT) % INPUT_BUF = (x + k) % INPUT_BUF
    BY <2>1, ModShift, Bounds
  <2> QED BY <2>1, <2>2 DEF Plus
<1> DEFINE a == x + i
           b == x + j
<1>2. /\ a \in Int /\ b \in Int
      /\ i < j => a < b /\ b < a + INPUT_BUF
      /\ j < i => b < a /\ a < b + INPUT_BUF
  BY Bounds
<1> HIDE DEF a, b
<1>3. a % INPUT_BUF # b % INPUT_BUF
  <2>1. CASE i < j
    BY <1>2, <2>1, ModDistinct, Bounds
  <2>2. CASE j < i
    BY <1>2, <2>2, ModDistinct, Bounds
  <2> QED BY <2>1, <2>2
<1> QED BY <1>1, <1>3 DEF a, b

LEMMA SlotOf ==
  ASSUME NEW x \in Int
  PROVE  x % INPUT_BUF \in 0 .. INPUT_BUF - 1
BY Bounds, DivMod

-----------------------------------------------------------------------------
(* The three indices in order: what is sent and what is being typed lie side
   by side in the ring. *)
LEMMA Order ==
  ASSUME TypeOK, RingOK
  PROVE  /\ Minus(w, r) \in 0 .. INPUT_BUF /\ Minus(e, w) \in 0 .. INPUT_BUF
         /\ Minus(e, r) \in 0 .. INPUT_BUF
         /\ Minus(e, r) = Minus(w, r) + Minus(e, w)
         /\ Plus(r, Minus(w, r)) = w /\ Plus(w, Minus(e, w)) = e
         /\ \A i \in 0 .. INPUT_BUF : Plus(w, i) = Plus(r, Minus(w, r) + i)
BY Bounds DEF TypeOK, RingOK, Plus, Minus

LEMMA RingInit == Init => RingInv
<1> SUFFICES ASSUME Init PROVE RingInv
  OBVIOUS
<1>1. (CHOOSE c \in Letters : TRUE) \in Letters
  BY TerminalAssumption
<1>2. TypeOK
  BY <1>1, Bounds DEF Init, TypeOK, Stored
<1>3. RingOK /\ NoneForgotten /\ LineInv
  BY Bounds DEF Init, RingOK, NoneForgotten, LineInv, Minus
<1>4. CallInv
  <2>1. ASSUME NEW p \in Readers PROVE Len(dst[p]) + n[p] = target[p]
    BY EmptySeq DEF Init
  <2> QED BY <2>1, TerminalAssumption DEF Init, CallInv
<1> QED BY <1>2, <1>3, <1>4 DEF RingInv

(* A character is typed: its slot is none of those in use. *)
LEMMA TypeStepInv ==
  ASSUME RingInv, holder = None, NEW key \in Stored \cup {"\r"}, Type(key)
  PROVE  RingInv'
<1> USE Bounds
<1> DEFINE c == IF key = "\r" THEN "\n" ELSE key
           next == Plus(e, 1)
<1>0. TypeOK /\ RingOK /\ NoneForgotten /\ CallInv /\ LineInv
  BY DEF RingInv
<1>1. c \in Stored /\ next \in 0 .. UINT - 1 /\ e % INPUT_BUF \in 0 .. INPUT_BUF - 1
  <2>1. c \in Stored
    BY DEF Stored
  <2>2. e \in Int /\ next \in 0 .. UINT - 1
    BY <1>0 DEF TypeOK, Plus
  <2> QED BY <2>1, <2>2, SlotOf
<1>2. TypeOK'
  <2>1. buf' \in [0 .. INPUT_BUF - 1 -> Stored]
    BY <1>0, <1>1 DEF TypeOK, Type
  <2>2. w' \in 0 .. UINT - 1 /\ e' \in 0 .. UINT - 1
    BY <1>0, <1>1 DEF TypeOK, Type
  <2>3. pc' \in [Readers -> {"user", "acquire", "loop", "asleep"}]
    BY <1>0 DEF TypeOK, Type, Wakeup
  <2> QED BY <1>0, <2>1, <2>2, <2>3 DEF TypeOK, Type
<1>3. RingOK'
  BY <1>0 DEF TypeOK, RingOK, Type, HasRoom, Sends, Plus, Minus
<1>4. NoneForgotten'
  BY <1>0 DEF TypeOK, NoneForgotten, Type, Wakeup
<1>5. CallInv'
  BY <1>0 DEF TypeOK, CallInv, Type, Wakeup
<1>6. LineInv'
  <2>1. CASE Sends(c, next)
    BY <2>1, <1>1 DEF LineInv, Type, Minus
  <2>2. CASE ~Sends(c, next)
    <3>1. w' = w /\ e' = next /\ c \notin {"\n", "^D"}
          /\ buf' = [buf EXCEPT ![e % INPUT_BUF] = c]
      BY <2>2 DEF Type, Sends
    <3>2. Minus(e, w) \in 0 .. INPUT_BUF - 1 /\ Minus(next, w) = Minus(e, w) + 1
      BY <1>0, Order DEF TypeOK, Type, HasRoom, Plus, Minus
    <3>3. Plus(w, Minus(e, w)) = e
      BY <1>0, Order
    <3>4. ASSUME NEW i \in 0 .. Minus(e, w)
          PROVE  buf'[Plus(w, i) % INPUT_BUF] \notin {"\n", "^D"}
      <4>1. CASE i = Minus(e, w)
        BY <4>1, <3>1, <3>3, <1>0, <1>1 DEF TypeOK
      <4>2. CASE i # Minus(e, w)
        <5>1. i \in 0 .. INPUT_BUF - 1 /\ i \in 0 .. Minus(e, w) - 1
          BY <4>2, <3>2
        <5>2. Plus(w, i) % INPUT_BUF # e % INPUT_BUF
          <6>1. w \in 0 .. UINT - 1
            BY <1>0 DEF TypeOK
          <6>2. Plus(w, i) % INPUT_BUF # Plus(w, Minus(e, w)) % INPUT_BUF
            BY <6>1, <4>2, <5>1, <3>2, TwoSlots
          <6> QED BY <6>2, <3>3
        <5>3. Plus(w, i) % INPUT_BUF \in 0 .. INPUT_BUF - 1
          <6>1. Plus(w, i) \in Int
            BY <5>1, <1>0 DEF TypeOK, Plus
          <6> QED BY <6>1, SlotOf
        <5>4. buf[Plus(w, i) % INPUT_BUF] \notin {"\n", "^D"}
          BY <5>1, <1>0 DEF LineInv, At
        <5> QED BY <5>2, <5>3, <5>4, <3>1, <1>0 DEF TypeOK
      <4> QED BY <4>1, <4>2
    <3>5. 0 .. Minus(next, w) - 1 = 0 .. Minus(e, w)
      BY <3>2
    <3> QED BY <3>1, <3>4, <3>5 DEF LineInv, At
  <2> QED BY <2>1, <2>2
<1> QED BY <1>2, <1>3, <1>4, <1>5, <1>6 DEF RingInv

(* Characters are erased from the end of the line being typed. *)
LEMMA EraseInv ==
  ASSUME RingInv, holder = None, Erase \/ KillLine
  PROVE  RingInv'
<1> USE Bounds
<1>0. TypeOK /\ RingOK /\ NoneForgotten /\ CallInv /\ LineInv
  BY DEF RingInv
<1>1. PICK k \in 0 .. Minus(e, w) : e' = Minus(e, k)
  <2>1. CASE Erase
    <3>1. Minus(e, w) >= 1
      BY <2>1, <1>0 DEF Erase, TypeOK, Minus
    <3>2. Minus(e, w) \in Int
      BY <1>0 DEF TypeOK, Minus
    <3> QED BY <2>1, <3>1, <3>2 DEF Erase
  <2>2. CASE KillLine
    BY <2>2 DEF KillLine
  <2> QED BY <2>1, <2>2
<1>2. UNCHANGED <<buf, r, w, holder, pc, target, n, dst, killed>>
  BY DEF Erase, KillLine
<1>3. k \in 0 .. INPUT_BUF /\ Minus(e, w) \in Int
  BY <1>0, <1>1, Order
<1>4. e' \in 0 .. UINT - 1 /\ Minus(e', w) = Minus(e, w) - k /\ Minus(e', r) = Minus(e, r) - k
  BY <1>0, <1>1, <1>3, Order DEF TypeOK, Minus
<1>5. TypeOK'
  BY <1>0, <1>2, <1>4 DEF TypeOK
<1>6. RingOK'
  BY <1>0, <1>1, <1>2, <1>3, <1>4, Order DEF TypeOK, RingOK, Minus
<1>7. NoneForgotten' /\ CallInv'
  BY <1>0, <1>2 DEF NoneForgotten, CallInv
<1>8. LineInv'
  BY <1>0, <1>2, <1>3, <1>4 DEF LineInv, At
<1> QED BY <1>5, <1>6, <1>7, <1>8 DEF RingInv

(* A character is taken from the ring: the one that was sent first. *)
LEMMA NextIndex ==
  ASSUME TypeOK, RingOK, r # w
  PROVE  /\ Plus(r, 1) \in 0 .. UINT - 1
         /\ Minus(w, Plus(r, 1)) = Minus(w, r) - 1
         /\ Minus(e, Plus(r, 1)) = Minus(e, r) - 1
         /\ r % INPUT_BUF \in 0 .. INPUT_BUF - 1 /\ At(r) \in Stored
<1>1. /\ Plus(r, 1) \in 0 .. UINT - 1
      /\ Minus(w, Plus(r, 1)) = Minus(w, r) - 1
      /\ Minus(e, Plus(r, 1)) = Minus(e, r) - 1
  <2>1. e # r
    BY Bounds DEF TypeOK, RingOK, Minus
  <2>2. ASSUME NEW x \in 0 .. UINT - 1, x # r
        PROVE  Minus(x, Plus(r, 1)) = Minus(x, r) - 1
    BY <2>2, Bounds DEF TypeOK, Plus, Minus
  <2>3. Plus(r, 1) \in 0 .. UINT - 1
    BY Bounds DEF TypeOK, Plus
  <2> QED BY <2>1, <2>2, <2>3 DEF TypeOK
<1>2. r \in Int
  BY DEF TypeOK
<1>3. r % INPUT_BUF \in 0 .. INPUT_BUF - 1
  BY <1>2, SlotOf
<1> QED BY <1>1, <1>3 DEF TypeOK, At

(* The steps of a reader that leave the ring alone. *)
LEMMA QuietReader ==
  ASSUME RingInv, NEW p \in Readers,
         Call(p) \/ Acquire(p) \/ Return(p) \/ Sleep(p) \/ Kill(p)
  PROVE  RingInv'
<1>0. TypeOK /\ RingOK /\ NoneForgotten /\ CallInv /\ LineInv
  BY DEF RingInv
<1>1. UNCHANGED ring
  BY DEF Call, Acquire, Return, Sleep, Kill
<1>2. RingOK' /\ LineInv'
  BY <1>0, <1>1 DEF ring, RingOK, LineInv, At
<1>3. CASE Call(p)
  <2>1. PICK k \in Sizes : target' = [target EXCEPT ![p] = k] /\ n' = [n EXCEPT ![p] = k]
    BY <1>3 DEF Call
  <2>2. k \in Nat
    BY TerminalAssumption
  <2>3. <<>> \in Seq(Stored) /\ Len(<<>>) = 0
    BY EmptySeq
  <2>4. TypeOK'
    BY <1>0, <1>1, <1>3, <2>1, <2>2, <2>3 DEF TypeOK, Call, ring
  <2>5. CallInv'
    BY <1>0, <1>3, <2>1, <2>2, <2>3 DEF TypeOK, CallInv, Call
  <2>6. NoneForgotten'
    BY <1>0, <1>1, <1>3 DEF TypeOK, NoneForgotten, Call, ring
  <2> QED BY <1>2, <2>4, <2>5, <2>6 DEF RingInv
<1>4. CASE Acquire(p) \/ Return(p) \/ Sleep(p) \/ Kill(p)
  <2>0. UNCHANGED <<target, n, dst>>
    BY <1>4 DEF Acquire, Return, Sleep, Kill
  <2>1. TypeOK'
    BY <1>0, <1>1, <1>4, <2>0 DEF TypeOK, Acquire, Return, Leave, Sleep, Kill, ring
  <2>2. CallInv'
    BY <1>0, <1>4, <2>0, TerminalAssumption DEF TypeOK, CallInv, Acquire, Return, Leave, Sleep, Kill
  <2>3. NoneForgotten'
    BY <1>0, <1>1, <1>4 DEF TypeOK, NoneForgotten, Acquire, Return, Leave, Sleep, Kill, ring
  <2> QED BY <1>2, <2>1, <2>2, <2>3 DEF RingInv
<1> QED BY <1>3, <1>4

LEMMA TakingReader ==
  ASSUME RingInv, NEW p \in Readers, EndOfFile(p) \/ Take(p)
  PROVE  RingInv'
<1>0. TypeOK /\ RingOK /\ NoneForgotten /\ CallInv /\ LineInv
  BY DEF RingInv
<1>1. r # w /\ pc[p] = "loop" /\ n[p] > 0 /\ UNCHANGED <<buf, w, e, target>>
      /\ (r' = r \/ r' = Plus(r, 1))
  BY DEF EndOfFile, Take
<1>2. RingOK'
  <2>1. Minus(w, r) >= 1 /\ Minus(e, r) >= 1
    BY <1>0, <1>1, Bounds DEF TypeOK, RingOK, Minus
  <2>2. Minus(w, r) \in Int /\ Minus(e, r) \in Int /\ INPUT_BUF \in Int
    BY <1>0, Bounds DEF TypeOK, Minus
  <2> QED BY <1>0, <1>1, <2>1, <2>2, NextIndex DEF RingOK
<1>3. LineInv'
  BY <1>0, <1>1 DEF LineInv, At
<1>4. NoneForgotten'
  BY <1>0, <1>1 DEF TypeOK, NoneForgotten, EndOfFile, Take, Leave
<1>5. CASE EndOfFile(p)
  <2>1. TypeOK'
    BY <1>0, <1>1, <1>5, NextIndex DEF TypeOK, EndOfFile, Leave
  <2>2. CallInv'
    BY <1>0, <1>5, TerminalAssumption DEF TypeOK, CallInv, EndOfFile, Leave
  <2> QED BY <1>2, <1>3, <1>4, <2>1, <2>2 DEF RingInv
<1>6. CASE Take(p)
  <2>1. /\ Append(dst[p], At(r)) \in Seq(Stored)
        /\ Len(Append(dst[p], At(r))) = Len(dst[p]) + 1
        /\ Len(dst[p]) \in Nat
    <3>1. dst[p] \in Seq(Stored) /\ At(r) \in Stored
      BY <1>0, <1>1, NextIndex DEF TypeOK
    <3> QED BY <3>1, AppendProperties, LenProperties
  <2>2. dst' = [dst EXCEPT ![p] = Append(dst[p], At(r))] /\ n' = [n EXCEPT ![p] = n[p] - 1]
    BY <1>6 DEF Take
  <2>3. n[p] - 1 \in Nat
    BY <1>0, <1>1 DEF TypeOK
  <2>4. holder' \in Readers \cup {None} /\ killed' \in [Readers -> BOOLEAN]
        /\ pc' \in [Readers -> {"user", "acquire", "loop", "asleep"}]
    BY <1>0, <1>6 DEF TypeOK, Take, Leave
  <2>5. TypeOK'
    BY <1>0, <1>1, <2>1, <2>2, <2>3, <2>4, NextIndex DEF TypeOK
  <2>6. ASSUME NEW q \in Readers PROVE pc'[q] = "loop" <=> holder' = q
    BY <1>0, <1>6, TerminalAssumption DEF TypeOK, CallInv, Take, Leave
  <2>7. ASSUME NEW q \in Readers PROVE Len(dst'[q]) + n'[q] = target'[q]
    BY <1>0, <1>1, <2>1, <2>2, <2>3 DEF TypeOK, CallInv
  <2>8. CallInv'
    BY <2>6, <2>7 DEF CallInv
  <2> QED BY <1>2, <1>3, <1>4, <2>5, <2>8 DEF RingInv
<1> QED BY <1>5, <1>6

LEMMA RingStep == RingInv /\ [Next]_vars => RingInv'
<1> SUFFICES ASSUME RingInv, [Next]_vars PROVE RingInv'
  OBVIOUS
<1>1. CASE Intr
  BY <1>1, TypeStepInv, EraseInv DEF Intr
<1>2. ASSUME NEW p \in Readers, Call(p) \/ Step(p) \/ Kill(p) PROVE RingInv'
  BY <1>2, QuietReader, TakingReader DEF Step
<1>3. CASE UNCHANGED vars
  BY <1>3 DEF vars, ring, RingInv, TypeOK, RingOK, NoneForgotten, CallInv, LineInv, At
<1> QED BY <1>1, <1>2, <1>3 DEF Next

(* However interrupts and readers interleave and however often the indices
   wrap, the ring never holds more than it has slots for, a full ring has been
   sent, nobody sleeps on a line that has been sent, and a reader has stored
   what it has counted (console.c:187-264). *)
THEOREM RingCorrect == Spec => []RingInv
<1> QED BY RingInit, RingStep, PTL DEF Spec

-----------------------------------------------------------------------------
(* k characters of the ring b, from index x on, as a sequence: it grows and
   shrinks as the indices move. *)
Run(b, x, k) == [i \in 1 .. k |-> b[Plus(x, i - 1) % INPUT_BUF]]
Rings == [0 .. INPUT_BUF - 1 -> Stored]

LEMMA RunIsSeq ==
  ASSUME NEW b \in Rings, NEW x \in 0 .. UINT - 1, NEW k \in 0 .. UINT
  PROVE  /\ Run(b, x, k) \in Seq(Stored) /\ Len(Run(b, x, k)) = k
         /\ \A i \in 1 .. k : Run(b, x, k)[i] = b[Plus(x, i - 1) % INPUT_BUF]
<1>1. k \in Nat
  BY Bounds
<1>2. \A i \in 1 .. k : b[Plus(x, i - 1) % INPUT_BUF] \in Stored
  <2> TAKE i \in 1 .. k
  <2>1. Plus(x, i - 1) \in Int
    BY <1>1, Bounds DEF Plus
  <2>2. Plus(x, i - 1) % INPUT_BUF \in 0 .. INPUT_BUF - 1
    BY <2>1, SlotOf
  <2> QED BY <2>2 DEF Rings
<1>3. Run(b, x, k) \in [1 .. k -> Stored]
  BY <1>2 DEF Run
<1> QED BY <1>1, <1>3 DEF Run

LEMMA RunEmpty ==
  ASSUME NEW b \in Rings, NEW x \in 0 .. UINT - 1
  PROVE  Run(b, x, 0) = <<>>
<1>1. Run(b, x, 0) \in Seq(Stored) /\ Len(Run(b, x, 0)) = 0
  BY RunIsSeq, Bounds
<1> QED BY <1>1, EmptySeq

(* What is sent is followed by what is being typed. *)
LEMMA RunJoin ==
  ASSUME NEW b \in Rings, NEW x \in 0 .. UINT - 1, NEW j \in 0 .. INPUT_BUF,
         NEW k \in 0 .. INPUT_BUF
  PROVE  Run(b, x, j) \o Run(b, Plus(x, j), k) = Run(b, x, j + k)
<1> USE Bounds
<1> DEFINE s == Run(b, x, j)
           t == Run(b, Plus(x, j), k)
           u == Run(b, x, j + k)
<1>0. /\ j \in 0 .. UINT /\ k \in 0 .. UINT /\ j + k \in 0 .. UINT
      /\ Plus(x, j) \in 0 .. UINT - 1
  BY Bounds DEF Plus
<1>1. s \in Seq(Stored) /\ Len(s) = j /\ \A i \in 1 .. j : s[i] = b[Plus(x, i - 1) % INPUT_BUF]
  BY <1>0, RunIsSeq
<1>2. /\ t \in Seq(Stored) /\ Len(t) = k
      /\ \A i \in 1 .. k : t[i] = b[Plus(Plus(x, j), i - 1) % INPUT_BUF]
  BY <1>0, RunIsSeq
<1>3. /\ u \in Seq(Stored) /\ Len(u) = j + k
      /\ \A i \in 1 .. j + k : u[i] = b[Plus(x, i - 1) % INPUT_BUF]
  BY <1>0, RunIsSeq
<1> HIDE DEF s, t, u
<1>4. \A i \in 1 .. j + k : i > j => Plus(Plus(x, j), i - j - 1) = Plus(x, i - 1)
  BY Bounds DEF Plus
<1> DEFINE v == s \o t
<1>5. /\ v \in Seq(Stored) /\ Len(v) = j + k
      /\ \A i \in 1 .. j + k : v[i] = IF i <= j THEN s[i] ELSE t[i - j]
  BY <1>1, <1>2, ConcatProperties
<1> HIDE DEF v
<1>6. ASSUME NEW i \in 1 .. j + k PROVE v[i] = u[i]
  <2>0. i \in Int /\ j \in Int
    OBVIOUS
  <2>1. CASE i <= j
    BY <2>1, <1>1, <1>3, <1>5
  <2>2. CASE i > j
    <3>1. i - j \in 1 .. k
      BY <2>2
    <3>2. t[i - j] = b[Plus(Plus(x, j), i - j - 1) % INPUT_BUF]
      BY <3>1, <1>2
    <3>3. v[i] = t[i - j]
      BY <2>0, <2>2, <1>5
    <3> QED BY <2>2, <3>2, <3>3, <1>3, <1>4
  <2> QED BY <2>0, <2>1, <2>2
<1>7. v = u
  BY <1>3, <1>5, <1>6, SeqEqual
<1> QED BY <1>7 DEF s, t, u, v

(* A character is put behind k others. *)
PutAt(b2, b, x, c) ==
  /\ b2 \in Rings /\ b2[x % INPUT_BUF] = c
  /\ \A i \in 0 .. INPUT_BUF - 1 : i # x % INPUT_BUF => b2[i] = b[i]

LEMMA RunKeep ==
  ASSUME NEW b \in Rings, NEW x \in 0 .. UINT - 1, NEW k \in 0 .. INPUT_BUF - 1,
         NEW c \in Stored, NEW b2, PutAt(b2, b, Plus(x, k), c)
  PROVE  \A j \in 0 .. k : Run(b2, x, j) = Run(b, x, j)
<1>0. \A i \in 0 .. INPUT_BUF : Plus(x, i) % INPUT_BUF \in 0 .. INPUT_BUF - 1
  <2> TAKE i \in 0 .. INPUT_BUF
  <2>1. Plus(x, i) \in Int
    BY Bounds DEF Plus
  <2> QED BY <2>1, SlotOf
<1>1. ASSUME NEW i \in 0 .. k - 1
      PROVE  b2[Plus(x, i) % INPUT_BUF] = b[Plus(x, i) % INPUT_BUF]
  <2>1. i \in 0 .. INPUT_BUF - 1 /\ i # k
    BY Bounds
  <2>2. Plus(x, i) % INPUT_BUF # Plus(x, k) % INPUT_BUF
    BY <2>1, TwoSlots
  <2> QED BY <1>0, <2>1, <2>2, Bounds DEF PutAt
<1>2. ASSUME NEW j \in 0 .. k, NEW i \in 1 .. j
      PROVE  b2[Plus(x, i - 1) % INPUT_BUF] = b[Plus(x, i - 1) % INPUT_BUF]
  <2>1. i - 1 \in 0 .. k - 1
    BY Bounds
  <2> QED BY <1>1, <2>1
<1> QED BY <1>2 DEF Run

LEMMA RunPut ==
  ASSUME NEW b \in Rings, NEW x \in 0 .. UINT - 1, NEW k \in 0 .. INPUT_BUF - 1,
         NEW c \in Stored, NEW b2, PutAt(b2, b, Plus(x, k), c)
  PROVE  Run(b2, x, k + 1) = Append(Run(b, x, k), c)
<1> DEFINE s == Run(b, x, k)
           t == Run(b2, x, k + 1)
<1>0. k \in 0 .. UINT /\ k + 1 \in 0 .. UINT /\ k \in 0 .. k
  BY Bounds
<1>1. b2 \in Rings /\ b2[Plus(x, k) % INPUT_BUF] = c
  BY DEF PutAt
<1>2. s \in Seq(Stored) /\ Len(s) = k /\ s = Run(b2, x, k)
  BY <1>0, RunIsSeq, RunKeep
<1>3. \A i \in 1 .. k : s[i] = b2[Plus(x, i - 1) % INPUT_BUF]
  BY <1>0, <1>1, <1>2, RunIsSeq
<1>4. /\ t \in Seq(Stored) /\ Len(t) = k + 1
      /\ \A i \in 1 .. k + 1 : t[i] = b2[Plus(x, i - 1) % INPUT_BUF]
  BY <1>0, <1>1, RunIsSeq
<1> HIDE DEF s, t
<1>5. /\ Append(s, c) \in Seq(Stored) /\ Len(Append(s, c)) = k + 1
      /\ \A i \in 1 .. k : Append(s, c)[i] = s[i]
      /\ Append(s, c)[k + 1] = c
  BY <1>2, AppendProperties
<1>6. ASSUME NEW i \in 1 .. k + 1 PROVE Append(s, c)[i] = t[i]
  <2>1. CASE i = k + 1
    <3>1. i - 1 = k
      BY <2>1
    <3> QED BY <2>1, <3>1, <1>1, <1>4, <1>5
  <2>2. CASE i # k + 1
    <3>1. i \in 1 .. k
      BY <2>2
    <3> QED BY <3>1, <1>3, <1>4, <1>5
  <2> QED BY <2>1, <2>2
<1>7. t = Append(s, c)
  BY <1>4, <1>5, <1>6, SeqEqual
<1> QED BY <1>7 DEF s, t

(* The first one is taken, and the last one erased. *)
LEMMA RunTake ==
  ASSUME NEW b \in Rings, NEW x \in 0 .. UINT - 1, NEW k \in 1 .. INPUT_BUF
  PROVE  /\ Run(b, x, k) # <<>>
         /\ Head(Run(b, x, k)) = b[x % INPUT_BUF]
         /\ Tail(Run(b, x, k)) = Run(b, Plus(x, 1), k - 1)
         /\ SubSeq(Run(b, x, k), 1, k - 1) = Run(b, x, k - 1)
<1> DEFINE s == Run(b, x, k)
           t == Run(b, Plus(x, 1), k - 1)
           u == Run(b, x, k - 1)
<1>0. k \in 0 .. UINT /\ k - 1 \in 0 .. UINT /\ Plus(x, 1) \in 0 .. UINT - 1
      /\ Plus(x, 0) = x /\ 1 \in 1 .. k
  BY Bounds DEF Plus
<1>1. s \in Seq(Stored) /\ Len(s) = k /\ \A i \in 1 .. k : s[i] = b[Plus(x, i - 1) % INPUT_BUF]
  BY <1>0, RunIsSeq
<1>2. /\ t \in Seq(Stored) /\ Len(t) = k - 1
      /\ \A i \in 1 .. k - 1 : t[i] = b[Plus(Plus(x, 1), i - 1) % INPUT_BUF]
  BY <1>0, RunIsSeq
<1>3. /\ u \in Seq(Stored) /\ Len(u) = k - 1
      /\ \A i \in 1 .. k - 1 : u[i] = b[Plus(x, i - 1) % INPUT_BUF]
  BY <1>0, RunIsSeq
<1> HIDE DEF s, t, u
<1>4. s # <<>>
  BY <1>1, EmptySeq
<1>5. Head(s) = b[x % INPUT_BUF]
  <2>1. Head(s) = s[1] /\ 1 - 1 = 0
    BY <1>1, <1>4
  <2> QED BY <2>1, <1>0, <1>1
<1>6. /\ Tail(s) \in Seq(Stored) /\ Len(Tail(s)) = k - 1
      /\ \A i \in 1 .. k - 1 : Tail(s)[i] = s[i + 1]
  BY <1>1, <1>4, HeadTailProperties
<1>7. ASSUME NEW i \in 1 .. k - 1 PROVE Tail(s)[i] = t[i]
  <2>1. i + 1 \in 1 .. k /\ Plus(x, (i + 1) - 1) = Plus(Plus(x, 1), i - 1)
    BY Bounds DEF Plus
  <2> QED BY <2>1, <1>1, <1>2, <1>6
<1>8. Tail(s) = t
  BY <1>2, <1>6, <1>7, SeqEqual
<1>9. /\ SubSeq(s, 1, k - 1) \in Seq(Stored) /\ Len(SubSeq(s, 1, k - 1)) = k - 1
      /\ \A i \in 1 .. k - 1 : SubSeq(s, 1, k - 1)[i] = s[i]
  <2>1. \A i \in 1 .. k - 1 : s[i] \in Stored
    BY <1>1, ElementOfSeq
  <2>2. 1 \in Int /\ k - 1 \in Int
    OBVIOUS
  <2> QED BY <2>1, <2>2, <1>1, SubSeqProperties
<1>10. SubSeq(s, 1, k - 1) = u
  <2>1. ASSUME NEW i \in 1 .. k - 1 PROVE SubSeq(s, 1, k - 1)[i] = u[i]
    <3>1. i \in 1 .. k
      OBVIOUS
    <3> QED BY <3>1, <1>1, <1>3, <1>9
  <2> QED BY <2>1, <1>3, <1>9, SeqEqual
<1> QED BY <1>4, <1>5, <1>8, <1>10 DEF s, t, u

-----------------------------------------------------------------------------
(* The line and the queue of a state. *)
LEMMA Mapped ==
  ASSUME RingInv
  PROVE  /\ buf \in Rings /\ r \in 0 .. UINT - 1 /\ w \in 0 .. UINT - 1 /\ e \in 0 .. UINT - 1
         /\ Part(w, e) = Run(buf, w, Minus(e, w)) /\ Part(r, w) = Run(buf, r, Minus(w, r))
         /\ Part(w, e) \in Seq(Stored) /\ Len(Part(w, e)) = Minus(e, w)
         /\ Part(r, w) \in Seq(Stored) /\ Len(Part(r, w)) = Minus(w, r)
<1>1. buf \in Rings /\ r \in 0 .. UINT - 1 /\ w \in 0 .. UINT - 1 /\ e \in 0 .. UINT - 1
  BY DEF RingInv, TypeOK, Rings
<1>2. Part(w, e) = Run(buf, w, Minus(e, w)) /\ Part(r, w) = Run(buf, r, Minus(w, r))
  BY DEF Part, Run, At
<1>3. Minus(e, w) \in 0 .. UINT /\ Minus(w, r) \in 0 .. UINT
  BY <1>1, Bounds DEF Minus
<1> QED BY <1>1, <1>2, <1>3, RunIsSeq

LEMMA LinesInit == Init => Lines!Init
<1> SUFFICES ASSUME Init PROVE Lines!Init
  OBVIOUS
<1>1. Part(w, e) = <<>> /\ Part(r, w) = <<>>
  <2>1. r = 0 /\ w = 0 /\ e = 0 /\ Minus(0, 0) = 0 /\ 0 \in 0 .. UINT - 1
    BY Bounds DEF Init, Minus
  <2>2. Run(buf, 0, 0) = <<>>
    BY <2>1, RingInit, Mapped, RunEmpty
  <2> QED BY <2>1, <2>2, RingInit, Mapped
<1>2. {p \in Readers : pc[p] # "user"} = {}
  BY DEF Init
<1> QED BY <1>1, <1>2 DEF Init, Lines!Init

(* A key typed into the ring is typed into the line. *)
LEMMA LinesType ==
  ASSUME RingInv, RingInv', NEW key \in Stored \cup {"\r"}, Type(key)
  PROVE  \E c \in Letters \cup {"\n", "^D"} : Lines!Type(c)
<1> USE Bounds
<1> DEFINE c == IF key = "\r" THEN "\n" ELSE key
           next == Plus(e, 1)
           k == Minus(e, w)
           m == Minus(w, r)
<1>0. TypeOK /\ RingOK
  BY DEF RingInv
<1>1. c \in Stored
  BY DEF Stored
<1>2. /\ r' = r /\ e' = next /\ buf' = [buf EXCEPT ![e % INPUT_BUF] = c]
      /\ w' = IF Sends(c, next) THEN next ELSE w
      /\ UNCHANGED <<target, n, dst>>
      /\ m + k < INPUT_BUF
  BY <1>0, Order DEF Type, HasRoom
<1>3. /\ m \in 0 .. INPUT_BUF /\ k \in 0 .. INPUT_BUF - 1 /\ m + k \in 0 .. INPUT_BUF - 1
      /\ Plus(w, k) = e /\ Plus(r, m + k) = e /\ Plus(r, m) = w
  <2>1. m \in 0 .. INPUT_BUF /\ k \in 0 .. INPUT_BUF
    BY <1>0, Order
  <2> QED BY <1>0, <1>2, <2>1, Order
<1>4. /\ Minus(next, w) = k + 1 /\ Minus(next, r) = m + k + 1
      /\ Minus(next, next) = 0 /\ next \in 0 .. UINT - 1
      /\ next = Plus(r, INPUT_BUF) <=> m + k + 1 = INPUT_BUF
  BY <1>0, <1>2, <1>3 DEF TypeOK, RingOK, Plus, Minus
<1> DEFINE d == m + k
<1>5. /\ buf' \in Rings
      /\ Run(buf', r, m) = Run(buf, r, m)
      /\ Run(buf', r, d + 1) = Append(Run(buf, r, d), c)
      /\ Run(buf', w, k + 1) = Append(Run(buf, w, k), c)
  <2>1. m \in 0 .. d
    BY <1>3
  <2>2. buf \in Rings /\ r \in 0 .. UINT - 1 /\ w \in 0 .. UINT - 1 /\ e \in Int
    BY Mapped
  <2>3. buf' \in Rings /\ PutAt(buf', buf, Plus(r, d), c) /\ PutAt(buf', buf, Plus(w, k), c)
    <3>1. e % INPUT_BUF \in 0 .. INPUT_BUF - 1
      BY <2>2, SlotOf
    <3>2. buf' \in Rings /\ PutAt(buf', buf, e, c)
      BY <1>1, <1>2, <2>2, <3>1 DEF Rings, PutAt
    <3> QED BY <1>3, <3>2
  <2> HIDE DEF c, k, m, d
  <2>4. /\ \A j \in 0 .. d : Run(buf', r, j) = Run(buf, r, j)
        /\ Run(buf', r, d + 1) = Append(Run(buf, r, d), c)
    <3>1. d \in 0 .. INPUT_BUF - 1
      BY <1>3 DEF d
    <3>2. Run(buf', r, d + 1) = Append(Run(buf, r, d), c)
      BY <1>1, <3>1, <2>2, <2>3, RunPut
    <3>3. ASSUME NEW j \in 0 .. d PROVE Run(buf', r, j) = Run(buf, r, j)
      BY <1>1, <3>1, <2>2, <2>3, RunKeep
    <3> QED BY <3>2, <3>3
  <2>5. Run(buf', w, k + 1) = Append(Run(buf, w, k), c)
    BY <1>1, <1>3, <2>2, <2>3, RunPut
  <2> QED BY <2>1, <2>3, <2>4, <2>5
<1>6. Run(buf, r, d) = Part(r, w) \o Part(w, e)
  <2>1. buf \in Rings /\ r \in 0 .. UINT - 1 /\ k \in 0 .. INPUT_BUF
    BY <1>3, Mapped
  <2>2. Run(buf, r, m) \o Run(buf, Plus(r, m), k) = Run(buf, r, m + k)
    BY <1>3, <2>1, RunJoin
  <2> QED BY <2>2, <1>3, Mapped
<1>7. Append(Part(r, w) \o Part(w, e), c) = Part(r, w) \o Append(Part(w, e), c)
  <2> DEFINE s == Part(r, w)
             t == Part(w, e)
  <2>1. s \in Seq(Stored) /\ t \in Seq(Stored)
    BY Mapped
  <2> HIDE DEF s, t, c
  <2>2. s \o t \in Seq(Stored) /\ <<c>> \in Seq(Stored)
    BY <2>1, <1>1, ConcatProperties
  <2>3. Append(s \o t, c) = (s \o t) \o <<c>> /\ Append(t, c) = t \o <<c>>
    BY <2>1, <2>2, <1>1, AppendIsConcat
  <2>4. (s \o t) \o <<c>> = s \o (t \o <<c>>)
    BY <2>1, <2>2, ConcatAssociative
  <2> QED BY <2>3, <2>4 DEF s, t
<1>8. {p \in Readers : pc'[p] # "user"} = {p \in Readers : pc[p] # "user"}
  BY <1>0 DEF TypeOK, Type, Wakeup
<1>9. Len(Part(r, w)) + Len(Append(Part(w, e), c)) = m + k + 1
  BY <1>1, <1>3, Mapped, AppendProperties
<1>10. Sends(c, next) <=> c \in {"\n", "^D"} \/ Len(Part(r, w)) + Len(Append(Part(w, e), c)) = INPUT_BUF
  BY <1>4, <1>9 DEF Sends
<1>11. CASE Sends(c, next)
  <2>1. Part(r, w)' = Part(r, w) \o Append(Part(w, e), c)
    <3>1. Part(r, w)' = Run(buf', r, d + 1)
      BY <1>2, <1>4, <1>11 DEF Part, Run, At
    <3> QED BY <3>1, <1>5, <1>6, <1>7
  <2>2. Part(w, e)' = <<>>
    BY <1>2, <1>4, <1>5, <1>11, RunEmpty DEF Part, Run, At
  <2>3. Lines!Type(c)
    BY <1>2, <1>3, <1>8, <1>10, <1>11, <2>1, <2>2, Mapped DEF Lines!Type
  <2> QED BY <2>3, <1>1 DEF Stored
<1>12. CASE ~Sends(c, next)
  <2>1. Part(r, w)' = Part(r, w)
    BY <1>2, <1>4, <1>5, <1>12 DEF Part, Run, At
  <2>2. Part(w, e)' = Append(Part(w, e), c)
    BY <1>2, <1>4, <1>5, <1>12 DEF Part, Run, At
  <2>3. Lines!Type(c)
    BY <1>2, <1>3, <1>8, <1>10, <1>12, <2>1, <2>2, Mapped DEF Lines!Type
  <2> QED BY <2>3, <1>1 DEF Stored
<1> QED BY <1>11, <1>12

(* Backspace erases the last character of the line; ^U all of it, because the
   line holds no end of line at which it would stop. *)
LEMMA LinesErase ==
  ASSUME RingInv, RingInv', Erase \/ KillLine
  PROVE  Lines!Erase \/ Lines!KillLine
<1> USE Bounds
<1> DEFINE k == Minus(e, w)
<1>0. TypeOK /\ RingOK /\ LineInv
  BY DEF RingInv
<1>1. UNCHANGED <<buf, r, w, holder, pc, target, n, dst, killed>>
  BY DEF Erase, KillLine
<1>2. UNCHANGED <<{p \in Readers : pc[p] # "user"}, target, dst>> /\ Part(r, w)' = Part(r, w)
  BY <1>1 DEF Part, At
<1>3. buf \in Rings /\ w \in 0 .. UINT - 1 /\ e \in 0 .. UINT - 1 /\ k \in 0 .. INPUT_BUF
  BY <1>0, Mapped, Order
<1>4. CASE Erase
  <2>1. k \in 1 .. INPUT_BUF /\ Minus(e', w) = k - 1
    BY <1>0, <1>3, <1>4 DEF Erase, TypeOK, Minus
  <2>2. Part(w, e)' = Run(buf, w, k - 1)
    BY <1>1, <2>1 DEF Part, Run, At
  <2>3. /\ Run(buf, w, k) # <<>>
        /\ SubSeq(Run(buf, w, k), 1, k - 1) = Run(buf, w, k - 1)
    BY <1>3, <2>1, RunTake
  <2> QED BY <1>2, <2>2, <2>3, Mapped DEF Lines!Erase
<1>5. CASE KillLine
  <2>1. PICK j \in 0 .. k : /\ j = k \/ At(Minus(e, j + 1)) = "\n"
                            /\ e' = Minus(e, j)
    BY <1>5 DEF KillLine
  <2>2. j = k
    <3> SUFFICES ASSUME j # k PROVE FALSE
      OBVIOUS
    <3>1. k - j - 1 \in 0 .. k - 1 /\ Plus(w, k - j - 1) = Minus(e, j + 1)
      BY <1>3 DEF Plus, Minus
    <3>2. At(Plus(w, k - j - 1)) # "\n"
      BY <3>1, <1>0 DEF LineInv
    <3> QED BY <2>1, <3>1, <3>2
  <2>3. e' = w /\ Minus(w, w) = 0
    BY <1>3, <2>1, <2>2 DEF Minus
  <2>4. Part(w, e)' = Run(buf, w, 0)
    BY <1>1, <2>3 DEF Part, Run, At
  <2> QED BY <1>2, <1>3, <2>4, RunEmpty DEF Lines!KillLine
<1> QED BY <1>4, <1>5

(* A reader takes the head of the queue, or finds the end-of-file key there. *)
LEMMA LinesTaking ==
  ASSUME RingInv, RingInv', NEW p \in Readers, EndOfFile(p) \/ Take(p)
  PROVE  Lines!EndOfFile(p) \/ Lines!Take(p)
<1> USE Bounds
<1> DEFINE m == Minus(w, r)
<1>0. TypeOK /\ RingOK /\ CallInv
  BY DEF RingInv
<1>1. /\ r # w /\ pc[p] = "loop" /\ n[p] > 0 /\ UNCHANGED <<buf, w, e, target>>
      /\ p \in {q \in Readers : pc[q] # "user"}
  BY DEF EndOfFile, Take
<1>2. /\ buf \in Rings /\ r \in 0 .. UINT - 1 /\ m \in 1 .. INPUT_BUF
      /\ Minus(w, Plus(r, 1)) = m - 1
  <2>1. buf \in Rings /\ r \in 0 .. UINT - 1 /\ w \in 0 .. UINT - 1 /\ m \in 0 .. INPUT_BUF
    BY <1>0, Mapped, Order
  <2>2. m # 0
    BY <1>1, <2>1 DEF Minus
  <2> QED BY <1>0, <1>1, <2>1, <2>2, NextIndex
<1>3. /\ Part(r, w) # <<>> /\ Head(Part(r, w)) = At(r)
      /\ Tail(Part(r, w)) = Run(buf, Plus(r, 1), m - 1)
  <2>1. Part(r, w) = Run(buf, r, m)
    BY Mapped
  <2>2. /\ Run(buf, r, m) # <<>> /\ Head(Run(buf, r, m)) = buf[r % INPUT_BUF]
        /\ Tail(Run(buf, r, m)) = Run(buf, Plus(r, 1), m - 1)
    <3> HIDE DEF m
    <3> QED BY <1>2, RunTake
  <2> QED BY <2>1, <2>2 DEF At
<1>4. Part(w, e)' = Part(w, e)
  BY <1>1 DEF Part, At
<1>5. r' = Plus(r, 1) => Part(r, w)' = Tail(Part(r, w))
  BY <1>1, <1>2, <1>3 DEF Part, Run, At
<1>6. r' = r => Part(r, w)' = Part(r, w)
  BY <1>1 DEF Part, At
<1>7. /\ dst[p] \in Seq(Stored) /\ Len(dst[p]) \in Nat
      /\ Len(dst[p]) < target[p] /\ (dst[p] = <<>> <=> ~(n[p] < target[p]))
  <2>1. dst[p] \in Seq(Stored) /\ Len(dst[p]) + n[p] = target[p] /\ n[p] \in Nat /\ target[p] \in Nat
    BY <1>0 DEF TypeOK, CallInv
  <2>2. Len(dst[p]) \in Nat /\ (dst[p] = <<>> <=> Len(dst[p]) = 0)
    BY <2>1, EmptySeq, LenProperties
  <2> QED BY <1>1, <2>1, <2>2
<1>8. CASE EndOfFile(p)
  <2>1. {q \in Readers : pc'[q] # "user"} = {q \in Readers : pc[q] # "user"} \ {p}
    BY <1>0, <1>8 DEF TypeOK, EndOfFile, Leave
  <2>2. Part(r, w)' = IF dst[p] = <<>> THEN Tail(Part(r, w)) ELSE Part(r, w)
    BY <1>5, <1>6, <1>7, <1>8 DEF EndOfFile
  <2>3. Head(Part(r, w)) = "^D" /\ UNCHANGED <<target, dst>>
    BY <1>3, <1>8 DEF EndOfFile
  <2>4. Lines!EndOfFile(p)
    BY <1>1, <1>3, <1>4, <1>7, <2>1, <2>2, <2>3 DEF Lines!EndOfFile
  <2> QED BY <2>4
<1>9. CASE Take(p)
  <2>1. {q \in Readers : pc'[q] # "user"}
          = IF At(r) = "\n" THEN {q \in Readers : pc[q] # "user"} \ {p}
            ELSE {q \in Readers : pc[q] # "user"}
    BY <1>0, <1>9 DEF TypeOK, Take, Leave
  <2>2. /\ dst' = [dst EXCEPT ![p] = Append(@, Head(Part(r, w)))]
        /\ Head(Part(r, w)) # "^D" /\ UNCHANGED target /\ r' = Plus(r, 1)
    BY <1>3, <1>9 DEF Take
  <2>3. Lines!Take(p)
    BY <1>1, <1>3, <1>4, <1>5, <1>7, <2>1, <2>2 DEF Lines!Take
  <2> QED BY <2>3
<1> QED BY <1>8, <1>9

LEMMA LinesQuiet ==
  ASSUME RingInv, NEW p \in Readers,
         Call(p) \/ Acquire(p) \/ Return(p) \/ Sleep(p) \/ Kill(p)
  PROVE  Lines!Call(p) \/ Lines!Return(p) \/ UNCHANGED Lines!vars
<1>0. TypeOK /\ CallInv
  BY DEF RingInv
<1>1. UNCHANGED <<Part(w, e), Part(r, w)>>
  BY DEF Call, Acquire, Return, Sleep, Kill, ring, Part, At
<1>2. CASE Call(p)
  <2>1. {q \in Readers : pc'[q] # "user"} = {q \in Readers : pc[q] # "user"} \cup {p}
    BY <1>0, <1>2 DEF TypeOK, Call
  <2>2. p \notin {q \in Readers : pc[q] # "user"}
    BY <1>2 DEF Call
  <2> QED BY <1>1, <1>2, <2>1, <2>2 DEF Call, Lines!Call
<1>3. CASE Return(p)
  <2>1. {q \in Readers : pc'[q] # "user"} = {q \in Readers : pc[q] # "user"} \ {p}
        /\ p \in {q \in Readers : pc[q] # "user"} /\ UNCHANGED <<target, dst>>
    BY <1>0, <1>3 DEF TypeOK, Return, Leave
  <2>2. Len(dst[p]) = target[p] \/ Part(r, w) = <<>>
    <3>1. CASE n[p] = 0
      <4>1. Len(dst[p]) \in Nat /\ Len(dst[p]) + n[p] = target[p]
        BY <1>0, LenProperties DEF TypeOK, CallInv
      <4> QED BY <3>1, <4>1
    <3>2. CASE r = w
      <4>1. Minus(w, r) = 0
        BY <3>2, Mapped, Unsigned
      <4> QED BY <4>1, Mapped, RunEmpty
    <3> QED BY <1>3, <3>1, <3>2 DEF Return
  <2> QED BY <1>1, <2>1, <2>2 DEF Lines!Return
<1>4. CASE Acquire(p) \/ Sleep(p) \/ Kill(p)
  <2>1. {q \in Readers : pc'[q] # "user"} = {q \in Readers : pc[q] # "user"}
    BY <1>0, <1>4 DEF TypeOK, Acquire, Sleep, Kill
  <2>2. UNCHANGED <<target, dst>>
    BY <1>4 DEF Acquire, Sleep, Kill
  <2> QED BY <1>1, <2>1, <2>2 DEF Lines!vars
<1> QED BY <1>2, <1>3, <1>4

LEMMA LinesStep == RingInv /\ RingInv' /\ [Next]_vars => [Lines!Next]_(Lines!vars)
<1> SUFFICES ASSUME RingInv, RingInv', [Next]_vars PROVE [Lines!Next]_(Lines!vars)
  OBVIOUS
<1>1. CASE Intr
  BY <1>1, LinesType, LinesErase DEF Intr, Lines!Next
<1>2. ASSUME NEW p \in Readers, Call(p) \/ Step(p) \/ Kill(p)
      PROVE  [Lines!Next]_(Lines!vars)
  BY <1>2, LinesQuiet, LinesTaking DEF Step, Lines!Next
<1>3. CASE UNCHANGED vars
  BY <1>3 DEF vars, ring, Lines!vars, Part, At
<1> QED BY <1>1, <1>2, <1>3 DEF Next

(* The ring with its wrapping indices, the handlers and the sleeping readers
   implement a line that is edited and a queue of what was sent: everything
   typed and not erased is read once and in order, ^U erases the line and
   nothing that was sent, a call gets at most a line, and a ^D that ends a call
   with characters is kept for the next (console.c:187-264). *)
THEOREM LineRefinement == Spec => ImplementsLineInput
<1> QED
  BY RingInit, RingStep, LinesInit, LinesStep, PTL
  DEF Spec, ImplementsLineInput, Lines!Spec
=============================================================================

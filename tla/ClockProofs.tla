---------------------------- MODULE ClockProofs -----------------------------
(***************************************************************************)
(* Proofs about Clock, for any number of CPUs and processes and any width  *)
(* of the clock: the locks have one holder and are taken in one order,     *)
(* interrupts are on and off where they should be, and no tick is lost.    *)
(*                                                                         *)
(* A stack is judged by its steps: which locks are held at each of them    *)
(* follows from the steps below it, so every call is checked once, where   *)
(* its steps are put on the stack.                                         *)
(***************************************************************************)
EXTENDS Clock, FiniteSetTheorems, SequenceTheorems, TLAPS

\* Steps of any stack, and of a process's alone.
Common   == {"pushcli", "xchg", "release", "tick", "wakeup1", "preempt", "iret"}
ProcOnly == {"ready", "doze", "sched", "intena", "kill", "ticks0", "nap", "sysret"}
Steps ==
  (Common \cup ProcOnly \cup {"pick"}) \X (Locks \cup {None} \cup BOOLEAN \cup Procs)

\* The locks that the steps t give back before they take them.
Held(t) ==
  {l \in Locks : \E i \in 1 .. Len(t) :
     t[i] = <<"release", l>> /\ \A j \in 1 .. i - 1 : t[j] # <<"xchg", l>>}

\* Steps in front of a stack.
Push(s, t) == <<s>> \o t
Cat(a, b) == a \o b

\* Some step of t is of kind op; the next one is.
Has(t, op) == \E i \in 1 .. Len(t) : t[i][1] = op
Top(t, op) == t # <<>> /\ Head(t)[1] = op

\* Step s can be in front of the steps t: the locks it takes and gives back,
\* those held there, what the code puts next to it, and how far doze and
\* wakeup1 can be ahead.
Takes(s, t) ==
  /\ s[1] \in {"pushcli", "xchg", "release"} => s[2] \in Locks
  /\ s[1] = "pushcli" => t # <<>> /\ Head(t) = <<"xchg", s[2]>> /\ (s[2] = "tickslock" => Held(t) = {})
  /\ s[1] = "xchg" => s[2] \in Held(t) /\ (s[2] = "tickslock" => Held(t) = {"tickslock"})
  /\ s[1] = "release" => s[2] \notin Held(t)
  /\ s[1] # "pushcli" => ~Top(t, "xchg")
Under(s, t) ==
  /\ s[1] \in {"ready", "doze", "sched", "intena", "kill", "pick"} => Held(t) = {"ptable"}
  /\ s[1] = "wakeup1" => Held(t) = Locks
  /\ s[1] \in {"tick", "ticks0", "nap"} => Held(t) = {"tickslock"}
  /\ s[1] \in {"preempt", "iret", "sysret"} => Held(t) = {}
Order(s, t) ==
  /\ s[1] \in {"ready", "doze"} => Top(t, "sched")
  /\ s[1] \notin {"ready", "doze"} => ~Top(t, "sched")
  /\ ~Top(t, "intena")
  /\ s[1] = "kill" => s[2] \in Procs
  /\ s[1] = "pick" => t = << <<"release", "ptable">> >>
  /\ s[1] = "sysret" => t = <<>> /\ s[2] = TRUE
  /\ s[1] = "iret" => ~Has(t, "iret") /\ s[2] = TRUE
  /\ s[1] = "intena" => s[2] \in BOOLEAN
  /\ s[1] = "wakeup1" => s[2] = None
  /\ s[1] \in {"preempt", "wakeup1"} => Has(t, "iret")
  /\ s[1] = "tick" => Has(t, "wakeup1")
Ahead(s, t) ==
  /\ Has(t, "doze") => s[1] \in {"pushcli", "xchg", "release"} /\ Held(Push(s, t)) # {}
  /\ Has(t, "wakeup1") => s[1] \in {"pushcli", "xchg", "tick"} /\ Has(t, "iret")
Good(s, t) == Takes(s, t) /\ Under(s, t) /\ Order(s, t) /\ Ahead(s, t)

StackOK(t) == \A k \in 1 .. Len(t) : Good(t[k], SubSeq(t, k + 1, Len(t)))

-----------------------------------------------------------------------------
(* Steps in front of a stack.                                              *)

LEMMA Pushed ==
  ASSUME NEW s \in Steps, NEW t \in Seq(Steps), NEW u, u = Push(s, t)
  PROVE  /\ u \in Seq(Steps) /\ u # <<>> /\ Head(u) = s /\ Tail(u) = t
         /\ Len(t) \in Nat /\ Len(u) = Len(t) + 1 /\ u[1] = s
         /\ \A i \in 1 .. Len(t) : u[i + 1] = t[i]
<1>1. <<s>> \in Seq(Steps) /\ Len(<<s>>) = 1 /\ <<s>>[1] = s
  OBVIOUS
<1>2. u \in Seq(Steps) /\ Len(u) = Len(t) + 1 /\ Len(t) \in Nat
  BY <1>1 DEF Push
<1>3. \A i \in 1 .. Len(u) : u[i] = IF i <= 1 THEN <<s>>[i] ELSE t[i - 1]
  BY <1>1, <1>2 DEF Push
<1>4. u[1] = s /\ u # <<>> /\ Head(u) = s
  BY <1>1, <1>2, <1>3
<1>5. \A i \in 1 .. Len(t) : u[i + 1] = t[i]
  BY <1>2, <1>3
<1>6. Tail(u) = t
  <2>1. Tail(u) \in Seq(Steps) /\ Len(Tail(u)) = Len(t)
    BY <1>2, <1>4
  <2>2. \A i \in 1 .. Len(t) : Tail(u)[i] = t[i]
    BY <1>2, <1>4, <1>5
  <2>. QED BY <2>1, <2>2, SeqEqual
<1>. QED BY <1>2, <1>4, <1>5, <1>6

LEMMA Popped ==
  ASSUME NEW u \in Seq(Steps), u # <<>>
  PROVE  Head(u) \in Steps /\ Tail(u) \in Seq(Steps) /\ u = Push(Head(u), Tail(u))
<1>. DEFINE w == <<Head(u)>> \o Tail(u)
<1>1. Head(u) \in Steps /\ Tail(u) \in Seq(Steps) /\ Len(u) \in Nat /\ Len(u) > 0 /\ Len(Tail(u)) = Len(u) - 1
  BY EmptySeq
<1>2. w \in Seq(Steps) /\ Len(w) = Len(u)
  BY <1>1
<1>3. \A i \in 1 .. Len(u) : w[i] = u[i]
  BY <1>1
<1>. HIDE DEF w
<1>4. w = u
  BY <1>2, <1>3, SeqEqual
<1>. QED BY <1>1, <1>4 DEF w, Push

\* What is held in front of step s.
LEMMA HeldPush ==
  ASSUME NEW s \in Steps, NEW t \in Seq(Steps), NEW l \in Locks
  PROVE  l \in Held(Push(s, t)) <=> s = <<"release", l>> \/ (s # <<"xchg", l>> /\ l \in Held(t))
<1>. DEFINE u == Push(s, t)
<1>1. /\ u \in Seq(Steps) /\ Len(t) \in Nat /\ Len(u) = Len(t) + 1 /\ u[1] = s
      /\ \A i \in 1 .. Len(t) : u[i + 1] = t[i]
  BY Pushed
<1>. HIDE DEF u
<1>2. ASSUME l \in Held(u)
      PROVE  s = <<"release", l>> \/ (s # <<"xchg", l>> /\ l \in Held(t))
  <2>1. PICK i \in 1 .. Len(u) : u[i] = <<"release", l>> /\ \A j \in 1 .. i - 1 : u[j] # <<"xchg", l>>
    BY <1>2 DEF Held
  <2>2. CASE i = 1
    BY <2>1, <2>2, <1>1
  <2>3. CASE i # 1
    <3>1. i - 1 \in 1 .. Len(t) /\ u[i] = t[i - 1] /\ 1 \in 1 .. i - 1
      BY <2>3, <1>1
    <3>2. ASSUME NEW j \in 1 .. (i - 1) - 1
          PROVE  t[j] # <<"xchg", l>>
      <4>1. j \in 1 .. Len(t) /\ j + 1 \in 1 .. i - 1 /\ u[j + 1] = t[j]
        BY <1>1
      <4>. QED BY <4>1, <2>1
    <3>3. l \in Held(t)
      BY <3>1, <3>2, <2>1 DEF Held
    <3>. QED BY <3>1, <3>3, <2>1, <1>1
  <2>. QED BY <2>2, <2>3
<1>3. ASSUME s = <<"release", l>>
      PROVE  l \in Held(u)
  <2>1. 1 \in 1 .. Len(u) /\ u[1] = <<"release", l>> /\ \A j \in 1 .. 1 - 1 : u[j] # <<"xchg", l>>
    BY <1>1, <1>3
  <2>. QED BY <2>1 DEF Held
<1>4. ASSUME s # <<"xchg", l>>, l \in Held(t)
      PROVE  l \in Held(u)
  <2>1. PICK i \in 1 .. Len(t) : t[i] = <<"release", l>> /\ \A j \in 1 .. i - 1 : t[j] # <<"xchg", l>>
    BY <1>4 DEF Held
  <2>2. i + 1 \in 1 .. Len(u) /\ u[i + 1] = <<"release", l>>
    BY <2>1, <1>1
  <2>3. ASSUME NEW j \in 1 .. (i + 1) - 1
        PROVE  u[j] # <<"xchg", l>>
    <3>1. CASE j = 1
      BY <3>1, <1>1, <1>4
    <3>2. CASE j # 1
      <4>1. j - 1 \in 1 .. i - 1 /\ (j - 1) + 1 = j
        BY <3>2
      <4>2. j - 1 \in 1 .. Len(t)
        BY <4>1, <1>1
      <4>3. u[(j - 1) + 1] = t[j - 1]
        BY <4>2, <1>1
      <4>. QED BY <4>1, <4>3, <2>1
    <3>. QED BY <3>1, <3>2
  <2>. QED BY <2>2, <2>3 DEF Held
<1>. QED BY <1>2, <1>3, <1>4 DEF u

LEMMA HasPush ==
  ASSUME NEW s \in Steps, NEW t \in Seq(Steps), NEW op
  PROVE  Has(Push(s, t), op) <=> s[1] = op \/ Has(t, op)
<1>. DEFINE u == Push(s, t)
<1>1. /\ u \in Seq(Steps) /\ Len(t) \in Nat /\ Len(u) = Len(t) + 1 /\ u[1] = s
      /\ \A i \in 1 .. Len(t) : u[i + 1] = t[i]
  BY Pushed
<1>. HIDE DEF u
<1>2. ASSUME Has(u, op)
      PROVE  s[1] = op \/ Has(t, op)
  <2>1. PICK i \in 1 .. Len(u) : u[i][1] = op
    BY <1>2 DEF Has
  <2>2. CASE i = 1
    BY <2>1, <2>2, <1>1
  <2>3. CASE i # 1
    <3>1. i - 1 \in 1 .. Len(t) /\ u[(i - 1) + 1] = t[i - 1] /\ (i - 1) + 1 = i
      BY <2>3, <1>1
    <3>. QED BY <3>1, <2>1 DEF Has
  <2>. QED BY <2>2, <2>3
<1>3. ASSUME s[1] = op
      PROVE  Has(u, op)
  <2>1. 1 \in 1 .. Len(u) /\ u[1][1] = op
    BY <1>1, <1>3
  <2>. QED BY <2>1 DEF Has
<1>4. ASSUME Has(t, op)
      PROVE  Has(u, op)
  <2>1. PICK i \in 1 .. Len(t) : t[i][1] = op
    BY <1>4 DEF Has
  <2>2. i + 1 \in 1 .. Len(u) /\ u[i + 1][1] = op
    BY <2>1, <1>1
  <2>. QED BY <2>2 DEF Has
<1>. QED BY <1>2, <1>3, <1>4 DEF u

LEMMA StackPush ==
  ASSUME NEW s \in Steps, NEW t \in Seq(Steps)
  PROVE  StackOK(Push(s, t)) <=> Good(s, t) /\ StackOK(t)
<1>. DEFINE u == Push(s, t)
<1>1. /\ u \in Seq(Steps) /\ Len(t) \in Nat /\ Len(u) = Len(t) + 1 /\ u[1] = s
      /\ \A i \in 1 .. Len(t) : u[i + 1] = t[i]
  BY Pushed
<1>. HIDE DEF u
<1>2. \A k \in 1 .. Len(t) + 1 : /\ SubSeq(u, k + 1, Len(u)) \in Seq(Steps)
                                 /\ Len(SubSeq(u, k + 1, Len(u))) = Len(u) - k
                                 /\ \A i \in 1 .. Len(u) - k : SubSeq(u, k + 1, Len(u))[i] = u[k + i]
  <2>. SUFFICES ASSUME NEW k \in 1 .. Len(t) + 1
                PROVE  /\ SubSeq(u, k + 1, Len(u)) \in Seq(Steps)
                       /\ Len(SubSeq(u, k + 1, Len(u))) = Len(u) - k
                       /\ \A i \in 1 .. Len(u) - k : SubSeq(u, k + 1, Len(u))[i] = u[k + i]
    OBVIOUS
  <2>1. k + 1 \in 1 .. Len(u) + 1 /\ Len(u) \in (k + 1) - 1 .. Len(u)
    BY <1>1
  <2>. QED BY <1>1, <2>1, SubSeqProperties
<1>3. SubSeq(u, 1 + 1, Len(u)) = t
  <2>1. 1 \in 1 .. Len(t) + 1 /\ Len(u) - 1 = Len(t)
    BY <1>1
  <2>2. \A i \in 1 .. Len(t) : SubSeq(u, 1 + 1, Len(u))[i] = t[i]
    BY <2>1, <1>1, <1>2
  <2>. QED BY <2>1, <2>2, <1>2, SeqEqual
<1>4. ASSUME NEW k \in 1 .. Len(t)
      PROVE  SubSeq(u, (k + 1) + 1, Len(u)) = SubSeq(t, k + 1, Len(t))
  <2>1. k + 1 \in 1 .. Len(t) + 1 /\ Len(u) - (k + 1) = Len(t) - k
    BY <1>1
  <2>2. k + 1 \in 1 .. Len(t) + 1 /\ Len(t) \in (k + 1) - 1 .. Len(t)
    BY <1>1
  <2>3. /\ SubSeq(t, k + 1, Len(t)) \in Seq(Steps) /\ Len(SubSeq(t, k + 1, Len(t))) = Len(t) - k
        /\ \A i \in 1 .. Len(t) - k : SubSeq(t, k + 1, Len(t))[i] = t[k + i]
    BY <1>1, <2>2, SubSeqProperties
  <2>4. ASSUME NEW i \in 1 .. Len(t) - k
        PROVE  SubSeq(u, (k + 1) + 1, Len(u))[i] = SubSeq(t, k + 1, Len(t))[i]
    <3>1. k + i \in 1 .. Len(t) /\ u[(k + i) + 1] = t[k + i] /\ (k + 1) + i = (k + i) + 1
      BY <1>1
    <3>. QED BY <3>1, <2>1, <2>3, <1>2
  <2>. QED BY <2>1, <2>3, <2>4, <1>2, SeqEqual
<1>5. ASSUME StackOK(u)
      PROVE  Good(s, t) /\ StackOK(t)
  <2>1. Good(s, t)
    <3>1. 1 \in 1 .. Len(u)
      BY <1>1
    <3>. QED BY <3>1, <1>1, <1>3, <1>5 DEF StackOK
  <2>2. ASSUME NEW k \in 1 .. Len(t)
        PROVE  Good(t[k], SubSeq(t, k + 1, Len(t)))
    <3>1. k + 1 \in 1 .. Len(u) /\ u[k + 1] = t[k]
      BY <1>1
    <3>. QED BY <3>1, <1>4, <1>5 DEF StackOK
  <2>. QED BY <2>1, <2>2 DEF StackOK
<1>6. ASSUME Good(s, t), StackOK(t)
      PROVE  StackOK(u)
  <2>. SUFFICES ASSUME NEW k \in 1 .. Len(u)
                PROVE  Good(u[k], SubSeq(u, k + 1, Len(u)))
    BY DEF StackOK
  <2>1. CASE k = 1
    BY <2>1, <1>1, <1>3, <1>6
  <2>2. CASE k # 1
    <3>1. k - 1 \in 1 .. Len(t) /\ u[(k - 1) + 1] = t[k - 1] /\ (k - 1) + 1 = k
      BY <2>2, <1>1
    <3>2. SubSeq(u, k + 1, Len(u)) = SubSeq(t, (k - 1) + 1, Len(t))
      BY <3>1, <1>4
    <3>. QED BY <3>1, <3>2, <1>6 DEF StackOK
  <2>. QED BY <2>1, <2>2
<1>. QED BY <1>5, <1>6 DEF u

LEMMA TopPush ==
  ASSUME NEW s \in Steps, NEW t \in Seq(Steps), NEW op
  PROVE  Top(Push(s, t), op) <=> s[1] = op
<1>1. Push(s, t) # <<>> /\ Head(Push(s, t)) = s
  BY Pushed
<1>. QED BY <1>1 DEF Top

LEMMA Bottom ==
  /\ <<>> \in Seq(Steps) /\ StackOK(<<>>) /\ Held(<<>>) = {}
  /\ \A op : ~Has(<<>>, op) /\ ~Top(<<>>, op)
<1>1. <<>> \in Seq(Steps) /\ Len(<<>>) = 0 /\ 1 .. 0 = {}
  OBVIOUS
<1>. QED BY <1>1 DEF StackOK, Held, Has, Top

\* Steps the code uses.
LEMMA StepsIn ==
  /\ \A l \in Locks : <<"pushcli", l>> \in Steps /\ <<"xchg", l>> \in Steps /\ <<"release", l>> \in Steps
  /\ \A op \in {"tick", "wakeup1", "preempt", "ready", "doze", "sched", "ticks0", "nap", "pick"} :
       <<op, None>> \in Steps
  /\ \A b \in BOOLEAN : <<"iret", b>> \in Steps /\ <<"sysret", b>> \in Steps /\ <<"intena", b>> \in Steps
  /\ \A p \in Procs : <<"kill", p>> \in Steps
BY DEF Steps, Common, ProcOnly

LEMMA HeldIn == \A t : Held(t) \subseteq Locks
BY DEF Held

LEMMA HeldSame ==
  ASSUME NEW u, NEW t, \A l \in Locks : l \in Held(u) <=> l \in Held(t)
  PROVE  Held(u) = Held(t)
BY HeldIn

LEMMA TwoSteps ==
  ASSUME NEW a \in Steps, NEW b \in Steps, NEW t \in Seq(Steps)
  PROVE  Cat(<<a, b>>, t) = Push(a, Push(b, t))
<1>1. PICK x \in Seq(Steps) : x = <<b>> /\ Len(x) = 1 /\ x[1] = b
  <2>1. <<b>> \in Seq(Steps) /\ Len(<<b>>) = 1 /\ <<b>>[1] = b
    OBVIOUS
  <2>. QED BY <2>1, Zenon
<1>2. PICK y \in Seq(Steps) : y = <<a, b>> /\ Len(y) = 2 /\ y[1] = a /\ y[2] = b
  <2>1. <<a, b>> \in Seq(Steps) /\ Len(<<a, b>>) = 2 /\ <<a, b>>[1] = a /\ <<a, b>>[2] = b
    OBVIOUS
  <2>. QED BY <2>1, Zenon
<1>. DEFINE w == Push(a, x)
<1>4. w \in Seq(Steps) /\ Len(w) = Len(x) + 1 /\ w[1] = a /\ \A i \in 1 .. Len(x) : w[i + 1] = x[i]
  BY Pushed
<1>. HIDE DEF w
<1>5. Len(w) = 2 /\ w[1] = a /\ w[2] = b
  <2>1. 1 \in 1 .. Len(x) /\ 1 + 1 = 2
    BY <1>1
  <2>2. w[1 + 1] = x[1]
    BY <2>1, <1>4
  <2>. QED BY <2>1, <2>2, <1>1, <1>4
<1>6. \A i \in 1 .. Len(y) : y[i] = w[i]
  BY <1>2, <1>5
<1>7. y = w
  BY <1>2, <1>4, <1>5, <1>6, SeqEqual
<1>8. <<a>> \in Seq(Steps)
  OBVIOUS
<1>9. (<<a>> \o x) \o t = <<a>> \o (x \o t)
  BY <1>8, ConcatAssociative
<1>. QED BY <1>1, <1>2, <1>7, <1>9 DEF Push, Cat, w

LEMMA CatAssoc ==
  ASSUME NEW A \in Seq(Steps), NEW B \in Seq(Steps), NEW C \in Seq(Steps)
  PROVE  Cat(A, B) \in Seq(Steps) /\ Cat(Cat(A, B), C) = Cat(A, Cat(B, C))
<1>1. A \o B \in Seq(Steps)
  BY ConcatProperties
<1>2. (A \o B) \o C = A \o (B \o C)
  BY ConcatAssociative
<1>. QED BY <1>1, <1>2 DEF Cat

LEMMA CatAssoc3 ==
  ASSUME NEW A \in Seq(Steps), NEW B \in Seq(Steps), NEW C \in Seq(Steps), NEW t \in Seq(Steps)
  PROVE  Cat(Cat(Cat(A, B), C), t) = Cat(A, Cat(B, Cat(C, t)))
<1>1. Cat(A, B) \in Seq(Steps) /\ Cat(C, t) \in Seq(Steps)
  BY CatAssoc
<1>2. Cat(Cat(Cat(A, B), C), t) = Cat(Cat(A, B), Cat(C, t))
  BY <1>1, CatAssoc
<1>3. Cat(Cat(A, B), Cat(C, t)) = Cat(A, Cat(B, Cat(C, t)))
  BY <1>1, CatAssoc
<1>. QED BY <1>2, <1>3

LEMMA CatOne == \A s, t : Cat(<<s>>, t) = Push(s, t)
BY DEF Cat, Push

\* What a stack is asked about: whether a step that is not special can go in
\* front, and which kinds of steps it has.
Plain(t) == ~Top(t, "xchg") /\ ~Top(t, "sched") /\ ~Top(t, "intena")
ForCpu(t) == \A op \in ProcOnly : ~Has(t, op)
ForProc(t) == ~Has(t, "pick")
Like(u, t) ==
  /\ Has(u, "iret") <=> Has(t, "iret")
  /\ Has(u, "doze") <=> Has(t, "doze")
  /\ Has(u, "wakeup1") <=> Has(t, "wakeup1")
  /\ ForCpu(t) => ForCpu(u)
  /\ ForProc(t) => ForProc(u)

\* One step in front: what Like and Plain say of it.
LEMMA PushLike ==
  ASSUME NEW s \in Steps, NEW t \in Seq(Steps), NEW u, u = Push(s, t)
  PROVE  /\ s[1] \notin {"iret", "doze", "wakeup1", "pick"} \cup ProcOnly => Like(u, t)
         /\ s[1] \notin {"xchg", "sched", "intena"} => Plain(u)
         /\ s[1] \in {"ready", "sched", "intena", "kill", "ticks0", "nap", "sysret", "iret"} /\ ForProc(t) => ForProc(u)
         /\ s[1] \notin ProcOnly /\ ForCpu(t) => ForCpu(u)
         /\ Has(u, "iret") <=> s[1] = "iret" \/ Has(t, "iret")
         /\ Has(u, "doze") <=> s[1] = "doze" \/ Has(t, "doze")
         /\ Has(u, "wakeup1") <=> s[1] = "wakeup1" \/ Has(t, "wakeup1")
         /\ Has(u, "pick") <=> s[1] = "pick" \/ Has(t, "pick")
<1>1. \A op : (Has(u, op) <=> s[1] = op \/ Has(t, op))
  BY HasPush
<1>2. \A op : (Top(u, op) <=> s[1] = op)
  BY TopPush
<1>3. s[1] \notin ProcOnly /\ ForCpu(t) => ForCpu(u)
  BY <1>1 DEF ForCpu
<1>4. Has(u, "pick") <=> s[1] = "pick" \/ Has(t, "pick")
  BY <1>1
<1>5. Has(u, "iret") <=> s[1] = "iret" \/ Has(t, "iret")
  BY <1>1
<1>6. Has(u, "doze") <=> s[1] = "doze" \/ Has(t, "doze")
  BY <1>1
<1>7. Has(u, "wakeup1") <=> s[1] = "wakeup1" \/ Has(t, "wakeup1")
  BY <1>1
<1>8. s[1] \notin {"xchg", "sched", "intena"} => Plain(u)
  BY <1>2 DEF Plain
<1>. QED BY <1>3, <1>4, <1>5, <1>6, <1>7, <1>8 DEF Like, ForProc

\* One step in front that neither takes nor gives back a lock.
LEMMA PushOther ==
  ASSUME NEW s \in Steps, NEW t \in Seq(Steps), s[1] \notin {"xchg", "release"}, StackOK(t), Good(s, t),
         NEW u, u = Push(s, t)
  PROVE  u \in Seq(Steps) /\ StackOK(u) /\ Held(u) = Held(t)
<1>1. \A l \in Locks : l \in Held(u) <=> l \in Held(t)
  BY HeldPush
<1>2. Held(u) = Held(t)
  BY <1>1, HeldSame
<1>. QED BY <1>2, StackPush, Pushed

LEMMA PushRelease ==
  ASSUME NEW l \in Locks, NEW t \in Seq(Steps), StackOK(t), l \notin Held(t), Plain(t), ~Has(t, "wakeup1"),
         NEW u, u = Cat(release(l), t)
  PROVE  u \in Seq(Steps) /\ StackOK(u) /\ Held(u) = Held(t) \cup {l} /\ Like(u, t) /\ Plain(u)
<1>1. PICK s \in Steps : s = <<"release", l>> /\ s[1] = "release" /\ s[2] = l
  BY StepsIn
<1>2. u = Push(s, t)
  BY <1>1, CatOne DEF release
<1>3. \A k \in Locks : k \in Held(u) <=> k = l \/ k \in Held(t)
  BY <1>1, <1>2, HeldPush
<1>4. Held(u) = Held(t) \cup {l}
  BY <1>3, HeldIn
<1>5. Good(s, t)
  BY <1>1, <1>2, <1>4 DEF Good, Takes, Under, Order, Ahead, Plain
<1>6. u \in Seq(Steps) /\ StackOK(u)
  BY <1>2, <1>5, StackPush, Pushed
<1>7. s[1] \notin {"iret", "doze", "wakeup1", "pick"} \cup ProcOnly
  BY <1>1 DEF ProcOnly
<1>. QED BY <1>1, <1>2, <1>4, <1>6, <1>7, PushLike

LEMMA PushAcquire ==
  ASSUME NEW l \in Locks, NEW t \in Seq(Steps), StackOK(t), l \in Held(t),
         l = "tickslock" => Held(t) = {"tickslock"}, Plain(t),
         Has(t, "wakeup1") => Has(t, "iret"), Has(t, "doze") => Held(t) # {l},
         NEW u, u = Cat(acquire(l), t)
  PROVE  u \in Seq(Steps) /\ StackOK(u) /\ Held(u) = Held(t) \ {l} /\ Like(u, t) /\ Plain(u)
<1>1. PICK a \in Steps : a = <<"pushcli", l>> /\ a[1] = "pushcli" /\ a[2] = l
  BY StepsIn
<1>2. PICK b \in Steps : b = <<"xchg", l>> /\ b[1] = "xchg" /\ b[2] = l
  BY StepsIn
<1>. DEFINE v == Push(b, t)
<1>3. u = Push(a, v)
  <2>1. acquire(l) = <<a, b>>
    BY <1>1, <1>2 DEF acquire
  <2>2. Cat(<<a, b>>, t) = Push(a, v)
    BY TwoSteps
  <2>. QED BY <2>1, <2>2
<1>4. v \in Seq(Steps) /\ v # <<>> /\ Head(v) = b
  BY Pushed
<1>5. \A k \in Locks : k \in Held(v) <=> k # l /\ k \in Held(t)
  BY <1>2, HeldPush
<1>6. b[1] \notin {"iret", "doze", "wakeup1", "pick"} \cup ProcOnly
  BY <1>2 DEF ProcOnly
<1>7. Like(v, t) /\ ~Top(v, "sched") /\ ~Top(v, "intena")
  <2>1. Like(v, t)
    BY <1>6, PushLike
  <2>. QED BY <2>1, <1>2, TopPush
<1>8. Held(v) = Held(t) \ {l}
  BY <1>5, HeldIn
<1>9. Good(b, t)
  BY <1>2, <1>8 DEF Good, Takes, Under, Order, Ahead, Plain
<1>10. StackOK(v)
  BY <1>9, StackPush
<1>. HIDE DEF v
<1>11. \A k \in Locks : k \in Held(u) <=> k \in Held(v)
  BY <1>1, <1>3, <1>4, HeldPush
<1>12. Held(u) = Held(v)
  BY <1>11, HeldIn
<1>13. Good(a, v)
  BY <1>1, <1>2, <1>3, <1>4, <1>7, <1>8, <1>12 DEF Good, Takes, Under, Order, Ahead, Like
<1>14. u \in Seq(Steps) /\ StackOK(u)
  BY <1>3, <1>4, <1>10, <1>13, StackPush, Pushed
<1>15. a[1] \notin {"iret", "doze", "wakeup1", "pick"} \cup ProcOnly
  BY <1>1 DEF ProcOnly
<1>16. Like(u, v) /\ Plain(u)
  BY <1>1, <1>3, <1>4, <1>15, PushLike
<1>17. Like(u, t)
  BY <1>7, <1>16 DEF Like
<1>. QED BY <1>8, <1>12, <1>14, <1>16, <1>17

LEMMA Sequences ==
  /\ \A l \in Locks : acquire(l) \in Seq(Steps) /\ release(l) \in Seq(Steps)
  /\ \A s \in Steps : <<s>> \in Seq(Steps)
  /\ \A s, r \in Steps : <<s, r>> \in Seq(Steps)
<1>1. /\ \A s \in Steps : <<s>> \in Seq(Steps)
      /\ \A s, r \in Steps : <<s, r>> \in Seq(Steps)
  OBVIOUS
<1>. QED BY <1>1, StepsIn DEF acquire, release

\* yield, on the stack of a process that is about to return from a trap.
LEMMA PushYield ==
  ASSUME NEW t \in Seq(Steps), StackOK(t), Held(t) = {}, Plain(t), ~Has(t, "doze"),
         ~Has(t, "wakeup1"),
         NEW u, u = Cat(yield, t)
  PROVE  /\ yield \in Seq(Steps)
         /\ u \in Seq(Steps) /\ StackOK(u) /\ Held(u) = {} /\ Plain(u)
         /\ ~Has(u, "doze") /\ ~Has(u, "wakeup1") /\ (Has(u, "iret") <=> Has(t, "iret"))
         /\ (ForProc(t) => ForProc(u))
<1>1. PICK a \in Steps : a = <<"ready", None>>
  BY StepsIn
<1>2. PICK b \in Steps : b = <<"sched", None>>
  BY StepsIn
<1>3. a[1] = "ready" /\ b[1] = "sched"
  BY <1>1, <1>2
<1>4. "ptable" \in Locks /\ "tickslock" \in Locks /\ Locks = {"tickslock", "ptable"}
  BY DEF Locks
<1>5. PICK u1 : u1 = Cat(release("ptable"), t)
  OBVIOUS
<1>6. /\ u1 \in Seq(Steps) /\ StackOK(u1) /\ Held(u1) = {"ptable"} /\ Plain(u1)
     /\ ~Has(u1, "doze") /\ ~Has(u1, "wakeup1") /\ (Has(u1, "iret") <=> Has(t, "iret"))
     /\ (ForProc(t) => ForProc(u1)) /\ (ForCpu(t) => ForCpu(u1))
  <2>1. u1 \in Seq(Steps) /\ StackOK(u1) /\ Held(u1) = Held(t) \cup {"ptable"} /\ Like(u1, t) /\ Plain(u1)
    BY <1>4, <1>5, PushRelease
  <2>2. Held(t) \cup {"ptable"} = {"ptable"}
    BY <1>4
  <2>. QED BY <2>1, <2>2 DEF Like
<1>7. PICK u2 : u2 = Push(b, u1)
  OBVIOUS
<1>8. /\ u2 \in Seq(Steps) /\ StackOK(u2) /\ Held(u2) = {"ptable"} /\ Top(u2, "sched") /\ ~Top(u2, "xchg") /\ ~Top(u2, "intena")
     /\ ~Has(u2, "doze") /\ ~Has(u2, "wakeup1") /\ (Has(u2, "iret") <=> Has(t, "iret"))
     /\ (ForProc(t) => ForProc(u2))
  <2>1. Good(b, u1)
    BY <1>3, <1>4, <1>6 DEF Good, Takes, Under, Order, Ahead, Plain
  <2>2. b[1] \notin {"xchg", "release"}
    BY <1>3
  <2>3. u2 \in Seq(Steps) /\ StackOK(u2) /\ Held(u2) = Held(u1)
    BY <2>1, <2>2, <1>7, <1>6, PushOther
  <2>4. Top(u2, "sched") /\ ~Top(u2, "xchg") /\ ~Top(u2, "intena")
    BY <1>3, <1>7, <1>6, TopPush DEF Plain
  <2>5. b[1] \in ProcOnly
    BY <1>3 DEF ProcOnly
  <2>. QED BY <2>3, <2>4, <2>5, <1>3, <1>7, <1>6, PushLike DEF ForProc
<1>9. PICK u3 : u3 = Push(a, u2)
  OBVIOUS
<1>10. /\ u3 \in Seq(Steps) /\ StackOK(u3) /\ Held(u3) = {"ptable"} /\ Plain(u3)
      /\ ~Has(u3, "doze") /\ ~Has(u3, "wakeup1") /\ (Has(u3, "iret") <=> Has(t, "iret"))
      /\ (ForProc(t) => ForProc(u3))
  <2>1. Good(a, u2)
    BY <1>3, <1>4, <1>8 DEF Good, Takes, Under, Order, Ahead, Plain
  <2>2. a[1] \notin {"xchg", "release"}
    BY <1>3
  <2>3. u3 \in Seq(Steps) /\ StackOK(u3) /\ Held(u3) = Held(u2)
    BY <2>1, <2>2, <1>9, <1>8, PushOther
  <2>4. Plain(u3)
    BY <1>3, <1>9, <1>8, TopPush DEF Plain
  <2>5. a[1] \in ProcOnly
    BY <1>3 DEF ProcOnly
  <2>. QED BY <2>3, <2>4, <2>5, <1>3, <1>9, <1>8, PushLike DEF ForProc
<1>11. PICK u4 : u4 = Cat(acquire("ptable"), u3)
  OBVIOUS
<1>12. /\ u4 \in Seq(Steps) /\ StackOK(u4) /\ Held(u4) = {} /\ Plain(u4)
      /\ ~Has(u4, "doze") /\ ~Has(u4, "wakeup1") /\ (Has(u4, "iret") <=> Has(t, "iret"))
      /\ (ForProc(t) => ForProc(u4))
  <2>1. "ptable" \in Held(u3) /\ ("ptable" = "tickslock" => Held(u3) = {"tickslock"}) /\ Held(u3) \ {"ptable"} = {}
    BY <1>4, <1>10
  <2>2. (Has(u3, "wakeup1") => Has(u3, "iret")) /\ (Has(u3, "doze") => Held(u3) # {"ptable"})
    BY <1>4, <1>10
  <2>3. u4 \in Seq(Steps) /\ StackOK(u4) /\ Held(u4) = Held(u3) \ {"ptable"} /\ Like(u4, u3) /\ Plain(u4)
    BY <2>1, <2>2, <1>4, <1>11, <1>10, PushAcquire
  <2>. QED BY <2>1, <2>3, <1>10 DEF Like
<1>13. yield \in Seq(Steps) /\ u = u4
  <2>1. PICK A0 \in Seq(Steps) : A0 = acquire("ptable")
    BY <1>4, Sequences
  <2>2. PICK A1 \in Seq(Steps) : A1 = <<a, b>>
    BY <1>4, Sequences
  <2>3. PICK A2 \in Seq(Steps) : A2 = release("ptable")
    BY <1>4, Sequences
  <2>4. yield = Cat(Cat(A0, A1), A2)
    BY <2>1, <2>2, <2>3, <1>1, <1>2 DEF Cat, yield
  <2>5. Cat(A0, u3) = u4
    BY <2>1, <1>11
  <2>6. Cat(A1, u1) = u3
    BY <2>2, <1>7, <1>9, <1>6, TwoSteps
  <2>7. Cat(A2, t) = u1
    BY <2>3, <1>5
  <2>8. Cat(A0, A1) \in Seq(Steps) /\ Cat(Cat(A0, A1), A2) \in Seq(Steps)
    BY CatAssoc
  <2>9. Cat(Cat(Cat(A0, A1), A2), t) = Cat(Cat(A0, A1), u1)
    BY <2>8, <2>7, CatAssoc
  <2>10. Cat(Cat(A0, A1), u1) = Cat(A0, u3)
    BY <2>8, <2>6, <1>6, CatAssoc
  <2>. QED BY <2>4, <2>5, <2>9, <2>10, CatAssoc, <2>8
<1>. QED BY <1>13, <1>12

\* wakeup, called with tickslock in an interrupt.
LEMMA PushWakeup ==
  ASSUME NEW t \in Seq(Steps), StackOK(t), Held(t) = {"tickslock"}, Plain(t), ~Has(t, "doze"),
         ~Has(t, "wakeup1"), Has(t, "iret"),
         NEW u, u = Cat(wakeup, t)
  PROVE  /\ wakeup \in Seq(Steps)
         /\ u \in Seq(Steps) /\ StackOK(u) /\ Held(u) = {"tickslock"} /\ Plain(u)
         /\ ~Has(u, "doze") /\ Has(u, "wakeup1") /\ Has(u, "iret")
         /\ (ForProc(t) => ForProc(u)) /\ (ForCpu(t) => ForCpu(u))
<1>1. PICK a \in Steps : a = <<"wakeup1", None>>
  BY StepsIn
<1>2. a[1] = "wakeup1" /\ a[2] = None
  BY <1>1
<1>3. "ptable" \in Locks /\ "tickslock" \in Locks /\ Locks = {"tickslock", "ptable"}
  BY DEF Locks
<1>4. PICK u1 : u1 = Cat(release("ptable"), t)
  OBVIOUS
<1>5. /\ u1 \in Seq(Steps) /\ StackOK(u1) /\ Held(u1) = {"tickslock", "ptable"} /\ Plain(u1)
     /\ ~Has(u1, "doze") /\ ~Has(u1, "wakeup1") /\ Has(u1, "iret")
     /\ (ForProc(t) => ForProc(u1)) /\ (ForCpu(t) => ForCpu(u1))
  <2>1. u1 \in Seq(Steps) /\ StackOK(u1) /\ Held(u1) = Held(t) \cup {"ptable"} /\ Like(u1, t) /\ Plain(u1)
    BY <1>3, <1>4, PushRelease
  <2>2. Held(t) \cup {"ptable"} = {"tickslock", "ptable"}
    BY <1>3
  <2>. QED BY <2>1, <2>2 DEF Like
<1>6. PICK u2 : u2 = Push(a, u1)
  OBVIOUS
<1>7. /\ u2 \in Seq(Steps) /\ StackOK(u2) /\ Held(u2) = {"tickslock", "ptable"} /\ Plain(u2)
     /\ ~Has(u2, "doze") /\ Has(u2, "wakeup1") /\ Has(u2, "iret")
     /\ (ForProc(t) => ForProc(u2)) /\ (ForCpu(t) => ForCpu(u2))
  <2>1. Good(a, u1)
    BY <1>2, <1>3, <1>5 DEF Good, Takes, Under, Order, Ahead, Plain
  <2>2. a[1] \notin {"xchg", "release"}
    BY <1>2
  <2>3. u2 \in Seq(Steps) /\ StackOK(u2) /\ Held(u2) = Held(u1)
    BY <2>1, <2>2, <1>6, <1>5, PushOther
  <2>4. Plain(u2)
    BY <1>2, <1>6, <1>5, TopPush DEF Plain
  <2>5. a[1] \notin ProcOnly
    BY <1>2 DEF ProcOnly
  <2>. QED BY <2>3, <2>4, <2>5, <1>2, <1>6, <1>5, PushLike DEF ForProc
<1>8. PICK u3 : u3 = Cat(acquire("ptable"), u2)
  OBVIOUS
<1>9. /\ u3 \in Seq(Steps) /\ StackOK(u3) /\ Held(u3) = {"tickslock"} /\ Plain(u3)
     /\ ~Has(u3, "doze") /\ Has(u3, "wakeup1") /\ Has(u3, "iret")
     /\ (ForProc(t) => ForProc(u3)) /\ (ForCpu(t) => ForCpu(u3))
  <2>1. "ptable" \in Held(u2) /\ ("ptable" = "tickslock" => Held(u2) = {"tickslock"}) /\ Held(u2) \ {"ptable"} = {"tickslock"}
    BY <1>3, <1>7
  <2>2. (Has(u2, "wakeup1") => Has(u2, "iret")) /\ (Has(u2, "doze") => Held(u2) # {"ptable"})
    BY <1>3, <1>7
  <2>3. u3 \in Seq(Steps) /\ StackOK(u3) /\ Held(u3) = Held(u2) \ {"ptable"} /\ Like(u3, u2) /\ Plain(u3)
    BY <2>1, <2>2, <1>3, <1>8, <1>7, PushAcquire
  <2>. QED BY <2>1, <2>3, <1>7 DEF Like
<1>10. wakeup \in Seq(Steps) /\ u = u3
  <2>1. PICK A0 \in Seq(Steps) : A0 = acquire("ptable")
    BY <1>3, Sequences
  <2>2. PICK A1 \in Seq(Steps) : A1 = <<a>>
    BY <1>3, Sequences
  <2>3. PICK A2 \in Seq(Steps) : A2 = release("ptable")
    BY <1>3, Sequences
  <2>4. wakeup = Cat(Cat(A0, A1), A2)
    BY <2>1, <2>2, <2>3, <1>1 DEF Cat, wakeup
  <2>5. Cat(A0, u2) = u3
    BY <2>1, <1>8
  <2>6. Cat(A1, u1) = u2
    BY <2>2, <1>6, <1>5, CatOne
  <2>7. Cat(A2, t) = u1
    BY <2>3, <1>4
  <2>8. Cat(A0, A1) \in Seq(Steps) /\ Cat(Cat(A0, A1), A2) \in Seq(Steps)
    BY CatAssoc
  <2>9. Cat(Cat(Cat(A0, A1), A2), t) = Cat(Cat(A0, A1), u1)
    BY <2>8, <2>7, CatAssoc
  <2>10. Cat(Cat(A0, A1), u1) = Cat(A0, u2)
    BY <2>8, <2>6, <1>5, CatAssoc
  <2>. QED BY <2>4, <2>5, <2>9, <2>10, CatAssoc, <2>8
<1>. QED BY <1>10, <1>9

\* sleep, called with tickslock.
LEMMA PushSleep ==
  ASSUME NEW t \in Seq(Steps), StackOK(t), Held(t) = {"tickslock"}, Plain(t), ~Has(t, "doze"),
         ~Has(t, "wakeup1"),
         NEW u, u = Cat(sleep, t)
  PROVE  /\ sleep \in Seq(Steps)
         /\ u \in Seq(Steps) /\ StackOK(u) /\ Held(u) = {"tickslock"} /\ Plain(u)
         /\ Has(u, "doze") /\ ~Has(u, "wakeup1") /\ (Has(u, "iret") <=> Has(t, "iret"))
         /\ (ForProc(t) => ForProc(u))
<1>1. PICK a \in Steps : a = <<"doze", None>>
  BY StepsIn
<1>2. PICK b \in Steps : b = <<"sched", None>>
  BY StepsIn
<1>3. a[1] = "doze" /\ b[1] = "sched"
  BY <1>1, <1>2
<1>4. "ptable" \in Locks /\ "tickslock" \in Locks /\ Locks = {"tickslock", "ptable"}
  BY DEF Locks
<1>5. PICK u1 : u1 = Cat(acquire("tickslock"), t)
  OBVIOUS
<1>6. /\ u1 \in Seq(Steps) /\ StackOK(u1) /\ Held(u1) = {} /\ Plain(u1)
     /\ ~Has(u1, "doze") /\ ~Has(u1, "wakeup1") /\ (Has(u1, "iret") <=> Has(t, "iret"))
     /\ (ForProc(t) => ForProc(u1)) /\ (ForCpu(t) => ForCpu(u1))
  <2>1. "tickslock" \in Held(t) /\ ("tickslock" = "tickslock" => Held(t) = {"tickslock"}) /\ Held(t) \ {"tickslock"} = {}
    BY <1>4
  <2>2. (Has(t, "wakeup1") => Has(t, "iret")) /\ (Has(t, "doze") => Held(t) # {"tickslock"})
    BY <1>4
  <2>3. u1 \in Seq(Steps) /\ StackOK(u1) /\ Held(u1) = Held(t) \ {"tickslock"} /\ Like(u1, t) /\ Plain(u1)
    BY <2>1, <2>2, <1>4, <1>5, PushAcquire
  <2>. QED BY <2>1, <2>3 DEF Like
<1>7. PICK u2 : u2 = Cat(release("ptable"), u1)
  OBVIOUS
<1>8. /\ u2 \in Seq(Steps) /\ StackOK(u2) /\ Held(u2) = {"ptable"} /\ Plain(u2)
     /\ ~Has(u2, "doze") /\ ~Has(u2, "wakeup1") /\ (Has(u2, "iret") <=> Has(t, "iret"))
     /\ (ForProc(t) => ForProc(u2)) /\ (ForCpu(t) => ForCpu(u2))
  <2>1. u2 \in Seq(Steps) /\ StackOK(u2) /\ Held(u2) = Held(u1) \cup {"ptable"} /\ Like(u2, u1) /\ Plain(u2)
    BY <1>4, <1>7, <1>6, PushRelease
  <2>2. Held(u1) \cup {"ptable"} = {"ptable"}
    BY <1>4, <1>6
  <2>. QED BY <2>1, <2>2, <1>6 DEF Like
<1>9. PICK u3 : u3 = Push(b, u2)
  OBVIOUS
<1>10. /\ u3 \in Seq(Steps) /\ StackOK(u3) /\ Held(u3) = {"ptable"} /\ Top(u3, "sched") /\ ~Top(u3, "xchg") /\ ~Top(u3, "intena")
      /\ ~Has(u3, "doze") /\ ~Has(u3, "wakeup1") /\ (Has(u3, "iret") <=> Has(t, "iret"))
      /\ (ForProc(t) => ForProc(u3))
  <2>1. Good(b, u2)
    BY <1>3, <1>4, <1>8 DEF Good, Takes, Under, Order, Ahead, Plain
  <2>2. b[1] \notin {"xchg", "release"}
    BY <1>3
  <2>3. u3 \in Seq(Steps) /\ StackOK(u3) /\ Held(u3) = Held(u2)
    BY <2>1, <2>2, <1>9, <1>8, PushOther
  <2>4. Top(u3, "sched") /\ ~Top(u3, "xchg") /\ ~Top(u3, "intena")
    BY <1>3, <1>9, <1>8, TopPush DEF Plain
  <2>5. b[1] \in ProcOnly
    BY <1>3 DEF ProcOnly
  <2>. QED BY <2>3, <2>4, <2>5, <1>3, <1>9, <1>8, PushLike DEF ForProc
<1>11. PICK u4 : u4 = Push(a, u3)
  OBVIOUS
<1>12. /\ u4 \in Seq(Steps) /\ StackOK(u4) /\ Held(u4) = {"ptable"} /\ Plain(u4)
      /\ Has(u4, "doze") /\ ~Has(u4, "wakeup1") /\ (Has(u4, "iret") <=> Has(t, "iret"))
      /\ (ForProc(t) => ForProc(u4))
  <2>1. Good(a, u3)
    BY <1>3, <1>4, <1>10 DEF Good, Takes, Under, Order, Ahead, Plain
  <2>2. a[1] \notin {"xchg", "release"}
    BY <1>3
  <2>3. u4 \in Seq(Steps) /\ StackOK(u4) /\ Held(u4) = Held(u3)
    BY <2>1, <2>2, <1>11, <1>10, PushOther
  <2>4. Plain(u4)
    BY <1>3, <1>11, <1>10, TopPush DEF Plain
  <2>5. a[1] \in ProcOnly
    BY <1>3 DEF ProcOnly
  <2>. QED BY <2>3, <2>4, <2>5, <1>3, <1>11, <1>10, PushLike DEF ForProc
<1>13. PICK u5 : u5 = Cat(release("tickslock"), u4)
  OBVIOUS
<1>14. /\ u5 \in Seq(Steps) /\ StackOK(u5) /\ Held(u5) = {"tickslock", "ptable"} /\ Plain(u5)
      /\ Has(u5, "doze") /\ ~Has(u5, "wakeup1") /\ (Has(u5, "iret") <=> Has(t, "iret"))
      /\ (ForProc(t) => ForProc(u5))
  <2>1. u5 \in Seq(Steps) /\ StackOK(u5) /\ Held(u5) = Held(u4) \cup {"tickslock"} /\ Like(u5, u4) /\ Plain(u5)
    BY <1>4, <1>13, <1>12, PushRelease
  <2>2. Held(u4) \cup {"tickslock"} = {"tickslock", "ptable"}
    BY <1>4, <1>12
  <2>. QED BY <2>1, <2>2, <1>12 DEF Like
<1>15. PICK u6 : u6 = Cat(acquire("ptable"), u5)
  OBVIOUS
<1>16. /\ u6 \in Seq(Steps) /\ StackOK(u6) /\ Held(u6) = {"tickslock"} /\ Plain(u6)
      /\ Has(u6, "doze") /\ ~Has(u6, "wakeup1") /\ (Has(u6, "iret") <=> Has(t, "iret"))
      /\ (ForProc(t) => ForProc(u6))
  <2>1. "ptable" \in Held(u5) /\ ("ptable" = "tickslock" => Held(u5) = {"tickslock"}) /\ Held(u5) \ {"ptable"} = {"tickslock"}
    BY <1>4, <1>14
  <2>2. (Has(u5, "wakeup1") => Has(u5, "iret")) /\ (Has(u5, "doze") => Held(u5) # {"ptable"})
    BY <1>4, <1>14
  <2>3. u6 \in Seq(Steps) /\ StackOK(u6) /\ Held(u6) = Held(u5) \ {"ptable"} /\ Like(u6, u5) /\ Plain(u6)
    BY <2>1, <2>2, <1>4, <1>15, <1>14, PushAcquire
  <2>. QED BY <2>1, <2>3, <1>14 DEF Like
<1>17. sleep \in Seq(Steps) /\ u = u6
  <2>1. PICK A0 \in Seq(Steps) : A0 = acquire("ptable")
    BY <1>4, Sequences
  <2>2. PICK A1 \in Seq(Steps) : A1 = release("tickslock")
    BY <1>4, Sequences
  <2>3. PICK A2 \in Seq(Steps) : A2 = <<a, b>>
    BY <1>4, Sequences
  <2>4. PICK A3 \in Seq(Steps) : A3 = release("ptable")
    BY <1>4, Sequences
  <2>5. PICK A4 \in Seq(Steps) : A4 = acquire("tickslock")
    BY <1>4, Sequences
  <2>6. sleep = Cat(Cat(Cat(Cat(A0, A1), A2), A3), A4)
    BY <2>1, <2>2, <2>3, <2>4, <2>5, <1>1, <1>2 DEF Cat, sleep
  <2>7. Cat(A0, u5) = u6
    BY <2>1, <1>15
  <2>8. Cat(A1, u4) = u5
    BY <2>2, <1>13
  <2>9. Cat(A2, u2) = u4
    BY <2>3, <1>9, <1>11, <1>8, TwoSteps
  <2>10. Cat(A3, u1) = u2
    BY <2>4, <1>7
  <2>11. Cat(A4, t) = u1
    BY <2>5, <1>5
  <2>12. Cat(A0, A1) \in Seq(Steps) /\ Cat(Cat(A0, A1), A2) \in Seq(Steps) /\ Cat(Cat(Cat(A0, A1), A2), A3) \in Seq(Steps) /\ Cat(Cat(Cat(Cat(A0, A1), A2), A3), A4) \in Seq(Steps)
    BY CatAssoc
  <2>13. Cat(Cat(Cat(Cat(Cat(A0, A1), A2), A3), A4), t) = Cat(Cat(Cat(Cat(A0, A1), A2), A3), u1)
    BY <2>12, <2>11, CatAssoc
  <2>14. Cat(Cat(Cat(Cat(A0, A1), A2), A3), u1) = Cat(Cat(Cat(A0, A1), A2), u2)
    BY <2>12, <2>10, <1>6, CatAssoc
  <2>15. Cat(Cat(Cat(A0, A1), A2), u2) = Cat(Cat(A0, A1), u4)
    BY <2>12, <2>9, <1>8, CatAssoc
  <2>16. Cat(Cat(A0, A1), u4) = Cat(A0, u5)
    BY <2>12, <2>8, <1>12, CatAssoc
  <2>. QED BY <2>6, <2>7, <2>13, <2>14, <2>15, <2>16, CatAssoc, <2>12
<1>. QED BY <1>17, <1>16

\* The handler of the timer interrupt on a CPU that does not count.
LEMMA PushHandler ==
  ASSUME NEW t \in Seq(Steps), StackOK(t), Held(t) = {}, Plain(t), ~Has(t, "doze"),
         ~Has(t, "wakeup1"), ~Has(t, "iret"),
         NEW u, u = Cat(<< <<"preempt", None>>, <<"iret", TRUE>> >>, t)
  PROVE  /\ << <<"preempt", None>>, <<"iret", TRUE>> >> \in Seq(Steps)
         /\ u \in Seq(Steps) /\ StackOK(u) /\ Held(u) = {} /\ Plain(u)
         /\ ~Has(u, "doze") /\ ~Has(u, "wakeup1") /\ Has(u, "iret")
         /\ (ForProc(t) => ForProc(u)) /\ (ForCpu(t) => ForCpu(u))
<1>1. PICK a \in Steps : a = <<"preempt", None>>
  BY StepsIn
<1>2. PICK b \in Steps : b = <<"iret", TRUE>>
  BY StepsIn
<1>3. a[1] = "preempt" /\ b[1] = "iret" /\ b[2] = TRUE
  BY <1>1, <1>2
<1>4. "ptable" \in Locks /\ "tickslock" \in Locks /\ Locks = {"tickslock", "ptable"}
  BY DEF Locks
<1>5. PICK u1 : u1 = Push(b, t)
  OBVIOUS
<1>6. /\ u1 \in Seq(Steps) /\ StackOK(u1) /\ Held(u1) = {} /\ Plain(u1)
     /\ ~Has(u1, "doze") /\ ~Has(u1, "wakeup1") /\ Has(u1, "iret")
     /\ (ForProc(t) => ForProc(u1)) /\ (ForCpu(t) => ForCpu(u1))
  <2>1. Good(b, t)
    BY <1>3, <1>4 DEF Good, Takes, Under, Order, Ahead, Plain
  <2>2. b[1] \notin {"xchg", "release"}
    BY <1>3
  <2>3. u1 \in Seq(Steps) /\ StackOK(u1) /\ Held(u1) = Held(t)
    BY <2>1, <2>2, <1>5, PushOther
  <2>4. Plain(u1)
    BY <1>3, <1>5, TopPush DEF Plain
  <2>5. b[1] \notin ProcOnly
    BY <1>3 DEF ProcOnly
  <2>. QED BY <2>3, <2>4, <2>5, <1>3, <1>5, PushLike DEF ForProc
<1>7. PICK u2 : u2 = Push(a, u1)
  OBVIOUS
<1>8. /\ u2 \in Seq(Steps) /\ StackOK(u2) /\ Held(u2) = {} /\ Plain(u2)
     /\ ~Has(u2, "doze") /\ ~Has(u2, "wakeup1") /\ Has(u2, "iret")
     /\ (ForProc(t) => ForProc(u2)) /\ (ForCpu(t) => ForCpu(u2))
  <2>1. Good(a, u1)
    BY <1>3, <1>4, <1>6 DEF Good, Takes, Under, Order, Ahead, Plain
  <2>2. a[1] \notin {"xchg", "release"}
    BY <1>3
  <2>3. u2 \in Seq(Steps) /\ StackOK(u2) /\ Held(u2) = Held(u1)
    BY <2>1, <2>2, <1>7, <1>6, PushOther
  <2>4. Plain(u2)
    BY <1>3, <1>7, <1>6, TopPush DEF Plain
  <2>5. a[1] \notin ProcOnly
    BY <1>3 DEF ProcOnly
  <2>. QED BY <2>3, <2>4, <2>5, <1>3, <1>7, <1>6, PushLike DEF ForProc
<1>9. << <<"preempt", None>>, <<"iret", TRUE>> >> \in Seq(Steps) /\ u = u2
  <2>1. PICK A0 \in Seq(Steps) : A0 = <<a, b>>
    BY <1>4, Sequences
  <2>2. << <<"preempt", None>>, <<"iret", TRUE>> >> = A0
    BY <2>1, <1>1, <1>2 DEF Cat
  <2>3. Cat(A0, t) = u2
    BY <2>1, <1>5, <1>7, TwoSteps
  <2>. QED BY <2>2, <2>3
<1>. QED BY <1>9, <1>8

LEMMA WakeupIn == wakeup \in Seq(Steps)
<1>1. "ptable" \in Locks
  BY DEF Locks
<1>2. PICK a \in Steps : a = <<"wakeup1", None>>
  BY StepsIn
<1>3. Cat(Cat(acquire("ptable"), <<a>>), release("ptable")) \in Seq(Steps)
  BY <1>1, Sequences, CatAssoc
<1>. QED BY <1>2, <1>3 DEF wakeup, Cat

\* The handler on the CPU that counts the ticks.
LEMMA PushClock ==
  ASSUME NEW t \in Seq(Steps), StackOK(t), Held(t) = {}, Plain(t), ~Has(t, "doze"),
         ~Has(t, "wakeup1"), ~Has(t, "iret"),
         NEW u, u = Cat(acquire("tickslock") \o << <<"tick", None>> >> \o wakeup \o release("tickslock") \o << <<"preempt", None>>, <<"iret", TRUE>> >>, t)
  PROVE  /\ acquire("tickslock") \o << <<"tick", None>> >> \o wakeup \o release("tickslock") \o << <<"preempt", None>>, <<"iret", TRUE>> >> \in Seq(Steps)
         /\ u \in Seq(Steps) /\ StackOK(u) /\ Held(u) = {} /\ Plain(u)
         /\ ~Has(u, "doze") /\ Has(u, "wakeup1") /\ Has(u, "iret")
         /\ (ForProc(t) => ForProc(u)) /\ (ForCpu(t) => ForCpu(u))
<1>1. PICK a \in Steps : a = <<"tick", None>>
  BY StepsIn
<1>2. PICK b \in Steps : b = <<"preempt", None>>
  BY StepsIn
<1>3. PICK c \in Steps : c = <<"iret", TRUE>>
  BY StepsIn
<1>4. a[1] = "tick" /\ b[1] = "preempt" /\ c[1] = "iret" /\ c[2] = TRUE
  BY <1>1, <1>2, <1>3
<1>5. "ptable" \in Locks /\ "tickslock" \in Locks /\ Locks = {"tickslock", "ptable"}
  BY DEF Locks
<1>6. PICK u1 : u1 = Push(c, t)
  OBVIOUS
<1>7. /\ u1 \in Seq(Steps) /\ StackOK(u1) /\ Held(u1) = {} /\ Plain(u1)
     /\ ~Has(u1, "doze") /\ ~Has(u1, "wakeup1") /\ Has(u1, "iret")
     /\ (ForProc(t) => ForProc(u1)) /\ (ForCpu(t) => ForCpu(u1))
  <2>1. Good(c, t)
    BY <1>4, <1>5 DEF Good, Takes, Under, Order, Ahead, Plain
  <2>2. c[1] \notin {"xchg", "release"}
    BY <1>4
  <2>3. u1 \in Seq(Steps) /\ StackOK(u1) /\ Held(u1) = Held(t)
    BY <2>1, <2>2, <1>6, PushOther
  <2>4. Plain(u1)
    BY <1>4, <1>6, TopPush DEF Plain
  <2>5. c[1] \notin ProcOnly
    BY <1>4 DEF ProcOnly
  <2>. QED BY <2>3, <2>4, <2>5, <1>4, <1>6, PushLike DEF ForProc
<1>8. PICK u2 : u2 = Push(b, u1)
  OBVIOUS
<1>9. /\ u2 \in Seq(Steps) /\ StackOK(u2) /\ Held(u2) = {} /\ Plain(u2)
     /\ ~Has(u2, "doze") /\ ~Has(u2, "wakeup1") /\ Has(u2, "iret")
     /\ (ForProc(t) => ForProc(u2)) /\ (ForCpu(t) => ForCpu(u2))
  <2>1. Good(b, u1)
    BY <1>4, <1>5, <1>7 DEF Good, Takes, Under, Order, Ahead, Plain
  <2>2. b[1] \notin {"xchg", "release"}
    BY <1>4
  <2>3. u2 \in Seq(Steps) /\ StackOK(u2) /\ Held(u2) = Held(u1)
    BY <2>1, <2>2, <1>8, <1>7, PushOther
  <2>4. Plain(u2)
    BY <1>4, <1>8, <1>7, TopPush DEF Plain
  <2>5. b[1] \notin ProcOnly
    BY <1>4 DEF ProcOnly
  <2>. QED BY <2>3, <2>4, <2>5, <1>4, <1>8, <1>7, PushLike DEF ForProc
<1>10. PICK u3 : u3 = Cat(release("tickslock"), u2)
  OBVIOUS
<1>11. /\ u3 \in Seq(Steps) /\ StackOK(u3) /\ Held(u3) = {"tickslock"} /\ Plain(u3)
      /\ ~Has(u3, "doze") /\ ~Has(u3, "wakeup1") /\ Has(u3, "iret")
      /\ (ForProc(t) => ForProc(u3)) /\ (ForCpu(t) => ForCpu(u3))
  <2>1. u3 \in Seq(Steps) /\ StackOK(u3) /\ Held(u3) = Held(u2) \cup {"tickslock"} /\ Like(u3, u2) /\ Plain(u3)
    BY <1>5, <1>10, <1>9, PushRelease
  <2>2. Held(u2) \cup {"tickslock"} = {"tickslock"}
    BY <1>5, <1>9
  <2>. QED BY <2>1, <2>2, <1>9 DEF Like
<1>12. PICK u4 : u4 = Cat(wakeup, u3)
  OBVIOUS
<1>13. /\ u4 \in Seq(Steps) /\ StackOK(u4) /\ Held(u4) = {"tickslock"} /\ Plain(u4)
      /\ ~Has(u4, "doze") /\ Has(u4, "wakeup1") /\ Has(u4, "iret")
      /\ (ForProc(t) => ForProc(u4)) /\ (ForCpu(t) => ForCpu(u4))
  BY <1>12, <1>5, <1>11, PushWakeup
<1>14. PICK u5 : u5 = Push(a, u4)
  OBVIOUS
<1>15. /\ u5 \in Seq(Steps) /\ StackOK(u5) /\ Held(u5) = {"tickslock"} /\ Plain(u5)
      /\ ~Has(u5, "doze") /\ Has(u5, "wakeup1") /\ Has(u5, "iret")
      /\ (ForProc(t) => ForProc(u5)) /\ (ForCpu(t) => ForCpu(u5))
  <2>1. Good(a, u4)
    BY <1>4, <1>5, <1>13 DEF Good, Takes, Under, Order, Ahead, Plain
  <2>2. a[1] \notin {"xchg", "release"}
    BY <1>4
  <2>3. u5 \in Seq(Steps) /\ StackOK(u5) /\ Held(u5) = Held(u4)
    BY <2>1, <2>2, <1>14, <1>13, PushOther
  <2>4. Plain(u5)
    BY <1>4, <1>14, <1>13, TopPush DEF Plain
  <2>5. a[1] \notin ProcOnly
    BY <1>4 DEF ProcOnly
  <2>. QED BY <2>3, <2>4, <2>5, <1>4, <1>14, <1>13, PushLike DEF ForProc
<1>16. PICK u6 : u6 = Cat(acquire("tickslock"), u5)
  OBVIOUS
<1>17. /\ u6 \in Seq(Steps) /\ StackOK(u6) /\ Held(u6) = {} /\ Plain(u6)
      /\ ~Has(u6, "doze") /\ Has(u6, "wakeup1") /\ Has(u6, "iret")
      /\ (ForProc(t) => ForProc(u6)) /\ (ForCpu(t) => ForCpu(u6))
  <2>1. "tickslock" \in Held(u5) /\ ("tickslock" = "tickslock" => Held(u5) = {"tickslock"}) /\ Held(u5) \ {"tickslock"} = {}
    BY <1>5, <1>15
  <2>2. (Has(u5, "wakeup1") => Has(u5, "iret")) /\ (Has(u5, "doze") => Held(u5) # {"tickslock"})
    BY <1>5, <1>15
  <2>3. u6 \in Seq(Steps) /\ StackOK(u6) /\ Held(u6) = Held(u5) \ {"tickslock"} /\ Like(u6, u5) /\ Plain(u6)
    BY <2>1, <2>2, <1>5, <1>16, <1>15, PushAcquire
  <2>. QED BY <2>1, <2>3, <1>15 DEF Like
<1>18. acquire("tickslock") \o << <<"tick", None>> >> \o wakeup \o release("tickslock") \o << <<"preempt", None>>, <<"iret", TRUE>> >> \in Seq(Steps) /\ u = u6
  <2>1. PICK A0 \in Seq(Steps) : A0 = acquire("tickslock")
    BY <1>5, Sequences
  <2>2. PICK A1 \in Seq(Steps) : A1 = <<a>>
    BY <1>5, Sequences
  <2>3. PICK A2 \in Seq(Steps) : A2 = wakeup
    BY WakeupIn
  <2>4. PICK A3 \in Seq(Steps) : A3 = release("tickslock")
    BY <1>5, Sequences
  <2>5. PICK A4 \in Seq(Steps) : A4 = <<b, c>>
    BY <1>5, Sequences
  <2>6. acquire("tickslock") \o << <<"tick", None>> >> \o wakeup \o release("tickslock") \o << <<"preempt", None>>, <<"iret", TRUE>> >> = Cat(Cat(Cat(Cat(A0, A1), A2), A3), A4)
    BY <2>1, <2>2, <2>3, <2>4, <2>5, <1>1, <1>2, <1>3 DEF Cat
  <2>7. Cat(A0, u5) = u6
    BY <2>1, <1>16
  <2>8. Cat(A1, u4) = u5
    BY <2>2, <1>14, <1>13, CatOne
  <2>9. Cat(A2, u3) = u4
    BY <2>3, <1>12
  <2>10. Cat(A3, u2) = u3
    BY <2>4, <1>10
  <2>11. Cat(A4, t) = u2
    BY <2>5, <1>6, <1>8, TwoSteps
  <2>12. Cat(A0, A1) \in Seq(Steps) /\ Cat(Cat(A0, A1), A2) \in Seq(Steps) /\ Cat(Cat(Cat(A0, A1), A2), A3) \in Seq(Steps) /\ Cat(Cat(Cat(Cat(A0, A1), A2), A3), A4) \in Seq(Steps)
    BY CatAssoc
  <2>13. Cat(Cat(Cat(Cat(Cat(A0, A1), A2), A3), A4), t) = Cat(Cat(Cat(Cat(A0, A1), A2), A3), u2)
    BY <2>12, <2>11, CatAssoc
  <2>14. Cat(Cat(Cat(Cat(A0, A1), A2), A3), u2) = Cat(Cat(Cat(A0, A1), A2), u3)
    BY <2>12, <2>10, <1>9, CatAssoc
  <2>15. Cat(Cat(Cat(A0, A1), A2), u3) = Cat(Cat(A0, A1), u4)
    BY <2>12, <2>9, <1>11, CatAssoc
  <2>16. Cat(Cat(A0, A1), u4) = Cat(A0, u5)
    BY <2>12, <2>8, <1>13, CatAssoc
  <2>. QED BY <2>6, <2>7, <2>13, <2>14, <2>15, <2>16, CatAssoc, <2>12
<1>. QED BY <1>18, <1>17

LEMMA SleepIn == sleep \in Seq(Steps)
<1>1. "ptable" \in Locks /\ "tickslock" \in Locks
  BY DEF Locks
<1>2. PICK a \in Steps : a = <<"doze", None>>
  BY StepsIn
<1>3. PICK b \in Steps : b = <<"sched", None>>
  BY StepsIn
<1>4. Cat(Cat(Cat(Cat(acquire("ptable"), release("tickslock")), <<a, b>>), release("ptable")), acquire("tickslock")) \in Seq(Steps)
  BY <1>1, Sequences, CatAssoc
<1>. QED BY <1>2, <1>3, <1>4 DEF sleep, Cat

\* Another turn of the loop of sys_sleep.
LEMMA PushNap ==
  ASSUME NEW t \in Seq(Steps), StackOK(t), Held(t) = {"tickslock"}, Plain(t), ~Has(t, "doze"),
         ~Has(t, "wakeup1"),
         NEW u, u = Cat(sleep \o << <<"nap", None>> >>, t)
  PROVE  /\ sleep \o << <<"nap", None>> >> \in Seq(Steps)
         /\ u \in Seq(Steps) /\ StackOK(u) /\ Held(u) = {"tickslock"} /\ Plain(u)
         /\ Has(u, "doze") /\ ~Has(u, "wakeup1") /\ (Has(u, "iret") <=> Has(t, "iret"))
         /\ (ForProc(t) => ForProc(u))
<1>1. PICK a \in Steps : a = <<"nap", None>>
  BY StepsIn
<1>2. a[1] = "nap"
  BY <1>1
<1>3. "ptable" \in Locks /\ "tickslock" \in Locks /\ Locks = {"tickslock", "ptable"}
  BY DEF Locks
<1>4. PICK u1 : u1 = Push(a, t)
  OBVIOUS
<1>5. /\ u1 \in Seq(Steps) /\ StackOK(u1) /\ Held(u1) = {"tickslock"} /\ Plain(u1)
     /\ ~Has(u1, "doze") /\ ~Has(u1, "wakeup1") /\ (Has(u1, "iret") <=> Has(t, "iret"))
     /\ (ForProc(t) => ForProc(u1))
  <2>1. Good(a, t)
    BY <1>2, <1>3 DEF Good, Takes, Under, Order, Ahead, Plain
  <2>2. a[1] \notin {"xchg", "release"}
    BY <1>2
  <2>3. u1 \in Seq(Steps) /\ StackOK(u1) /\ Held(u1) = Held(t)
    BY <2>1, <2>2, <1>4, PushOther
  <2>4. Plain(u1)
    BY <1>2, <1>4, TopPush DEF Plain
  <2>5. a[1] \in ProcOnly
    BY <1>2 DEF ProcOnly
  <2>. QED BY <2>3, <2>4, <2>5, <1>2, <1>4, PushLike DEF ForProc
<1>6. PICK u2 : u2 = Cat(sleep, u1)
  OBVIOUS
<1>7. /\ u2 \in Seq(Steps) /\ StackOK(u2) /\ Held(u2) = {"tickslock"} /\ Plain(u2)
     /\ Has(u2, "doze") /\ ~Has(u2, "wakeup1") /\ (Has(u2, "iret") <=> Has(t, "iret"))
     /\ (ForProc(t) => ForProc(u2))
  BY <1>6, <1>3, <1>5, PushSleep
<1>8. sleep \o << <<"nap", None>> >> \in Seq(Steps) /\ u = u2
  <2>1. PICK A0 \in Seq(Steps) : A0 = sleep
    BY SleepIn
  <2>2. PICK A1 \in Seq(Steps) : A1 = <<a>>
    BY <1>3, Sequences
  <2>3. sleep \o << <<"nap", None>> >> = Cat(A0, A1)
    BY <2>1, <2>2, <1>1 DEF Cat
  <2>4. Cat(A0, u1) = u2
    BY <2>1, <1>6
  <2>5. Cat(A1, t) = u1
    BY <2>2, <1>4, CatOne
  <2>6. Cat(A0, A1) \in Seq(Steps)
    BY CatAssoc
  <2>7. Cat(Cat(A0, A1), t) = Cat(A0, u1)
    BY <2>6, <2>5, CatAssoc
  <2>. QED BY <2>3, <2>4, <2>7, CatAssoc, <2>6
<1>. QED BY <1>8, <1>7

\* The bodies of the system calls.
LEMMA PushSysSleep ==
  ASSUME NEW t \in Seq(Steps), StackOK(t), Held(t) = {}, Plain(t), ~Has(t, "doze"),
         ~Has(t, "wakeup1"),
         NEW u, u = Cat(acquire("tickslock") \o << <<"ticks0", None>>, <<"nap", None>> >> \o release("tickslock"), t)
  PROVE  /\ acquire("tickslock") \o << <<"ticks0", None>>, <<"nap", None>> >> \o release("tickslock") \in Seq(Steps)
         /\ u \in Seq(Steps) /\ StackOK(u) /\ Held(u) = {} /\ Plain(u)
         /\ ~Has(u, "doze") /\ ~Has(u, "wakeup1") /\ (Has(u, "iret") <=> Has(t, "iret"))
         /\ (ForProc(t) => ForProc(u))
<1>1. PICK a \in Steps : a = <<"ticks0", None>>
  BY StepsIn
<1>2. PICK b \in Steps : b = <<"nap", None>>
  BY StepsIn
<1>3. a[1] = "ticks0" /\ b[1] = "nap"
  BY <1>1, <1>2
<1>4. "ptable" \in Locks /\ "tickslock" \in Locks /\ Locks = {"tickslock", "ptable"}
  BY DEF Locks
<1>5. PICK u1 : u1 = Cat(release("tickslock"), t)
  OBVIOUS
<1>6. /\ u1 \in Seq(Steps) /\ StackOK(u1) /\ Held(u1) = {"tickslock"} /\ Plain(u1)
     /\ ~Has(u1, "doze") /\ ~Has(u1, "wakeup1") /\ (Has(u1, "iret") <=> Has(t, "iret"))
     /\ (ForProc(t) => ForProc(u1)) /\ (ForCpu(t) => ForCpu(u1))
  <2>1. u1 \in Seq(Steps) /\ StackOK(u1) /\ Held(u1) = Held(t) \cup {"tickslock"} /\ Like(u1, t) /\ Plain(u1)
    BY <1>4, <1>5, PushRelease
  <2>2. Held(t) \cup {"tickslock"} = {"tickslock"}
    BY <1>4
  <2>. QED BY <2>1, <2>2 DEF Like
<1>7. PICK u2 : u2 = Push(b, u1)
  OBVIOUS
<1>8. /\ u2 \in Seq(Steps) /\ StackOK(u2) /\ Held(u2) = {"tickslock"} /\ Plain(u2)
     /\ ~Has(u2, "doze") /\ ~Has(u2, "wakeup1") /\ (Has(u2, "iret") <=> Has(t, "iret"))
     /\ (ForProc(t) => ForProc(u2))
  <2>1. Good(b, u1)
    BY <1>3, <1>4, <1>6 DEF Good, Takes, Under, Order, Ahead, Plain
  <2>2. b[1] \notin {"xchg", "release"}
    BY <1>3
  <2>3. u2 \in Seq(Steps) /\ StackOK(u2) /\ Held(u2) = Held(u1)
    BY <2>1, <2>2, <1>7, <1>6, PushOther
  <2>4. Plain(u2)
    BY <1>3, <1>7, <1>6, TopPush DEF Plain
  <2>5. b[1] \in ProcOnly
    BY <1>3 DEF ProcOnly
  <2>. QED BY <2>3, <2>4, <2>5, <1>3, <1>7, <1>6, PushLike DEF ForProc
<1>9. PICK u3 : u3 = Push(a, u2)
  OBVIOUS
<1>10. /\ u3 \in Seq(Steps) /\ StackOK(u3) /\ Held(u3) = {"tickslock"} /\ Plain(u3)
      /\ ~Has(u3, "doze") /\ ~Has(u3, "wakeup1") /\ (Has(u3, "iret") <=> Has(t, "iret"))
      /\ (ForProc(t) => ForProc(u3))
  <2>1. Good(a, u2)
    BY <1>3, <1>4, <1>8 DEF Good, Takes, Under, Order, Ahead, Plain
  <2>2. a[1] \notin {"xchg", "release"}
    BY <1>3
  <2>3. u3 \in Seq(Steps) /\ StackOK(u3) /\ Held(u3) = Held(u2)
    BY <2>1, <2>2, <1>9, <1>8, PushOther
  <2>4. Plain(u3)
    BY <1>3, <1>9, <1>8, TopPush DEF Plain
  <2>5. a[1] \in ProcOnly
    BY <1>3 DEF ProcOnly
  <2>. QED BY <2>3, <2>4, <2>5, <1>3, <1>9, <1>8, PushLike DEF ForProc
<1>11. PICK u4 : u4 = Cat(acquire("tickslock"), u3)
  OBVIOUS
<1>12. /\ u4 \in Seq(Steps) /\ StackOK(u4) /\ Held(u4) = {} /\ Plain(u4)
      /\ ~Has(u4, "doze") /\ ~Has(u4, "wakeup1") /\ (Has(u4, "iret") <=> Has(t, "iret"))
      /\ (ForProc(t) => ForProc(u4))
  <2>1. "tickslock" \in Held(u3) /\ ("tickslock" = "tickslock" => Held(u3) = {"tickslock"}) /\ Held(u3) \ {"tickslock"} = {}
    BY <1>4, <1>10
  <2>2. (Has(u3, "wakeup1") => Has(u3, "iret")) /\ (Has(u3, "doze") => Held(u3) # {"tickslock"})
    BY <1>4, <1>10
  <2>3. u4 \in Seq(Steps) /\ StackOK(u4) /\ Held(u4) = Held(u3) \ {"tickslock"} /\ Like(u4, u3) /\ Plain(u4)
    BY <2>1, <2>2, <1>4, <1>11, <1>10, PushAcquire
  <2>. QED BY <2>1, <2>3, <1>10 DEF Like
<1>13. acquire("tickslock") \o << <<"ticks0", None>>, <<"nap", None>> >> \o release("tickslock") \in Seq(Steps) /\ u = u4
  <2>1. PICK A0 \in Seq(Steps) : A0 = acquire("tickslock")
    BY <1>4, Sequences
  <2>2. PICK A1 \in Seq(Steps) : A1 = <<a, b>>
    BY <1>4, Sequences
  <2>3. PICK A2 \in Seq(Steps) : A2 = release("tickslock")
    BY <1>4, Sequences
  <2>4. acquire("tickslock") \o << <<"ticks0", None>>, <<"nap", None>> >> \o release("tickslock") = Cat(Cat(A0, A1), A2)
    BY <2>1, <2>2, <2>3, <1>1, <1>2 DEF Cat
  <2>5. Cat(A0, u3) = u4
    BY <2>1, <1>11
  <2>6. Cat(A1, u1) = u3
    BY <2>2, <1>7, <1>9, <1>6, TwoSteps
  <2>7. Cat(A2, t) = u1
    BY <2>3, <1>5
  <2>8. Cat(A0, A1) \in Seq(Steps) /\ Cat(Cat(A0, A1), A2) \in Seq(Steps)
    BY CatAssoc
  <2>9. Cat(Cat(Cat(A0, A1), A2), t) = Cat(Cat(A0, A1), u1)
    BY <2>8, <2>7, CatAssoc
  <2>10. Cat(Cat(A0, A1), u1) = Cat(A0, u3)
    BY <2>8, <2>6, <1>6, CatAssoc
  <2>. QED BY <2>4, <2>5, <2>9, <2>10, CatAssoc, <2>8
<1>. QED BY <1>13, <1>12

LEMMA PushSysUptime ==
  ASSUME NEW t \in Seq(Steps), StackOK(t), Held(t) = {}, Plain(t), ~Has(t, "doze"),
         ~Has(t, "wakeup1"),
         NEW u, u = Cat(acquire("tickslock") \o release("tickslock"), t)
  PROVE  /\ acquire("tickslock") \o release("tickslock") \in Seq(Steps)
         /\ u \in Seq(Steps) /\ StackOK(u) /\ Held(u) = {} /\ Plain(u)
         /\ ~Has(u, "doze") /\ ~Has(u, "wakeup1") /\ (Has(u, "iret") <=> Has(t, "iret"))
         /\ (ForProc(t) => ForProc(u)) /\ (ForCpu(t) => ForCpu(u))
<1>1. "ptable" \in Locks /\ "tickslock" \in Locks /\ Locks = {"tickslock", "ptable"}
  BY DEF Locks
<1>2. PICK u1 : u1 = Cat(release("tickslock"), t)
  OBVIOUS
<1>3. /\ u1 \in Seq(Steps) /\ StackOK(u1) /\ Held(u1) = {"tickslock"} /\ Plain(u1)
     /\ ~Has(u1, "doze") /\ ~Has(u1, "wakeup1") /\ (Has(u1, "iret") <=> Has(t, "iret"))
     /\ (ForProc(t) => ForProc(u1)) /\ (ForCpu(t) => ForCpu(u1))
  <2>1. u1 \in Seq(Steps) /\ StackOK(u1) /\ Held(u1) = Held(t) \cup {"tickslock"} /\ Like(u1, t) /\ Plain(u1)
    BY <1>1, <1>2, PushRelease
  <2>2. Held(t) \cup {"tickslock"} = {"tickslock"}
    BY <1>1
  <2>. QED BY <2>1, <2>2 DEF Like
<1>4. PICK u2 : u2 = Cat(acquire("tickslock"), u1)
  OBVIOUS
<1>5. /\ u2 \in Seq(Steps) /\ StackOK(u2) /\ Held(u2) = {} /\ Plain(u2)
     /\ ~Has(u2, "doze") /\ ~Has(u2, "wakeup1") /\ (Has(u2, "iret") <=> Has(t, "iret"))
     /\ (ForProc(t) => ForProc(u2)) /\ (ForCpu(t) => ForCpu(u2))
  <2>1. "tickslock" \in Held(u1) /\ ("tickslock" = "tickslock" => Held(u1) = {"tickslock"}) /\ Held(u1) \ {"tickslock"} = {}
    BY <1>1, <1>3
  <2>2. (Has(u1, "wakeup1") => Has(u1, "iret")) /\ (Has(u1, "doze") => Held(u1) # {"tickslock"})
    BY <1>1, <1>3
  <2>3. u2 \in Seq(Steps) /\ StackOK(u2) /\ Held(u2) = Held(u1) \ {"tickslock"} /\ Like(u2, u1) /\ Plain(u2)
    BY <2>1, <2>2, <1>1, <1>4, <1>3, PushAcquire
  <2>. QED BY <2>1, <2>3, <1>3 DEF Like
<1>6. acquire("tickslock") \o release("tickslock") \in Seq(Steps) /\ u = u2
  <2>1. PICK A0 \in Seq(Steps) : A0 = acquire("tickslock")
    BY <1>1, Sequences
  <2>2. PICK A1 \in Seq(Steps) : A1 = release("tickslock")
    BY <1>1, Sequences
  <2>3. acquire("tickslock") \o release("tickslock") = Cat(A0, A1)
    BY <2>1, <2>2 DEF Cat
  <2>4. Cat(A0, u1) = u2
    BY <2>1, <1>4
  <2>5. Cat(A1, t) = u1
    BY <2>2, <1>2
  <2>6. Cat(A0, A1) \in Seq(Steps)
    BY CatAssoc
  <2>7. Cat(Cat(A0, A1), t) = Cat(A0, u1)
    BY <2>6, <2>5, CatAssoc
  <2>. QED BY <2>3, <2>4, <2>7, CatAssoc, <2>6
<1>. QED BY <1>6, <1>5

LEMMA PushSysKill ==
  ASSUME NEW t \in Seq(Steps), StackOK(t), Held(t) = {}, Plain(t), ~Has(t, "doze"),
         ~Has(t, "wakeup1"), NEW p \in Procs,
         NEW u, u = Cat(acquire("ptable") \o << <<"kill", p>> >> \o release("ptable"), t)
  PROVE  /\ acquire("ptable") \o << <<"kill", p>> >> \o release("ptable") \in Seq(Steps)
         /\ u \in Seq(Steps) /\ StackOK(u) /\ Held(u) = {} /\ Plain(u)
         /\ ~Has(u, "doze") /\ ~Has(u, "wakeup1") /\ (Has(u, "iret") <=> Has(t, "iret"))
         /\ (ForProc(t) => ForProc(u))
<1>1. PICK a \in Steps : a = <<"kill", p>>
  BY StepsIn
<1>2. a[1] = "kill" /\ a[2] = p
  BY <1>1
<1>3. "ptable" \in Locks /\ "tickslock" \in Locks /\ Locks = {"tickslock", "ptable"}
  BY DEF Locks
<1>4. PICK u1 : u1 = Cat(release("ptable"), t)
  OBVIOUS
<1>5. /\ u1 \in Seq(Steps) /\ StackOK(u1) /\ Held(u1) = {"ptable"} /\ Plain(u1)
     /\ ~Has(u1, "doze") /\ ~Has(u1, "wakeup1") /\ (Has(u1, "iret") <=> Has(t, "iret"))
     /\ (ForProc(t) => ForProc(u1)) /\ (ForCpu(t) => ForCpu(u1))
  <2>1. u1 \in Seq(Steps) /\ StackOK(u1) /\ Held(u1) = Held(t) \cup {"ptable"} /\ Like(u1, t) /\ Plain(u1)
    BY <1>3, <1>4, PushRelease
  <2>2. Held(t) \cup {"ptable"} = {"ptable"}
    BY <1>3
  <2>. QED BY <2>1, <2>2 DEF Like
<1>6. PICK u2 : u2 = Push(a, u1)
  OBVIOUS
<1>7. /\ u2 \in Seq(Steps) /\ StackOK(u2) /\ Held(u2) = {"ptable"} /\ Plain(u2)
     /\ ~Has(u2, "doze") /\ ~Has(u2, "wakeup1") /\ (Has(u2, "iret") <=> Has(t, "iret"))
     /\ (ForProc(t) => ForProc(u2))
  <2>1. Good(a, u1)
    BY <1>2, <1>3, <1>5 DEF Good, Takes, Under, Order, Ahead, Plain
  <2>2. a[1] \notin {"xchg", "release"}
    BY <1>2
  <2>3. u2 \in Seq(Steps) /\ StackOK(u2) /\ Held(u2) = Held(u1)
    BY <2>1, <2>2, <1>6, <1>5, PushOther
  <2>4. Plain(u2)
    BY <1>2, <1>6, <1>5, TopPush DEF Plain
  <2>5. a[1] \in ProcOnly
    BY <1>2 DEF ProcOnly
  <2>. QED BY <2>3, <2>4, <2>5, <1>2, <1>6, <1>5, PushLike DEF ForProc
<1>8. PICK u3 : u3 = Cat(acquire("ptable"), u2)
  OBVIOUS
<1>9. /\ u3 \in Seq(Steps) /\ StackOK(u3) /\ Held(u3) = {} /\ Plain(u3)
     /\ ~Has(u3, "doze") /\ ~Has(u3, "wakeup1") /\ (Has(u3, "iret") <=> Has(t, "iret"))
     /\ (ForProc(t) => ForProc(u3))
  <2>1. "ptable" \in Held(u2) /\ ("ptable" = "tickslock" => Held(u2) = {"tickslock"}) /\ Held(u2) \ {"ptable"} = {}
    BY <1>3, <1>7
  <2>2. (Has(u2, "wakeup1") => Has(u2, "iret")) /\ (Has(u2, "doze") => Held(u2) # {"ptable"})
    BY <1>3, <1>7
  <2>3. u3 \in Seq(Steps) /\ StackOK(u3) /\ Held(u3) = Held(u2) \ {"ptable"} /\ Like(u3, u2) /\ Plain(u3)
    BY <2>1, <2>2, <1>3, <1>8, <1>7, PushAcquire
  <2>. QED BY <2>1, <2>3, <1>7 DEF Like
<1>10. acquire("ptable") \o << <<"kill", p>> >> \o release("ptable") \in Seq(Steps) /\ u = u3
  <2>1. PICK A0 \in Seq(Steps) : A0 = acquire("ptable")
    BY <1>3, Sequences
  <2>2. PICK A1 \in Seq(Steps) : A1 = <<a>>
    BY <1>3, Sequences
  <2>3. PICK A2 \in Seq(Steps) : A2 = release("ptable")
    BY <1>3, Sequences
  <2>4. acquire("ptable") \o << <<"kill", p>> >> \o release("ptable") = Cat(Cat(A0, A1), A2)
    BY <2>1, <2>2, <2>3, <1>1 DEF Cat
  <2>5. Cat(A0, u2) = u3
    BY <2>1, <1>8
  <2>6. Cat(A1, u1) = u2
    BY <2>2, <1>6, <1>5, CatOne
  <2>7. Cat(A2, t) = u1
    BY <2>3, <1>4
  <2>8. Cat(A0, A1) \in Seq(Steps) /\ Cat(Cat(A0, A1), A2) \in Seq(Steps)
    BY CatAssoc
  <2>9. Cat(Cat(Cat(A0, A1), A2), t) = Cat(Cat(A0, A1), u1)
    BY <2>8, <2>7, CatAssoc
  <2>10. Cat(Cat(A0, A1), u1) = Cat(A0, u2)
    BY <2>8, <2>6, <1>5, CatAssoc
  <2>. QED BY <2>4, <2>5, <2>9, <2>10, CatAssoc, <2>8
<1>. QED BY <1>10, <1>9

\* The return from a system call, and the first steps of a process.
LEMMA PushSysret ==
  ASSUME NEW t \in Seq(Steps), StackOK(t), Held(t) = {}, Plain(t), ~Has(t, "doze"),
         ~Has(t, "wakeup1"), ~Has(t, "iret"), t = <<>>,
         NEW u, u = Cat(<< <<"sysret", TRUE>> >>, t)
  PROVE  /\ << <<"sysret", TRUE>> >> \in Seq(Steps)
         /\ u \in Seq(Steps) /\ StackOK(u) /\ Held(u) = {} /\ Plain(u)
         /\ ~Has(u, "doze") /\ ~Has(u, "wakeup1") /\ ~Has(u, "iret")
         /\ (ForProc(t) => ForProc(u))
<1>1. PICK a \in Steps : a = <<"sysret", TRUE>>
  BY StepsIn
<1>2. a[1] = "sysret" /\ a[2] = TRUE
  BY <1>1
<1>3. "ptable" \in Locks /\ "tickslock" \in Locks /\ Locks = {"tickslock", "ptable"}
  BY DEF Locks
<1>4. PICK u1 : u1 = Push(a, t)
  OBVIOUS
<1>5. /\ u1 \in Seq(Steps) /\ StackOK(u1) /\ Held(u1) = {} /\ Plain(u1)
     /\ ~Has(u1, "doze") /\ ~Has(u1, "wakeup1") /\ ~Has(u1, "iret")
     /\ (ForProc(t) => ForProc(u1))
  <2>1. Good(a, t)
    BY <1>2, <1>3 DEF Good, Takes, Under, Order, Ahead, Plain
  <2>2. a[1] \notin {"xchg", "release"}
    BY <1>2
  <2>3. u1 \in Seq(Steps) /\ StackOK(u1) /\ Held(u1) = Held(t)
    BY <2>1, <2>2, <1>4, PushOther
  <2>4. Plain(u1)
    BY <1>2, <1>4, TopPush DEF Plain
  <2>5. a[1] \in ProcOnly
    BY <1>2 DEF ProcOnly
  <2>. QED BY <2>3, <2>4, <2>5, <1>2, <1>4, PushLike DEF ForProc
<1>6. << <<"sysret", TRUE>> >> \in Seq(Steps) /\ u = u1
  <2>1. PICK A0 \in Seq(Steps) : A0 = <<a>>
    BY <1>3, Sequences
  <2>2. << <<"sysret", TRUE>> >> = A0
    BY <2>1, <1>1 DEF Cat
  <2>3. Cat(A0, t) = u1
    BY <2>1, <1>4, CatOne
  <2>. QED BY <2>2, <2>3
<1>. QED BY <1>6, <1>5

LEMMA CatNone ==
  ASSUME NEW t \in Seq(Steps)
  PROVE  Cat(t, <<>>) = t /\ Cat(<<>>, t) = t
BY ConcatEmptySeq DEF Cat

LEMMA NoSteps == Held(<<>>) = {} /\ Plain(<<>>) /\ ForProc(<<>>) /\ ForCpu(<<>>)
BY Bottom DEF Plain, ForProc, ForCpu

LEMMA Sysret ==
  ASSUME NEW w, w = << <<"sysret", TRUE>> >>
  PROVE  /\ w \in Seq(Steps) /\ StackOK(w) /\ Held(w) = {} /\ Plain(w) /\ ForProc(w)
         /\ ~Has(w, "doze") /\ ~Has(w, "wakeup1") /\ ~Has(w, "iret")
<1>1. w \in Seq(Steps)
  <2>1. PICK s \in Steps : s = <<"sysret", TRUE>>
    BY StepsIn
  <2>. QED BY <2>1, Sequences
<1>2. Cat(w, <<>>) = w
  <2>1. \A x \in Seq(Steps) : Cat(x, <<>>) = x
    BY CatNone
  <2>. QED BY <1>1, <2>1, Zenon
<1>3. PICK t \in Seq(Steps) : t = <<>>
  BY Bottom
<1>4. /\ StackOK(t) /\ Held(t) = {} /\ Plain(t) /\ ForProc(t)
      /\ ~Has(t, "doze") /\ ~Has(t, "wakeup1") /\ ~Has(t, "iret") /\ w = Cat(<< <<"sysret", TRUE>> >>, t)
  BY <1>2, <1>3, Bottom, NoSteps
<1>. QED BY <1>3, <1>4, PushSysret

\* The step with which a scheduler goes on, and the first steps of a process.
LEMMA OneRelease ==
  ASSUME NEW w, w = << <<"release", "ptable">> >>
  PROVE  /\ w \in Seq(Steps) /\ StackOK(w) /\ Held(w) = {"ptable"} /\ Plain(w) /\ ForCpu(w)
         /\ ~Has(w, "doze") /\ ~Has(w, "wakeup1") /\ ~Has(w, "iret") /\ ~Has(w, "pick")
<1>1. w \in Seq(Steps) /\ w = release("ptable") /\ "ptable" \in Locks
  BY StepsIn DEF release, Locks
<1>2. Cat(release("ptable"), <<>>) = w
  BY <1>1, CatNone
<1>3. PICK t \in Seq(Steps) : t = <<>>
  BY Bottom
<1>4. /\ StackOK(t) /\ Held(t) = {} /\ Plain(t) /\ ForProc(t) /\ ForCpu(t)
      /\ ~Has(t, "doze") /\ ~Has(t, "wakeup1") /\ ~Has(t, "iret") /\ w = Cat(release("ptable"), t)
  BY <1>2, <1>3, Bottom, NoSteps
<1>5. StackOK(w) /\ Held(w) = Held(t) \cup {"ptable"} /\ Like(w, t) /\ Plain(w)
  BY <1>1, <1>4, PushRelease
<1>. QED BY <1>1, <1>4, <1>5 DEF Like, ForProc

LEMMA Forkret ==
  /\ forkret \in Seq(Steps) /\ StackOK(forkret) /\ Held(forkret) = {"ptable"} /\ Plain(forkret)
  /\ ~Has(forkret, "doze") /\ ~Has(forkret, "wakeup1") /\ ~Has(forkret, "iret") /\ ForProc(forkret)
  /\ forkret # <<>> /\ Head(forkret) = <<"release", "ptable">>
<1>1. PICK w : w = << <<"sysret", TRUE>> >>
  OBVIOUS
<1>2. /\ w \in Seq(Steps) /\ StackOK(w) /\ Held(w) = {} /\ Plain(w) /\ ForProc(w)
      /\ ~Has(w, "doze") /\ ~Has(w, "wakeup1") /\ ~Has(w, "iret")
  BY <1>1, Sysret
<1>3. forkret = Cat(release("ptable"), w) /\ "ptable" \in Locks
  BY <1>1 DEF forkret, Cat, Locks
<1>4. /\ forkret \in Seq(Steps) /\ StackOK(forkret) /\ Held(forkret) = Held(w) \cup {"ptable"}
      /\ Like(forkret, w) /\ Plain(forkret)
  BY <1>2, <1>3, PushRelease
<1>5. forkret # <<>> /\ Head(forkret) = <<"release", "ptable">>
  <2>1. PICK s \in Steps : s = <<"release", "ptable">>
    BY <1>3, StepsIn
  <2>2. forkret = Push(s, w)
    BY <2>1, <1>3, CatOne DEF release
  <2>3. forkret # <<>> /\ Head(forkret) = s
    BY <2>2, <1>2, Pushed
  <2>. QED BY <2>1, <2>3
<1>. QED BY <1>2, <1>4, <1>5 DEF Like

LEMMA Round ==
  /\ round \in Seq(Steps) /\ StackOK(round) /\ Held(round) = {} /\ Plain(round) /\ ForCpu(round)
  /\ ~Has(round, "doze") /\ ~Has(round, "wakeup1") /\ ~Has(round, "iret")
<1>1. PICK w : w = << <<"release", "ptable">> >>
  OBVIOUS
<1>2. /\ w \in Seq(Steps) /\ StackOK(w) /\ Held(w) = {"ptable"} /\ Plain(w) /\ ForCpu(w)
      /\ ~Has(w, "doze") /\ ~Has(w, "wakeup1") /\ ~Has(w, "iret")
  BY <1>1, OneRelease
<1>3. PICK a \in Steps : a = <<"pick", None>>
  BY StepsIn
<1>4. a[1] = "pick" /\ a[1] \notin ProcOnly /\ a[1] \notin {"xchg", "release"}
  BY <1>3 DEF ProcOnly
<1>5. PICK v : v = Push(a, w)
  OBVIOUS
<1>6. Good(a, w)
  BY <1>1, <1>2, <1>4 DEF Good, Takes, Under, Order, Ahead, Plain
<1>7. v \in Seq(Steps) /\ StackOK(v) /\ Held(v) = {"ptable"}
  BY <1>2, <1>4, <1>5, <1>6, PushOther
<1>8. Plain(v) /\ ForCpu(v) /\ ~Has(v, "doze") /\ ~Has(v, "wakeup1") /\ ~Has(v, "iret")
  BY <1>2, <1>4, <1>5, PushLike
<1>9. round = Cat(acquire("ptable"), v) /\ "ptable" \in Locks
  <2>1. "ptable" \in Locks
    BY DEF Locks
  <2>2. PICK A \in Seq(Steps) : A = acquire("ptable")
    BY <2>1, Sequences
  <2>3. PICK B \in Seq(Steps) : B = <<a>>
    BY Sequences
  <2>4. round = Cat(Cat(A, B), w)
    BY <1>1, <1>3, <2>2, <2>3 DEF round, Cat, release
  <2>5. Cat(Cat(A, B), w) = Cat(A, Cat(B, w))
    BY <1>2, CatAssoc
  <2>6. Cat(B, w) = v
    BY <2>3, <1>5, CatOne
  <2>. QED BY <2>1, <2>2, <2>4, <2>5, <2>6
<1>10. "ptable" \in Held(v) /\ "ptable" # "tickslock" /\ Held(v) \ {"ptable"} = {}
  BY <1>7
<1>11. /\ round \in Seq(Steps) /\ StackOK(round) /\ Held(round) = Held(v) \ {"ptable"}
       /\ Like(round, v) /\ Plain(round)
  BY <1>7, <1>8, <1>9, <1>10, PushAcquire
<1>. QED BY <1>8, <1>10, <1>11 DEF Like

-----------------------------------------------------------------------------
(* The invariant.                                                          *)

Size(H) == (IF "tickslock" \in H THEN 1 ELSE 0) + (IF "ptable" \in H THEN 1 ELSE 0)

Types ==
  /\ IF_ \in [CPUs -> BOOLEAN] /\ intena \in [CPUs -> BOOLEAN] /\ ncli \in [CPUs -> Int]
  /\ proc \in [CPUs -> Procs \cup {None}]
  /\ locked \in [Locks -> BOOLEAN] /\ lcpu \in [Locks -> CPUs \cup {None}]
  /\ state \in [Procs -> {"RUNNABLE", "RUNNING", "SLEEPING"}]
  /\ killed \in [Procs -> BOOLEAN]
  /\ ticks \in 0 .. UINT - 1 /\ ticks0 \in [Procs -> 0 .. UINT - 1]
  /\ n \in [Procs -> Naps \cup {0}]
  /\ panic = "no"

\* Every stack is in order.
Stacks ==
  /\ todo \in [CPUs \cup Procs -> Seq(Steps)]
  /\ \A x \in CPUs \cup Procs : StackOK(todo[x])
  /\ \A c \in CPUs : ForCpu(todo[c])
  /\ \A p \in Procs : ForProc(todo[p])

\* A process runs on one CPU, whose scheduler waits in swtch with ptable.lock
\* to give back; a process on no CPU is in sched, or has not run yet.
Current(p) == \E c \in CPUs : proc[c] = p
AwayOK(p) ==
  /\ state[p] # "RUNNING" /\ Held(todo[p]) = {"ptable"}
  /\ \/ Top(todo[p], "intena") /\ (Head(todo[p])[2] = TRUE <=> ~Has(todo[p], "iret"))
     \/ Top(todo[p], "release") /\ ~Has(todo[p], "iret") /\ ~Has(todo[p], "doze")
Switched ==
  /\ \A c, d \in CPUs : proc[c] = proc[d] /\ proc[c] # None => c = d
  /\ \A c \in CPUs : proc[c] # None => todo[c] = << <<"release", "ptable">> >>
  /\ \A c \in CPUs : proc[c] # None => (state[proc[c]] = "RUNNING" <=> ~Top(todo[proc[c]], "sched"))
  /\ \A p \in Procs : ~Current(p) => AwayOK(p)

\* The stack that a CPU uses shows the locks it holds.
Owners ==
  /\ \A c \in CPUs, l \in Locks : l \in Held(todo[Stack(c)]) <=> locked[l] = TRUE /\ lcpu[l] = c
  /\ \A l \in Locks : locked[l] = TRUE => lcpu[l] \in CPUs

\* A CPU with stack t, flag f, ncli k, intena e and process q.  Interrupts are
\* off under a lock; once it is given back they are on, except in a handler
\* and in the scheduler between two rounds.
Eff(t, f, k, e) == IF k = 0 THEN f ELSE IF Top(t, "intena") THEN Head(t)[2] ELSE e
Idle == {<<>>, << <<"release", "ptable">> >>}
CpuOK(t, f, k, e, q) ==
  /\ k = Size(Held(t)) + (IF Top(t, "xchg") THEN 1 ELSE 0)
  /\ k > 0 => f = FALSE
  /\ Has(t, "iret") => Eff(t, f, k, e) # TRUE
  /\ ~Has(t, "iret") => Eff(t, f, k, e) = TRUE \/ (q = None /\ t \in Idle)
Cpus == \A c \in CPUs : CpuOK(todo[Stack(c)], IF_[c], ncli[c], intena[c], proc[c])

\* A process that sleeps, or is about to, has time left or is going to be
\* woken up.
Waking == \E c \in CPUs : Has(todo[Stack(c)], "wakeup1")
Sleepy(p) == state[p] = "SLEEPING" \/ Has(todo[p], "doze")
Ticking == \A p \in Procs : Sleepy(p) => Early(p) \/ Waking

Inv == Types /\ Stacks /\ Switched /\ Owners /\ Cpus /\ Ticking

-----------------------------------------------------------------------------
(* The stack that a CPU uses, and a step of it.                            *)

LEMMA Using ==
  ASSUME Types, Stacks, Switched, NEW c \in CPUs
  PROVE  /\ Stack(c) \in CPUs \cup Procs /\ todo[Stack(c)] \in Seq(Steps) /\ StackOK(todo[Stack(c)])
         /\ \A d \in CPUs : Stack(d) = Stack(c) => d = c
         /\ proc[c] = None => Stack(c) = c /\ ForCpu(todo[Stack(c)])
         /\ proc[c] # None => proc[c] \in Procs /\ Stack(c) = proc[c] /\ ForProc(todo[Stack(c)])
<1>1. \A d \in CPUs : proc[d] \in Procs \cup {None}
  BY DEF Types
<1>2. CPUs \cap Procs = {} /\ None \notin CPUs \cup Procs
  BY ClockAssumption
<1>3. \A d \in CPUs : Stack(d) \in CPUs \cup Procs
  BY <1>1 DEF Stack
<1>4. \A d \in CPUs : Stack(d) = Stack(c) => d = c
  <2>. SUFFICES ASSUME NEW d \in CPUs, Stack(d) = Stack(c)
                PROVE  d = c
    OBVIOUS
  <2>1. CASE proc[c] = None
    BY <2>1, <1>1, <1>2 DEF Stack
  <2>2. CASE proc[c] # None
    BY <2>2, <1>1, <1>2 DEF Stack, Switched
  <2>. QED BY <2>1, <2>2
<1>5. todo[Stack(c)] \in Seq(Steps) /\ StackOK(todo[Stack(c)])
  BY <1>3 DEF Stacks
<1>6. proc[c] = None => Stack(c) = c /\ ForCpu(todo[Stack(c)])
  BY DEF Stack, Stacks
<1>7. proc[c] # None => proc[c] \in Procs /\ Stack(c) = proc[c] /\ ForProc(todo[Stack(c)])
  BY <1>1 DEF Stack, Stacks
<1>. QED BY <1>3, <1>4, <1>5, <1>6, <1>7

\* What the next step and the rest of a stack are.
Split(t, op, s, r) ==
  /\ s \in Steps /\ r \in Seq(Steps) /\ t = Push(s, r) /\ s = Head(t) /\ r = Tail(t)
  /\ s[1] = op /\ Good(s, r) /\ StackOK(r)

LEMMA Popping ==
  ASSUME Types, Stacks, Switched, NEW c \in CPUs, NEW op, At(c, op)
  PROVE  Split(todo[Stack(c)], op, Head(todo[Stack(c)]), Tail(todo[Stack(c)]))
<1>1. PICK t : t = todo[Stack(c)]
  OBVIOUS
<1>2. t \in Seq(Steps) /\ StackOK(t) /\ t # <<>> /\ Head(t)[1] = op
  BY <1>1, Using DEF At
<1>3. Head(t) \in Steps /\ Tail(t) \in Seq(Steps) /\ t = Push(Head(t), Tail(t))
  BY <1>2, Popped
<1>4. PICK s \in Steps, r \in Seq(Steps) : s = Head(t) /\ r = Tail(t)
  BY <1>3
<1>5. Good(s, r) /\ StackOK(r)
  BY <1>2, <1>3, <1>4, StackPush
<1>. QED BY <1>1, <1>2, <1>3, <1>4, <1>5 DEF Split

\* The stack of c becomes u, and nothing else of the stacks changes.
Becomes(c, u) ==
  /\ todo' = [todo EXCEPT ![Stack(c)] = u]
  /\ u \in Seq(Steps) /\ StackOK(u)
  /\ proc[c] = None => ForCpu(u)
  /\ proc[c] # None => ForProc(u)

LEMMA Becoming ==
  ASSUME Types, Stacks, Switched, NEW c \in CPUs, NEW u, Becomes(c, u)
  PROVE  /\ Stacks' /\ todo'[Stack(c)] = u
         /\ \A x \in CPUs \cup Procs : x # Stack(c) => todo'[x] = todo[x]
<1>1. /\ Stack(c) \in CPUs \cup Procs
      /\ proc[c] = None => Stack(c) = c
      /\ proc[c] # None => proc[c] \in Procs /\ Stack(c) = proc[c]
  BY Using
<1>2. PICK x : x = Stack(c)
  OBVIOUS
<1>3. /\ x \in CPUs \cup Procs /\ todo' = [todo EXCEPT ![x] = u] /\ todo \in [CPUs \cup Procs -> Seq(Steps)]
      /\ u \in Seq(Steps) /\ StackOK(u)
  BY <1>1, <1>2 DEF Becomes, Stacks
<1>4. /\ todo' \in [CPUs \cup Procs -> Seq(Steps)] /\ todo'[x] = u
      /\ \A y \in CPUs \cup Procs : y # x => todo'[y] = todo[y]
  BY <1>3
<1>5. (x \in CPUs => ForCpu(u)) /\ (x \in Procs => ForProc(u))
  <2>1. CPUs \cap Procs = {}
    BY ClockAssumption
  <2>. QED BY <2>1, <1>1, <1>2 DEF Becomes
<1>6. \A y \in CPUs \cup Procs : StackOK(todo'[y])
  BY <1>3, <1>4 DEF Stacks
<1>7. \A d \in CPUs : ForCpu(todo'[d])
  BY <1>4, <1>5 DEF Stacks
<1>8. \A p \in Procs : ForProc(todo'[p])
  BY <1>4, <1>5 DEF Stacks
<1>. QED BY <1>2, <1>4, <1>6, <1>7, <1>8 DEF Stacks

\* No process is switched to or from, and only the process of c starts or
\* stops being RUNNING, in front of sched.
LEMMA KeepSwitched ==
  ASSUME Types, Stacks, Switched, NEW c \in CPUs, NEW u, Becomes(c, u), proc' = proc,
         \A p \in Procs : p # proc[c] => (state'[p] = "RUNNING" <=> state[p] = "RUNNING"),
         proc[c] # None => (state'[proc[c]] = "RUNNING" <=> ~Top(u, "sched"))
  PROVE  Switched'
<1>1. /\ \A x \in CPUs \cup Procs : x # Stack(c) => todo'[x] = todo[x]
      /\ todo'[Stack(c)] = u
  BY Becoming
<1>2. /\ proc[c] = None => Stack(c) = c
      /\ proc[c] # None => proc[c] \in Procs /\ Stack(c) = proc[c]
  BY Using
<1>3. CPUs \cap Procs = {} /\ \A d \in CPUs : proc[d] \in Procs \cup {None}
  BY ClockAssumption DEF Types
<1>4. \A d, e \in CPUs : proc'[d] = proc'[e] /\ proc'[d] # None => d = e
  BY DEF Switched
<1>5. ASSUME NEW d \in CPUs, proc'[d] # None
      PROVE  todo'[d] = << <<"release", "ptable">> >>
  <2>1. d # Stack(c)
    BY <1>2, <1>3, <1>5
  <2>. QED BY <2>1, <1>1, <1>5 DEF Switched
<1>6. ASSUME NEW d \in CPUs, proc'[d] # None
      PROVE  state'[proc'[d]] = "RUNNING" <=> ~Top(todo'[proc'[d]], "sched")
  <2>1. CASE d = c
    BY <2>1, <1>1, <1>2, <1>6
  <2>2. CASE d # c
    <3>1. proc[d] \in Procs /\ proc[d] # proc[c] /\ proc[d] # Stack(c)
      BY <2>2, <1>2, <1>3, <1>6 DEF Switched
    <3>. QED BY <3>1, <1>1, <1>6 DEF Switched
  <2>. QED BY <2>1, <2>2
<1>7. ASSUME NEW p \in Procs, ~Current(p)'
      PROVE  AwayOK(p)'
  <2>1. ~Current(p) /\ p # proc[c]
    BY <1>7 DEF Current
  <2>2. p # Stack(c) /\ todo'[p] = todo[p]
    BY <2>1, <1>1, <1>2, <1>3
  <2>3. AwayOK(p)
    BY <2>1 DEF Switched
  <2>. QED BY <2>1, <2>2, <2>3 DEF AwayOK
<1>. QED BY <1>4, <1>5, <1>6, <1>7 DEF Switched

\* The other CPUs keep their flags and their locks.
LEMMA KeepCpus ==
  ASSUME Types, Stacks, Switched, Owners, Cpus, NEW c \in CPUs, NEW u, Becomes(c, u), proc' = proc,
         \A d \in CPUs : d # c => IF_'[d] = IF_[d] /\ ncli'[d] = ncli[d] /\ intena'[d] = intena[d],
         \A d \in CPUs : d # c => \A l \in Locks :
           (locked'[l] = TRUE /\ lcpu'[l] = d) <=> (locked[l] = TRUE /\ lcpu[l] = d),
         \A l \in Locks : l \in Held(u) <=> locked'[l] = TRUE /\ lcpu'[l] = c,
         \A l \in Locks : locked'[l] = TRUE => lcpu'[l] \in CPUs,
         CpuOK(u, IF_'[c], ncli'[c], intena'[c], proc[c])
  PROVE  Owners' /\ Cpus'
<1>1. /\ \A x \in CPUs \cup Procs : x # Stack(c) => todo'[x] = todo[x]
      /\ todo'[Stack(c)] = u
  BY Becoming
<1>2. \A d \in CPUs : Stack(d) \in CPUs \cup Procs /\ (Stack(d) = Stack(c) => d = c)
  BY Using
<1>3. \A d \in CPUs : Stack(d)' = Stack(d)
  BY DEF Stack
<1>4. \A d \in CPUs : d # c => todo'[Stack(d)'] = todo[Stack(d)]
  BY <1>1, <1>2, <1>3
<1>5. todo'[Stack(c)'] = u
  BY <1>1, <1>3
<1>6. ASSUME NEW d \in CPUs, NEW l \in Locks
      PROVE  l \in Held(todo'[Stack(d)']) <=> locked'[l] = TRUE /\ lcpu'[l] = d
  <2>1. CASE d = c
    BY <2>1, <1>5
  <2>2. CASE d # c
    BY <2>2, <1>4 DEF Owners
  <2>. QED BY <2>1, <2>2
<1>7. ASSUME NEW d \in CPUs
      PROVE  CpuOK(todo'[Stack(d)'], IF_'[d], ncli'[d], intena'[d], proc'[d])
  <2>1. CASE d = c
    BY <2>1, <1>5
  <2>2. CASE d # c
    BY <2>2, <1>4 DEF Cpus
  <2>. QED BY <2>1, <2>2
<1>8. Owners'
  BY <1>6 DEF Owners
<1>9. Cpus'
  BY <1>7 DEF Cpus
<1>. QED BY <1>8, <1>9

LEMMA KeepTicking ==
  ASSUME Types, Stacks, Switched, Ticking, NEW c \in CPUs, NEW u, Becomes(c, u), proc' = proc,
         Has(todo[Stack(c)], "wakeup1") => Has(u, "wakeup1"),
         \A p \in Procs : Sleepy(p)' => Sleepy(p) /\ (Early(p) => Early(p)')
  PROVE  Ticking'
<1>1. /\ \A x \in CPUs \cup Procs : x # Stack(c) => todo'[x] = todo[x]
      /\ todo'[Stack(c)] = u
  BY Becoming
<1>2. \A d \in CPUs : Stack(d) \in CPUs \cup Procs /\ (Stack(d) = Stack(c) => d = c)
  BY Using
<1>3. \A d \in CPUs : Stack(d)' = Stack(d)
  BY DEF Stack
<1>4. \A d \in CPUs : d # c => todo'[Stack(d)'] = todo[Stack(d)]
  BY <1>1, <1>2, <1>3
<1>5. Waking => Waking'
  <2>. SUFFICES ASSUME NEW d \in CPUs, Has(todo[Stack(d)], "wakeup1")
                PROVE  Has(todo'[Stack(d)'], "wakeup1")
    BY DEF Waking
  <2>1. CASE d = c
    BY <2>1, <1>1, <1>3
  <2>2. CASE d # c
    BY <2>2, <1>4
  <2>. QED BY <2>1, <2>2
<1>. QED BY <1>5 DEF Ticking

\* Nobody goes to sleep, and time stands still.
LEMMA StillTicking ==
  ASSUME Types, Stacks, Switched, Ticking, NEW c \in CPUs, NEW u, Becomes(c, u), proc' = proc,
         Has(todo[Stack(c)], "wakeup1") => Has(u, "wakeup1"),
         Has(u, "doze") => Has(todo[Stack(c)], "doze"),
         \A p \in Procs : state'[p] = "SLEEPING" => state[p] = "SLEEPING",
         UNCHANGED <<ticks, ticks0, n>>
  PROVE  Ticking'
<1>1. /\ \A x \in CPUs \cup Procs : x # Stack(c) => todo'[x] = todo[x]
      /\ todo'[Stack(c)] = u
  BY Becoming
<1>2. \A p \in Procs : Sleepy(p)' => Sleepy(p)
  BY <1>1 DEF Sleepy
<1>3. \A p \in Procs : Early(p)' <=> Early(p)
  BY DEF Early
<1>. QED BY <1>2, <1>3, KeepTicking

\* A step that leaves locks and flags alone.
LEMMA KeepQuiet ==
  ASSUME Types, Stacks, Switched, Owners, Cpus, NEW c \in CPUs, NEW u, Becomes(c, u),
         UNCHANGED <<cpuVars, lockVars>>, Held(u) = Held(todo[Stack(c)]),
         Plain(todo[Stack(c)]) \/ Top(todo[Stack(c)], "sched"), Plain(u) \/ Top(u, "sched"),
         Has(u, "iret") <=> Has(todo[Stack(c)], "iret"),
         proc[c] # None \/ todo[Stack(c)] \notin Idle
  PROVE  Owners' /\ Cpus'
<1>1. UNCHANGED <<IF_, ncli, intena, proc, locked, lcpu>>
  BY DEF cpuVars, lockVars
<1>2. PICK t : t = todo[Stack(c)]
  OBVIOUS
<1>3. CpuOK(t, IF_[c], ncli[c], intena[c], proc[c])
  BY <1>2 DEF Cpus
<1>4. /\ ~Top(t, "xchg") /\ ~Top(u, "xchg") /\ ~Top(t, "intena") /\ ~Top(u, "intena")
      /\ Held(u) = Held(t) /\ (Has(u, "iret") <=> Has(t, "iret")) /\ (proc[c] # None \/ t \notin Idle)
  BY <1>2 DEF Plain, Top
<1>5. CpuOK(u, IF_[c], ncli[c], intena[c], proc[c])
  BY <1>3, <1>4 DEF CpuOK, Eff
<1>6. \A l \in Locks : l \in Held(u) <=> locked'[l] = TRUE /\ lcpu'[l] = c
  BY <1>1, <1>2, <1>4 DEF Owners
<1>7. \A l \in Locks : locked'[l] = TRUE => lcpu'[l] \in CPUs
  BY <1>1 DEF Owners
<1>. QED BY <1>1, <1>5, <1>6, <1>7, KeepCpus

LEMMA NotIdle ==
  ASSUME NEW t, NEW op, NEW s, NEW r, Split(t, op, s, r), op # "release"
  PROVE  t \notin Idle
<1>1. t # <<>> /\ Head(t)[1] = op
  BY Pushed DEF Split
<1>2. Head(<< <<"release", "ptable">> >>) = <<"release", "ptable">> /\ <<"release", "ptable">>[1] = "release"
  OBVIOUS
<1>. QED BY <1>1, <1>2 DEF Idle

\* What is left after a step that is no acquire or release.
LEMMA After ==
  ASSUME NEW t, NEW op, NEW s, NEW r, Split(t, op, s, r), op \notin {"xchg", "release"}
  PROVE  /\ Held(r) = Held(t)
         /\ op \notin {"ready", "doze"} /\ op # "pushcli" => Plain(r)
         /\ op \in {"ready", "doze"} => Top(r, "sched")
         /\ op \notin {"sched", "intena"} => Plain(t)
         /\ op # "iret" => (Has(r, "iret") <=> Has(t, "iret"))
         /\ Has(r, "doze") => Has(t, "doze")
         /\ op # "doze" => (Has(r, "doze") <=> Has(t, "doze"))
         /\ Has(r, "wakeup1") => Has(t, "wakeup1")
         /\ op # "wakeup1" => (Has(r, "wakeup1") <=> Has(t, "wakeup1"))
         /\ (ForCpu(t) => ForCpu(r)) /\ (ForProc(t) => ForProc(r))
         /\ (op \in ProcOnly => ~ForCpu(t)) /\ (op = "pick" => ~ForProc(t)) /\ Has(t, op)
<1>1. s \in Steps /\ r \in Seq(Steps) /\ t = Push(s, r) /\ s[1] = op /\ Good(s, r) /\ StackOK(r)
  BY DEF Split
<1>2. Held(r) = Held(t)
  BY <1>1, PushOther
<1>3. \A k : Has(t, k) <=> op = k \/ Has(r, k)
  BY <1>1, HasPush
<1>4. \A k : Top(t, k) <=> op = k
  BY <1>1, TopPush
<1>5. op \notin {"ready", "doze"} /\ op # "pushcli" => Plain(r)
  BY <1>1 DEF Plain, Good, Takes, Order
<1>6. op \in {"ready", "doze"} => Top(r, "sched")
  BY <1>1 DEF Good, Order
<1>7. op \notin {"sched", "intena"} => Plain(t)
  BY <1>4 DEF Plain
<1>8. /\ op # "iret" => (Has(r, "iret") <=> Has(t, "iret"))
      /\ Has(r, "doze") => Has(t, "doze")
      /\ op # "doze" => (Has(r, "doze") <=> Has(t, "doze"))
      /\ Has(r, "wakeup1") => Has(t, "wakeup1")
      /\ op # "wakeup1" => (Has(r, "wakeup1") <=> Has(t, "wakeup1"))
  BY <1>3
<1>9. (ForCpu(t) => ForCpu(r)) /\ (ForProc(t) => ForProc(r))
  BY <1>3 DEF ForCpu, ForProc
<1>10. (op \in ProcOnly => ~ForCpu(t)) /\ (op = "pick" => ~ForProc(t)) /\ Has(t, op)
  BY <1>3 DEF ForCpu, ForProc
<1>. QED BY <1>2, <1>5, <1>6, <1>7, <1>8, <1>9, <1>10

LEMMA ThenIs ==
  ASSUME Types, Stacks, Switched, NEW c \in CPUs, NEW steps, Then(c, steps)
  PROVE  todo' = [todo EXCEPT ![Stack(c)] = Cat(steps, Tail(todo[Stack(c)]))]
<1>1. Stack(c) \in DOMAIN todo
  BY Using DEF Stacks
<1>. QED BY <1>1 DEF Then, Cat

LEMMA Pops ==
  ASSUME Types, Stacks, Switched, NEW c \in CPUs, NEW op, At(c, op), Then(c, <<>>)
  PROVE  Becomes(c, Tail(todo[Stack(c)]))
<1>1. PICK t : t = todo[Stack(c)]
  OBVIOUS
<1>2. PICK s, r : s = Head(t) /\ r = Tail(t)
  OBVIOUS
<1>3. Split(t, op, s, r)
  BY <1>1, <1>2, Popping
<1>4. s \in Steps /\ r \in Seq(Steps) /\ t = Push(s, r) /\ StackOK(r)
  BY <1>3 DEF Split
<1>5. \A k : Has(r, k) => Has(t, k)
  BY <1>4, HasPush
<1>6. (ForCpu(t) => ForCpu(r)) /\ (ForProc(t) => ForProc(r))
  BY <1>5 DEF ForCpu, ForProc
<1>7. todo' = [todo EXCEPT ![Stack(c)] = r]
  <2>1. todo' = [todo EXCEPT ![Stack(c)] = Cat(<<>>, r)]
    BY <1>1, <1>2, ThenIs
  <2>2. Cat(<<>>, r) = r
    BY <1>4, CatNone
  <2>. QED BY <2>1, <2>2
<1>8. (proc[c] = None => ForCpu(t)) /\ (proc[c] # None => ForProc(t))
  BY <1>1, Using
<1>. QED BY <1>1, <1>2, <1>4, <1>6, <1>7, <1>8 DEF Becomes

\* A step of a kind that leaves locks, flags and the rest of the stack alone.
LEMMA OrdinaryStep ==
  ASSUME Types, Stacks, Switched, Owners, Cpus, NEW c \in CPUs,
         NEW op \in {"tick", "preempt", "ready", "doze", "wakeup1", "kill", "ticks0", "nap", "pick"},
         At(c, op), Then(c, <<>>), UNCHANGED <<cpuVars, lockVars>>,
         NEW u, u = Tail(todo[Stack(c)])
  PROVE  Becomes(c, u) /\ Stacks' /\ Owners' /\ Cpus'
<1>1. PICK t : t = todo[Stack(c)]
  OBVIOUS
<1>2. PICK s : s = Head(t)
  OBVIOUS
<1>3. Split(t, op, s, u)
  BY <1>1, <1>2, Popping
<1>4. Becomes(c, u)
  BY Pops
<1>5. Stacks'
  BY <1>4, Becoming
<1>6. op \notin {"xchg", "release", "sched", "intena", "iret", "pushcli"}
  OBVIOUS
<1>7. t \notin Idle
  BY <1>3, <1>6, NotIdle
<1>8. Held(u) = Held(t) /\ Plain(t) /\ (Plain(u) \/ Top(u, "sched")) /\ (Has(u, "iret") <=> Has(t, "iret"))
  BY <1>3, <1>6, After
<1>9. Owners' /\ Cpus'
  BY <1>1, <1>4, <1>7, <1>8, KeepQuiet
<1>. QED BY <1>4, <1>5, <1>9

\* The process on c, when c is at a step of kind op.
LEMMA OnProc ==
  ASSUME Types, Stacks, Switched, NEW c \in CPUs, NEW op \in ProcOnly, At(c, op)
  PROVE  proc[c] # None /\ proc[c] \in Procs /\ Stack(c) = proc[c]
<1>1. Split(todo[Stack(c)], op, Head(todo[Stack(c)]), Tail(todo[Stack(c)]))
  BY Popping
<1>2. op \notin {"xchg", "release"}
  BY DEF ProcOnly
<1>3. ~ForCpu(todo[Stack(c)])
  BY <1>1, <1>2, After
<1>. QED BY <1>3, Using

\* A process is RUNNING when sched is not its next step.
LEMMA RunningAt ==
  ASSUME Types, Stacks, Switched, NEW c \in CPUs, NEW op, At(c, op), proc[c] # None, op # "sched"
  PROVE  state[proc[c]] = "RUNNING"
<1>1. Stack(c) = proc[c]
  BY Using
<1>2. ~Top(todo[proc[c]], "sched")
  BY <1>1 DEF At, Top
<1>. QED BY <1>2 DEF Switched

LEMMA TickStep ==
  ASSUME Inv, NEW c \in CPUs, Tick(c)
  PROVE  Inv'
<1>. USE DEF Inv
<1>1. At(c, "tick") /\ Then(c, <<>>) /\ UNCHANGED <<cpuVars, lockVars, procVars, panic>> /\ ticks' = (ticks + 1) % UINT
  BY DEF Tick
<1>2. PICK u : u = Tail(todo[Stack(c)])
  OBVIOUS
<1>3. Becomes(c, u) /\ Stacks' /\ Owners' /\ Cpus'
  BY <1>1, <1>2, OrdinaryStep
<1>4. Types'
  <2>1. ticks \in Int /\ UINT \in Nat \ {0}
    BY ClockAssumption DEF Types
  <2>2. ticks' \in 0 .. UINT - 1
    BY <2>1, <1>1
  <2>. QED BY <2>2, <1>1 DEF Types, cpuVars, lockVars, procVars
<1>5. Split(todo[Stack(c)], "tick", Head(todo[Stack(c)]), u)
  BY <1>1, <1>2, Popping
<1>6. Plain(u) /\ Plain(todo[Stack(c)])
  BY <1>5, After
<1>7. Switched'
  <2>1. proc' = proc /\ state' = state
    BY <1>1 DEF cpuVars, procVars
  <2>2. proc[c] # None => state[proc[c]] = "RUNNING"
    BY <1>1, RunningAt
  <2>. QED BY <2>1, <2>2, <1>3, <1>6, KeepSwitched DEF Plain
<1>8. Ticking'
  <2>1. Has(u, "wakeup1")
    BY <1>5 DEF Split, Good, Order
  <2>2. todo'[Stack(c)] = u /\ Stack(c)' = Stack(c)
    BY <1>1, <1>3, Becoming DEF Stack, cpuVars
  <2>3. Waking'
    BY <2>1, <2>2 DEF Waking
  <2>. QED BY <2>3 DEF Ticking
<1>. QED BY <1>3, <1>4, <1>7, <1>8

LEMMA PreemptStep ==
  ASSUME Inv, NEW c \in CPUs, Preempt(c)
  PROVE  Inv'
<1>. USE DEF Inv
<1>1. At(c, "preempt") /\ UNCHANGED <<cpuVars, lockVars, procVars, ticks, panic>>
  BY DEF Preempt
<1>2. PICK t : t = todo[Stack(c)]
  OBVIOUS
<1>3. PICK r : r = Tail(t)
  OBVIOUS
<1>4. Split(t, "preempt", Head(t), r)
  BY <1>1, <1>2, <1>3, Popping
<1>5. PICK u : u = IF proc[c] # None /\ state[proc[c]] = "RUNNING" THEN Cat(yield, r) ELSE r
  OBVIOUS
<1>6. /\ Held(r) = Held(t) /\ Plain(r) /\ Plain(t) /\ (Has(r, "iret") <=> Has(t, "iret"))
      /\ (Has(r, "doze") <=> Has(t, "doze")) /\ (Has(r, "wakeup1") <=> Has(t, "wakeup1"))
      /\ (ForCpu(t) => ForCpu(r)) /\ (ForProc(t) => ForProc(r))
  BY <1>4, After
<1>7. r \in Seq(Steps) /\ StackOK(r) /\ Held(r) = {} /\ ~Has(r, "doze") /\ ~Has(r, "wakeup1")
  BY <1>4 DEF Split, Good, Under, Ahead
<1>8. (proc[c] = None => ForCpu(t)) /\ (proc[c] # None => ForProc(t) /\ proc[c] \in Procs /\ Stack(c) = proc[c])
  BY <1>2, Using
<1>9. /\ u \in Seq(Steps) /\ StackOK(u) /\ Held(u) = {} /\ Plain(u) /\ (Has(u, "iret") <=> Has(t, "iret"))
      /\ ~Has(u, "doze") /\ (proc[c] = None => ForCpu(u)) /\ (proc[c] # None => ForProc(u))
  <2>1. CASE proc[c] # None /\ state[proc[c]] = "RUNNING"
    BY <2>1, <1>5, <1>6, <1>7, <1>8, PushYield
  <2>2. CASE ~(proc[c] # None /\ state[proc[c]] = "RUNNING")
    BY <2>2, <1>5, <1>6, <1>7, <1>8
  <2>. QED BY <2>1, <2>2
<1>10. todo' = [todo EXCEPT ![Stack(c)] = u]
  <2>1. CASE proc[c] # None /\ state[proc[c]] = "RUNNING"
    <3>1. Then(c, yield)
      BY <2>1 DEF Preempt
    <3>2. u = Cat(yield, r)
      BY <2>1, <1>5
    <3>. QED BY <3>1, <3>2, <1>2, <1>3, ThenIs
  <2>2. CASE ~(proc[c] # None /\ state[proc[c]] = "RUNNING")
    <3>1. Then(c, <<>>)
      BY <2>2 DEF Preempt
    <3>2. Cat(<<>>, r) = r
      BY <1>7, CatNone
    <3>3. u = r
      BY <2>2, <1>5
    <3>. QED BY <3>1, <3>2, <3>3, <1>2, <1>3, ThenIs
  <2>. QED BY <2>1, <2>2
<1>11. Becomes(c, u)
  BY <1>9, <1>10 DEF Becomes
<1>12. Stacks'
  BY <1>11, Becoming
<1>13. UNCHANGED <<proc, state, ticks, ticks0, n>>
  BY <1>1 DEF cpuVars, procVars
<1>14. t \notin Idle
  BY <1>4, NotIdle
<1>15. Owners' /\ Cpus'
  BY <1>1, <1>2, <1>6, <1>7, <1>9, <1>11, <1>14, KeepQuiet
<1>16. proc[c] # None => state[proc[c]] = "RUNNING"
  BY <1>1, RunningAt
<1>17. Switched'
  BY <1>9, <1>11, <1>13, <1>16, KeepSwitched DEF Plain
<1>18. Ticking'
  BY <1>2, <1>6, <1>7, <1>9, <1>11, <1>13, StillTicking
<1>19. Types'
  BY <1>1 DEF Types, cpuVars, lockVars, procVars
<1>. QED BY <1>12, <1>15, <1>17, <1>18, <1>19

LEMMA ReadyStep ==
  ASSUME Inv, NEW c \in CPUs, Ready(c)
  PROVE  Inv'
<1>. USE DEF Inv
<1>1. /\ At(c, "ready") /\ Then(c, <<>>) /\ state' = [state EXCEPT ![proc[c]] = "RUNNABLE"]
      /\ UNCHANGED <<cpuVars, lockVars, killed, ticks0, n, ticks, panic>>
  BY DEF Ready
<1>2. PICK u : u = Tail(todo[Stack(c)])
  OBVIOUS
<1>3. Becomes(c, u) /\ Stacks' /\ Owners' /\ Cpus'
  BY <1>1, <1>2, OrdinaryStep
<1>4. proc[c] # None /\ proc[c] \in Procs /\ Stack(c) = proc[c]
  BY <1>1, OnProc DEF ProcOnly
<1>5. state \in [Procs -> {"RUNNABLE", "RUNNING", "SLEEPING"}] /\ proc' = proc
  BY <1>1 DEF Types, cpuVars
<1>6. Types'
  BY <1>1, <1>4, <1>5 DEF Types, cpuVars, lockVars
<1>7. Split(todo[Stack(c)], "ready", Head(todo[Stack(c)]), u)
  BY <1>1, <1>2, Popping
<1>8. /\ Top(u, "sched") /\ (Has(u, "doze") <=> Has(todo[Stack(c)], "doze"))
      /\ (Has(u, "wakeup1") <=> Has(todo[Stack(c)], "wakeup1"))
  BY <1>7, After
<1>9. state'[proc[c]] = "RUNNABLE" /\ \A p \in Procs : p # proc[c] => state'[p] = state[p]
  BY <1>1, <1>4, <1>5
<1>10. Switched'
  BY <1>3, <1>5, <1>8, <1>9, KeepSwitched
<1>11. Ticking'
  BY <1>1, <1>3, <1>5, <1>8, <1>9, StillTicking
<1>. QED BY <1>3, <1>6, <1>10, <1>11

LEMMA DozeStep ==
  ASSUME Inv, NEW c \in CPUs, Doze(c)
  PROVE  Inv'
<1>. USE DEF Inv
<1>1. /\ At(c, "doze") /\ Then(c, <<>>) /\ state' = [state EXCEPT ![proc[c]] = "SLEEPING"]
      /\ UNCHANGED <<cpuVars, lockVars, killed, ticks0, n, ticks, panic>>
  BY DEF Doze
<1>2. PICK u : u = Tail(todo[Stack(c)])
  OBVIOUS
<1>3. Becomes(c, u) /\ Stacks' /\ Owners' /\ Cpus'
  BY <1>1, <1>2, OrdinaryStep
<1>4. proc[c] # None /\ proc[c] \in Procs /\ Stack(c) = proc[c]
  BY <1>1, OnProc DEF ProcOnly
<1>5. state \in [Procs -> {"RUNNABLE", "RUNNING", "SLEEPING"}] /\ proc' = proc
  BY <1>1 DEF Types, cpuVars
<1>6. Types'
  BY <1>1, <1>4, <1>5 DEF Types, cpuVars, lockVars
<1>7. Split(todo[Stack(c)], "doze", Head(todo[Stack(c)]), u)
  BY <1>1, <1>2, Popping
<1>8. /\ Top(u, "sched") /\ (Has(u, "wakeup1") <=> Has(todo[Stack(c)], "wakeup1"))
      /\ (Has(u, "doze") => Has(todo[Stack(c)], "doze"))
  BY <1>7, After
<1>9. state'[proc[c]] = "SLEEPING" /\ \A p \in Procs : p # proc[c] => state'[p] = state[p]
  BY <1>1, <1>4, <1>5
<1>10. Switched'
  BY <1>3, <1>5, <1>8, <1>9, KeepSwitched
<1>11. Has(todo[proc[c]], "doze")
  BY <1>4, <1>7, After
<1>12. \A p \in Procs : Early(p)' <=> Early(p)
  BY <1>1 DEF Early
<1>13. \A p \in Procs : Sleepy(p)' => Sleepy(p)
  <2>1. \A x \in CPUs \cup Procs : x # Stack(c) => todo'[x] = todo[x]
    BY <1>3, Becoming
  <2>. QED BY <2>1, <1>4, <1>9, <1>11 DEF Sleepy
<1>14. Ticking'
  BY <1>3, <1>5, <1>8, <1>12, <1>13, KeepTicking
<1>. QED BY <1>3, <1>6, <1>10, <1>14

LEMMA KillingStep ==
  ASSUME Inv, NEW c \in CPUs, KillStep(c)
  PROVE  Inv'
<1>. USE DEF Inv
<1>1. /\ At(c, "kill") /\ Then(c, <<>>) /\ killed' = [killed EXCEPT ![Arg(c)] = TRUE]
      /\ state' = [state EXCEPT ![Arg(c)] = IF @ = "SLEEPING" THEN "RUNNABLE" ELSE @]
      /\ UNCHANGED <<cpuVars, lockVars, ticks0, n, ticks, panic>>
  BY DEF KillStep
<1>2. PICK u : u = Tail(todo[Stack(c)])
  OBVIOUS
<1>3. Becomes(c, u) /\ Stacks' /\ Owners' /\ Cpus'
  BY <1>1, <1>2, OrdinaryStep
<1>4. Split(todo[Stack(c)], "kill", Head(todo[Stack(c)]), u)
  BY <1>1, <1>2, Popping
<1>5. Arg(c) \in Procs
  BY <1>4 DEF Split, Good, Order, Arg
<1>6. state \in [Procs -> {"RUNNABLE", "RUNNING", "SLEEPING"}] /\ proc' = proc /\ killed \in [Procs -> BOOLEAN]
  BY <1>1 DEF Types, cpuVars
<1>7. /\ state' \in [Procs -> {"RUNNABLE", "RUNNING", "SLEEPING"}] /\ killed' \in [Procs -> BOOLEAN]
      /\ \A p \in Procs : (state'[p] = "RUNNING" <=> state[p] = "RUNNING") /\ (state'[p] = "SLEEPING" => state[p] = "SLEEPING")
  BY <1>1, <1>5, <1>6
<1>8. Types'
  BY <1>1, <1>7 DEF Types, cpuVars, lockVars
<1>9. /\ Plain(u) /\ (Has(u, "wakeup1") <=> Has(todo[Stack(c)], "wakeup1"))
      /\ (Has(u, "doze") <=> Has(todo[Stack(c)], "doze"))
  BY <1>4, After
<1>10. proc[c] # None => state[proc[c]] = "RUNNING" /\ proc[c] \in Procs
  BY <1>1, RunningAt, Using
<1>11. Switched'
  BY <1>3, <1>6, <1>7, <1>9, <1>10, KeepSwitched DEF Plain
<1>12. Ticking'
  BY <1>1, <1>3, <1>6, <1>7, <1>9, StillTicking
<1>. QED BY <1>3, <1>8, <1>11, <1>12

\* A stack with doze ahead holds a lock.
LEMMA DozeHolds ==
  ASSUME NEW t \in Seq(Steps), StackOK(t), Has(t, "doze")
  PROVE  Held(t) # {} /\ ~Top(t, "intena")
<1>1. t # <<>>
  BY Bottom
<1>2. PICK s \in Steps, r \in Seq(Steps) : t = Push(s, r) /\ s = Head(t)
  BY <1>1, Popped
<1>3. Good(s, r)
  BY <1>2, StackPush
<1>4. s[1] = "doze" \/ Has(r, "doze")
  BY <1>2, HasPush
<1>5. CASE Has(r, "doze")
  <2>1. s[1] # "intena"
    BY <1>3, <1>5 DEF Good, Ahead
  <2>. QED BY <2>1, <1>2, <1>3, <1>5, TopPush DEF Good, Ahead
<1>6. CASE s[1] = "doze"
  <2>1. Held(r) = {"ptable"}
    BY <1>3, <1>6 DEF Good, Under
  <2>2. "ptable" \in Held(t)
    <3>1. "ptable" \in Locks /\ s # <<"xchg", "ptable">>
      BY <1>6 DEF Locks
    <3>. QED BY <3>1, <2>1, <1>2, HeldPush
  <2>. QED BY <2>2, <1>2, <1>6, TopPush
<1>. QED BY <1>4, <1>5, <1>6

LEMMA Wakeup1Step ==
  ASSUME Inv, NEW c \in CPUs, Wakeup1(c)
  PROVE  Inv'
<1>. USE DEF Inv
<1>1. /\ At(c, "wakeup1") /\ Then(c, <<>>)
      /\ state' = [p \in Procs |-> IF state[p] = "SLEEPING" THEN "RUNNABLE" ELSE state[p]]
      /\ UNCHANGED <<cpuVars, lockVars, killed, ticks0, n, ticks, panic>>
  BY DEF Wakeup1
<1>2. PICK u : u = Tail(todo[Stack(c)])
  OBVIOUS
<1>3. Becomes(c, u) /\ Stacks' /\ Owners' /\ Cpus'
  BY <1>1, <1>2, OrdinaryStep
<1>4. Split(todo[Stack(c)], "wakeup1", Head(todo[Stack(c)]), u)
  BY <1>1, <1>2, Popping
<1>5. state \in [Procs -> {"RUNNABLE", "RUNNING", "SLEEPING"}] /\ proc' = proc
  BY <1>1 DEF Types, cpuVars
<1>6. /\ state' \in [Procs -> {"RUNNABLE", "RUNNING", "SLEEPING"}]
      /\ \A p \in Procs : (state'[p] = "RUNNING" <=> state[p] = "RUNNING") /\ state'[p] # "SLEEPING"
  BY <1>1, <1>5
<1>7. Types'
  BY <1>1, <1>6 DEF Types, cpuVars, lockVars
<1>8. Plain(u) /\ Held(u) = Held(todo[Stack(c)])
  BY <1>4, After
<1>9. Held(todo[Stack(c)]) = Locks /\ ~Has(u, "doze")
  BY <1>4, <1>8 DEF Split, Good, Under, Ahead
<1>10. proc[c] # None => state[proc[c]] = "RUNNING" /\ proc[c] \in Procs
  BY <1>1, RunningAt, Using
<1>11. Switched'
  BY <1>3, <1>5, <1>6, <1>8, <1>10, KeepSwitched DEF Plain
<1>12. ASSUME NEW p \in Procs
       PROVE  ~Has(todo'[p], "doze")
  <2>1. /\ \A x \in CPUs \cup Procs : x # Stack(c) => todo'[x] = todo[x]
        /\ todo'[Stack(c)] = u
    BY <1>3, Becoming
  <2>2. CASE p = Stack(c)
    BY <2>1, <2>2, <1>9
  <2>3. CASE p # Stack(c)
    <3>. SUFFICES ASSUME Has(todo[p], "doze") PROVE FALSE
      BY <2>1, <2>3
    <3>1. todo[p] \in Seq(Steps) /\ StackOK(todo[p])
      BY DEF Stacks
    <3>2. Held(todo[p]) # {} /\ ~Top(todo[p], "intena")
      BY <3>1, DozeHolds
    <3>3. CASE Current(p)
      <4>1. PICK d \in CPUs : proc[d] = p
        BY <3>3 DEF Current
      <4>2. Stack(d) = p
        BY <4>1, ClockAssumption DEF Stack
      <4>3. PICK l \in Locks : l \in Held(todo[p])
        BY <3>2, HeldIn
      <4>4. lcpu[l] = d /\ lcpu[l] = c
        BY <4>2, <4>3, <1>9 DEF Owners
      <4>. QED BY <4>2, <4>4, <2>3
    <3>4. CASE ~Current(p)
      BY <3>2, <3>4 DEF Switched, AwayOK
    <3>. QED BY <3>3, <3>4
  <2>. QED BY <2>2, <2>3
<1>13. Ticking'
  BY <1>6, <1>12 DEF Ticking, Sleepy
<1>. QED BY <1>3, <1>7, <1>11, <1>13

LEMMA Ticks0Step ==
  ASSUME Inv, NEW c \in CPUs, Ticks0(c)
  PROVE  Inv'
<1>. USE DEF Inv
<1>1. /\ At(c, "ticks0") /\ Then(c, <<>>) /\ ticks0' = [ticks0 EXCEPT ![proc[c]] = ticks]
      /\ UNCHANGED <<cpuVars, lockVars, state, killed, n, ticks, panic>>
  BY DEF Ticks0
<1>2. PICK u : u = Tail(todo[Stack(c)])
  OBVIOUS
<1>3. Becomes(c, u) /\ Stacks' /\ Owners' /\ Cpus'
  BY <1>1, <1>2, OrdinaryStep
<1>4. Split(todo[Stack(c)], "ticks0", Head(todo[Stack(c)]), u)
  BY <1>1, <1>2, Popping
<1>5. proc[c] # None /\ proc[c] \in Procs /\ Stack(c) = proc[c] /\ state[proc[c]] = "RUNNING"
  BY <1>1, OnProc, RunningAt DEF ProcOnly
<1>6. proc' = proc /\ state' = state /\ ticks \in 0 .. UINT - 1 /\ ticks0 \in [Procs -> 0 .. UINT - 1]
  BY <1>1 DEF Types, cpuVars
<1>7. ticks0' \in [Procs -> 0 .. UINT - 1] /\ \A p \in Procs : p # proc[c] => ticks0'[p] = ticks0[p]
  BY <1>1, <1>5, <1>6
<1>8. Types'
  BY <1>1, <1>7 DEF Types, cpuVars, lockVars
<1>9. /\ Plain(u) /\ (Has(u, "wakeup1") <=> Has(todo[Stack(c)], "wakeup1"))
      /\ (Has(u, "doze") <=> Has(todo[Stack(c)], "doze"))
  BY <1>4, After
<1>10. ~Has(u, "doze")
  BY <1>4 DEF Split, Good, Ahead
<1>11. Switched'
  BY <1>3, <1>5, <1>6, <1>9, KeepSwitched DEF Plain
<1>12. ASSUME NEW p \in Procs, Sleepy(p)'
       PROVE  Sleepy(p) /\ (Early(p) => Early(p)')
  <2>1. /\ \A x \in CPUs \cup Procs : x # Stack(c) => todo'[x] = todo[x]
        /\ todo'[Stack(c)] = u
    BY <1>3, Becoming
  <2>2. p # proc[c]
    BY <2>1, <1>5, <1>6, <1>10, <1>12 DEF Sleepy
  <2>3. Sleepy(p)
    BY <2>1, <2>2, <1>5, <1>6, <1>12 DEF Sleepy
  <2>4. Early(p)' <=> Early(p)
    BY <2>2, <1>1, <1>7 DEF Early
  <2>. QED BY <2>3, <2>4
<1>13. Ticking'
  BY <1>3, <1>6, <1>9, <1>12, KeepTicking
<1>. QED BY <1>3, <1>8, <1>11, <1>13

LEMMA NapStep ==
  ASSUME Inv, NEW c \in CPUs, Nap(c)
  PROVE  Inv'
<1>. USE DEF Inv
<1>1. PICK more \in BOOLEAN : more <=> Early(proc[c]) /\ ~killed[proc[c]]
  OBVIOUS
<1>2. /\ At(c, "nap")
      /\ Then(c, IF more THEN sleep \o << <<"nap", None>> >> ELSE <<>>)
      /\ n' = [n EXCEPT ![proc[c]] = IF more THEN @ ELSE 0]
      /\ ticks0' = [ticks0 EXCEPT ![proc[c]] = IF more THEN @ ELSE 0]
      /\ UNCHANGED <<cpuVars, lockVars, state, killed, ticks, panic>>
  BY <1>1 DEF Nap
<1>3. PICK t : t = todo[Stack(c)]
  OBVIOUS
<1>4. PICK r : r = Tail(t)
  OBVIOUS
<1>5. Split(t, "nap", Head(t), r)
  BY <1>2, <1>3, <1>4, Popping
<1>6. PICK u : u = IF more THEN Cat(sleep \o << <<"nap", None>> >>, r) ELSE r
  OBVIOUS
<1>7. proc[c] # None /\ proc[c] \in Procs /\ Stack(c) = proc[c] /\ state[proc[c]] = "RUNNING" /\ ForProc(t)
  BY <1>2, <1>3, OnProc, RunningAt, Using DEF ProcOnly
<1>8. /\ Held(r) = Held(t) /\ Plain(r) /\ Plain(t) /\ (Has(r, "iret") <=> Has(t, "iret"))
      /\ (Has(r, "doze") <=> Has(t, "doze")) /\ (Has(r, "wakeup1") <=> Has(t, "wakeup1")) /\ ForProc(r)
  BY <1>5, <1>7, After
<1>9. r \in Seq(Steps) /\ StackOK(r) /\ Held(r) = {"tickslock"} /\ ~Has(r, "doze") /\ ~Has(r, "wakeup1")
  BY <1>5 DEF Split, Good, Under, Ahead
<1>10. /\ u \in Seq(Steps) /\ StackOK(u) /\ Held(u) = {"tickslock"} /\ Plain(u) /\ (Has(u, "iret") <=> Has(t, "iret"))
       /\ (~more => ~Has(u, "doze")) /\ ForProc(u)
  <2>1. CASE more
    BY <2>1, <1>6, <1>8, <1>9, PushNap
  <2>2. CASE ~more
    BY <2>2, <1>6, <1>8, <1>9
  <2>. QED BY <2>1, <2>2
<1>11. todo' = [todo EXCEPT ![Stack(c)] = u]
  <2>1. CASE more
    <3>1. Then(c, sleep \o << <<"nap", None>> >>)
      BY <2>1, <1>2
    <3>. QED BY <3>1, <2>1, <1>3, <1>4, <1>6, ThenIs
  <2>2. CASE ~more
    <3>1. Then(c, <<>>)
      BY <2>2, <1>2
    <3>2. Cat(<<>>, r) = r
      BY <1>9, CatNone
    <3>. QED BY <3>1, <3>2, <2>2, <1>3, <1>4, <1>6, ThenIs
  <2>. QED BY <2>1, <2>2
<1>12. Becomes(c, u)
  BY <1>7, <1>10, <1>11 DEF Becomes
<1>13. Stacks'
  BY <1>12, Becoming
<1>14. t \notin Idle
  BY <1>5, NotIdle
<1>15. Owners' /\ Cpus'
  BY <1>2, <1>3, <1>8, <1>9, <1>10, <1>12, <1>14, KeepQuiet
<1>16. proc' = proc /\ state' = state /\ ticks0 \in [Procs -> 0 .. UINT - 1] /\ n \in [Procs -> Naps \cup {0}] /\ 0 \in 0 .. UINT - 1
  BY <1>2, ClockAssumption DEF Types, cpuVars
<1>17. /\ ticks0' \in [Procs -> 0 .. UINT - 1] /\ n' \in [Procs -> Naps \cup {0}]
       /\ \A p \in Procs : p # proc[c] \/ more => ticks0'[p] = ticks0[p] /\ n'[p] = n[p]
  BY <1>2, <1>7, <1>16
<1>18. Types'
  BY <1>2, <1>17 DEF Types, cpuVars, lockVars
<1>19. Switched'
  BY <1>7, <1>10, <1>12, <1>16, KeepSwitched DEF Plain
<1>20. /\ \A x \in CPUs \cup Procs : x # Stack(c) => todo'[x] = todo[x]
       /\ todo'[Stack(c)] = u
  BY <1>12, Becoming
<1>21. Ticking'
  <2>. SUFFICES ASSUME NEW p \in Procs, Sleepy(p)'
                PROVE  Early(p)' \/ Waking'
    BY DEF Ticking
  <2>1. p # proc[c] \/ more
    BY <1>7, <1>10, <1>16, <1>20 DEF Sleepy
  <2>2. Early(p)' <=> Early(p)
    BY <2>1, <1>2, <1>17 DEF Early
  <2>3. CASE p = proc[c]
    BY <2>1, <2>2, <2>3, <1>1
  <2>4. CASE p # proc[c]
    <3>1. Sleepy(p)
      BY <2>4, <1>7, <1>16, <1>20 DEF Sleepy
    <3>2. Waking => Waking'
      <4>. SUFFICES ASSUME NEW d \in CPUs, Has(todo[Stack(d)], "wakeup1")
                    PROVE  Has(todo'[Stack(d)'], "wakeup1")
        BY DEF Waking
      <4>1. Stack(d)' = Stack(d) /\ Stack(d) \in CPUs \cup Procs
        BY <1>16, Using DEF Stack
      <4>2. Stack(d) # Stack(c)
        BY <1>3, <1>8, <1>9
      <4>. QED BY <4>1, <4>2, <1>20
    <3>. QED BY <3>1, <3>2, <2>2 DEF Ticking
  <2>. QED BY <2>3, <2>4
<1>. QED BY <1>13, <1>15, <1>18, <1>19, <1>21

LEMMA PushcliStep ==
  ASSUME Inv, NEW c \in CPUs, Pushcli(c)
  PROVE  Inv'
<1>. USE DEF Inv
<1>1. At(c, "pushcli")
  BY DEF Pushcli
<1>2. PICK t : t = todo[Stack(c)]
  OBVIOUS
<1>3. PICK u : u = Tail(t)
  OBVIOUS
<1>4. Split(t, "pushcli", Head(t), u)
  BY <1>1, <1>2, <1>3, Popping
<1>5. PICK l \in Locks : l = Arg(c) /\ Head(u) = <<"xchg", l>> /\ u # <<>> /\ u \in Seq(Steps)
  BY <1>2, <1>4 DEF Split, Good, Takes, Arg
<1>6. /\ Held(u) = Held(t) /\ Plain(t) /\ (Has(u, "iret") <=> Has(t, "iret"))
      /\ (Has(u, "doze") <=> Has(t, "doze")) /\ (Has(u, "wakeup1") <=> Has(t, "wakeup1"))
  BY <1>4, After
<1>7. Top(u, "xchg") /\ ~Top(u, "sched") /\ ~Top(u, "intena")
  BY <1>5 DEF Top
<1>8. l \notin Held(u)
  <2>1. u = Push(Head(u), Tail(u)) /\ Head(u) \in Steps /\ Tail(u) \in Seq(Steps)
    BY <1>5, Popped
  <2>2. PICK s \in Steps, r \in Seq(Steps) : u = Push(s, r) /\ s = <<"xchg", l>>
    BY <2>1, <1>5
  <2>3. s # <<"release", l>>
    BY <2>2
  <2>. QED BY <2>2, <2>3, HeldPush
<1>9. ~holding(c, l)
  BY <1>2, <1>6, <1>8 DEF Owners, holding
<1>10. /\ IF_' = [IF_ EXCEPT ![c] = FALSE] /\ ncli' = [ncli EXCEPT ![c] = @ + 1]
       /\ intena' = IF ncli[c] = 0 THEN [intena EXCEPT ![c] = IF_[c]] ELSE intena
       /\ Then(c, <<>>) /\ UNCHANGED <<proc, lockVars, procVars, ticks, panic>>
  BY <1>5, <1>9 DEF Pushcli
<1>11. Becomes(c, u)
  BY <1>1, <1>2, <1>3, <1>10, Pops
<1>12. Stacks'
  BY <1>11, Becoming
<1>13. /\ IF_ \in [CPUs -> BOOLEAN] /\ intena \in [CPUs -> BOOLEAN] /\ ncli \in [CPUs -> Int]
       /\ CpuOK(t, IF_[c], ncli[c], intena[c], proc[c])
  BY <1>2 DEF Types, Cpus
<1>14. /\ IF_' \in [CPUs -> BOOLEAN] /\ intena' \in [CPUs -> BOOLEAN] /\ ncli' \in [CPUs -> Int]
       /\ \A d \in CPUs : d # c => IF_'[d] = IF_[d] /\ ncli'[d] = ncli[d] /\ intena'[d] = intena[d]
       /\ IF_'[c] = FALSE /\ ncli'[c] = ncli[c] + 1 /\ intena'[c] = IF ncli[c] = 0 THEN IF_[c] ELSE intena[c]
  BY <1>10, <1>13
<1>15. Types'
  BY <1>10, <1>14 DEF Types, lockVars, procVars
<1>16. t \notin Idle
  BY <1>4, NotIdle
<1>17. ncli[c] = Size(Held(t)) /\ Size(Held(t)) \in Nat
  BY <1>6, <1>13 DEF CpuOK, Plain, Size
<1>18. CpuOK(u, IF_'[c], ncli'[c], intena'[c], proc[c])
  <2>1. ncli'[c] = Size(Held(u)) + (IF Top(u, "xchg") THEN 1 ELSE 0)
    BY <1>6, <1>7, <1>14, <1>17
  <2>2. Eff(u, IF_'[c], ncli'[c], intena'[c]) = Eff(t, IF_[c], ncli[c], intena[c])
    <3>1. ncli'[c] # 0 /\ ~Top(t, "intena")
      BY <1>6, <1>14, <1>17 DEF Plain
    <3>2. Eff(u, IF_'[c], ncli'[c], intena'[c]) = intena'[c]
      BY <3>1, <1>7 DEF Eff
    <3>. QED BY <3>1, <3>2, <1>14 DEF Eff
  <2>. QED BY <2>1, <2>2, <1>6, <1>13, <1>14, <1>16 DEF CpuOK
<1>19. UNCHANGED <<locked, lcpu, proc, state, ticks, ticks0, n>>
  BY <1>10 DEF lockVars, procVars
<1>20. Owners' /\ Cpus'
  <2>1. \A k \in Locks : (k \in Held(u) <=> locked'[k] = TRUE /\ lcpu'[k] = c) /\ (locked'[k] = TRUE => lcpu'[k] \in CPUs)
    BY <1>2, <1>6, <1>19 DEF Owners
  <2>. QED BY <2>1, <1>11, <1>14, <1>18, <1>19, KeepCpus
<1>21. proc[c] # None => state[proc[c]] = "RUNNING"
  BY <1>1, RunningAt
<1>22. Switched'
  BY <1>7, <1>11, <1>19, <1>21, KeepSwitched
<1>23. Ticking'
  BY <1>2, <1>6, <1>11, <1>19, StillTicking
<1>. QED BY <1>12, <1>15, <1>20, <1>22, <1>23

\* What is left after xchg and release.
LEMMA AfterLock ==
  ASSUME NEW t, NEW op \in {"xchg", "release"}, NEW s, NEW r, Split(t, op, s, r)
  PROVE  /\ s[2] \in Locks /\ s = <<op, s[2]>>
         /\ (op = "xchg" => s[2] \in Held(r) /\ Held(t) = Held(r) \ {s[2]} /\ Top(t, "xchg"))
         /\ (op = "release" => s[2] \notin Held(r) /\ Held(t) = Held(r) \cup {s[2]} /\ Plain(t))
         /\ Plain(r) /\ ~Top(t, "intena") /\ ~Top(t, "sched")
         /\ (Has(r, "iret") <=> Has(t, "iret")) /\ (Has(r, "doze") <=> Has(t, "doze"))
         /\ (Has(r, "wakeup1") <=> Has(t, "wakeup1"))
<1>1. s \in Steps /\ r \in Seq(Steps) /\ t = Push(s, r) /\ s[1] = op /\ Good(s, r) /\ StackOK(r)
  BY DEF Split
<1>2. s[2] \in Locks /\ s = <<op, s[2]>>
  <2>1. s[2] \in Locks
    BY <1>1 DEF Good, Takes
  <2>2. s = <<s[1], s[2]>>
    BY <1>1 DEF Steps
  <2>. QED BY <2>1, <2>2, <1>1
<1>3. \A k : Has(t, k) <=> op = k \/ Has(r, k)
  BY <1>1, HasPush
<1>4. \A k : Top(t, k) <=> op = k
  BY <1>1, TopPush
<1>5. Plain(r)
  BY <1>1 DEF Plain, Good, Takes, Order
<1>6. PICK l \in Locks : l = s[2] /\ s = <<op, l>>
  BY <1>2
<1>7. \A k \in Locks : k \in Held(t) <=> s = <<"release", k>> \/ (s # <<"xchg", k>> /\ k \in Held(r))
  BY <1>1, HeldPush
<1>8. ASSUME op = "xchg"
      PROVE  l \in Held(r) /\ Held(t) = Held(r) \ {l}
  <2>1. l \in Held(r)
    BY <1>1, <1>6, <1>8 DEF Good, Takes
  <2>2. \A k \in Locks : k \in Held(t) <=> k # l /\ k \in Held(r)
    BY <1>6, <1>7, <1>8
  <2>. QED BY <2>1, <2>2, HeldIn
<1>9. ASSUME op = "release"
      PROVE  l \notin Held(r) /\ Held(t) = Held(r) \cup {l}
  <2>1. l \notin Held(r)
    BY <1>1, <1>6, <1>9 DEF Good, Takes
  <2>2. \A k \in Locks : k \in Held(t) <=> k = l \/ k \in Held(r)
    BY <1>6, <1>7, <1>9
  <2>. QED BY <2>1, <2>2, HeldIn
<1>10. Top(t, op) /\ ~Top(t, "intena") /\ ~Top(t, "sched") /\ (op = "release" => Plain(t))
  BY <1>4 DEF Plain
<1>11. /\ (Has(r, "iret") <=> Has(t, "iret")) /\ (Has(r, "doze") <=> Has(t, "doze"))
       /\ (Has(r, "wakeup1") <=> Has(t, "wakeup1"))
  BY <1>3
<1>. QED BY <1>2, <1>5, <1>6, <1>8, <1>9, <1>10, <1>11

LEMMA XchgStep ==
  ASSUME Inv, NEW c \in CPUs, Xchg(c)
  PROVE  Inv'
<1>. USE DEF Inv
<1>1. /\ At(c, "xchg") /\ ~locked[Arg(c)] /\ locked' = [locked EXCEPT ![Arg(c)] = TRUE]
      /\ lcpu' = [lcpu EXCEPT ![Arg(c)] = c] /\ Then(c, <<>>)
      /\ UNCHANGED <<cpuVars, procVars, ticks, panic>>
  BY DEF Xchg
<1>2. PICK t : t = todo[Stack(c)]
  OBVIOUS
<1>3. PICK u : u = Tail(t)
  OBVIOUS
<1>4. Split(t, "xchg", Head(t), u)
  BY <1>1, <1>2, <1>3, Popping
<1>5. PICK l : l = Arg(c) /\ l = Head(t)[2]
  BY <1>2 DEF Arg
<1>6. /\ l \in Locks /\ l \in Held(u) /\ Held(t) = Held(u) \ {l} /\ Top(t, "xchg") /\ Plain(u) /\ ~Top(t, "intena")
      /\ (Has(u, "iret") <=> Has(t, "iret")) /\ (Has(u, "doze") <=> Has(t, "doze"))
      /\ (Has(u, "wakeup1") <=> Has(t, "wakeup1"))
  BY <1>4, <1>5, AfterLock
<1>7. Becomes(c, u)
  BY <1>1, <1>2, <1>3, Pops
<1>8. Stacks'
  BY <1>7, Becoming
<1>9. locked \in [Locks -> BOOLEAN] /\ lcpu \in [Locks -> CPUs \cup {None}]
  BY DEF Types
<1>10. /\ locked' \in [Locks -> BOOLEAN] /\ lcpu' \in [Locks -> CPUs \cup {None}]
       /\ locked'[l] = TRUE /\ lcpu'[l] = c /\ locked[l] # TRUE
       /\ \A k \in Locks : k # l => locked'[k] = locked[k] /\ lcpu'[k] = lcpu[k]
  BY <1>1, <1>5, <1>6, <1>9
<1>11. Types'
  BY <1>1, <1>10 DEF Types, cpuVars, procVars
<1>12. UNCHANGED <<IF_, ncli, intena, proc, state, ticks, ticks0, n>>
  BY <1>1 DEF cpuVars, procVars
<1>13. Size(Held(t)) + 1 = Size(Held(u)) /\ Size(Held(t)) \in Nat
  BY <1>6 DEF Size, Locks
<1>14. t \notin Idle
  BY <1>4, NotIdle
<1>15. CpuOK(u, IF_[c], ncli[c], intena[c], proc[c])
  <2>1. CpuOK(t, IF_[c], ncli[c], intena[c], proc[c])
    BY <1>2 DEF Cpus
  <2>2. ncli[c] = Size(Held(t)) + 1
    BY <2>1, <1>6 DEF CpuOK
  <2>3. Eff(t, IF_[c], ncli[c], intena[c]) = Eff(u, IF_[c], ncli[c], intena[c])
    BY <1>6 DEF Eff, Plain
  <2>4. ncli[c] = Size(Held(u)) + (IF Top(u, "xchg") THEN 1 ELSE 0)
    BY <2>2, <1>6, <1>13 DEF Plain
  <2>. QED BY <2>1, <2>3, <2>4, <1>6, <1>14 DEF CpuOK
<1>16. Owners' /\ Cpus'
  <2>1. \A k \in Locks : k \in Held(u) <=> locked'[k] = TRUE /\ lcpu'[k] = c
    BY <1>2, <1>6, <1>10 DEF Owners
  <2>2. \A k \in Locks : locked'[k] = TRUE => lcpu'[k] \in CPUs
    BY <1>10 DEF Owners
  <2>3. \A d \in CPUs : d # c => \A k \in Locks :
          (locked'[k] = TRUE /\ lcpu'[k] = d) <=> (locked[k] = TRUE /\ lcpu[k] = d)
    BY <1>10
  <2>. QED BY <2>1, <2>2, <2>3, <1>7, <1>12, <1>15, KeepCpus
<1>17. proc[c] # None => state[proc[c]] = "RUNNING"
  BY <1>1, RunningAt
<1>18. Switched'
  BY <1>6, <1>7, <1>12, <1>17, KeepSwitched DEF Plain
<1>19. Ticking'
  BY <1>2, <1>6, <1>7, <1>12, StillTicking
<1>. QED BY <1>8, <1>11, <1>16, <1>18, <1>19

LEMMA ReleaseStep ==
  ASSUME Inv, NEW c \in CPUs, Release(c)
  PROVE  Inv'
<1>. USE DEF Inv
<1>1. At(c, "release")
  BY DEF Release
<1>2. PICK t : t = todo[Stack(c)]
  OBVIOUS
<1>3. PICK u : u = Tail(t)
  OBVIOUS
<1>4. Split(t, "release", Head(t), u)
  BY <1>1, <1>2, <1>3, Popping
<1>5. PICK l : l = Arg(c) /\ l = Head(t)[2]
  BY <1>2 DEF Arg
<1>6. /\ l \in Locks /\ l \notin Held(u) /\ Held(t) = Held(u) \cup {l} /\ Plain(t) /\ Plain(u)
      /\ (Has(u, "iret") <=> Has(t, "iret")) /\ (Has(u, "doze") <=> Has(t, "doze"))
      /\ (Has(u, "wakeup1") <=> Has(t, "wakeup1")) /\ Head(t) = <<"release", l>>
  BY <1>4, <1>5, AfterLock
<1>7. CpuOK(t, IF_[c], ncli[c], intena[c], proc[c]) /\ IF_[c] \in BOOLEAN
  BY <1>2 DEF Cpus, Types
<1>8. Size(Held(t)) = Size(Held(u)) + 1 /\ Size(Held(u)) \in Nat
  BY <1>6 DEF Size, Locks
<1>9. ncli[c] = Size(Held(t)) /\ IF_[c] = FALSE /\ ncli[c] # 0
  BY <1>6, <1>7, <1>8 DEF CpuOK, Plain
<1>10. holding(c, l)
  BY <1>2, <1>6 DEF Owners, holding
<1>11. /\ locked' = [locked EXCEPT ![l] = FALSE] /\ lcpu' = [lcpu EXCEPT ![l] = None]
       /\ ncli' = [ncli EXCEPT ![c] = @ - 1] /\ IF_' = [IF_ EXCEPT ![c] = ncli[c] = 1 /\ intena[c]]
       /\ Then(c, <<>>) /\ UNCHANGED <<intena, proc, procVars, ticks, panic>>
  BY <1>5, <1>9, <1>10 DEF Release, Popcli
<1>12. Becomes(c, u)
  BY <1>1, <1>2, <1>3, <1>11, Pops
<1>13. Stacks'
  BY <1>12, Becoming
<1>14. /\ locked \in [Locks -> BOOLEAN] /\ lcpu \in [Locks -> CPUs \cup {None}] /\ ncli \in [CPUs -> Int]
       /\ IF_ \in [CPUs -> BOOLEAN] /\ intena \in [CPUs -> BOOLEAN]
  BY DEF Types
<1>15. /\ locked' \in [Locks -> BOOLEAN] /\ lcpu' \in [Locks -> CPUs \cup {None}]
       /\ locked'[l] = FALSE
       /\ \A k \in Locks : k # l => locked'[k] = locked[k] /\ lcpu'[k] = lcpu[k]
  BY <1>6, <1>11, <1>14
<1>16. /\ ncli' \in [CPUs -> Int] /\ ncli'[c] = ncli[c] - 1
       /\ \A d \in CPUs : d # c => ncli'[d] = ncli[d]
  BY <1>11, <1>14
<1>17. /\ IF_' \in [CPUs -> BOOLEAN] /\ IF_'[c] = (ncli[c] = 1 /\ intena[c] = TRUE)
       /\ \A d \in CPUs : d # c => IF_'[d] = IF_[d]
  BY <1>11, <1>14
<1>18. Types'
  BY <1>11, <1>15, <1>16, <1>17 DEF Types, procVars
<1>19. UNCHANGED <<intena, proc, state, ticks, ticks0, n>>
  BY <1>11 DEF procVars
<1>20. CpuOK(u, IF_'[c], ncli'[c], intena'[c], proc[c])
  <2>1. ncli'[c] = Size(Held(u)) /\ ~Top(u, "xchg") /\ ~Top(u, "intena") /\ ~Top(t, "intena")
    BY <1>6, <1>8, <1>9, <1>16 DEF Plain
  <2>2. ncli'[c] > 0 => IF_'[c] = FALSE
    BY <2>1, <1>8, <1>9, <1>16, <1>17
  <2>3. Eff(t, IF_[c], ncli[c], intena[c]) = intena[c]
    BY <2>1, <1>9 DEF Eff
  <2>4. Eff(u, IF_'[c], ncli'[c], intena'[c]) = TRUE <=> intena[c] = TRUE
    <3>1. CASE ncli'[c] = 0
      BY <3>1, <1>16, <1>17, <1>8, <1>9 DEF Eff
    <3>2. CASE ncli'[c] # 0
      BY <3>2, <2>1, <1>19 DEF Eff
    <3>. QED BY <3>1, <3>2
  <2>5. proc[c] = None /\ t \in Idle => u \in Idle
    <3>1. t # <<>>
      BY <1>1, <1>2 DEF At
    <3>2. Tail(<< <<"release", "ptable">> >>) = <<>>
      OBVIOUS
    <3>. QED BY <3>1, <3>2, <1>3 DEF Idle
  <2>6. ncli'[c] = Size(Held(u)) + (IF Top(u, "xchg") THEN 1 ELSE 0)
    BY <2>1, <1>8
  <2>. QED BY <2>2, <2>3, <2>4, <2>5, <2>6, <1>6, <1>7 DEF CpuOK
<1>21. Owners' /\ Cpus'
  <2>1. \A k \in Locks : k \in Held(u) <=> locked'[k] = TRUE /\ lcpu'[k] = c
    BY <1>2, <1>6, <1>15 DEF Owners
  <2>2. \A k \in Locks : locked'[k] = TRUE => lcpu'[k] \in CPUs
    BY <1>15 DEF Owners
  <2>3. \A d \in CPUs : d # c => \A k \in Locks :
          (locked'[k] = TRUE /\ lcpu'[k] = d) <=> (locked[k] = TRUE /\ lcpu[k] = d)
    BY <1>10, <1>15 DEF holding
  <2>4. proc' = proc /\ \A d \in CPUs : d # c => IF_'[d] = IF_[d] /\ ncli'[d] = ncli[d] /\ intena'[d] = intena[d]
    BY <1>16, <1>17, <1>19
  <2>. QED BY <2>1, <2>2, <2>3, <2>4, <1>12, <1>20, KeepCpus
<1>22. proc[c] # None => state[proc[c]] = "RUNNING"
  BY <1>1, RunningAt
<1>23. Switched'
  BY <1>6, <1>12, <1>19, <1>22, KeepSwitched DEF Plain
<1>24. Ticking'
  BY <1>2, <1>6, <1>12, <1>19, StillTicking
<1>. QED BY <1>13, <1>18, <1>21, <1>23, <1>24

\* Without a lock, and outside of a handler, a step can be put in front.
LEMMA Unlocked ==
  ASSUME NEW t \in Seq(Steps), StackOK(t), Held(t) = {}, ~Has(t, "iret"), ~Top(t, "xchg")
  PROVE  Plain(t) /\ ~Has(t, "doze") /\ ~Has(t, "wakeup1")
<1>1. ~Has(t, "doze")
  BY DozeHolds
<1>2. CASE t = <<>>
  BY <1>2, Bottom DEF Plain
<1>3. CASE t # <<>>
  <2>1. PICK s \in Steps, r \in Seq(Steps) : t = Push(s, r) /\ s = Head(t)
    BY <1>3, Popped
  <2>2. Good(s, r)
    BY <2>1, StackPush
  <2>3. ~Has(t, "wakeup1")
    <3>1. (Has(t, "wakeup1") <=> s[1] = "wakeup1" \/ Has(r, "wakeup1")) /\ ~Has(r, "iret")
      BY <2>1, PushLike
    <3>. QED BY <3>1, <2>2 DEF Good, Order, Ahead
  <2>4. s[1] \notin {"sched", "intena"}
    <3>. SUFFICES ASSUME s[1] \in {"sched", "intena"} PROVE FALSE
      OBVIOUS
    <3>1. Held(r) = {"ptable"} /\ "ptable" \in Locks /\ s # <<"xchg", "ptable">>
      BY <2>2 DEF Good, Under, Locks
    <3>. QED BY <3>1, <2>1, HeldPush
  <2>5. ~Top(t, "sched") /\ ~Top(t, "intena")
    BY <2>1, <2>4, TopPush
  <2>. QED BY <2>3, <2>5, <1>1 DEF Plain
<1>. QED BY <1>1, <1>2, <1>3

LEMMA NoLock ==
  ASSUME NEW H, H \subseteq Locks
  PROVE  (Size(H) = 0 <=> H = {}) /\ Size(H) \in 0 .. 2
BY DEF Size, Locks

LEMMA TimerStep ==
  ASSUME Inv, NEW c \in CPUs, Timer(c)
  PROVE  Inv'
<1>. USE DEF Inv
<1>1. PICK t : t = todo[Stack(c)]
  OBVIOUS
<1>2. IF_ \in [CPUs -> BOOLEAN] /\ IF_[c] = TRUE
  BY DEF Timer, Types
<1>3. /\ Stack(c) \in CPUs \cup Procs /\ t \in Seq(Steps) /\ StackOK(t)
      /\ (proc[c] = None => ForCpu(t)) /\ (proc[c] # None => ForProc(t))
  BY <1>1, Using
<1>4. CpuOK(t, IF_[c], ncli[c], intena[c], proc[c]) /\ ncli[c] \in Int
  BY <1>1 DEF Cpus, Types
<1>5. Size(Held(t)) \in 0 .. 2 /\ (Size(Held(t)) = 0 <=> Held(t) = {})
  BY HeldIn, NoLock
<1>6. ncli[c] = 0 /\ Held(t) = {} /\ ~Top(t, "xchg")
  BY <1>2, <1>4, <1>5 DEF CpuOK
<1>7. ~Has(t, "iret")
  BY <1>2, <1>4, <1>6 DEF CpuOK, Eff
<1>8. Plain(t) /\ ~Has(t, "doze") /\ ~Has(t, "wakeup1")
  BY <1>3, <1>6, <1>7, Unlocked
<1>9. PICK u : u = IF c = Cpu0
                   THEN Cat(acquire("tickslock") \o << <<"tick", None>> >> \o wakeup \o release("tickslock")
                              \o << <<"preempt", None>>, <<"iret", TRUE>> >>, t)
                   ELSE Cat(<< <<"preempt", None>>, <<"iret", TRUE>> >>, t)
  OBVIOUS
<1>10. /\ u \in Seq(Steps) /\ StackOK(u) /\ Held(u) = {} /\ Plain(u) /\ ~Has(u, "doze") /\ Has(u, "iret")
       /\ (ForProc(t) => ForProc(u)) /\ (ForCpu(t) => ForCpu(u))
  <2>1. CASE c = Cpu0
    BY <2>1, <1>3, <1>6, <1>7, <1>8, <1>9, PushClock
  <2>2. CASE c # Cpu0
    BY <2>2, <1>3, <1>6, <1>7, <1>8, <1>9, PushHandler
  <2>. QED BY <2>1, <2>2
<1>11. /\ panic = "no" /\ IF_' = [IF_ EXCEPT ![c] = FALSE]
       /\ UNCHANGED <<ncli, intena, proc, lockVars, procVars, ticks, panic>>
  BY DEF Timer
<1>12. todo' = [todo EXCEPT ![Stack(c)] = u]
  <2>1. Stack(c) \in DOMAIN todo
    BY <1>3 DEF Stacks
  <2>2. PICK h : h = << <<"preempt", None>>, <<"iret", TRUE>> >>
    OBVIOUS
  <2>3. CASE c = Cpu0
    BY <2>1, <2>3, <1>1, <1>2, <1>9 DEF Timer, Cat
  <2>4. CASE c # Cpu0
    <3>1. h \in Seq(Steps)
      <4>1. PICK a \in Steps : a = <<"preempt", None>>
        BY StepsIn
      <4>2. PICK b \in Steps : b = <<"iret", TRUE>>
        BY StepsIn
      <4>. QED BY <2>2, <4>1, <4>2, Sequences
    <3>2. <<>> \o h = h
      BY <3>1, CatNone DEF Cat
    <3>3. todo' = [todo EXCEPT ![Stack(c)] = (<<>> \o h) \o @]
      BY <2>2, <2>4, <1>2 DEF Timer
    <3>4. u = h \o t
      BY <2>2, <2>4, <1>9 DEF Cat
    <3>. QED BY <3>2, <3>3, <3>4, <2>1, <1>1
  <2>. QED BY <2>3, <2>4
<1>13. Becomes(c, u)
  BY <1>3, <1>10, <1>12 DEF Becomes
<1>14. Stacks'
  BY <1>13, Becoming
<1>15. UNCHANGED <<ncli, intena, proc, locked, lcpu, state, ticks, ticks0, n>>
  BY <1>11 DEF lockVars, procVars
<1>16. IF_' \in [CPUs -> BOOLEAN] /\ IF_'[c] = FALSE /\ \A d \in CPUs : d # c => IF_'[d] = IF_[d]
  BY <1>2, <1>11
<1>17. Types'
  BY <1>11, <1>16 DEF Types, lockVars, procVars
<1>18. CpuOK(u, IF_'[c], ncli'[c], intena'[c], proc[c])
  <2>1. ncli'[c] = Size(Held(u)) + (IF Top(u, "xchg") THEN 1 ELSE 0)
    BY <1>5, <1>6, <1>10, <1>15 DEF Plain
  <2>2. Eff(u, IF_'[c], ncli'[c], intena'[c]) = FALSE
    BY <1>6, <1>15, <1>16 DEF Eff
  <2>. QED BY <2>1, <2>2, <1>10, <1>16 DEF CpuOK
<1>19. Owners' /\ Cpus'
  <2>1. \A k \in Locks : k \in Held(u) <=> locked'[k] = TRUE /\ lcpu'[k] = c
    BY <1>1, <1>6, <1>10, <1>15 DEF Owners
  <2>2. \A k \in Locks : locked'[k] = TRUE => lcpu'[k] \in CPUs
    BY <1>15 DEF Owners
  <2>. QED BY <2>1, <2>2, <1>13, <1>15, <1>16, <1>18, KeepCpus
<1>20. proc[c] # None => (state[proc[c]] = "RUNNING" <=> ~Top(t, "sched"))
  BY <1>1, Using DEF Switched
<1>21. Switched'
  BY <1>8, <1>10, <1>13, <1>15, <1>20, KeepSwitched DEF Plain
<1>22. Ticking'
  BY <1>1, <1>8, <1>10, <1>13, <1>15, StillTicking
<1>. QED BY <1>14, <1>17, <1>19, <1>21, <1>22

LEMMA IretStep ==
  ASSUME Inv, NEW c \in CPUs, Iret(c)
  PROVE  Inv'
<1>. USE DEF Inv
<1>1. PICK op \in {"iret", "sysret"} : At(c, op)
  BY DEF Iret
<1>2. PICK t : t = todo[Stack(c)]
  OBVIOUS
<1>3. PICK u : u = Tail(t)
  OBVIOUS
<1>4. Split(t, op, Head(t), u)
  BY <1>1, <1>2, <1>3, Popping
<1>5. Held(u) = {} /\ ~Has(u, "iret") /\ Arg(c) = TRUE
  BY <1>2, <1>4, Bottom DEF Split, Good, Under, Order, Arg
<1>6. op \notin {"xchg", "release", "ready", "doze", "pushcli", "sched", "intena", "wakeup1"}
  OBVIOUS
<1>7. /\ Held(u) = Held(t) /\ Plain(u) /\ Plain(t) /\ (Has(u, "doze") <=> Has(t, "doze"))
      /\ (Has(u, "wakeup1") <=> Has(t, "wakeup1"))
  BY <1>4, <1>6, After
<1>8. /\ IF_' = [IF_ EXCEPT ![c] = TRUE] /\ Then(c, <<>>)
      /\ killed' = [p \in Procs |-> killed[p] /\ ~(p = proc[c] /\ Len(todo[p]) = 1)]
      /\ UNCHANGED <<ncli, intena, proc, lockVars, state, ticks0, n, ticks, panic>>
  BY <1>5 DEF Iret
<1>9. Becomes(c, u)
  BY <1>1, <1>2, <1>3, <1>8, Pops
<1>10. Stacks'
  BY <1>9, Becoming
<1>11. UNCHANGED <<ncli, intena, proc, locked, lcpu, state, ticks, ticks0, n>>
  BY <1>8 DEF lockVars
<1>12. IF_ \in [CPUs -> BOOLEAN] /\ killed \in [Procs -> BOOLEAN]
  BY DEF Types
<1>13. IF_' \in [CPUs -> BOOLEAN] /\ IF_'[c] = TRUE /\ \A d \in CPUs : d # c => IF_'[d] = IF_[d]
  BY <1>8, <1>12
<1>14. killed' \in [Procs -> BOOLEAN]
  BY <1>8, <1>12
<1>15. Types'
  BY <1>8, <1>13, <1>14 DEF Types, lockVars
<1>16. ncli[c] = 0
  <2>1. CpuOK(t, IF_[c], ncli[c], intena[c], proc[c])
    BY <1>2 DEF Cpus
  <2>2. Size(Held(t)) = 0
    BY <1>5, <1>7, HeldIn, NoLock
  <2>. QED BY <2>1, <2>2, <1>7 DEF CpuOK, Plain
<1>17. CpuOK(u, IF_'[c], ncli'[c], intena'[c], proc[c])
  <2>1. Size(Held(u)) = 0
    BY <1>5, HeldIn, NoLock
  <2>2. ncli'[c] = Size(Held(u)) + (IF Top(u, "xchg") THEN 1 ELSE 0)
    BY <2>1, <1>7, <1>11, <1>16 DEF Plain
  <2>3. Eff(u, IF_'[c], ncli'[c], intena'[c]) = TRUE
    BY <1>11, <1>13, <1>16 DEF Eff
  <2>4. ncli'[c] = 0 /\ ~(0 > 0)
    BY <1>11, <1>16
  <2>. QED BY <2>2, <2>3, <2>4, <1>5 DEF CpuOK
<1>18. Owners' /\ Cpus'
  <2>1. \A k \in Locks : k \in Held(u) <=> locked'[k] = TRUE /\ lcpu'[k] = c
    BY <1>2, <1>7, <1>11 DEF Owners
  <2>2. \A k \in Locks : locked'[k] = TRUE => lcpu'[k] \in CPUs
    BY <1>11 DEF Owners
  <2>. QED BY <2>1, <2>2, <1>9, <1>11, <1>13, <1>17, KeepCpus
<1>19. proc[c] # None => state[proc[c]] = "RUNNING"
  BY <1>1, <1>6, RunningAt
<1>20. Switched'
  BY <1>7, <1>9, <1>11, <1>19, KeepSwitched DEF Plain
<1>21. Ticking'
  BY <1>2, <1>7, <1>9, <1>11, StillTicking
<1>. QED BY <1>10, <1>15, <1>18, <1>20, <1>21

LEMMA StiStep ==
  ASSUME Inv, NEW c \in CPUs, Sti(c)
  PROVE  Inv'
<1>. USE DEF Inv
<1>1. /\ proc[c] = None /\ todo[c] = <<>> /\ IF_' = [IF_ EXCEPT ![c] = TRUE]
      /\ todo' = [todo EXCEPT ![c] = round]
      /\ UNCHANGED <<ncli, intena, proc, lockVars, procVars, ticks, panic>>
  BY DEF Sti
<1>2. Stack(c) = c
  BY <1>1, Using
<1>3. Becomes(c, round)
  BY <1>1, <1>2, Round DEF Becomes
<1>4. Stacks'
  BY <1>3, Becoming
<1>5. UNCHANGED <<ncli, intena, proc, locked, lcpu, state, ticks, ticks0, n>>
  BY <1>1 DEF lockVars, procVars
<1>6. IF_ \in [CPUs -> BOOLEAN]
  BY DEF Types
<1>7. IF_' \in [CPUs -> BOOLEAN] /\ IF_'[c] = TRUE /\ \A d \in CPUs : d # c => IF_'[d] = IF_[d]
  BY <1>1, <1>6
<1>8. Types'
  BY <1>1, <1>7 DEF Types, lockVars, procVars
<1>9. PICK t : t = todo[Stack(c)]
  OBVIOUS
<1>10. Held(t) = {} /\ ~Top(t, "xchg") /\ ~Has(t, "wakeup1")
  BY <1>1, <1>2, <1>9, Bottom
<1>11. ncli[c] = 0
  <2>1. CpuOK(t, IF_[c], ncli[c], intena[c], proc[c])
    BY <1>9 DEF Cpus
  <2>2. Size(Held(t)) = 0
    BY <1>10, HeldIn, NoLock
  <2>. QED BY <2>1, <2>2, <1>10 DEF CpuOK
<1>12. CpuOK(round, IF_'[c], ncli'[c], intena'[c], proc[c])
  <2>1. Size(Held(round)) = 0 /\ ~Top(round, "xchg") /\ ~Has(round, "iret")
    BY Round, HeldIn, NoLock DEF Plain
  <2>2. ncli'[c] = Size(Held(round)) + (IF Top(round, "xchg") THEN 1 ELSE 0)
    BY <2>1, <1>5, <1>11
  <2>3. Eff(round, IF_'[c], ncli'[c], intena'[c]) = TRUE
    BY <1>5, <1>7, <1>11 DEF Eff
  <2>4. ncli'[c] = 0 /\ ~(0 > 0)
    BY <1>5, <1>11
  <2>. QED BY <2>1, <2>2, <2>3, <2>4 DEF CpuOK
<1>13. Owners' /\ Cpus'
  <2>1. \A k \in Locks : k \in Held(round) <=> locked'[k] = TRUE /\ lcpu'[k] = c
    BY <1>5, <1>9, <1>10, Round DEF Owners
  <2>2. \A k \in Locks : locked'[k] = TRUE => lcpu'[k] \in CPUs
    BY <1>5 DEF Owners
  <2>. QED BY <2>1, <2>2, <1>3, <1>5, <1>7, <1>12, KeepCpus
<1>14. Switched'
  BY <1>1, <1>3, <1>5, KeepSwitched
<1>15. Ticking'
  BY <1>3, <1>5, <1>9, <1>10, Round, StillTicking
<1>. QED BY <1>4, <1>8, <1>13, <1>14, <1>15

LEMMA IntenaStep ==
  ASSUME Inv, NEW c \in CPUs, Intena(c)
  PROVE  Inv'
<1>. USE DEF Inv
<1>1. /\ At(c, "intena") /\ intena' = [intena EXCEPT ![c] = Arg(c)] /\ Then(c, <<>>)
      /\ UNCHANGED <<IF_, ncli, proc, lockVars, procVars, ticks, panic>>
  BY DEF Intena
<1>2. PICK t : t = todo[Stack(c)]
  OBVIOUS
<1>3. PICK u : u = Tail(t)
  OBVIOUS
<1>4. Split(t, "intena", Head(t), u)
  BY <1>1, <1>2, <1>3, Popping
<1>5. PICK b \in BOOLEAN : b = Arg(c) /\ b = Head(t)[2]
  BY <1>2, <1>4 DEF Split, Good, Order, Arg
<1>6. Held(u) = {"ptable"}
  BY <1>4 DEF Split, Good, Under
<1>7. /\ Held(u) = Held(t) /\ Plain(u) /\ (Has(u, "iret") <=> Has(t, "iret"))
      /\ (Has(u, "doze") <=> Has(t, "doze")) /\ (Has(u, "wakeup1") <=> Has(t, "wakeup1"))
  BY <1>4, After
<1>8. Becomes(c, u)
  BY <1>1, <1>2, <1>3, Pops
<1>9. Stacks'
  BY <1>8, Becoming
<1>10. UNCHANGED <<IF_, ncli, proc, locked, lcpu, state, ticks, ticks0, n>>
  BY <1>1 DEF lockVars, procVars
<1>11. intena \in [CPUs -> BOOLEAN]
  BY DEF Types
<1>12. intena' \in [CPUs -> BOOLEAN] /\ intena'[c] = b /\ \A d \in CPUs : d # c => intena'[d] = intena[d]
  BY <1>1, <1>5, <1>11
<1>13. Types'
  BY <1>1, <1>12 DEF Types, lockVars, procVars
<1>14. Top(t, "intena") /\ ~Top(t, "xchg") /\ t \notin Idle
  <2>1. Top(t, "intena") /\ ~Top(t, "xchg")
    BY <1>1, <1>2 DEF At, Top
  <2>. QED BY <2>1, <1>4, NotIdle
<1>15. CpuOK(u, IF_'[c], ncli'[c], intena'[c], proc[c])
  <2>1. CpuOK(t, IF_[c], ncli[c], intena[c], proc[c])
    BY <1>2 DEF Cpus
  <2>2. Size(Held(u)) = 1
    BY <1>6 DEF Size
  <2>3. ncli[c] = 1 /\ ncli'[c] = Size(Held(u)) + (IF Top(u, "xchg") THEN 1 ELSE 0)
    BY <2>1, <2>2, <1>7, <1>10, <1>14 DEF CpuOK, Plain
  <2>4. Eff(t, IF_[c], ncli[c], intena[c]) = b
    BY <2>3, <1>5, <1>14 DEF Eff
  <2>5. Eff(u, IF_'[c], ncli'[c], intena'[c]) = b
    BY <2>3, <1>7, <1>10, <1>12 DEF Eff, Plain
  <2>. QED BY <2>1, <2>3, <2>4, <2>5, <1>7, <1>10, <1>14 DEF CpuOK
<1>16. Owners' /\ Cpus'
  <2>1. \A k \in Locks : k \in Held(u) <=> locked'[k] = TRUE /\ lcpu'[k] = c
    BY <1>2, <1>7, <1>10 DEF Owners
  <2>2. \A k \in Locks : locked'[k] = TRUE => lcpu'[k] \in CPUs
    BY <1>10 DEF Owners
  <2>. QED BY <2>1, <2>2, <1>8, <1>10, <1>12, <1>15, KeepCpus
<1>17. proc[c] # None => state[proc[c]] = "RUNNING"
  BY <1>1, RunningAt
<1>18. Switched'
  BY <1>7, <1>8, <1>10, <1>17, KeepSwitched DEF Plain
<1>19. Ticking'
  BY <1>2, <1>7, <1>8, <1>10, StillTicking
<1>. QED BY <1>9, <1>13, <1>16, <1>18, <1>19

\* A process in user space starts a system call.
LEMMA CallStep ==
  ASSUME Inv, NEW c \in CPUs, NEW steps, Call(c, steps), UNCHANGED <<cpuVars, lockVars, state, ticks>>,
         NEW w, w = << <<"sysret", TRUE>> >>, NEW u, u = Cat(steps, w),
         u \in Seq(Steps), StackOK(u), Held(u) = {}, Plain(u), ForProc(u), ~Has(u, "iret"), ~Has(u, "doze"),
         \A p \in Procs : p # proc[c] => n'[p] = n[p] /\ ticks0'[p] = ticks0[p]
  PROVE  Stacks' /\ Switched' /\ Owners' /\ Cpus' /\ Ticking'
<1>. USE DEF Inv
<1>1. proc[c] # None /\ todo[proc[c]] = <<>> /\ todo' = [todo EXCEPT ![proc[c]] = steps \o << <<"sysret", IF_[c]>> >>]
  BY DEF Call
<1>2. Stack(c) = proc[c] /\ proc[c] \in Procs
  BY <1>1, Using
<1>3. PICK t : t = todo[Stack(c)] /\ t = <<>>
  BY <1>1, <1>2
<1>4. Held(t) = {} /\ Plain(t) /\ ~Has(t, "wakeup1") /\ ~Has(t, "iret") /\ ~Has(t, "doze")
  BY <1>3, Bottom, NoSteps
<1>5. IF_[c] = TRUE
  <2>1. CpuOK(t, IF_[c], ncli[c], intena[c], proc[c])
    BY <1>3 DEF Cpus
  <2>2. Size(Held(t)) = 0
    BY <1>4, HeldIn, NoLock
  <2>3. ncli[c] = 0
    BY <2>1, <2>2, <1>4 DEF CpuOK, Plain
  <2>. QED BY <2>1, <2>3, <1>1, <1>4 DEF CpuOK, Eff
<1>6. todo' = [todo EXCEPT ![Stack(c)] = u]
  BY <1>1, <1>2, <1>5 DEF Cat
<1>7. Becomes(c, u)
  BY <1>1, <1>6 DEF Becomes
<1>8. Stacks'
  BY <1>7, Becoming
<1>9. Owners' /\ Cpus'
  BY <1>1, <1>3, <1>4, <1>7, KeepQuiet
<1>10. proc' = proc
  BY DEF cpuVars
<1>11. state[proc[c]] = "RUNNING"
  BY <1>1, <1>2, <1>3, <1>4 DEF Switched, Plain
<1>12. Switched'
  BY <1>7, <1>10, <1>11, KeepSwitched DEF Plain
<1>13. ASSUME NEW p \in Procs, Sleepy(p)'
       PROVE  Sleepy(p) /\ (Early(p) => Early(p)')
  <2>1. /\ \A x \in CPUs \cup Procs : x # Stack(c) => todo'[x] = todo[x]
        /\ todo'[Stack(c)] = u
    BY <1>7, Becoming
  <2>2. p # proc[c]
    BY <2>1, <1>2, <1>11, <1>13 DEF Sleepy
  <2>3. Sleepy(p)
    BY <2>1, <2>2, <1>2, <1>13 DEF Sleepy
  <2>4. Early(p)' <=> Early(p)
    BY <2>2 DEF Early
  <2>. QED BY <2>3, <2>4
<1>14. Ticking'
  BY <1>3, <1>4, <1>7, <1>10, <1>13, KeepTicking
<1>. QED BY <1>8, <1>9, <1>12, <1>14

LEMMA SysSleepStep ==
  ASSUME Inv, NEW c \in CPUs, SysSleep(c)
  PROVE  Inv'
<1>. USE DEF Inv
<1>1. PICK steps : steps = acquire("tickslock") \o << <<"ticks0", None>>, <<"nap", None>> >> \o release("tickslock")
  OBVIOUS
<1>2. Call(c, steps) /\ UNCHANGED <<cpuVars, lockVars, state, killed, ticks0, ticks, panic>>
  BY <1>1 DEF SysSleep
<1>3. PICK k \in Naps : n' = [n EXCEPT ![proc[c]] = k]
  BY DEF SysSleep
<1>4. PICK w : w = << <<"sysret", TRUE>> >>
  OBVIOUS
<1>5. PICK u : u = Cat(steps, w)
  OBVIOUS
<1>6. u \in Seq(Steps) /\ StackOK(u) /\ Held(u) = {} /\ Plain(u) /\ ForProc(u) /\ ~Has(u, "iret") /\ ~Has(u, "doze")
  BY <1>1, <1>4, <1>5, Sysret, PushSysSleep
<1>7. n \in [Procs -> Naps \cup {0}] /\ proc[c] \in Procs
  BY <1>2, Using DEF Types, Call
<1>8. n' \in [Procs -> Naps \cup {0}] /\ \A p \in Procs : p # proc[c] => n'[p] = n[p]
  BY <1>3, <1>7
<1>9. Types'
  BY <1>2, <1>8 DEF Types, cpuVars, lockVars
<1>10. Stacks' /\ Switched' /\ Owners' /\ Cpus' /\ Ticking'
  BY <1>2, <1>4, <1>5, <1>6, <1>8, CallStep
<1>. QED BY <1>9, <1>10

LEMMA SysUptimeStep ==
  ASSUME Inv, NEW c \in CPUs, SysUptime(c)
  PROVE  Inv'
<1>. USE DEF Inv
<1>1. PICK steps : steps = acquire("tickslock") \o release("tickslock")
  OBVIOUS
<1>2. Call(c, steps) /\ UNCHANGED <<cpuVars, lockVars, procVars, ticks, panic>>
  BY <1>1 DEF SysUptime
<1>3. PICK w : w = << <<"sysret", TRUE>> >>
  OBVIOUS
<1>4. PICK u : u = Cat(steps, w)
  OBVIOUS
<1>5. u \in Seq(Steps) /\ StackOK(u) /\ Held(u) = {} /\ Plain(u) /\ ForProc(u) /\ ~Has(u, "iret") /\ ~Has(u, "doze")
  BY <1>1, <1>3, <1>4, Sysret, PushSysUptime
<1>6. Types'
  BY <1>2 DEF Types, cpuVars, lockVars, procVars
<1>7. UNCHANGED <<cpuVars, lockVars, state, ticks>> /\ UNCHANGED <<n, ticks0>>
  BY <1>2 DEF procVars
<1>8. Stacks' /\ Switched' /\ Owners' /\ Cpus' /\ Ticking'
  BY <1>2, <1>3, <1>4, <1>5, <1>7, CallStep
<1>. QED BY <1>6, <1>8

LEMMA SysKillStep ==
  ASSUME Inv, NEW c \in CPUs, SysKill(c)
  PROVE  Inv'
<1>. USE DEF Inv
<1>1. PICK p \in Procs : Call(c, acquire("ptable") \o << <<"kill", p>> >> \o release("ptable"))
  BY DEF SysKill
<1>2. PICK steps : steps = acquire("ptable") \o << <<"kill", p>> >> \o release("ptable")
  OBVIOUS
<1>3. Call(c, steps) /\ UNCHANGED <<cpuVars, lockVars, procVars, ticks, panic>>
  BY <1>1, <1>2 DEF SysKill
<1>4. PICK w : w = << <<"sysret", TRUE>> >>
  OBVIOUS
<1>5. PICK u : u = Cat(steps, w)
  OBVIOUS
<1>6. u \in Seq(Steps) /\ StackOK(u) /\ Held(u) = {} /\ Plain(u) /\ ForProc(u) /\ ~Has(u, "iret") /\ ~Has(u, "doze")
  BY <1>2, <1>4, <1>5, Sysret, PushSysKill
<1>7. Types'
  BY <1>3 DEF Types, cpuVars, lockVars, procVars
<1>8. UNCHANGED <<cpuVars, lockVars, state, ticks>> /\ UNCHANGED <<n, ticks0>>
  BY <1>3 DEF procVars
<1>9. Stacks' /\ Switched' /\ Owners' /\ Cpus' /\ Ticking'
  BY <1>3, <1>4, <1>5, <1>6, <1>8, CallStep
<1>. QED BY <1>7, <1>9

LEMMA SchedHolds ==
  ASSUME NEW t \in Seq(Steps), StackOK(t), Top(t, "sched")
  PROVE  "ptable" \in Held(t)
<1>1. PICK s \in Steps, r \in Seq(Steps) : t = Push(s, r) /\ s = Head(t)
  BY Popped DEF Top
<1>2. Good(s, r) /\ s[1] = "sched"
  BY <1>1, StackPush DEF Top
<1>3. "ptable" \in Held(r) /\ "ptable" \in Locks /\ s # <<"xchg", "ptable">>
  BY <1>2 DEF Good, Under, Locks
<1>. QED BY <1>1, <1>3, HeldPush

LEMMA PickStep ==
  ASSUME Inv, NEW c \in CPUs, Pick(c)
  PROVE  Inv'
<1>. USE DEF Inv
<1>1. /\ At(c, "pick") /\ Then(c, <<>>)
      /\ UNCHANGED <<IF_, ncli, intena, lockVars, killed, ticks0, n, ticks, panic>>
  BY DEF Pick
<1>2. PICK t : t = todo[Stack(c)]
  OBVIOUS
<1>3. PICK u : u = Tail(t)
  OBVIOUS
<1>4. Split(t, "pick", Head(t), u)
  BY <1>1, <1>2, <1>3, Popping
<1>5. u = << <<"release", "ptable">> >> /\ Held(u) = {"ptable"}
  BY <1>4 DEF Split, Good, Under, Order
<1>6. /\ Held(u) = Held(t) /\ Plain(u) /\ Plain(t) /\ (Has(u, "iret") <=> Has(t, "iret"))
      /\ (Has(u, "doze") <=> Has(t, "doze")) /\ (Has(u, "wakeup1") <=> Has(t, "wakeup1")) /\ ~ForProc(t)
  BY <1>4, After
<1>7. proc[c] = None /\ Stack(c) = c
  BY <1>2, <1>6, Using
<1>8. Becomes(c, u)
  BY <1>1, <1>2, <1>3, Pops
<1>9. /\ Stacks' /\ todo'[c] = u
      /\ \A x \in CPUs \cup Procs : x # c => todo'[x] = todo[x]
  BY <1>7, <1>8, Becoming
<1>10. CASE ~\E p \in Procs : state[p] = "RUNNABLE"
  <2>1. UNCHANGED <<proc, state>>
    BY <1>10 DEF Pick
  <2>2. UNCHANGED <<cpuVars, lockVars>>
    BY <2>1, <1>1 DEF cpuVars
  <2>3. Owners' /\ Cpus'
    BY <2>2, <1>1, <1>2, <1>3, OrdinaryStep
  <2>4. Switched'
    BY <2>1, <1>7, <1>8, KeepSwitched
  <2>5. Ticking'
    BY <2>1, <1>1, <1>2, <1>6, <1>8, StillTicking
  <2>6. Types'
    BY <2>1, <1>1 DEF Types, lockVars
  <2>. QED BY <2>3, <2>4, <2>5, <2>6, <1>9
<1>11. CASE \E p \in Procs : state[p] = "RUNNABLE"
  <2>1. PICK p \in Procs : /\ state[p] = "RUNNABLE" /\ proc' = [proc EXCEPT ![c] = p]
                           /\ state' = [state EXCEPT ![p] = "RUNNING"]
    BY <1>11 DEF Pick
  <2>2. /\ proc \in [CPUs -> Procs \cup {None}] /\ state \in [Procs -> {"RUNNABLE", "RUNNING", "SLEEPING"}]
        /\ CPUs \cap Procs = {} /\ None \notin CPUs \cup Procs
    BY ClockAssumption DEF Types
  <2>3. /\ proc' \in [CPUs -> Procs \cup {None}] /\ proc'[c] = p /\ \A d \in CPUs : d # c => proc'[d] = proc[d]
        /\ state' \in [Procs -> {"RUNNABLE", "RUNNING", "SLEEPING"}] /\ state'[p] = "RUNNING"
        /\ \A q \in Procs : q # p => state'[q] = state[q]
    BY <2>1, <2>2
  <2>4. Types'
    BY <2>3, <1>1 DEF Types, lockVars
  <2>5. ~Current(p)
    <3>. SUFFICES ASSUME NEW d \in CPUs, proc[d] = p PROVE FALSE
      BY DEF Current
    <3>1. Stack(d) = p /\ todo[p] \in Seq(Steps) /\ StackOK(todo[p])
      BY <2>2, Using
    <3>2. Top(todo[p], "sched")
      BY <2>1, <2>2 DEF Switched
    <3>3. "ptable" \in Held(todo[p]) /\ "ptable" \in Locks
      BY <3>1, <3>2, SchedHolds DEF Locks
    <3>4. lcpu["ptable"] = d
      BY <3>1, <3>3 DEF Owners
    <3>5. lcpu["ptable"] = c
      BY <3>3, <1>2, <1>5, <1>6 DEF Owners
    <3>. QED BY <3>4, <3>5, <2>2, <1>7
  <2>6. AwayOK(p)
    BY <2>5 DEF Switched
  <2>7. p # c /\ todo'[p] = todo[p] /\ \A d \in CPUs : d # c => proc[d] # p
    BY <2>2, <2>5, <1>9 DEF Current
  <2>8. Switched'
    <3>1. \A d, e \in CPUs : proc'[d] = proc'[e] /\ proc'[d] # None => d = e
      BY <2>3, <2>7 DEF Switched
    <3>2. \A d \in CPUs : proc'[d] # None => todo'[d] = << <<"release", "ptable">> >>
      BY <2>3, <1>5, <1>9 DEF Switched
    <3>3. ASSUME NEW d \in CPUs, proc'[d] # None
          PROVE  state'[proc'[d]] = "RUNNING" <=> ~Top(todo'[proc'[d]], "sched")
      <4>1. CASE d = c
        <5>1. ~Top(todo[p], "sched")
          BY <2>6 DEF AwayOK, Top
        <5>. QED BY <4>1, <5>1, <2>3, <2>7
      <4>2. CASE d # c
        <5>1. proc'[d] = proc[d] /\ proc[d] \in Procs /\ proc[d] # p /\ proc[d] # c
          BY <4>2, <3>3, <2>2, <2>3, <2>7
        <5>. QED BY <5>1, <3>3, <2>3, <1>9 DEF Switched
      <4>. QED BY <4>1, <4>2
    <3>4. ASSUME NEW q \in Procs, ~Current(q)'
          PROVE  AwayOK(q)'
      <4>1. q # p /\ q # c
        BY <3>4, <2>2, <2>3 DEF Current
      <4>2. ~Current(q)
        BY <3>4, <2>2, <2>3, <1>7 DEF Current
      <4>3. AwayOK(q) /\ todo'[q] = todo[q] /\ state'[q] = state[q]
        BY <4>1, <4>2, <2>3, <1>9 DEF Switched
      <4>. QED BY <4>3 DEF AwayOK
    <3>. QED BY <3>1, <3>2, <3>3, <3>4 DEF Switched
  <2>9. Stack(c)' = p
    BY <2>2, <2>3 DEF Stack
  <2>10. ASSUME NEW d \in CPUs, d # c
         PROVE  Stack(d)' = Stack(d) /\ todo'[Stack(d)'] = todo[Stack(d)] /\ proc'[d] = proc[d]
    <3>1. Stack(d)' = Stack(d) /\ proc'[d] = proc[d]
      BY <2>3, <2>10 DEF Stack
    <3>2. Stack(d) \in CPUs \cup Procs /\ Stack(d) # c
      BY <2>10, <1>7, Using
    <3>. QED BY <3>1, <3>2, <1>9
  <2>11. UNCHANGED <<IF_, ncli, intena, locked, lcpu, ticks, ticks0, n>>
    BY <1>1 DEF lockVars
  <2>12. Owners'
    <3>1. ASSUME NEW d \in CPUs, NEW l \in Locks
          PROVE  l \in Held(todo'[Stack(d)']) <=> locked'[l] = TRUE /\ lcpu'[l] = d
      <4>1. CASE d = c
        <5>1. Held(todo'[Stack(c)']) = Held(todo[Stack(c)])
          BY <2>6, <2>7, <2>9, <1>2, <1>5, <1>6 DEF AwayOK
        <5>. QED BY <4>1, <5>1, <2>11 DEF Owners
      <4>2. CASE d # c
        BY <4>2, <2>10, <2>11 DEF Owners
      <4>. QED BY <4>1, <4>2
    <3>. QED BY <3>1, <2>11 DEF Owners
  <2>13. CpuOK(todo[p], IF_[c], ncli[c], intena[c], p)
    <3>1. CpuOK(t, IF_[c], ncli[c], intena[c], proc[c])
      BY <1>2 DEF Cpus
    <3>2. Size({"ptable"}) = 1
      BY DEF Size
    <3>3. ncli[c] = 1
      BY <3>1, <3>2, <1>5, <1>6 DEF CpuOK, Plain
    <3>4. ~Has(t, "iret") /\ t \notin Idle
      BY <1>4, <1>5, <1>6, NotIdle, OneRelease
    <3>5. intena[c] = TRUE
      BY <3>1, <3>3, <3>4, <1>6 DEF CpuOK, Eff, Plain
    <3>6. Held(todo[p]) = {"ptable"} /\ ~Top(todo[p], "xchg")
      BY <2>6 DEF AwayOK, Top
    <3>7. ncli[c] = Size(Held(todo[p])) + (IF Top(todo[p], "xchg") THEN 1 ELSE 0)
      BY <3>2, <3>3, <3>6
    <3>8. Eff(todo[p], IF_[c], ncli[c], intena[c]) = TRUE <=> ~Has(todo[p], "iret")
      <4>1. CASE Top(todo[p], "intena")
        BY <4>1, <3>3, <2>6 DEF AwayOK, Eff, Top
      <4>2. CASE ~Top(todo[p], "intena")
        BY <4>2, <3>3, <3>5, <2>6 DEF AwayOK, Eff
      <4>. QED BY <4>1, <4>2
    <3>. QED BY <3>1, <3>7, <3>8 DEF CpuOK
  <2>14. Cpus'
    <3>1. ASSUME NEW d \in CPUs
          PROVE  CpuOK(todo'[Stack(d)'], IF_'[d], ncli'[d], intena'[d], proc'[d])
      <4>1. CASE d = c
        BY <4>1, <2>3, <2>7, <2>9, <2>11, <2>13
      <4>2. CASE d # c
        BY <4>2, <2>10, <2>11 DEF Cpus
      <4>. QED BY <4>1, <4>2
    <3>. QED BY <3>1 DEF Cpus
  <2>15. Ticking'
    <3>1. ~Has(t, "wakeup1")
      BY <1>5, <1>6, OneRelease
    <3>2. Waking => Waking'
      BY <3>1, <2>10, <1>2 DEF Waking
    <3>3. \A q \in Procs : Sleepy(q)' => Sleepy(q)
      BY <2>2, <2>3, <1>9 DEF Sleepy
    <3>4. \A q \in Procs : Early(q)' <=> Early(q)
      BY <2>11 DEF Early
    <3>. QED BY <3>2, <3>3, <3>4 DEF Ticking
  <2>. QED BY <2>4, <2>8, <2>12, <2>14, <2>15, <1>9
<1>. QED BY <1>10, <1>11

LEMMA SchedStep ==
  ASSUME Inv, NEW c \in CPUs, Sched(c)
  PROVE  Inv'
<1>. USE DEF Inv
<1>1. At(c, "sched")
  BY DEF Sched
<1>2. PICK p : p = proc[c] /\ proc[c] # None /\ p \in Procs /\ Stack(c) = p
  BY <1>1, OnProc DEF ProcOnly
<1>3. PICK t : t = todo[p]
  OBVIOUS
<1>4. PICK r : r = Tail(t)
  OBVIOUS
<1>5. Split(t, "sched", Head(t), r)
  BY <1>1, <1>2, <1>3, <1>4, Popping
<1>6. /\ Held(r) = Held(t) /\ Plain(r) /\ (Has(r, "iret") <=> Has(t, "iret"))
      /\ (Has(r, "doze") <=> Has(t, "doze")) /\ (Has(r, "wakeup1") <=> Has(t, "wakeup1"))
      /\ (ForProc(t) => ForProc(r))
  BY <1>5, After
<1>7. /\ r \in Seq(Steps) /\ StackOK(r) /\ Held(r) = {"ptable"} /\ ~Has(r, "doze") /\ ~Has(r, "wakeup1")
      /\ ForProc(t)
  BY <1>2, <1>3, <1>5, Using DEF Split, Good, Under, Ahead
<1>8. Top(t, "sched") /\ ~Top(t, "xchg") /\ ~Top(t, "intena")
  BY <1>1, <1>2, <1>3 DEF At, Top
<1>9. CpuOK(t, IF_[c], ncli[c], intena[c], p) /\ IF_[c] \in BOOLEAN /\ intena[c] \in BOOLEAN
  BY <1>2, <1>3 DEF Cpus, Types
<1>10. Size({"ptable"}) = 1 /\ "ptable" \in Locks
  BY DEF Size, Locks
<1>11. ncli[c] = 1 /\ IF_[c] = FALSE
  <2>1. Held(t) = {"ptable"}
    BY <1>6, <1>7
  <2>2. Size(Held(t)) = 1
    BY <2>1, <1>10
  <2>3. ncli[c] = Size(Held(t)) + (IF Top(t, "xchg") THEN 1 ELSE 0) /\ (ncli[c] > 0 => IF_[c] = FALSE)
    BY <1>9 DEF CpuOK
  <2>4. ncli[c] = 1
    BY <2>2, <2>3, <1>8
  <2>. QED BY <2>3, <2>4
<1>12. holding(c, "ptable")
  BY <1>2, <1>3, <1>6, <1>7, <1>10 DEF Owners, holding
<1>13. state[p] # "RUNNING"
  BY <1>2, <1>3, <1>8 DEF Switched
<1>14. PICK b \in BOOLEAN : b = intena[c]
  BY <1>9
<1>15. PICK s \in Steps : s = <<"intena", b>>
  BY StepsIn
<1>16. /\ Then(c, <<s>>) /\ proc' = [proc EXCEPT ![c] = None]
       /\ UNCHANGED <<IF_, ncli, intena, lockVars, procVars, ticks, panic>>
  BY <1>2, <1>11, <1>12, <1>13, <1>14, <1>15 DEF Sched
<1>17. PICK u : u = Push(s, r)
  OBVIOUS
<1>18. s[1] = "intena" /\ s[2] = b
  BY <1>15
<1>19. Good(s, r)
  BY <1>6, <1>7, <1>18 DEF Good, Takes, Under, Order, Ahead, Plain
<1>20. u \in Seq(Steps) /\ StackOK(u) /\ Held(u) = {"ptable"}
  BY <1>7, <1>17, <1>18, <1>19, PushOther
<1>21. ForProc(u) /\ (Has(u, "iret") <=> Has(t, "iret")) /\ ~Has(u, "doze") /\ ~Has(u, "wakeup1")
  BY <1>6, <1>7, <1>17, <1>18, PushLike
<1>22. Top(u, "intena") /\ Head(u) = s
  BY <1>7, <1>17, <1>18, TopPush, Pushed
<1>23. Becomes(c, u)
  <2>1. todo' = [todo EXCEPT ![Stack(c)] = Cat(<<s>>, r)]
    BY <1>2, <1>3, <1>4, <1>16, ThenIs
  <2>. QED BY <2>1, <1>2, <1>17, <1>20, <1>21, CatOne DEF Becomes
<1>24. /\ Stacks' /\ todo'[p] = u
       /\ \A x \in CPUs \cup Procs : x # p => todo'[x] = todo[x]
  BY <1>2, <1>23, Becoming
<1>25. /\ proc \in [CPUs -> Procs \cup {None}] /\ CPUs \cap Procs = {} /\ None \notin CPUs \cup Procs
  BY ClockAssumption DEF Types
<1>26. proc' \in [CPUs -> Procs \cup {None}] /\ proc'[c] = None /\ \A d \in CPUs : d # c => proc'[d] = proc[d]
  BY <1>16, <1>25
<1>27. UNCHANGED <<IF_, ncli, intena, locked, lcpu, state, ticks, ticks0, n>>
  BY <1>16 DEF lockVars, procVars
<1>28. Types'
  BY <1>16, <1>26 DEF Types, lockVars, procVars
<1>29. \A d \in CPUs : d # c => proc[d] # p
  BY <1>2 DEF Switched
<1>30. AwayOK(p)'
  <2>1. b = TRUE <=> ~Has(u, "iret")
    <3>1. Eff(t, IF_[c], ncli[c], intena[c]) = intena[c]
      BY <1>8, <1>11 DEF Eff
    <3>2. p # None
      BY <1>2
    <3>3. /\ Has(t, "iret") => intena[c] # TRUE
          /\ ~Has(t, "iret") => intena[c] = TRUE
      BY <3>1, <3>2, <1>9 DEF CpuOK
    <3>. QED BY <3>3, <1>14, <1>21
  <2>. QED BY <2>1, <1>13, <1>18, <1>20, <1>22, <1>24, <1>27 DEF AwayOK
<1>31. Switched'
  <2>1. \A d, e \in CPUs : proc'[d] = proc'[e] /\ proc'[d] # None => d = e
    BY <1>26 DEF Switched
  <2>2. \A d \in CPUs : proc'[d] # None => todo'[d] = << <<"release", "ptable">> >>
    BY <1>2, <1>24, <1>25, <1>26 DEF Switched
  <2>3. ASSUME NEW d \in CPUs, proc'[d] # None
        PROVE  state'[proc'[d]] = "RUNNING" <=> ~Top(todo'[proc'[d]], "sched")
    <3>1. d # c /\ proc'[d] = proc[d] /\ proc[d] \in Procs /\ proc[d] # p
      BY <2>3, <1>25, <1>26, <1>29
    <3>. QED BY <3>1, <2>3, <1>24, <1>27 DEF Switched
  <2>4. ASSUME NEW q \in Procs, ~Current(q)'
        PROVE  AwayOK(q)'
    <3>1. CASE q = p
      BY <3>1, <1>30
    <3>2. CASE q # p
      <4>1. ~Current(q)
        BY <3>2, <2>4, <1>2, <1>26 DEF Current
      <4>2. AwayOK(q) /\ todo'[q] = todo[q] /\ state'[q] = state[q]
        BY <4>1, <3>2, <1>24, <1>27 DEF Switched
      <4>. QED BY <4>2 DEF AwayOK
    <3>. QED BY <3>1, <3>2
  <2>. QED BY <2>1, <2>2, <2>3, <2>4 DEF Switched
<1>32. Stack(c)' = c /\ todo'[c] = << <<"release", "ptable">> >>
  BY <1>2, <1>24, <1>25, <1>26 DEF Stack, Switched
<1>33. PICK w : w = todo'[c]
  OBVIOUS
<1>34. Held(w) = {"ptable"} /\ Plain(w) /\ ~Has(w, "iret") /\ w \in Idle
  BY <1>32, <1>33, OneRelease DEF Idle
<1>35. ASSUME NEW d \in CPUs, d # c
       PROVE  Stack(d)' = Stack(d) /\ todo'[Stack(d)'] = todo[Stack(d)] /\ proc'[d] = proc[d]
  <2>1. Stack(d)' = Stack(d) /\ proc'[d] = proc[d]
    BY <1>26, <1>35 DEF Stack
  <2>2. Stack(d) \in CPUs \cup Procs /\ Stack(d) # p
    BY <1>2, <1>35, Using
  <2>. QED BY <2>1, <2>2, <1>24
<1>36. Owners'
  <2>1. ASSUME NEW d \in CPUs, NEW l \in Locks
        PROVE  l \in Held(todo'[Stack(d)']) <=> locked'[l] = TRUE /\ lcpu'[l] = d
    <3>1. CASE d = c
      <4>1. Held(todo'[Stack(c)']) = Held(todo[Stack(c)])
        BY <1>2, <1>3, <1>6, <1>7, <1>32, <1>33, <1>34
      <4>. QED BY <3>1, <4>1, <1>27 DEF Owners
    <3>2. CASE d # c
      BY <3>2, <1>27, <1>35 DEF Owners
    <3>. QED BY <3>1, <3>2
  <2>. QED BY <2>1, <1>27 DEF Owners
<1>37. Cpus'
  <2>1. ASSUME NEW d \in CPUs
        PROVE  CpuOK(todo'[Stack(d)'], IF_'[d], ncli'[d], intena'[d], proc'[d])
    <3>1. CASE d = c
      <4>1. ncli[c] = Size(Held(w)) + (IF Top(w, "xchg") THEN 1 ELSE 0)
        BY <1>10, <1>11, <1>34 DEF Plain
      <4>2. CpuOK(w, IF_[c], ncli[c], intena[c], None)
        BY <4>1, <1>11, <1>34 DEF CpuOK
      <4>. QED BY <3>1, <4>2, <1>26, <1>27, <1>32, <1>33
    <3>2. CASE d # c
      BY <3>2, <1>27, <1>35 DEF Cpus
    <3>. QED BY <3>1, <3>2
  <2>. QED BY <2>1 DEF Cpus
<1>38. Ticking'
  <2>1. Waking => Waking'
    BY <1>2, <1>3, <1>6, <1>7, <1>35 DEF Waking
  <2>2. \A q \in Procs : Sleepy(q)' => Sleepy(q)
    BY <1>21, <1>24, <1>27 DEF Sleepy
  <2>3. \A q \in Procs : Early(q)' <=> Early(q)
    BY <1>27 DEF Early
  <2>. QED BY <2>1, <2>2, <2>3 DEF Ticking
<1>. QED BY <1>24, <1>28, <1>31, <1>36, <1>37, <1>38

-----------------------------------------------------------------------------
(* The invariant holds.                                                    *)

LEMMA InitInv == Init => Inv
<1>. SUFFICES ASSUME Init PROVE Inv
  OBVIOUS
<1>1. CPUs \cap Procs = {} /\ None \notin CPUs \cup Procs /\ 0 \in 0 .. UINT - 1
  BY ClockAssumption
<1>2. \A c \in CPUs : proc[c] = None /\ Stack(c) = c /\ todo[c] = <<>>
  BY DEF Init, Stack
<1>3. \A p \in Procs : todo[p] = forkret /\ state[p] = "RUNNABLE"
  BY <1>1 DEF Init
<1>4. Types
  BY <1>1 DEF Init, Types
<1>5. Stacks
  <2>1. todo \in [CPUs \cup Procs -> Seq(Steps)]
    BY Bottom, Forkret DEF Init
  <2>2. \A x \in CPUs \cup Procs : StackOK(todo[x])
    BY <1>2, <1>3, Bottom, Forkret
  <2>. QED BY <2>1, <2>2, <1>2, <1>3, NoSteps, Forkret DEF Stacks
<1>6. Switched
  <2>1. \A p \in Procs : AwayOK(p)
    <3>1. Head(forkret)[1] = "release"
      BY Forkret
    <3>. QED BY <3>1, <1>3, Forkret DEF AwayOK, Top
  <2>. QED BY <2>1, <1>2 DEF Switched
<1>7. Owners
  <2>1. \A c \in CPUs : Held(todo[Stack(c)]) = {}
    BY <1>2, Bottom
  <2>. QED BY <2>1 DEF Owners, Init
<1>8. Cpus
  <2>1. ASSUME NEW c \in CPUs
        PROVE  CpuOK(todo[Stack(c)], IF_[c], ncli[c], intena[c], proc[c])
    <3>1. IF_[c] = FALSE /\ ncli[c] = 0 /\ <<>> \in Idle
      BY DEF Init, Idle
    <3>2. Size({}) = 0 /\ Held(<<>>) = {} /\ ~Top(<<>>, "xchg") /\ ~Has(<<>>, "iret")
      BY Bottom DEF Size
    <3>3. PICK w : w = <<>>
      OBVIOUS
    <3>4. Size(Held(w)) = 0 /\ ~Top(w, "xchg") /\ ~Has(w, "iret") /\ w \in Idle
      BY <3>1, <3>2, <3>3
    <3>5. CpuOK(w, FALSE, 0, intena[c], None)
      <4>1. 0 = Size(Held(w)) + (IF Top(w, "xchg") THEN 1 ELSE 0)
        BY <3>4
      <4>. QED BY <4>1, <3>4, Zenon DEF CpuOK
    <3>. QED BY <3>1, <3>3, <3>5, <1>2
  <2>. QED BY <2>1 DEF Cpus
<1>9. Ticking
  BY <1>3, Forkret DEF Ticking, Sleepy
<1>. QED BY <1>4, <1>5, <1>6, <1>7, <1>8, <1>9 DEF Inv

LEMMA StepInv == Inv /\ [Next]_vars => Inv'
<1>. SUFFICES ASSUME Inv, [Next]_vars PROVE Inv'
  OBVIOUS
<1>1. CASE UNCHANGED vars
  <2>1. UNCHANGED <<IF_, ncli, intena, proc, locked, lcpu, todo, state, killed, ticks, ticks0, n, panic>>
    BY <1>1 DEF vars, cpuVars, lockVars, procVars
  <2>2. \A c \in CPUs : Stack(c)' = Stack(c)
    BY <2>1 DEF Stack
  <2>3. Types' /\ Stacks'
    BY <2>1 DEF Inv, Types, Stacks
  <2>4. Switched'
    BY <2>1 DEF Inv, Switched, Current, AwayOK
  <2>5. Owners' /\ Cpus'
    BY <2>1, <2>2 DEF Inv, Owners, Cpus
  <2>6. Ticking'
    BY <2>1, <2>2 DEF Inv, Ticking, Waking, Sleepy, Early
  <2>. QED BY <2>3, <2>4, <2>5, <2>6 DEF Inv
<1>2. ASSUME NEW c \in CPUs, Pushcli(c) \/ Xchg(c) \/ Release(c) PROVE Inv'
  BY <1>2, PushcliStep, XchgStep, ReleaseStep
<1>3. ASSUME NEW c \in CPUs, Timer(c) \/ Tick(c) \/ Preempt(c) \/ Iret(c) PROVE Inv'
  BY <1>3, TimerStep, TickStep, PreemptStep, IretStep
<1>4. ASSUME NEW c \in CPUs, Sti(c) \/ Pick(c) \/ Sched(c) \/ Intena(c) PROVE Inv'
  BY <1>4, StiStep, PickStep, SchedStep, IntenaStep
<1>5. ASSUME NEW c \in CPUs, Ready(c) \/ Doze(c) \/ Wakeup1(c) \/ KillStep(c) PROVE Inv'
  BY <1>5, ReadyStep, DozeStep, Wakeup1Step, KillingStep
<1>6. ASSUME NEW c \in CPUs, SysSleep(c) \/ SysUptime(c) \/ SysKill(c) \/ Ticks0(c) \/ Nap(c) PROVE Inv'
  BY <1>6, SysSleepStep, SysUptimeStep, SysKillStep, Ticks0Step, NapStep
<1>. QED BY <1>1, <1>2, <1>3, <1>4, <1>5, <1>6 DEF Next

LEMMA InvCorrect == Spec => []Inv
BY InitInv, StepInv, PTL DEF Spec

-----------------------------------------------------------------------------
(* What follows from it.                                                   *)

LEMMA SizeIs ==
  ASSUME NEW H, H \subseteq Locks
  PROVE  Cardinality(H) = Size(H) /\ Size(H) \in 0 .. 2 /\ (H # Locks => Size(H) \in 0 .. 1)
<1>1. H = {} \/ H = {"tickslock"} \/ H = {"ptable"} \/ H = {"tickslock", "ptable"}
  BY DEF Locks
<1>2. Cardinality({}) = 0
  BY FS_EmptySet
<1>3. /\ IsFiniteSet({"tickslock"}) /\ Cardinality({"tickslock"}) = 1 /\ Cardinality({"ptable"}) = 1
  BY FS_Singleton
<1>4. Cardinality({"tickslock"} \cup {"ptable"}) = 2
  BY <1>3, FS_AddElement
<1>5. {"tickslock"} \cup {"ptable"} = {"tickslock", "ptable"}
  OBVIOUS
<1>6. Cardinality({"tickslock", "ptable"}) = 2
  BY <1>4, <1>5
<1>7. CASE H = {}
  BY <1>7, <1>2 DEF Size
<1>8. CASE H = {"tickslock"}
  BY <1>8, <1>3 DEF Size
<1>9. CASE H = {"ptable"}
  BY <1>9, <1>3 DEF Size
<1>10. CASE H = {"tickslock", "ptable"}
  BY <1>10, <1>6 DEF Size, Locks
<1>. QED BY <1>1, <1>7, <1>8, <1>9, <1>10

\* A CPU that waits for a lock does not hold it, and holds none when it waits
\* for tickslock.
LEMMA Waiting ==
  ASSUME Inv, NEW c \in CPUs, Top(todo[Stack(c)], "xchg")
  PROVE  /\ At(c, "xchg") /\ Arg(c) \in Locks /\ Arg(c) \notin Held(todo[Stack(c)])
         /\ Arg(c) = "tickslock" => Held(todo[Stack(c)]) = {}
<1>1. At(c, "xchg")
  BY DEF At, Top, Inv, Types
<1>2. PICK t : t = todo[Stack(c)]
  OBVIOUS
<1>3. PICK s, r : s = Head(t) /\ r = Tail(t)
  OBVIOUS
<1>4. Split(t, "xchg", s, r)
  BY <1>1, <1>2, <1>3, Popping DEF Inv
<1>5. s[2] \in Locks /\ Held(t) = Held(r) \ {s[2]}
  BY <1>4, AfterLock
<1>6. s[2] = "tickslock" => Held(r) = {"tickslock"}
  BY <1>4 DEF Split, Good, Takes
<1>. QED BY <1>1, <1>2, <1>3, <1>5, <1>6 DEF Arg

LEMMA HoldsHeld == \A x : Holds(x) = Held(todo[x])
BY DEF Holds, Held

LEMMA TypeFollows == Inv => TypeOK
<1>. SUFFICES ASSUME Inv PROVE TypeOK
  OBVIOUS
<1>1. Cardinality(Locks) = 2
  <2>1. Size(Locks) = 2
    BY DEF Size, Locks
  <2>. QED BY <2>1, SizeIs
<1>2. ASSUME NEW c \in CPUs
      PROVE  ncli[c] \in 0 .. 2
  <2>1. PICK t : t = todo[Stack(c)]
    OBVIOUS
  <2>2. ncli[c] = Size(Held(t)) + (IF Top(t, "xchg") THEN 1 ELSE 0)
    BY <2>1 DEF Inv, Cpus, CpuOK
  <2>3. Held(t) \subseteq Locks
    BY HeldIn
  <2>4. Size(Held(t)) \in 0 .. 2 /\ (Held(t) # Locks => Size(Held(t)) \in 0 .. 1)
    BY <2>3, SizeIs
  <2>5. Top(t, "xchg") => Held(t) # Locks
    BY <2>1, Waiting
  <2>. QED BY <2>2, <2>4, <2>5
<1>3. ncli \in [CPUs -> 0 .. 2]
  BY <1>2 DEF Inv, Types
<1>. QED BY <1>1, <1>3 DEF Inv, Types, TypeOK

LEMMA LockFollows == Inv => LockDiscipline
<1>. SUFFICES ASSUME Inv PROVE LockDiscipline
  OBVIOUS
<1>1. NoPanic
  BY DEF Inv, Types, NoPanic
<1>2. HeldOnce
  <2>1. ASSUME NEW l \in Locks
        PROVE  {c \in CPUs : l \in Holds(Stack(c))} = IF locked[l] THEN {lcpu[l]} ELSE {}
    <3>1. \A c \in CPUs : l \in Holds(Stack(c)) <=> locked[l] = TRUE /\ lcpu[l] = c
      BY HoldsHeld DEF Inv, Owners
    <3>2. locked[l] \in BOOLEAN /\ (locked[l] = TRUE => lcpu[l] \in CPUs)
      BY DEF Inv, Types, Owners
    <3>3. CASE locked[l] = TRUE
      BY <3>1, <3>2, <3>3
    <3>4. CASE locked[l] = FALSE
      BY <3>1, <3>2, <3>4
    <3>. QED BY <3>2, <3>3, <3>4
  <2>. QED BY <2>1 DEF HeldOnce
<1>3. CliCounts
  <2>1. ASSUME NEW c \in CPUs
        PROVE  /\ ncli[c] = Cardinality(Holds(Stack(c))) + (IF At(c, "xchg") THEN 1 ELSE 0)
               /\ ncli[c] > 0 => ~IF_[c]
    <3>1. PICK t : t = todo[Stack(c)]
      OBVIOUS
    <3>2. ncli[c] = Size(Held(t)) + (IF Top(t, "xchg") THEN 1 ELSE 0) /\ (ncli[c] > 0 => IF_[c] = FALSE)
      BY <3>1 DEF Inv, Cpus, CpuOK
    <3>3. Cardinality(Holds(Stack(c))) = Size(Held(t))
      BY <3>1, HoldsHeld, HeldIn, SizeIs
    <3>4. At(c, "xchg") <=> Top(t, "xchg")
      BY <3>1 DEF At, Top, Inv, Types
    <3>. QED BY <3>2, <3>3, <3>4
  <2>. QED BY <2>1 DEF CliCounts
<1>4. NoEmbrace
  <2>1. ASSUME NEW c \in CPUs, NEW d \in CPUs, At(c, "xchg"), At(d, "xchg"),
               Arg(c) \in Holds(Stack(d)), Arg(d) \in Holds(Stack(c))
        PROVE  FALSE
    <3>1. Top(todo[Stack(c)], "xchg") /\ Top(todo[Stack(d)], "xchg")
      BY <2>1 DEF At, Top
    <3>2. Arg(c) \in Held(todo[Stack(d)]) /\ Arg(d) \in Held(todo[Stack(c)])
      BY <2>1, HoldsHeld
    <3>3. Arg(c) # "tickslock" /\ Arg(d) # "tickslock"
      BY <3>1, <3>2, Waiting
    <3>4. Arg(c) = "ptable" /\ Arg(d) = "ptable"
      BY <3>1, <3>3, Waiting DEF Locks
    <3>. QED BY <3>1, <3>2, <3>4, Waiting
  <2>. QED BY <2>1 DEF NoEmbrace
<1>. QED BY <1>1, <1>2, <1>3, <1>4, TypeFollows DEF LockDiscipline

\* A stack has one frame of an interrupt at most, and that of a system call
\* at its end.
LEMMA FewFrames ==
  ASSUME Inv, NEW x \in CPUs \cup Procs
  PROVE  Cardinality(Frames(x, {"iret", "sysret"})) <= 2
<1>1. PICK t : t = todo[x]
  OBVIOUS
<1>2. t \in Seq(Steps) /\ Len(t) \in Nat /\ \A k \in 1 .. Len(t) : Good(t[k], SubSeq(t, k + 1, Len(t)))
  BY <1>1 DEF Inv, Stacks, StackOK
<1>3. ASSUME NEW k \in 1 .. Len(t)
      PROVE  /\ Len(SubSeq(t, k + 1, Len(t))) = Len(t) - k
             /\ \A i \in 1 .. Len(t) - k : SubSeq(t, k + 1, Len(t))[i] = t[k + i]
  BY <1>2
<1>4. ASSUME NEW k \in 1 .. Len(t), t[k][1] = "sysret"
      PROVE  k = Len(t)
  <2>1. SubSeq(t, k + 1, Len(t)) = <<>>
    BY <1>2, <1>4 DEF Good, Order
  <2>2. Len(t) - k = 0
    <3>1. Len(SubSeq(t, k + 1, Len(t))) = Len(t) - k
      BY <1>3
    <3>2. Len(<<>>) = 0
      OBVIOUS
    <3>. QED BY <3>1, <3>2, <2>1
  <2>3. k \in Int /\ Len(t) \in Int
    BY <1>2, <1>4
  <2>. QED BY <2>2, <2>3
<1>5. ASSUME NEW k \in 1 .. Len(t), NEW j \in 1 .. Len(t), t[k][1] = "iret", t[j][1] = "iret", k < j
      PROVE  FALSE
  <2>1. PICK r : r = SubSeq(t, k + 1, Len(t))
    OBVIOUS
  <2>2. ~Has(r, "iret")
    BY <1>2, <1>5, <2>1 DEF Good, Order
  <2>3. j - k \in 1 .. Len(r) /\ r[j - k] = t[j]
    <3>1. j - k \in 1 .. Len(t) - k /\ k + (j - k) = j
      BY <1>2, <1>5
    <3>. QED BY <3>1, <2>1, <1>3
  <2>. QED BY <2>2, <2>3, <1>5 DEF Has
<1>6. PICK a : \A k \in 1 .. Len(t) : t[k][1] = "iret" => k = a
  <2>1. CASE \E k \in 1 .. Len(t) : t[k][1] = "iret"
    <3>1. PICK k \in 1 .. Len(t) : t[k][1] = "iret"
      BY <2>1
    <3>2. \A j \in 1 .. Len(t) : t[j][1] = "iret" => j = k
      BY <3>1, <1>2, <1>5
    <3>. QED BY <3>2
  <2>. QED BY <2>1
<1>7. Frames(x, {"iret", "sysret"}) \subseteq {a, Len(t)}
  BY <1>1, <1>4, <1>6 DEF Frames
<1>8. IsFiniteSet({a, Len(t)}) /\ Cardinality({a, Len(t)}) <= 2
  <2>1. IsFiniteSet({a}) /\ Cardinality({a}) = 1
    BY FS_Singleton
  <2>2. IsFiniteSet({a} \cup {Len(t)}) /\ Cardinality({a} \cup {Len(t)}) <= 2
    <3>1. PICK S : S = {a}
      OBVIOUS
    <3>2. IsFiniteSet(S) /\ Cardinality(S) = 1
      BY <2>1, <3>1
    <3>3. /\ IsFiniteSet(S \cup {Len(t)})
          /\ Cardinality(S \cup {Len(t)}) = IF Len(t) \in S THEN Cardinality(S) ELSE Cardinality(S) + 1
      BY <3>2, FS_AddElement
    <3>4. Cardinality(S \cup {Len(t)}) = 1 \/ Cardinality(S \cup {Len(t)}) = 2
      BY <3>2, <3>3
    <3>5. IsFiniteSet(S \cup {Len(t)}) /\ Cardinality(S \cup {Len(t)}) <= 2
      BY <3>3, <3>4
    <3>. QED BY <3>1, <3>5
  <2>3. {a} \cup {Len(t)} = {a, Len(t)}
    OBVIOUS
  <2>. QED BY <2>2, <2>3
<1>9. /\ Cardinality(Frames(x, {"iret", "sysret"})) <= Cardinality({a, Len(t)})
      /\ Cardinality(Frames(x, {"iret", "sysret"})) \in Nat /\ Cardinality({a, Len(t)}) \in Nat
  BY <1>7, <1>8, FS_Subset, FS_CardinalityType
<1>. QED BY <1>8, <1>9

LEMMA InterruptFollows == Inv => InterruptDiscipline
<1>. SUFFICES ASSUME Inv PROVE InterruptDiscipline
  OBVIOUS
<1>1. ASSUME NEW c \in CPUs, ncli[c] = 0, proc[c] # None, Frames(proc[c], {"iret"}) = {}
      PROVE  IF_[c]
  <2>1. Stack(c) = proc[c]
    BY <1>1 DEF Stack
  <2>2. ~Has(todo[Stack(c)], "iret")
    BY <1>1, <2>1 DEF Frames, Has
  <2>3. CpuOK(todo[Stack(c)], IF_[c], ncli[c], intena[c], proc[c])
    BY DEF Inv, Cpus
  <2>. QED BY <1>1, <2>2, <2>3 DEF CpuOK, Eff
<1>. QED BY <1>1, FewFrames DEF InterruptDiscipline, KernelInterruptible, StackBound

LEMMA TickFollows == Inv => NoLostTick
<1>. SUFFICES ASSUME Inv, NEW p \in Procs, state[p] = "SLEEPING", ~Early(p)
              PROVE  \E c \in CPUs : <<"wakeup1", None>> \in
                       {todo[Stack(c)][i] : i \in 1 .. Len(todo[Stack(c)])}
  BY DEF NoLostTick
<1>1. PICK c \in CPUs : Has(todo[Stack(c)], "wakeup1")
  BY DEF Inv, Ticking, Sleepy, Waking
<1>2. PICK t : t = todo[Stack(c)]
  OBVIOUS
<1>3. PICK i \in 1 .. Len(t) : t[i][1] = "wakeup1"
  BY <1>1, <1>2 DEF Has
<1>4. t \in Seq(Steps) /\ StackOK(t)
  BY <1>2, Using DEF Inv
<1>5. t[i][2] = None
  BY <1>3, <1>4 DEF StackOK, Good, Order
<1>6. t[i] \in Steps
  BY <1>3, <1>4
<1>7. t[i] = <<"wakeup1", None>>
  BY <1>3, <1>5, <1>6 DEF Steps
<1>. QED BY <1>2, <1>3, <1>7

\* The spin locks and the interrupt flags work together, for any number of
\* CPUs and processes: a lock has one holder, also across swtch, no assertion
\* of acquire, release, popcli or sched fails, ncli counts the locks, and no
\* two CPUs wait for each other's lock (spinlock.c, proc.c:355-370).
THEOREM LockCorrect == Spec => []LockDiscipline
BY InvCorrect, LockFollows, PTL

\* A process in the kernel can be interrupted whenever it has no lock, and a
\* stack never has the frames of two interrupts, whatever switches and ticks
\* come in between (proc.c:284, 315, 367-369, trap.c:103).
THEOREM InterruptCorrect == Spec => []InterruptDiscipline
BY InvCorrect, InterruptFollows, PTL

\* No process in sys_sleep sleeps past its time: sleep takes ptable.lock before
\* it gives tickslock back, so the tick that ends the wait finds it asleep or
\* is seen by it (sysproc.c:66-75, trap.c:52-55, proc.c:419-426), also when
\* ticks wraps around.
THEOREM TickCorrect == Spec => []NoLostTick
BY InvCorrect, TickFollows, PTL
=============================================================================

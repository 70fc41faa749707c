------------------------------- MODULE FsCode -------------------------------
(***************************************************************************)
(* The code of the system calls of Fs, as sequences of steps: which        *)
(* pointers and locks, and whether the log, a process must have to do the  *)
(* steps of a sequence, whether the code can put them in that order, and   *)
(* that this is so of every call.  FsProofs rests on it.                   *)
(***************************************************************************)
EXTENDS Fs, FiniteSetTheorems, SequenceTheorems, WellFoundedInduction, TLAPS

\* The pointers of a call: those of Ptrs but for the current directory.
CallPtrs == {"w", "ip", "dp", "ff"}
LockRegs == CallPtrs \cup {"cwd", "fip"}

\* The steps of the calls, with the registers that they are about.
Steps ==
  ({"ilock", "iunlock"} \X (CallPtrs \cup {"fip"}))
    \cup ({"iput", "itrunc", "ifree", "iputend"} \X Ptrs)
    \cup ({"begin", "commit"} \X LockRegs)
    \cup ({"namex", "element"} \X {"ip", "dp"})
    \cup ({"create", "exists", "mknode", "bump", "drop", "lookup", "remove", "open", "closeall",
            "chdir", "setcwd"} \X {"ip"})
    \cup ({"entry"} \X {"dp"}) \cup ({"readi", "writei"} \X {"fip"})
    \cup ({"fileclose"} \X (1 .. NOFILE))

\* What a step needs the process to hold, and gives back: a pointer, a lock on
\* the inode of a register, the log; Dir is the current directory of a process
\* that has closed its files.
Ptr(x) == <<"ptr", x>>
Lk(x)  == <<"lock", x>>
InLog    == <<"log", "busy">>
Dir    == <<"last", "cwd">>
Tokens == {Ptr(x) : x \in CallPtrs} \cup {Lk(x) : x \in LockRegs} \cup {InLog, Dir}

Uses(s) ==
  CASE s[1] = "iput"    -> IF s[2] = "cwd" THEN {Dir} ELSE {Ptr(s[2])}
    [] s[1] = "iputend" -> {Lk(s[2]), IF s[2] = "cwd" THEN Dir ELSE Ptr(s[2])}
    [] s[1] = "iunlock" -> {Lk(s[2])}
    [] s[1] = "element" -> {Ptr("w"), Lk("w")}
    [] s[1] = "create"  -> {Ptr("dp"), Lk("dp")}
    [] s[1] \in {"open", "chdir"} -> {Ptr("ip"), Lk("ip")}
    [] s[1] = "setcwd"  -> {Ptr("ip")}
    [] s[1] = "commit"  -> {InLog}
    [] OTHER -> {}

\* What a step takes, for the steps that follow it.
Makes(s) ==
  CASE s[1] \in {"namex", "element"} -> {Ptr(s[2])}
    [] s[1] = "create" -> {Ptr("ip"), Lk("ip")}
    [] s[1] = "lookup" -> {Ptr("ip")}
    [] s[1] = "ilock"  -> {Lk(s[2])}
    [] s[1] = "begin"  -> {InLog}
    [] s[1] = "closeall" -> {Dir}
    [] OTHER -> {}

\* What the steps t need: used by one of them and taken by none before it.
Needs(t) ==
  {k \in Tokens : \E i \in 1 .. Len(t) :
     k \in Uses(t[i]) /\ \A j \in 1 .. i - 1 : k \notin Makes(t[j])}

\* The same, by kind: pointers, locks, the log, the current directory.
Pointers(t) == {x \in CallPtrs : Ptr(x) \in Needs(t)}
Locked(t)   == {x \in LockRegs : Lk(x) \in Needs(t)}
Logged(t)   == InLog \in Needs(t)
Leaves(t)   == Dir \in Needs(t)

\* Steps in front of a sequence.
Push(s, t) == <<s>> \o t
Cat(a, b) == a \o b

\* Some step of t is of kind op; the next one is; a path is to be walked for
\* register y; the inode of a file is used.
Has(t, op)  == \E i \in 1 .. Len(t) : t[i][1] = op
Top(t, op)  == t # <<>> /\ Head(t)[1] = op
Walks(t, y) == \E i \in 1 .. Len(t) : t[i] \in {<<"namex", y>>, <<"element", y>>}
OnFile(t)   == \E i \in 1 .. Len(t) : t[i][1] # "fileclose" /\ t[i][2] = "fip"

\* Where a call goes when it fails, by what is left of it.
CommitIp == << <<"commit", "ip">> >>
Fail(t) ==
  IF Has(t, "create") \/ Has(t, "exists") THEN CommitIp
  ELSE IF Has(t, "entry") /\ ~Has(t, "bump") THEN LinkBad
  ELSE <<>>
MayFail(t) ==
  Walks(t, "ip") \/ Walks(t, "dp") \/ Has(t, "create") \/ Has(t, "exists") \/ Has(t, "entry")

PutCwd  == << <<"iput", "cwd">> >>
EndCwd  == << <<"setcwd", "ip">> >>
ExitEnd == << <<"closeall", "ip">>, <<"iput", "cwd">> >>

\* Step s can be in front of the steps t: what it takes is for them, what it
\* gives back they do not use, and the code puts them there.
Order(s, t) ==
  /\ ~Top(t, "fileclose")
  /\ Top(t, "setcwd") => s[1] \in {"iput", "iputend"} /\ s[2] = "cwd"
Inode(s, t) ==
  /\ s[1] = "ilock" => s[2] \in Locked(t) /\ s[2] \in Pointers(t) \cup {"fip"}
  /\ s[1] = "iunlock" => s[2] \notin Locked(t)
  /\ s[1] \in {"iput", "iputend"} =>
       /\ s[2] \notin Locked(t) /\ s[2] \notin Pointers(t)
       /\ s[2] = "cwd" => t \in {<<>>, EndCwd}
  /\ s[1] = "itrunc" =>
       s[2] \in Locked(t) /\ t # <<>> /\ Head(t) = <<"ifree", s[2]>>
  /\ s[1] = "ifree" =>
       s[2] \in Locked(t) /\ t # <<>> /\ Head(t) = <<"iputend", s[2]>>
  /\ s[1] = "begin" => Logged(t)
  /\ s[1] = "commit" => ~Logged(t)
Lookup(s, t) ==
  /\ s[1] \in {"namex", "element"} =>
       /\ Pointers(t) = Pointers(Fail(t)) \cup {s[2]} /\ s[2] \notin Pointers(Fail(t))
       /\ Locked(t) = {} /\ (Logged(t) <=> Logged(Fail(t)))
       /\ ~Has(t, "bump") => ~Walks(t, "ip") /\ ~Walks(t, "dp")
       /\ s[2] = "dp" => ~Has(t, "bump")
  /\ s[1] \in {"create", "exists", "entry"} => ~MayFail(t)
  /\ s[1] \in {"create", "exists", "bump"} => Pointers(t) = {"ip"} /\ Locked(t) = {"ip"} /\ Logged(t)
  /\ s[1] = "bump" => ~Walks(t, "ip") /\ ~Has(t, "bump") /\ Fail(t) = LinkBad
Change(s, t) ==
  /\ s[1] = "mknode" => {"ip", "dp"} \subseteq Locked(t)
  /\ s[1] \in {"entry", "lookup"} => Pointers(t) = {"ip", "dp"} /\ Locked(t) = {"dp"} /\ Logged(t)
  /\ s[1] = "remove" => Pointers(t) = {"ip", "dp"} /\ Locked(t) = {"ip", "dp"} /\ Logged(t)
  /\ s[1] = "drop" => "ip" \in Locked(t)
  /\ s[1] \in {"open", "chdir", "setcwd"} => t = <<>>
  /\ s[1] = "fileclose" => t \in {<<>>, ExitEnd}
  /\ s[1] = "closeall" => t = PutCwd
  /\ s[1] \in {"readi", "writei"} => "fip" \in Locked(t)
Good(s, t) == Order(s, t) /\ Inode(s, t) /\ Lookup(s, t) /\ Change(s, t)

Code(t) == \A k \in 1 .. Len(t) : Good(t[k], SubSeq(t, k + 1, Len(t)))

-----------------------------------------------------------------------------
(* Steps in front of a sequence.                                           *)

LEMMA Pushed ==
  ASSUME NEW s \in Steps, NEW t \in Seq(Steps), NEW u, u = Push(s, t)
  PROVE  /\ u \in Seq(Steps) /\ u # <<>> /\ Head(u) = s /\ Tail(u) = t
         /\ Len(t) \in Nat /\ Len(u) = Len(t) + 1 /\ u[1] = s
         /\ \A i \in 1 .. Len(t) : u[i + 1] = t[i]
<1>1. <<s>> \in Seq(Steps) /\ Len(<<s>>) = 1 /\ <<s>>[1] = s
  OBVIOUS
<1>2. u \in Seq(Steps) /\ Len(u) = Len(t) + 1 /\ Len(t) \in Nat
  BY <1>1 DEF Push
<1>3. \A i \in 1 .. Len(u) : u[i] = IF i <= 1 THEN <<s>>[i] ELSE t[i - 1]
  BY <1>1, <1>2 DEF Push
<1>4. u[1] = s /\ u # <<>> /\ Head(u) = s
  BY <1>1, <1>2, <1>3
<1>5. \A i \in 1 .. Len(t) : u[i + 1] = t[i]
  BY <1>2, <1>3
<1>6. Tail(u) = t
  <2>1. Tail(u) \in Seq(Steps) /\ Len(Tail(u)) = Len(t)
    BY <1>2, <1>4
  <2>2. \A i \in 1 .. Len(t) : Tail(u)[i] = t[i]
    BY <1>2, <1>4, <1>5
  <2>. QED BY <2>1, <2>2, SeqEqual
<1>. QED BY <1>2, <1>4, <1>5, <1>6

LEMMA Popped ==
  ASSUME NEW u \in Seq(Steps), u # <<>>
  PROVE  Head(u) \in Steps /\ Tail(u) \in Seq(Steps) /\ u = Push(Head(u), Tail(u))
<1>. DEFINE w == <<Head(u)>> \o Tail(u)
<1>1. Head(u) \in Steps /\ Tail(u) \in Seq(Steps) /\ Len(u) \in Nat /\ Len(u) > 0 /\ Len(Tail(u)) = Len(u) - 1
  BY EmptySeq
<1>2. w \in Seq(Steps) /\ Len(w) = Len(u)
  BY <1>1
<1>3. \A i \in 1 .. Len(u) : w[i] = u[i]
  BY <1>1
<1>. HIDE DEF w
<1>4. w = u
  BY <1>2, <1>3, SeqEqual
<1>. QED BY <1>1, <1>4 DEF w, Push

\* What is needed in front of step s.
LEMMA NeedsPush ==
  ASSUME NEW s \in Steps, NEW t \in Seq(Steps), NEW l \in Tokens
  PROVE  l \in Needs(Push(s, t)) <=> l \in Uses(s) \/ (l \notin Makes(s) /\ l \in Needs(t))
<1>. DEFINE u == Push(s, t)
<1>1. /\ u \in Seq(Steps) /\ Len(t) \in Nat /\ Len(u) = Len(t) + 1 /\ u[1] = s
      /\ \A i \in 1 .. Len(t) : u[i + 1] = t[i]
  BY Pushed
<1>. HIDE DEF u
<1>2. ASSUME l \in Needs(u)
      PROVE  l \in Uses(s) \/ (l \notin Makes(s) /\ l \in Needs(t))
  <2>1. PICK i \in 1 .. Len(u) : l \in Uses(u[i]) /\ \A j \in 1 .. i - 1 : l \notin Makes(u[j])
    BY <1>2 DEF Needs
  <2>2. CASE i = 1
    BY <2>1, <2>2, <1>1
  <2>3. CASE i # 1
    <3>1. i - 1 \in 1 .. Len(t) /\ u[i] = t[i - 1] /\ 1 \in 1 .. i - 1
      BY <2>3, <1>1
    <3>2. ASSUME NEW j \in 1 .. (i - 1) - 1
          PROVE  l \notin Makes(t[j])
      <4>1. j \in 1 .. Len(t) /\ j + 1 \in 1 .. i - 1 /\ u[j + 1] = t[j]
        BY <1>1
      <4>. QED BY <4>1, <2>1
    <3>3. l \in Needs(t)
      BY <3>1, <3>2, <2>1 DEF Needs
    <3>. QED BY <3>1, <3>3, <2>1, <1>1
  <2>. QED BY <2>2, <2>3
<1>3. ASSUME l \in Uses(s)
      PROVE  l \in Needs(u)
  <2>1. 1 \in 1 .. Len(u) /\ l \in Uses(u[1]) /\ \A j \in 1 .. 1 - 1 : l \notin Makes(u[j])
    BY <1>1, <1>3
  <2>. QED BY <2>1 DEF Needs
<1>4. ASSUME l \notin Makes(s), l \in Needs(t)
      PROVE  l \in Needs(u)
  <2>1. PICK i \in 1 .. Len(t) : l \in Uses(t[i]) /\ \A j \in 1 .. i - 1 : l \notin Makes(t[j])
    BY <1>4 DEF Needs
  <2>2. i + 1 \in 1 .. Len(u) /\ l \in Uses(u[i + 1])
    BY <2>1, <1>1
  <2>3. ASSUME NEW j \in 1 .. (i + 1) - 1
        PROVE  l \notin Makes(u[j])
    <3>1. CASE j = 1
      BY <3>1, <1>1, <1>4
    <3>2. CASE j # 1
      <4>1. j - 1 \in 1 .. i - 1 /\ (j - 1) + 1 = j
        BY <3>2
      <4>2. j - 1 \in 1 .. Len(t)
        BY <4>1, <1>1
      <4>3. u[(j - 1) + 1] = t[j - 1]
        BY <4>2, <1>1
      <4>. QED BY <4>1, <4>3, <2>1
    <3>. QED BY <3>1, <3>2
  <2>. QED BY <2>2, <2>3 DEF Needs
<1>. QED BY <1>2, <1>3, <1>4 DEF u

LEMMA HasPush ==
  ASSUME NEW s \in Steps, NEW t \in Seq(Steps), NEW op
  PROVE  Has(Push(s, t), op) <=> s[1] = op \/ Has(t, op)
<1>. DEFINE u == Push(s, t)
<1>1. /\ u \in Seq(Steps) /\ Len(t) \in Nat /\ Len(u) = Len(t) + 1 /\ u[1] = s
      /\ \A i \in 1 .. Len(t) : u[i + 1] = t[i]
  BY Pushed
<1>. HIDE DEF u
<1>2. ASSUME Has(u, op)
      PROVE  s[1] = op \/ Has(t, op)
  <2>1. PICK i \in 1 .. Len(u) : u[i][1] = op
    BY <1>2 DEF Has
  <2>2. CASE i = 1
    BY <2>1, <2>2, <1>1
  <2>3. CASE i # 1
    <3>1. i - 1 \in 1 .. Len(t) /\ u[(i - 1) + 1] = t[i - 1] /\ (i - 1) + 1 = i
      BY <2>3, <1>1
    <3>. QED BY <3>1, <2>1 DEF Has
  <2>. QED BY <2>2, <2>3
<1>3. ASSUME s[1] = op
      PROVE  Has(u, op)
  <2>1. 1 \in 1 .. Len(u) /\ u[1][1] = op
    BY <1>1, <1>3
  <2>. QED BY <2>1 DEF Has
<1>4. ASSUME Has(t, op)
      PROVE  Has(u, op)
  <2>1. PICK i \in 1 .. Len(t) : t[i][1] = op
    BY <1>4 DEF Has
  <2>2. i + 1 \in 1 .. Len(u) /\ u[i + 1][1] = op
    BY <2>1, <1>1
  <2>. QED BY <2>2 DEF Has
<1>. QED BY <1>2, <1>3, <1>4 DEF u

LEMMA CodePush ==
  ASSUME NEW s \in Steps, NEW t \in Seq(Steps)
  PROVE  Code(Push(s, t)) <=> Good(s, t) /\ Code(t)
<1>. DEFINE u == Push(s, t)
<1>1. /\ u \in Seq(Steps) /\ Len(t) \in Nat /\ Len(u) = Len(t) + 1 /\ u[1] = s
      /\ \A i \in 1 .. Len(t) : u[i + 1] = t[i]
  BY Pushed
<1>. HIDE DEF u
<1>2. \A k \in 1 .. Len(t) + 1 : /\ SubSeq(u, k + 1, Len(u)) \in Seq(Steps)
                                 /\ Len(SubSeq(u, k + 1, Len(u))) = Len(u) - k
                                 /\ \A i \in 1 .. Len(u) - k : SubSeq(u, k + 1, Len(u))[i] = u[k + i]
  <2>. SUFFICES ASSUME NEW k \in 1 .. Len(t) + 1
                PROVE  /\ SubSeq(u, k + 1, Len(u)) \in Seq(Steps)
                       /\ Len(SubSeq(u, k + 1, Len(u))) = Len(u) - k
                       /\ \A i \in 1 .. Len(u) - k : SubSeq(u, k + 1, Len(u))[i] = u[k + i]
    OBVIOUS
  <2>1. k + 1 \in 1 .. Len(u) + 1 /\ Len(u) \in (k + 1) - 1 .. Len(u)
    BY <1>1
  <2>. QED BY <1>1, <2>1, SubSeqProperties
<1>3. SubSeq(u, 1 + 1, Len(u)) = t
  <2>1. 1 \in 1 .. Len(t) + 1 /\ Len(u) - 1 = Len(t)
    BY <1>1
  <2>2. \A i \in 1 .. Len(t) : SubSeq(u, 1 + 1, Len(u))[i] = t[i]
    BY <2>1, <1>1, <1>2
  <2>. QED BY <2>1, <2>2, <1>2, SeqEqual
<1>4. ASSUME NEW k \in 1 .. Len(t)
      PROVE  SubSeq(u, (k + 1) + 1, Len(u)) = SubSeq(t, k + 1, Len(t))
  <2>1. k + 1 \in 1 .. Len(t) + 1 /\ Len(u) - (k + 1) = Len(t) - k
    BY <1>1
  <2>2. k + 1 \in 1 .. Len(t) + 1 /\ Len(t) \in (k + 1) - 1 .. Len(t)
    BY <1>1
  <2>3. /\ SubSeq(t, k + 1, Len(t)) \in Seq(Steps) /\ Len(SubSeq(t, k + 1, Len(t))) = Len(t) - k
        /\ \A i \in 1 .. Len(t) - k : SubSeq(t, k + 1, Len(t))[i] = t[k + i]
    BY <1>1, <2>2, SubSeqProperties
  <2>4. ASSUME NEW i \in 1 .. Len(t) - k
        PROVE  SubSeq(u, (k + 1) + 1, Len(u))[i] = SubSeq(t, k + 1, Len(t))[i]
    <3>1. k + i \in 1 .. Len(t) /\ u[(k + i) + 1] = t[k + i] /\ (k + 1) + i = (k + i) + 1
      BY <1>1
    <3>. QED BY <3>1, <2>1, <2>3, <1>2
  <2>. QED BY <2>1, <2>3, <2>4, <1>2, SeqEqual
<1>5. ASSUME Code(u)
      PROVE  Good(s, t) /\ Code(t)
  <2>1. Good(s, t)
    <3>1. 1 \in 1 .. Len(u)
      BY <1>1
    <3>. QED BY <3>1, <1>1, <1>3, <1>5 DEF Code
  <2>2. ASSUME NEW k \in 1 .. Len(t)
        PROVE  Good(t[k], SubSeq(t, k + 1, Len(t)))
    <3>1. k + 1 \in 1 .. Len(u) /\ u[k + 1] = t[k]
      BY <1>1
    <3>. QED BY <3>1, <1>4, <1>5 DEF Code
  <2>. QED BY <2>1, <2>2 DEF Code
<1>6. ASSUME Good(s, t), Code(t)
      PROVE  Code(u)
  <2>. SUFFICES ASSUME NEW k \in 1 .. Len(u)
                PROVE  Good(u[k], SubSeq(u, k + 1, Len(u)))
    BY DEF Code
  <2>1. CASE k = 1
    BY <2>1, <1>1, <1>3, <1>6
  <2>2. CASE k # 1
    <3>1. k - 1 \in 1 .. Len(t) /\ u[(k - 1) + 1] = t[k - 1] /\ (k - 1) + 1 = k
      BY <2>2, <1>1
    <3>2. SubSeq(u, k + 1, Len(u)) = SubSeq(t, (k - 1) + 1, Len(t))
      BY <3>1, <1>4
    <3>. QED BY <3>1, <3>2, <1>6 DEF Code
  <2>. QED BY <2>1, <2>2
<1>. QED BY <1>5, <1>6 DEF u

LEMMA TopPush ==
  ASSUME NEW s \in Steps, NEW t \in Seq(Steps), NEW op
  PROVE  Top(Push(s, t), op) <=> s[1] = op
<1>1. Push(s, t) # <<>> /\ Head(Push(s, t)) = s
  BY Pushed
<1>. QED BY <1>1 DEF Top

LEMMA Bottom ==
  /\ <<>> \in Seq(Steps) /\ Code(<<>>) /\ Needs(<<>>) = {}
  /\ \A op : ~Has(<<>>, op) /\ ~Top(<<>>, op)
  /\ \A y : ~Walks(<<>>, y)
  /\ ~OnFile(<<>>)
<1>1. <<>> \in Seq(Steps) /\ Len(<<>>) = 0 /\ 1 .. 0 = {}
  OBVIOUS
<1>. QED BY <1>1 DEF Code, Needs, Has, Top, Walks, OnFile

LEMMA WalksPush ==
  ASSUME NEW s \in Steps, NEW t \in Seq(Steps), NEW y
  PROVE  Walks(Push(s, t), y) <=> s \in {<<"namex", y>>, <<"element", y>>} \/ Walks(t, y)
<1>. DEFINE u == Push(s, t)
<1>1. /\ u \in Seq(Steps) /\ Len(t) \in Nat /\ Len(u) = Len(t) + 1 /\ u[1] = s
      /\ \A i \in 1 .. Len(t) : u[i + 1] = t[i]
  BY Pushed
<1>. HIDE DEF u
<1>2. ASSUME Walks(u, y)
      PROVE  s \in {<<"namex", y>>, <<"element", y>>} \/ Walks(t, y)
  <2>1. PICK i \in 1 .. Len(u) : u[i] \in {<<"namex", y>>, <<"element", y>>}
    BY <1>2 DEF Walks
  <2>2. CASE i = 1
    BY <2>1, <2>2, <1>1
  <2>3. CASE i # 1
    <3>1. i - 1 \in 1 .. Len(t) /\ u[(i - 1) + 1] = t[i - 1] /\ (i - 1) + 1 = i
      BY <2>3, <1>1
    <3>. QED BY <3>1, <2>1 DEF Walks
  <2>. QED BY <2>2, <2>3
<1>3. ASSUME s \in {<<"namex", y>>, <<"element", y>>}
      PROVE  Walks(u, y)
  <2>1. 1 \in 1 .. Len(u) /\ u[1] \in {<<"namex", y>>, <<"element", y>>}
    BY <1>1, <1>3
  <2>. QED BY <2>1 DEF Walks
<1>4. ASSUME Walks(t, y)
      PROVE  Walks(u, y)
  <2>1. PICK i \in 1 .. Len(t) : t[i] \in {<<"namex", y>>, <<"element", y>>}
    BY <1>4 DEF Walks
  <2>2. i + 1 \in 1 .. Len(u) /\ u[i + 1] \in {<<"namex", y>>, <<"element", y>>}
    BY <2>1, <1>1
  <2>. QED BY <2>2 DEF Walks
<1>. QED BY <1>2, <1>3, <1>4 DEF u

LEMMA OnFilePush ==
  ASSUME NEW s \in Steps, NEW t \in Seq(Steps)
  PROVE  OnFile(Push(s, t)) <=> (s[1] # "fileclose" /\ s[2] = "fip") \/ OnFile(t)
<1>. DEFINE u == Push(s, t)
<1>1. /\ u \in Seq(Steps) /\ Len(t) \in Nat /\ Len(u) = Len(t) + 1 /\ u[1] = s
      /\ \A i \in 1 .. Len(t) : u[i + 1] = t[i]
  BY Pushed
<1>. HIDE DEF u
<1>2. ASSUME OnFile(u)
      PROVE  (s[1] # "fileclose" /\ s[2] = "fip") \/ OnFile(t)
  <2>1. PICK i \in 1 .. Len(u) : u[i][1] # "fileclose" /\ u[i][2] = "fip"
    BY <1>2 DEF OnFile
  <2>2. CASE i = 1
    BY <2>1, <2>2, <1>1
  <2>3. CASE i # 1
    <3>1. i - 1 \in 1 .. Len(t) /\ u[(i - 1) + 1] = t[i - 1] /\ (i - 1) + 1 = i
      BY <2>3, <1>1
    <3>. QED BY <3>1, <2>1 DEF OnFile
  <2>. QED BY <2>2, <2>3
<1>3. ASSUME s[1] # "fileclose" /\ s[2] = "fip"
      PROVE  OnFile(u)
  <2>1. 1 \in 1 .. Len(u) /\ u[1][1] # "fileclose" /\ u[1][2] = "fip"
    BY <1>1, <1>3
  <2>. QED BY <2>1 DEF OnFile
<1>4. ASSUME OnFile(t)
      PROVE  OnFile(u)
  <2>1. PICK i \in 1 .. Len(t) : t[i][1] # "fileclose" /\ t[i][2] = "fip"
    BY <1>4 DEF OnFile
  <2>2. i + 1 \in 1 .. Len(u) /\ u[i + 1][1] # "fileclose" /\ u[i + 1][2] = "fip"
    BY <2>1, <1>1
  <2>. QED BY <2>2 DEF OnFile
<1>. QED BY <1>2, <1>3, <1>4 DEF u

LEMMA CatAssoc ==
  ASSUME NEW A \in Seq(Steps), NEW B \in Seq(Steps), NEW C \in Seq(Steps)
  PROVE  Cat(A, B) \in Seq(Steps) /\ Cat(Cat(A, B), C) = Cat(A, Cat(B, C))
<1>1. A \o B \in Seq(Steps)
  BY ConcatProperties
<1>2. (A \o B) \o C = A \o (B \o C)
  BY ConcatAssociative
<1>. QED BY <1>1, <1>2 DEF Cat

LEMMA CatOne == \A s, t : Cat(<<s>>, t) = Push(s, t)
BY DEF Cat, Push

\* One step in front: everything a sequence is asked.
LEMMA Front ==
  ASSUME NEW s \in Steps, NEW t \in Seq(Steps), NEW u, u = Push(s, t)
  PROVE  /\ u \in Seq(Steps) /\ u # <<>> /\ Head(u) = s /\ Tail(u) = t
         /\ Code(u) <=> Good(s, t) /\ Code(t)
         /\ \A op : Has(u, op) <=> s[1] = op \/ Has(t, op)
         /\ \A op : Top(u, op) <=> s[1] = op
         /\ \A y : Walks(u, y) <=> s \in {<<"namex", y>>, <<"element", y>>} \/ Walks(t, y)
         /\ OnFile(u) <=> (s[1] # "fileclose" /\ s[2] = "fip") \/ OnFile(t)
BY Pushed, CodePush, HasPush, TopPush, WalksPush, OnFilePush

LEMMA FrontNeeds ==
  ASSUME NEW s \in Steps, NEW t \in Seq(Steps), NEW u, u = Push(s, t)
  PROVE  /\ \A x \in CallPtrs :
              x \in Pointers(u) <=> Ptr(x) \in Uses(s) \/ (Ptr(x) \notin Makes(s) /\ x \in Pointers(t))
         /\ \A x \in LockRegs :
              x \in Locked(u) <=> Lk(x) \in Uses(s) \/ (Lk(x) \notin Makes(s) /\ x \in Locked(t))
         /\ Logged(u) <=> InLog \in Uses(s) \/ (InLog \notin Makes(s) /\ Logged(t))
         /\ Leaves(u) <=> Dir \in Uses(s) \/ (Dir \notin Makes(s) /\ Leaves(t))
<1>1. \A l \in Tokens : l \in Needs(u) <=> l \in Uses(s) \/ (l \notin Makes(s) /\ l \in Needs(t))
  BY NeedsPush
<1>2. /\ \A x \in CallPtrs : Ptr(x) \in Tokens
      /\ \A x \in LockRegs : Lk(x) \in Tokens
      /\ InLog \in Tokens /\ Dir \in Tokens
  BY DEF Tokens
<1>. QED BY <1>1, <1>2 DEF Pointers, Locked, Logged, Leaves

LEMMA Apart ==
  /\ \A x, y : Ptr(x) = Ptr(y) <=> x = y
  /\ \A x, y : Lk(x) = Lk(y) <=> x = y
  /\ \A x, y : Ptr(x) # Lk(y) /\ Ptr(x) # InLog /\ Ptr(x) # Dir /\ Lk(x) # InLog /\ Lk(x) # Dir
  /\ InLog # Dir
BY DEF Ptr, Lk, InLog, Dir

LEMMA Kinds == \A t : Pointers(t) \subseteq CallPtrs /\ Locked(t) \subseteq LockRegs
BY DEF Pointers, Locked

\* What the calls look for in a sequence.
Flags == {"create", "exists", "entry", "bump", "setcwd"}
Like(u, t) ==
  /\ Walks(u, "ip") <=> Walks(t, "ip")
  /\ Walks(u, "dp") <=> Walks(t, "dp")
  /\ \A op \in Flags : Has(u, op) <=> Has(t, op)

LEMMA FrontLike ==
  ASSUME NEW s \in Steps, NEW t \in Seq(Steps), NEW u, u = Push(s, t),
         s[1] \notin Flags \cup {"namex", "element"}
  PROVE  Like(u, t)
<1>1. \A op : Has(u, op) <=> s[1] = op \/ Has(t, op)
  BY Front
<1>2. \A y : Walks(u, y) <=> s \in {<<"namex", y>>, <<"element", y>>} \/ Walks(t, y)
  BY Front
<1>3. \A y : s \notin {<<"namex", y>>, <<"element", y>>}
  OBVIOUS
<1>4. Walks(u, "ip") <=> Walks(t, "ip")
  BY <1>2, <1>3
<1>5. Walks(u, "dp") <=> Walks(t, "dp")
  BY <1>2, <1>3
<1>6. \A op \in Flags : Has(u, op) <=> Has(t, op)
  BY <1>1
<1>. QED BY <1>4, <1>5, <1>6 DEF Like

LEMMA LikeFails ==
  ASSUME NEW t, NEW u, Like(u, t)
  PROVE  (MayFail(u) <=> MayFail(t)) /\ Fail(u) = Fail(t) /\ (Has(u, "setcwd") <=> Has(t, "setcwd"))
<1>1. /\ Has(u, "create") <=> Has(t, "create")
      /\ Has(u, "exists") <=> Has(t, "exists")
      /\ Has(u, "entry") <=> Has(t, "entry")
      /\ Has(u, "bump") <=> Has(t, "bump")
      /\ Has(u, "setcwd") <=> Has(t, "setcwd")
  BY DEF Like, Flags
<1>. QED BY <1>1 DEF Like, MayFail, Fail

LEMMA LikeTrans ==
  ASSUME NEW t, NEW u, NEW v, Like(v, u), Like(u, t)
  PROVE  Like(v, t)
BY DEF Like

LEMMA SamePtrs ==
  ASSUME NEW u, NEW t, \A y \in CallPtrs : y \in Pointers(u) <=> y \in Pointers(t)
  PROVE  Pointers(u) = Pointers(t)
BY DEF Pointers

LEMMA SameLocks ==
  ASSUME NEW u, NEW t, \A y \in LockRegs : y \in Locked(u) <=> y \in Locked(t)
  PROVE  Locked(u) = Locked(t)
BY DEF Locked

-----------------------------------------------------------------------------
(* What each kind of step needs, and what has to follow it.                *)

On(op, x, t) == Push(<<op, x>>, t)

LEMMA Op_ilock ==
  ASSUME NEW x \in CallPtrs \cup {"fip"}, NEW t \in Seq(Steps)
  PROVE  LET u == On("ilock", x, t) IN
         /\ u \in Seq(Steps) /\ u # <<>> /\ Head(u) = <<"ilock", x>> /\ Tail(u) = t
         /\ Pointers(u) = Pointers(t)
         /\ Locked(u) = Locked(t) \ {x}
         /\ Logged(u) <=> Logged(t)
         /\ Leaves(u) <=> Leaves(t)
         /\ Code(u) <=>
                /\ Code(t)
                /\ ~Top(t, "fileclose")
                /\ ~Top(t, "setcwd")
                /\ x \in Locked(t)
                /\ x \in Pointers(t) \cup {"fip"}
         /\ \A o : Top(u, o) <=> o = "ilock"
         /\ OnFile(u) <=> x = "fip" \/ OnFile(t)
         /\ Like(u, t)
<1>. DEFINE u == On("ilock", x, t)
<1>1. PICK s \in Steps : s = <<"ilock", x>> /\ s[1] = "ilock" /\ s[2] = x
  <2>1. <<"ilock", x>> \in Steps /\ <<"ilock", x>>[1] = "ilock" /\ <<"ilock", x>>[2] = x
    BY DEF Steps, LockRegs, CallPtrs, Ptrs
  <2>. QED BY <2>1, Zenon
<1>2. Uses(s) = {} /\ Makes(s) = {Lk(x)}
  BY <1>1 DEF Uses, Makes
<1>3. u = Push(s, t)
  BY <1>1 DEF On
<1>. HIDE DEF u
<1>4. Pointers(u) = Pointers(t)
  <2>1. \A y \in CallPtrs : y \in Pointers(u) <=> y \in Pointers(t)
    <3>. SUFFICES ASSUME NEW y \in CallPtrs
                  PROVE  y \in Pointers(u) <=> y \in Pointers(t)
      OBVIOUS
    <3>1. y \in Pointers(u) <=> Ptr(y) \in {} \/ (Ptr(y) \notin {Lk(x)} /\ y \in Pointers(t))
      BY <1>2, <1>3, FrontNeeds, Zenon
    <3>. QED BY <3>1, Apart
  <2>. QED BY <2>1, SamePtrs
<1>5. Locked(u) = Locked(t) \ {x}
  <2>1. \A y \in LockRegs : y \in Locked(u) <=> y \in Locked(t) \ {x}
    <3>. SUFFICES ASSUME NEW y \in LockRegs
                  PROVE  y \in Locked(u) <=> y \in Locked(t) \ {x}
      OBVIOUS
    <3>1. y \in Locked(u) <=> Lk(y) \in {} \/ (Lk(y) \notin {Lk(x)} /\ y \in Locked(t))
      BY <1>2, <1>3, FrontNeeds, Zenon
    <3>. QED BY <3>1, Apart
  <2>. QED BY <2>1, Kinds DEF LockRegs, CallPtrs
<1>6. Logged(u) <=> Logged(t)
  BY <1>2, <1>3, FrontNeeds, Apart
<1>7. Leaves(u) <=> Leaves(t)
  BY <1>2, <1>3, FrontNeeds, Apart
<1>8. Good(s, t) <=> /\ ~Top(t, "fileclose") /\ ~Top(t, "setcwd") /\ x \in Locked(t) /\ x \in Pointers(t) \cup {"fip"}
  BY <1>1, Kinds DEF Good, Order, Inode, Lookup, Change, Ptrs, CallPtrs
<1>9. /\ u \in Seq(Steps) /\ u # <<>> /\ Head(u) = s /\ Tail(u) = t
      /\ Code(u) <=> Good(s, t) /\ Code(t)
  BY <1>3, Front
<1>10. \A o : Top(u, o) <=> o = "ilock"
  BY <1>1, <1>3, Front
<1>11. OnFile(u) <=> x = "fip" \/ OnFile(t)
  BY <1>1, <1>3, Front
<1>12. Like(u, t)
  BY <1>1, <1>3, FrontLike DEF Flags
<1>. QED BY <1>1, <1>4, <1>5, <1>6, <1>7, <1>8, <1>9, <1>10, <1>11, <1>12, Zenon DEF u

LEMMA Op_iunlock ==
  ASSUME NEW x \in CallPtrs \cup {"fip"}, NEW t \in Seq(Steps)
  PROVE  LET u == On("iunlock", x, t) IN
         /\ u \in Seq(Steps) /\ u # <<>> /\ Head(u) = <<"iunlock", x>> /\ Tail(u) = t
         /\ Pointers(u) = Pointers(t)
         /\ Locked(u) = Locked(t) \cup {x}
         /\ Logged(u) <=> Logged(t)
         /\ Leaves(u) <=> Leaves(t)
         /\ Code(u) <=>
                /\ Code(t)
                /\ ~Top(t, "fileclose")
                /\ ~Top(t, "setcwd")
                /\ x \notin Locked(t)
         /\ \A o : Top(u, o) <=> o = "iunlock"
         /\ OnFile(u) <=> x = "fip" \/ OnFile(t)
         /\ Like(u, t)
<1>. DEFINE u == On("iunlock", x, t)
<1>1. PICK s \in Steps : s = <<"iunlock", x>> /\ s[1] = "iunlock" /\ s[2] = x
  <2>1. <<"iunlock", x>> \in Steps /\ <<"iunlock", x>>[1] = "iunlock" /\ <<"iunlock", x>>[2] = x
    BY DEF Steps, LockRegs, CallPtrs, Ptrs
  <2>. QED BY <2>1, Zenon
<1>2. Uses(s) = {Lk(x)} /\ Makes(s) = {}
  BY <1>1 DEF Uses, Makes
<1>3. u = Push(s, t)
  BY <1>1 DEF On
<1>. HIDE DEF u
<1>4. Pointers(u) = Pointers(t)
  <2>1. \A y \in CallPtrs : y \in Pointers(u) <=> y \in Pointers(t)
    <3>. SUFFICES ASSUME NEW y \in CallPtrs
                  PROVE  y \in Pointers(u) <=> y \in Pointers(t)
      OBVIOUS
    <3>1. y \in Pointers(u) <=> Ptr(y) \in {Lk(x)} \/ (Ptr(y) \notin {} /\ y \in Pointers(t))
      BY <1>2, <1>3, FrontNeeds, Zenon
    <3>. QED BY <3>1, Apart
  <2>. QED BY <2>1, SamePtrs
<1>5. Locked(u) = Locked(t) \cup {x}
  <2>1. \A y \in LockRegs : y \in Locked(u) <=> y \in Locked(t) \cup {x}
    <3>. SUFFICES ASSUME NEW y \in LockRegs
                  PROVE  y \in Locked(u) <=> y \in Locked(t) \cup {x}
      OBVIOUS
    <3>1. y \in Locked(u) <=> Lk(y) \in {Lk(x)} \/ (Lk(y) \notin {} /\ y \in Locked(t))
      BY <1>2, <1>3, FrontNeeds, Zenon
    <3>. QED BY <3>1, Apart
  <2>. QED BY <2>1, Kinds DEF LockRegs, CallPtrs
<1>6. Logged(u) <=> Logged(t)
  BY <1>2, <1>3, FrontNeeds, Apart
<1>7. Leaves(u) <=> Leaves(t)
  BY <1>2, <1>3, FrontNeeds, Apart
<1>8. Good(s, t) <=> /\ ~Top(t, "fileclose") /\ ~Top(t, "setcwd") /\ x \notin Locked(t)
  BY <1>1, Kinds DEF Good, Order, Inode, Lookup, Change, Ptrs, CallPtrs
<1>9. /\ u \in Seq(Steps) /\ u # <<>> /\ Head(u) = s /\ Tail(u) = t
      /\ Code(u) <=> Good(s, t) /\ Code(t)
  BY <1>3, Front
<1>10. \A o : Top(u, o) <=> o = "iunlock"
  BY <1>1, <1>3, Front
<1>11. OnFile(u) <=> x = "fip" \/ OnFile(t)
  BY <1>1, <1>3, Front
<1>12. Like(u, t)
  BY <1>1, <1>3, FrontLike DEF Flags
<1>. QED BY <1>1, <1>4, <1>5, <1>6, <1>7, <1>8, <1>9, <1>10, <1>11, <1>12, Zenon DEF u

LEMMA Op_iput ==
  ASSUME NEW x \in CallPtrs, NEW t \in Seq(Steps)
  PROVE  LET u == On("iput", x, t) IN
         /\ u \in Seq(Steps) /\ u # <<>> /\ Head(u) = <<"iput", x>> /\ Tail(u) = t
         /\ Pointers(u) = Pointers(t) \cup {x}
         /\ Locked(u) = Locked(t)
         /\ Logged(u) <=> Logged(t)
         /\ Leaves(u) <=> Leaves(t)
         /\ Code(u) <=>
                /\ Code(t)
                /\ ~Top(t, "fileclose")
                /\ ~Top(t, "setcwd")
                /\ x \notin Locked(t)
                /\ x \notin Pointers(t)
         /\ \A o : Top(u, o) <=> o = "iput"
         /\ OnFile(u) <=> OnFile(t)
         /\ Like(u, t)
<1>. DEFINE u == On("iput", x, t)
<1>1. PICK s \in Steps : s = <<"iput", x>> /\ s[1] = "iput" /\ s[2] = x
  <2>1. <<"iput", x>> \in Steps /\ <<"iput", x>>[1] = "iput" /\ <<"iput", x>>[2] = x
    BY DEF Steps, LockRegs, CallPtrs, Ptrs
  <2>. QED BY <2>1, Zenon
<1>2. Uses(s) = {Ptr(x)} /\ Makes(s) = {}
  BY <1>1 DEF Uses, Makes, CallPtrs
<1>3. u = Push(s, t)
  BY <1>1 DEF On
<1>. HIDE DEF u
<1>4. Pointers(u) = Pointers(t) \cup {x}
  <2>1. \A y \in CallPtrs : y \in Pointers(u) <=> y \in Pointers(t) \cup {x}
    <3>. SUFFICES ASSUME NEW y \in CallPtrs
                  PROVE  y \in Pointers(u) <=> y \in Pointers(t) \cup {x}
      OBVIOUS
    <3>1. y \in Pointers(u) <=> Ptr(y) \in {Ptr(x)} \/ (Ptr(y) \notin {} /\ y \in Pointers(t))
      BY <1>2, <1>3, FrontNeeds, Zenon
    <3>. QED BY <3>1, Apart
  <2>. QED BY <2>1, Kinds DEF CallPtrs
<1>5. Locked(u) = Locked(t)
  <2>1. \A y \in LockRegs : y \in Locked(u) <=> y \in Locked(t)
    <3>. SUFFICES ASSUME NEW y \in LockRegs
                  PROVE  y \in Locked(u) <=> y \in Locked(t)
      OBVIOUS
    <3>1. y \in Locked(u) <=> Lk(y) \in {Ptr(x)} \/ (Lk(y) \notin {} /\ y \in Locked(t))
      BY <1>2, <1>3, FrontNeeds, Zenon
    <3>. QED BY <3>1, Apart
  <2>. QED BY <2>1, SameLocks
<1>6. Logged(u) <=> Logged(t)
  BY <1>2, <1>3, FrontNeeds, Apart
<1>7. Leaves(u) <=> Leaves(t)
  BY <1>2, <1>3, FrontNeeds, Apart
<1>8. Good(s, t) <=> /\ ~Top(t, "fileclose") /\ ~Top(t, "setcwd") /\ x \notin Locked(t) /\ x \notin Pointers(t)
  BY <1>1, Kinds DEF Good, Order, Inode, Lookup, Change, Ptrs, CallPtrs
<1>9. /\ u \in Seq(Steps) /\ u # <<>> /\ Head(u) = s /\ Tail(u) = t
      /\ Code(u) <=> Good(s, t) /\ Code(t)
  BY <1>3, Front
<1>10. \A o : Top(u, o) <=> o = "iput"
  BY <1>1, <1>3, Front
<1>11. OnFile(u) <=> OnFile(t)
  BY <1>1, <1>3, Front DEF CallPtrs
<1>12. Like(u, t)
  BY <1>1, <1>3, FrontLike DEF Flags
<1>. QED BY <1>1, <1>4, <1>5, <1>6, <1>7, <1>8, <1>9, <1>10, <1>11, <1>12, Zenon DEF u

LEMMA Op_iputcwd ==
  ASSUME NEW t \in Seq(Steps)
  PROVE  LET u == On("iput", "cwd", t) IN
         /\ u \in Seq(Steps) /\ u # <<>> /\ Head(u) = <<"iput", "cwd">> /\ Tail(u) = t
         /\ Pointers(u) = Pointers(t)
         /\ Locked(u) = Locked(t)
         /\ Logged(u) <=> Logged(t)
         /\ Leaves(u)
         /\ Code(u) <=>
                /\ Code(t)
                /\ ~Top(t, "fileclose")
                /\ "cwd" \notin Locked(t)
                /\ t \in {<<>>, EndCwd}
         /\ \A o : Top(u, o) <=> o = "iput"
         /\ OnFile(u) <=> OnFile(t)
         /\ Like(u, t)
<1>. DEFINE u == On("iput", "cwd", t)
<1>1. PICK s \in Steps : s = <<"iput", "cwd">> /\ s[1] = "iput" /\ s[2] = "cwd"
  <2>1. <<"iput", "cwd">> \in Steps /\ <<"iput", "cwd">>[1] = "iput" /\ <<"iput", "cwd">>[2] = "cwd"
    BY DEF Steps, LockRegs, CallPtrs, Ptrs
  <2>. QED BY <2>1, Zenon
<1>2. Uses(s) = {Dir} /\ Makes(s) = {}
  BY <1>1 DEF Uses, Makes
<1>3. u = Push(s, t)
  BY <1>1 DEF On
<1>. HIDE DEF u
<1>4. Pointers(u) = Pointers(t)
  <2>1. \A y \in CallPtrs : y \in Pointers(u) <=> y \in Pointers(t)
    <3>. SUFFICES ASSUME NEW y \in CallPtrs
                  PROVE  y \in Pointers(u) <=> y \in Pointers(t)
      OBVIOUS
    <3>1. y \in Pointers(u) <=> Ptr(y) \in {Dir} \/ (Ptr(y) \notin {} /\ y \in Pointers(t))
      BY <1>2, <1>3, FrontNeeds, Zenon
    <3>. QED BY <3>1, Apart
  <2>. QED BY <2>1, SamePtrs
<1>5. Locked(u) = Locked(t)
  <2>1. \A y \in LockRegs : y \in Locked(u) <=> y \in Locked(t)
    <3>. SUFFICES ASSUME NEW y \in LockRegs
                  PROVE  y \in Locked(u) <=> y \in Locked(t)
      OBVIOUS
    <3>1. y \in Locked(u) <=> Lk(y) \in {Dir} \/ (Lk(y) \notin {} /\ y \in Locked(t))
      BY <1>2, <1>3, FrontNeeds, Zenon
    <3>. QED BY <3>1, Apart
  <2>. QED BY <2>1, SameLocks
<1>6. Logged(u) <=> Logged(t)
  BY <1>2, <1>3, FrontNeeds, Apart
<1>7. Leaves(u)
  BY <1>2, <1>3, FrontNeeds, Apart
<1>8. Good(s, t) <=> /\ ~Top(t, "fileclose") /\ "cwd" \notin Locked(t) /\ t \in {<<>>, EndCwd}
  BY <1>1, Kinds DEF Good, Order, Inode, Lookup, Change, Ptrs, CallPtrs
<1>9. /\ u \in Seq(Steps) /\ u # <<>> /\ Head(u) = s /\ Tail(u) = t
      /\ Code(u) <=> Good(s, t) /\ Code(t)
  BY <1>3, Front
<1>10. \A o : Top(u, o) <=> o = "iput"
  BY <1>1, <1>3, Front
<1>11. OnFile(u) <=> OnFile(t)
  BY <1>1, <1>3, Front
<1>12. Like(u, t)
  BY <1>1, <1>3, FrontLike DEF Flags
<1>. QED BY <1>1, <1>4, <1>5, <1>6, <1>7, <1>8, <1>9, <1>10, <1>11, <1>12, Zenon DEF u

LEMMA Op_itrunc ==
  ASSUME NEW x \in Ptrs, NEW t \in Seq(Steps)
  PROVE  LET u == On("itrunc", x, t) IN
         /\ u \in Seq(Steps) /\ u # <<>> /\ Head(u) = <<"itrunc", x>> /\ Tail(u) = t
         /\ Pointers(u) = Pointers(t)
         /\ Locked(u) = Locked(t)
         /\ Logged(u) <=> Logged(t)
         /\ Leaves(u) <=> Leaves(t)
         /\ Code(u) <=>
                /\ Code(t)
                /\ ~Top(t, "fileclose")
                /\ ~Top(t, "setcwd")
                /\ x \in Locked(t)
                /\ t # <<>> /\ Head(t) = <<"ifree", x>>
         /\ \A o : Top(u, o) <=> o = "itrunc"
         /\ OnFile(u) <=> OnFile(t)
         /\ Like(u, t)
<1>. DEFINE u == On("itrunc", x, t)
<1>1. PICK s \in Steps : s = <<"itrunc", x>> /\ s[1] = "itrunc" /\ s[2] = x
  <2>1. <<"itrunc", x>> \in Steps /\ <<"itrunc", x>>[1] = "itrunc" /\ <<"itrunc", x>>[2] = x
    BY DEF Steps, LockRegs, CallPtrs, Ptrs
  <2>. QED BY <2>1, Zenon
<1>2. Uses(s) = {} /\ Makes(s) = {}
  BY <1>1 DEF Uses, Makes
<1>3. u = Push(s, t)
  BY <1>1 DEF On
<1>. HIDE DEF u
<1>4. Pointers(u) = Pointers(t)
  <2>1. \A y \in CallPtrs : y \in Pointers(u) <=> y \in Pointers(t)
    <3>. SUFFICES ASSUME NEW y \in CallPtrs
                  PROVE  y \in Pointers(u) <=> y \in Pointers(t)
      OBVIOUS
    <3>1. y \in Pointers(u) <=> Ptr(y) \in {} \/ (Ptr(y) \notin {} /\ y \in Pointers(t))
      BY <1>2, <1>3, FrontNeeds, Zenon
    <3>. QED BY <3>1, Apart
  <2>. QED BY <2>1, SamePtrs
<1>5. Locked(u) = Locked(t)
  <2>1. \A y \in LockRegs : y \in Locked(u) <=> y \in Locked(t)
    <3>. SUFFICES ASSUME NEW y \in LockRegs
                  PROVE  y \in Locked(u) <=> y \in Locked(t)
      OBVIOUS
    <3>1. y \in Locked(u) <=> Lk(y) \in {} \/ (Lk(y) \notin {} /\ y \in Locked(t))
      BY <1>2, <1>3, FrontNeeds, Zenon
    <3>. QED BY <3>1, Apart
  <2>. QED BY <2>1, SameLocks
<1>6. Logged(u) <=> Logged(t)
  BY <1>2, <1>3, FrontNeeds, Apart
<1>7. Leaves(u) <=> Leaves(t)
  BY <1>2, <1>3, FrontNeeds, Apart
<1>8. Good(s, t) <=> /\ ~Top(t, "fileclose") /\ ~Top(t, "setcwd") /\ x \in Locked(t) /\ t # <<>> /\ Head(t) = <<"ifree", x>>
  BY <1>1, Kinds DEF Good, Order, Inode, Lookup, Change, Ptrs, CallPtrs
<1>9. /\ u \in Seq(Steps) /\ u # <<>> /\ Head(u) = s /\ Tail(u) = t
      /\ Code(u) <=> Good(s, t) /\ Code(t)
  BY <1>3, Front
<1>10. \A o : Top(u, o) <=> o = "itrunc"
  BY <1>1, <1>3, Front
<1>11. OnFile(u) <=> OnFile(t)
  BY <1>1, <1>3, Front DEF Ptrs
<1>12. Like(u, t)
  BY <1>1, <1>3, FrontLike DEF Flags
<1>. QED BY <1>1, <1>4, <1>5, <1>6, <1>7, <1>8, <1>9, <1>10, <1>11, <1>12, Zenon DEF u

LEMMA Op_ifree ==
  ASSUME NEW x \in Ptrs, NEW t \in Seq(Steps)
  PROVE  LET u == On("ifree", x, t) IN
         /\ u \in Seq(Steps) /\ u # <<>> /\ Head(u) = <<"ifree", x>> /\ Tail(u) = t
         /\ Pointers(u) = Pointers(t)
         /\ Locked(u) = Locked(t)
         /\ Logged(u) <=> Logged(t)
         /\ Leaves(u) <=> Leaves(t)
         /\ Code(u) <=>
                /\ Code(t)
                /\ ~Top(t, "fileclose")
                /\ ~Top(t, "setcwd")
                /\ x \in Locked(t)
                /\ t # <<>> /\ Head(t) = <<"iputend", x>>
         /\ \A o : Top(u, o) <=> o = "ifree"
         /\ OnFile(u) <=> OnFile(t)
         /\ Like(u, t)
<1>. DEFINE u == On("ifree", x, t)
<1>1. PICK s \in Steps : s = <<"ifree", x>> /\ s[1] = "ifree" /\ s[2] = x
  <2>1. <<"ifree", x>> \in Steps /\ <<"ifree", x>>[1] = "ifree" /\ <<"ifree", x>>[2] = x
    BY DEF Steps, LockRegs, CallPtrs, Ptrs
  <2>. QED BY <2>1, Zenon
<1>2. Uses(s) = {} /\ Makes(s) = {}
  BY <1>1 DEF Uses, Makes
<1>3. u = Push(s, t)
  BY <1>1 DEF On
<1>. HIDE DEF u
<1>4. Pointers(u) = Pointers(t)
  <2>1. \A y \in CallPtrs : y \in Pointers(u) <=> y \in Pointers(t)
    <3>. SUFFICES ASSUME NEW y \in CallPtrs
                  PROVE  y \in Pointers(u) <=> y \in Pointers(t)
      OBVIOUS
    <3>1. y \in Pointers(u) <=> Ptr(y) \in {} \/ (Ptr(y) \notin {} /\ y \in Pointers(t))
      BY <1>2, <1>3, FrontNeeds, Zenon
    <3>. QED BY <3>1, Apart
  <2>. QED BY <2>1, SamePtrs
<1>5. Locked(u) = Locked(t)
  <2>1. \A y \in LockRegs : y \in Locked(u) <=> y \in Locked(t)
    <3>. SUFFICES ASSUME NEW y \in LockRegs
                  PROVE  y \in Locked(u) <=> y \in Locked(t)
      OBVIOUS
    <3>1. y \in Locked(u) <=> Lk(y) \in {} \/ (Lk(y) \notin {} /\ y \in Locked(t))
      BY <1>2, <1>3, FrontNeeds, Zenon
    <3>. QED BY <3>1, Apart
  <2>. QED BY <2>1, SameLocks
<1>6. Logged(u) <=> Logged(t)
  BY <1>2, <1>3, FrontNeeds, Apart
<1>7. Leaves(u) <=> Leaves(t)
  BY <1>2, <1>3, FrontNeeds, Apart
<1>8. Good(s, t) <=> /\ ~Top(t, "fileclose") /\ ~Top(t, "setcwd") /\ x \in Locked(t) /\ t # <<>> /\ Head(t) = <<"iputend", x>>
  BY <1>1, Kinds DEF Good, Order, Inode, Lookup, Change, Ptrs, CallPtrs
<1>9. /\ u \in Seq(Steps) /\ u # <<>> /\ Head(u) = s /\ Tail(u) = t
      /\ Code(u) <=> Good(s, t) /\ Code(t)
  BY <1>3, Front
<1>10. \A o : Top(u, o) <=> o = "ifree"
  BY <1>1, <1>3, Front
<1>11. OnFile(u) <=> OnFile(t)
  BY <1>1, <1>3, Front DEF Ptrs
<1>12. Like(u, t)
  BY <1>1, <1>3, FrontLike DEF Flags
<1>. QED BY <1>1, <1>4, <1>5, <1>6, <1>7, <1>8, <1>9, <1>10, <1>11, <1>12, Zenon DEF u

LEMMA Op_iputend ==
  ASSUME NEW x \in CallPtrs, NEW t \in Seq(Steps)
  PROVE  LET u == On("iputend", x, t) IN
         /\ u \in Seq(Steps) /\ u # <<>> /\ Head(u) = <<"iputend", x>> /\ Tail(u) = t
         /\ Pointers(u) = Pointers(t) \cup {x}
         /\ Locked(u) = Locked(t) \cup {x}
         /\ Logged(u) <=> Logged(t)
         /\ Leaves(u) <=> Leaves(t)
         /\ Code(u) <=>
                /\ Code(t)
                /\ ~Top(t, "fileclose")
                /\ ~Top(t, "setcwd")
                /\ x \notin Locked(t)
                /\ x \notin Pointers(t)
         /\ \A o : Top(u, o) <=> o = "iputend"
         /\ OnFile(u) <=> OnFile(t)
         /\ Like(u, t)
<1>. DEFINE u == On("iputend", x, t)
<1>1. PICK s \in Steps : s = <<"iputend", x>> /\ s[1] = "iputend" /\ s[2] = x
  <2>1. <<"iputend", x>> \in Steps /\ <<"iputend", x>>[1] = "iputend" /\ <<"iputend", x>>[2] = x
    BY DEF Steps, LockRegs, CallPtrs, Ptrs
  <2>. QED BY <2>1, Zenon
<1>2. Uses(s) = {Lk(x), Ptr(x)} /\ Makes(s) = {}
  BY <1>1 DEF Uses, Makes, CallPtrs
<1>3. u = Push(s, t)
  BY <1>1 DEF On
<1>. HIDE DEF u
<1>4. Pointers(u) = Pointers(t) \cup {x}
  <2>1. \A y \in CallPtrs : y \in Pointers(u) <=> y \in Pointers(t) \cup {x}
    <3>. SUFFICES ASSUME NEW y \in CallPtrs
                  PROVE  y \in Pointers(u) <=> y \in Pointers(t) \cup {x}
      OBVIOUS
    <3>1. y \in Pointers(u) <=> Ptr(y) \in {Lk(x), Ptr(x)} \/ (Ptr(y) \notin {} /\ y \in Pointers(t))
      BY <1>2, <1>3, FrontNeeds, Zenon
    <3>. QED BY <3>1, Apart
  <2>. QED BY <2>1, Kinds DEF CallPtrs
<1>5. Locked(u) = Locked(t) \cup {x}
  <2>1. \A y \in LockRegs : y \in Locked(u) <=> y \in Locked(t) \cup {x}
    <3>. SUFFICES ASSUME NEW y \in LockRegs
                  PROVE  y \in Locked(u) <=> y \in Locked(t) \cup {x}
      OBVIOUS
    <3>1. y \in Locked(u) <=> Lk(y) \in {Lk(x), Ptr(x)} \/ (Lk(y) \notin {} /\ y \in Locked(t))
      BY <1>2, <1>3, FrontNeeds, Zenon
    <3>. QED BY <3>1, Apart
  <2>. QED BY <2>1, Kinds DEF LockRegs, CallPtrs
<1>6. Logged(u) <=> Logged(t)
  BY <1>2, <1>3, FrontNeeds, Apart
<1>7. Leaves(u) <=> Leaves(t)
  BY <1>2, <1>3, FrontNeeds, Apart
<1>8. Good(s, t) <=> /\ ~Top(t, "fileclose") /\ ~Top(t, "setcwd") /\ x \notin Locked(t) /\ x \notin Pointers(t)
  BY <1>1, Kinds DEF Good, Order, Inode, Lookup, Change, Ptrs, CallPtrs
<1>9. /\ u \in Seq(Steps) /\ u # <<>> /\ Head(u) = s /\ Tail(u) = t
      /\ Code(u) <=> Good(s, t) /\ Code(t)
  BY <1>3, Front
<1>10. \A o : Top(u, o) <=> o = "iputend"
  BY <1>1, <1>3, Front
<1>11. OnFile(u) <=> OnFile(t)
  BY <1>1, <1>3, Front DEF CallPtrs
<1>12. Like(u, t)
  BY <1>1, <1>3, FrontLike DEF Flags
<1>. QED BY <1>1, <1>4, <1>5, <1>6, <1>7, <1>8, <1>9, <1>10, <1>11, <1>12, Zenon DEF u

LEMMA Op_iputendcwd ==
  ASSUME NEW t \in Seq(Steps)
  PROVE  LET u == On("iputend", "cwd", t) IN
         /\ u \in Seq(Steps) /\ u # <<>> /\ Head(u) = <<"iputend", "cwd">> /\ Tail(u) = t
         /\ Pointers(u) = Pointers(t)
         /\ Locked(u) = Locked(t) \cup {"cwd"}
         /\ Logged(u) <=> Logged(t)
         /\ Leaves(u)
         /\ Code(u) <=>
                /\ Code(t)
                /\ ~Top(t, "fileclose")
                /\ "cwd" \notin Locked(t)
                /\ t \in {<<>>, EndCwd}
         /\ \A o : Top(u, o) <=> o = "iputend"
         /\ OnFile(u) <=> OnFile(t)
         /\ Like(u, t)
<1>. DEFINE u == On("iputend", "cwd", t)
<1>1. PICK s \in Steps : s = <<"iputend", "cwd">> /\ s[1] = "iputend" /\ s[2] = "cwd"
  <2>1. <<"iputend", "cwd">> \in Steps /\ <<"iputend", "cwd">>[1] = "iputend" /\ <<"iputend", "cwd">>[2] = "cwd"
    BY DEF Steps, LockRegs, CallPtrs, Ptrs
  <2>. QED BY <2>1, Zenon
<1>2. Uses(s) = {Lk("cwd"), Dir} /\ Makes(s) = {}
  BY <1>1 DEF Uses, Makes
<1>3. u = Push(s, t)
  BY <1>1 DEF On
<1>. HIDE DEF u
<1>4. Pointers(u) = Pointers(t)
  <2>1. \A y \in CallPtrs : y \in Pointers(u) <=> y \in Pointers(t)
    <3>. SUFFICES ASSUME NEW y \in CallPtrs
                  PROVE  y \in Pointers(u) <=> y \in Pointers(t)
      OBVIOUS
    <3>1. y \in Pointers(u) <=> Ptr(y) \in {Lk("cwd"), Dir} \/ (Ptr(y) \notin {} /\ y \in Pointers(t))
      BY <1>2, <1>3, FrontNeeds, Zenon
    <3>. QED BY <3>1, Apart
  <2>. QED BY <2>1, SamePtrs
<1>5. Locked(u) = Locked(t) \cup {"cwd"}
  <2>1. \A y \in LockRegs : y \in Locked(u) <=> y \in Locked(t) \cup {"cwd"}
    <3>. SUFFICES ASSUME NEW y \in LockRegs
                  PROVE  y \in Locked(u) <=> y \in Locked(t) \cup {"cwd"}
      OBVIOUS
    <3>1. y \in Locked(u) <=> Lk(y) \in {Lk("cwd"), Dir} \/ (Lk(y) \notin {} /\ y \in Locked(t))
      BY <1>2, <1>3, FrontNeeds, Zenon
    <3>. QED BY <3>1, Apart
  <2>. QED BY <2>1, Kinds DEF LockRegs, CallPtrs
<1>6. Logged(u) <=> Logged(t)
  BY <1>2, <1>3, FrontNeeds, Apart
<1>7. Leaves(u)
  BY <1>2, <1>3, FrontNeeds, Apart
<1>8. Good(s, t) <=> /\ ~Top(t, "fileclose") /\ "cwd" \notin Locked(t) /\ t \in {<<>>, EndCwd}
  BY <1>1, Kinds DEF Good, Order, Inode, Lookup, Change, Ptrs, CallPtrs
<1>9. /\ u \in Seq(Steps) /\ u # <<>> /\ Head(u) = s /\ Tail(u) = t
      /\ Code(u) <=> Good(s, t) /\ Code(t)
  BY <1>3, Front
<1>10. \A o : Top(u, o) <=> o = "iputend"
  BY <1>1, <1>3, Front
<1>11. OnFile(u) <=> OnFile(t)
  BY <1>1, <1>3, Front
<1>12. Like(u, t)
  BY <1>1, <1>3, FrontLike DEF Flags
<1>. QED BY <1>1, <1>4, <1>5, <1>6, <1>7, <1>8, <1>9, <1>10, <1>11, <1>12, Zenon DEF u

LEMMA Op_begin ==
  ASSUME NEW x \in LockRegs, NEW t \in Seq(Steps)
  PROVE  LET u == On("begin", x, t) IN
         /\ u \in Seq(Steps) /\ u # <<>> /\ Head(u) = <<"begin", x>> /\ Tail(u) = t
         /\ Pointers(u) = Pointers(t)
         /\ Locked(u) = Locked(t)
         /\ ~Logged(u)
         /\ Leaves(u) <=> Leaves(t)
         /\ Code(u) <=>
                /\ Code(t)
                /\ ~Top(t, "fileclose")
                /\ ~Top(t, "setcwd")
                /\ Logged(t)
         /\ \A o : Top(u, o) <=> o = "begin"
         /\ OnFile(u) <=> x = "fip" \/ OnFile(t)
         /\ Like(u, t)
<1>. DEFINE u == On("begin", x, t)
<1>1. PICK s \in Steps : s = <<"begin", x>> /\ s[1] = "begin" /\ s[2] = x
  <2>1. <<"begin", x>> \in Steps /\ <<"begin", x>>[1] = "begin" /\ <<"begin", x>>[2] = x
    BY DEF Steps, LockRegs, CallPtrs, Ptrs
  <2>. QED BY <2>1, Zenon
<1>2. Uses(s) = {} /\ Makes(s) = {InLog}
  BY <1>1 DEF Uses, Makes
<1>3. u = Push(s, t)
  BY <1>1 DEF On
<1>. HIDE DEF u
<1>4. Pointers(u) = Pointers(t)
  <2>1. \A y \in CallPtrs : y \in Pointers(u) <=> y \in Pointers(t)
    <3>. SUFFICES ASSUME NEW y \in CallPtrs
                  PROVE  y \in Pointers(u) <=> y \in Pointers(t)
      OBVIOUS
    <3>1. y \in Pointers(u) <=> Ptr(y) \in {} \/ (Ptr(y) \notin {InLog} /\ y \in Pointers(t))
      BY <1>2, <1>3, FrontNeeds, Zenon
    <3>. QED BY <3>1, Apart
  <2>. QED BY <2>1, SamePtrs
<1>5. Locked(u) = Locked(t)
  <2>1. \A y \in LockRegs : y \in Locked(u) <=> y \in Locked(t)
    <3>. SUFFICES ASSUME NEW y \in LockRegs
                  PROVE  y \in Locked(u) <=> y \in Locked(t)
      OBVIOUS
    <3>1. y \in Locked(u) <=> Lk(y) \in {} \/ (Lk(y) \notin {InLog} /\ y \in Locked(t))
      BY <1>2, <1>3, FrontNeeds, Zenon
    <3>. QED BY <3>1, Apart
  <2>. QED BY <2>1, SameLocks
<1>6. ~Logged(u)
  BY <1>2, <1>3, FrontNeeds, Apart
<1>7. Leaves(u) <=> Leaves(t)
  BY <1>2, <1>3, FrontNeeds, Apart
<1>8. Good(s, t) <=> /\ ~Top(t, "fileclose") /\ ~Top(t, "setcwd") /\ Logged(t)
  BY <1>1, Kinds DEF Good, Order, Inode, Lookup, Change, Ptrs, CallPtrs
<1>9. /\ u \in Seq(Steps) /\ u # <<>> /\ Head(u) = s /\ Tail(u) = t
      /\ Code(u) <=> Good(s, t) /\ Code(t)
  BY <1>3, Front
<1>10. \A o : Top(u, o) <=> o = "begin"
  BY <1>1, <1>3, Front
<1>11. OnFile(u) <=> x = "fip" \/ OnFile(t)
  BY <1>1, <1>3, Front
<1>12. Like(u, t)
  BY <1>1, <1>3, FrontLike DEF Flags
<1>. QED BY <1>1, <1>4, <1>5, <1>6, <1>7, <1>8, <1>9, <1>10, <1>11, <1>12, Zenon DEF u

LEMMA Op_commit ==
  ASSUME NEW x \in LockRegs, NEW t \in Seq(Steps)
  PROVE  LET u == On("commit", x, t) IN
         /\ u \in Seq(Steps) /\ u # <<>> /\ Head(u) = <<"commit", x>> /\ Tail(u) = t
         /\ Pointers(u) = Pointers(t)
         /\ Locked(u) = Locked(t)
         /\ Logged(u)
         /\ Leaves(u) <=> Leaves(t)
         /\ Code(u) <=>
                /\ Code(t)
                /\ ~Top(t, "fileclose")
                /\ ~Top(t, "setcwd")
                /\ ~Logged(t)
         /\ \A o : Top(u, o) <=> o = "commit"
         /\ OnFile(u) <=> x = "fip" \/ OnFile(t)
         /\ Like(u, t)
<1>. DEFINE u == On("commit", x, t)
<1>1. PICK s \in Steps : s = <<"commit", x>> /\ s[1] = "commit" /\ s[2] = x
  <2>1. <<"commit", x>> \in Steps /\ <<"commit", x>>[1] = "commit" /\ <<"commit", x>>[2] = x
    BY DEF Steps, LockRegs, CallPtrs, Ptrs
  <2>. QED BY <2>1, Zenon
<1>2. Uses(s) = {InLog} /\ Makes(s) = {}
  BY <1>1 DEF Uses, Makes
<1>3. u = Push(s, t)
  BY <1>1 DEF On
<1>. HIDE DEF u
<1>4. Pointers(u) = Pointers(t)
  <2>1. \A y \in CallPtrs : y \in Pointers(u) <=> y \in Pointers(t)
    <3>. SUFFICES ASSUME NEW y \in CallPtrs
                  PROVE  y \in Pointers(u) <=> y \in Pointers(t)
      OBVIOUS
    <3>1. y \in Pointers(u) <=> Ptr(y) \in {InLog} \/ (Ptr(y) \notin {} /\ y \in Pointers(t))
      BY <1>2, <1>3, FrontNeeds, Zenon
    <3>. QED BY <3>1, Apart
  <2>. QED BY <2>1, SamePtrs
<1>5. Locked(u) = Locked(t)
  <2>1. \A y \in LockRegs : y \in Locked(u) <=> y \in Locked(t)
    <3>. SUFFICES ASSUME NEW y \in LockRegs
                  PROVE  y \in Locked(u) <=> y \in Locked(t)
      OBVIOUS
    <3>1. y \in Locked(u) <=> Lk(y) \in {InLog} \/ (Lk(y) \notin {} /\ y \in Locked(t))
      BY <1>2, <1>3, FrontNeeds, Zenon
    <3>. QED BY <3>1, Apart
  <2>. QED BY <2>1, SameLocks
<1>6. Logged(u)
  BY <1>2, <1>3, FrontNeeds, Apart
<1>7. Leaves(u) <=> Leaves(t)
  BY <1>2, <1>3, FrontNeeds, Apart
<1>8. Good(s, t) <=> /\ ~Top(t, "fileclose") /\ ~Top(t, "setcwd") /\ ~Logged(t)
  BY <1>1, Kinds DEF Good, Order, Inode, Lookup, Change, Ptrs, CallPtrs
<1>9. /\ u \in Seq(Steps) /\ u # <<>> /\ Head(u) = s /\ Tail(u) = t
      /\ Code(u) <=> Good(s, t) /\ Code(t)
  BY <1>3, Front
<1>10. \A o : Top(u, o) <=> o = "commit"
  BY <1>1, <1>3, Front
<1>11. OnFile(u) <=> x = "fip" \/ OnFile(t)
  BY <1>1, <1>3, Front
<1>12. Like(u, t)
  BY <1>1, <1>3, FrontLike DEF Flags
<1>. QED BY <1>1, <1>4, <1>5, <1>6, <1>7, <1>8, <1>9, <1>10, <1>11, <1>12, Zenon DEF u

LEMMA Op_namex ==
  ASSUME NEW x \in {"ip", "dp"}, NEW t \in Seq(Steps)
  PROVE  LET u == On("namex", x, t) IN
         /\ u \in Seq(Steps) /\ u # <<>> /\ Head(u) = <<"namex", x>> /\ Tail(u) = t
         /\ Pointers(u) = Pointers(t) \ {x}
         /\ Locked(u) = Locked(t)
         /\ Logged(u) <=> Logged(t)
         /\ Leaves(u) <=> Leaves(t)
         /\ Code(u) <=>
                /\ Code(t)
                /\ ~Top(t, "fileclose")
                /\ ~Top(t, "setcwd")
                /\ Pointers(t) = Pointers(Fail(t)) \cup {x}
                /\ x \notin Pointers(Fail(t))
                /\ Locked(t) = {}
                /\ (Logged(t) <=> Logged(Fail(t)))
                /\ (~Has(t, "bump") => ~Walks(t, "ip") /\ ~Walks(t, "dp"))
                /\ (x = "dp" => ~Has(t, "bump"))
         /\ \A o : Top(u, o) <=> o = "namex"
         /\ OnFile(u) <=> OnFile(t)
         /\ (Walks(u, "ip") <=> x = "ip" \/ Walks(t, "ip")) /\ (Walks(u, "dp") <=> x = "dp" \/ Walks(t, "dp")) /\ \A o \in Flags : Has(u, o) <=> Has(t, o)
<1>. DEFINE u == On("namex", x, t)
<1>1. PICK s \in Steps : s = <<"namex", x>> /\ s[1] = "namex" /\ s[2] = x
  <2>1. <<"namex", x>> \in Steps /\ <<"namex", x>>[1] = "namex" /\ <<"namex", x>>[2] = x
    BY DEF Steps, LockRegs, CallPtrs, Ptrs
  <2>. QED BY <2>1, Zenon
<1>2. Uses(s) = {} /\ Makes(s) = {Ptr(x)}
  BY <1>1 DEF Uses, Makes
<1>3. u = Push(s, t)
  BY <1>1 DEF On
<1>. HIDE DEF u
<1>4. Pointers(u) = Pointers(t) \ {x}
  <2>1. \A y \in CallPtrs : y \in Pointers(u) <=> y \in Pointers(t) \ {x}
    <3>. SUFFICES ASSUME NEW y \in CallPtrs
                  PROVE  y \in Pointers(u) <=> y \in Pointers(t) \ {x}
      OBVIOUS
    <3>1. y \in Pointers(u) <=> Ptr(y) \in {} \/ (Ptr(y) \notin {Ptr(x)} /\ y \in Pointers(t))
      BY <1>2, <1>3, FrontNeeds, Zenon
    <3>. QED BY <3>1, Apart
  <2>. QED BY <2>1, Kinds DEF CallPtrs
<1>5. Locked(u) = Locked(t)
  <2>1. \A y \in LockRegs : y \in Locked(u) <=> y \in Locked(t)
    <3>. SUFFICES ASSUME NEW y \in LockRegs
                  PROVE  y \in Locked(u) <=> y \in Locked(t)
      OBVIOUS
    <3>1. y \in Locked(u) <=> Lk(y) \in {} \/ (Lk(y) \notin {Ptr(x)} /\ y \in Locked(t))
      BY <1>2, <1>3, FrontNeeds, Zenon
    <3>. QED BY <3>1, Apart
  <2>. QED BY <2>1, SameLocks
<1>6. Logged(u) <=> Logged(t)
  BY <1>2, <1>3, FrontNeeds, Apart
<1>7. Leaves(u) <=> Leaves(t)
  BY <1>2, <1>3, FrontNeeds, Apart
<1>8. Good(s, t) <=> /\ ~Top(t, "fileclose") /\ ~Top(t, "setcwd") /\ Pointers(t) = Pointers(Fail(t)) \cup {x} /\ x \notin Pointers(Fail(t)) /\ Locked(t) = {} /\ (Logged(t) <=> Logged(Fail(t))) /\ (~Has(t, "bump") => ~Walks(t, "ip") /\ ~Walks(t, "dp")) /\ (x = "dp" => ~Has(t, "bump"))
  BY <1>1, Kinds DEF Good, Order, Inode, Lookup, Change, Ptrs, CallPtrs
<1>9. /\ u \in Seq(Steps) /\ u # <<>> /\ Head(u) = s /\ Tail(u) = t
      /\ Code(u) <=> Good(s, t) /\ Code(t)
  BY <1>3, Front
<1>10. \A o : Top(u, o) <=> o = "namex"
  BY <1>1, <1>3, Front
<1>11. OnFile(u) <=> OnFile(t)
  BY <1>1, <1>3, Front
<1>12. (Walks(u, "ip") <=> x = "ip" \/ Walks(t, "ip")) /\ (Walks(u, "dp") <=> x = "dp" \/ Walks(t, "dp")) /\ \A o \in Flags : Has(u, o) <=> Has(t, o)
  <2>1. Walks(u, "ip") <=> x = "ip" \/ Walks(t, "ip")
    <3>1. Walks(u, "ip") <=> s \in {<<"namex", "ip">>, <<"element", "ip">>} \/ Walks(t, "ip")
      BY <1>3, Front
    <3>2. s \in {<<"namex", "ip">>, <<"element", "ip">>} <=> x = "ip"
      BY <1>1
    <3>. QED BY <3>1, <3>2
  <2>2. Walks(u, "dp") <=> x = "dp" \/ Walks(t, "dp")
    <3>1. Walks(u, "dp") <=> s \in {<<"namex", "dp">>, <<"element", "dp">>} \/ Walks(t, "dp")
      BY <1>3, Front
    <3>2. s \in {<<"namex", "dp">>, <<"element", "dp">>} <=> x = "dp"
      BY <1>1
    <3>. QED BY <3>1, <3>2
  <2>3. \A o \in Flags : Has(u, o) <=> Has(t, o)
    BY <1>1, <1>3, Front DEF Flags
  <2>. QED BY <2>1, <2>2, <2>3
<1>. QED BY <1>1, <1>4, <1>5, <1>6, <1>7, <1>8, <1>9, <1>10, <1>11, <1>12, Zenon DEF u

LEMMA Op_element ==
  ASSUME NEW x \in {"ip", "dp"}, NEW t \in Seq(Steps)
  PROVE  LET u == On("element", x, t) IN
         /\ u \in Seq(Steps) /\ u # <<>> /\ Head(u) = <<"element", x>> /\ Tail(u) = t
         /\ Pointers(u) = (Pointers(t) \ {x}) \cup {"w"}
         /\ Locked(u) = Locked(t) \cup {"w"}
         /\ Logged(u) <=> Logged(t)
         /\ Leaves(u) <=> Leaves(t)
         /\ Code(u) <=>
                /\ Code(t)
                /\ ~Top(t, "fileclose")
                /\ ~Top(t, "setcwd")
                /\ Pointers(t) = Pointers(Fail(t)) \cup {x}
                /\ x \notin Pointers(Fail(t))
                /\ Locked(t) = {}
                /\ (Logged(t) <=> Logged(Fail(t)))
                /\ (~Has(t, "bump") => ~Walks(t, "ip") /\ ~Walks(t, "dp"))
                /\ (x = "dp" => ~Has(t, "bump"))
         /\ \A o : Top(u, o) <=> o = "element"
         /\ OnFile(u) <=> OnFile(t)
         /\ (Walks(u, "ip") <=> x = "ip" \/ Walks(t, "ip")) /\ (Walks(u, "dp") <=> x = "dp" \/ Walks(t, "dp")) /\ \A o \in Flags : Has(u, o) <=> Has(t, o)
<1>. DEFINE u == On("element", x, t)
<1>1. PICK s \in Steps : s = <<"element", x>> /\ s[1] = "element" /\ s[2] = x
  <2>1. <<"element", x>> \in Steps /\ <<"element", x>>[1] = "element" /\ <<"element", x>>[2] = x
    BY DEF Steps, LockRegs, CallPtrs, Ptrs
  <2>. QED BY <2>1, Zenon
<1>2. Uses(s) = {Ptr("w"), Lk("w")} /\ Makes(s) = {Ptr(x)}
  BY <1>1 DEF Uses, Makes
<1>3. u = Push(s, t)
  BY <1>1 DEF On
<1>. HIDE DEF u
<1>4. Pointers(u) = (Pointers(t) \ {x}) \cup {"w"}
  <2>1. \A y \in CallPtrs : y \in Pointers(u) <=> y \in (Pointers(t) \ {x}) \cup {"w"}
    <3>. SUFFICES ASSUME NEW y \in CallPtrs
                  PROVE  y \in Pointers(u) <=> y \in (Pointers(t) \ {x}) \cup {"w"}
      OBVIOUS
    <3>1. y \in Pointers(u) <=> Ptr(y) \in {Ptr("w"), Lk("w")} \/ (Ptr(y) \notin {Ptr(x)} /\ y \in Pointers(t))
      BY <1>2, <1>3, FrontNeeds, Zenon
    <3>. QED BY <3>1, Apart
  <2>. QED BY <2>1, Kinds DEF CallPtrs
<1>5. Locked(u) = Locked(t) \cup {"w"}
  <2>1. \A y \in LockRegs : y \in Locked(u) <=> y \in Locked(t) \cup {"w"}
    <3>. SUFFICES ASSUME NEW y \in LockRegs
                  PROVE  y \in Locked(u) <=> y \in Locked(t) \cup {"w"}
      OBVIOUS
    <3>1. y \in Locked(u) <=> Lk(y) \in {Ptr("w"), Lk("w")} \/ (Lk(y) \notin {Ptr(x)} /\ y \in Locked(t))
      BY <1>2, <1>3, FrontNeeds, Zenon
    <3>. QED BY <3>1, Apart
  <2>. QED BY <2>1, Kinds DEF LockRegs, CallPtrs
<1>6. Logged(u) <=> Logged(t)
  BY <1>2, <1>3, FrontNeeds, Apart
<1>7. Leaves(u) <=> Leaves(t)
  BY <1>2, <1>3, FrontNeeds, Apart
<1>8. Good(s, t) <=> /\ ~Top(t, "fileclose") /\ ~Top(t, "setcwd") /\ Pointers(t) = Pointers(Fail(t)) \cup {x} /\ x \notin Pointers(Fail(t)) /\ Locked(t) = {} /\ (Logged(t) <=> Logged(Fail(t))) /\ (~Has(t, "bump") => ~Walks(t, "ip") /\ ~Walks(t, "dp")) /\ (x = "dp" => ~Has(t, "bump"))
  BY <1>1, Kinds DEF Good, Order, Inode, Lookup, Change, Ptrs, CallPtrs
<1>9. /\ u \in Seq(Steps) /\ u # <<>> /\ Head(u) = s /\ Tail(u) = t
      /\ Code(u) <=> Good(s, t) /\ Code(t)
  BY <1>3, Front
<1>10. \A o : Top(u, o) <=> o = "element"
  BY <1>1, <1>3, Front
<1>11. OnFile(u) <=> OnFile(t)
  BY <1>1, <1>3, Front
<1>12. (Walks(u, "ip") <=> x = "ip" \/ Walks(t, "ip")) /\ (Walks(u, "dp") <=> x = "dp" \/ Walks(t, "dp")) /\ \A o \in Flags : Has(u, o) <=> Has(t, o)
  <2>1. Walks(u, "ip") <=> x = "ip" \/ Walks(t, "ip")
    <3>1. Walks(u, "ip") <=> s \in {<<"namex", "ip">>, <<"element", "ip">>} \/ Walks(t, "ip")
      BY <1>3, Front
    <3>2. s \in {<<"namex", "ip">>, <<"element", "ip">>} <=> x = "ip"
      BY <1>1
    <3>. QED BY <3>1, <3>2
  <2>2. Walks(u, "dp") <=> x = "dp" \/ Walks(t, "dp")
    <3>1. Walks(u, "dp") <=> s \in {<<"namex", "dp">>, <<"element", "dp">>} \/ Walks(t, "dp")
      BY <1>3, Front
    <3>2. s \in {<<"namex", "dp">>, <<"element", "dp">>} <=> x = "dp"
      BY <1>1
    <3>. QED BY <3>1, <3>2
  <2>3. \A o \in Flags : Has(u, o) <=> Has(t, o)
    BY <1>1, <1>3, Front DEF Flags
  <2>. QED BY <2>1, <2>2, <2>3
<1>. QED BY <1>1, <1>4, <1>5, <1>6, <1>7, <1>8, <1>9, <1>10, <1>11, <1>12, Zenon DEF u

LEMMA Op_create ==
  ASSUME NEW t \in Seq(Steps)
  PROVE  LET u == On("create", "ip", t) IN
         /\ u \in Seq(Steps) /\ u # <<>> /\ Head(u) = <<"create", "ip">> /\ Tail(u) = t
         /\ Pointers(u) = (Pointers(t) \ {"ip"}) \cup {"dp"}
         /\ Locked(u) = (Locked(t) \ {"ip"}) \cup {"dp"}
         /\ Logged(u) <=> Logged(t)
         /\ Leaves(u) <=> Leaves(t)
         /\ Code(u) <=>
                /\ Code(t)
                /\ ~Top(t, "fileclose")
                /\ ~Top(t, "setcwd")
                /\ ~MayFail(t)
                /\ Pointers(t) = {"ip"}
                /\ Locked(t) = {"ip"}
                /\ Logged(t)
         /\ \A o : Top(u, o) <=> o = "create"
         /\ OnFile(u) <=> OnFile(t)
         /\ (Walks(u, "ip") <=> Walks(t, "ip")) /\ (Walks(u, "dp") <=> Walks(t, "dp")) /\ \A o \in Flags : Has(u, o) <=> o = "create" \/ Has(t, o)
<1>. DEFINE u == On("create", "ip", t)
<1>1. PICK s \in Steps : s = <<"create", "ip">> /\ s[1] = "create" /\ s[2] = "ip"
  <2>1. <<"create", "ip">> \in Steps /\ <<"create", "ip">>[1] = "create" /\ <<"create", "ip">>[2] = "ip"
    BY DEF Steps, LockRegs, CallPtrs, Ptrs
  <2>. QED BY <2>1, Zenon
<1>2. Uses(s) = {Ptr("dp"), Lk("dp")} /\ Makes(s) = {Ptr("ip"), Lk("ip")}
  BY <1>1 DEF Uses, Makes
<1>3. u = Push(s, t)
  BY <1>1 DEF On
<1>. HIDE DEF u
<1>4. Pointers(u) = (Pointers(t) \ {"ip"}) \cup {"dp"}
  <2>1. \A y \in CallPtrs : y \in Pointers(u) <=> y \in (Pointers(t) \ {"ip"}) \cup {"dp"}
    <3>. SUFFICES ASSUME NEW y \in CallPtrs
                  PROVE  y \in Pointers(u) <=> y \in (Pointers(t) \ {"ip"}) \cup {"dp"}
      OBVIOUS
    <3>1. y \in Pointers(u) <=> Ptr(y) \in {Ptr("dp"), Lk("dp")} \/ (Ptr(y) \notin {Ptr("ip"), Lk("ip")} /\ y \in Pointers(t))
      BY <1>2, <1>3, FrontNeeds, Zenon
    <3>. QED BY <3>1, Apart
  <2>. QED BY <2>1, Kinds DEF CallPtrs
<1>5. Locked(u) = (Locked(t) \ {"ip"}) \cup {"dp"}
  <2>1. \A y \in LockRegs : y \in Locked(u) <=> y \in (Locked(t) \ {"ip"}) \cup {"dp"}
    <3>. SUFFICES ASSUME NEW y \in LockRegs
                  PROVE  y \in Locked(u) <=> y \in (Locked(t) \ {"ip"}) \cup {"dp"}
      OBVIOUS
    <3>1. y \in Locked(u) <=> Lk(y) \in {Ptr("dp"), Lk("dp")} \/ (Lk(y) \notin {Ptr("ip"), Lk("ip")} /\ y \in Locked(t))
      BY <1>2, <1>3, FrontNeeds, Zenon
    <3>. QED BY <3>1, Apart
  <2>. QED BY <2>1, Kinds DEF LockRegs, CallPtrs
<1>6. Logged(u) <=> Logged(t)
  BY <1>2, <1>3, FrontNeeds, Apart
<1>7. Leaves(u) <=> Leaves(t)
  BY <1>2, <1>3, FrontNeeds, Apart
<1>8. Good(s, t) <=> /\ ~Top(t, "fileclose") /\ ~Top(t, "setcwd") /\ ~MayFail(t) /\ Pointers(t) = {"ip"} /\ Locked(t) = {"ip"} /\ Logged(t)
  BY <1>1, Kinds DEF Good, Order, Inode, Lookup, Change, Ptrs, CallPtrs
<1>9. /\ u \in Seq(Steps) /\ u # <<>> /\ Head(u) = s /\ Tail(u) = t
      /\ Code(u) <=> Good(s, t) /\ Code(t)
  BY <1>3, Front
<1>10. \A o : Top(u, o) <=> o = "create"
  BY <1>1, <1>3, Front
<1>11. OnFile(u) <=> OnFile(t)
  BY <1>1, <1>3, Front
<1>12. (Walks(u, "ip") <=> Walks(t, "ip")) /\ (Walks(u, "dp") <=> Walks(t, "dp")) /\ \A o \in Flags : Has(u, o) <=> o = "create" \/ Has(t, o)
  <2>1. Walks(u, "ip") <=> Walks(t, "ip")
    <3>1. Walks(u, "ip") <=> s \in {<<"namex", "ip">>, <<"element", "ip">>} \/ Walks(t, "ip")
      BY <1>3, Front
    <3>2. s \notin {<<"namex", "ip">>, <<"element", "ip">>}
      BY <1>1
    <3>. QED BY <3>1, <3>2
  <2>2. Walks(u, "dp") <=> Walks(t, "dp")
    <3>1. Walks(u, "dp") <=> s \in {<<"namex", "dp">>, <<"element", "dp">>} \/ Walks(t, "dp")
      BY <1>3, Front
    <3>2. s \notin {<<"namex", "dp">>, <<"element", "dp">>}
      BY <1>1
    <3>. QED BY <3>1, <3>2
  <2>3. \A o \in Flags : Has(u, o) <=> o = "create" \/ Has(t, o)
    BY <1>1, <1>3, Front DEF Flags
  <2>. QED BY <2>1, <2>2, <2>3
<1>. QED BY <1>1, <1>4, <1>5, <1>6, <1>7, <1>8, <1>9, <1>10, <1>11, <1>12, Zenon DEF u

LEMMA Op_exists ==
  ASSUME NEW t \in Seq(Steps)
  PROVE  LET u == On("exists", "ip", t) IN
         /\ u \in Seq(Steps) /\ u # <<>> /\ Head(u) = <<"exists", "ip">> /\ Tail(u) = t
         /\ Pointers(u) = Pointers(t)
         /\ Locked(u) = Locked(t)
         /\ Logged(u) <=> Logged(t)
         /\ Leaves(u) <=> Leaves(t)
         /\ Code(u) <=>
                /\ Code(t)
                /\ ~Top(t, "fileclose")
                /\ ~Top(t, "setcwd")
                /\ ~MayFail(t)
                /\ Pointers(t) = {"ip"}
                /\ Locked(t) = {"ip"}
                /\ Logged(t)
         /\ \A o : Top(u, o) <=> o = "exists"
         /\ OnFile(u) <=> OnFile(t)
         /\ (Walks(u, "ip") <=> Walks(t, "ip")) /\ (Walks(u, "dp") <=> Walks(t, "dp")) /\ \A o \in Flags : Has(u, o) <=> o = "exists" \/ Has(t, o)
<1>. DEFINE u == On("exists", "ip", t)
<1>1. PICK s \in Steps : s = <<"exists", "ip">> /\ s[1] = "exists" /\ s[2] = "ip"
  <2>1. <<"exists", "ip">> \in Steps /\ <<"exists", "ip">>[1] = "exists" /\ <<"exists", "ip">>[2] = "ip"
    BY DEF Steps, LockRegs, CallPtrs, Ptrs
  <2>. QED BY <2>1, Zenon
<1>2. Uses(s) = {} /\ Makes(s) = {}
  BY <1>1 DEF Uses, Makes
<1>3. u = Push(s, t)
  BY <1>1 DEF On
<1>. HIDE DEF u
<1>4. Pointers(u) = Pointers(t)
  <2>1. \A y \in CallPtrs : y \in Pointers(u) <=> y \in Pointers(t)
    <3>. SUFFICES ASSUME NEW y \in CallPtrs
                  PROVE  y \in Pointers(u) <=> y \in Pointers(t)
      OBVIOUS
    <3>1. y \in Pointers(u) <=> Ptr(y) \in {} \/ (Ptr(y) \notin {} /\ y \in Pointers(t))
      BY <1>2, <1>3, FrontNeeds, Zenon
    <3>. QED BY <3>1, Apart
  <2>. QED BY <2>1, SamePtrs
<1>5. Locked(u) = Locked(t)
  <2>1. \A y \in LockRegs : y \in Locked(u) <=> y \in Locked(t)
    <3>. SUFFICES ASSUME NEW y \in LockRegs
                  PROVE  y \in Locked(u) <=> y \in Locked(t)
      OBVIOUS
    <3>1. y \in Locked(u) <=> Lk(y) \in {} \/ (Lk(y) \notin {} /\ y \in Locked(t))
      BY <1>2, <1>3, FrontNeeds, Zenon
    <3>. QED BY <3>1, Apart
  <2>. QED BY <2>1, SameLocks
<1>6. Logged(u) <=> Logged(t)
  BY <1>2, <1>3, FrontNeeds, Apart
<1>7. Leaves(u) <=> Leaves(t)
  BY <1>2, <1>3, FrontNeeds, Apart
<1>8. Good(s, t) <=> /\ ~Top(t, "fileclose") /\ ~Top(t, "setcwd") /\ ~MayFail(t) /\ Pointers(t) = {"ip"} /\ Locked(t) = {"ip"} /\ Logged(t)
  BY <1>1, Kinds DEF Good, Order, Inode, Lookup, Change, Ptrs, CallPtrs
<1>9. /\ u \in Seq(Steps) /\ u # <<>> /\ Head(u) = s /\ Tail(u) = t
      /\ Code(u) <=> Good(s, t) /\ Code(t)
  BY <1>3, Front
<1>10. \A o : Top(u, o) <=> o = "exists"
  BY <1>1, <1>3, Front
<1>11. OnFile(u) <=> OnFile(t)
  BY <1>1, <1>3, Front
<1>12. (Walks(u, "ip") <=> Walks(t, "ip")) /\ (Walks(u, "dp") <=> Walks(t, "dp")) /\ \A o \in Flags : Has(u, o) <=> o = "exists" \/ Has(t, o)
  <2>1. Walks(u, "ip") <=> Walks(t, "ip")
    <3>1. Walks(u, "ip") <=> s \in {<<"namex", "ip">>, <<"element", "ip">>} \/ Walks(t, "ip")
      BY <1>3, Front
    <3>2. s \notin {<<"namex", "ip">>, <<"element", "ip">>}
      BY <1>1
    <3>. QED BY <3>1, <3>2
  <2>2. Walks(u, "dp") <=> Walks(t, "dp")
    <3>1. Walks(u, "dp") <=> s \in {<<"namex", "dp">>, <<"element", "dp">>} \/ Walks(t, "dp")
      BY <1>3, Front
    <3>2. s \notin {<<"namex", "dp">>, <<"element", "dp">>}
      BY <1>1
    <3>. QED BY <3>1, <3>2
  <2>3. \A o \in Flags : Has(u, o) <=> o = "exists" \/ Has(t, o)
    BY <1>1, <1>3, Front DEF Flags
  <2>. QED BY <2>1, <2>2, <2>3
<1>. QED BY <1>1, <1>4, <1>5, <1>6, <1>7, <1>8, <1>9, <1>10, <1>11, <1>12, Zenon DEF u

LEMMA Op_bump ==
  ASSUME NEW t \in Seq(Steps)
  PROVE  LET u == On("bump", "ip", t) IN
         /\ u \in Seq(Steps) /\ u # <<>> /\ Head(u) = <<"bump", "ip">> /\ Tail(u) = t
         /\ Pointers(u) = Pointers(t)
         /\ Locked(u) = Locked(t)
         /\ Logged(u) <=> Logged(t)
         /\ Leaves(u) <=> Leaves(t)
         /\ Code(u) <=>
                /\ Code(t)
                /\ ~Top(t, "fileclose")
                /\ ~Top(t, "setcwd")
                /\ Pointers(t) = {"ip"}
                /\ Locked(t) = {"ip"}
                /\ Logged(t)
                /\ ~Walks(t, "ip")
                /\ ~Has(t, "bump")
                /\ Fail(t) = LinkBad
         /\ \A o : Top(u, o) <=> o = "bump"
         /\ OnFile(u) <=> OnFile(t)
         /\ (Walks(u, "ip") <=> Walks(t, "ip")) /\ (Walks(u, "dp") <=> Walks(t, "dp")) /\ \A o \in Flags : Has(u, o) <=> o = "bump" \/ Has(t, o)
<1>. DEFINE u == On("bump", "ip", t)
<1>1. PICK s \in Steps : s = <<"bump", "ip">> /\ s[1] = "bump" /\ s[2] = "ip"
  <2>1. <<"bump", "ip">> \in Steps /\ <<"bump", "ip">>[1] = "bump" /\ <<"bump", "ip">>[2] = "ip"
    BY DEF Steps, LockRegs, CallPtrs, Ptrs
  <2>. QED BY <2>1, Zenon
<1>2. Uses(s) = {} /\ Makes(s) = {}
  BY <1>1 DEF Uses, Makes
<1>3. u = Push(s, t)
  BY <1>1 DEF On
<1>. HIDE DEF u
<1>4. Pointers(u) = Pointers(t)
  <2>1. \A y \in CallPtrs : y \in Pointers(u) <=> y \in Pointers(t)
    <3>. SUFFICES ASSUME NEW y \in CallPtrs
                  PROVE  y \in Pointers(u) <=> y \in Pointers(t)
      OBVIOUS
    <3>1. y \in Pointers(u) <=> Ptr(y) \in {} \/ (Ptr(y) \notin {} /\ y \in Pointers(t))
      BY <1>2, <1>3, FrontNeeds, Zenon
    <3>. QED BY <3>1, Apart
  <2>. QED BY <2>1, SamePtrs
<1>5. Locked(u) = Locked(t)
  <2>1. \A y \in LockRegs : y \in Locked(u) <=> y \in Locked(t)
    <3>. SUFFICES ASSUME NEW y \in LockRegs
                  PROVE  y \in Locked(u) <=> y \in Locked(t)
      OBVIOUS
    <3>1. y \in Locked(u) <=> Lk(y) \in {} \/ (Lk(y) \notin {} /\ y \in Locked(t))
      BY <1>2, <1>3, FrontNeeds, Zenon
    <3>. QED BY <3>1, Apart
  <2>. QED BY <2>1, SameLocks
<1>6. Logged(u) <=> Logged(t)
  BY <1>2, <1>3, FrontNeeds, Apart
<1>7. Leaves(u) <=> Leaves(t)
  BY <1>2, <1>3, FrontNeeds, Apart
<1>8. Good(s, t) <=> /\ ~Top(t, "fileclose") /\ ~Top(t, "setcwd") /\ Pointers(t) = {"ip"} /\ Locked(t) = {"ip"} /\ Logged(t) /\ ~Walks(t, "ip") /\ ~Has(t, "bump") /\ Fail(t) = LinkBad
  BY <1>1, Kinds DEF Good, Order, Inode, Lookup, Change, Ptrs, CallPtrs
<1>9. /\ u \in Seq(Steps) /\ u # <<>> /\ Head(u) = s /\ Tail(u) = t
      /\ Code(u) <=> Good(s, t) /\ Code(t)
  BY <1>3, Front
<1>10. \A o : Top(u, o) <=> o = "bump"
  BY <1>1, <1>3, Front
<1>11. OnFile(u) <=> OnFile(t)
  BY <1>1, <1>3, Front
<1>12. (Walks(u, "ip") <=> Walks(t, "ip")) /\ (Walks(u, "dp") <=> Walks(t, "dp")) /\ \A o \in Flags : Has(u, o) <=> o = "bump" \/ Has(t, o)
  <2>1. Walks(u, "ip") <=> Walks(t, "ip")
    <3>1. Walks(u, "ip") <=> s \in {<<"namex", "ip">>, <<"element", "ip">>} \/ Walks(t, "ip")
      BY <1>3, Front
    <3>2. s \notin {<<"namex", "ip">>, <<"element", "ip">>}
      BY <1>1
    <3>. QED BY <3>1, <3>2
  <2>2. Walks(u, "dp") <=> Walks(t, "dp")
    <3>1. Walks(u, "dp") <=> s \in {<<"namex", "dp">>, <<"element", "dp">>} \/ Walks(t, "dp")
      BY <1>3, Front
    <3>2. s \notin {<<"namex", "dp">>, <<"element", "dp">>}
      BY <1>1
    <3>. QED BY <3>1, <3>2
  <2>3. \A o \in Flags : Has(u, o) <=> o = "bump" \/ Has(t, o)
    BY <1>1, <1>3, Front DEF Flags
  <2>. QED BY <2>1, <2>2, <2>3
<1>. QED BY <1>1, <1>4, <1>5, <1>6, <1>7, <1>8, <1>9, <1>10, <1>11, <1>12, Zenon DEF u

LEMMA Op_mknode ==
  ASSUME NEW t \in Seq(Steps)
  PROVE  LET u == On("mknode", "ip", t) IN
         /\ u \in Seq(Steps) /\ u # <<>> /\ Head(u) = <<"mknode", "ip">> /\ Tail(u) = t
         /\ Pointers(u) = Pointers(t)
         /\ Locked(u) = Locked(t)
         /\ Logged(u) <=> Logged(t)
         /\ Leaves(u) <=> Leaves(t)
         /\ Code(u) <=>
                /\ Code(t)
                /\ ~Top(t, "fileclose")
                /\ ~Top(t, "setcwd")
                /\ {"ip", "dp"} \subseteq Locked(t)
         /\ \A o : Top(u, o) <=> o = "mknode"
         /\ OnFile(u) <=> OnFile(t)
         /\ Like(u, t)
<1>. DEFINE u == On("mknode", "ip", t)
<1>1. PICK s \in Steps : s = <<"mknode", "ip">> /\ s[1] = "mknode" /\ s[2] = "ip"
  <2>1. <<"mknode", "ip">> \in Steps /\ <<"mknode", "ip">>[1] = "mknode" /\ <<"mknode", "ip">>[2] = "ip"
    BY DEF Steps, LockRegs, CallPtrs, Ptrs
  <2>. QED BY <2>1, Zenon
<1>2. Uses(s) = {} /\ Makes(s) = {}
  BY <1>1 DEF Uses, Makes
<1>3. u = Push(s, t)
  BY <1>1 DEF On
<1>. HIDE DEF u
<1>4. Pointers(u) = Pointers(t)
  <2>1. \A y \in CallPtrs : y \in Pointers(u) <=> y \in Pointers(t)
    <3>. SUFFICES ASSUME NEW y \in CallPtrs
                  PROVE  y \in Pointers(u) <=> y \in Pointers(t)
      OBVIOUS
    <3>1. y \in Pointers(u) <=> Ptr(y) \in {} \/ (Ptr(y) \notin {} /\ y \in Pointers(t))
      BY <1>2, <1>3, FrontNeeds, Zenon
    <3>. QED BY <3>1, Apart
  <2>. QED BY <2>1, SamePtrs
<1>5. Locked(u) = Locked(t)
  <2>1. \A y \in LockRegs : y \in Locked(u) <=> y \in Locked(t)
    <3>. SUFFICES ASSUME NEW y \in LockRegs
                  PROVE  y \in Locked(u) <=> y \in Locked(t)
      OBVIOUS
    <3>1. y \in Locked(u) <=> Lk(y) \in {} \/ (Lk(y) \notin {} /\ y \in Locked(t))
      BY <1>2, <1>3, FrontNeeds, Zenon
    <3>. QED BY <3>1, Apart
  <2>. QED BY <2>1, SameLocks
<1>6. Logged(u) <=> Logged(t)
  BY <1>2, <1>3, FrontNeeds, Apart
<1>7. Leaves(u) <=> Leaves(t)
  BY <1>2, <1>3, FrontNeeds, Apart
<1>8. Good(s, t) <=> /\ ~Top(t, "fileclose") /\ ~Top(t, "setcwd") /\ {"ip", "dp"} \subseteq Locked(t)
  BY <1>1, Kinds DEF Good, Order, Inode, Lookup, Change, Ptrs, CallPtrs
<1>9. /\ u \in Seq(Steps) /\ u # <<>> /\ Head(u) = s /\ Tail(u) = t
      /\ Code(u) <=> Good(s, t) /\ Code(t)
  BY <1>3, Front
<1>10. \A o : Top(u, o) <=> o = "mknode"
  BY <1>1, <1>3, Front
<1>11. OnFile(u) <=> OnFile(t)
  BY <1>1, <1>3, Front
<1>12. Like(u, t)
  BY <1>1, <1>3, FrontLike DEF Flags
<1>. QED BY <1>1, <1>4, <1>5, <1>6, <1>7, <1>8, <1>9, <1>10, <1>11, <1>12, Zenon DEF u

LEMMA Op_entry ==
  ASSUME NEW t \in Seq(Steps)
  PROVE  LET u == On("entry", "dp", t) IN
         /\ u \in Seq(Steps) /\ u # <<>> /\ Head(u) = <<"entry", "dp">> /\ Tail(u) = t
         /\ Pointers(u) = Pointers(t)
         /\ Locked(u) = Locked(t)
         /\ Logged(u) <=> Logged(t)
         /\ Leaves(u) <=> Leaves(t)
         /\ Code(u) <=>
                /\ Code(t)
                /\ ~Top(t, "fileclose")
                /\ ~Top(t, "setcwd")
                /\ ~MayFail(t)
                /\ Pointers(t) = {"ip", "dp"}
                /\ Locked(t) = {"dp"}
                /\ Logged(t)
         /\ \A o : Top(u, o) <=> o = "entry"
         /\ OnFile(u) <=> OnFile(t)
         /\ (Walks(u, "ip") <=> Walks(t, "ip")) /\ (Walks(u, "dp") <=> Walks(t, "dp")) /\ \A o \in Flags : Has(u, o) <=> o = "entry" \/ Has(t, o)
<1>. DEFINE u == On("entry", "dp", t)
<1>1. PICK s \in Steps : s = <<"entry", "dp">> /\ s[1] = "entry" /\ s[2] = "dp"
  <2>1. <<"entry", "dp">> \in Steps /\ <<"entry", "dp">>[1] = "entry" /\ <<"entry", "dp">>[2] = "dp"
    BY DEF Steps, LockRegs, CallPtrs, Ptrs
  <2>. QED BY <2>1, Zenon
<1>2. Uses(s) = {} /\ Makes(s) = {}
  BY <1>1 DEF Uses, Makes
<1>3. u = Push(s, t)
  BY <1>1 DEF On
<1>. HIDE DEF u
<1>4. Pointers(u) = Pointers(t)
  <2>1. \A y \in CallPtrs : y \in Pointers(u) <=> y \in Pointers(t)
    <3>. SUFFICES ASSUME NEW y \in CallPtrs
                  PROVE  y \in Pointers(u) <=> y \in Pointers(t)
      OBVIOUS
    <3>1. y \in Pointers(u) <=> Ptr(y) \in {} \/ (Ptr(y) \notin {} /\ y \in Pointers(t))
      BY <1>2, <1>3, FrontNeeds, Zenon
    <3>. QED BY <3>1, Apart
  <2>. QED BY <2>1, SamePtrs
<1>5. Locked(u) = Locked(t)
  <2>1. \A y \in LockRegs : y \in Locked(u) <=> y \in Locked(t)
    <3>. SUFFICES ASSUME NEW y \in LockRegs
                  PROVE  y \in Locked(u) <=> y \in Locked(t)
      OBVIOUS
    <3>1. y \in Locked(u) <=> Lk(y) \in {} \/ (Lk(y) \notin {} /\ y \in Locked(t))
      BY <1>2, <1>3, FrontNeeds, Zenon
    <3>. QED BY <3>1, Apart
  <2>. QED BY <2>1, SameLocks
<1>6. Logged(u) <=> Logged(t)
  BY <1>2, <1>3, FrontNeeds, Apart
<1>7. Leaves(u) <=> Leaves(t)
  BY <1>2, <1>3, FrontNeeds, Apart
<1>8. Good(s, t) <=> /\ ~Top(t, "fileclose") /\ ~Top(t, "setcwd") /\ ~MayFail(t) /\ Pointers(t) = {"ip", "dp"} /\ Locked(t) = {"dp"} /\ Logged(t)
  BY <1>1, Kinds DEF Good, Order, Inode, Lookup, Change, Ptrs, CallPtrs
<1>9. /\ u \in Seq(Steps) /\ u # <<>> /\ Head(u) = s /\ Tail(u) = t
      /\ Code(u) <=> Good(s, t) /\ Code(t)
  BY <1>3, Front
<1>10. \A o : Top(u, o) <=> o = "entry"
  BY <1>1, <1>3, Front
<1>11. OnFile(u) <=> OnFile(t)
  BY <1>1, <1>3, Front
<1>12. (Walks(u, "ip") <=> Walks(t, "ip")) /\ (Walks(u, "dp") <=> Walks(t, "dp")) /\ \A o \in Flags : Has(u, o) <=> o = "entry" \/ Has(t, o)
  <2>1. Walks(u, "ip") <=> Walks(t, "ip")
    <3>1. Walks(u, "ip") <=> s \in {<<"namex", "ip">>, <<"element", "ip">>} \/ Walks(t, "ip")
      BY <1>3, Front
    <3>2. s \notin {<<"namex", "ip">>, <<"element", "ip">>}
      BY <1>1
    <3>. QED BY <3>1, <3>2
  <2>2. Walks(u, "dp") <=> Walks(t, "dp")
    <3>1. Walks(u, "dp") <=> s \in {<<"namex", "dp">>, <<"element", "dp">>} \/ Walks(t, "dp")
      BY <1>3, Front
    <3>2. s \notin {<<"namex", "dp">>, <<"element", "dp">>}
      BY <1>1
    <3>. QED BY <3>1, <3>2
  <2>3. \A o \in Flags : Has(u, o) <=> o = "entry" \/ Has(t, o)
    BY <1>1, <1>3, Front DEF Flags
  <2>. QED BY <2>1, <2>2, <2>3
<1>. QED BY <1>1, <1>4, <1>5, <1>6, <1>7, <1>8, <1>9, <1>10, <1>11, <1>12, Zenon DEF u

LEMMA Op_lookup ==
  ASSUME NEW t \in Seq(Steps)
  PROVE  LET u == On("lookup", "ip", t) IN
         /\ u \in Seq(Steps) /\ u # <<>> /\ Head(u) = <<"lookup", "ip">> /\ Tail(u) = t
         /\ Pointers(u) = Pointers(t) \ {"ip"}
         /\ Locked(u) = Locked(t)
         /\ Logged(u) <=> Logged(t)
         /\ Leaves(u) <=> Leaves(t)
         /\ Code(u) <=>
                /\ Code(t)
                /\ ~Top(t, "fileclose")
                /\ ~Top(t, "setcwd")
                /\ Pointers(t) = {"ip", "dp"}
                /\ Locked(t) = {"dp"}
                /\ Logged(t)
         /\ \A o : Top(u, o) <=> o = "lookup"
         /\ OnFile(u) <=> OnFile(t)
         /\ Like(u, t)
<1>. DEFINE u == On("lookup", "ip", t)
<1>1. PICK s \in Steps : s = <<"lookup", "ip">> /\ s[1] = "lookup" /\ s[2] = "ip"
  <2>1. <<"lookup", "ip">> \in Steps /\ <<"lookup", "ip">>[1] = "lookup" /\ <<"lookup", "ip">>[2] = "ip"
    BY DEF Steps, LockRegs, CallPtrs, Ptrs
  <2>. QED BY <2>1, Zenon
<1>2. Uses(s) = {} /\ Makes(s) = {Ptr("ip")}
  BY <1>1 DEF Uses, Makes
<1>3. u = Push(s, t)
  BY <1>1 DEF On
<1>. HIDE DEF u
<1>4. Pointers(u) = Pointers(t) \ {"ip"}
  <2>1. \A y \in CallPtrs : y \in Pointers(u) <=> y \in Pointers(t) \ {"ip"}
    <3>. SUFFICES ASSUME NEW y \in CallPtrs
                  PROVE  y \in Pointers(u) <=> y \in Pointers(t) \ {"ip"}
      OBVIOUS
    <3>1. y \in Pointers(u) <=> Ptr(y) \in {} \/ (Ptr(y) \notin {Ptr("ip")} /\ y \in Pointers(t))
      BY <1>2, <1>3, FrontNeeds, Zenon
    <3>. QED BY <3>1, Apart
  <2>. QED BY <2>1, Kinds DEF CallPtrs
<1>5. Locked(u) = Locked(t)
  <2>1. \A y \in LockRegs : y \in Locked(u) <=> y \in Locked(t)
    <3>. SUFFICES ASSUME NEW y \in LockRegs
                  PROVE  y \in Locked(u) <=> y \in Locked(t)
      OBVIOUS
    <3>1. y \in Locked(u) <=> Lk(y) \in {} \/ (Lk(y) \notin {Ptr("ip")} /\ y \in Locked(t))
      BY <1>2, <1>3, FrontNeeds, Zenon
    <3>. QED BY <3>1, Apart
  <2>. QED BY <2>1, SameLocks
<1>6. Logged(u) <=> Logged(t)
  BY <1>2, <1>3, FrontNeeds, Apart
<1>7. Leaves(u) <=> Leaves(t)
  BY <1>2, <1>3, FrontNeeds, Apart
<1>8. Good(s, t) <=> /\ ~Top(t, "fileclose") /\ ~Top(t, "setcwd") /\ Pointers(t) = {"ip", "dp"} /\ Locked(t) = {"dp"} /\ Logged(t)
  BY <1>1, Kinds DEF Good, Order, Inode, Lookup, Change, Ptrs, CallPtrs
<1>9. /\ u \in Seq(Steps) /\ u # <<>> /\ Head(u) = s /\ Tail(u) = t
      /\ Code(u) <=> Good(s, t) /\ Code(t)
  BY <1>3, Front
<1>10. \A o : Top(u, o) <=> o = "lookup"
  BY <1>1, <1>3, Front
<1>11. OnFile(u) <=> OnFile(t)
  BY <1>1, <1>3, Front
<1>12. Like(u, t)
  BY <1>1, <1>3, FrontLike DEF Flags
<1>. QED BY <1>1, <1>4, <1>5, <1>6, <1>7, <1>8, <1>9, <1>10, <1>11, <1>12, Zenon DEF u

LEMMA Op_remove ==
  ASSUME NEW t \in Seq(Steps)
  PROVE  LET u == On("remove", "ip", t) IN
         /\ u \in Seq(Steps) /\ u # <<>> /\ Head(u) = <<"remove", "ip">> /\ Tail(u) = t
         /\ Pointers(u) = Pointers(t)
         /\ Locked(u) = Locked(t)
         /\ Logged(u) <=> Logged(t)
         /\ Leaves(u) <=> Leaves(t)
         /\ Code(u) <=>
                /\ Code(t)
                /\ ~Top(t, "fileclose")
                /\ ~Top(t, "setcwd")
                /\ Pointers(t) = {"ip", "dp"}
                /\ Locked(t) = {"ip", "dp"}
                /\ Logged(t)
         /\ \A o : Top(u, o) <=> o = "remove"
         /\ OnFile(u) <=> OnFile(t)
         /\ Like(u, t)
<1>. DEFINE u == On("remove", "ip", t)
<1>1. PICK s \in Steps : s = <<"remove", "ip">> /\ s[1] = "remove" /\ s[2] = "ip"
  <2>1. <<"remove", "ip">> \in Steps /\ <<"remove", "ip">>[1] = "remove" /\ <<"remove", "ip">>[2] = "ip"
    BY DEF Steps, LockRegs, CallPtrs, Ptrs
  <2>. QED BY <2>1, Zenon
<1>2. Uses(s) = {} /\ Makes(s) = {}
  BY <1>1 DEF Uses, Makes
<1>3. u = Push(s, t)
  BY <1>1 DEF On
<1>. HIDE DEF u
<1>4. Pointers(u) = Pointers(t)
  <2>1. \A y \in CallPtrs : y \in Pointers(u) <=> y \in Pointers(t)
    <3>. SUFFICES ASSUME NEW y \in CallPtrs
                  PROVE  y \in Pointers(u) <=> y \in Pointers(t)
      OBVIOUS
    <3>1. y \in Pointers(u) <=> Ptr(y) \in {} \/ (Ptr(y) \notin {} /\ y \in Pointers(t))
      BY <1>2, <1>3, FrontNeeds, Zenon
    <3>. QED BY <3>1, Apart
  <2>. QED BY <2>1, SamePtrs
<1>5. Locked(u) = Locked(t)
  <2>1. \A y \in LockRegs : y \in Locked(u) <=> y \in Locked(t)
    <3>. SUFFICES ASSUME NEW y \in LockRegs
                  PROVE  y \in Locked(u) <=> y \in Locked(t)
      OBVIOUS
    <3>1. y \in Locked(u) <=> Lk(y) \in {} \/ (Lk(y) \notin {} /\ y \in Locked(t))
      BY <1>2, <1>3, FrontNeeds, Zenon
    <3>. QED BY <3>1, Apart
  <2>. QED BY <2>1, SameLocks
<1>6. Logged(u) <=> Logged(t)
  BY <1>2, <1>3, FrontNeeds, Apart
<1>7. Leaves(u) <=> Leaves(t)
  BY <1>2, <1>3, FrontNeeds, Apart
<1>8. Good(s, t) <=> /\ ~Top(t, "fileclose") /\ ~Top(t, "setcwd") /\ Pointers(t) = {"ip", "dp"} /\ Locked(t) = {"ip", "dp"} /\ Logged(t)
  BY <1>1, Kinds DEF Good, Order, Inode, Lookup, Change, Ptrs, CallPtrs
<1>9. /\ u \in Seq(Steps) /\ u # <<>> /\ Head(u) = s /\ Tail(u) = t
      /\ Code(u) <=> Good(s, t) /\ Code(t)
  BY <1>3, Front
<1>10. \A o : Top(u, o) <=> o = "remove"
  BY <1>1, <1>3, Front
<1>11. OnFile(u) <=> OnFile(t)
  BY <1>1, <1>3, Front
<1>12. Like(u, t)
  BY <1>1, <1>3, FrontLike DEF Flags
<1>. QED BY <1>1, <1>4, <1>5, <1>6, <1>7, <1>8, <1>9, <1>10, <1>11, <1>12, Zenon DEF u

LEMMA Op_drop ==
  ASSUME NEW t \in Seq(Steps)
  PROVE  LET u == On("drop", "ip", t) IN
         /\ u \in Seq(Steps) /\ u # <<>> /\ Head(u) = <<"drop", "ip">> /\ Tail(u) = t
         /\ Pointers(u) = Pointers(t)
         /\ Locked(u) = Locked(t)
         /\ Logged(u) <=> Logged(t)
         /\ Leaves(u) <=> Leaves(t)
         /\ Code(u) <=>
                /\ Code(t)
                /\ ~Top(t, "fileclose")
                /\ ~Top(t, "setcwd")
                /\ "ip" \in Locked(t)
         /\ \A o : Top(u, o) <=> o = "drop"
         /\ OnFile(u) <=> OnFile(t)
         /\ Like(u, t)
<1>. DEFINE u == On("drop", "ip", t)
<1>1. PICK s \in Steps : s = <<"drop", "ip">> /\ s[1] = "drop" /\ s[2] = "ip"
  <2>1. <<"drop", "ip">> \in Steps /\ <<"drop", "ip">>[1] = "drop" /\ <<"drop", "ip">>[2] = "ip"
    BY DEF Steps, LockRegs, CallPtrs, Ptrs
  <2>. QED BY <2>1, Zenon
<1>2. Uses(s) = {} /\ Makes(s) = {}
  BY <1>1 DEF Uses, Makes
<1>3. u = Push(s, t)
  BY <1>1 DEF On
<1>. HIDE DEF u
<1>4. Pointers(u) = Pointers(t)
  <2>1. \A y \in CallPtrs : y \in Pointers(u) <=> y \in Pointers(t)
    <3>. SUFFICES ASSUME NEW y \in CallPtrs
                  PROVE  y \in Pointers(u) <=> y \in Pointers(t)
      OBVIOUS
    <3>1. y \in Pointers(u) <=> Ptr(y) \in {} \/ (Ptr(y) \notin {} /\ y \in Pointers(t))
      BY <1>2, <1>3, FrontNeeds, Zenon
    <3>. QED BY <3>1, Apart
  <2>. QED BY <2>1, SamePtrs
<1>5. Locked(u) = Locked(t)
  <2>1. \A y \in LockRegs : y \in Locked(u) <=> y \in Locked(t)
    <3>. SUFFICES ASSUME NEW y \in LockRegs
                  PROVE  y \in Locked(u) <=> y \in Locked(t)
      OBVIOUS
    <3>1. y \in Locked(u) <=> Lk(y) \in {} \/ (Lk(y) \notin {} /\ y \in Locked(t))
      BY <1>2, <1>3, FrontNeeds, Zenon
    <3>. QED BY <3>1, Apart
  <2>. QED BY <2>1, SameLocks
<1>6. Logged(u) <=> Logged(t)
  BY <1>2, <1>3, FrontNeeds, Apart
<1>7. Leaves(u) <=> Leaves(t)
  BY <1>2, <1>3, FrontNeeds, Apart
<1>8. Good(s, t) <=> /\ ~Top(t, "fileclose") /\ ~Top(t, "setcwd") /\ "ip" \in Locked(t)
  BY <1>1, Kinds DEF Good, Order, Inode, Lookup, Change, Ptrs, CallPtrs
<1>9. /\ u \in Seq(Steps) /\ u # <<>> /\ Head(u) = s /\ Tail(u) = t
      /\ Code(u) <=> Good(s, t) /\ Code(t)
  BY <1>3, Front
<1>10. \A o : Top(u, o) <=> o = "drop"
  BY <1>1, <1>3, Front
<1>11. OnFile(u) <=> OnFile(t)
  BY <1>1, <1>3, Front
<1>12. Like(u, t)
  BY <1>1, <1>3, FrontLike DEF Flags
<1>. QED BY <1>1, <1>4, <1>5, <1>6, <1>7, <1>8, <1>9, <1>10, <1>11, <1>12, Zenon DEF u

LEMMA Op_open ==
  ASSUME NEW t \in Seq(Steps)
  PROVE  LET u == On("open", "ip", t) IN
         /\ u \in Seq(Steps) /\ u # <<>> /\ Head(u) = <<"open", "ip">> /\ Tail(u) = t
         /\ Pointers(u) = Pointers(t) \cup {"ip"}
         /\ Locked(u) = Locked(t) \cup {"ip"}
         /\ Logged(u) <=> Logged(t)
         /\ Leaves(u) <=> Leaves(t)
         /\ Code(u) <=>
                /\ Code(t)
                /\ ~Top(t, "fileclose")
                /\ ~Top(t, "setcwd")
                /\ t = <<>>
         /\ \A o : Top(u, o) <=> o = "open"
         /\ OnFile(u) <=> OnFile(t)
         /\ Like(u, t)
<1>. DEFINE u == On("open", "ip", t)
<1>1. PICK s \in Steps : s = <<"open", "ip">> /\ s[1] = "open" /\ s[2] = "ip"
  <2>1. <<"open", "ip">> \in Steps /\ <<"open", "ip">>[1] = "open" /\ <<"open", "ip">>[2] = "ip"
    BY DEF Steps, LockRegs, CallPtrs, Ptrs
  <2>. QED BY <2>1, Zenon
<1>2. Uses(s) = {Ptr("ip"), Lk("ip")} /\ Makes(s) = {}
  BY <1>1 DEF Uses, Makes
<1>3. u = Push(s, t)
  BY <1>1 DEF On
<1>. HIDE DEF u
<1>4. Pointers(u) = Pointers(t) \cup {"ip"}
  <2>1. \A y \in CallPtrs : y \in Pointers(u) <=> y \in Pointers(t) \cup {"ip"}
    <3>. SUFFICES ASSUME NEW y \in CallPtrs
                  PROVE  y \in Pointers(u) <=> y \in Pointers(t) \cup {"ip"}
      OBVIOUS
    <3>1. y \in Pointers(u) <=> Ptr(y) \in {Ptr("ip"), Lk("ip")} \/ (Ptr(y) \notin {} /\ y \in Pointers(t))
      BY <1>2, <1>3, FrontNeeds, Zenon
    <3>. QED BY <3>1, Apart
  <2>. QED BY <2>1, Kinds DEF CallPtrs
<1>5. Locked(u) = Locked(t) \cup {"ip"}
  <2>1. \A y \in LockRegs : y \in Locked(u) <=> y \in Locked(t) \cup {"ip"}
    <3>. SUFFICES ASSUME NEW y \in LockRegs
                  PROVE  y \in Locked(u) <=> y \in Locked(t) \cup {"ip"}
      OBVIOUS
    <3>1. y \in Locked(u) <=> Lk(y) \in {Ptr("ip"), Lk("ip")} \/ (Lk(y) \notin {} /\ y \in Locked(t))
      BY <1>2, <1>3, FrontNeeds, Zenon
    <3>. QED BY <3>1, Apart
  <2>. QED BY <2>1, Kinds DEF LockRegs, CallPtrs
<1>6. Logged(u) <=> Logged(t)
  BY <1>2, <1>3, FrontNeeds, Apart
<1>7. Leaves(u) <=> Leaves(t)
  BY <1>2, <1>3, FrontNeeds, Apart
<1>8. Good(s, t) <=> /\ ~Top(t, "fileclose") /\ ~Top(t, "setcwd") /\ t = <<>>
  BY <1>1, Kinds DEF Good, Order, Inode, Lookup, Change, Ptrs, CallPtrs
<1>9. /\ u \in Seq(Steps) /\ u # <<>> /\ Head(u) = s /\ Tail(u) = t
      /\ Code(u) <=> Good(s, t) /\ Code(t)
  BY <1>3, Front
<1>10. \A o : Top(u, o) <=> o = "open"
  BY <1>1, <1>3, Front
<1>11. OnFile(u) <=> OnFile(t)
  BY <1>1, <1>3, Front
<1>12. Like(u, t)
  BY <1>1, <1>3, FrontLike DEF Flags
<1>. QED BY <1>1, <1>4, <1>5, <1>6, <1>7, <1>8, <1>9, <1>10, <1>11, <1>12, Zenon DEF u

LEMMA Op_chdir ==
  ASSUME NEW t \in Seq(Steps)
  PROVE  LET u == On("chdir", "ip", t) IN
         /\ u \in Seq(Steps) /\ u # <<>> /\ Head(u) = <<"chdir", "ip">> /\ Tail(u) = t
         /\ Pointers(u) = Pointers(t) \cup {"ip"}
         /\ Locked(u) = Locked(t) \cup {"ip"}
         /\ Logged(u) <=> Logged(t)
         /\ Leaves(u) <=> Leaves(t)
         /\ Code(u) <=>
                /\ Code(t)
                /\ ~Top(t, "fileclose")
                /\ ~Top(t, "setcwd")
                /\ t = <<>>
         /\ \A o : Top(u, o) <=> o = "chdir"
         /\ OnFile(u) <=> OnFile(t)
         /\ Like(u, t)
<1>. DEFINE u == On("chdir", "ip", t)
<1>1. PICK s \in Steps : s = <<"chdir", "ip">> /\ s[1] = "chdir" /\ s[2] = "ip"
  <2>1. <<"chdir", "ip">> \in Steps /\ <<"chdir", "ip">>[1] = "chdir" /\ <<"chdir", "ip">>[2] = "ip"
    BY DEF Steps, LockRegs, CallPtrs, Ptrs
  <2>. QED BY <2>1, Zenon
<1>2. Uses(s) = {Ptr("ip"), Lk("ip")} /\ Makes(s) = {}
  BY <1>1 DEF Uses, Makes
<1>3. u = Push(s, t)
  BY <1>1 DEF On
<1>. HIDE DEF u
<1>4. Pointers(u) = Pointers(t) \cup {"ip"}
  <2>1. \A y \in CallPtrs : y \in Pointers(u) <=> y \in Pointers(t) \cup {"ip"}
    <3>. SUFFICES ASSUME NEW y \in CallPtrs
                  PROVE  y \in Pointers(u) <=> y \in Pointers(t) \cup {"ip"}
      OBVIOUS
    <3>1. y \in Pointers(u) <=> Ptr(y) \in {Ptr("ip"), Lk("ip")} \/ (Ptr(y) \notin {} /\ y \in Pointers(t))
      BY <1>2, <1>3, FrontNeeds, Zenon
    <3>. QED BY <3>1, Apart
  <2>. QED BY <2>1, Kinds DEF CallPtrs
<1>5. Locked(u) = Locked(t) \cup {"ip"}
  <2>1. \A y \in LockRegs : y \in Locked(u) <=> y \in Locked(t) \cup {"ip"}
    <3>. SUFFICES ASSUME NEW y \in LockRegs
                  PROVE  y \in Locked(u) <=> y \in Locked(t) \cup {"ip"}
      OBVIOUS
    <3>1. y \in Locked(u) <=> Lk(y) \in {Ptr("ip"), Lk("ip")} \/ (Lk(y) \notin {} /\ y \in Locked(t))
      BY <1>2, <1>3, FrontNeeds, Zenon
    <3>. QED BY <3>1, Apart
  <2>. QED BY <2>1, Kinds DEF LockRegs, CallPtrs
<1>6. Logged(u) <=> Logged(t)
  BY <1>2, <1>3, FrontNeeds, Apart
<1>7. Leaves(u) <=> Leaves(t)
  BY <1>2, <1>3, FrontNeeds, Apart
<1>8. Good(s, t) <=> /\ ~Top(t, "fileclose") /\ ~Top(t, "setcwd") /\ t = <<>>
  BY <1>1, Kinds DEF Good, Order, Inode, Lookup, Change, Ptrs, CallPtrs
<1>9. /\ u \in Seq(Steps) /\ u # <<>> /\ Head(u) = s /\ Tail(u) = t
      /\ Code(u) <=> Good(s, t) /\ Code(t)
  BY <1>3, Front
<1>10. \A o : Top(u, o) <=> o = "chdir"
  BY <1>1, <1>3, Front
<1>11. OnFile(u) <=> OnFile(t)
  BY <1>1, <1>3, Front
<1>12. Like(u, t)
  BY <1>1, <1>3, FrontLike DEF Flags
<1>. QED BY <1>1, <1>4, <1>5, <1>6, <1>7, <1>8, <1>9, <1>10, <1>11, <1>12, Zenon DEF u

LEMMA Op_setcwd ==
  ASSUME NEW t \in Seq(Steps)
  PROVE  LET u == On("setcwd", "ip", t) IN
         /\ u \in Seq(Steps) /\ u # <<>> /\ Head(u) = <<"setcwd", "ip">> /\ Tail(u) = t
         /\ Pointers(u) = Pointers(t) \cup {"ip"}
         /\ Locked(u) = Locked(t)
         /\ Logged(u) <=> Logged(t)
         /\ Leaves(u) <=> Leaves(t)
         /\ Code(u) <=>
                /\ Code(t)
                /\ ~Top(t, "fileclose")
                /\ ~Top(t, "setcwd")
                /\ t = <<>>
         /\ \A o : Top(u, o) <=> o = "setcwd"
         /\ OnFile(u) <=> OnFile(t)
         /\ (Walks(u, "ip") <=> Walks(t, "ip")) /\ (Walks(u, "dp") <=> Walks(t, "dp")) /\ \A o \in Flags : Has(u, o) <=> o = "setcwd" \/ Has(t, o)
<1>. DEFINE u == On("setcwd", "ip", t)
<1>1. PICK s \in Steps : s = <<"setcwd", "ip">> /\ s[1] = "setcwd" /\ s[2] = "ip"
  <2>1. <<"setcwd", "ip">> \in Steps /\ <<"setcwd", "ip">>[1] = "setcwd" /\ <<"setcwd", "ip">>[2] = "ip"
    BY DEF Steps, LockRegs, CallPtrs, Ptrs
  <2>. QED BY <2>1, Zenon
<1>2. Uses(s) = {Ptr("ip")} /\ Makes(s) = {}
  BY <1>1 DEF Uses, Makes
<1>3. u = Push(s, t)
  BY <1>1 DEF On
<1>. HIDE DEF u
<1>4. Pointers(u) = Pointers(t) \cup {"ip"}
  <2>1. \A y \in CallPtrs : y \in Pointers(u) <=> y \in Pointers(t) \cup {"ip"}
    <3>. SUFFICES ASSUME NEW y \in CallPtrs
                  PROVE  y \in Pointers(u) <=> y \in Pointers(t) \cup {"ip"}
      OBVIOUS
    <3>1. y \in Pointers(u) <=> Ptr(y) \in {Ptr("ip")} \/ (Ptr(y) \notin {} /\ y \in Pointers(t))
      BY <1>2, <1>3, FrontNeeds, Zenon
    <3>. QED BY <3>1, Apart
  <2>. QED BY <2>1, Kinds DEF CallPtrs
<1>5. Locked(u) = Locked(t)
  <2>1. \A y \in LockRegs : y \in Locked(u) <=> y \in Locked(t)
    <3>. SUFFICES ASSUME NEW y \in LockRegs
                  PROVE  y \in Locked(u) <=> y \in Locked(t)
      OBVIOUS
    <3>1. y \in Locked(u) <=> Lk(y) \in {Ptr("ip")} \/ (Lk(y) \notin {} /\ y \in Locked(t))
      BY <1>2, <1>3, FrontNeeds, Zenon
    <3>. QED BY <3>1, Apart
  <2>. QED BY <2>1, SameLocks
<1>6. Logged(u) <=> Logged(t)
  BY <1>2, <1>3, FrontNeeds, Apart
<1>7. Leaves(u) <=> Leaves(t)
  BY <1>2, <1>3, FrontNeeds, Apart
<1>8. Good(s, t) <=> /\ ~Top(t, "fileclose") /\ ~Top(t, "setcwd") /\ t = <<>>
  BY <1>1, Kinds DEF Good, Order, Inode, Lookup, Change, Ptrs, CallPtrs
<1>9. /\ u \in Seq(Steps) /\ u # <<>> /\ Head(u) = s /\ Tail(u) = t
      /\ Code(u) <=> Good(s, t) /\ Code(t)
  BY <1>3, Front
<1>10. \A o : Top(u, o) <=> o = "setcwd"
  BY <1>1, <1>3, Front
<1>11. OnFile(u) <=> OnFile(t)
  BY <1>1, <1>3, Front
<1>12. (Walks(u, "ip") <=> Walks(t, "ip")) /\ (Walks(u, "dp") <=> Walks(t, "dp")) /\ \A o \in Flags : Has(u, o) <=> o = "setcwd" \/ Has(t, o)
  <2>1. Walks(u, "ip") <=> Walks(t, "ip")
    <3>1. Walks(u, "ip") <=> s \in {<<"namex", "ip">>, <<"element", "ip">>} \/ Walks(t, "ip")
      BY <1>3, Front
    <3>2. s \notin {<<"namex", "ip">>, <<"element", "ip">>}
      BY <1>1
    <3>. QED BY <3>1, <3>2
  <2>2. Walks(u, "dp") <=> Walks(t, "dp")
    <3>1. Walks(u, "dp") <=> s \in {<<"namex", "dp">>, <<"element", "dp">>} \/ Walks(t, "dp")
      BY <1>3, Front
    <3>2. s \notin {<<"namex", "dp">>, <<"element", "dp">>}
      BY <1>1
    <3>. QED BY <3>1, <3>2
  <2>3. \A o \in Flags : Has(u, o) <=> o = "setcwd" \/ Has(t, o)
    BY <1>1, <1>3, Front DEF Flags
  <2>. QED BY <2>1, <2>2, <2>3
<1>. QED BY <1>1, <1>4, <1>5, <1>6, <1>7, <1>8, <1>9, <1>10, <1>11, <1>12, Zenon DEF u

LEMMA Op_fileclose ==
  ASSUME NEW x \in 1 .. NOFILE, NEW t \in Seq(Steps)
  PROVE  LET u == On("fileclose", x, t) IN
         /\ u \in Seq(Steps) /\ u # <<>> /\ Head(u) = <<"fileclose", x>> /\ Tail(u) = t
         /\ Pointers(u) = Pointers(t)
         /\ Locked(u) = Locked(t)
         /\ Logged(u) <=> Logged(t)
         /\ Leaves(u) <=> Leaves(t)
         /\ Code(u) <=>
                /\ Code(t)
                /\ ~Top(t, "fileclose")
                /\ ~Top(t, "setcwd")
                /\ t \in {<<>>, ExitEnd}
         /\ \A o : Top(u, o) <=> o = "fileclose"
         /\ OnFile(u) <=> OnFile(t)
         /\ Like(u, t)
<1>. DEFINE u == On("fileclose", x, t)
<1>1. PICK s \in Steps : s = <<"fileclose", x>> /\ s[1] = "fileclose" /\ s[2] = x
  <2>1. <<"fileclose", x>> \in Steps /\ <<"fileclose", x>>[1] = "fileclose" /\ <<"fileclose", x>>[2] = x
    BY DEF Steps, LockRegs, CallPtrs, Ptrs
  <2>. QED BY <2>1, Zenon
<1>2. Uses(s) = {} /\ Makes(s) = {}
  BY <1>1 DEF Uses, Makes
<1>3. u = Push(s, t)
  BY <1>1 DEF On
<1>. HIDE DEF u
<1>4. Pointers(u) = Pointers(t)
  <2>1. \A y \in CallPtrs : y \in Pointers(u) <=> y \in Pointers(t)
    <3>. SUFFICES ASSUME NEW y \in CallPtrs
                  PROVE  y \in Pointers(u) <=> y \in Pointers(t)
      OBVIOUS
    <3>1. y \in Pointers(u) <=> Ptr(y) \in {} \/ (Ptr(y) \notin {} /\ y \in Pointers(t))
      BY <1>2, <1>3, FrontNeeds, Zenon
    <3>. QED BY <3>1, Apart
  <2>. QED BY <2>1, SamePtrs
<1>5. Locked(u) = Locked(t)
  <2>1. \A y \in LockRegs : y \in Locked(u) <=> y \in Locked(t)
    <3>. SUFFICES ASSUME NEW y \in LockRegs
                  PROVE  y \in Locked(u) <=> y \in Locked(t)
      OBVIOUS
    <3>1. y \in Locked(u) <=> Lk(y) \in {} \/ (Lk(y) \notin {} /\ y \in Locked(t))
      BY <1>2, <1>3, FrontNeeds, Zenon
    <3>. QED BY <3>1, Apart
  <2>. QED BY <2>1, SameLocks
<1>6. Logged(u) <=> Logged(t)
  BY <1>2, <1>3, FrontNeeds, Apart
<1>7. Leaves(u) <=> Leaves(t)
  BY <1>2, <1>3, FrontNeeds, Apart
<1>8. Good(s, t) <=> /\ ~Top(t, "fileclose") /\ ~Top(t, "setcwd") /\ t \in {<<>>, ExitEnd}
  BY <1>1, Kinds DEF Good, Order, Inode, Lookup, Change, Ptrs, CallPtrs
<1>9. /\ u \in Seq(Steps) /\ u # <<>> /\ Head(u) = s /\ Tail(u) = t
      /\ Code(u) <=> Good(s, t) /\ Code(t)
  BY <1>3, Front
<1>10. \A o : Top(u, o) <=> o = "fileclose"
  BY <1>1, <1>3, Front
<1>11. OnFile(u) <=> OnFile(t)
  BY <1>1, <1>3, Front
<1>12. Like(u, t)
  BY <1>1, <1>3, FrontLike DEF Flags
<1>. QED BY <1>1, <1>4, <1>5, <1>6, <1>7, <1>8, <1>9, <1>10, <1>11, <1>12, Zenon DEF u

LEMMA Op_closeall ==
  ASSUME NEW t \in Seq(Steps)
  PROVE  LET u == On("closeall", "ip", t) IN
         /\ u \in Seq(Steps) /\ u # <<>> /\ Head(u) = <<"closeall", "ip">> /\ Tail(u) = t
         /\ Pointers(u) = Pointers(t)
         /\ Locked(u) = Locked(t)
         /\ Logged(u) <=> Logged(t)
         /\ ~Leaves(u)
         /\ Code(u) <=>
                /\ Code(t)
                /\ ~Top(t, "fileclose")
                /\ ~Top(t, "setcwd")
                /\ t = PutCwd
         /\ \A o : Top(u, o) <=> o = "closeall"
         /\ OnFile(u) <=> OnFile(t)
         /\ Like(u, t)
<1>. DEFINE u == On("closeall", "ip", t)
<1>1. PICK s \in Steps : s = <<"closeall", "ip">> /\ s[1] = "closeall" /\ s[2] = "ip"
  <2>1. <<"closeall", "ip">> \in Steps /\ <<"closeall", "ip">>[1] = "closeall" /\ <<"closeall", "ip">>[2] = "ip"
    BY DEF Steps, LockRegs, CallPtrs, Ptrs
  <2>. QED BY <2>1, Zenon
<1>2. Uses(s) = {} /\ Makes(s) = {Dir}
  BY <1>1 DEF Uses, Makes
<1>3. u = Push(s, t)
  BY <1>1 DEF On
<1>. HIDE DEF u
<1>4. Pointers(u) = Pointers(t)
  <2>1. \A y \in CallPtrs : y \in Pointers(u) <=> y \in Pointers(t)
    <3>. SUFFICES ASSUME NEW y \in CallPtrs
                  PROVE  y \in Pointers(u) <=> y \in Pointers(t)
      OBVIOUS
    <3>1. y \in Pointers(u) <=> Ptr(y) \in {} \/ (Ptr(y) \notin {Dir} /\ y \in Pointers(t))
      BY <1>2, <1>3, FrontNeeds, Zenon
    <3>. QED BY <3>1, Apart
  <2>. QED BY <2>1, SamePtrs
<1>5. Locked(u) = Locked(t)
  <2>1. \A y \in LockRegs : y \in Locked(u) <=> y \in Locked(t)
    <3>. SUFFICES ASSUME NEW y \in LockRegs
                  PROVE  y \in Locked(u) <=> y \in Locked(t)
      OBVIOUS
    <3>1. y \in Locked(u) <=> Lk(y) \in {} \/ (Lk(y) \notin {Dir} /\ y \in Locked(t))
      BY <1>2, <1>3, FrontNeeds, Zenon
    <3>. QED BY <3>1, Apart
  <2>. QED BY <2>1, SameLocks
<1>6. Logged(u) <=> Logged(t)
  BY <1>2, <1>3, FrontNeeds, Apart
<1>7. ~Leaves(u)
  BY <1>2, <1>3, FrontNeeds, Apart
<1>8. Good(s, t) <=> /\ ~Top(t, "fileclose") /\ ~Top(t, "setcwd") /\ t = PutCwd
  BY <1>1, Kinds DEF Good, Order, Inode, Lookup, Change, Ptrs, CallPtrs
<1>9. /\ u \in Seq(Steps) /\ u # <<>> /\ Head(u) = s /\ Tail(u) = t
      /\ Code(u) <=> Good(s, t) /\ Code(t)
  BY <1>3, Front
<1>10. \A o : Top(u, o) <=> o = "closeall"
  BY <1>1, <1>3, Front
<1>11. OnFile(u) <=> OnFile(t)
  BY <1>1, <1>3, Front
<1>12. Like(u, t)
  BY <1>1, <1>3, FrontLike DEF Flags
<1>. QED BY <1>1, <1>4, <1>5, <1>6, <1>7, <1>8, <1>9, <1>10, <1>11, <1>12, Zenon DEF u

LEMMA Op_readi ==
  ASSUME NEW t \in Seq(Steps)
  PROVE  LET u == On("readi", "fip", t) IN
         /\ u \in Seq(Steps) /\ u # <<>> /\ Head(u) = <<"readi", "fip">> /\ Tail(u) = t
         /\ Pointers(u) = Pointers(t)
         /\ Locked(u) = Locked(t)
         /\ Logged(u) <=> Logged(t)
         /\ Leaves(u) <=> Leaves(t)
         /\ Code(u) <=>
                /\ Code(t)
                /\ ~Top(t, "fileclose")
                /\ ~Top(t, "setcwd")
                /\ "fip" \in Locked(t)
         /\ \A o : Top(u, o) <=> o = "readi"
         /\ OnFile(u)
         /\ Like(u, t)
<1>. DEFINE u == On("readi", "fip", t)
<1>1. PICK s \in Steps : s = <<"readi", "fip">> /\ s[1] = "readi" /\ s[2] = "fip"
  <2>1. <<"readi", "fip">> \in Steps /\ <<"readi", "fip">>[1] = "readi" /\ <<"readi", "fip">>[2] = "fip"
    BY DEF Steps, LockRegs, CallPtrs, Ptrs
  <2>. QED BY <2>1, Zenon
<1>2. Uses(s) = {} /\ Makes(s) = {}
  BY <1>1 DEF Uses, Makes
<1>3. u = Push(s, t)
  BY <1>1 DEF On
<1>. HIDE DEF u
<1>4. Pointers(u) = Pointers(t)
  <2>1. \A y \in CallPtrs : y \in Pointers(u) <=> y \in Pointers(t)
    <3>. SUFFICES ASSUME NEW y \in CallPtrs
                  PROVE  y \in Pointers(u) <=> y \in Pointers(t)
      OBVIOUS
    <3>1. y \in Pointers(u) <=> Ptr(y) \in {} \/ (Ptr(y) \notin {} /\ y \in Pointers(t))
      BY <1>2, <1>3, FrontNeeds, Zenon
    <3>. QED BY <3>1, Apart
  <2>. QED BY <2>1, SamePtrs
<1>5. Locked(u) = Locked(t)
  <2>1. \A y \in LockRegs : y \in Locked(u) <=> y \in Locked(t)
    <3>. SUFFICES ASSUME NEW y \in LockRegs
                  PROVE  y \in Locked(u) <=> y \in Locked(t)
      OBVIOUS
    <3>1. y \in Locked(u) <=> Lk(y) \in {} \/ (Lk(y) \notin {} /\ y \in Locked(t))
      BY <1>2, <1>3, FrontNeeds, Zenon
    <3>. QED BY <3>1, Apart
  <2>. QED BY <2>1, SameLocks
<1>6. Logged(u) <=> Logged(t)
  BY <1>2, <1>3, FrontNeeds, Apart
<1>7. Leaves(u) <=> Leaves(t)
  BY <1>2, <1>3, FrontNeeds, Apart
<1>8. Good(s, t) <=> /\ ~Top(t, "fileclose") /\ ~Top(t, "setcwd") /\ "fip" \in Locked(t)
  BY <1>1, Kinds DEF Good, Order, Inode, Lookup, Change, Ptrs, CallPtrs
<1>9. /\ u \in Seq(Steps) /\ u # <<>> /\ Head(u) = s /\ Tail(u) = t
      /\ Code(u) <=> Good(s, t) /\ Code(t)
  BY <1>3, Front
<1>10. \A o : Top(u, o) <=> o = "readi"
  BY <1>1, <1>3, Front
<1>11. OnFile(u)
  BY <1>1, <1>3, Front
<1>12. Like(u, t)
  BY <1>1, <1>3, FrontLike DEF Flags
<1>. QED BY <1>1, <1>4, <1>5, <1>6, <1>7, <1>8, <1>9, <1>10, <1>11, <1>12, Zenon DEF u

LEMMA Op_writei ==
  ASSUME NEW t \in Seq(Steps)
  PROVE  LET u == On("writei", "fip", t) IN
         /\ u \in Seq(Steps) /\ u # <<>> /\ Head(u) = <<"writei", "fip">> /\ Tail(u) = t
         /\ Pointers(u) = Pointers(t)
         /\ Locked(u) = Locked(t)
         /\ Logged(u) <=> Logged(t)
         /\ Leaves(u) <=> Leaves(t)
         /\ Code(u) <=>
                /\ Code(t)
                /\ ~Top(t, "fileclose")
                /\ ~Top(t, "setcwd")
                /\ "fip" \in Locked(t)
         /\ \A o : Top(u, o) <=> o = "writei"
         /\ OnFile(u)
         /\ Like(u, t)
<1>. DEFINE u == On("writei", "fip", t)
<1>1. PICK s \in Steps : s = <<"writei", "fip">> /\ s[1] = "writei" /\ s[2] = "fip"
  <2>1. <<"writei", "fip">> \in Steps /\ <<"writei", "fip">>[1] = "writei" /\ <<"writei", "fip">>[2] = "fip"
    BY DEF Steps, LockRegs, CallPtrs, Ptrs
  <2>. QED BY <2>1, Zenon
<1>2. Uses(s) = {} /\ Makes(s) = {}
  BY <1>1 DEF Uses, Makes
<1>3. u = Push(s, t)
  BY <1>1 DEF On
<1>. HIDE DEF u
<1>4. Pointers(u) = Pointers(t)
  <2>1. \A y \in CallPtrs : y \in Pointers(u) <=> y \in Pointers(t)
    <3>. SUFFICES ASSUME NEW y \in CallPtrs
                  PROVE  y \in Pointers(u) <=> y \in Pointers(t)
      OBVIOUS
    <3>1. y \in Pointers(u) <=> Ptr(y) \in {} \/ (Ptr(y) \notin {} /\ y \in Pointers(t))
      BY <1>2, <1>3, FrontNeeds, Zenon
    <3>. QED BY <3>1, Apart
  <2>. QED BY <2>1, SamePtrs
<1>5. Locked(u) = Locked(t)
  <2>1. \A y \in LockRegs : y \in Locked(u) <=> y \in Locked(t)
    <3>. SUFFICES ASSUME NEW y \in LockRegs
                  PROVE  y \in Locked(u) <=> y \in Locked(t)
      OBVIOUS
    <3>1. y \in Locked(u) <=> Lk(y) \in {} \/ (Lk(y) \notin {} /\ y \in Locked(t))
      BY <1>2, <1>3, FrontNeeds, Zenon
    <3>. QED BY <3>1, Apart
  <2>. QED BY <2>1, SameLocks
<1>6. Logged(u) <=> Logged(t)
  BY <1>2, <1>3, FrontNeeds, Apart
<1>7. Leaves(u) <=> Leaves(t)
  BY <1>2, <1>3, FrontNeeds, Apart
<1>8. Good(s, t) <=> /\ ~Top(t, "fileclose") /\ ~Top(t, "setcwd") /\ "fip" \in Locked(t)
  BY <1>1, Kinds DEF Good, Order, Inode, Lookup, Change, Ptrs, CallPtrs
<1>9. /\ u \in Seq(Steps) /\ u # <<>> /\ Head(u) = s /\ Tail(u) = t
      /\ Code(u) <=> Good(s, t) /\ Code(t)
  BY <1>3, Front
<1>10. \A o : Top(u, o) <=> o = "writei"
  BY <1>1, <1>3, Front
<1>11. OnFile(u)
  BY <1>1, <1>3, Front
<1>12. Like(u, t)
  BY <1>1, <1>3, FrontLike DEF Flags
<1>. QED BY <1>1, <1>4, <1>5, <1>6, <1>7, <1>8, <1>9, <1>10, <1>11, <1>12, Zenon DEF u

-----------------------------------------------------------------------------
(* Sequences that are written out, as steps in front of one another.       *)

LEMMA CatPush ==
  ASSUME NEW a \in Steps, NEW x \in Seq(Steps), NEW t \in Seq(Steps)
  PROVE  Cat(Push(a, x), t) = Push(a, Cat(x, t))
<1>1. <<a>> \in Seq(Steps)
  OBVIOUS
<1>2. (<<a>> \o x) \o t = <<a>> \o (x \o t)
  BY <1>1, ConcatAssociative
<1>. QED BY <1>2 DEF Cat, Push

LEMMA CatNone ==
  ASSUME NEW t \in Seq(Steps)
  PROVE  Cat(<<>>, t) = t /\ Cat(t, <<>>) = t
BY ConcatEmptySeq DEF Cat

LEMMA Tup1 == ASSUME NEW a \in Steps PROVE <<a>> \in Seq(Steps) /\ <<a>> = Push(a, <<>>)
<1>1. <<a>> \in Seq(Steps)
  OBVIOUS
<1>. QED BY <1>1, ConcatEmptySeq DEF Push

LEMMA Cat1 ==
  ASSUME NEW a \in Steps, NEW t \in Seq(Steps)
  PROVE  Cat(<<a>>, t) = Push(a, t)
BY DEF Cat, Push

LEMMA Tup2 ==
  ASSUME NEW a \in Steps, NEW b \in Steps
  PROVE  <<a, b>> \in Seq(Steps) /\ <<b>> \in Seq(Steps) /\ <<a, b>> = Push(a, <<b>>)
<1>1. PICK x \in Seq(Steps) : x = <<b>> /\ Len(x) = 1 /\ x[1] = b
  <2>1. <<b>> \in Seq(Steps) /\ Len(<<b>>) = 1 /\ <<b>>[1] = b
    OBVIOUS
  <2>. QED BY <2>1, Zenon
<1>2. PICK y \in Seq(Steps) : y = <<a, b>> /\ Len(y) = 2 /\ y[1] = a /\ y[2] = b
  <2>1. <<a, b>> \in Seq(Steps) /\ Len(<<a, b>>) = 2 /\ <<a, b>>[1] = a /\ <<a, b>>[2] = b
    OBVIOUS
  <2>. QED BY <2>1, Zenon
<1>. DEFINE w == Push(a, x)
<1>31. w \in Seq(Steps) /\ Len(w) = Len(x) + 1 /\ w[1] = a /\ \A i \in 1 .. Len(x) : w[i + 1] = x[i]
  BY Pushed
<1>. HIDE DEF w
<1>32. Len(w) = 2 /\ \A i \in 1 .. 1 : w[i + 1] = x[i]
  BY <1>1, <1>31
<1>4. w[1] = a /\ w[2] = b
  <2>1. w[2] = b
    <3>1. 1 \in 1 .. 1 /\ 1 + 1 = 2
      OBVIOUS
    <3>. QED BY <3>1, <1>1, <1>32
  <2>. QED BY <1>31, <2>1
<1>5. \A i \in 1 .. Len(y) : y[i] = w[i]
  BY <1>2, <1>4
<1>6. y = w
  BY <1>2, <1>31, <1>32, <1>5, SeqEqual
<1>. QED BY <1>1, <1>2, <1>6 DEF w

LEMMA Cat2 ==
  ASSUME NEW a \in Steps, NEW b \in Steps, NEW t \in Seq(Steps)
  PROVE  Cat(<<a, b>>, t) = Push(a, Push(b, t)) /\ <<a, b>> \in Seq(Steps)
<1>1. <<a, b>> = Push(a, <<b>>) /\ <<b>> \in Seq(Steps) /\ <<a, b>> \in Seq(Steps)
  BY Tup2
<1>2. Cat(Push(a, <<b>>), t) = Push(a, Cat(<<b>>, t))
  BY <1>1, CatPush
<1>3. Cat(<<b>>, t) = Push(b, t)
  BY Cat1
<1>. QED BY <1>1, <1>2, <1>3

LEMMA Tup3 ==
  ASSUME NEW a \in Steps, NEW b \in Steps, NEW c \in Steps
  PROVE  <<a, b, c>> \in Seq(Steps) /\ <<b, c>> \in Seq(Steps) /\ <<a, b, c>> = Push(a, <<b, c>>)
<1>1. PICK x \in Seq(Steps) : x = <<b, c>> /\ Len(x) = 2 /\ x[1] = b /\ x[2] = c
  <2>1. <<b, c>> \in Seq(Steps) /\ Len(<<b, c>>) = 2 /\ <<b, c>>[1] = b /\ <<b, c>>[2] = c
    OBVIOUS
  <2>. QED BY <2>1, Zenon
<1>2. PICK y \in Seq(Steps) : y = <<a, b, c>> /\ Len(y) = 3 /\ y[1] = a /\ y[2] = b /\ y[3] = c
  <2>1. <<a, b, c>> \in Seq(Steps) /\ Len(<<a, b, c>>) = 3 /\ <<a, b, c>>[1] = a /\ <<a, b, c>>[2] = b /\ <<a, b, c>>[3] = c
    OBVIOUS
  <2>. QED BY <2>1, Zenon
<1>. DEFINE w == Push(a, x)
<1>31. w \in Seq(Steps) /\ Len(w) = Len(x) + 1 /\ w[1] = a /\ \A i \in 1 .. Len(x) : w[i + 1] = x[i]
  BY Pushed
<1>. HIDE DEF w
<1>32. Len(w) = 3 /\ \A i \in 1 .. 2 : w[i + 1] = x[i]
  BY <1>1, <1>31
<1>4. w[1] = a /\ w[2] = b /\ w[3] = c
  <2>1. w[2] = b
    <3>1. 1 \in 1 .. 2 /\ 1 + 1 = 2
      OBVIOUS
    <3>. QED BY <3>1, <1>1, <1>32
  <2>2. w[3] = c
    <3>1. 2 \in 1 .. 2 /\ 2 + 1 = 3
      OBVIOUS
    <3>. QED BY <3>1, <1>1, <1>32
  <2>. QED BY <1>31, <2>1, <2>2
<1>5. \A i \in 1 .. Len(y) : y[i] = w[i]
  BY <1>2, <1>4
<1>6. y = w
  BY <1>2, <1>31, <1>32, <1>5, SeqEqual
<1>. QED BY <1>1, <1>2, <1>6 DEF w

LEMMA Cat3 ==
  ASSUME NEW a \in Steps, NEW b \in Steps, NEW c \in Steps, NEW t \in Seq(Steps)
  PROVE  Cat(<<a, b, c>>, t) = Push(a, Push(b, Push(c, t))) /\ <<a, b, c>> \in Seq(Steps)
<1>1. <<a, b, c>> = Push(a, <<b, c>>) /\ <<b, c>> \in Seq(Steps) /\ <<a, b, c>> \in Seq(Steps)
  BY Tup3
<1>2. Cat(Push(a, <<b, c>>), t) = Push(a, Cat(<<b, c>>, t))
  BY <1>1, CatPush
<1>3. Cat(<<b, c>>, t) = Push(b, Push(c, t))
  BY Cat2
<1>. QED BY <1>1, <1>2, <1>3

LEMMA Tup4 ==
  ASSUME NEW a \in Steps, NEW b \in Steps, NEW c \in Steps, NEW d \in Steps
  PROVE  <<a, b, c, d>> \in Seq(Steps) /\ <<b, c, d>> \in Seq(Steps) /\ <<a, b, c, d>> = Push(a, <<b, c, d>>)
<1>1. PICK x \in Seq(Steps) : x = <<b, c, d>> /\ Len(x) = 3 /\ x[1] = b /\ x[2] = c /\ x[3] = d
  <2>1. <<b, c, d>> \in Seq(Steps) /\ Len(<<b, c, d>>) = 3 /\ <<b, c, d>>[1] = b /\ <<b, c, d>>[2] = c /\ <<b, c, d>>[3] = d
    OBVIOUS
  <2>. QED BY <2>1, Zenon
<1>2. PICK y \in Seq(Steps) : y = <<a, b, c, d>> /\ Len(y) = 4 /\ y[1] = a /\ y[2] = b /\ y[3] = c /\ y[4] = d
  <2>1. <<a, b, c, d>> \in Seq(Steps) /\ Len(<<a, b, c, d>>) = 4 /\ <<a, b, c, d>>[1] = a /\ <<a, b, c, d>>[2] = b /\ <<a, b, c, d>>[3] = c /\ <<a, b, c, d>>[4] = d
    OBVIOUS
  <2>. QED BY <2>1, Zenon
<1>. DEFINE w == Push(a, x)
<1>31. w \in Seq(Steps) /\ Len(w) = Len(x) + 1 /\ w[1] = a /\ \A i \in 1 .. Len(x) : w[i + 1] = x[i]
  BY Pushed
<1>. HIDE DEF w
<1>32. Len(w) = 4 /\ \A i \in 1 .. 3 : w[i + 1] = x[i]
  BY <1>1, <1>31
<1>4. w[1] = a /\ w[2] = b /\ w[3] = c /\ w[4] = d
  <2>1. w[2] = b
    <3>1. 1 \in 1 .. 3 /\ 1 + 1 = 2
      OBVIOUS
    <3>. QED BY <3>1, <1>1, <1>32
  <2>2. w[3] = c
    <3>1. 2 \in 1 .. 3 /\ 2 + 1 = 3
      OBVIOUS
    <3>. QED BY <3>1, <1>1, <1>32
  <2>3. w[4] = d
    <3>1. 3 \in 1 .. 3 /\ 3 + 1 = 4
      OBVIOUS
    <3>. QED BY <3>1, <1>1, <1>32
  <2>. QED BY <1>31, <2>1, <2>2, <2>3
<1>5. \A i \in 1 .. Len(y) : y[i] = w[i]
  BY <1>2, <1>4
<1>6. y = w
  BY <1>2, <1>31, <1>32, <1>5, SeqEqual
<1>. QED BY <1>1, <1>2, <1>6 DEF w

LEMMA Cat4 ==
  ASSUME NEW a \in Steps, NEW b \in Steps, NEW c \in Steps, NEW d \in Steps, NEW t \in Seq(Steps)
  PROVE  Cat(<<a, b, c, d>>, t) = Push(a, Push(b, Push(c, Push(d, t)))) /\ <<a, b, c, d>> \in Seq(Steps)
<1>1. <<a, b, c, d>> = Push(a, <<b, c, d>>) /\ <<b, c, d>> \in Seq(Steps) /\ <<a, b, c, d>> \in Seq(Steps)
  BY Tup4
<1>2. Cat(Push(a, <<b, c, d>>), t) = Push(a, Cat(<<b, c, d>>, t))
  BY <1>1, CatPush
<1>3. Cat(<<b, c, d>>, t) = Push(b, Push(c, Push(d, t)))
  BY Cat3
<1>. QED BY <1>1, <1>2, <1>3

LEMMA Tup5 ==
  ASSUME NEW a \in Steps, NEW b \in Steps, NEW c \in Steps, NEW d \in Steps, NEW e \in Steps
  PROVE  <<a, b, c, d, e>> \in Seq(Steps) /\ <<b, c, d, e>> \in Seq(Steps) /\ <<a, b, c, d, e>> = Push(a, <<b, c, d, e>>)
<1>1. PICK x \in Seq(Steps) : x = <<b, c, d, e>> /\ Len(x) = 4 /\ x[1] = b /\ x[2] = c /\ x[3] = d /\ x[4] = e
  <2>1. <<b, c, d, e>> \in Seq(Steps) /\ Len(<<b, c, d, e>>) = 4 /\ <<b, c, d, e>>[1] = b /\ <<b, c, d, e>>[2] = c /\ <<b, c, d, e>>[3] = d /\ <<b, c, d, e>>[4] = e
    OBVIOUS
  <2>. QED BY <2>1, Zenon
<1>2. PICK y \in Seq(Steps) : y = <<a, b, c, d, e>> /\ Len(y) = 5 /\ y[1] = a /\ y[2] = b /\ y[3] = c /\ y[4] = d /\ y[5] = e
  <2>1. <<a, b, c, d, e>> \in Seq(Steps) /\ Len(<<a, b, c, d, e>>) = 5 /\ <<a, b, c, d, e>>[1] = a /\ <<a, b, c, d, e>>[2] = b /\ <<a, b, c, d, e>>[3] = c /\ <<a, b, c, d, e>>[4] = d /\ <<a, b, c, d, e>>[5] = e
    OBVIOUS
  <2>. QED BY <2>1, Zenon
<1>. DEFINE w == Push(a, x)
<1>31. w \in Seq(Steps) /\ Len(w) = Len(x) + 1 /\ w[1] = a /\ \A i \in 1 .. Len(x) : w[i + 1] = x[i]
  BY Pushed
<1>. HIDE DEF w
<1>32. Len(w) = 5 /\ \A i \in 1 .. 4 : w[i + 1] = x[i]
  BY <1>1, <1>31
<1>4. w[1] = a /\ w[2] = b /\ w[3] = c /\ w[4] = d /\ w[5] = e
  <2>1. w[2] = b
    <3>1. 1 \in 1 .. 4 /\ 1 + 1 = 2
      OBVIOUS
    <3>. QED BY <3>1, <1>1, <1>32
  <2>2. w[3] = c
    <3>1. 2 \in 1 .. 4 /\ 2 + 1 = 3
      OBVIOUS
    <3>. QED BY <3>1, <1>1, <1>32
  <2>3. w[4] = d
    <3>1. 3 \in 1 .. 4 /\ 3 + 1 = 4
      OBVIOUS
    <3>. QED BY <3>1, <1>1, <1>32
  <2>4. w[5] = e
    <3>1. 4 \in 1 .. 4 /\ 4 + 1 = 5
      OBVIOUS
    <3>. QED BY <3>1, <1>1, <1>32
  <2>. QED BY <1>31, <2>1, <2>2, <2>3, <2>4
<1>5. \A i \in 1 .. Len(y) : y[i] = w[i]
  BY <1>2, <1>4
<1>6. y = w
  BY <1>2, <1>31, <1>32, <1>5, SeqEqual
<1>. QED BY <1>1, <1>2, <1>6 DEF w

LEMMA Cat5 ==
  ASSUME NEW a \in Steps, NEW b \in Steps, NEW c \in Steps, NEW d \in Steps, NEW e \in Steps, NEW t \in Seq(Steps)
  PROVE  Cat(<<a, b, c, d, e>>, t) = Push(a, Push(b, Push(c, Push(d, Push(e, t))))) /\ <<a, b, c, d, e>> \in Seq(Steps)
<1>1. <<a, b, c, d, e>> = Push(a, <<b, c, d, e>>) /\ <<b, c, d, e>> \in Seq(Steps) /\ <<a, b, c, d, e>> \in Seq(Steps)
  BY Tup5
<1>2. Cat(Push(a, <<b, c, d, e>>), t) = Push(a, Cat(<<b, c, d, e>>, t))
  BY <1>1, CatPush
<1>3. Cat(<<b, c, d, e>>, t) = Push(b, Push(c, Push(d, Push(e, t))))
  BY Cat4
<1>. QED BY <1>1, <1>2, <1>3

-----------------------------------------------------------------------------
(* The pieces that the code puts together.                                 *)

LEMMA PieceUnlockPut ==
  ASSUME NEW x \in CallPtrs, NEW t \in Seq(Steps)
  PROVE  Cat(UnlockPut(x), t) = On("iunlock", x, On("iput", x, t)) /\ UnlockPut(x) \in Seq(Steps)
<1>1. <<"iunlock", x>> \in Steps /\ <<"iput", x>> \in Steps
  BY DEF Steps, LockRegs, CallPtrs, Ptrs
<1>2. Cat(<<<<"iunlock", x>>, <<"iput", x>>>>, t) = Push(<<"iunlock", x>>, Push(<<"iput", x>>, t)) /\ <<<<"iunlock", x>>, <<"iput", x>>>> \in Seq(Steps)
  <2>1. PICK a1 \in Steps : a1 = <<"iunlock", x>>
    BY <1>1, Zenon
  <2>2. PICK b1 \in Steps : b1 = <<"iput", x>>
    BY <1>1, Zenon
  <2>3. Cat(<<a1, b1>>, t) = Push(a1, Push(b1, t)) /\ <<a1, b1>> \in Seq(Steps)
    BY Cat2
  <2>. QED BY <2>1, <2>2, <2>3, Zenon
<1>. QED BY <1>2 DEF On, UnlockPut

LEMMA PieceCreateCode ==
  ASSUME NEW t \in Seq(Steps)
  PROVE  Cat(CreateCode, t) = On("begin", "dp", On("namex", "dp", On("ilock", "dp", On("create", "ip", t)))) /\ CreateCode \in Seq(Steps)
<1>1. <<"begin", "dp">> \in Steps /\ <<"namex", "dp">> \in Steps /\ <<"ilock", "dp">> \in Steps /\ <<"create", "ip">> \in Steps
  BY DEF Steps, LockRegs, CallPtrs, Ptrs
<1>2. Cat(<<<<"begin", "dp">>, <<"namex", "dp">>, <<"ilock", "dp">>, <<"create", "ip">>>>, t) = Push(<<"begin", "dp">>, Push(<<"namex", "dp">>, Push(<<"ilock", "dp">>, Push(<<"create", "ip">>, t)))) /\ <<<<"begin", "dp">>, <<"namex", "dp">>, <<"ilock", "dp">>, <<"create", "ip">>>> \in Seq(Steps)
  <2>1. PICK a1 \in Steps : a1 = <<"begin", "dp">>
    BY <1>1, Zenon
  <2>2. PICK b1 \in Steps : b1 = <<"namex", "dp">>
    BY <1>1, Zenon
  <2>3. PICK c1 \in Steps : c1 = <<"ilock", "dp">>
    BY <1>1, Zenon
  <2>4. PICK d1 \in Steps : d1 = <<"create", "ip">>
    BY <1>1, Zenon
  <2>5. Cat(<<a1, b1, c1, d1>>, t) = Push(a1, Push(b1, Push(c1, Push(d1, t)))) /\ <<a1, b1, c1, d1>> \in Seq(Steps)
    BY Cat4
  <2>. QED BY <2>1, <2>2, <2>3, <2>4, <2>5, Zenon
<1>. QED BY <1>2 DEF On, CreateCode

LEMMA Piece3 ==
  ASSUME NEW t \in Seq(Steps)
  PROVE  Cat(<<<<"commit", "ip">>>>, t) = On("commit", "ip", t) /\ <<<<"commit", "ip">>>> \in Seq(Steps)
<1>1. <<"commit", "ip">> \in Steps
  BY DEF Steps, LockRegs, CallPtrs, Ptrs
<1>2. Cat(<<<<"commit", "ip">>>>, t) = Push(<<"commit", "ip">>, t) /\ <<<<"commit", "ip">>>> \in Seq(Steps)
  BY <1>1, Cat1, Tup1, Zenon
<1>. QED BY <1>2 DEF On

LEMMA Piece4 ==
  ASSUME NEW t \in Seq(Steps)
  PROVE  Cat(<<<<"ilock", "ip">>, <<"drop", "ip">>>>, t) = On("ilock", "ip", On("drop", "ip", t)) /\ <<<<"ilock", "ip">>, <<"drop", "ip">>>> \in Seq(Steps)
<1>1. <<"ilock", "ip">> \in Steps /\ <<"drop", "ip">> \in Steps
  BY DEF Steps, LockRegs, CallPtrs, Ptrs
<1>2. Cat(<<<<"ilock", "ip">>, <<"drop", "ip">>>>, t) = Push(<<"ilock", "ip">>, Push(<<"drop", "ip">>, t)) /\ <<<<"ilock", "ip">>, <<"drop", "ip">>>> \in Seq(Steps)
  <2>1. PICK a1 \in Steps : a1 = <<"ilock", "ip">>
    BY <1>1, Zenon
  <2>2. PICK b1 \in Steps : b1 = <<"drop", "ip">>
    BY <1>1, Zenon
  <2>3. Cat(<<a1, b1>>, t) = Push(a1, Push(b1, t)) /\ <<a1, b1>> \in Seq(Steps)
    BY Cat2
  <2>. QED BY <2>1, <2>2, <2>3, Zenon
<1>. QED BY <1>2 DEF On

LEMMA Piece5 ==
  ASSUME NEW t \in Seq(Steps)
  PROVE  Cat(<<<<"commit", "dp">>>>, t) = On("commit", "dp", t) /\ <<<<"commit", "dp">>>> \in Seq(Steps)
<1>1. <<"commit", "dp">> \in Steps
  BY DEF Steps, LockRegs, CallPtrs, Ptrs
<1>2. Cat(<<<<"commit", "dp">>>>, t) = Push(<<"commit", "dp">>, t) /\ <<<<"commit", "dp">>>> \in Seq(Steps)
  BY <1>1, Cat1, Tup1, Zenon
<1>. QED BY <1>2 DEF On

LEMMA Piece6 ==
  ASSUME NEW t \in Seq(Steps)
  PROVE  Cat(<<<<"setcwd", "ip">>>>, t) = On("setcwd", "ip", t) /\ <<<<"setcwd", "ip">>>> \in Seq(Steps)
<1>1. <<"setcwd", "ip">> \in Steps
  BY DEF Steps, LockRegs, CallPtrs, Ptrs
<1>2. Cat(<<<<"setcwd", "ip">>>>, t) = Push(<<"setcwd", "ip">>, t) /\ <<<<"setcwd", "ip">>>> \in Seq(Steps)
  BY <1>1, Cat1, Tup1, Zenon
<1>. QED BY <1>2 DEF On

LEMMA Piece7 ==
  ASSUME NEW t \in Seq(Steps)
  PROVE  Cat(<<<<"iput", "cwd">>>>, t) = On("iput", "cwd", t) /\ <<<<"iput", "cwd">>>> \in Seq(Steps)
<1>1. <<"iput", "cwd">> \in Steps
  BY DEF Steps, LockRegs, CallPtrs, Ptrs
<1>2. Cat(<<<<"iput", "cwd">>>>, t) = Push(<<"iput", "cwd">>, t) /\ <<<<"iput", "cwd">>>> \in Seq(Steps)
  BY <1>1, Cat1, Tup1, Zenon
<1>. QED BY <1>2 DEF On

LEMMA Piece8 ==
  ASSUME NEW t \in Seq(Steps)
  PROVE  Cat(<<<<"closeall", "ip">>, <<"iput", "cwd">>>>, t) = On("closeall", "ip", On("iput", "cwd", t)) /\ <<<<"closeall", "ip">>, <<"iput", "cwd">>>> \in Seq(Steps)
<1>1. <<"closeall", "ip">> \in Steps /\ <<"iput", "cwd">> \in Steps
  BY DEF Steps, LockRegs, CallPtrs, Ptrs
<1>2. Cat(<<<<"closeall", "ip">>, <<"iput", "cwd">>>>, t) = Push(<<"closeall", "ip">>, Push(<<"iput", "cwd">>, t)) /\ <<<<"closeall", "ip">>, <<"iput", "cwd">>>> \in Seq(Steps)
  <2>1. PICK a1 \in Steps : a1 = <<"closeall", "ip">>
    BY <1>1, Zenon
  <2>2. PICK b1 \in Steps : b1 = <<"iput", "cwd">>
    BY <1>1, Zenon
  <2>3. Cat(<<a1, b1>>, t) = Push(a1, Push(b1, t)) /\ <<a1, b1>> \in Seq(Steps)
    BY Cat2
  <2>. QED BY <2>1, <2>2, <2>3, Zenon
<1>. QED BY <1>2 DEF On

LEMMA Piece9 ==
  ASSUME NEW t \in Seq(Steps)
  PROVE  Cat(<<<<"namex", "ip">>, <<"ilock", "ip">>, <<"open", "ip">>>>, t) = On("namex", "ip", On("ilock", "ip", On("open", "ip", t))) /\ <<<<"namex", "ip">>, <<"ilock", "ip">>, <<"open", "ip">>>> \in Seq(Steps)
<1>1. <<"namex", "ip">> \in Steps /\ <<"ilock", "ip">> \in Steps /\ <<"open", "ip">> \in Steps
  BY DEF Steps, LockRegs, CallPtrs, Ptrs
<1>2. Cat(<<<<"namex", "ip">>, <<"ilock", "ip">>, <<"open", "ip">>>>, t) = Push(<<"namex", "ip">>, Push(<<"ilock", "ip">>, Push(<<"open", "ip">>, t))) /\ <<<<"namex", "ip">>, <<"ilock", "ip">>, <<"open", "ip">>>> \in Seq(Steps)
  <2>1. PICK a1 \in Steps : a1 = <<"namex", "ip">>
    BY <1>1, Zenon
  <2>2. PICK b1 \in Steps : b1 = <<"ilock", "ip">>
    BY <1>1, Zenon
  <2>3. PICK c1 \in Steps : c1 = <<"open", "ip">>
    BY <1>1, Zenon
  <2>4. Cat(<<a1, b1, c1>>, t) = Push(a1, Push(b1, Push(c1, t))) /\ <<a1, b1, c1>> \in Seq(Steps)
    BY Cat3
  <2>. QED BY <2>1, <2>2, <2>3, <2>4, Zenon
<1>. QED BY <1>2 DEF On

LEMMA Piece10 ==
  ASSUME NEW t \in Seq(Steps)
  PROVE  Cat(<<<<"commit", "ip">>, <<"open", "ip">>>>, t) = On("commit", "ip", On("open", "ip", t)) /\ <<<<"commit", "ip">>, <<"open", "ip">>>> \in Seq(Steps)
<1>1. <<"commit", "ip">> \in Steps /\ <<"open", "ip">> \in Steps
  BY DEF Steps, LockRegs, CallPtrs, Ptrs
<1>2. Cat(<<<<"commit", "ip">>, <<"open", "ip">>>>, t) = Push(<<"commit", "ip">>, Push(<<"open", "ip">>, t)) /\ <<<<"commit", "ip">>, <<"open", "ip">>>> \in Seq(Steps)
  <2>1. PICK a1 \in Steps : a1 = <<"commit", "ip">>
    BY <1>1, Zenon
  <2>2. PICK b1 \in Steps : b1 = <<"open", "ip">>
    BY <1>1, Zenon
  <2>3. Cat(<<a1, b1>>, t) = Push(a1, Push(b1, t)) /\ <<a1, b1>> \in Seq(Steps)
    BY Cat2
  <2>. QED BY <2>1, <2>2, <2>3, Zenon
<1>. QED BY <1>2 DEF On

LEMMA Piece11 ==
  ASSUME NEW t \in Seq(Steps)
  PROVE  Cat(<<<<"namex", "ip">>, <<"begin", "ip">>, <<"ilock", "ip">>, <<"bump", "ip">>, <<"iunlock", "ip">>>>, t) = On("namex", "ip", On("begin", "ip", On("ilock", "ip", On("bump", "ip", On("iunlock", "ip", t))))) /\ <<<<"namex", "ip">>, <<"begin", "ip">>, <<"ilock", "ip">>, <<"bump", "ip">>, <<"iunlock", "ip">>>> \in Seq(Steps)
<1>1. <<"namex", "ip">> \in Steps /\ <<"begin", "ip">> \in Steps /\ <<"ilock", "ip">> \in Steps /\ <<"bump", "ip">> \in Steps /\ <<"iunlock", "ip">> \in Steps
  BY DEF Steps, LockRegs, CallPtrs, Ptrs
<1>2. Cat(<<<<"namex", "ip">>, <<"begin", "ip">>, <<"ilock", "ip">>, <<"bump", "ip">>, <<"iunlock", "ip">>>>, t) = Push(<<"namex", "ip">>, Push(<<"begin", "ip">>, Push(<<"ilock", "ip">>, Push(<<"bump", "ip">>, Push(<<"iunlock", "ip">>, t))))) /\ <<<<"namex", "ip">>, <<"begin", "ip">>, <<"ilock", "ip">>, <<"bump", "ip">>, <<"iunlock", "ip">>>> \in Seq(Steps)
  <2>1. PICK a1 \in Steps : a1 = <<"namex", "ip">>
    BY <1>1, Zenon
  <2>2. PICK b1 \in Steps : b1 = <<"begin", "ip">>
    BY <1>1, Zenon
  <2>3. PICK c1 \in Steps : c1 = <<"ilock", "ip">>
    BY <1>1, Zenon
  <2>4. PICK d1 \in Steps : d1 = <<"bump", "ip">>
    BY <1>1, Zenon
  <2>5. PICK e1 \in Steps : e1 = <<"iunlock", "ip">>
    BY <1>1, Zenon
  <2>6. Cat(<<a1, b1, c1, d1, e1>>, t) = Push(a1, Push(b1, Push(c1, Push(d1, Push(e1, t))))) /\ <<a1, b1, c1, d1, e1>> \in Seq(Steps)
    BY Cat5
  <2>. QED BY <2>1, <2>2, <2>3, <2>4, <2>5, <2>6, Zenon
<1>. QED BY <1>2 DEF On

LEMMA Piece12 ==
  ASSUME NEW t \in Seq(Steps)
  PROVE  Cat(<<<<"namex", "dp">>, <<"ilock", "dp">>, <<"entry", "dp">>>>, t) = On("namex", "dp", On("ilock", "dp", On("entry", "dp", t))) /\ <<<<"namex", "dp">>, <<"ilock", "dp">>, <<"entry", "dp">>>> \in Seq(Steps)
<1>1. <<"namex", "dp">> \in Steps /\ <<"ilock", "dp">> \in Steps /\ <<"entry", "dp">> \in Steps
  BY DEF Steps, LockRegs, CallPtrs, Ptrs
<1>2. Cat(<<<<"namex", "dp">>, <<"ilock", "dp">>, <<"entry", "dp">>>>, t) = Push(<<"namex", "dp">>, Push(<<"ilock", "dp">>, Push(<<"entry", "dp">>, t))) /\ <<<<"namex", "dp">>, <<"ilock", "dp">>, <<"entry", "dp">>>> \in Seq(Steps)
  <2>1. PICK a1 \in Steps : a1 = <<"namex", "dp">>
    BY <1>1, Zenon
  <2>2. PICK b1 \in Steps : b1 = <<"ilock", "dp">>
    BY <1>1, Zenon
  <2>3. PICK c1 \in Steps : c1 = <<"entry", "dp">>
    BY <1>1, Zenon
  <2>4. Cat(<<a1, b1, c1>>, t) = Push(a1, Push(b1, Push(c1, t))) /\ <<a1, b1, c1>> \in Seq(Steps)
    BY Cat3
  <2>. QED BY <2>1, <2>2, <2>3, <2>4, Zenon
<1>. QED BY <1>2 DEF On

LEMMA Piece13 ==
  ASSUME NEW t \in Seq(Steps)
  PROVE  Cat(<<<<"iput", "ip">>, <<"commit", "ip">>>>, t) = On("iput", "ip", On("commit", "ip", t)) /\ <<<<"iput", "ip">>, <<"commit", "ip">>>> \in Seq(Steps)
<1>1. <<"iput", "ip">> \in Steps /\ <<"commit", "ip">> \in Steps
  BY DEF Steps, LockRegs, CallPtrs, Ptrs
<1>2. Cat(<<<<"iput", "ip">>, <<"commit", "ip">>>>, t) = Push(<<"iput", "ip">>, Push(<<"commit", "ip">>, t)) /\ <<<<"iput", "ip">>, <<"commit", "ip">>>> \in Seq(Steps)
  <2>1. PICK a1 \in Steps : a1 = <<"iput", "ip">>
    BY <1>1, Zenon
  <2>2. PICK b1 \in Steps : b1 = <<"commit", "ip">>
    BY <1>1, Zenon
  <2>3. Cat(<<a1, b1>>, t) = Push(a1, Push(b1, t)) /\ <<a1, b1>> \in Seq(Steps)
    BY Cat2
  <2>. QED BY <2>1, <2>2, <2>3, Zenon
<1>. QED BY <1>2 DEF On

LEMMA Piece14 ==
  ASSUME NEW t \in Seq(Steps)
  PROVE  Cat(<<<<"namex", "dp">>, <<"begin", "dp">>, <<"ilock", "dp">>, <<"lookup", "ip">>>>, t) = On("namex", "dp", On("begin", "dp", On("ilock", "dp", On("lookup", "ip", t)))) /\ <<<<"namex", "dp">>, <<"begin", "dp">>, <<"ilock", "dp">>, <<"lookup", "ip">>>> \in Seq(Steps)
<1>1. <<"namex", "dp">> \in Steps /\ <<"begin", "dp">> \in Steps /\ <<"ilock", "dp">> \in Steps /\ <<"lookup", "ip">> \in Steps
  BY DEF Steps, LockRegs, CallPtrs, Ptrs
<1>2. Cat(<<<<"namex", "dp">>, <<"begin", "dp">>, <<"ilock", "dp">>, <<"lookup", "ip">>>>, t) = Push(<<"namex", "dp">>, Push(<<"begin", "dp">>, Push(<<"ilock", "dp">>, Push(<<"lookup", "ip">>, t)))) /\ <<<<"namex", "dp">>, <<"begin", "dp">>, <<"ilock", "dp">>, <<"lookup", "ip">>>> \in Seq(Steps)
  <2>1. PICK a1 \in Steps : a1 = <<"namex", "dp">>
    BY <1>1, Zenon
  <2>2. PICK b1 \in Steps : b1 = <<"begin", "dp">>
    BY <1>1, Zenon
  <2>3. PICK c1 \in Steps : c1 = <<"ilock", "dp">>
    BY <1>1, Zenon
  <2>4. PICK d1 \in Steps : d1 = <<"lookup", "ip">>
    BY <1>1, Zenon
  <2>5. Cat(<<a1, b1, c1, d1>>, t) = Push(a1, Push(b1, Push(c1, Push(d1, t)))) /\ <<a1, b1, c1, d1>> \in Seq(Steps)
    BY Cat4
  <2>. QED BY <2>1, <2>2, <2>3, <2>4, <2>5, Zenon
<1>. QED BY <1>2 DEF On

LEMMA Piece15 ==
  ASSUME NEW t \in Seq(Steps)
  PROVE  Cat(<<<<"ilock", "ip">>, <<"remove", "ip">>>>, t) = On("ilock", "ip", On("remove", "ip", t)) /\ <<<<"ilock", "ip">>, <<"remove", "ip">>>> \in Seq(Steps)
<1>1. <<"ilock", "ip">> \in Steps /\ <<"remove", "ip">> \in Steps
  BY DEF Steps, LockRegs, CallPtrs, Ptrs
<1>2. Cat(<<<<"ilock", "ip">>, <<"remove", "ip">>>>, t) = Push(<<"ilock", "ip">>, Push(<<"remove", "ip">>, t)) /\ <<<<"ilock", "ip">>, <<"remove", "ip">>>> \in Seq(Steps)
  <2>1. PICK a1 \in Steps : a1 = <<"ilock", "ip">>
    BY <1>1, Zenon
  <2>2. PICK b1 \in Steps : b1 = <<"remove", "ip">>
    BY <1>1, Zenon
  <2>3. Cat(<<a1, b1>>, t) = Push(a1, Push(b1, t)) /\ <<a1, b1>> \in Seq(Steps)
    BY Cat2
  <2>. QED BY <2>1, <2>2, <2>3, Zenon
<1>. QED BY <1>2 DEF On

LEMMA Piece16 ==
  ASSUME NEW t \in Seq(Steps)
  PROVE  Cat(<<<<"drop", "ip">>>>, t) = On("drop", "ip", t) /\ <<<<"drop", "ip">>>> \in Seq(Steps)
<1>1. <<"drop", "ip">> \in Steps
  BY DEF Steps, LockRegs, CallPtrs, Ptrs
<1>2. Cat(<<<<"drop", "ip">>>>, t) = Push(<<"drop", "ip">>, t) /\ <<<<"drop", "ip">>>> \in Seq(Steps)
  BY <1>1, Cat1, Tup1, Zenon
<1>. QED BY <1>2 DEF On

LEMMA Piece17 ==
  ASSUME NEW t \in Seq(Steps)
  PROVE  Cat(<<<<"namex", "ip">>, <<"ilock", "ip">>, <<"chdir", "ip">>>>, t) = On("namex", "ip", On("ilock", "ip", On("chdir", "ip", t))) /\ <<<<"namex", "ip">>, <<"ilock", "ip">>, <<"chdir", "ip">>>> \in Seq(Steps)
<1>1. <<"namex", "ip">> \in Steps /\ <<"ilock", "ip">> \in Steps /\ <<"chdir", "ip">> \in Steps
  BY DEF Steps, LockRegs, CallPtrs, Ptrs
<1>2. Cat(<<<<"namex", "ip">>, <<"ilock", "ip">>, <<"chdir", "ip">>>>, t) = Push(<<"namex", "ip">>, Push(<<"ilock", "ip">>, Push(<<"chdir", "ip">>, t))) /\ <<<<"namex", "ip">>, <<"ilock", "ip">>, <<"chdir", "ip">>>> \in Seq(Steps)
  <2>1. PICK a1 \in Steps : a1 = <<"namex", "ip">>
    BY <1>1, Zenon
  <2>2. PICK b1 \in Steps : b1 = <<"ilock", "ip">>
    BY <1>1, Zenon
  <2>3. PICK c1 \in Steps : c1 = <<"chdir", "ip">>
    BY <1>1, Zenon
  <2>4. Cat(<<a1, b1, c1>>, t) = Push(a1, Push(b1, Push(c1, t))) /\ <<a1, b1, c1>> \in Seq(Steps)
    BY Cat3
  <2>. QED BY <2>1, <2>2, <2>3, <2>4, Zenon
<1>. QED BY <1>2 DEF On

LEMMA Piece18 ==
  ASSUME NEW t \in Seq(Steps)
  PROVE  Cat(<<<<"namex", "ip">>, <<"ilock", "ip">>>>, t) = On("namex", "ip", On("ilock", "ip", t)) /\ <<<<"namex", "ip">>, <<"ilock", "ip">>>> \in Seq(Steps)
<1>1. <<"namex", "ip">> \in Steps /\ <<"ilock", "ip">> \in Steps
  BY DEF Steps, LockRegs, CallPtrs, Ptrs
<1>2. Cat(<<<<"namex", "ip">>, <<"ilock", "ip">>>>, t) = Push(<<"namex", "ip">>, Push(<<"ilock", "ip">>, t)) /\ <<<<"namex", "ip">>, <<"ilock", "ip">>>> \in Seq(Steps)
  <2>1. PICK a1 \in Steps : a1 = <<"namex", "ip">>
    BY <1>1, Zenon
  <2>2. PICK b1 \in Steps : b1 = <<"ilock", "ip">>
    BY <1>1, Zenon
  <2>3. Cat(<<a1, b1>>, t) = Push(a1, Push(b1, t)) /\ <<a1, b1>> \in Seq(Steps)
    BY Cat2
  <2>. QED BY <2>1, <2>2, <2>3, Zenon
<1>. QED BY <1>2 DEF On

LEMMA Piece19 ==
  ASSUME NEW t \in Seq(Steps)
  PROVE  Cat(<<<<"ilock", "fip">>, <<"readi", "fip">>, <<"iunlock", "fip">>>>, t) = On("ilock", "fip", On("readi", "fip", On("iunlock", "fip", t))) /\ <<<<"ilock", "fip">>, <<"readi", "fip">>, <<"iunlock", "fip">>>> \in Seq(Steps)
<1>1. <<"ilock", "fip">> \in Steps /\ <<"readi", "fip">> \in Steps /\ <<"iunlock", "fip">> \in Steps
  BY DEF Steps, LockRegs, CallPtrs, Ptrs
<1>2. Cat(<<<<"ilock", "fip">>, <<"readi", "fip">>, <<"iunlock", "fip">>>>, t) = Push(<<"ilock", "fip">>, Push(<<"readi", "fip">>, Push(<<"iunlock", "fip">>, t))) /\ <<<<"ilock", "fip">>, <<"readi", "fip">>, <<"iunlock", "fip">>>> \in Seq(Steps)
  <2>1. PICK a1 \in Steps : a1 = <<"ilock", "fip">>
    BY <1>1, Zenon
  <2>2. PICK b1 \in Steps : b1 = <<"readi", "fip">>
    BY <1>1, Zenon
  <2>3. PICK c1 \in Steps : c1 = <<"iunlock", "fip">>
    BY <1>1, Zenon
  <2>4. Cat(<<a1, b1, c1>>, t) = Push(a1, Push(b1, Push(c1, t))) /\ <<a1, b1, c1>> \in Seq(Steps)
    BY Cat3
  <2>. QED BY <2>1, <2>2, <2>3, <2>4, Zenon
<1>. QED BY <1>2 DEF On

LEMMA Piece20 ==
  ASSUME NEW t \in Seq(Steps)
  PROVE  Cat(<<<<"begin", "fip">>, <<"ilock", "fip">>, <<"writei", "fip">>, <<"iunlock", "fip">>, <<"commit", "fip">>>>, t) = On("begin", "fip", On("ilock", "fip", On("writei", "fip", On("iunlock", "fip", On("commit", "fip", t))))) /\ <<<<"begin", "fip">>, <<"ilock", "fip">>, <<"writei", "fip">>, <<"iunlock", "fip">>, <<"commit", "fip">>>> \in Seq(Steps)
<1>1. <<"begin", "fip">> \in Steps /\ <<"ilock", "fip">> \in Steps /\ <<"writei", "fip">> \in Steps /\ <<"iunlock", "fip">> \in Steps /\ <<"commit", "fip">> \in Steps
  BY DEF Steps, LockRegs, CallPtrs, Ptrs
<1>2. Cat(<<<<"begin", "fip">>, <<"ilock", "fip">>, <<"writei", "fip">>, <<"iunlock", "fip">>, <<"commit", "fip">>>>, t) = Push(<<"begin", "fip">>, Push(<<"ilock", "fip">>, Push(<<"writei", "fip">>, Push(<<"iunlock", "fip">>, Push(<<"commit", "fip">>, t))))) /\ <<<<"begin", "fip">>, <<"ilock", "fip">>, <<"writei", "fip">>, <<"iunlock", "fip">>, <<"commit", "fip">>>> \in Seq(Steps)
  <2>1. PICK a1 \in Steps : a1 = <<"begin", "fip">>
    BY <1>1, Zenon
  <2>2. PICK b1 \in Steps : b1 = <<"ilock", "fip">>
    BY <1>1, Zenon
  <2>3. PICK c1 \in Steps : c1 = <<"writei", "fip">>
    BY <1>1, Zenon
  <2>4. PICK d1 \in Steps : d1 = <<"iunlock", "fip">>
    BY <1>1, Zenon
  <2>5. PICK e1 \in Steps : e1 = <<"commit", "fip">>
    BY <1>1, Zenon
  <2>6. Cat(<<a1, b1, c1, d1, e1>>, t) = Push(a1, Push(b1, Push(c1, Push(d1, Push(e1, t))))) /\ <<a1, b1, c1, d1, e1>> \in Seq(Steps)
    BY Cat5
  <2>. QED BY <2>1, <2>2, <2>3, <2>4, <2>5, <2>6, Zenon
<1>. QED BY <1>2 DEF On

LEMMA Piece21 ==
  ASSUME NEW t \in Seq(Steps)
  PROVE  Cat(<<<<"ilock", "fip">>, <<"iunlock", "fip">>>>, t) = On("ilock", "fip", On("iunlock", "fip", t)) /\ <<<<"ilock", "fip">>, <<"iunlock", "fip">>>> \in Seq(Steps)
<1>1. <<"ilock", "fip">> \in Steps /\ <<"iunlock", "fip">> \in Steps
  BY DEF Steps, LockRegs, CallPtrs, Ptrs
<1>2. Cat(<<<<"ilock", "fip">>, <<"iunlock", "fip">>>>, t) = Push(<<"ilock", "fip">>, Push(<<"iunlock", "fip">>, t)) /\ <<<<"ilock", "fip">>, <<"iunlock", "fip">>>> \in Seq(Steps)
  <2>1. PICK a1 \in Steps : a1 = <<"ilock", "fip">>
    BY <1>1, Zenon
  <2>2. PICK b1 \in Steps : b1 = <<"iunlock", "fip">>
    BY <1>1, Zenon
  <2>3. Cat(<<a1, b1>>, t) = Push(a1, Push(b1, t)) /\ <<a1, b1>> \in Seq(Steps)
    BY Cat2
  <2>. QED BY <2>1, <2>2, <2>3, Zenon
<1>. QED BY <1>2 DEF On

LEMMA Piece22 ==
  ASSUME NEW x \in Ptrs, NEW t \in Seq(Steps)
  PROVE  Cat(<<<<"itrunc", x>>, <<"ifree", x>>, <<"iputend", x>>>>, t) = On("itrunc", x, On("ifree", x, On("iputend", x, t))) /\ <<<<"itrunc", x>>, <<"ifree", x>>, <<"iputend", x>>>> \in Seq(Steps)
<1>1. <<"itrunc", x>> \in Steps /\ <<"ifree", x>> \in Steps /\ <<"iputend", x>> \in Steps
  BY DEF Steps, LockRegs, CallPtrs, Ptrs
<1>2. Cat(<<<<"itrunc", x>>, <<"ifree", x>>, <<"iputend", x>>>>, t) = Push(<<"itrunc", x>>, Push(<<"ifree", x>>, Push(<<"iputend", x>>, t))) /\ <<<<"itrunc", x>>, <<"ifree", x>>, <<"iputend", x>>>> \in Seq(Steps)
  <2>1. PICK a1 \in Steps : a1 = <<"itrunc", x>>
    BY <1>1, Zenon
  <2>2. PICK b1 \in Steps : b1 = <<"ifree", x>>
    BY <1>1, Zenon
  <2>3. PICK c1 \in Steps : c1 = <<"iputend", x>>
    BY <1>1, Zenon
  <2>4. Cat(<<a1, b1, c1>>, t) = Push(a1, Push(b1, Push(c1, t))) /\ <<a1, b1, c1>> \in Seq(Steps)
    BY Cat3
  <2>. QED BY <2>1, <2>2, <2>3, <2>4, Zenon
<1>. QED BY <1>2 DEF On

LEMMA Piece23 ==
  ASSUME NEW y \in {"ip", "dp"}, NEW t \in Seq(Steps)
  PROVE  Cat(<<<<"ilock", "w">>, <<"element", y>>>>, t) = On("ilock", "w", On("element", y, t)) /\ <<<<"ilock", "w">>, <<"element", y>>>> \in Seq(Steps)
<1>1. <<"ilock", "w">> \in Steps /\ <<"element", y>> \in Steps
  BY DEF Steps, LockRegs, CallPtrs, Ptrs
<1>2. Cat(<<<<"ilock", "w">>, <<"element", y>>>>, t) = Push(<<"ilock", "w">>, Push(<<"element", y>>, t)) /\ <<<<"ilock", "w">>, <<"element", y>>>> \in Seq(Steps)
  <2>1. PICK a1 \in Steps : a1 = <<"ilock", "w">>
    BY <1>1, Zenon
  <2>2. PICK b1 \in Steps : b1 = <<"element", y>>
    BY <1>1, Zenon
  <2>3. Cat(<<a1, b1>>, t) = Push(a1, Push(b1, t)) /\ <<a1, b1>> \in Seq(Steps)
    BY Cat2
  <2>. QED BY <2>1, <2>2, <2>3, Zenon
<1>. QED BY <1>2 DEF On

LEMMA Piece24 ==
  ASSUME NEW t \in Seq(Steps)
  PROVE  Cat(<<<<"iput", "w">>>>, t) = On("iput", "w", t) /\ <<<<"iput", "w">>>> \in Seq(Steps)
<1>1. <<"iput", "w">> \in Steps
  BY DEF Steps, LockRegs, CallPtrs, Ptrs
<1>2. Cat(<<<<"iput", "w">>>>, t) = Push(<<"iput", "w">>, t) /\ <<<<"iput", "w">>>> \in Seq(Steps)
  BY <1>1, Cat1, Tup1, Zenon
<1>. QED BY <1>2 DEF On

LEMMA Piece25 ==
  ASSUME NEW t \in Seq(Steps)
  PROVE  Cat(<<<<"ilock", "ip">>, <<"exists", "ip">>>>, t) = On("ilock", "ip", On("exists", "ip", t)) /\ <<<<"ilock", "ip">>, <<"exists", "ip">>>> \in Seq(Steps)
<1>1. <<"ilock", "ip">> \in Steps /\ <<"exists", "ip">> \in Steps
  BY DEF Steps, LockRegs, CallPtrs, Ptrs
<1>2. Cat(<<<<"ilock", "ip">>, <<"exists", "ip">>>>, t) = Push(<<"ilock", "ip">>, Push(<<"exists", "ip">>, t)) /\ <<<<"ilock", "ip">>, <<"exists", "ip">>>> \in Seq(Steps)
  <2>1. PICK a1 \in Steps : a1 = <<"ilock", "ip">>
    BY <1>1, Zenon
  <2>2. PICK b1 \in Steps : b1 = <<"exists", "ip">>
    BY <1>1, Zenon
  <2>3. Cat(<<a1, b1>>, t) = Push(a1, Push(b1, t)) /\ <<a1, b1>> \in Seq(Steps)
    BY Cat2
  <2>. QED BY <2>1, <2>2, <2>3, Zenon
<1>. QED BY <1>2 DEF On

LEMMA Piece26 ==
  ASSUME NEW t \in Seq(Steps)
  PROVE  Cat(<<<<"ilock", "ip">>, <<"mknode", "ip">>>>, t) = On("ilock", "ip", On("mknode", "ip", t)) /\ <<<<"ilock", "ip">>, <<"mknode", "ip">>>> \in Seq(Steps)
<1>1. <<"ilock", "ip">> \in Steps /\ <<"mknode", "ip">> \in Steps
  BY DEF Steps, LockRegs, CallPtrs, Ptrs
<1>2. Cat(<<<<"ilock", "ip">>, <<"mknode", "ip">>>>, t) = Push(<<"ilock", "ip">>, Push(<<"mknode", "ip">>, t)) /\ <<<<"ilock", "ip">>, <<"mknode", "ip">>>> \in Seq(Steps)
  <2>1. PICK a1 \in Steps : a1 = <<"ilock", "ip">>
    BY <1>1, Zenon
  <2>2. PICK b1 \in Steps : b1 = <<"mknode", "ip">>
    BY <1>1, Zenon
  <2>3. Cat(<<a1, b1>>, t) = Push(a1, Push(b1, t)) /\ <<a1, b1>> \in Seq(Steps)
    BY Cat2
  <2>. QED BY <2>1, <2>2, <2>3, Zenon
<1>. QED BY <1>2 DEF On

LEMMA Piece27 ==
  ASSUME NEW t \in Seq(Steps)
  PROVE  Cat(<<<<"begin", "ff">>, <<"iput", "ff">>, <<"commit", "ff">>>>, t) = On("begin", "ff", On("iput", "ff", On("commit", "ff", t))) /\ <<<<"begin", "ff">>, <<"iput", "ff">>, <<"commit", "ff">>>> \in Seq(Steps)
<1>1. <<"begin", "ff">> \in Steps /\ <<"iput", "ff">> \in Steps /\ <<"commit", "ff">> \in Steps
  BY DEF Steps, LockRegs, CallPtrs, Ptrs
<1>2. Cat(<<<<"begin", "ff">>, <<"iput", "ff">>, <<"commit", "ff">>>>, t) = Push(<<"begin", "ff">>, Push(<<"iput", "ff">>, Push(<<"commit", "ff">>, t))) /\ <<<<"begin", "ff">>, <<"iput", "ff">>, <<"commit", "ff">>>> \in Seq(Steps)
  <2>1. PICK a1 \in Steps : a1 = <<"begin", "ff">>
    BY <1>1, Zenon
  <2>2. PICK b1 \in Steps : b1 = <<"iput", "ff">>
    BY <1>1, Zenon
  <2>3. PICK c1 \in Steps : c1 = <<"commit", "ff">>
    BY <1>1, Zenon
  <2>4. Cat(<<a1, b1, c1>>, t) = Push(a1, Push(b1, Push(c1, t))) /\ <<a1, b1, c1>> \in Seq(Steps)
    BY Cat3
  <2>. QED BY <2>1, <2>2, <2>3, <2>4, Zenon
<1>. QED BY <1>2 DEF On

LEMMA Piece28 ==
  ASSUME NEW t \in Seq(Steps)
  PROVE  Cat(<<<<"iunlock", "fip">>, <<"ilock", "fip">>>>, t) = On("iunlock", "fip", On("ilock", "fip", t)) /\ <<<<"iunlock", "fip">>, <<"ilock", "fip">>>> \in Seq(Steps)
<1>1. <<"iunlock", "fip">> \in Steps /\ <<"ilock", "fip">> \in Steps
  BY DEF Steps, LockRegs, CallPtrs, Ptrs
<1>2. Cat(<<<<"iunlock", "fip">>, <<"ilock", "fip">>>>, t) = Push(<<"iunlock", "fip">>, Push(<<"ilock", "fip">>, t)) /\ <<<<"iunlock", "fip">>, <<"ilock", "fip">>>> \in Seq(Steps)
  <2>1. PICK a1 \in Steps : a1 = <<"iunlock", "fip">>
    BY <1>1, Zenon
  <2>2. PICK b1 \in Steps : b1 = <<"ilock", "fip">>
    BY <1>1, Zenon
  <2>3. Cat(<<a1, b1>>, t) = Push(a1, Push(b1, t)) /\ <<a1, b1>> \in Seq(Steps)
    BY Cat2
  <2>. QED BY <2>1, <2>2, <2>3, Zenon
<1>. QED BY <1>2 DEF On

LEMMA Piece29 ==
  ASSUME NEW t \in Seq(Steps)
  PROVE  Cat(<<<<"iunlock", "ip">>, <<"iput", "cwd">>, <<"setcwd", "ip">>>>, t) = On("iunlock", "ip", On("iput", "cwd", On("setcwd", "ip", t))) /\ <<<<"iunlock", "ip">>, <<"iput", "cwd">>, <<"setcwd", "ip">>>> \in Seq(Steps)
<1>1. <<"iunlock", "ip">> \in Steps /\ <<"iput", "cwd">> \in Steps /\ <<"setcwd", "ip">> \in Steps
  BY DEF Steps, LockRegs, CallPtrs, Ptrs
<1>2. Cat(<<<<"iunlock", "ip">>, <<"iput", "cwd">>, <<"setcwd", "ip">>>>, t) = Push(<<"iunlock", "ip">>, Push(<<"iput", "cwd">>, Push(<<"setcwd", "ip">>, t))) /\ <<<<"iunlock", "ip">>, <<"iput", "cwd">>, <<"setcwd", "ip">>>> \in Seq(Steps)
  <2>1. PICK a1 \in Steps : a1 = <<"iunlock", "ip">>
    BY <1>1, Zenon
  <2>2. PICK b1 \in Steps : b1 = <<"iput", "cwd">>
    BY <1>1, Zenon
  <2>3. PICK c1 \in Steps : c1 = <<"setcwd", "ip">>
    BY <1>1, Zenon
  <2>4. Cat(<<a1, b1, c1>>, t) = Push(a1, Push(b1, Push(c1, t))) /\ <<a1, b1, c1>> \in Seq(Steps)
    BY Cat3
  <2>. QED BY <2>1, <2>2, <2>3, <2>4, Zenon
<1>. QED BY <1>2 DEF On

-----------------------------------------------------------------------------
(* The calls, and where they go when they fail: what they need, and that    *)
(* each of their steps is in its place.                                     *)

Sum(t, ps, ls, log, dir) ==
  /\ t \in Seq(Steps) /\ Code(t)
  /\ Pointers(t) = ps /\ Locked(t) = ls /\ (Logged(t) <=> log) /\ (Leaves(t) <=> dir)

Shape(t, wi, wd, cr, ex, en, bu, se, of) ==
  /\ Walks(t, "ip") <=> wi
  /\ Walks(t, "dp") <=> wd
  /\ Has(t, "create") <=> cr
  /\ Has(t, "exists") <=> ex
  /\ Has(t, "entry") <=> en
  /\ Has(t, "bump") <=> bu
  /\ Has(t, "setcwd") <=> se
  /\ OnFile(t) <=> of

LEMMA LikeShape ==
  ASSUME NEW t, NEW u, Like(u, t), NEW wi, NEW wd, NEW cr, NEW ex, NEW en, NEW bu, NEW se, NEW of,
         Shape(t, wi, wd, cr, ex, en, bu, se, of), OnFile(u) <=> OnFile(t)
  PROVE  Shape(u, wi, wd, cr, ex, en, bu, se, of)
BY DEF Like, Flags, Shape

LEMMA RegsIn ==
  /\ "ip" \in CallPtrs /\ "dp" \in CallPtrs /\ "w" \in CallPtrs /\ "ff" \in CallPtrs
  /\ "ip" \in LockRegs /\ "dp" \in LockRegs /\ "w" \in LockRegs /\ "ff" \in LockRegs
  /\ "fip" \in LockRegs /\ "cwd" \in LockRegs
BY DEF LockRegs, CallPtrs

LEMMA Nothing ==
  /\ Sum(<<>>, {}, {}, FALSE, FALSE) /\ Shape(<<>>, FALSE, FALSE, FALSE, FALSE, FALSE, FALSE, FALSE, FALSE)
  /\ \A o : ~Top(<<>>, o)
  /\ ~MayFail(<<>>) /\ Fail(<<>>) = <<>>
<1>1. /\ <<>> \in Seq(Steps) /\ Code(<<>>) /\ Needs(<<>>) = {}
      /\ \A op : ~Has(<<>>, op) /\ ~Top(<<>>, op)
      /\ \A y : ~Walks(<<>>, y)
      /\ ~OnFile(<<>>)
  BY Bottom
<1>2. Pointers(<<>>) = {} /\ Locked(<<>>) = {} /\ ~Logged(<<>>) /\ ~Leaves(<<>>)
  BY <1>1 DEF Pointers, Locked, Logged, Leaves
<1>3. Sum(<<>>, {}, {}, FALSE, FALSE)
  BY <1>1, <1>2, Zenon DEF Sum
<1>4. Shape(<<>>, FALSE, FALSE, FALSE, FALSE, FALSE, FALSE, FALSE, FALSE)
  BY <1>1, Zenon DEF Shape
<1>5. ~MayFail(<<>>) /\ Fail(<<>>) = <<>>
  BY <1>1 DEF MayFail, Fail
<1>. QED BY <1>1, <1>3, <1>4, <1>5

LEMMA IsCommitIp ==
  ASSUME NEW t, t = CommitIp
  PROVE  /\ Sum(t, {}, {}, TRUE, FALSE)
         /\ Shape(t, FALSE, FALSE, FALSE, FALSE, FALSE, FALSE, FALSE, FALSE)
         /\ t # <<>> /\ Head(t) = <<"commit", "ip">> /\ \A o : Top(t, o) <=> o = "commit"
         /\ ~MayFail(t) /\ Fail(t) = <<>>
<1>. DEFINE t0 == <<>>
            t1 == On("commit", "ip", t0)
<1>0. /\ Sum(t0, {}, {}, FALSE, FALSE) /\ Shape(t0, FALSE, FALSE, FALSE, FALSE, FALSE, FALSE, FALSE, FALSE)
      /\ \A o : ~Top(t0, o)
  BY Nothing
<1>. HIDE DEF t0
<1>1. /\ Sum(t1, {}, {}, TRUE, FALSE)
      /\ Shape(t1, FALSE, FALSE, FALSE, FALSE, FALSE, FALSE, FALSE, FALSE)
      /\ t1 # <<>> /\ Head(t1) = <<"commit", "ip">> /\ \A o : Top(t1, o) <=> o = "commit"
  <2>3. Sum(t1, {}, {}, TRUE, FALSE) /\ t1 # <<>> /\ Head(t1) = <<"commit", "ip">> /\ \A o : Top(t1, o) <=> o = "commit"
    BY <1>0, RegsIn, Op_commit DEF Sum
  <2>4. Shape(t1, FALSE, FALSE, FALSE, FALSE, FALSE, FALSE, FALSE, FALSE)
    <3>1. Like(t1, t0) /\ (OnFile(t1) <=> OnFile(t0))
      BY <1>0, RegsIn, Op_commit DEF Sum
    <3>. QED BY <1>0, <3>1, LikeShape
  <2>. QED BY <2>3, <2>4
<1>. HIDE DEF t1
<1>2. t = t1
  <2>1. t0 \in Seq(Steps) /\ Cat(<<<<"commit", "ip">>>>, t0) = t1 /\ <<<<"commit", "ip">>>> \in Seq(Steps)
    BY <1>0, Piece3, RegsIn DEF Sum, t1
  <2>2. Cat(<<<<"commit", "ip">>>>, t0) = <<<<"commit", "ip">>>>
    BY <2>1, CatNone DEF t0
  <2>. QED BY <2>1, <2>2 DEF CommitIp
<1>3. ~MayFail(t1) /\ Fail(t1) = <<>>
  BY <1>1 DEF Shape, MayFail, Fail
<1>. QED BY <1>1, <1>2, <1>3, Zenon

LEMMA IsLinkBad ==
  ASSUME NEW t, t = LinkBad
  PROVE  /\ Sum(t, {"ip"}, {}, TRUE, FALSE)
         /\ Shape(t, FALSE, FALSE, FALSE, FALSE, FALSE, FALSE, FALSE, FALSE)
         /\ t # <<>> /\ Head(t) = <<"ilock", "ip">> /\ \A o : Top(t, o) <=> o = "ilock"
         /\ ~MayFail(t) /\ Fail(t) = <<>>
<1>. DEFINE t0 == <<>>
            t1 == On("commit", "ip", t0)
            t2 == On("iput", "ip", t1)
            t3 == On("iunlock", "ip", t2)
            t4 == On("drop", "ip", t3)
            t5 == On("ilock", "ip", t4)
<1>0. /\ Sum(t0, {}, {}, FALSE, FALSE) /\ Shape(t0, FALSE, FALSE, FALSE, FALSE, FALSE, FALSE, FALSE, FALSE)
      /\ \A o : ~Top(t0, o)
  BY Nothing
<1>. HIDE DEF t0
<1>1. /\ Sum(t1, {}, {}, TRUE, FALSE)
      /\ Shape(t1, FALSE, FALSE, FALSE, FALSE, FALSE, FALSE, FALSE, FALSE)
      /\ t1 # <<>> /\ Head(t1) = <<"commit", "ip">> /\ \A o : Top(t1, o) <=> o = "commit"
  <2>3. Sum(t1, {}, {}, TRUE, FALSE) /\ t1 # <<>> /\ Head(t1) = <<"commit", "ip">> /\ \A o : Top(t1, o) <=> o = "commit"
    BY <1>0, RegsIn, Op_commit DEF Sum
  <2>4. Shape(t1, FALSE, FALSE, FALSE, FALSE, FALSE, FALSE, FALSE, FALSE)
    <3>1. Like(t1, t0) /\ (OnFile(t1) <=> OnFile(t0))
      BY <1>0, RegsIn, Op_commit DEF Sum
    <3>. QED BY <1>0, <3>1, LikeShape
  <2>. QED BY <2>3, <2>4
<1>. HIDE DEF t1
<1>2. /\ Sum(t2, {"ip"}, {}, TRUE, FALSE)
      /\ Shape(t2, FALSE, FALSE, FALSE, FALSE, FALSE, FALSE, FALSE, FALSE)
      /\ t2 # <<>> /\ Head(t2) = <<"iput", "ip">> /\ \A o : Top(t2, o) <=> o = "iput"
  <2>3. Sum(t2, {"ip"}, {}, TRUE, FALSE) /\ t2 # <<>> /\ Head(t2) = <<"iput", "ip">> /\ \A o : Top(t2, o) <=> o = "iput"
    BY <1>1, RegsIn, Op_iput DEF Sum
  <2>4. Shape(t2, FALSE, FALSE, FALSE, FALSE, FALSE, FALSE, FALSE, FALSE)
    <3>1. Like(t2, t1) /\ (OnFile(t2) <=> OnFile(t1))
      BY <1>1, RegsIn, Op_iput DEF Sum
    <3>. QED BY <1>1, <3>1, LikeShape
  <2>. QED BY <2>3, <2>4
<1>. HIDE DEF t2
<1>3. /\ Sum(t3, {"ip"}, {"ip"}, TRUE, FALSE)
      /\ Shape(t3, FALSE, FALSE, FALSE, FALSE, FALSE, FALSE, FALSE, FALSE)
      /\ t3 # <<>> /\ Head(t3) = <<"iunlock", "ip">> /\ \A o : Top(t3, o) <=> o = "iunlock"
  <2>3. Sum(t3, {"ip"}, {"ip"}, TRUE, FALSE) /\ t3 # <<>> /\ Head(t3) = <<"iunlock", "ip">> /\ \A o : Top(t3, o) <=> o = "iunlock"
    <3>1. t2 \in Seq(Steps) /\ "ip" \in CallPtrs \cup {"fip"}
      BY <1>2, RegsIn DEF Sum
    <3>2. Pointers(t3) = {"ip"}
      BY <3>1, <1>2, RegsIn, Op_iunlock DEF Sum
    <3>3. Locked(t3) = {"ip"}
      <4>1. Locked(t3) = Locked(t2) \cup {"ip"}
        BY <3>1, RegsIn, Op_iunlock
      <4>. QED BY <4>1, <1>2 DEF Sum
    <3>4. t3 \in Seq(Steps) /\ Logged(t3) /\ ~Leaves(t3)
      BY <3>1, <1>2, RegsIn, Op_iunlock DEF Sum
    <3>5. Code(t3)
      <4>1. Code(t2) /\ ~Top(t2, "fileclose") /\ ~Top(t2, "setcwd") /\ "ip" \notin Locked(t2)
        BY <3>1, <1>2 DEF Sum
      <4>. QED BY <3>1, <4>1, RegsIn, Op_iunlock
    <3>6. t3 # <<>> /\ Head(t3) = <<"iunlock", "ip">> /\ \A o : Top(t3, o) <=> o = "iunlock"
      BY <3>1, RegsIn, Op_iunlock
    <3>. QED BY <3>2, <3>3, <3>4, <3>5, <3>6 DEF Sum
  <2>4. Shape(t3, FALSE, FALSE, FALSE, FALSE, FALSE, FALSE, FALSE, FALSE)
    <3>1. Like(t3, t2) /\ (OnFile(t3) <=> OnFile(t2))
      BY <1>2, RegsIn, Op_iunlock DEF Sum
    <3>. QED BY <1>2, <3>1, LikeShape
  <2>. QED BY <2>3, <2>4
<1>. HIDE DEF t3
<1>4. /\ Sum(t4, {"ip"}, {"ip"}, TRUE, FALSE)
      /\ Shape(t4, FALSE, FALSE, FALSE, FALSE, FALSE, FALSE, FALSE, FALSE)
      /\ t4 # <<>> /\ Head(t4) = <<"drop", "ip">> /\ \A o : Top(t4, o) <=> o = "drop"
  <2>3. Sum(t4, {"ip"}, {"ip"}, TRUE, FALSE) /\ t4 # <<>> /\ Head(t4) = <<"drop", "ip">> /\ \A o : Top(t4, o) <=> o = "drop"
    BY <1>3, RegsIn, Op_drop DEF Sum
  <2>4. Shape(t4, FALSE, FALSE, FALSE, FALSE, FALSE, FALSE, FALSE, FALSE)
    <3>1. Like(t4, t3) /\ (OnFile(t4) <=> OnFile(t3))
      BY <1>3, RegsIn, Op_drop DEF Sum
    <3>. QED BY <1>3, <3>1, LikeShape
  <2>. QED BY <2>3, <2>4
<1>. HIDE DEF t4
<1>5. /\ Sum(t5, {"ip"}, {}, TRUE, FALSE)
      /\ Shape(t5, FALSE, FALSE, FALSE, FALSE, FALSE, FALSE, FALSE, FALSE)
      /\ t5 # <<>> /\ Head(t5) = <<"ilock", "ip">> /\ \A o : Top(t5, o) <=> o = "ilock"
  <2>3. Sum(t5, {"ip"}, {}, TRUE, FALSE) /\ t5 # <<>> /\ Head(t5) = <<"ilock", "ip">> /\ \A o : Top(t5, o) <=> o = "ilock"
    <3>1. t4 \in Seq(Steps) /\ "ip" \in CallPtrs \cup {"fip"}
      BY <1>4, RegsIn DEF Sum
    <3>2. Pointers(t5) = {"ip"}
      BY <3>1, <1>4, RegsIn, Op_ilock DEF Sum
    <3>3. Locked(t5) = {}
      <4>1. Locked(t5) = Locked(t4) \ {"ip"}
        BY <3>1, RegsIn, Op_ilock
      <4>. QED BY <4>1, <1>4 DEF Sum
    <3>4. t5 \in Seq(Steps) /\ Logged(t5) /\ ~Leaves(t5)
      BY <3>1, <1>4, RegsIn, Op_ilock DEF Sum
    <3>5. Code(t5)
      <4>1. Code(t4) /\ ~Top(t4, "fileclose") /\ ~Top(t4, "setcwd") /\ "ip" \in Locked(t4) /\ "ip" \in Pointers(t4) \cup {"fip"}
        BY <3>1, <1>4 DEF Sum
      <4>. QED BY <3>1, <4>1, RegsIn, Op_ilock
    <3>6. t5 # <<>> /\ Head(t5) = <<"ilock", "ip">> /\ \A o : Top(t5, o) <=> o = "ilock"
      BY <3>1, RegsIn, Op_ilock
    <3>. QED BY <3>2, <3>3, <3>4, <3>5, <3>6 DEF Sum
  <2>4. Shape(t5, FALSE, FALSE, FALSE, FALSE, FALSE, FALSE, FALSE, FALSE)
    <3>1. Like(t5, t4) /\ (OnFile(t5) <=> OnFile(t4))
      BY <1>4, RegsIn, Op_ilock DEF Sum
    <3>. QED BY <1>4, <3>1, LikeShape
  <2>. QED BY <2>3, <2>4
<1>. HIDE DEF t5
<1>6. t = t5
  <2>1. t0 \in Seq(Steps) /\ Cat(<<<<"commit", "ip">>>>, t0) = t1 /\ <<<<"commit", "ip">>>> \in Seq(Steps)
    BY <1>0, Piece3, RegsIn DEF Sum, t1
  <2>2. t1 \in Seq(Steps) /\ Cat(UnlockPut("ip"), t1) = t3 /\ UnlockPut("ip") \in Seq(Steps)
    BY <1>1, PieceUnlockPut, RegsIn DEF Sum, t2, t3
  <2>3. t3 \in Seq(Steps) /\ Cat(<<<<"ilock", "ip">>, <<"drop", "ip">>>>, t3) = t5 /\ <<<<"ilock", "ip">>, <<"drop", "ip">>>> \in Seq(Steps)
    BY <1>3, Piece4, RegsIn DEF Sum, t4, t5
  <2>4. PICK A1 \in Seq(Steps) : A1 = <<<<"ilock", "ip">>, <<"drop", "ip">>>> /\ Cat(A1, t3) = t5
    BY <2>3, Zenon
  <2>5. PICK A2 \in Seq(Steps) : A2 = UnlockPut("ip") /\ Cat(A2, t1) = t3
    BY <2>2, Zenon
  <2>6. PICK A3 \in Seq(Steps) : A3 = <<<<"commit", "ip">>>> /\ Cat(A3, t0) = t1
    BY <2>1, Zenon
  <2>7. t = Cat(Cat(A1, A2), A3)
    BY <2>4, <2>5, <2>6, Zenon DEF Cat, LinkBad
  <2>8. Cat(A1, A2) \in Seq(Steps)
    BY CatAssoc
  <2>9. Cat(Cat(A1, A2), A3) \in Seq(Steps)
    BY <2>8, CatAssoc
  <2>10. Cat(Cat(Cat(A1, A2), A3), t0) = Cat(Cat(A1, A2), A3)
    BY <2>9, CatNone DEF t0
  <2>11. Cat(Cat(Cat(A1, A2), A3), t0) = Cat(Cat(A1, A2), t1)
    <3>1. Cat(Cat(Cat(A1, A2), A3), t0) = Cat(Cat(A1, A2), Cat(A3, t0))
      BY <2>8, <2>1, CatAssoc
    <3>. QED BY <3>1, <2>6
  <2>12. Cat(Cat(A1, A2), t1) = Cat(A1, t3)
    <3>1. Cat(Cat(A1, A2), t1) = Cat(A1, Cat(A2, t1))
      BY <2>2, CatAssoc
    <3>. QED BY <3>1, <2>5
  <2>. QED BY <2>7, <2>10, <2>11, <2>12, <2>4
<1>7. ~MayFail(t5) /\ Fail(t5) = <<>>
  BY <1>5 DEF Shape, MayFail, Fail
<1>. QED BY <1>5, <1>6, <1>7, Zenon

LEMMA IsUnlinkBad ==
  ASSUME NEW t, t = UnlinkBad
  PROVE  /\ Sum(t, {"dp"}, {"dp"}, TRUE, FALSE)
         /\ Shape(t, FALSE, FALSE, FALSE, FALSE, FALSE, FALSE, FALSE, FALSE)
         /\ t # <<>> /\ Head(t) = <<"iunlock", "dp">> /\ \A o : Top(t, o) <=> o = "iunlock"
         /\ ~MayFail(t) /\ Fail(t) = <<>>
<1>. DEFINE t0 == <<>>
            t1 == On("commit", "dp", t0)
            t2 == On("iput", "dp", t1)
            t3 == On("iunlock", "dp", t2)
<1>0. /\ Sum(t0, {}, {}, FALSE, FALSE) /\ Shape(t0, FALSE, FALSE, FALSE, FALSE, FALSE, FALSE, FALSE, FALSE)
      /\ \A o : ~Top(t0, o)
  BY Nothing
<1>. HIDE DEF t0
<1>1. /\ Sum(t1, {}, {}, TRUE, FALSE)
      /\ Shape(t1, FALSE, FALSE, FALSE, FALSE, FALSE, FALSE, FALSE, FALSE)
      /\ t1 # <<>> /\ Head(t1) = <<"commit", "dp">> /\ \A o : Top(t1, o) <=> o = "commit"
  <2>3. Sum(t1, {}, {}, TRUE, FALSE) /\ t1 # <<>> /\ Head(t1) = <<"commit", "dp">> /\ \A o : Top(t1, o) <=> o = "commit"
    BY <1>0, RegsIn, Op_commit DEF Sum
  <2>4. Shape(t1, FALSE, FALSE, FALSE, FALSE, FALSE, FALSE, FALSE, FALSE)
    <3>1. Like(t1, t0) /\ (OnFile(t1) <=> OnFile(t0))
      BY <1>0, RegsIn, Op_commit DEF Sum
    <3>. QED BY <1>0, <3>1, LikeShape
  <2>. QED BY <2>3, <2>4
<1>. HIDE DEF t1
<1>2. /\ Sum(t2, {"dp"}, {}, TRUE, FALSE)
      /\ Shape(t2, FALSE, FALSE, FALSE, FALSE, FALSE, FALSE, FALSE, FALSE)
      /\ t2 # <<>> /\ Head(t2) = <<"iput", "dp">> /\ \A o : Top(t2, o) <=> o = "iput"
  <2>3. Sum(t2, {"dp"}, {}, TRUE, FALSE) /\ t2 # <<>> /\ Head(t2) = <<"iput", "dp">> /\ \A o : Top(t2, o) <=> o = "iput"
    BY <1>1, RegsIn, Op_iput DEF Sum
  <2>4. Shape(t2, FALSE, FALSE, FALSE, FALSE, FALSE, FALSE, FALSE, FALSE)
    <3>1. Like(t2, t1) /\ (OnFile(t2) <=> OnFile(t1))
      BY <1>1, RegsIn, Op_iput DEF Sum
    <3>. QED BY <1>1, <3>1, LikeShape
  <2>. QED BY <2>3, <2>4
<1>. HIDE DEF t2
<1>3. /\ Sum(t3, {"dp"}, {"dp"}, TRUE, FALSE)
      /\ Shape(t3, FALSE, FALSE, FALSE, FALSE, FALSE, FALSE, FALSE, FALSE)
      /\ t3 # <<>> /\ Head(t3) = <<"iunlock", "dp">> /\ \A o : Top(t3, o) <=> o = "iunlock"
  <2>3. Sum(t3, {"dp"}, {"dp"}, TRUE, FALSE) /\ t3 # <<>> /\ Head(t3) = <<"iunlock", "dp">> /\ \A o : Top(t3, o) <=> o = "iunlock"
    <3>1. t2 \in Seq(Steps) /\ "dp" \in CallPtrs \cup {"fip"}
      BY <1>2, RegsIn DEF Sum
    <3>2. Pointers(t3) = {"dp"}
      BY <3>1, <1>2, RegsIn, Op_iunlock DEF Sum
    <3>3. Locked(t3) = {"dp"}
      <4>1. Locked(t3) = Locked(t2) \cup {"dp"}
        BY <3>1, RegsIn, Op_iunlock
      <4>. QED BY <4>1, <1>2 DEF Sum
    <3>4. t3 \in Seq(Steps) /\ Logged(t3) /\ ~Leaves(t3)
      BY <3>1, <1>2, RegsIn, Op_iunlock DEF Sum
    <3>5. Code(t3)
      <4>1. Code(t2) /\ ~Top(t2, "fileclose") /\ ~Top(t2, "setcwd") /\ "dp" \notin Locked(t2)
        BY <3>1, <1>2 DEF Sum
      <4>. QED BY <3>1, <4>1, RegsIn, Op_iunlock
    <3>6. t3 # <<>> /\ Head(t3) = <<"iunlock", "dp">> /\ \A o : Top(t3, o) <=> o = "iunlock"
      BY <3>1, RegsIn, Op_iunlock
    <3>. QED BY <3>2, <3>3, <3>4, <3>5, <3>6 DEF Sum
  <2>4. Shape(t3, FALSE, FALSE, FALSE, FALSE, FALSE, FALSE, FALSE, FALSE)
    <3>1. Like(t3, t2) /\ (OnFile(t3) <=> OnFile(t2))
      BY <1>2, RegsIn, Op_iunlock DEF Sum
    <3>. QED BY <1>2, <3>1, LikeShape
  <2>. QED BY <2>3, <2>4
<1>. HIDE DEF t3
<1>4. t = t3
  <2>1. t0 \in Seq(Steps) /\ Cat(<<<<"commit", "dp">>>>, t0) = t1 /\ <<<<"commit", "dp">>>> \in Seq(Steps)
    BY <1>0, Piece5, RegsIn DEF Sum, t1
  <2>2. t1 \in Seq(Steps) /\ Cat(UnlockPut("dp"), t1) = t3 /\ UnlockPut("dp") \in Seq(Steps)
    BY <1>1, PieceUnlockPut, RegsIn DEF Sum, t2, t3
  <2>3. PICK A1 \in Seq(Steps) : A1 = UnlockPut("dp") /\ Cat(A1, t1) = t3
    BY <2>2, Zenon
  <2>4. PICK A2 \in Seq(Steps) : A2 = <<<<"commit", "dp">>>> /\ Cat(A2, t0) = t1
    BY <2>1, Zenon
  <2>5. t = Cat(A1, A2)
    BY <2>3, <2>4, Zenon DEF Cat, UnlinkBad
  <2>6. Cat(A1, A2) \in Seq(Steps)
    BY CatAssoc
  <2>7. Cat(Cat(A1, A2), t0) = Cat(A1, A2)
    BY <2>6, CatNone DEF t0
  <2>8. Cat(Cat(A1, A2), t0) = Cat(A1, t1)
    <3>1. Cat(Cat(A1, A2), t0) = Cat(A1, Cat(A2, t0))
      BY <2>1, CatAssoc
    <3>. QED BY <3>1, <2>4
  <2>. QED BY <2>5, <2>7, <2>8, <2>3
<1>5. ~MayFail(t3) /\ Fail(t3) = <<>>
  BY <1>3 DEF Shape, MayFail, Fail
<1>. QED BY <1>3, <1>4, <1>5, Zenon

LEMMA IsEndCwd ==
  ASSUME NEW t, t = EndCwd
  PROVE  /\ Sum(t, {"ip"}, {}, FALSE, FALSE)
         /\ Shape(t, FALSE, FALSE, FALSE, FALSE, FALSE, FALSE, TRUE, FALSE)
         /\ t # <<>> /\ Head(t) = <<"setcwd", "ip">> /\ \A o : Top(t, o) <=> o = "setcwd"
         /\ ~MayFail(t) /\ Fail(t) = <<>>
<1>. DEFINE t0 == <<>>
            t1 == On("setcwd", "ip", t0)
<1>0. /\ Sum(t0, {}, {}, FALSE, FALSE) /\ Shape(t0, FALSE, FALSE, FALSE, FALSE, FALSE, FALSE, FALSE, FALSE)
      /\ \A o : ~Top(t0, o)
  BY Nothing
<1>. HIDE DEF t0
<1>1. /\ Sum(t1, {"ip"}, {}, FALSE, FALSE)
      /\ Shape(t1, FALSE, FALSE, FALSE, FALSE, FALSE, FALSE, TRUE, FALSE)
      /\ t1 # <<>> /\ Head(t1) = <<"setcwd", "ip">> /\ \A o : Top(t1, o) <=> o = "setcwd"
  <2>1. t0 = <<>>
    BY DEF t0
  <2>3. Sum(t1, {"ip"}, {}, FALSE, FALSE) /\ t1 # <<>> /\ Head(t1) = <<"setcwd", "ip">> /\ \A o : Top(t1, o) <=> o = "setcwd"
    BY <1>0, <2>1, RegsIn, Op_setcwd DEF Sum
  <2>4. Shape(t1, FALSE, FALSE, FALSE, FALSE, FALSE, FALSE, TRUE, FALSE)
    BY <1>0, RegsIn, Op_setcwd DEF Sum, Shape, Like, Flags
  <2>. QED BY <2>3, <2>4
<1>. HIDE DEF t1
<1>2. t = t1
  <2>1. t0 \in Seq(Steps) /\ Cat(<<<<"setcwd", "ip">>>>, t0) = t1 /\ <<<<"setcwd", "ip">>>> \in Seq(Steps)
    BY <1>0, Piece6, RegsIn DEF Sum, t1
  <2>2. Cat(<<<<"setcwd", "ip">>>>, t0) = <<<<"setcwd", "ip">>>>
    BY <2>1, CatNone DEF t0
  <2>. QED BY <2>1, <2>2 DEF EndCwd
<1>3. ~MayFail(t1) /\ Fail(t1) = <<>>
  BY <1>1 DEF Shape, MayFail, Fail
<1>. QED BY <1>1, <1>2, <1>3, Zenon

LEMMA IsPutCwd ==
  ASSUME NEW t, t = PutCwd
  PROVE  /\ Sum(t, {}, {}, FALSE, TRUE)
         /\ Shape(t, FALSE, FALSE, FALSE, FALSE, FALSE, FALSE, FALSE, FALSE)
         /\ t # <<>> /\ Head(t) = <<"iput", "cwd">> /\ \A o : Top(t, o) <=> o = "iput"
         /\ ~MayFail(t) /\ Fail(t) = <<>>
<1>. DEFINE t0 == <<>>
            t1 == On("iput", "cwd", t0)
<1>0. /\ Sum(t0, {}, {}, FALSE, FALSE) /\ Shape(t0, FALSE, FALSE, FALSE, FALSE, FALSE, FALSE, FALSE, FALSE)
      /\ \A o : ~Top(t0, o)
  BY Nothing
<1>. HIDE DEF t0
<1>1. /\ Sum(t1, {}, {}, FALSE, TRUE)
      /\ Shape(t1, FALSE, FALSE, FALSE, FALSE, FALSE, FALSE, FALSE, FALSE)
      /\ t1 # <<>> /\ Head(t1) = <<"iput", "cwd">> /\ \A o : Top(t1, o) <=> o = "iput"
  <2>1. t0 \in {<<>>, EndCwd}
    BY DEF t0
  <2>3. Sum(t1, {}, {}, FALSE, TRUE) /\ t1 # <<>> /\ Head(t1) = <<"iput", "cwd">> /\ \A o : Top(t1, o) <=> o = "iput"
    <3>1. t0 \in Seq(Steps) /\ TRUE
      BY <1>0, RegsIn DEF Sum
    <3>2. Pointers(t1) = {}
      BY <3>1, <1>0, RegsIn, Op_iputcwd DEF Sum
    <3>3. Locked(t1) = {}
      <4>1. Locked(t1) = Locked(t0)
        BY <3>1, RegsIn, Op_iputcwd
      <4>. QED BY <4>1, <1>0 DEF Sum
    <3>4. t1 \in Seq(Steps) /\ ~Logged(t1) /\ Leaves(t1)
      BY <3>1, <1>0, RegsIn, Op_iputcwd DEF Sum
    <3>5. Code(t1)
      <4>1. Code(t0) /\ ~Top(t0, "fileclose") /\ "cwd" \notin Locked(t0) /\ t0 \in {<<>>, EndCwd}
        BY <3>1, <1>0, <2>1 DEF Sum
      <4>. QED BY <3>1, <4>1, RegsIn, Op_iputcwd
    <3>6. t1 # <<>> /\ Head(t1) = <<"iput", "cwd">> /\ \A o : Top(t1, o) <=> o = "iput"
      BY <3>1, RegsIn, Op_iputcwd
    <3>. QED BY <3>2, <3>3, <3>4, <3>5, <3>6 DEF Sum
  <2>4. Shape(t1, FALSE, FALSE, FALSE, FALSE, FALSE, FALSE, FALSE, FALSE)
    <3>1. Like(t1, t0) /\ (OnFile(t1) <=> OnFile(t0))
      BY <1>0, RegsIn, Op_iputcwd DEF Sum
    <3>. QED BY <1>0, <3>1, LikeShape
  <2>. QED BY <2>3, <2>4
<1>. HIDE DEF t1
<1>2. t = t1
  <2>1. t0 \in Seq(Steps) /\ Cat(<<<<"iput", "cwd">>>>, t0) = t1 /\ <<<<"iput", "cwd">>>> \in Seq(Steps)
    BY <1>0, Piece7, RegsIn DEF Sum, t1
  <2>2. Cat(<<<<"iput", "cwd">>>>, t0) = <<<<"iput", "cwd">>>>
    BY <2>1, CatNone DEF t0
  <2>. QED BY <2>1, <2>2 DEF PutCwd
<1>3. ~MayFail(t1) /\ Fail(t1) = <<>>
  BY <1>1 DEF Shape, MayFail, Fail
<1>. QED BY <1>1, <1>2, <1>3, Zenon

LEMMA IsExitEnd ==
  ASSUME NEW t, t = ExitEnd
  PROVE  /\ Sum(t, {}, {}, FALSE, FALSE)
         /\ Shape(t, FALSE, FALSE, FALSE, FALSE, FALSE, FALSE, FALSE, FALSE)
         /\ t # <<>> /\ Head(t) = <<"closeall", "ip">> /\ \A o : Top(t, o) <=> o = "closeall"
         /\ ~MayFail(t) /\ Fail(t) = <<>>
<1>. DEFINE t0 == <<>>
            t1 == On("iput", "cwd", t0)
            t2 == On("closeall", "ip", t1)
<1>0. /\ Sum(t0, {}, {}, FALSE, FALSE) /\ Shape(t0, FALSE, FALSE, FALSE, FALSE, FALSE, FALSE, FALSE, FALSE)
      /\ \A o : ~Top(t0, o)
  BY Nothing
<1>. HIDE DEF t0
<1>1. /\ Sum(t1, {}, {}, FALSE, TRUE)
      /\ Shape(t1, FALSE, FALSE, FALSE, FALSE, FALSE, FALSE, FALSE, FALSE)
      /\ t1 # <<>> /\ Head(t1) = <<"iput", "cwd">> /\ \A o : Top(t1, o) <=> o = "iput"
  <2>1. t0 \in {<<>>, EndCwd}
    BY DEF t0
  <2>3. Sum(t1, {}, {}, FALSE, TRUE) /\ t1 # <<>> /\ Head(t1) = <<"iput", "cwd">> /\ \A o : Top(t1, o) <=> o = "iput"
    <3>1. t0 \in Seq(Steps) /\ TRUE
      BY <1>0, RegsIn DEF Sum
    <3>2. Pointers(t1) = {}
      BY <3>1, <1>0, RegsIn, Op_iputcwd DEF Sum
    <3>3. Locked(t1) = {}
      <4>1. Locked(t1) = Locked(t0)
        BY <3>1, RegsIn, Op_iputcwd
      <4>. QED BY <4>1, <1>0 DEF Sum
    <3>4. t1 \in Seq(Steps) /\ ~Logged(t1) /\ Leaves(t1)
      BY <3>1, <1>0, RegsIn, Op_iputcwd DEF Sum
    <3>5. Code(t1)
      <4>1. Code(t0) /\ ~Top(t0, "fileclose") /\ "cwd" \notin Locked(t0) /\ t0 \in {<<>>, EndCwd}
        BY <3>1, <1>0, <2>1 DEF Sum
      <4>. QED BY <3>1, <4>1, RegsIn, Op_iputcwd
    <3>6. t1 # <<>> /\ Head(t1) = <<"iput", "cwd">> /\ \A o : Top(t1, o) <=> o = "iput"
      BY <3>1, RegsIn, Op_iputcwd
    <3>. QED BY <3>2, <3>3, <3>4, <3>5, <3>6 DEF Sum
  <2>4. Shape(t1, FALSE, FALSE, FALSE, FALSE, FALSE, FALSE, FALSE, FALSE)
    <3>1. Like(t1, t0) /\ (OnFile(t1) <=> OnFile(t0))
      BY <1>0, RegsIn, Op_iputcwd DEF Sum
    <3>. QED BY <1>0, <3>1, LikeShape
  <2>. QED BY <2>3, <2>4
<1>. HIDE DEF t1
<1>2. /\ Sum(t2, {}, {}, FALSE, FALSE)
      /\ Shape(t2, FALSE, FALSE, FALSE, FALSE, FALSE, FALSE, FALSE, FALSE)
      /\ t2 # <<>> /\ Head(t2) = <<"closeall", "ip">> /\ \A o : Top(t2, o) <=> o = "closeall"
  <2>1. t1 = PutCwd
    <3>1. Cat(<<<<"iput", "cwd">>>>, t0) = t1 /\ <<<<"iput", "cwd">>>> \in Seq(Steps)
      BY <1>0, Piece7 DEF Sum, t1
    <3>. QED BY <3>1, CatNone DEF PutCwd, t0
  <2>3. Sum(t2, {}, {}, FALSE, FALSE) /\ t2 # <<>> /\ Head(t2) = <<"closeall", "ip">> /\ \A o : Top(t2, o) <=> o = "closeall"
    BY <1>1, <2>1, RegsIn, Op_closeall DEF Sum
  <2>4. Shape(t2, FALSE, FALSE, FALSE, FALSE, FALSE, FALSE, FALSE, FALSE)
    <3>1. Like(t2, t1) /\ (OnFile(t2) <=> OnFile(t1))
      BY <1>1, RegsIn, Op_closeall DEF Sum
    <3>. QED BY <1>1, <3>1, LikeShape
  <2>. QED BY <2>3, <2>4
<1>. HIDE DEF t2
<1>3. t = t2
  <2>1. t0 \in Seq(Steps) /\ Cat(<<<<"closeall", "ip">>, <<"iput", "cwd">>>>, t0) = t2 /\ <<<<"closeall", "ip">>, <<"iput", "cwd">>>> \in Seq(Steps)
    BY <1>0, Piece8, RegsIn DEF Sum, t1, t2
  <2>2. Cat(<<<<"closeall", "ip">>, <<"iput", "cwd">>>>, t0) = <<<<"closeall", "ip">>, <<"iput", "cwd">>>>
    BY <2>1, CatNone DEF t0
  <2>. QED BY <2>1, <2>2 DEF ExitEnd
<1>4. ~MayFail(t2) /\ Fail(t2) = <<>>
  BY <1>2 DEF Shape, MayFail, Fail
<1>. QED BY <1>2, <1>3, <1>4, Zenon

LEMMA IsOpen ==
  ASSUME NEW t, t = <<<<"namex", "ip">>, <<"ilock", "ip">>, <<"open", "ip">>>>
  PROVE  /\ Sum(t, {}, {}, FALSE, FALSE)
         /\ Shape(t, TRUE, FALSE, FALSE, FALSE, FALSE, FALSE, FALSE, FALSE)
         /\ t # <<>> /\ Head(t) = <<"namex", "ip">> /\ \A o : Top(t, o) <=> o = "namex"
         /\ MayFail(t) /\ Fail(t) = <<>>
<1>. DEFINE t0 == <<>>
            t1 == On("open", "ip", t0)
            t2 == On("ilock", "ip", t1)
            t3 == On("namex", "ip", t2)
<1>0. /\ Sum(t0, {}, {}, FALSE, FALSE) /\ Shape(t0, FALSE, FALSE, FALSE, FALSE, FALSE, FALSE, FALSE, FALSE)
      /\ \A o : ~Top(t0, o)
  BY Nothing
<1>. HIDE DEF t0
<1>1. /\ Sum(t1, {"ip"}, {"ip"}, FALSE, FALSE)
      /\ Shape(t1, FALSE, FALSE, FALSE, FALSE, FALSE, FALSE, FALSE, FALSE)
      /\ t1 # <<>> /\ Head(t1) = <<"open", "ip">> /\ \A o : Top(t1, o) <=> o = "open"
  <2>1. t0 = <<>>
    BY DEF t0
  <2>3. Sum(t1, {"ip"}, {"ip"}, FALSE, FALSE) /\ t1 # <<>> /\ Head(t1) = <<"open", "ip">> /\ \A o : Top(t1, o) <=> o = "open"
    BY <1>0, <2>1, RegsIn, Op_open DEF Sum
  <2>4. Shape(t1, FALSE, FALSE, FALSE, FALSE, FALSE, FALSE, FALSE, FALSE)
    <3>1. Like(t1, t0) /\ (OnFile(t1) <=> OnFile(t0))
      BY <1>0, RegsIn, Op_open DEF Sum
    <3>. QED BY <1>0, <3>1, LikeShape
  <2>. QED BY <2>3, <2>4
<1>. HIDE DEF t1
<1>2. /\ Sum(t2, {"ip"}, {}, FALSE, FALSE)
      /\ Shape(t2, FALSE, FALSE, FALSE, FALSE, FALSE, FALSE, FALSE, FALSE)
      /\ t2 # <<>> /\ Head(t2) = <<"ilock", "ip">> /\ \A o : Top(t2, o) <=> o = "ilock"
  <2>3. Sum(t2, {"ip"}, {}, FALSE, FALSE) /\ t2 # <<>> /\ Head(t2) = <<"ilock", "ip">> /\ \A o : Top(t2, o) <=> o = "ilock"
    <3>1. t1 \in Seq(Steps) /\ "ip" \in CallPtrs \cup {"fip"}
      BY <1>1, RegsIn DEF Sum
    <3>2. Pointers(t2) = {"ip"}
      BY <3>1, <1>1, RegsIn, Op_ilock DEF Sum
    <3>3. Locked(t2) = {}
      <4>1. Locked(t2) = Locked(t1) \ {"ip"}
        BY <3>1, RegsIn, Op_ilock
      <4>. QED BY <4>1, <1>1 DEF Sum
    <3>4. t2 \in Seq(Steps) /\ ~Logged(t2) /\ ~Leaves(t2)
      BY <3>1, <1>1, RegsIn, Op_ilock DEF Sum
    <3>5. Code(t2)
      <4>1. Code(t1) /\ ~Top(t1, "fileclose") /\ ~Top(t1, "setcwd") /\ "ip" \in Locked(t1) /\ "ip" \in Pointers(t1) \cup {"fip"}
        BY <3>1, <1>1 DEF Sum
      <4>. QED BY <3>1, <4>1, RegsIn, Op_ilock
    <3>6. t2 # <<>> /\ Head(t2) = <<"ilock", "ip">> /\ \A o : Top(t2, o) <=> o = "ilock"
      BY <3>1, RegsIn, Op_ilock
    <3>. QED BY <3>2, <3>3, <3>4, <3>5, <3>6 DEF Sum
  <2>4. Shape(t2, FALSE, FALSE, FALSE, FALSE, FALSE, FALSE, FALSE, FALSE)
    <3>1. Like(t2, t1) /\ (OnFile(t2) <=> OnFile(t1))
      BY <1>1, RegsIn, Op_ilock DEF Sum
    <3>. QED BY <1>1, <3>1, LikeShape
  <2>. QED BY <2>3, <2>4
<1>. HIDE DEF t2
<1>3. /\ Sum(t3, {}, {}, FALSE, FALSE)
      /\ Shape(t3, TRUE, FALSE, FALSE, FALSE, FALSE, FALSE, FALSE, FALSE)
      /\ t3 # <<>> /\ Head(t3) = <<"namex", "ip">> /\ \A o : Top(t3, o) <=> o = "namex"
  <2>1. Fail(t2) = <<>>
    BY <1>2 DEF Shape, Fail
  <2>2. Pointers(Fail(t2)) = {} /\ ~Logged(Fail(t2))
    BY <2>1, Nothing DEF Sum
  <2>3. Sum(t3, {}, {}, FALSE, FALSE) /\ t3 # <<>> /\ Head(t3) = <<"namex", "ip">> /\ \A o : Top(t3, o) <=> o = "namex"
    <3>1. t2 \in Seq(Steps) /\ "ip" \in {"ip", "dp"}
      BY <1>2, RegsIn DEF Sum
    <3>2. Pointers(t3) = {}
      BY <3>1, <1>2, RegsIn, Op_namex DEF Sum
    <3>3. Locked(t3) = {}
      <4>1. Locked(t3) = Locked(t2)
        BY <3>1, RegsIn, Op_namex
      <4>. QED BY <4>1, <1>2 DEF Sum
    <3>4. t3 \in Seq(Steps) /\ ~Logged(t3) /\ ~Leaves(t3)
      BY <3>1, <1>2, RegsIn, Op_namex DEF Sum
    <3>5. Code(t3)
      <4>1. Code(t2) /\ ~Top(t2, "fileclose") /\ ~Top(t2, "setcwd") /\ Pointers(t2) = Pointers(Fail(t2)) \cup {"ip"} /\ "ip" \notin Pointers(Fail(t2)) /\ Locked(t2) = {} /\ (Logged(t2) <=> Logged(Fail(t2))) /\ (~Has(t2, "bump") => ~Walks(t2, "ip") /\ ~Walks(t2, "dp")) /\ ("ip" = "dp" => ~Has(t2, "bump"))
        BY <3>1, <1>2, <2>2 DEF Sum, Shape
      <4>. QED BY <3>1, <4>1, RegsIn, Op_namex
    <3>6. t3 # <<>> /\ Head(t3) = <<"namex", "ip">> /\ \A o : Top(t3, o) <=> o = "namex"
      BY <3>1, RegsIn, Op_namex
    <3>. QED BY <3>2, <3>3, <3>4, <3>5, <3>6 DEF Sum
  <2>4. Shape(t3, TRUE, FALSE, FALSE, FALSE, FALSE, FALSE, FALSE, FALSE)
    BY <1>2, RegsIn, Op_namex DEF Sum, Shape, Like, Flags
  <2>. QED BY <2>3, <2>4
<1>. HIDE DEF t3
<1>4. t = t3
  <2>1. t0 \in Seq(Steps) /\ Cat(<<<<"namex", "ip">>, <<"ilock", "ip">>, <<"open", "ip">>>>, t0) = t3 /\ <<<<"namex", "ip">>, <<"ilock", "ip">>, <<"open", "ip">>>> \in Seq(Steps)
    BY <1>0, Piece9, RegsIn DEF Sum, t1, t2, t3
  <2>2. Cat(<<<<"namex", "ip">>, <<"ilock", "ip">>, <<"open", "ip">>>>, t0) = <<<<"namex", "ip">>, <<"ilock", "ip">>, <<"open", "ip">>>>
    BY <2>1, CatNone DEF t0
  <2>. QED BY <2>1, <2>2
<1>5. MayFail(t3) /\ Fail(t3) = <<>>
  BY <1>3 DEF Shape, MayFail, Fail
<1>. QED BY <1>3, <1>4, <1>5, Zenon

LEMMA IsCreate ==
  ASSUME NEW t, t = CreateCode \o <<<<"commit", "ip">>, <<"open", "ip">>>>
  PROVE  /\ Sum(t, {}, {}, FALSE, FALSE)
         /\ Shape(t, FALSE, TRUE, TRUE, FALSE, FALSE, FALSE, FALSE, FALSE)
         /\ t # <<>> /\ Head(t) = <<"begin", "dp">> /\ \A o : Top(t, o) <=> o = "begin"
         /\ MayFail(t) /\ Fail(t) = CommitIp
<1>. DEFINE t0 == <<>>
            t1 == On("open", "ip", t0)
            t2 == On("commit", "ip", t1)
            t3 == On("create", "ip", t2)
            t4 == On("ilock", "dp", t3)
            t5 == On("namex", "dp", t4)
            t6 == On("begin", "dp", t5)
<1>0. /\ Sum(t0, {}, {}, FALSE, FALSE) /\ Shape(t0, FALSE, FALSE, FALSE, FALSE, FALSE, FALSE, FALSE, FALSE)
      /\ \A o : ~Top(t0, o)
  BY Nothing
<1>. HIDE DEF t0
<1>1. /\ Sum(t1, {"ip"}, {"ip"}, FALSE, FALSE)
      /\ Shape(t1, FALSE, FALSE, FALSE, FALSE, FALSE, FALSE, FALSE, FALSE)
      /\ t1 # <<>> /\ Head(t1) = <<"open", "ip">> /\ \A o : Top(t1, o) <=> o = "open"
  <2>1. t0 = <<>>
    BY DEF t0
  <2>3. Sum(t1, {"ip"}, {"ip"}, FALSE, FALSE) /\ t1 # <<>> /\ Head(t1) = <<"open", "ip">> /\ \A o : Top(t1, o) <=> o = "open"
    BY <1>0, <2>1, RegsIn, Op_open DEF Sum
  <2>4. Shape(t1, FALSE, FALSE, FALSE, FALSE, FALSE, FALSE, FALSE, FALSE)
    <3>1. Like(t1, t0) /\ (OnFile(t1) <=> OnFile(t0))
      BY <1>0, RegsIn, Op_open DEF Sum
    <3>. QED BY <1>0, <3>1, LikeShape
  <2>. QED BY <2>3, <2>4
<1>. HIDE DEF t1
<1>2. /\ Sum(t2, {"ip"}, {"ip"}, TRUE, FALSE)
      /\ Shape(t2, FALSE, FALSE, FALSE, FALSE, FALSE, FALSE, FALSE, FALSE)
      /\ t2 # <<>> /\ Head(t2) = <<"commit", "ip">> /\ \A o : Top(t2, o) <=> o = "commit"
  <2>3. Sum(t2, {"ip"}, {"ip"}, TRUE, FALSE) /\ t2 # <<>> /\ Head(t2) = <<"commit", "ip">> /\ \A o : Top(t2, o) <=> o = "commit"
    <3>1. t1 \in Seq(Steps) /\ TRUE
      BY <1>1, RegsIn DEF Sum
    <3>2. Pointers(t2) = {"ip"}
      BY <3>1, <1>1, RegsIn, Op_commit DEF Sum
    <3>3. Locked(t2) = {"ip"}
      <4>1. Locked(t2) = Locked(t1)
        BY <3>1, RegsIn, Op_commit
      <4>. QED BY <4>1, <1>1 DEF Sum
    <3>4. t2 \in Seq(Steps) /\ Logged(t2) /\ ~Leaves(t2)
      BY <3>1, <1>1, RegsIn, Op_commit DEF Sum
    <3>5. Code(t2)
      <4>1. Code(t1) /\ ~Top(t1, "fileclose") /\ ~Top(t1, "setcwd") /\ ~Logged(t1)
        BY <3>1, <1>1 DEF Sum
      <4>. QED BY <3>1, <4>1, RegsIn, Op_commit
    <3>6. t2 # <<>> /\ Head(t2) = <<"commit", "ip">> /\ \A o : Top(t2, o) <=> o = "commit"
      BY <3>1, RegsIn, Op_commit
    <3>. QED BY <3>2, <3>3, <3>4, <3>5, <3>6 DEF Sum
  <2>4. Shape(t2, FALSE, FALSE, FALSE, FALSE, FALSE, FALSE, FALSE, FALSE)
    <3>1. Like(t2, t1) /\ (OnFile(t2) <=> OnFile(t1))
      BY <1>1, RegsIn, Op_commit DEF Sum
    <3>. QED BY <1>1, <3>1, LikeShape
  <2>. QED BY <2>3, <2>4
<1>. HIDE DEF t2
<1>3. /\ Sum(t3, {"dp"}, {"dp"}, TRUE, FALSE)
      /\ Shape(t3, FALSE, FALSE, TRUE, FALSE, FALSE, FALSE, FALSE, FALSE)
      /\ t3 # <<>> /\ Head(t3) = <<"create", "ip">> /\ \A o : Top(t3, o) <=> o = "create"
  <2>1. ~MayFail(t2)
    BY <1>2 DEF Shape, MayFail
  <2>3. Sum(t3, {"dp"}, {"dp"}, TRUE, FALSE) /\ t3 # <<>> /\ Head(t3) = <<"create", "ip">> /\ \A o : Top(t3, o) <=> o = "create"
    BY <1>2, <2>1, RegsIn, Op_create DEF Sum
  <2>4. Shape(t3, FALSE, FALSE, TRUE, FALSE, FALSE, FALSE, FALSE, FALSE)
    BY <1>2, RegsIn, Op_create DEF Sum, Shape, Like, Flags
  <2>. QED BY <2>3, <2>4
<1>. HIDE DEF t3
<1>4. /\ Sum(t4, {"dp"}, {}, TRUE, FALSE)
      /\ Shape(t4, FALSE, FALSE, TRUE, FALSE, FALSE, FALSE, FALSE, FALSE)
      /\ t4 # <<>> /\ Head(t4) = <<"ilock", "dp">> /\ \A o : Top(t4, o) <=> o = "ilock"
  <2>3. Sum(t4, {"dp"}, {}, TRUE, FALSE) /\ t4 # <<>> /\ Head(t4) = <<"ilock", "dp">> /\ \A o : Top(t4, o) <=> o = "ilock"
    <3>1. t3 \in Seq(Steps) /\ "dp" \in CallPtrs \cup {"fip"}
      BY <1>3, RegsIn DEF Sum
    <3>2. Pointers(t4) = {"dp"}
      BY <3>1, <1>3, RegsIn, Op_ilock DEF Sum
    <3>3. Locked(t4) = {}
      <4>1. Locked(t4) = Locked(t3) \ {"dp"}
        BY <3>1, RegsIn, Op_ilock
      <4>. QED BY <4>1, <1>3 DEF Sum
    <3>4. t4 \in Seq(Steps) /\ Logged(t4) /\ ~Leaves(t4)
      BY <3>1, <1>3, RegsIn, Op_ilock DEF Sum
    <3>5. Code(t4)
      <4>1. Code(t3) /\ ~Top(t3, "fileclose") /\ ~Top(t3, "setcwd") /\ "dp" \in Locked(t3) /\ "dp" \in Pointers(t3) \cup {"fip"}
        BY <3>1, <1>3 DEF Sum
      <4>. QED BY <3>1, <4>1, RegsIn, Op_ilock
    <3>6. t4 # <<>> /\ Head(t4) = <<"ilock", "dp">> /\ \A o : Top(t4, o) <=> o = "ilock"
      BY <3>1, RegsIn, Op_ilock
    <3>. QED BY <3>2, <3>3, <3>4, <3>5, <3>6 DEF Sum
  <2>4. Shape(t4, FALSE, FALSE, TRUE, FALSE, FALSE, FALSE, FALSE, FALSE)
    <3>1. Like(t4, t3) /\ (OnFile(t4) <=> OnFile(t3))
      BY <1>3, RegsIn, Op_ilock DEF Sum
    <3>. QED BY <1>3, <3>1, LikeShape
  <2>. QED BY <2>3, <2>4
<1>. HIDE DEF t4
<1>5. /\ Sum(t5, {}, {}, TRUE, FALSE)
      /\ Shape(t5, FALSE, TRUE, TRUE, FALSE, FALSE, FALSE, FALSE, FALSE)
      /\ t5 # <<>> /\ Head(t5) = <<"namex", "dp">> /\ \A o : Top(t5, o) <=> o = "namex"
  <2>1. Fail(t4) = CommitIp
    BY <1>4 DEF Shape, Fail
  <2>2. Pointers(Fail(t4)) = {} /\ Logged(Fail(t4))
    BY <2>1, IsCommitIp DEF Sum
  <2>3. Sum(t5, {}, {}, TRUE, FALSE) /\ t5 # <<>> /\ Head(t5) = <<"namex", "dp">> /\ \A o : Top(t5, o) <=> o = "namex"
    <3>1. t4 \in Seq(Steps) /\ "dp" \in {"ip", "dp"}
      BY <1>4, RegsIn DEF Sum
    <3>2. Pointers(t5) = {}
      BY <3>1, <1>4, RegsIn, Op_namex DEF Sum
    <3>3. Locked(t5) = {}
      <4>1. Locked(t5) = Locked(t4)
        BY <3>1, RegsIn, Op_namex
      <4>. QED BY <4>1, <1>4 DEF Sum
    <3>4. t5 \in Seq(Steps) /\ Logged(t5) /\ ~Leaves(t5)
      BY <3>1, <1>4, RegsIn, Op_namex DEF Sum
    <3>5. Code(t5)
      <4>1. Code(t4) /\ ~Top(t4, "fileclose") /\ ~Top(t4, "setcwd") /\ Pointers(t4) = Pointers(Fail(t4)) \cup {"dp"} /\ "dp" \notin Pointers(Fail(t4)) /\ Locked(t4) = {} /\ (Logged(t4) <=> Logged(Fail(t4))) /\ (~Has(t4, "bump") => ~Walks(t4, "ip") /\ ~Walks(t4, "dp")) /\ ("dp" = "dp" => ~Has(t4, "bump"))
        BY <3>1, <1>4, <2>2 DEF Sum, Shape
      <4>. QED BY <3>1, <4>1, RegsIn, Op_namex
    <3>6. t5 # <<>> /\ Head(t5) = <<"namex", "dp">> /\ \A o : Top(t5, o) <=> o = "namex"
      BY <3>1, RegsIn, Op_namex
    <3>. QED BY <3>2, <3>3, <3>4, <3>5, <3>6 DEF Sum
  <2>4. Shape(t5, FALSE, TRUE, TRUE, FALSE, FALSE, FALSE, FALSE, FALSE)
    BY <1>4, RegsIn, Op_namex DEF Sum, Shape, Like, Flags
  <2>. QED BY <2>3, <2>4
<1>. HIDE DEF t5
<1>6. /\ Sum(t6, {}, {}, FALSE, FALSE)
      /\ Shape(t6, FALSE, TRUE, TRUE, FALSE, FALSE, FALSE, FALSE, FALSE)
      /\ t6 # <<>> /\ Head(t6) = <<"begin", "dp">> /\ \A o : Top(t6, o) <=> o = "begin"
  <2>3. Sum(t6, {}, {}, FALSE, FALSE) /\ t6 # <<>> /\ Head(t6) = <<"begin", "dp">> /\ \A o : Top(t6, o) <=> o = "begin"
    BY <1>5, RegsIn, Op_begin DEF Sum
  <2>4. Shape(t6, FALSE, TRUE, TRUE, FALSE, FALSE, FALSE, FALSE, FALSE)
    <3>1. Like(t6, t5) /\ (OnFile(t6) <=> OnFile(t5))
      BY <1>5, RegsIn, Op_begin DEF Sum
    <3>. QED BY <1>5, <3>1, LikeShape
  <2>. QED BY <2>3, <2>4
<1>. HIDE DEF t6
<1>7. t = t6
  <2>1. t0 \in Seq(Steps) /\ Cat(<<<<"commit", "ip">>, <<"open", "ip">>>>, t0) = t2 /\ <<<<"commit", "ip">>, <<"open", "ip">>>> \in Seq(Steps)
    BY <1>0, Piece10, RegsIn DEF Sum, t1, t2
  <2>2. t2 \in Seq(Steps) /\ Cat(CreateCode, t2) = t6 /\ CreateCode \in Seq(Steps)
    BY <1>2, PieceCreateCode, RegsIn DEF Sum, t3, t4, t5, t6
  <2>3. PICK A1 \in Seq(Steps) : A1 = CreateCode /\ Cat(A1, t2) = t6
    BY <2>2, Zenon
  <2>4. PICK A2 \in Seq(Steps) : A2 = <<<<"commit", "ip">>, <<"open", "ip">>>> /\ Cat(A2, t0) = t2
    BY <2>1, Zenon
  <2>5. t = Cat(A1, A2)
    BY <2>3, <2>4, Zenon DEF Cat
  <2>6. Cat(A1, A2) \in Seq(Steps)
    BY CatAssoc
  <2>7. Cat(Cat(A1, A2), t0) = Cat(A1, A2)
    BY <2>6, CatNone DEF t0
  <2>8. Cat(Cat(A1, A2), t0) = Cat(A1, t2)
    <3>1. Cat(Cat(A1, A2), t0) = Cat(A1, Cat(A2, t0))
      BY <2>1, CatAssoc
    <3>. QED BY <3>1, <2>4
  <2>. QED BY <2>5, <2>7, <2>8, <2>3
<1>8. MayFail(t6) /\ Fail(t6) = CommitIp
  BY <1>6 DEF Shape, MayFail, Fail
<1>. QED BY <1>6, <1>7, <1>8, Zenon

LEMMA IsMkdir ==
  ASSUME NEW t, t = CreateCode \o UnlockPut("ip") \o <<<<"commit", "ip">>>>
  PROVE  /\ Sum(t, {}, {}, FALSE, FALSE)
         /\ Shape(t, FALSE, TRUE, TRUE, FALSE, FALSE, FALSE, FALSE, FALSE)
         /\ t # <<>> /\ Head(t) = <<"begin", "dp">> /\ \A o : Top(t, o) <=> o = "begin"
         /\ MayFail(t) /\ Fail(t) = CommitIp
<1>. DEFINE t0 == <<>>
            t1 == On("commit", "ip", t0)
            t2 == On("iput", "ip", t1)
            t3 == On("iunlock", "ip", t2)
            t4 == On("create", "ip", t3)
            t5 == On("ilock", "dp", t4)
            t6 == On("namex", "dp", t5)
            t7 == On("begin", "dp", t6)
<1>0. /\ Sum(t0, {}, {}, FALSE, FALSE) /\ Shape(t0, FALSE, FALSE, FALSE, FALSE, FALSE, FALSE, FALSE, FALSE)
      /\ \A o : ~Top(t0, o)
  BY Nothing
<1>. HIDE DEF t0
<1>1. /\ Sum(t1, {}, {}, TRUE, FALSE)
      /\ Shape(t1, FALSE, FALSE, FALSE, FALSE, FALSE, FALSE, FALSE, FALSE)
      /\ t1 # <<>> /\ Head(t1) = <<"commit", "ip">> /\ \A o : Top(t1, o) <=> o = "commit"
  <2>3. Sum(t1, {}, {}, TRUE, FALSE) /\ t1 # <<>> /\ Head(t1) = <<"commit", "ip">> /\ \A o : Top(t1, o) <=> o = "commit"
    BY <1>0, RegsIn, Op_commit DEF Sum
  <2>4. Shape(t1, FALSE, FALSE, FALSE, FALSE, FALSE, FALSE, FALSE, FALSE)
    <3>1. Like(t1, t0) /\ (OnFile(t1) <=> OnFile(t0))
      BY <1>0, RegsIn, Op_commit DEF Sum
    <3>. QED BY <1>0, <3>1, LikeShape
  <2>. QED BY <2>3, <2>4
<1>. HIDE DEF t1
<1>2. /\ Sum(t2, {"ip"}, {}, TRUE, FALSE)
      /\ Shape(t2, FALSE, FALSE, FALSE, FALSE, FALSE, FALSE, FALSE, FALSE)
      /\ t2 # <<>> /\ Head(t2) = <<"iput", "ip">> /\ \A o : Top(t2, o) <=> o = "iput"
  <2>3. Sum(t2, {"ip"}, {}, TRUE, FALSE) /\ t2 # <<>> /\ Head(t2) = <<"iput", "ip">> /\ \A o : Top(t2, o) <=> o = "iput"
    BY <1>1, RegsIn, Op_iput DEF Sum
  <2>4. Shape(t2, FALSE, FALSE, FALSE, FALSE, FALSE, FALSE, FALSE, FALSE)
    <3>1. Like(t2, t1) /\ (OnFile(t2) <=> OnFile(t1))
      BY <1>1, RegsIn, Op_iput DEF Sum
    <3>. QED BY <1>1, <3>1, LikeShape
  <2>. QED BY <2>3, <2>4
<1>. HIDE DEF t2
<1>3. /\ Sum(t3, {"ip"}, {"ip"}, TRUE, FALSE)
      /\ Shape(t3, FALSE, FALSE, FALSE, FALSE, FALSE, FALSE, FALSE, FALSE)
      /\ t3 # <<>> /\ Head(t3) = <<"iunlock", "ip">> /\ \A o : Top(t3, o) <=> o = "iunlock"
  <2>3. Sum(t3, {"ip"}, {"ip"}, TRUE, FALSE) /\ t3 # <<>> /\ Head(t3) = <<"iunlock", "ip">> /\ \A o : Top(t3, o) <=> o = "iunlock"
    <3>1. t2 \in Seq(Steps) /\ "ip" \in CallPtrs \cup {"fip"}
      BY <1>2, RegsIn DEF Sum
    <3>2. Pointers(t3) = {"ip"}
      BY <3>1, <1>2, RegsIn, Op_iunlock DEF Sum
    <3>3. Locked(t3) = {"ip"}
      <4>1. Locked(t3) = Locked(t2) \cup {"ip"}
        BY <3>1, RegsIn, Op_iunlock
      <4>. QED BY <4>1, <1>2 DEF Sum
    <3>4. t3 \in Seq(Steps) /\ Logged(t3) /\ ~Leaves(t3)
      BY <3>1, <1>2, RegsIn, Op_iunlock DEF Sum
    <3>5. Code(t3)
      <4>1. Code(t2) /\ ~Top(t2, "fileclose") /\ ~Top(t2, "setcwd") /\ "ip" \notin Locked(t2)
        BY <3>1, <1>2 DEF Sum
      <4>. QED BY <3>1, <4>1, RegsIn, Op_iunlock
    <3>6. t3 # <<>> /\ Head(t3) = <<"iunlock", "ip">> /\ \A o : Top(t3, o) <=> o = "iunlock"
      BY <3>1, RegsIn, Op_iunlock
    <3>. QED BY <3>2, <3>3, <3>4, <3>5, <3>6 DEF Sum
  <2>4. Shape(t3, FALSE, FALSE, FALSE, FALSE, FALSE, FALSE, FALSE, FALSE)
    <3>1. Like(t3, t2) /\ (OnFile(t3) <=> OnFile(t2))
      BY <1>2, RegsIn, Op_iunlock DEF Sum
    <3>. QED BY <1>2, <3>1, LikeShape
  <2>. QED BY <2>3, <2>4
<1>. HIDE DEF t3
<1>4. /\ Sum(t4, {"dp"}, {"dp"}, TRUE, FALSE)
      /\ Shape(t4, FALSE, FALSE, TRUE, FALSE, FALSE, FALSE, FALSE, FALSE)
      /\ t4 # <<>> /\ Head(t4) = <<"create", "ip">> /\ \A o : Top(t4, o) <=> o = "create"
  <2>1. ~MayFail(t3)
    BY <1>3 DEF Shape, MayFail
  <2>3. Sum(t4, {"dp"}, {"dp"}, TRUE, FALSE) /\ t4 # <<>> /\ Head(t4) = <<"create", "ip">> /\ \A o : Top(t4, o) <=> o = "create"
    BY <1>3, <2>1, RegsIn, Op_create DEF Sum
  <2>4. Shape(t4, FALSE, FALSE, TRUE, FALSE, FALSE, FALSE, FALSE, FALSE)
    BY <1>3, RegsIn, Op_create DEF Sum, Shape, Like, Flags
  <2>. QED BY <2>3, <2>4
<1>. HIDE DEF t4
<1>5. /\ Sum(t5, {"dp"}, {}, TRUE, FALSE)
      /\ Shape(t5, FALSE, FALSE, TRUE, FALSE, FALSE, FALSE, FALSE, FALSE)
      /\ t5 # <<>> /\ Head(t5) = <<"ilock", "dp">> /\ \A o : Top(t5, o) <=> o = "ilock"
  <2>3. Sum(t5, {"dp"}, {}, TRUE, FALSE) /\ t5 # <<>> /\ Head(t5) = <<"ilock", "dp">> /\ \A o : Top(t5, o) <=> o = "ilock"
    <3>1. t4 \in Seq(Steps) /\ "dp" \in CallPtrs \cup {"fip"}
      BY <1>4, RegsIn DEF Sum
    <3>2. Pointers(t5) = {"dp"}
      BY <3>1, <1>4, RegsIn, Op_ilock DEF Sum
    <3>3. Locked(t5) = {}
      <4>1. Locked(t5) = Locked(t4) \ {"dp"}
        BY <3>1, RegsIn, Op_ilock
      <4>. QED BY <4>1, <1>4 DEF Sum
    <3>4. t5 \in Seq(Steps) /\ Logged(t5) /\ ~Leaves(t5)
      BY <3>1, <1>4, RegsIn, Op_ilock DEF Sum
    <3>5. Code(t5)
      <4>1. Code(t4) /\ ~Top(t4, "fileclose") /\ ~Top(t4, "setcwd") /\ "dp" \in Locked(t4) /\ "dp" \in Pointers(t4) \cup {"fip"}
        BY <3>1, <1>4 DEF Sum
      <4>. QED BY <3>1, <4>1, RegsIn, Op_ilock
    <3>6. t5 # <<>> /\ Head(t5) = <<"ilock", "dp">> /\ \A o : Top(t5, o) <=> o = "ilock"
      BY <3>1, RegsIn, Op_ilock
    <3>. QED BY <3>2, <3>3, <3>4, <3>5, <3>6 DEF Sum
  <2>4. Shape(t5, FALSE, FALSE, TRUE, FALSE, FALSE, FALSE, FALSE, FALSE)
    <3>1. Like(t5, t4) /\ (OnFile(t5) <=> OnFile(t4))
      BY <1>4, RegsIn, Op_ilock DEF Sum
    <3>. QED BY <1>4, <3>1, LikeShape
  <2>. QED BY <2>3, <2>4
<1>. HIDE DEF t5
<1>6. /\ Sum(t6, {}, {}, TRUE, FALSE)
      /\ Shape(t6, FALSE, TRUE, TRUE, FALSE, FALSE, FALSE, FALSE, FALSE)
      /\ t6 # <<>> /\ Head(t6) = <<"namex", "dp">> /\ \A o : Top(t6, o) <=> o = "namex"
  <2>1. Fail(t5) = CommitIp
    BY <1>5 DEF Shape, Fail
  <2>2. Pointers(Fail(t5)) = {} /\ Logged(Fail(t5))
    BY <2>1, IsCommitIp DEF Sum
  <2>3. Sum(t6, {}, {}, TRUE, FALSE) /\ t6 # <<>> /\ Head(t6) = <<"namex", "dp">> /\ \A o : Top(t6, o) <=> o = "namex"
    <3>1. t5 \in Seq(Steps) /\ "dp" \in {"ip", "dp"}
      BY <1>5, RegsIn DEF Sum
    <3>2. Pointers(t6) = {}
      BY <3>1, <1>5, RegsIn, Op_namex DEF Sum
    <3>3. Locked(t6) = {}
      <4>1. Locked(t6) = Locked(t5)
        BY <3>1, RegsIn, Op_namex
      <4>. QED BY <4>1, <1>5 DEF Sum
    <3>4. t6 \in Seq(Steps) /\ Logged(t6) /\ ~Leaves(t6)
      BY <3>1, <1>5, RegsIn, Op_namex DEF Sum
    <3>5. Code(t6)
      <4>1. Code(t5) /\ ~Top(t5, "fileclose") /\ ~Top(t5, "setcwd") /\ Pointers(t5) = Pointers(Fail(t5)) \cup {"dp"} /\ "dp" \notin Pointers(Fail(t5)) /\ Locked(t5) = {} /\ (Logged(t5) <=> Logged(Fail(t5))) /\ (~Has(t5, "bump") => ~Walks(t5, "ip") /\ ~Walks(t5, "dp")) /\ ("dp" = "dp" => ~Has(t5, "bump"))
        BY <3>1, <1>5, <2>2 DEF Sum, Shape
      <4>. QED BY <3>1, <4>1, RegsIn, Op_namex
    <3>6. t6 # <<>> /\ Head(t6) = <<"namex", "dp">> /\ \A o : Top(t6, o) <=> o = "namex"
      BY <3>1, RegsIn, Op_namex
    <3>. QED BY <3>2, <3>3, <3>4, <3>5, <3>6 DEF Sum
  <2>4. Shape(t6, FALSE, TRUE, TRUE, FALSE, FALSE, FALSE, FALSE, FALSE)
    BY <1>5, RegsIn, Op_namex DEF Sum, Shape, Like, Flags
  <2>. QED BY <2>3, <2>4
<1>. HIDE DEF t6
<1>7. /\ Sum(t7, {}, {}, FALSE, FALSE)
      /\ Shape(t7, FALSE, TRUE, TRUE, FALSE, FALSE, FALSE, FALSE, FALSE)
      /\ t7 # <<>> /\ Head(t7) = <<"begin", "dp">> /\ \A o : Top(t7, o) <=> o = "begin"
  <2>3. Sum(t7, {}, {}, FALSE, FALSE) /\ t7 # <<>> /\ Head(t7) = <<"begin", "dp">> /\ \A o : Top(t7, o) <=> o = "begin"
    BY <1>6, RegsIn, Op_begin DEF Sum
  <2>4. Shape(t7, FALSE, TRUE, TRUE, FALSE, FALSE, FALSE, FALSE, FALSE)
    <3>1. Like(t7, t6) /\ (OnFile(t7) <=> OnFile(t6))
      BY <1>6, RegsIn, Op_begin DEF Sum
    <3>. QED BY <1>6, <3>1, LikeShape
  <2>. QED BY <2>3, <2>4
<1>. HIDE DEF t7
<1>8. t = t7
  <2>1. t0 \in Seq(Steps) /\ Cat(<<<<"commit", "ip">>>>, t0) = t1 /\ <<<<"commit", "ip">>>> \in Seq(Steps)
    BY <1>0, Piece3, RegsIn DEF Sum, t1
  <2>2. t1 \in Seq(Steps) /\ Cat(UnlockPut("ip"), t1) = t3 /\ UnlockPut("ip") \in Seq(Steps)
    BY <1>1, PieceUnlockPut, RegsIn DEF Sum, t2, t3
  <2>3. t3 \in Seq(Steps) /\ Cat(CreateCode, t3) = t7 /\ CreateCode \in Seq(Steps)
    BY <1>3, PieceCreateCode, RegsIn DEF Sum, t4, t5, t6, t7
  <2>4. PICK A1 \in Seq(Steps) : A1 = CreateCode /\ Cat(A1, t3) = t7
    BY <2>3, Zenon
  <2>5. PICK A2 \in Seq(Steps) : A2 = UnlockPut("ip") /\ Cat(A2, t1) = t3
    BY <2>2, Zenon
  <2>6. PICK A3 \in Seq(Steps) : A3 = <<<<"commit", "ip">>>> /\ Cat(A3, t0) = t1
    BY <2>1, Zenon
  <2>7. t = Cat(Cat(A1, A2), A3)
    BY <2>4, <2>5, <2>6, Zenon DEF Cat
  <2>8. Cat(A1, A2) \in Seq(Steps)
    BY CatAssoc
  <2>9. Cat(Cat(A1, A2), A3) \in Seq(Steps)
    BY <2>8, CatAssoc
  <2>10. Cat(Cat(Cat(A1, A2), A3), t0) = Cat(Cat(A1, A2), A3)
    BY <2>9, CatNone DEF t0
  <2>11. Cat(Cat(Cat(A1, A2), A3), t0) = Cat(Cat(A1, A2), t1)
    <3>1. Cat(Cat(Cat(A1, A2), A3), t0) = Cat(Cat(A1, A2), Cat(A3, t0))
      BY <2>8, <2>1, CatAssoc
    <3>. QED BY <3>1, <2>6
  <2>12. Cat(Cat(A1, A2), t1) = Cat(A1, t3)
    <3>1. Cat(Cat(A1, A2), t1) = Cat(A1, Cat(A2, t1))
      BY <2>2, CatAssoc
    <3>. QED BY <3>1, <2>5
  <2>. QED BY <2>7, <2>10, <2>11, <2>12, <2>4
<1>9. MayFail(t7) /\ Fail(t7) = CommitIp
  BY <1>7 DEF Shape, MayFail, Fail
<1>. QED BY <1>7, <1>8, <1>9, Zenon

LEMMA IsLink ==
  ASSUME NEW t, t = <<<<"namex", "ip">>, <<"begin", "ip">>, <<"ilock", "ip">>, <<"bump", "ip">>, <<"iunlock", "ip">>>> \o <<<<"namex", "dp">>, <<"ilock", "dp">>, <<"entry", "dp">>>> \o UnlockPut("dp") \o <<<<"iput", "ip">>, <<"commit", "ip">>>>
  PROVE  /\ Sum(t, {}, {}, FALSE, FALSE)
         /\ Shape(t, TRUE, TRUE, FALSE, FALSE, TRUE, TRUE, FALSE, FALSE)
         /\ t # <<>> /\ Head(t) = <<"namex", "ip">> /\ \A o : Top(t, o) <=> o = "namex"
         /\ MayFail(t) /\ Fail(t) = <<>>
<1>. DEFINE t0 == <<>>
            t1 == On("commit", "ip", t0)
            t2 == On("iput", "ip", t1)
            t3 == On("iput", "dp", t2)
            t4 == On("iunlock", "dp", t3)
            t5 == On("entry", "dp", t4)
            t6 == On("ilock", "dp", t5)
            t7 == On("namex", "dp", t6)
            t8 == On("iunlock", "ip", t7)
            t9 == On("bump", "ip", t8)
            t10 == On("ilock", "ip", t9)
            t11 == On("begin", "ip", t10)
            t12 == On("namex", "ip", t11)
<1>0. /\ Sum(t0, {}, {}, FALSE, FALSE) /\ Shape(t0, FALSE, FALSE, FALSE, FALSE, FALSE, FALSE, FALSE, FALSE)
      /\ \A o : ~Top(t0, o)
  BY Nothing
<1>. HIDE DEF t0
<1>1. /\ Sum(t1, {}, {}, TRUE, FALSE)
      /\ Shape(t1, FALSE, FALSE, FALSE, FALSE, FALSE, FALSE, FALSE, FALSE)
      /\ t1 # <<>> /\ Head(t1) = <<"commit", "ip">> /\ \A o : Top(t1, o) <=> o = "commit"
  <2>3. Sum(t1, {}, {}, TRUE, FALSE) /\ t1 # <<>> /\ Head(t1) = <<"commit", "ip">> /\ \A o : Top(t1, o) <=> o = "commit"
    BY <1>0, RegsIn, Op_commit DEF Sum
  <2>4. Shape(t1, FALSE, FALSE, FALSE, FALSE, FALSE, FALSE, FALSE, FALSE)
    <3>1. Like(t1, t0) /\ (OnFile(t1) <=> OnFile(t0))
      BY <1>0, RegsIn, Op_commit DEF Sum
    <3>. QED BY <1>0, <3>1, LikeShape
  <2>. QED BY <2>3, <2>4
<1>. HIDE DEF t1
<1>2. /\ Sum(t2, {"ip"}, {}, TRUE, FALSE)
      /\ Shape(t2, FALSE, FALSE, FALSE, FALSE, FALSE, FALSE, FALSE, FALSE)
      /\ t2 # <<>> /\ Head(t2) = <<"iput", "ip">> /\ \A o : Top(t2, o) <=> o = "iput"
  <2>3. Sum(t2, {"ip"}, {}, TRUE, FALSE) /\ t2 # <<>> /\ Head(t2) = <<"iput", "ip">> /\ \A o : Top(t2, o) <=> o = "iput"
    BY <1>1, RegsIn, Op_iput DEF Sum
  <2>4. Shape(t2, FALSE, FALSE, FALSE, FALSE, FALSE, FALSE, FALSE, FALSE)
    <3>1. Like(t2, t1) /\ (OnFile(t2) <=> OnFile(t1))
      BY <1>1, RegsIn, Op_iput DEF Sum
    <3>. QED BY <1>1, <3>1, LikeShape
  <2>. QED BY <2>3, <2>4
<1>. HIDE DEF t2
<1>3. /\ Sum(t3, {"dp", "ip"}, {}, TRUE, FALSE)
      /\ Shape(t3, FALSE, FALSE, FALSE, FALSE, FALSE, FALSE, FALSE, FALSE)
      /\ t3 # <<>> /\ Head(t3) = <<"iput", "dp">> /\ \A o : Top(t3, o) <=> o = "iput"
  <2>3. Sum(t3, {"dp", "ip"}, {}, TRUE, FALSE) /\ t3 # <<>> /\ Head(t3) = <<"iput", "dp">> /\ \A o : Top(t3, o) <=> o = "iput"
    BY <1>2, RegsIn, Op_iput DEF Sum
  <2>4. Shape(t3, FALSE, FALSE, FALSE, FALSE, FALSE, FALSE, FALSE, FALSE)
    <3>1. Like(t3, t2) /\ (OnFile(t3) <=> OnFile(t2))
      BY <1>2, RegsIn, Op_iput DEF Sum
    <3>. QED BY <1>2, <3>1, LikeShape
  <2>. QED BY <2>3, <2>4
<1>. HIDE DEF t3
<1>4. /\ Sum(t4, {"dp", "ip"}, {"dp"}, TRUE, FALSE)
      /\ Shape(t4, FALSE, FALSE, FALSE, FALSE, FALSE, FALSE, FALSE, FALSE)
      /\ t4 # <<>> /\ Head(t4) = <<"iunlock", "dp">> /\ \A o : Top(t4, o) <=> o = "iunlock"
  <2>3. Sum(t4, {"dp", "ip"}, {"dp"}, TRUE, FALSE) /\ t4 # <<>> /\ Head(t4) = <<"iunlock", "dp">> /\ \A o : Top(t4, o) <=> o = "iunlock"
    <3>1. t3 \in Seq(Steps) /\ "dp" \in CallPtrs \cup {"fip"}
      BY <1>3, RegsIn DEF Sum
    <3>2. Pointers(t4) = {"dp", "ip"}
      BY <3>1, <1>3, RegsIn, Op_iunlock DEF Sum
    <3>3. Locked(t4) = {"dp"}
      <4>1. Locked(t4) = Locked(t3) \cup {"dp"}
        BY <3>1, RegsIn, Op_iunlock
      <4>. QED BY <4>1, <1>3 DEF Sum
    <3>4. t4 \in Seq(Steps) /\ Logged(t4) /\ ~Leaves(t4)
      BY <3>1, <1>3, RegsIn, Op_iunlock DEF Sum
    <3>5. Code(t4)
      <4>1. Code(t3) /\ ~Top(t3, "fileclose") /\ ~Top(t3, "setcwd") /\ "dp" \notin Locked(t3)
        BY <3>1, <1>3 DEF Sum
      <4>. QED BY <3>1, <4>1, RegsIn, Op_iunlock
    <3>6. t4 # <<>> /\ Head(t4) = <<"iunlock", "dp">> /\ \A o : Top(t4, o) <=> o = "iunlock"
      BY <3>1, RegsIn, Op_iunlock
    <3>. QED BY <3>2, <3>3, <3>4, <3>5, <3>6 DEF Sum
  <2>4. Shape(t4, FALSE, FALSE, FALSE, FALSE, FALSE, FALSE, FALSE, FALSE)
    <3>1. Like(t4, t3) /\ (OnFile(t4) <=> OnFile(t3))
      BY <1>3, RegsIn, Op_iunlock DEF Sum
    <3>. QED BY <1>3, <3>1, LikeShape
  <2>. QED BY <2>3, <2>4
<1>. HIDE DEF t4
<1>5. /\ Sum(t5, {"dp", "ip"}, {"dp"}, TRUE, FALSE)
      /\ Shape(t5, FALSE, FALSE, FALSE, FALSE, TRUE, FALSE, FALSE, FALSE)
      /\ t5 # <<>> /\ Head(t5) = <<"entry", "dp">> /\ \A o : Top(t5, o) <=> o = "entry"
  <2>1. ~MayFail(t4)
    BY <1>4 DEF Shape, MayFail
  <2>3. Sum(t5, {"dp", "ip"}, {"dp"}, TRUE, FALSE) /\ t5 # <<>> /\ Head(t5) = <<"entry", "dp">> /\ \A o : Top(t5, o) <=> o = "entry"
    BY <1>4, <2>1, RegsIn, Op_entry DEF Sum
  <2>4. Shape(t5, FALSE, FALSE, FALSE, FALSE, TRUE, FALSE, FALSE, FALSE)
    BY <1>4, RegsIn, Op_entry DEF Sum, Shape, Like, Flags
  <2>. QED BY <2>3, <2>4
<1>. HIDE DEF t5
<1>6. /\ Sum(t6, {"dp", "ip"}, {}, TRUE, FALSE)
      /\ Shape(t6, FALSE, FALSE, FALSE, FALSE, TRUE, FALSE, FALSE, FALSE)
      /\ t6 # <<>> /\ Head(t6) = <<"ilock", "dp">> /\ \A o : Top(t6, o) <=> o = "ilock"
  <2>3. Sum(t6, {"dp", "ip"}, {}, TRUE, FALSE) /\ t6 # <<>> /\ Head(t6) = <<"ilock", "dp">> /\ \A o : Top(t6, o) <=> o = "ilock"
    <3>1. t5 \in Seq(Steps) /\ "dp" \in CallPtrs \cup {"fip"}
      BY <1>5, RegsIn DEF Sum
    <3>2. Pointers(t6) = {"dp", "ip"}
      BY <3>1, <1>5, RegsIn, Op_ilock DEF Sum
    <3>3. Locked(t6) = {}
      <4>1. Locked(t6) = Locked(t5) \ {"dp"}
        BY <3>1, RegsIn, Op_ilock
      <4>. QED BY <4>1, <1>5 DEF Sum
    <3>4. t6 \in Seq(Steps) /\ Logged(t6) /\ ~Leaves(t6)
      BY <3>1, <1>5, RegsIn, Op_ilock DEF Sum
    <3>5. Code(t6)
      <4>1. Code(t5) /\ ~Top(t5, "fileclose") /\ ~Top(t5, "setcwd") /\ "dp" \in Locked(t5) /\ "dp" \in Pointers(t5) \cup {"fip"}
        BY <3>1, <1>5 DEF Sum
      <4>. QED BY <3>1, <4>1, RegsIn, Op_ilock
    <3>6. t6 # <<>> /\ Head(t6) = <<"ilock", "dp">> /\ \A o : Top(t6, o) <=> o = "ilock"
      BY <3>1, RegsIn, Op_ilock
    <3>. QED BY <3>2, <3>3, <3>4, <3>5, <3>6 DEF Sum
  <2>4. Shape(t6, FALSE, FALSE, FALSE, FALSE, TRUE, FALSE, FALSE, FALSE)
    <3>1. Like(t6, t5) /\ (OnFile(t6) <=> OnFile(t5))
      BY <1>5, RegsIn, Op_ilock DEF Sum
    <3>. QED BY <1>5, <3>1, LikeShape
  <2>. QED BY <2>3, <2>4
<1>. HIDE DEF t6
<1>7. /\ Sum(t7, {"ip"}, {}, TRUE, FALSE)
      /\ Shape(t7, FALSE, TRUE, FALSE, FALSE, TRUE, FALSE, FALSE, FALSE)
      /\ t7 # <<>> /\ Head(t7) = <<"namex", "dp">> /\ \A o : Top(t7, o) <=> o = "namex"
  <2>1. Fail(t6) = LinkBad
    BY <1>6 DEF Shape, Fail
  <2>2. Pointers(Fail(t6)) = {"ip"} /\ Logged(Fail(t6))
    BY <2>1, IsLinkBad DEF Sum
  <2>3. Sum(t7, {"ip"}, {}, TRUE, FALSE) /\ t7 # <<>> /\ Head(t7) = <<"namex", "dp">> /\ \A o : Top(t7, o) <=> o = "namex"
    <3>1. t6 \in Seq(Steps) /\ "dp" \in {"ip", "dp"}
      BY <1>6, RegsIn DEF Sum
    <3>2. Pointers(t7) = {"ip"}
      BY <3>1, <1>6, RegsIn, Op_namex DEF Sum
    <3>3. Locked(t7) = {}
      <4>1. Locked(t7) = Locked(t6)
        BY <3>1, RegsIn, Op_namex
      <4>. QED BY <4>1, <1>6 DEF Sum
    <3>4. t7 \in Seq(Steps) /\ Logged(t7) /\ ~Leaves(t7)
      BY <3>1, <1>6, RegsIn, Op_namex DEF Sum
    <3>5. Code(t7)
      <4>1. Code(t6) /\ ~Top(t6, "fileclose") /\ ~Top(t6, "setcwd") /\ Pointers(t6) = Pointers(Fail(t6)) \cup {"dp"} /\ "dp" \notin Pointers(Fail(t6)) /\ Locked(t6) = {} /\ (Logged(t6) <=> Logged(Fail(t6))) /\ (~Has(t6, "bump") => ~Walks(t6, "ip") /\ ~Walks(t6, "dp")) /\ ("dp" = "dp" => ~Has(t6, "bump"))
        BY <3>1, <1>6, <2>2 DEF Sum, Shape
      <4>. QED BY <3>1, <4>1, RegsIn, Op_namex
    <3>6. t7 # <<>> /\ Head(t7) = <<"namex", "dp">> /\ \A o : Top(t7, o) <=> o = "namex"
      BY <3>1, RegsIn, Op_namex
    <3>. QED BY <3>2, <3>3, <3>4, <3>5, <3>6 DEF Sum
  <2>4. Shape(t7, FALSE, TRUE, FALSE, FALSE, TRUE, FALSE, FALSE, FALSE)
    BY <1>6, RegsIn, Op_namex DEF Sum, Shape, Like, Flags
  <2>. QED BY <2>3, <2>4
<1>. HIDE DEF t7
<1>8. /\ Sum(t8, {"ip"}, {"ip"}, TRUE, FALSE)
      /\ Shape(t8, FALSE, TRUE, FALSE, FALSE, TRUE, FALSE, FALSE, FALSE)
      /\ t8 # <<>> /\ Head(t8) = <<"iunlock", "ip">> /\ \A o : Top(t8, o) <=> o = "iunlock"
  <2>3. Sum(t8, {"ip"}, {"ip"}, TRUE, FALSE) /\ t8 # <<>> /\ Head(t8) = <<"iunlock", "ip">> /\ \A o : Top(t8, o) <=> o = "iunlock"
    <3>1. t7 \in Seq(Steps) /\ "ip" \in CallPtrs \cup {"fip"}
      BY <1>7, RegsIn DEF Sum
    <3>2. Pointers(t8) = {"ip"}
      BY <3>1, <1>7, RegsIn, Op_iunlock DEF Sum
    <3>3. Locked(t8) = {"ip"}
      <4>1. Locked(t8) = Locked(t7) \cup {"ip"}
        BY <3>1, RegsIn, Op_iunlock
      <4>. QED BY <4>1, <1>7 DEF Sum
    <3>4. t8 \in Seq(Steps) /\ Logged(t8) /\ ~Leaves(t8)
      BY <3>1, <1>7, RegsIn, Op_iunlock DEF Sum
    <3>5. Code(t8)
      <4>1. Code(t7) /\ ~Top(t7, "fileclose") /\ ~Top(t7, "setcwd") /\ "ip" \notin Locked(t7)
        BY <3>1, <1>7 DEF Sum
      <4>. QED BY <3>1, <4>1, RegsIn, Op_iunlock
    <3>6. t8 # <<>> /\ Head(t8) = <<"iunlock", "ip">> /\ \A o : Top(t8, o) <=> o = "iunlock"
      BY <3>1, RegsIn, Op_iunlock
    <3>. QED BY <3>2, <3>3, <3>4, <3>5, <3>6 DEF Sum
  <2>4. Shape(t8, FALSE, TRUE, FALSE, FALSE, TRUE, FALSE, FALSE, FALSE)
    <3>1. Like(t8, t7) /\ (OnFile(t8) <=> OnFile(t7))
      BY <1>7, RegsIn, Op_iunlock DEF Sum
    <3>. QED BY <1>7, <3>1, LikeShape
  <2>. QED BY <2>3, <2>4
<1>. HIDE DEF t8
<1>9. /\ Sum(t9, {"ip"}, {"ip"}, TRUE, FALSE)
      /\ Shape(t9, FALSE, TRUE, FALSE, FALSE, TRUE, TRUE, FALSE, FALSE)
      /\ t9 # <<>> /\ Head(t9) = <<"bump", "ip">> /\ \A o : Top(t9, o) <=> o = "bump"
  <2>1. Fail(t8) = LinkBad
    BY <1>8 DEF Shape, Fail
  <2>3. Sum(t9, {"ip"}, {"ip"}, TRUE, FALSE) /\ t9 # <<>> /\ Head(t9) = <<"bump", "ip">> /\ \A o : Top(t9, o) <=> o = "bump"
    BY <1>8, <2>1, RegsIn, Op_bump DEF Sum, Shape
  <2>4. Shape(t9, FALSE, TRUE, FALSE, FALSE, TRUE, TRUE, FALSE, FALSE)
    BY <1>8, RegsIn, Op_bump DEF Sum, Shape, Like, Flags
  <2>. QED BY <2>3, <2>4
<1>. HIDE DEF t9
<1>10. /\ Sum(t10, {"ip"}, {}, TRUE, FALSE)
      /\ Shape(t10, FALSE, TRUE, FALSE, FALSE, TRUE, TRUE, FALSE, FALSE)
      /\ t10 # <<>> /\ Head(t10) = <<"ilock", "ip">> /\ \A o : Top(t10, o) <=> o = "ilock"
  <2>3. Sum(t10, {"ip"}, {}, TRUE, FALSE) /\ t10 # <<>> /\ Head(t10) = <<"ilock", "ip">> /\ \A o : Top(t10, o) <=> o = "ilock"
    <3>1. t9 \in Seq(Steps) /\ "ip" \in CallPtrs \cup {"fip"}
      BY <1>9, RegsIn DEF Sum
    <3>2. Pointers(t10) = {"ip"}
      BY <3>1, <1>9, RegsIn, Op_ilock DEF Sum
    <3>3. Locked(t10) = {}
      <4>1. Locked(t10) = Locked(t9) \ {"ip"}
        BY <3>1, RegsIn, Op_ilock
      <4>. QED BY <4>1, <1>9 DEF Sum
    <3>4. t10 \in Seq(Steps) /\ Logged(t10) /\ ~Leaves(t10)
      BY <3>1, <1>9, RegsIn, Op_ilock DEF Sum
    <3>5. Code(t10)
      <4>1. Code(t9) /\ ~Top(t9, "fileclose") /\ ~Top(t9, "setcwd") /\ "ip" \in Locked(t9) /\ "ip" \in Pointers(t9) \cup {"fip"}
        BY <3>1, <1>9 DEF Sum
      <4>. QED BY <3>1, <4>1, RegsIn, Op_ilock
    <3>6. t10 # <<>> /\ Head(t10) = <<"ilock", "ip">> /\ \A o : Top(t10, o) <=> o = "ilock"
      BY <3>1, RegsIn, Op_ilock
    <3>. QED BY <3>2, <3>3, <3>4, <3>5, <3>6 DEF Sum
  <2>4. Shape(t10, FALSE, TRUE, FALSE, FALSE, TRUE, TRUE, FALSE, FALSE)
    <3>1. Like(t10, t9) /\ (OnFile(t10) <=> OnFile(t9))
      BY <1>9, RegsIn, Op_ilock DEF Sum
    <3>. QED BY <1>9, <3>1, LikeShape
  <2>. QED BY <2>3, <2>4
<1>. HIDE DEF t10
<1>11. /\ Sum(t11, {"ip"}, {}, FALSE, FALSE)
      /\ Shape(t11, FALSE, TRUE, FALSE, FALSE, TRUE, TRUE, FALSE, FALSE)
      /\ t11 # <<>> /\ Head(t11) = <<"begin", "ip">> /\ \A o : Top(t11, o) <=> o = "begin"
  <2>3. Sum(t11, {"ip"}, {}, FALSE, FALSE) /\ t11 # <<>> /\ Head(t11) = <<"begin", "ip">> /\ \A o : Top(t11, o) <=> o = "begin"
    BY <1>10, RegsIn, Op_begin DEF Sum
  <2>4. Shape(t11, FALSE, TRUE, FALSE, FALSE, TRUE, TRUE, FALSE, FALSE)
    <3>1. Like(t11, t10) /\ (OnFile(t11) <=> OnFile(t10))
      BY <1>10, RegsIn, Op_begin DEF Sum
    <3>. QED BY <1>10, <3>1, LikeShape
  <2>. QED BY <2>3, <2>4
<1>. HIDE DEF t11
<1>12. /\ Sum(t12, {}, {}, FALSE, FALSE)
      /\ Shape(t12, TRUE, TRUE, FALSE, FALSE, TRUE, TRUE, FALSE, FALSE)
      /\ t12 # <<>> /\ Head(t12) = <<"namex", "ip">> /\ \A o : Top(t12, o) <=> o = "namex"
  <2>1. Fail(t11) = <<>>
    BY <1>11 DEF Shape, Fail
  <2>2. Pointers(Fail(t11)) = {} /\ ~Logged(Fail(t11))
    BY <2>1, Nothing DEF Sum
  <2>3. Sum(t12, {}, {}, FALSE, FALSE) /\ t12 # <<>> /\ Head(t12) = <<"namex", "ip">> /\ \A o : Top(t12, o) <=> o = "namex"
    <3>1. t11 \in Seq(Steps) /\ "ip" \in {"ip", "dp"}
      BY <1>11, RegsIn DEF Sum
    <3>2. Pointers(t12) = {}
      BY <3>1, <1>11, RegsIn, Op_namex DEF Sum
    <3>3. Locked(t12) = {}
      <4>1. Locked(t12) = Locked(t11)
        BY <3>1, RegsIn, Op_namex
      <4>. QED BY <4>1, <1>11 DEF Sum
    <3>4. t12 \in Seq(Steps) /\ ~Logged(t12) /\ ~Leaves(t12)
      BY <3>1, <1>11, RegsIn, Op_namex DEF Sum
    <3>5. Code(t12)
      <4>1. Code(t11) /\ ~Top(t11, "fileclose") /\ ~Top(t11, "setcwd") /\ Pointers(t11) = Pointers(Fail(t11)) \cup {"ip"} /\ "ip" \notin Pointers(Fail(t11)) /\ Locked(t11) = {} /\ (Logged(t11) <=> Logged(Fail(t11))) /\ (~Has(t11, "bump") => ~Walks(t11, "ip") /\ ~Walks(t11, "dp")) /\ ("ip" = "dp" => ~Has(t11, "bump"))
        BY <3>1, <1>11, <2>2 DEF Sum, Shape
      <4>. QED BY <3>1, <4>1, RegsIn, Op_namex
    <3>6. t12 # <<>> /\ Head(t12) = <<"namex", "ip">> /\ \A o : Top(t12, o) <=> o = "namex"
      BY <3>1, RegsIn, Op_namex
    <3>. QED BY <3>2, <3>3, <3>4, <3>5, <3>6 DEF Sum
  <2>4. Shape(t12, TRUE, TRUE, FALSE, FALSE, TRUE, TRUE, FALSE, FALSE)
    BY <1>11, RegsIn, Op_namex DEF Sum, Shape, Like, Flags
  <2>. QED BY <2>3, <2>4
<1>. HIDE DEF t12
<1>13. t = t12
  <2>1. t0 \in Seq(Steps) /\ Cat(<<<<"iput", "ip">>, <<"commit", "ip">>>>, t0) = t2 /\ <<<<"iput", "ip">>, <<"commit", "ip">>>> \in Seq(Steps)
    BY <1>0, Piece13, RegsIn DEF Sum, t1, t2
  <2>2. t2 \in Seq(Steps) /\ Cat(UnlockPut("dp"), t2) = t4 /\ UnlockPut("dp") \in Seq(Steps)
    BY <1>2, PieceUnlockPut, RegsIn DEF Sum, t3, t4
  <2>3. t4 \in Seq(Steps) /\ Cat(<<<<"namex", "dp">>, <<"ilock", "dp">>, <<"entry", "dp">>>>, t4) = t7 /\ <<<<"namex", "dp">>, <<"ilock", "dp">>, <<"entry", "dp">>>> \in Seq(Steps)
    BY <1>4, Piece12, RegsIn DEF Sum, t5, t6, t7
  <2>4. t7 \in Seq(Steps) /\ Cat(<<<<"namex", "ip">>, <<"begin", "ip">>, <<"ilock", "ip">>, <<"bump", "ip">>, <<"iunlock", "ip">>>>, t7) = t12 /\ <<<<"namex", "ip">>, <<"begin", "ip">>, <<"ilock", "ip">>, <<"bump", "ip">>, <<"iunlock", "ip">>>> \in Seq(Steps)
    BY <1>7, Piece11, RegsIn DEF Sum, t8, t9, t10, t11, t12
  <2>5. PICK A1 \in Seq(Steps) : A1 = <<<<"namex", "ip">>, <<"begin", "ip">>, <<"ilock", "ip">>, <<"bump", "ip">>, <<"iunlock", "ip">>>> /\ Cat(A1, t7) = t12
    BY <2>4, Zenon
  <2>6. PICK A2 \in Seq(Steps) : A2 = <<<<"namex", "dp">>, <<"ilock", "dp">>, <<"entry", "dp">>>> /\ Cat(A2, t4) = t7
    BY <2>3, Zenon
  <2>7. PICK A3 \in Seq(Steps) : A3 = UnlockPut("dp") /\ Cat(A3, t2) = t4
    BY <2>2, Zenon
  <2>8. PICK A4 \in Seq(Steps) : A4 = <<<<"iput", "ip">>, <<"commit", "ip">>>> /\ Cat(A4, t0) = t2
    BY <2>1, Zenon
  <2>9. t = Cat(Cat(Cat(A1, A2), A3), A4)
    BY <2>5, <2>6, <2>7, <2>8, Zenon DEF Cat
  <2>10. Cat(A1, A2) \in Seq(Steps)
    BY CatAssoc
  <2>11. Cat(Cat(A1, A2), A3) \in Seq(Steps)
    BY <2>10, CatAssoc
  <2>12. Cat(Cat(Cat(A1, A2), A3), A4) \in Seq(Steps)
    BY <2>10, <2>11, CatAssoc
  <2>13. Cat(Cat(Cat(Cat(A1, A2), A3), A4), t0) = Cat(Cat(Cat(A1, A2), A3), A4)
    BY <2>12, CatNone DEF t0
  <2>14. Cat(Cat(Cat(Cat(A1, A2), A3), A4), t0) = Cat(Cat(Cat(A1, A2), A3), t2)
    <3>1. Cat(Cat(Cat(Cat(A1, A2), A3), A4), t0) = Cat(Cat(Cat(A1, A2), A3), Cat(A4, t0))
      BY <2>11, <2>1, CatAssoc
    <3>. QED BY <3>1, <2>8
  <2>15. Cat(Cat(Cat(A1, A2), A3), t2) = Cat(Cat(A1, A2), t4)
    <3>1. Cat(Cat(Cat(A1, A2), A3), t2) = Cat(Cat(A1, A2), Cat(A3, t2))
      BY <2>10, <2>2, CatAssoc
    <3>. QED BY <3>1, <2>7
  <2>16. Cat(Cat(A1, A2), t4) = Cat(A1, t7)
    <3>1. Cat(Cat(A1, A2), t4) = Cat(A1, Cat(A2, t4))
      BY <2>3, CatAssoc
    <3>. QED BY <3>1, <2>6
  <2>. QED BY <2>9, <2>13, <2>14, <2>15, <2>16, <2>5
<1>14. MayFail(t12) /\ Fail(t12) = <<>>
  BY <1>12 DEF Shape, MayFail, Fail
<1>. QED BY <1>12, <1>13, <1>14, Zenon

LEMMA IsUnlink ==
  ASSUME NEW t, t = <<<<"namex", "dp">>, <<"begin", "dp">>, <<"ilock", "dp">>, <<"lookup", "ip">>>> \o <<<<"ilock", "ip">>, <<"remove", "ip">>>> \o UnlockPut("dp") \o <<<<"drop", "ip">>>> \o UnlockPut("ip") \o <<<<"commit", "ip">>>>
  PROVE  /\ Sum(t, {}, {}, FALSE, FALSE)
         /\ Shape(t, FALSE, TRUE, FALSE, FALSE, FALSE, FALSE, FALSE, FALSE)
         /\ t # <<>> /\ Head(t) = <<"namex", "dp">> /\ \A o : Top(t, o) <=> o = "namex"
         /\ MayFail(t) /\ Fail(t) = <<>>
<1>. DEFINE t0 == <<>>
            t1 == On("commit", "ip", t0)
            t2 == On("iput", "ip", t1)
            t3 == On("iunlock", "ip", t2)
            t4 == On("drop", "ip", t3)
            t5 == On("iput", "dp", t4)
            t6 == On("iunlock", "dp", t5)
            t7 == On("remove", "ip", t6)
            t8 == On("ilock", "ip", t7)
            t9 == On("lookup", "ip", t8)
            t10 == On("ilock", "dp", t9)
            t11 == On("begin", "dp", t10)
            t12 == On("namex", "dp", t11)
<1>0. /\ Sum(t0, {}, {}, FALSE, FALSE) /\ Shape(t0, FALSE, FALSE, FALSE, FALSE, FALSE, FALSE, FALSE, FALSE)
      /\ \A o : ~Top(t0, o)
  BY Nothing
<1>. HIDE DEF t0
<1>1. /\ Sum(t1, {}, {}, TRUE, FALSE)
      /\ Shape(t1, FALSE, FALSE, FALSE, FALSE, FALSE, FALSE, FALSE, FALSE)
      /\ t1 # <<>> /\ Head(t1) = <<"commit", "ip">> /\ \A o : Top(t1, o) <=> o = "commit"
  <2>3. Sum(t1, {}, {}, TRUE, FALSE) /\ t1 # <<>> /\ Head(t1) = <<"commit", "ip">> /\ \A o : Top(t1, o) <=> o = "commit"
    BY <1>0, RegsIn, Op_commit DEF Sum
  <2>4. Shape(t1, FALSE, FALSE, FALSE, FALSE, FALSE, FALSE, FALSE, FALSE)
    <3>1. Like(t1, t0) /\ (OnFile(t1) <=> OnFile(t0))
      BY <1>0, RegsIn, Op_commit DEF Sum
    <3>. QED BY <1>0, <3>1, LikeShape
  <2>. QED BY <2>3, <2>4
<1>. HIDE DEF t1
<1>2. /\ Sum(t2, {"ip"}, {}, TRUE, FALSE)
      /\ Shape(t2, FALSE, FALSE, FALSE, FALSE, FALSE, FALSE, FALSE, FALSE)
      /\ t2 # <<>> /\ Head(t2) = <<"iput", "ip">> /\ \A o : Top(t2, o) <=> o = "iput"
  <2>3. Sum(t2, {"ip"}, {}, TRUE, FALSE) /\ t2 # <<>> /\ Head(t2) = <<"iput", "ip">> /\ \A o : Top(t2, o) <=> o = "iput"
    BY <1>1, RegsIn, Op_iput DEF Sum
  <2>4. Shape(t2, FALSE, FALSE, FALSE, FALSE, FALSE, FALSE, FALSE, FALSE)
    <3>1. Like(t2, t1) /\ (OnFile(t2) <=> OnFile(t1))
      BY <1>1, RegsIn, Op_iput DEF Sum
    <3>. QED BY <1>1, <3>1, LikeShape
  <2>. QED BY <2>3, <2>4
<1>. HIDE DEF t2
<1>3. /\ Sum(t3, {"ip"}, {"ip"}, TRUE, FALSE)
      /\ Shape(t3, FALSE, FALSE, FALSE, FALSE, FALSE, FALSE, FALSE, FALSE)
      /\ t3 # <<>> /\ Head(t3) = <<"iunlock", "ip">> /\ \A o : Top(t3, o) <=> o = "iunlock"
  <2>3. Sum(t3, {"ip"}, {"ip"}, TRUE, FALSE) /\ t3 # <<>> /\ Head(t3) = <<"iunlock", "ip">> /\ \A o : Top(t3, o) <=> o = "iunlock"
    <3>1. t2 \in Seq(Steps) /\ "ip" \in CallPtrs \cup {"fip"}
      BY <1>2, RegsIn DEF Sum
    <3>2. Pointers(t3) = {"ip"}
      BY <3>1, <1>2, RegsIn, Op_iunlock DEF Sum
    <3>3. Locked(t3) = {"ip"}
      <4>1. Locked(t3) = Locked(t2) \cup {"ip"}
        BY <3>1, RegsIn, Op_iunlock
      <4>. QED BY <4>1, <1>2 DEF Sum
    <3>4. t3 \in Seq(Steps) /\ Logged(t3) /\ ~Leaves(t3)
      BY <3>1, <1>2, RegsIn, Op_iunlock DEF Sum
    <3>5. Code(t3)
      <4>1. Code(t2) /\ ~Top(t2, "fileclose") /\ ~Top(t2, "setcwd") /\ "ip" \notin Locked(t2)
        BY <3>1, <1>2 DEF Sum
      <4>. QED BY <3>1, <4>1, RegsIn, Op_iunlock
    <3>6. t3 # <<>> /\ Head(t3) = <<"iunlock", "ip">> /\ \A o : Top(t3, o) <=> o = "iunlock"
      BY <3>1, RegsIn, Op_iunlock
    <3>. QED BY <3>2, <3>3, <3>4, <3>5, <3>6 DEF Sum
  <2>4. Shape(t3, FALSE, FALSE, FALSE, FALSE, FALSE, FALSE, FALSE, FALSE)
    <3>1. Like(t3, t2) /\ (OnFile(t3) <=> OnFile(t2))
      BY <1>2, RegsIn, Op_iunlock DEF Sum
    <3>. QED BY <1>2, <3>1, LikeShape
  <2>. QED BY <2>3, <2>4
<1>. HIDE DEF t3
<1>4. /\ Sum(t4, {"ip"}, {"ip"}, TRUE, FALSE)
      /\ Shape(t4, FALSE, FALSE, FALSE, FALSE, FALSE, FALSE, FALSE, FALSE)
      /\ t4 # <<>> /\ Head(t4) = <<"drop", "ip">> /\ \A o : Top(t4, o) <=> o = "drop"
  <2>3. Sum(t4, {"ip"}, {"ip"}, TRUE, FALSE) /\ t4 # <<>> /\ Head(t4) = <<"drop", "ip">> /\ \A o : Top(t4, o) <=> o = "drop"
    BY <1>3, RegsIn, Op_drop DEF Sum
  <2>4. Shape(t4, FALSE, FALSE, FALSE, FALSE, FALSE, FALSE, FALSE, FALSE)
    <3>1. Like(t4, t3) /\ (OnFile(t4) <=> OnFile(t3))
      BY <1>3, RegsIn, Op_drop DEF Sum
    <3>. QED BY <1>3, <3>1, LikeShape
  <2>. QED BY <2>3, <2>4
<1>. HIDE DEF t4
<1>5. /\ Sum(t5, {"dp", "ip"}, {"ip"}, TRUE, FALSE)
      /\ Shape(t5, FALSE, FALSE, FALSE, FALSE, FALSE, FALSE, FALSE, FALSE)
      /\ t5 # <<>> /\ Head(t5) = <<"iput", "dp">> /\ \A o : Top(t5, o) <=> o = "iput"
  <2>3. Sum(t5, {"dp", "ip"}, {"ip"}, TRUE, FALSE) /\ t5 # <<>> /\ Head(t5) = <<"iput", "dp">> /\ \A o : Top(t5, o) <=> o = "iput"
    BY <1>4, RegsIn, Op_iput DEF Sum
  <2>4. Shape(t5, FALSE, FALSE, FALSE, FALSE, FALSE, FALSE, FALSE, FALSE)
    <3>1. Like(t5, t4) /\ (OnFile(t5) <=> OnFile(t4))
      BY <1>4, RegsIn, Op_iput DEF Sum
    <3>. QED BY <1>4, <3>1, LikeShape
  <2>. QED BY <2>3, <2>4
<1>. HIDE DEF t5
<1>6. /\ Sum(t6, {"dp", "ip"}, {"dp", "ip"}, TRUE, FALSE)
      /\ Shape(t6, FALSE, FALSE, FALSE, FALSE, FALSE, FALSE, FALSE, FALSE)
      /\ t6 # <<>> /\ Head(t6) = <<"iunlock", "dp">> /\ \A o : Top(t6, o) <=> o = "iunlock"
  <2>3. Sum(t6, {"dp", "ip"}, {"dp", "ip"}, TRUE, FALSE) /\ t6 # <<>> /\ Head(t6) = <<"iunlock", "dp">> /\ \A o : Top(t6, o) <=> o = "iunlock"
    <3>1. t5 \in Seq(Steps) /\ "dp" \in CallPtrs \cup {"fip"}
      BY <1>5, RegsIn DEF Sum
    <3>2. Pointers(t6) = {"dp", "ip"}
      BY <3>1, <1>5, RegsIn, Op_iunlock DEF Sum
    <3>3. Locked(t6) = {"dp", "ip"}
      <4>1. Locked(t6) = Locked(t5) \cup {"dp"}
        BY <3>1, RegsIn, Op_iunlock
      <4>. QED BY <4>1, <1>5 DEF Sum
    <3>4. t6 \in Seq(Steps) /\ Logged(t6) /\ ~Leaves(t6)
      BY <3>1, <1>5, RegsIn, Op_iunlock DEF Sum
    <3>5. Code(t6)
      <4>1. Code(t5) /\ ~Top(t5, "fileclose") /\ ~Top(t5, "setcwd") /\ "dp" \notin Locked(t5)
        BY <3>1, <1>5 DEF Sum
      <4>. QED BY <3>1, <4>1, RegsIn, Op_iunlock
    <3>6. t6 # <<>> /\ Head(t6) = <<"iunlock", "dp">> /\ \A o : Top(t6, o) <=> o = "iunlock"
      BY <3>1, RegsIn, Op_iunlock
    <3>. QED BY <3>2, <3>3, <3>4, <3>5, <3>6 DEF Sum
  <2>4. Shape(t6, FALSE, FALSE, FALSE, FALSE, FALSE, FALSE, FALSE, FALSE)
    <3>1. Like(t6, t5) /\ (OnFile(t6) <=> OnFile(t5))
      BY <1>5, RegsIn, Op_iunlock DEF Sum
    <3>. QED BY <1>5, <3>1, LikeShape
  <2>. QED BY <2>3, <2>4
<1>. HIDE DEF t6
<1>7. /\ Sum(t7, {"dp", "ip"}, {"dp", "ip"}, TRUE, FALSE)
      /\ Shape(t7, FALSE, FALSE, FALSE, FALSE, FALSE, FALSE, FALSE, FALSE)
      /\ t7 # <<>> /\ Head(t7) = <<"remove", "ip">> /\ \A o : Top(t7, o) <=> o = "remove"
  <2>3. Sum(t7, {"dp", "ip"}, {"dp", "ip"}, TRUE, FALSE) /\ t7 # <<>> /\ Head(t7) = <<"remove", "ip">> /\ \A o : Top(t7, o) <=> o = "remove"
    BY <1>6, RegsIn, Op_remove DEF Sum
  <2>4. Shape(t7, FALSE, FALSE, FALSE, FALSE, FALSE, FALSE, FALSE, FALSE)
    <3>1. Like(t7, t6) /\ (OnFile(t7) <=> OnFile(t6))
      BY <1>6, RegsIn, Op_remove DEF Sum
    <3>. QED BY <1>6, <3>1, LikeShape
  <2>. QED BY <2>3, <2>4
<1>. HIDE DEF t7
<1>8. /\ Sum(t8, {"dp", "ip"}, {"dp"}, TRUE, FALSE)
      /\ Shape(t8, FALSE, FALSE, FALSE, FALSE, FALSE, FALSE, FALSE, FALSE)
      /\ t8 # <<>> /\ Head(t8) = <<"ilock", "ip">> /\ \A o : Top(t8, o) <=> o = "ilock"
  <2>3. Sum(t8, {"dp", "ip"}, {"dp"}, TRUE, FALSE) /\ t8 # <<>> /\ Head(t8) = <<"ilock", "ip">> /\ \A o : Top(t8, o) <=> o = "ilock"
    <3>1. t7 \in Seq(Steps) /\ "ip" \in CallPtrs \cup {"fip"}
      BY <1>7, RegsIn DEF Sum
    <3>2. Pointers(t8) = {"dp", "ip"}
      BY <3>1, <1>7, RegsIn, Op_ilock DEF Sum
    <3>3. Locked(t8) = {"dp"}
      <4>1. Locked(t8) = Locked(t7) \ {"ip"}
        BY <3>1, RegsIn, Op_ilock
      <4>. QED BY <4>1, <1>7 DEF Sum
    <3>4. t8 \in Seq(Steps) /\ Logged(t8) /\ ~Leaves(t8)
      BY <3>1, <1>7, RegsIn, Op_ilock DEF Sum
    <3>5. Code(t8)
      <4>1. Code(t7) /\ ~Top(t7, "fileclose") /\ ~Top(t7, "setcwd") /\ "ip" \in Locked(t7) /\ "ip" \in Pointers(t7) \cup {"fip"}
        BY <3>1, <1>7 DEF Sum
      <4>. QED BY <3>1, <4>1, RegsIn, Op_ilock
    <3>6. t8 # <<>> /\ Head(t8) = <<"ilock", "ip">> /\ \A o : Top(t8, o) <=> o = "ilock"
      BY <3>1, RegsIn, Op_ilock
    <3>. QED BY <3>2, <3>3, <3>4, <3>5, <3>6 DEF Sum
  <2>4. Shape(t8, FALSE, FALSE, FALSE, FALSE, FALSE, FALSE, FALSE, FALSE)
    <3>1. Like(t8, t7) /\ (OnFile(t8) <=> OnFile(t7))
      BY <1>7, RegsIn, Op_ilock DEF Sum
    <3>. QED BY <1>7, <3>1, LikeShape
  <2>. QED BY <2>3, <2>4
<1>. HIDE DEF t8
<1>9. /\ Sum(t9, {"dp"}, {"dp"}, TRUE, FALSE)
      /\ Shape(t9, FALSE, FALSE, FALSE, FALSE, FALSE, FALSE, FALSE, FALSE)
      /\ t9 # <<>> /\ Head(t9) = <<"lookup", "ip">> /\ \A o : Top(t9, o) <=> o = "lookup"
  <2>3. Sum(t9, {"dp"}, {"dp"}, TRUE, FALSE) /\ t9 # <<>> /\ Head(t9) = <<"lookup", "ip">> /\ \A o : Top(t9, o) <=> o = "lookup"
    BY <1>8, RegsIn, Op_lookup DEF Sum
  <2>4. Shape(t9, FALSE, FALSE, FALSE, FALSE, FALSE, FALSE, FALSE, FALSE)
    <3>1. Like(t9, t8) /\ (OnFile(t9) <=> OnFile(t8))
      BY <1>8, RegsIn, Op_lookup DEF Sum
    <3>. QED BY <1>8, <3>1, LikeShape
  <2>. QED BY <2>3, <2>4
<1>. HIDE DEF t9
<1>10. /\ Sum(t10, {"dp"}, {}, TRUE, FALSE)
      /\ Shape(t10, FALSE, FALSE, FALSE, FALSE, FALSE, FALSE, FALSE, FALSE)
      /\ t10 # <<>> /\ Head(t10) = <<"ilock", "dp">> /\ \A o : Top(t10, o) <=> o = "ilock"
  <2>3. Sum(t10, {"dp"}, {}, TRUE, FALSE) /\ t10 # <<>> /\ Head(t10) = <<"ilock", "dp">> /\ \A o : Top(t10, o) <=> o = "ilock"
    <3>1. t9 \in Seq(Steps) /\ "dp" \in CallPtrs \cup {"fip"}
      BY <1>9, RegsIn DEF Sum
    <3>2. Pointers(t10) = {"dp"}
      BY <3>1, <1>9, RegsIn, Op_ilock DEF Sum
    <3>3. Locked(t10) = {}
      <4>1. Locked(t10) = Locked(t9) \ {"dp"}
        BY <3>1, RegsIn, Op_ilock
      <4>. QED BY <4>1, <1>9 DEF Sum
    <3>4. t10 \in Seq(Steps) /\ Logged(t10) /\ ~Leaves(t10)
      BY <3>1, <1>9, RegsIn, Op_ilock DEF Sum
    <3>5. Code(t10)
      <4>1. Code(t9) /\ ~Top(t9, "fileclose") /\ ~Top(t9, "setcwd") /\ "dp" \in Locked(t9) /\ "dp" \in Pointers(t9) \cup {"fip"}
        BY <3>1, <1>9 DEF Sum
      <4>. QED BY <3>1, <4>1, RegsIn, Op_ilock
    <3>6. t10 # <<>> /\ Head(t10) = <<"ilock", "dp">> /\ \A o : Top(t10, o) <=> o = "ilock"
      BY <3>1, RegsIn, Op_ilock
    <3>. QED BY <3>2, <3>3, <3>4, <3>5, <3>6 DEF Sum
  <2>4. Shape(t10, FALSE, FALSE, FALSE, FALSE, FALSE, FALSE, FALSE, FALSE)
    <3>1. Like(t10, t9) /\ (OnFile(t10) <=> OnFile(t9))
      BY <1>9, RegsIn, Op_ilock DEF Sum
    <3>. QED BY <1>9, <3>1, LikeShape
  <2>. QED BY <2>3, <2>4
<1>. HIDE DEF t10
<1>11. /\ Sum(t11, {"dp"}, {}, FALSE, FALSE)
      /\ Shape(t11, FALSE, FALSE, FALSE, FALSE, FALSE, FALSE, FALSE, FALSE)
      /\ t11 # <<>> /\ Head(t11) = <<"begin", "dp">> /\ \A o : Top(t11, o) <=> o = "begin"
  <2>3. Sum(t11, {"dp"}, {}, FALSE, FALSE) /\ t11 # <<>> /\ Head(t11) = <<"begin", "dp">> /\ \A o : Top(t11, o) <=> o = "begin"
    BY <1>10, RegsIn, Op_begin DEF Sum
  <2>4. Shape(t11, FALSE, FALSE, FALSE, FALSE, FALSE, FALSE, FALSE, FALSE)
    <3>1. Like(t11, t10) /\ (OnFile(t11) <=> OnFile(t10))
      BY <1>10, RegsIn, Op_begin DEF Sum
    <3>. QED BY <1>10, <3>1, LikeShape
  <2>. QED BY <2>3, <2>4
<1>. HIDE DEF t11
<1>12. /\ Sum(t12, {}, {}, FALSE, FALSE)
      /\ Shape(t12, FALSE, TRUE, FALSE, FALSE, FALSE, FALSE, FALSE, FALSE)
      /\ t12 # <<>> /\ Head(t12) = <<"namex", "dp">> /\ \A o : Top(t12, o) <=> o = "namex"
  <2>1. Fail(t11) = <<>>
    BY <1>11 DEF Shape, Fail
  <2>2. Pointers(Fail(t11)) = {} /\ ~Logged(Fail(t11))
    BY <2>1, Nothing DEF Sum
  <2>3. Sum(t12, {}, {}, FALSE, FALSE) /\ t12 # <<>> /\ Head(t12) = <<"namex", "dp">> /\ \A o : Top(t12, o) <=> o = "namex"
    <3>1. t11 \in Seq(Steps) /\ "dp" \in {"ip", "dp"}
      BY <1>11, RegsIn DEF Sum
    <3>2. Pointers(t12) = {}
      BY <3>1, <1>11, RegsIn, Op_namex DEF Sum
    <3>3. Locked(t12) = {}
      <4>1. Locked(t12) = Locked(t11)
        BY <3>1, RegsIn, Op_namex
      <4>. QED BY <4>1, <1>11 DEF Sum
    <3>4. t12 \in Seq(Steps) /\ ~Logged(t12) /\ ~Leaves(t12)
      BY <3>1, <1>11, RegsIn, Op_namex DEF Sum
    <3>5. Code(t12)
      <4>1. Code(t11) /\ ~Top(t11, "fileclose") /\ ~Top(t11, "setcwd") /\ Pointers(t11) = Pointers(Fail(t11)) \cup {"dp"} /\ "dp" \notin Pointers(Fail(t11)) /\ Locked(t11) = {} /\ (Logged(t11) <=> Logged(Fail(t11))) /\ (~Has(t11, "bump") => ~Walks(t11, "ip") /\ ~Walks(t11, "dp")) /\ ("dp" = "dp" => ~Has(t11, "bump"))
        BY <3>1, <1>11, <2>2 DEF Sum, Shape
      <4>. QED BY <3>1, <4>1, RegsIn, Op_namex
    <3>6. t12 # <<>> /\ Head(t12) = <<"namex", "dp">> /\ \A o : Top(t12, o) <=> o = "namex"
      BY <3>1, RegsIn, Op_namex
    <3>. QED BY <3>2, <3>3, <3>4, <3>5, <3>6 DEF Sum
  <2>4. Shape(t12, FALSE, TRUE, FALSE, FALSE, FALSE, FALSE, FALSE, FALSE)
    BY <1>11, RegsIn, Op_namex DEF Sum, Shape, Like, Flags
  <2>. QED BY <2>3, <2>4
<1>. HIDE DEF t12
<1>13. t = t12
  <2>1. t0 \in Seq(Steps) /\ Cat(<<<<"commit", "ip">>>>, t0) = t1 /\ <<<<"commit", "ip">>>> \in Seq(Steps)
    BY <1>0, Piece3, RegsIn DEF Sum, t1
  <2>2. t1 \in Seq(Steps) /\ Cat(UnlockPut("ip"), t1) = t3 /\ UnlockPut("ip") \in Seq(Steps)
    BY <1>1, PieceUnlockPut, RegsIn DEF Sum, t2, t3
  <2>3. t3 \in Seq(Steps) /\ Cat(<<<<"drop", "ip">>>>, t3) = t4 /\ <<<<"drop", "ip">>>> \in Seq(Steps)
    BY <1>3, Piece16, RegsIn DEF Sum, t4
  <2>4. t4 \in Seq(Steps) /\ Cat(UnlockPut("dp"), t4) = t6 /\ UnlockPut("dp") \in Seq(Steps)
    BY <1>4, PieceUnlockPut, RegsIn DEF Sum, t5, t6
  <2>5. t6 \in Seq(Steps) /\ Cat(<<<<"ilock", "ip">>, <<"remove", "ip">>>>, t6) = t8 /\ <<<<"ilock", "ip">>, <<"remove", "ip">>>> \in Seq(Steps)
    BY <1>6, Piece15, RegsIn DEF Sum, t7, t8
  <2>6. t8 \in Seq(Steps) /\ Cat(<<<<"namex", "dp">>, <<"begin", "dp">>, <<"ilock", "dp">>, <<"lookup", "ip">>>>, t8) = t12 /\ <<<<"namex", "dp">>, <<"begin", "dp">>, <<"ilock", "dp">>, <<"lookup", "ip">>>> \in Seq(Steps)
    BY <1>8, Piece14, RegsIn DEF Sum, t9, t10, t11, t12
  <2>7. PICK A1 \in Seq(Steps) : A1 = <<<<"namex", "dp">>, <<"begin", "dp">>, <<"ilock", "dp">>, <<"lookup", "ip">>>> /\ Cat(A1, t8) = t12
    BY <2>6, Zenon
  <2>8. PICK A2 \in Seq(Steps) : A2 = <<<<"ilock", "ip">>, <<"remove", "ip">>>> /\ Cat(A2, t6) = t8
    BY <2>5, Zenon
  <2>9. PICK A3 \in Seq(Steps) : A3 = UnlockPut("dp") /\ Cat(A3, t4) = t6
    BY <2>4, Zenon
  <2>10. PICK A4 \in Seq(Steps) : A4 = <<<<"drop", "ip">>>> /\ Cat(A4, t3) = t4
    BY <2>3, Zenon
  <2>11. PICK A5 \in Seq(Steps) : A5 = UnlockPut("ip") /\ Cat(A5, t1) = t3
    BY <2>2, Zenon
  <2>12. PICK A6 \in Seq(Steps) : A6 = <<<<"commit", "ip">>>> /\ Cat(A6, t0) = t1
    BY <2>1, Zenon
  <2>13. t = Cat(Cat(Cat(Cat(Cat(A1, A2), A3), A4), A5), A6)
    BY <2>7, <2>8, <2>9, <2>10, <2>11, <2>12, Zenon DEF Cat
  <2>14. Cat(A1, A2) \in Seq(Steps)
    BY CatAssoc
  <2>15. Cat(Cat(A1, A2), A3) \in Seq(Steps)
    BY <2>14, CatAssoc
  <2>16. Cat(Cat(Cat(A1, A2), A3), A4) \in Seq(Steps)
    BY <2>14, <2>15, CatAssoc
  <2>17. Cat(Cat(Cat(Cat(A1, A2), A3), A4), A5) \in Seq(Steps)
    BY <2>14, <2>15, <2>16, CatAssoc
  <2>18. Cat(Cat(Cat(Cat(Cat(A1, A2), A3), A4), A5), A6) \in Seq(Steps)
    BY <2>14, <2>15, <2>16, <2>17, CatAssoc
  <2>19. Cat(Cat(Cat(Cat(Cat(Cat(A1, A2), A3), A4), A5), A6), t0) = Cat(Cat(Cat(Cat(Cat(A1, A2), A3), A4), A5), A6)
    BY <2>18, CatNone DEF t0
  <2>20. Cat(Cat(Cat(Cat(Cat(Cat(A1, A2), A3), A4), A5), A6), t0) = Cat(Cat(Cat(Cat(Cat(A1, A2), A3), A4), A5), t1)
    <3>1. Cat(Cat(Cat(Cat(Cat(Cat(A1, A2), A3), A4), A5), A6), t0) = Cat(Cat(Cat(Cat(Cat(A1, A2), A3), A4), A5), Cat(A6, t0))
      BY <2>17, <2>1, CatAssoc
    <3>. QED BY <3>1, <2>12
  <2>21. Cat(Cat(Cat(Cat(Cat(A1, A2), A3), A4), A5), t1) = Cat(Cat(Cat(Cat(A1, A2), A3), A4), t3)
    <3>1. Cat(Cat(Cat(Cat(Cat(A1, A2), A3), A4), A5), t1) = Cat(Cat(Cat(Cat(A1, A2), A3), A4), Cat(A5, t1))
      BY <2>16, <2>2, CatAssoc
    <3>. QED BY <3>1, <2>11
  <2>22. Cat(Cat(Cat(Cat(A1, A2), A3), A4), t3) = Cat(Cat(Cat(A1, A2), A3), t4)
    <3>1. Cat(Cat(Cat(Cat(A1, A2), A3), A4), t3) = Cat(Cat(Cat(A1, A2), A3), Cat(A4, t3))
      BY <2>15, <2>3, CatAssoc
    <3>. QED BY <3>1, <2>10
  <2>23. Cat(Cat(Cat(A1, A2), A3), t4) = Cat(Cat(A1, A2), t6)
    <3>1. Cat(Cat(Cat(A1, A2), A3), t4) = Cat(Cat(A1, A2), Cat(A3, t4))
      BY <2>14, <2>4, CatAssoc
    <3>. QED BY <3>1, <2>9
  <2>24. Cat(Cat(A1, A2), t6) = Cat(A1, t8)
    <3>1. Cat(Cat(A1, A2), t6) = Cat(A1, Cat(A2, t6))
      BY <2>5, CatAssoc
    <3>. QED BY <3>1, <2>8
  <2>. QED BY <2>13, <2>19, <2>20, <2>21, <2>22, <2>23, <2>24, <2>7
<1>14. MayFail(t12) /\ Fail(t12) = <<>>
  BY <1>12 DEF Shape, MayFail, Fail
<1>. QED BY <1>12, <1>13, <1>14, Zenon

LEMMA IsChdir ==
  ASSUME NEW t, t = <<<<"namex", "ip">>, <<"ilock", "ip">>, <<"chdir", "ip">>>>
  PROVE  /\ Sum(t, {}, {}, FALSE, FALSE)
         /\ Shape(t, TRUE, FALSE, FALSE, FALSE, FALSE, FALSE, FALSE, FALSE)
         /\ t # <<>> /\ Head(t) = <<"namex", "ip">> /\ \A o : Top(t, o) <=> o = "namex"
         /\ MayFail(t) /\ Fail(t) = <<>>
<1>. DEFINE t0 == <<>>
            t1 == On("chdir", "ip", t0)
            t2 == On("ilock", "ip", t1)
            t3 == On("namex", "ip", t2)
<1>0. /\ Sum(t0, {}, {}, FALSE, FALSE) /\ Shape(t0, FALSE, FALSE, FALSE, FALSE, FALSE, FALSE, FALSE, FALSE)
      /\ \A o : ~Top(t0, o)
  BY Nothing
<1>. HIDE DEF t0
<1>1. /\ Sum(t1, {"ip"}, {"ip"}, FALSE, FALSE)
      /\ Shape(t1, FALSE, FALSE, FALSE, FALSE, FALSE, FALSE, FALSE, FALSE)
      /\ t1 # <<>> /\ Head(t1) = <<"chdir", "ip">> /\ \A o : Top(t1, o) <=> o = "chdir"
  <2>1. t0 = <<>>
    BY DEF t0
  <2>3. Sum(t1, {"ip"}, {"ip"}, FALSE, FALSE) /\ t1 # <<>> /\ Head(t1) = <<"chdir", "ip">> /\ \A o : Top(t1, o) <=> o = "chdir"
    BY <1>0, <2>1, RegsIn, Op_chdir DEF Sum
  <2>4. Shape(t1, FALSE, FALSE, FALSE, FALSE, FALSE, FALSE, FALSE, FALSE)
    <3>1. Like(t1, t0) /\ (OnFile(t1) <=> OnFile(t0))
      BY <1>0, RegsIn, Op_chdir DEF Sum
    <3>. QED BY <1>0, <3>1, LikeShape
  <2>. QED BY <2>3, <2>4
<1>. HIDE DEF t1
<1>2. /\ Sum(t2, {"ip"}, {}, FALSE, FALSE)
      /\ Shape(t2, FALSE, FALSE, FALSE, FALSE, FALSE, FALSE, FALSE, FALSE)
      /\ t2 # <<>> /\ Head(t2) = <<"ilock", "ip">> /\ \A o : Top(t2, o) <=> o = "ilock"
  <2>3. Sum(t2, {"ip"}, {}, FALSE, FALSE) /\ t2 # <<>> /\ Head(t2) = <<"ilock", "ip">> /\ \A o : Top(t2, o) <=> o = "ilock"
    <3>1. t1 \in Seq(Steps) /\ "ip" \in CallPtrs \cup {"fip"}
      BY <1>1, RegsIn DEF Sum
    <3>2. Pointers(t2) = {"ip"}
      BY <3>1, <1>1, RegsIn, Op_ilock DEF Sum
    <3>3. Locked(t2) = {}
      <4>1. Locked(t2) = Locked(t1) \ {"ip"}
        BY <3>1, RegsIn, Op_ilock
      <4>. QED BY <4>1, <1>1 DEF Sum
    <3>4. t2 \in Seq(Steps) /\ ~Logged(t2) /\ ~Leaves(t2)
      BY <3>1, <1>1, RegsIn, Op_ilock DEF Sum
    <3>5. Code(t2)
      <4>1. Code(t1) /\ ~Top(t1, "fileclose") /\ ~Top(t1, "setcwd") /\ "ip" \in Locked(t1) /\ "ip" \in Pointers(t1) \cup {"fip"}
        BY <3>1, <1>1 DEF Sum
      <4>. QED BY <3>1, <4>1, RegsIn, Op_ilock
    <3>6. t2 # <<>> /\ Head(t2) = <<"ilock", "ip">> /\ \A o : Top(t2, o) <=> o = "ilock"
      BY <3>1, RegsIn, Op_ilock
    <3>. QED BY <3>2, <3>3, <3>4, <3>5, <3>6 DEF Sum
  <2>4. Shape(t2, FALSE, FALSE, FALSE, FALSE, FALSE, FALSE, FALSE, FALSE)
    <3>1. Like(t2, t1) /\ (OnFile(t2) <=> OnFile(t1))
      BY <1>1, RegsIn, Op_ilock DEF Sum
    <3>. QED BY <1>1, <3>1, LikeShape
  <2>. QED BY <2>3, <2>4
<1>. HIDE DEF t2
<1>3. /\ Sum(t3, {}, {}, FALSE, FALSE)
      /\ Shape(t3, TRUE, FALSE, FALSE, FALSE, FALSE, FALSE, FALSE, FALSE)
      /\ t3 # <<>> /\ Head(t3) = <<"namex", "ip">> /\ \A o : Top(t3, o) <=> o = "namex"
  <2>1. Fail(t2) = <<>>
    BY <1>2 DEF Shape, Fail
  <2>2. Pointers(Fail(t2)) = {} /\ ~Logged(Fail(t2))
    BY <2>1, Nothing DEF Sum
  <2>3. Sum(t3, {}, {}, FALSE, FALSE) /\ t3 # <<>> /\ Head(t3) = <<"namex", "ip">> /\ \A o : Top(t3, o) <=> o = "namex"
    <3>1. t2 \in Seq(Steps) /\ "ip" \in {"ip", "dp"}
      BY <1>2, RegsIn DEF Sum
    <3>2. Pointers(t3) = {}
      BY <3>1, <1>2, RegsIn, Op_namex DEF Sum
    <3>3. Locked(t3) = {}
      <4>1. Locked(t3) = Locked(t2)
        BY <3>1, RegsIn, Op_namex
      <4>. QED BY <4>1, <1>2 DEF Sum
    <3>4. t3 \in Seq(Steps) /\ ~Logged(t3) /\ ~Leaves(t3)
      BY <3>1, <1>2, RegsIn, Op_namex DEF Sum
    <3>5. Code(t3)
      <4>1. Code(t2) /\ ~Top(t2, "fileclose") /\ ~Top(t2, "setcwd") /\ Pointers(t2) = Pointers(Fail(t2)) \cup {"ip"} /\ "ip" \notin Pointers(Fail(t2)) /\ Locked(t2) = {} /\ (Logged(t2) <=> Logged(Fail(t2))) /\ (~Has(t2, "bump") => ~Walks(t2, "ip") /\ ~Walks(t2, "dp")) /\ ("ip" = "dp" => ~Has(t2, "bump"))
        BY <3>1, <1>2, <2>2 DEF Sum, Shape
      <4>. QED BY <3>1, <4>1, RegsIn, Op_namex
    <3>6. t3 # <<>> /\ Head(t3) = <<"namex", "ip">> /\ \A o : Top(t3, o) <=> o = "namex"
      BY <3>1, RegsIn, Op_namex
    <3>. QED BY <3>2, <3>3, <3>4, <3>5, <3>6 DEF Sum
  <2>4. Shape(t3, TRUE, FALSE, FALSE, FALSE, FALSE, FALSE, FALSE, FALSE)
    BY <1>2, RegsIn, Op_namex DEF Sum, Shape, Like, Flags
  <2>. QED BY <2>3, <2>4
<1>. HIDE DEF t3
<1>4. t = t3
  <2>1. t0 \in Seq(Steps) /\ Cat(<<<<"namex", "ip">>, <<"ilock", "ip">>, <<"chdir", "ip">>>>, t0) = t3 /\ <<<<"namex", "ip">>, <<"ilock", "ip">>, <<"chdir", "ip">>>> \in Seq(Steps)
    BY <1>0, Piece17, RegsIn DEF Sum, t1, t2, t3
  <2>2. Cat(<<<<"namex", "ip">>, <<"ilock", "ip">>, <<"chdir", "ip">>>>, t0) = <<<<"namex", "ip">>, <<"ilock", "ip">>, <<"chdir", "ip">>>>
    BY <2>1, CatNone DEF t0
  <2>. QED BY <2>1, <2>2
<1>5. MayFail(t3) /\ Fail(t3) = <<>>
  BY <1>3 DEF Shape, MayFail, Fail
<1>. QED BY <1>3, <1>4, <1>5, Zenon

LEMMA IsExec ==
  ASSUME NEW t, t = <<<<"namex", "ip">>, <<"ilock", "ip">>>> \o UnlockPut("ip")
  PROVE  /\ Sum(t, {}, {}, FALSE, FALSE)
         /\ Shape(t, TRUE, FALSE, FALSE, FALSE, FALSE, FALSE, FALSE, FALSE)
         /\ t # <<>> /\ Head(t) = <<"namex", "ip">> /\ \A o : Top(t, o) <=> o = "namex"
         /\ MayFail(t) /\ Fail(t) = <<>>
<1>. DEFINE t0 == <<>>
            t1 == On("iput", "ip", t0)
            t2 == On("iunlock", "ip", t1)
            t3 == On("ilock", "ip", t2)
            t4 == On("namex", "ip", t3)
<1>0. /\ Sum(t0, {}, {}, FALSE, FALSE) /\ Shape(t0, FALSE, FALSE, FALSE, FALSE, FALSE, FALSE, FALSE, FALSE)
      /\ \A o : ~Top(t0, o)
  BY Nothing
<1>. HIDE DEF t0
<1>1. /\ Sum(t1, {"ip"}, {}, FALSE, FALSE)
      /\ Shape(t1, FALSE, FALSE, FALSE, FALSE, FALSE, FALSE, FALSE, FALSE)
      /\ t1 # <<>> /\ Head(t1) = <<"iput", "ip">> /\ \A o : Top(t1, o) <=> o = "iput"
  <2>3. Sum(t1, {"ip"}, {}, FALSE, FALSE) /\ t1 # <<>> /\ Head(t1) = <<"iput", "ip">> /\ \A o : Top(t1, o) <=> o = "iput"
    BY <1>0, RegsIn, Op_iput DEF Sum
  <2>4. Shape(t1, FALSE, FALSE, FALSE, FALSE, FALSE, FALSE, FALSE, FALSE)
    <3>1. Like(t1, t0) /\ (OnFile(t1) <=> OnFile(t0))
      BY <1>0, RegsIn, Op_iput DEF Sum
    <3>. QED BY <1>0, <3>1, LikeShape
  <2>. QED BY <2>3, <2>4
<1>. HIDE DEF t1
<1>2. /\ Sum(t2, {"ip"}, {"ip"}, FALSE, FALSE)
      /\ Shape(t2, FALSE, FALSE, FALSE, FALSE, FALSE, FALSE, FALSE, FALSE)
      /\ t2 # <<>> /\ Head(t2) = <<"iunlock", "ip">> /\ \A o : Top(t2, o) <=> o = "iunlock"
  <2>3. Sum(t2, {"ip"}, {"ip"}, FALSE, FALSE) /\ t2 # <<>> /\ Head(t2) = <<"iunlock", "ip">> /\ \A o : Top(t2, o) <=> o = "iunlock"
    <3>1. t1 \in Seq(Steps) /\ "ip" \in CallPtrs \cup {"fip"}
      BY <1>1, RegsIn DEF Sum
    <3>2. Pointers(t2) = {"ip"}
      BY <3>1, <1>1, RegsIn, Op_iunlock DEF Sum
    <3>3. Locked(t2) = {"ip"}
      <4>1. Locked(t2) = Locked(t1) \cup {"ip"}
        BY <3>1, RegsIn, Op_iunlock
      <4>. QED BY <4>1, <1>1 DEF Sum
    <3>4. t2 \in Seq(Steps) /\ ~Logged(t2) /\ ~Leaves(t2)
      BY <3>1, <1>1, RegsIn, Op_iunlock DEF Sum
    <3>5. Code(t2)
      <4>1. Code(t1) /\ ~Top(t1, "fileclose") /\ ~Top(t1, "setcwd") /\ "ip" \notin Locked(t1)
        BY <3>1, <1>1 DEF Sum
      <4>. QED BY <3>1, <4>1, RegsIn, Op_iunlock
    <3>6. t2 # <<>> /\ Head(t2) = <<"iunlock", "ip">> /\ \A o : Top(t2, o) <=> o = "iunlock"
      BY <3>1, RegsIn, Op_iunlock
    <3>. QED BY <3>2, <3>3, <3>4, <3>5, <3>6 DEF Sum
  <2>4. Shape(t2, FALSE, FALSE, FALSE, FALSE, FALSE, FALSE, FALSE, FALSE)
    <3>1. Like(t2, t1) /\ (OnFile(t2) <=> OnFile(t1))
      BY <1>1, RegsIn, Op_iunlock DEF Sum
    <3>. QED BY <1>1, <3>1, LikeShape
  <2>. QED BY <2>3, <2>4
<1>. HIDE DEF t2
<1>3. /\ Sum(t3, {"ip"}, {}, FALSE, FALSE)
      /\ Shape(t3, FALSE, FALSE, FALSE, FALSE, FALSE, FALSE, FALSE, FALSE)
      /\ t3 # <<>> /\ Head(t3) = <<"ilock", "ip">> /\ \A o : Top(t3, o) <=> o = "ilock"
  <2>3. Sum(t3, {"ip"}, {}, FALSE, FALSE) /\ t3 # <<>> /\ Head(t3) = <<"ilock", "ip">> /\ \A o : Top(t3, o) <=> o = "ilock"
    <3>1. t2 \in Seq(Steps) /\ "ip" \in CallPtrs \cup {"fip"}
      BY <1>2, RegsIn DEF Sum
    <3>2. Pointers(t3) = {"ip"}
      BY <3>1, <1>2, RegsIn, Op_ilock DEF Sum
    <3>3. Locked(t3) = {}
      <4>1. Locked(t3) = Locked(t2) \ {"ip"}
        BY <3>1, RegsIn, Op_ilock
      <4>. QED BY <4>1, <1>2 DEF Sum
    <3>4. t3 \in Seq(Steps) /\ ~Logged(t3) /\ ~Leaves(t3)
      BY <3>1, <1>2, RegsIn, Op_ilock DEF Sum
    <3>5. Code(t3)
      <4>1. Code(t2) /\ ~Top(t2, "fileclose") /\ ~Top(t2, "setcwd") /\ "ip" \in Locked(t2) /\ "ip" \in Pointers(t2) \cup {"fip"}
        BY <3>1, <1>2 DEF Sum
      <4>. QED BY <3>1, <4>1, RegsIn, Op_ilock
    <3>6. t3 # <<>> /\ Head(t3) = <<"ilock", "ip">> /\ \A o : Top(t3, o) <=> o = "ilock"
      BY <3>1, RegsIn, Op_ilock
    <3>. QED BY <3>2, <3>3, <3>4, <3>5, <3>6 DEF Sum
  <2>4. Shape(t3, FALSE, FALSE, FALSE, FALSE, FALSE, FALSE, FALSE, FALSE)
    <3>1. Like(t3, t2) /\ (OnFile(t3) <=> OnFile(t2))
      BY <1>2, RegsIn, Op_ilock DEF Sum
    <3>. QED BY <1>2, <3>1, LikeShape
  <2>. QED BY <2>3, <2>4
<1>. HIDE DEF t3
<1>4. /\ Sum(t4, {}, {}, FALSE, FALSE)
      /\ Shape(t4, TRUE, FALSE, FALSE, FALSE, FALSE, FALSE, FALSE, FALSE)
      /\ t4 # <<>> /\ Head(t4) = <<"namex", "ip">> /\ \A o : Top(t4, o) <=> o = "namex"
  <2>1. Fail(t3) = <<>>
    BY <1>3 DEF Shape, Fail
  <2>2. Pointers(Fail(t3)) = {} /\ ~Logged(Fail(t3))
    BY <2>1, Nothing DEF Sum
  <2>3. Sum(t4, {}, {}, FALSE, FALSE) /\ t4 # <<>> /\ Head(t4) = <<"namex", "ip">> /\ \A o : Top(t4, o) <=> o = "namex"
    <3>1. t3 \in Seq(Steps) /\ "ip" \in {"ip", "dp"}
      BY <1>3, RegsIn DEF Sum
    <3>2. Pointers(t4) = {}
      BY <3>1, <1>3, RegsIn, Op_namex DEF Sum
    <3>3. Locked(t4) = {}
      <4>1. Locked(t4) = Locked(t3)
        BY <3>1, RegsIn, Op_namex
      <4>. QED BY <4>1, <1>3 DEF Sum
    <3>4. t4 \in Seq(Steps) /\ ~Logged(t4) /\ ~Leaves(t4)
      BY <3>1, <1>3, RegsIn, Op_namex DEF Sum
    <3>5. Code(t4)
      <4>1. Code(t3) /\ ~Top(t3, "fileclose") /\ ~Top(t3, "setcwd") /\ Pointers(t3) = Pointers(Fail(t3)) \cup {"ip"} /\ "ip" \notin Pointers(Fail(t3)) /\ Locked(t3) = {} /\ (Logged(t3) <=> Logged(Fail(t3))) /\ (~Has(t3, "bump") => ~Walks(t3, "ip") /\ ~Walks(t3, "dp")) /\ ("ip" = "dp" => ~Has(t3, "bump"))
        BY <3>1, <1>3, <2>2 DEF Sum, Shape
      <4>. QED BY <3>1, <4>1, RegsIn, Op_namex
    <3>6. t4 # <<>> /\ Head(t4) = <<"namex", "ip">> /\ \A o : Top(t4, o) <=> o = "namex"
      BY <3>1, RegsIn, Op_namex
    <3>. QED BY <3>2, <3>3, <3>4, <3>5, <3>6 DEF Sum
  <2>4. Shape(t4, TRUE, FALSE, FALSE, FALSE, FALSE, FALSE, FALSE, FALSE)
    BY <1>3, RegsIn, Op_namex DEF Sum, Shape, Like, Flags
  <2>. QED BY <2>3, <2>4
<1>. HIDE DEF t4
<1>5. t = t4
  <2>1. t0 \in Seq(Steps) /\ Cat(UnlockPut("ip"), t0) = t2 /\ UnlockPut("ip") \in Seq(Steps)
    BY <1>0, PieceUnlockPut, RegsIn DEF Sum, t1, t2
  <2>2. t2 \in Seq(Steps) /\ Cat(<<<<"namex", "ip">>, <<"ilock", "ip">>>>, t2) = t4 /\ <<<<"namex", "ip">>, <<"ilock", "ip">>>> \in Seq(Steps)
    BY <1>2, Piece18, RegsIn DEF Sum, t3, t4
  <2>3. PICK A1 \in Seq(Steps) : A1 = <<<<"namex", "ip">>, <<"ilock", "ip">>>> /\ Cat(A1, t2) = t4
    BY <2>2, Zenon
  <2>4. PICK A2 \in Seq(Steps) : A2 = UnlockPut("ip") /\ Cat(A2, t0) = t2
    BY <2>1, Zenon
  <2>5. t = Cat(A1, A2)
    BY <2>3, <2>4, Zenon DEF Cat
  <2>6. Cat(A1, A2) \in Seq(Steps)
    BY CatAssoc
  <2>7. Cat(Cat(A1, A2), t0) = Cat(A1, A2)
    BY <2>6, CatNone DEF t0
  <2>8. Cat(Cat(A1, A2), t0) = Cat(A1, t2)
    <3>1. Cat(Cat(A1, A2), t0) = Cat(A1, Cat(A2, t0))
      BY <2>1, CatAssoc
    <3>. QED BY <3>1, <2>4
  <2>. QED BY <2>5, <2>7, <2>8, <2>3
<1>6. MayFail(t4) /\ Fail(t4) = <<>>
  BY <1>4 DEF Shape, MayFail, Fail
<1>. QED BY <1>4, <1>5, <1>6, Zenon

LEMMA IsRead ==
  ASSUME NEW t, t = <<<<"ilock", "fip">>, <<"readi", "fip">>, <<"iunlock", "fip">>>>
  PROVE  /\ Sum(t, {}, {}, FALSE, FALSE)
         /\ Shape(t, FALSE, FALSE, FALSE, FALSE, FALSE, FALSE, FALSE, TRUE)
         /\ t # <<>> /\ Head(t) = <<"ilock", "fip">> /\ \A o : Top(t, o) <=> o = "ilock"
         /\ ~MayFail(t) /\ Fail(t) = <<>>
<1>. DEFINE t0 == <<>>
            t1 == On("iunlock", "fip", t0)
            t2 == On("readi", "fip", t1)
            t3 == On("ilock", "fip", t2)
<1>0. /\ Sum(t0, {}, {}, FALSE, FALSE) /\ Shape(t0, FALSE, FALSE, FALSE, FALSE, FALSE, FALSE, FALSE, FALSE)
      /\ \A o : ~Top(t0, o)
  BY Nothing
<1>. HIDE DEF t0
<1>1. /\ Sum(t1, {}, {"fip"}, FALSE, FALSE)
      /\ Shape(t1, FALSE, FALSE, FALSE, FALSE, FALSE, FALSE, FALSE, TRUE)
      /\ t1 # <<>> /\ Head(t1) = <<"iunlock", "fip">> /\ \A o : Top(t1, o) <=> o = "iunlock"
  <2>3. Sum(t1, {}, {"fip"}, FALSE, FALSE) /\ t1 # <<>> /\ Head(t1) = <<"iunlock", "fip">> /\ \A o : Top(t1, o) <=> o = "iunlock"
    <3>1. t0 \in Seq(Steps) /\ "fip" \in CallPtrs \cup {"fip"}
      BY <1>0, RegsIn DEF Sum
    <3>2. Pointers(t1) = {}
      BY <3>1, <1>0, RegsIn, Op_iunlock DEF Sum
    <3>3. Locked(t1) = {"fip"}
      <4>1. Locked(t1) = Locked(t0) \cup {"fip"}
        BY <3>1, RegsIn, Op_iunlock
      <4>. QED BY <4>1, <1>0 DEF Sum
    <3>4. t1 \in Seq(Steps) /\ ~Logged(t1) /\ ~Leaves(t1)
      BY <3>1, <1>0, RegsIn, Op_iunlock DEF Sum
    <3>5. Code(t1)
      <4>1. Code(t0) /\ ~Top(t0, "fileclose") /\ ~Top(t0, "setcwd") /\ "fip" \notin Locked(t0)
        BY <3>1, <1>0 DEF Sum
      <4>. QED BY <3>1, <4>1, RegsIn, Op_iunlock
    <3>6. t1 # <<>> /\ Head(t1) = <<"iunlock", "fip">> /\ \A o : Top(t1, o) <=> o = "iunlock"
      BY <3>1, RegsIn, Op_iunlock
    <3>. QED BY <3>2, <3>3, <3>4, <3>5, <3>6 DEF Sum
  <2>4. Shape(t1, FALSE, FALSE, FALSE, FALSE, FALSE, FALSE, FALSE, TRUE)
    <3>0. t0 \in Seq(Steps) /\ "fip" \in CallPtrs \cup {"fip"}
      BY <1>0 DEF Sum
    <3>1. Like(t1, t0) /\ OnFile(t1)
      BY <3>0, RegsIn, Op_iunlock
    <3>. QED BY <1>0, <3>1 DEF Shape, Like, Flags
  <2>. QED BY <2>3, <2>4
<1>. HIDE DEF t1
<1>2. /\ Sum(t2, {}, {"fip"}, FALSE, FALSE)
      /\ Shape(t2, FALSE, FALSE, FALSE, FALSE, FALSE, FALSE, FALSE, TRUE)
      /\ t2 # <<>> /\ Head(t2) = <<"readi", "fip">> /\ \A o : Top(t2, o) <=> o = "readi"
  <2>3. Sum(t2, {}, {"fip"}, FALSE, FALSE) /\ t2 # <<>> /\ Head(t2) = <<"readi", "fip">> /\ \A o : Top(t2, o) <=> o = "readi"
    <3>1. t1 \in Seq(Steps) /\ TRUE
      BY <1>1, RegsIn DEF Sum
    <3>2. Pointers(t2) = {}
      BY <3>1, <1>1, RegsIn, Op_readi DEF Sum
    <3>3. Locked(t2) = {"fip"}
      <4>1. Locked(t2) = Locked(t1)
        BY <3>1, RegsIn, Op_readi
      <4>. QED BY <4>1, <1>1 DEF Sum
    <3>4. t2 \in Seq(Steps) /\ ~Logged(t2) /\ ~Leaves(t2)
      BY <3>1, <1>1, RegsIn, Op_readi DEF Sum
    <3>5. Code(t2)
      <4>1. Code(t1) /\ ~Top(t1, "fileclose") /\ ~Top(t1, "setcwd") /\ "fip" \in Locked(t1)
        BY <3>1, <1>1 DEF Sum
      <4>. QED BY <3>1, <4>1, RegsIn, Op_readi
    <3>6. t2 # <<>> /\ Head(t2) = <<"readi", "fip">> /\ \A o : Top(t2, o) <=> o = "readi"
      BY <3>1, RegsIn, Op_readi
    <3>. QED BY <3>2, <3>3, <3>4, <3>5, <3>6 DEF Sum
  <2>4. Shape(t2, FALSE, FALSE, FALSE, FALSE, FALSE, FALSE, FALSE, TRUE)
    <3>0. t1 \in Seq(Steps) /\ "fip" \in CallPtrs \cup {"fip"}
      BY <1>1 DEF Sum
    <3>1. Like(t2, t1) /\ OnFile(t2)
      BY <3>0, RegsIn, Op_readi
    <3>. QED BY <1>1, <3>1 DEF Shape, Like, Flags
  <2>. QED BY <2>3, <2>4
<1>. HIDE DEF t2
<1>3. /\ Sum(t3, {}, {}, FALSE, FALSE)
      /\ Shape(t3, FALSE, FALSE, FALSE, FALSE, FALSE, FALSE, FALSE, TRUE)
      /\ t3 # <<>> /\ Head(t3) = <<"ilock", "fip">> /\ \A o : Top(t3, o) <=> o = "ilock"
  <2>3. Sum(t3, {}, {}, FALSE, FALSE) /\ t3 # <<>> /\ Head(t3) = <<"ilock", "fip">> /\ \A o : Top(t3, o) <=> o = "ilock"
    <3>1. t2 \in Seq(Steps) /\ "fip" \in CallPtrs \cup {"fip"}
      BY <1>2, RegsIn DEF Sum
    <3>2. Pointers(t3) = {}
      BY <3>1, <1>2, RegsIn, Op_ilock DEF Sum
    <3>3. Locked(t3) = {}
      <4>1. Locked(t3) = Locked(t2) \ {"fip"}
        BY <3>1, RegsIn, Op_ilock
      <4>. QED BY <4>1, <1>2 DEF Sum
    <3>4. t3 \in Seq(Steps) /\ ~Logged(t3) /\ ~Leaves(t3)
      BY <3>1, <1>2, RegsIn, Op_ilock DEF Sum
    <3>5. Code(t3)
      <4>1. Code(t2) /\ ~Top(t2, "fileclose") /\ ~Top(t2, "setcwd") /\ "fip" \in Locked(t2) /\ "fip" \in Pointers(t2) \cup {"fip"}
        BY <3>1, <1>2 DEF Sum
      <4>. QED BY <3>1, <4>1, RegsIn, Op_ilock
    <3>6. t3 # <<>> /\ Head(t3) = <<"ilock", "fip">> /\ \A o : Top(t3, o) <=> o = "ilock"
      BY <3>1, RegsIn, Op_ilock
    <3>. QED BY <3>2, <3>3, <3>4, <3>5, <3>6 DEF Sum
  <2>4. Shape(t3, FALSE, FALSE, FALSE, FALSE, FALSE, FALSE, FALSE, TRUE)
    <3>0. t2 \in Seq(Steps) /\ "fip" \in CallPtrs \cup {"fip"}
      BY <1>2 DEF Sum
    <3>1. Like(t3, t2) /\ OnFile(t3)
      BY <3>0, RegsIn, Op_ilock
    <3>. QED BY <1>2, <3>1 DEF Shape, Like, Flags
  <2>. QED BY <2>3, <2>4
<1>. HIDE DEF t3
<1>4. t = t3
  <2>1. t0 \in Seq(Steps) /\ Cat(<<<<"ilock", "fip">>, <<"readi", "fip">>, <<"iunlock", "fip">>>>, t0) = t3 /\ <<<<"ilock", "fip">>, <<"readi", "fip">>, <<"iunlock", "fip">>>> \in Seq(Steps)
    BY <1>0, Piece19, RegsIn DEF Sum, t1, t2, t3
  <2>2. Cat(<<<<"ilock", "fip">>, <<"readi", "fip">>, <<"iunlock", "fip">>>>, t0) = <<<<"ilock", "fip">>, <<"readi", "fip">>, <<"iunlock", "fip">>>>
    BY <2>1, CatNone DEF t0
  <2>. QED BY <2>1, <2>2
<1>5. ~MayFail(t3) /\ Fail(t3) = <<>>
  BY <1>3 DEF Shape, MayFail, Fail
<1>. QED BY <1>3, <1>4, <1>5, Zenon

LEMMA IsWrite ==
  ASSUME NEW t, t = <<<<"begin", "fip">>, <<"ilock", "fip">>, <<"writei", "fip">>, <<"iunlock", "fip">>, <<"commit", "fip">>>>
  PROVE  /\ Sum(t, {}, {}, FALSE, FALSE)
         /\ Shape(t, FALSE, FALSE, FALSE, FALSE, FALSE, FALSE, FALSE, TRUE)
         /\ t # <<>> /\ Head(t) = <<"begin", "fip">> /\ \A o : Top(t, o) <=> o = "begin"
         /\ ~MayFail(t) /\ Fail(t) = <<>>
<1>. DEFINE t0 == <<>>
            t1 == On("commit", "fip", t0)
            t2 == On("iunlock", "fip", t1)
            t3 == On("writei", "fip", t2)
            t4 == On("ilock", "fip", t3)
            t5 == On("begin", "fip", t4)
<1>0. /\ Sum(t0, {}, {}, FALSE, FALSE) /\ Shape(t0, FALSE, FALSE, FALSE, FALSE, FALSE, FALSE, FALSE, FALSE)
      /\ \A o : ~Top(t0, o)
  BY Nothing
<1>. HIDE DEF t0
<1>1. /\ Sum(t1, {}, {}, TRUE, FALSE)
      /\ Shape(t1, FALSE, FALSE, FALSE, FALSE, FALSE, FALSE, FALSE, TRUE)
      /\ t1 # <<>> /\ Head(t1) = <<"commit", "fip">> /\ \A o : Top(t1, o) <=> o = "commit"
  <2>3. Sum(t1, {}, {}, TRUE, FALSE) /\ t1 # <<>> /\ Head(t1) = <<"commit", "fip">> /\ \A o : Top(t1, o) <=> o = "commit"
    <3>1. t0 \in Seq(Steps) /\ TRUE
      BY <1>0, RegsIn DEF Sum
    <3>2. Pointers(t1) = {}
      BY <3>1, <1>0, RegsIn, Op_commit DEF Sum
    <3>3. Locked(t1) = {}
      <4>1. Locked(t1) = Locked(t0)
        BY <3>1, RegsIn, Op_commit
      <4>. QED BY <4>1, <1>0 DEF Sum
    <3>4. t1 \in Seq(Steps) /\ Logged(t1) /\ ~Leaves(t1)
      BY <3>1, <1>0, RegsIn, Op_commit DEF Sum
    <3>5. Code(t1)
      <4>1. Code(t0) /\ ~Top(t0, "fileclose") /\ ~Top(t0, "setcwd") /\ ~Logged(t0)
        BY <3>1, <1>0 DEF Sum
      <4>. QED BY <3>1, <4>1, RegsIn, Op_commit
    <3>6. t1 # <<>> /\ Head(t1) = <<"commit", "fip">> /\ \A o : Top(t1, o) <=> o = "commit"
      BY <3>1, RegsIn, Op_commit
    <3>. QED BY <3>2, <3>3, <3>4, <3>5, <3>6 DEF Sum
  <2>4. Shape(t1, FALSE, FALSE, FALSE, FALSE, FALSE, FALSE, FALSE, TRUE)
    <3>0. t0 \in Seq(Steps) /\ "fip" \in CallPtrs \cup {"fip"}
      BY <1>0 DEF Sum
    <3>1. Like(t1, t0) /\ OnFile(t1)
      BY <3>0, RegsIn, Op_commit
    <3>. QED BY <1>0, <3>1 DEF Shape, Like, Flags
  <2>. QED BY <2>3, <2>4
<1>. HIDE DEF t1
<1>2. /\ Sum(t2, {}, {"fip"}, TRUE, FALSE)
      /\ Shape(t2, FALSE, FALSE, FALSE, FALSE, FALSE, FALSE, FALSE, TRUE)
      /\ t2 # <<>> /\ Head(t2) = <<"iunlock", "fip">> /\ \A o : Top(t2, o) <=> o = "iunlock"
  <2>3. Sum(t2, {}, {"fip"}, TRUE, FALSE) /\ t2 # <<>> /\ Head(t2) = <<"iunlock", "fip">> /\ \A o : Top(t2, o) <=> o = "iunlock"
    <3>1. t1 \in Seq(Steps) /\ "fip" \in CallPtrs \cup {"fip"}
      BY <1>1, RegsIn DEF Sum
    <3>2. Pointers(t2) = {}
      BY <3>1, <1>1, RegsIn, Op_iunlock DEF Sum
    <3>3. Locked(t2) = {"fip"}
      <4>1. Locked(t2) = Locked(t1) \cup {"fip"}
        BY <3>1, RegsIn, Op_iunlock
      <4>. QED BY <4>1, <1>1 DEF Sum
    <3>4. t2 \in Seq(Steps) /\ Logged(t2) /\ ~Leaves(t2)
      BY <3>1, <1>1, RegsIn, Op_iunlock DEF Sum
    <3>5. Code(t2)
      <4>1. Code(t1) /\ ~Top(t1, "fileclose") /\ ~Top(t1, "setcwd") /\ "fip" \notin Locked(t1)
        BY <3>1, <1>1 DEF Sum
      <4>. QED BY <3>1, <4>1, RegsIn, Op_iunlock
    <3>6. t2 # <<>> /\ Head(t2) = <<"iunlock", "fip">> /\ \A o : Top(t2, o) <=> o = "iunlock"
      BY <3>1, RegsIn, Op_iunlock
    <3>. QED BY <3>2, <3>3, <3>4, <3>5, <3>6 DEF Sum
  <2>4. Shape(t2, FALSE, FALSE, FALSE, FALSE, FALSE, FALSE, FALSE, TRUE)
    <3>0. t1 \in Seq(Steps) /\ "fip" \in CallPtrs \cup {"fip"}
      BY <1>1 DEF Sum
    <3>1. Like(t2, t1) /\ OnFile(t2)
      BY <3>0, RegsIn, Op_iunlock
    <3>. QED BY <1>1, <3>1 DEF Shape, Like, Flags
  <2>. QED BY <2>3, <2>4
<1>. HIDE DEF t2
<1>3. /\ Sum(t3, {}, {"fip"}, TRUE, FALSE)
      /\ Shape(t3, FALSE, FALSE, FALSE, FALSE, FALSE, FALSE, FALSE, TRUE)
      /\ t3 # <<>> /\ Head(t3) = <<"writei", "fip">> /\ \A o : Top(t3, o) <=> o = "writei"
  <2>3. Sum(t3, {}, {"fip"}, TRUE, FALSE) /\ t3 # <<>> /\ Head(t3) = <<"writei", "fip">> /\ \A o : Top(t3, o) <=> o = "writei"
    <3>1. t2 \in Seq(Steps) /\ TRUE
      BY <1>2, RegsIn DEF Sum
    <3>2. Pointers(t3) = {}
      BY <3>1, <1>2, RegsIn, Op_writei DEF Sum
    <3>3. Locked(t3) = {"fip"}
      <4>1. Locked(t3) = Locked(t2)
        BY <3>1, RegsIn, Op_writei
      <4>. QED BY <4>1, <1>2 DEF Sum
    <3>4. t3 \in Seq(Steps) /\ Logged(t3) /\ ~Leaves(t3)
      BY <3>1, <1>2, RegsIn, Op_writei DEF Sum
    <3>5. Code(t3)
      <4>1. Code(t2) /\ ~Top(t2, "fileclose") /\ ~Top(t2, "setcwd") /\ "fip" \in Locked(t2)
        BY <3>1, <1>2 DEF Sum
      <4>. QED BY <3>1, <4>1, RegsIn, Op_writei
    <3>6. t3 # <<>> /\ Head(t3) = <<"writei", "fip">> /\ \A o : Top(t3, o) <=> o = "writei"
      BY <3>1, RegsIn, Op_writei
    <3>. QED BY <3>2, <3>3, <3>4, <3>5, <3>6 DEF Sum
  <2>4. Shape(t3, FALSE, FALSE, FALSE, FALSE, FALSE, FALSE, FALSE, TRUE)
    <3>0. t2 \in Seq(Steps) /\ "fip" \in CallPtrs \cup {"fip"}
      BY <1>2 DEF Sum
    <3>1. Like(t3, t2) /\ OnFile(t3)
      BY <3>0, RegsIn, Op_writei
    <3>. QED BY <1>2, <3>1 DEF Shape, Like, Flags
  <2>. QED BY <2>3, <2>4
<1>. HIDE DEF t3
<1>4. /\ Sum(t4, {}, {}, TRUE, FALSE)
      /\ Shape(t4, FALSE, FALSE, FALSE, FALSE, FALSE, FALSE, FALSE, TRUE)
      /\ t4 # <<>> /\ Head(t4) = <<"ilock", "fip">> /\ \A o : Top(t4, o) <=> o = "ilock"
  <2>3. Sum(t4, {}, {}, TRUE, FALSE) /\ t4 # <<>> /\ Head(t4) = <<"ilock", "fip">> /\ \A o : Top(t4, o) <=> o = "ilock"
    <3>1. t3 \in Seq(Steps) /\ "fip" \in CallPtrs \cup {"fip"}
      BY <1>3, RegsIn DEF Sum
    <3>2. Pointers(t4) = {}
      BY <3>1, <1>3, RegsIn, Op_ilock DEF Sum
    <3>3. Locked(t4) = {}
      <4>1. Locked(t4) = Locked(t3) \ {"fip"}
        BY <3>1, RegsIn, Op_ilock
      <4>. QED BY <4>1, <1>3 DEF Sum
    <3>4. t4 \in Seq(Steps) /\ Logged(t4) /\ ~Leaves(t4)
      BY <3>1, <1>3, RegsIn, Op_ilock DEF Sum
    <3>5. Code(t4)
      <4>1. Code(t3) /\ ~Top(t3, "fileclose") /\ ~Top(t3, "setcwd") /\ "fip" \in Locked(t3) /\ "fip" \in Pointers(t3) \cup {"fip"}
        BY <3>1, <1>3 DEF Sum
      <4>. QED BY <3>1, <4>1, RegsIn, Op_ilock
    <3>6. t4 # <<>> /\ Head(t4) = <<"ilock", "fip">> /\ \A o : Top(t4, o) <=> o = "ilock"
      BY <3>1, RegsIn, Op_ilock
    <3>. QED BY <3>2, <3>3, <3>4, <3>5, <3>6 DEF Sum
  <2>4. Shape(t4, FALSE, FALSE, FALSE, FALSE, FALSE, FALSE, FALSE, TRUE)
    <3>0. t3 \in Seq(Steps) /\ "fip" \in CallPtrs \cup {"fip"}
      BY <1>3 DEF Sum
    <3>1. Like(t4, t3) /\ OnFile(t4)
      BY <3>0, RegsIn, Op_ilock
    <3>. QED BY <1>3, <3>1 DEF Shape, Like, Flags
  <2>. QED BY <2>3, <2>4
<1>. HIDE DEF t4
<1>5. /\ Sum(t5, {}, {}, FALSE, FALSE)
      /\ Shape(t5, FALSE, FALSE, FALSE, FALSE, FALSE, FALSE, FALSE, TRUE)
      /\ t5 # <<>> /\ Head(t5) = <<"begin", "fip">> /\ \A o : Top(t5, o) <=> o = "begin"
  <2>3. Sum(t5, {}, {}, FALSE, FALSE) /\ t5 # <<>> /\ Head(t5) = <<"begin", "fip">> /\ \A o : Top(t5, o) <=> o = "begin"
    <3>1. t4 \in Seq(Steps) /\ TRUE
      BY <1>4, RegsIn DEF Sum
    <3>2. Pointers(t5) = {}
      BY <3>1, <1>4, RegsIn, Op_begin DEF Sum
    <3>3. Locked(t5) = {}
      <4>1. Locked(t5) = Locked(t4)
        BY <3>1, RegsIn, Op_begin
      <4>. QED BY <4>1, <1>4 DEF Sum
    <3>4. t5 \in Seq(Steps) /\ ~Logged(t5) /\ ~Leaves(t5)
      BY <3>1, <1>4, RegsIn, Op_begin DEF Sum
    <3>5. Code(t5)
      <4>1. Code(t4) /\ ~Top(t4, "fileclose") /\ ~Top(t4, "setcwd") /\ Logged(t4)
        BY <3>1, <1>4 DEF Sum
      <4>. QED BY <3>1, <4>1, RegsIn, Op_begin
    <3>6. t5 # <<>> /\ Head(t5) = <<"begin", "fip">> /\ \A o : Top(t5, o) <=> o = "begin"
      BY <3>1, RegsIn, Op_begin
    <3>. QED BY <3>2, <3>3, <3>4, <3>5, <3>6 DEF Sum
  <2>4. Shape(t5, FALSE, FALSE, FALSE, FALSE, FALSE, FALSE, FALSE, TRUE)
    <3>0. t4 \in Seq(Steps) /\ "fip" \in CallPtrs \cup {"fip"}
      BY <1>4 DEF Sum
    <3>1. Like(t5, t4) /\ OnFile(t5)
      BY <3>0, RegsIn, Op_begin
    <3>. QED BY <1>4, <3>1 DEF Shape, Like, Flags
  <2>. QED BY <2>3, <2>4
<1>. HIDE DEF t5
<1>6. t = t5
  <2>1. t0 \in Seq(Steps) /\ Cat(<<<<"begin", "fip">>, <<"ilock", "fip">>, <<"writei", "fip">>, <<"iunlock", "fip">>, <<"commit", "fip">>>>, t0) = t5 /\ <<<<"begin", "fip">>, <<"ilock", "fip">>, <<"writei", "fip">>, <<"iunlock", "fip">>, <<"commit", "fip">>>> \in Seq(Steps)
    BY <1>0, Piece20, RegsIn DEF Sum, t1, t2, t3, t4, t5
  <2>2. Cat(<<<<"begin", "fip">>, <<"ilock", "fip">>, <<"writei", "fip">>, <<"iunlock", "fip">>, <<"commit", "fip">>>>, t0) = <<<<"begin", "fip">>, <<"ilock", "fip">>, <<"writei", "fip">>, <<"iunlock", "fip">>, <<"commit", "fip">>>>
    BY <2>1, CatNone DEF t0
  <2>. QED BY <2>1, <2>2
<1>7. ~MayFail(t5) /\ Fail(t5) = <<>>
  BY <1>5 DEF Shape, MayFail, Fail
<1>. QED BY <1>5, <1>6, <1>7, Zenon

LEMMA IsFstat ==
  ASSUME NEW t, t = <<<<"ilock", "fip">>, <<"iunlock", "fip">>>>
  PROVE  /\ Sum(t, {}, {}, FALSE, FALSE)
         /\ Shape(t, FALSE, FALSE, FALSE, FALSE, FALSE, FALSE, FALSE, TRUE)
         /\ t # <<>> /\ Head(t) = <<"ilock", "fip">> /\ \A o : Top(t, o) <=> o = "ilock"
         /\ ~MayFail(t) /\ Fail(t) = <<>>
<1>. DEFINE t0 == <<>>
            t1 == On("iunlock", "fip", t0)
            t2 == On("ilock", "fip", t1)
<1>0. /\ Sum(t0, {}, {}, FALSE, FALSE) /\ Shape(t0, FALSE, FALSE, FALSE, FALSE, FALSE, FALSE, FALSE, FALSE)
      /\ \A o : ~Top(t0, o)
  BY Nothing
<1>. HIDE DEF t0
<1>1. /\ Sum(t1, {}, {"fip"}, FALSE, FALSE)
      /\ Shape(t1, FALSE, FALSE, FALSE, FALSE, FALSE, FALSE, FALSE, TRUE)
      /\ t1 # <<>> /\ Head(t1) = <<"iunlock", "fip">> /\ \A o : Top(t1, o) <=> o = "iunlock"
  <2>3. Sum(t1, {}, {"fip"}, FALSE, FALSE) /\ t1 # <<>> /\ Head(t1) = <<"iunlock", "fip">> /\ \A o : Top(t1, o) <=> o = "iunlock"
    <3>1. t0 \in Seq(Steps) /\ "fip" \in CallPtrs \cup {"fip"}
      BY <1>0, RegsIn DEF Sum
    <3>2. Pointers(t1) = {}
      BY <3>1, <1>0, RegsIn, Op_iunlock DEF Sum
    <3>3. Locked(t1) = {"fip"}
      <4>1. Locked(t1) = Locked(t0) \cup {"fip"}
        BY <3>1, RegsIn, Op_iunlock
      <4>. QED BY <4>1, <1>0 DEF Sum
    <3>4. t1 \in Seq(Steps) /\ ~Logged(t1) /\ ~Leaves(t1)
      BY <3>1, <1>0, RegsIn, Op_iunlock DEF Sum
    <3>5. Code(t1)
      <4>1. Code(t0) /\ ~Top(t0, "fileclose") /\ ~Top(t0, "setcwd") /\ "fip" \notin Locked(t0)
        BY <3>1, <1>0 DEF Sum
      <4>. QED BY <3>1, <4>1, RegsIn, Op_iunlock
    <3>6. t1 # <<>> /\ Head(t1) = <<"iunlock", "fip">> /\ \A o : Top(t1, o) <=> o = "iunlock"
      BY <3>1, RegsIn, Op_iunlock
    <3>. QED BY <3>2, <3>3, <3>4, <3>5, <3>6 DEF Sum
  <2>4. Shape(t1, FALSE, FALSE, FALSE, FALSE, FALSE, FALSE, FALSE, TRUE)
    <3>0. t0 \in Seq(Steps) /\ "fip" \in CallPtrs \cup {"fip"}
      BY <1>0 DEF Sum
    <3>1. Like(t1, t0) /\ OnFile(t1)
      BY <3>0, RegsIn, Op_iunlock
    <3>. QED BY <1>0, <3>1 DEF Shape, Like, Flags
  <2>. QED BY <2>3, <2>4
<1>. HIDE DEF t1
<1>2. /\ Sum(t2, {}, {}, FALSE, FALSE)
      /\ Shape(t2, FALSE, FALSE, FALSE, FALSE, FALSE, FALSE, FALSE, TRUE)
      /\ t2 # <<>> /\ Head(t2) = <<"ilock", "fip">> /\ \A o : Top(t2, o) <=> o = "ilock"
  <2>3. Sum(t2, {}, {}, FALSE, FALSE) /\ t2 # <<>> /\ Head(t2) = <<"ilock", "fip">> /\ \A o : Top(t2, o) <=> o = "ilock"
    <3>1. t1 \in Seq(Steps) /\ "fip" \in CallPtrs \cup {"fip"}
      BY <1>1, RegsIn DEF Sum
    <3>2. Pointers(t2) = {}
      BY <3>1, <1>1, RegsIn, Op_ilock DEF Sum
    <3>3. Locked(t2) = {}
      <4>1. Locked(t2) = Locked(t1) \ {"fip"}
        BY <3>1, RegsIn, Op_ilock
      <4>. QED BY <4>1, <1>1 DEF Sum
    <3>4. t2 \in Seq(Steps) /\ ~Logged(t2) /\ ~Leaves(t2)
      BY <3>1, <1>1, RegsIn, Op_ilock DEF Sum
    <3>5. Code(t2)
      <4>1. Code(t1) /\ ~Top(t1, "fileclose") /\ ~Top(t1, "setcwd") /\ "fip" \in Locked(t1) /\ "fip" \in Pointers(t1) \cup {"fip"}
        BY <3>1, <1>1 DEF Sum
      <4>. QED BY <3>1, <4>1, RegsIn, Op_ilock
    <3>6. t2 # <<>> /\ Head(t2) = <<"ilock", "fip">> /\ \A o : Top(t2, o) <=> o = "ilock"
      BY <3>1, RegsIn, Op_ilock
    <3>. QED BY <3>2, <3>3, <3>4, <3>5, <3>6 DEF Sum
  <2>4. Shape(t2, FALSE, FALSE, FALSE, FALSE, FALSE, FALSE, FALSE, TRUE)
    <3>0. t1 \in Seq(Steps) /\ "fip" \in CallPtrs \cup {"fip"}
      BY <1>1 DEF Sum
    <3>1. Like(t2, t1) /\ OnFile(t2)
      BY <3>0, RegsIn, Op_ilock
    <3>. QED BY <1>1, <3>1 DEF Shape, Like, Flags
  <2>. QED BY <2>3, <2>4
<1>. HIDE DEF t2
<1>3. t = t2
  <2>1. t0 \in Seq(Steps) /\ Cat(<<<<"ilock", "fip">>, <<"iunlock", "fip">>>>, t0) = t2 /\ <<<<"ilock", "fip">>, <<"iunlock", "fip">>>> \in Seq(Steps)
    BY <1>0, Piece21, RegsIn DEF Sum, t1, t2
  <2>2. Cat(<<<<"ilock", "fip">>, <<"iunlock", "fip">>>>, t0) = <<<<"ilock", "fip">>, <<"iunlock", "fip">>>>
    BY <2>1, CatNone DEF t0
  <2>. QED BY <2>1, <2>2
<1>4. ~MayFail(t2) /\ Fail(t2) = <<>>
  BY <1>2 DEF Shape, MayFail, Fail
<1>. QED BY <1>2, <1>3, <1>4, Zenon
=============================================================================

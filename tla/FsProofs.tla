------------------------------ MODULE FsProofs ------------------------------
(***************************************************************************)
(* Proofs about the file system.                                           *)
(*                                                                         *)
(* The log, for any number of processes, blocks and any size: transactions *)
(* are atomic across crashes.                                              *)
(*                                                                         *)
(* The calls of Fs, for any number of processes, inodes, blocks, files and *)
(* names, any requests and any number of calls: the counts of the inode    *)
(* cache and of the file table are exact, an inode has one entry, no call  *)
(* keeps a lock or the log, the assertions of ilock, iunlock, iput and     *)
(* fileclose hold, and nothing changes an inode that is not locked.        *)
(*                                                                         *)
(* A call is judged by the steps left of it: which pointers and locks the  *)
(* process has at each of them follows from the steps ahead (FsCode), so   *)
(* every call is checked once, where its steps are laid out.               *)
(***************************************************************************)
EXTENDS FsCode, Log

-----------------------------------------------------------------------------
(* The invariant.                                                          *)

Regs == [w : Slots \cup {None}, ip : Slots \cup {None}, dp : Slots \cup {None},
         ff : Slots \cup {None}, cwd : Slots \cup {None},
         path : Paths \cup {None}, new : Paths \cup {None}, parent : BOOLEAN,
         name : Names, kind : Types \cup {"none"}, mode : Modes \cup {"none"},
         fp : (1 .. NFILE) \cup {None}, fip : Slots \cup {None},
         err : {<<>>, CommitIp, LinkBad}]
Dinodes == [type : Types \cup {"none"}, nlink : Int, addrs : Seq(Nat)]
Inodes  == [inum : 0 .. NINODES - 1, ref : Nat, busy : Procs \cup {None}, valid : BOOLEAN,
            type : Types \cup {"none"}, nlink : Int, addrs : Seq(Nat)]
Files   == [ref : Nat, ip : Slots \cup {None}, off : Nat, mode : Modes \cup {"none"}]

Typed ==
  /\ din \in [Inums -> Dinodes]
  /\ ents \in [Inums -> [Names -> 0 .. NINODES - 1]]
  /\ used \subseteq Blocks
  /\ icache \in [Slots -> Inodes]
  /\ trans \in Procs \cup {None}
  /\ file \in [1 .. NFILE -> Files]
  /\ ofile \in [Procs -> [1 .. NOFILE -> (1 .. NFILE) \cup {None}]]
  /\ reg \in [Procs -> Regs]
  /\ todo \in [Procs -> Seq(Steps)]

\* A process with registers r and files o can do the steps t: it has the
\* pointers that they need and no other, and the arguments.
Holding(t, r) ==
  /\ \A x \in CallPtrs : r[x] # None <=> x \in Pointers(t)
  /\ t # <<>> /\ ~Top(t, "setcwd") => r["cwd"] # None
  /\ Top(t, "setcwd") => r["cwd"] = None
Arguments(t, r) ==
  /\ MayFail(t) => r.err = Fail(t)
  /\ Walks(t, "ip") => ~r.parent
  /\ Walks(t, "dp") /\ ~Has(t, "bump") => r.parent
  /\ Walks(t, "ip") \/ Walks(t, "dp") => r.path \in Paths
  /\ Has(t, "bump") => r.new \in Paths
Descriptors(t, r, o) ==
  /\ (Leaves(t) /\ ~Has(t, "setcwd")) \/ (t = <<>> /\ r["cwd"] = None) =>
       \A fd \in 1 .. NOFILE : o[fd] = None
  /\ Top(t, "fileclose") => o[Head(t)[2]] # None
Local(t, r, o) == Code(t) /\ Holding(t, r) /\ Arguments(t, r) /\ Descriptors(t, r, o)

\* A process in a call on a file has a descriptor of it.
Opened(t, r, o, fl) ==
  OnFile(t) => /\ r.fp \in 1 .. NFILE /\ r.fip \in Slots
               /\ fl[r.fp].ip = r.fip
               /\ \E fd \in 1 .. NOFILE : o[fd] = r.fp

\* The locks of process p are on the inodes that its steps need locked.
Locks(p, t, r, ic) ==
  /\ \A x \in Locked(t) : r[x] \in Slots /\ ic[r[x]].busy = p
  /\ \A x, y \in Locked(t) : r[x] = r[y] => x = y
  /\ \A s \in Slots : ic[s].busy = p => \E x \in Locked(t) : r[x] = s

\* References: pointers of processes g and of files fl.
At1(g, s) == {px \in Procs \X Ptrs : g[px[1]][px[2]] = s}
At2(fl, s) == {f \in 1 .. NFILE : fl[f].ref > 0 /\ fl[f].ip = s}
RefsAre(ic, g, fl) ==
  \A s \in Slots : ic[s].ref = Cardinality(At1(g, s)) + Cardinality(At2(fl, s))
NamedBy(o, f) == {pf \in Procs \X (1 .. NOFILE) : o[pf[1]][pf[2]] = f}
FilesAre(fl, o) ==
  \A f \in 1 .. NFILE : /\ fl[f].ref = Cardinality(NamedBy(o, f))
                        /\ fl[f].ref > 0 => fl[f].ip \in Slots

\* One entry for an inode.
Unique(ic) ==
  /\ \A s \in Slots : ic[s].ref > 0 => ic[s].inum \in Inums
  /\ \A s, u \in Slots : ic[s].ref > 0 /\ ic[u].ref > 0 /\ ic[s].inum = ic[u].inum => s = u

\* A valid entry is a copy of the dinode; while its inode is being freed it may
\* be behind, and is about to be marked.
Copied(ic, d) ==
  \A s \in Slots : ic[s].ref > 0 /\ ic[s].valid =>
    Copy(ic[s]) = d[ic[s].inum] \/ (ic[s].type = "none" /\ ic[s].busy # None)
Freeing(ic, t, g) ==
  \A s \in Slots : ic[s].ref > 0 /\ ic[s].valid /\ ic[s].type = "none" =>
    \E p \in Procs : ic[s].busy = p /\ Top(t[p], "iputend") /\ g[p][Head(t[p])[2]] = s

IInv ==
  /\ Typed
  /\ \A p \in Procs : /\ Local(todo[p], reg[p], ofile[p])
                      /\ Opened(todo[p], reg[p], ofile[p], file)
                      /\ Locks(p, todo[p], reg[p], icache)
                      /\ trans = p <=> Logged(todo[p])
  /\ RefsAre(icache, reg, file) /\ FilesAre(file, ofile)
  /\ Unique(icache) /\ Copied(icache, din) /\ Freeing(icache, todo, reg)
  /\ panic \notin {"ilock", "iunlock", "iput busy", "fileclose"}

LEMMA LikeArgs ==
  ASSUME NEW t, NEW u, NEW r, Like(u, t)
  PROVE  Arguments(u, r) <=> Arguments(t, r)
<1>1. Has(u, "bump") <=> Has(t, "bump")
  BY DEF Like, Flags
<1>. QED BY <1>1, LikeFails DEF Like, Arguments

-----------------------------------------------------------------------------
(* Minima, registers and counts.                                           *)

LEMMA MinIn ==
  ASSUME NEW S \in SUBSET Nat, S # {}
  PROVE  Min(S) \in S
<1>1. PICK x \in S : \A y \in S : ~(<<y, x>> \in OpToRel(<, Nat))
  BY WFMin, NatLessThanWellFounded
<1>2. \A y \in S : ~(y < x)
  BY <1>1, Zenon DEF OpToRel
<1>3. \A y \in S : x <= y
  BY <1>2
<1>. QED BY <1>3 DEF Min

LEMMA NotNone ==
  /\ None \notin Slots /\ None \notin 1 .. NFILE /\ None \notin Procs /\ None \notin 1 .. NOFILE
  /\ Slots \subseteq Nat /\ Inums \subseteq Nat
BY FsAssumption DEF Slots, Inums

\* A pointer of the registers is set.
LEMMA SetReg ==
  ASSUME NEW r \in Regs, NEW x \in Ptrs, NEW v \in Slots \cup {None},
         NEW h, h = [r EXCEPT ![x] = v]
  PROVE  /\ h \in Regs /\ h[x] = v
         /\ \A y \in Ptrs \cup {"fip"} : y # x => h[y] = r[y]
         /\ h.path = r.path /\ h.new = r.new /\ h.parent = r.parent /\ h.name = r.name
         /\ h.kind = r.kind /\ h.mode = r.mode /\ h.fp = r.fp /\ h.fip = r.fip /\ h.err = r.err
<1>1. CASE x = "w"
  BY <1>1 DEF Regs, Ptrs
<1>2. CASE x = "ip"
  BY <1>2 DEF Regs, Ptrs
<1>3. CASE x = "dp"
  BY <1>3 DEF Regs, Ptrs
<1>4. CASE x = "ff"
  BY <1>4 DEF Regs, Ptrs
<1>5. CASE x = "cwd"
  BY <1>5 DEF Regs, Ptrs
<1>. QED BY <1>1, <1>2, <1>3, <1>4, <1>5 DEF Ptrs

\* The same, of the pointers that follow, as a predicate.
SetTo(r, x, v, h) ==
  /\ h \in Regs /\ h[x] = v /\ (\A y \in Ptrs \cup {"fip"} : y # x => h[y] = r[y])
  /\ h.path = r.path /\ h.new = r.new /\ h.parent = r.parent /\ h.name = r.name
  /\ h.kind = r.kind /\ h.mode = r.mode /\ h.fp = r.fp /\ h.fip = r.fip /\ h.err = r.err
LEMMA SetIs ==
  ASSUME NEW r \in Regs, NEW x \in Ptrs, NEW v \in Slots \cup {None}
  PROVE  SetTo(r, x, v, [r EXCEPT ![x] = v])
<1>. DEFINE h == [r EXCEPT ![x] = v]
<1>1. h = [r EXCEPT ![x] = v]
  OBVIOUS
<1>. HIDE DEF h
<1>2. CASE x = "w"
  BY <1>1, <1>2 DEF Regs, Ptrs, SetTo
<1>3. CASE x = "ip"
  BY <1>1, <1>3 DEF Regs, Ptrs, SetTo
<1>4. CASE x = "dp"
  BY <1>1, <1>4 DEF Regs, Ptrs, SetTo
<1>5. CASE x = "ff"
  BY <1>1, <1>5 DEF Regs, Ptrs, SetTo
<1>6. CASE x = "cwd"
  BY <1>1, <1>6 DEF Regs, Ptrs, SetTo
<1>. QED BY <1>2, <1>3, <1>4, <1>5, <1>6 DEF Ptrs

\* Another register is set.
Fields == Ptrs \cup {"path", "new", "parent", "name", "kind", "mode", "fp", "fip", "err"}
ButField(r, h, k) == h \in Regs /\ \A y \in Fields \ {k} : h[y] = r[y]
LEMMA SetPath ==
  ASSUME NEW r \in Regs, NEW v \in Paths \cup {None}
  PROVE  ButField(r, [r EXCEPT !.path = v], "path") /\ [r EXCEPT !.path = v].path = v
<1>1. [r EXCEPT !.path = v] \in Regs
  BY DEF Regs
<1>2. [r EXCEPT !.path = v].path = v
  BY DEF Regs
<1>3. \A y \in Fields \ {"path"} : [r EXCEPT !.path = v][y] = r[y]
  BY DEF Regs, Fields, Ptrs
<1>. QED BY <1>1, <1>2, <1>3 DEF ButField
LEMMA SetNew ==
  ASSUME NEW r \in Regs, NEW v \in Paths \cup {None}
  PROVE  ButField(r, [r EXCEPT !.new = v], "new") /\ [r EXCEPT !.new = v].new = v
<1>1. [r EXCEPT !.new = v] \in Regs
  BY DEF Regs
<1>2. [r EXCEPT !.new = v].new = v
  BY DEF Regs
<1>3. \A y \in Fields \ {"new"} : [r EXCEPT !.new = v][y] = r[y]
  BY DEF Regs, Fields, Ptrs
<1>. QED BY <1>1, <1>2, <1>3 DEF ButField
LEMMA SetParent ==
  ASSUME NEW r \in Regs, NEW v \in BOOLEAN
  PROVE  ButField(r, [r EXCEPT !.parent = v], "parent") /\ [r EXCEPT !.parent = v].parent = v
<1>1. [r EXCEPT !.parent = v] \in Regs
  BY DEF Regs
<1>2. [r EXCEPT !.parent = v].parent = v
  BY DEF Regs
<1>3. \A y \in Fields \ {"parent"} : [r EXCEPT !.parent = v][y] = r[y]
  BY DEF Regs, Fields, Ptrs
<1>. QED BY <1>1, <1>2, <1>3 DEF ButField
LEMMA SetName ==
  ASSUME NEW r \in Regs, NEW v \in Names
  PROVE  ButField(r, [r EXCEPT !.name = v], "name") /\ [r EXCEPT !.name = v].name = v
<1>1. [r EXCEPT !.name = v] \in Regs
  BY DEF Regs
<1>2. [r EXCEPT !.name = v].name = v
  BY DEF Regs
<1>3. \A y \in Fields \ {"name"} : [r EXCEPT !.name = v][y] = r[y]
  BY DEF Regs, Fields, Ptrs
<1>. QED BY <1>1, <1>2, <1>3 DEF ButField
LEMMA SetKind ==
  ASSUME NEW r \in Regs, NEW v \in Types \cup {"none"}
  PROVE  ButField(r, [r EXCEPT !.kind = v], "kind") /\ [r EXCEPT !.kind = v].kind = v
<1>1. [r EXCEPT !.kind = v] \in Regs
  BY DEF Regs
<1>2. [r EXCEPT !.kind = v].kind = v
  BY DEF Regs
<1>3. \A y \in Fields \ {"kind"} : [r EXCEPT !.kind = v][y] = r[y]
  BY DEF Regs, Fields, Ptrs
<1>. QED BY <1>1, <1>2, <1>3 DEF ButField
LEMMA SetMode ==
  ASSUME NEW r \in Regs, NEW v \in Modes \cup {"none"}
  PROVE  ButField(r, [r EXCEPT !.mode = v], "mode") /\ [r EXCEPT !.mode = v].mode = v
<1>1. [r EXCEPT !.mode = v] \in Regs
  BY DEF Regs
<1>2. [r EXCEPT !.mode = v].mode = v
  BY DEF Regs
<1>3. \A y \in Fields \ {"mode"} : [r EXCEPT !.mode = v][y] = r[y]
  BY DEF Regs, Fields, Ptrs
<1>. QED BY <1>1, <1>2, <1>3 DEF ButField
LEMMA SetFp ==
  ASSUME NEW r \in Regs, NEW v \in (1 .. NFILE) \cup {None}
  PROVE  ButField(r, [r EXCEPT !.fp = v], "fp") /\ [r EXCEPT !.fp = v].fp = v
<1>1. [r EXCEPT !.fp = v] \in Regs
  BY DEF Regs
<1>2. [r EXCEPT !.fp = v].fp = v
  BY DEF Regs
<1>3. \A y \in Fields \ {"fp"} : [r EXCEPT !.fp = v][y] = r[y]
  BY DEF Regs, Fields, Ptrs
<1>. QED BY <1>1, <1>2, <1>3 DEF ButField
LEMMA SetFip ==
  ASSUME NEW r \in Regs, NEW v \in Slots \cup {None}
  PROVE  ButField(r, [r EXCEPT !.fip = v], "fip") /\ [r EXCEPT !.fip = v].fip = v
<1>1. [r EXCEPT !.fip = v] \in Regs
  BY DEF Regs
<1>2. [r EXCEPT !.fip = v].fip = v
  BY DEF Regs
<1>3. \A y \in Fields \ {"fip"} : [r EXCEPT !.fip = v][y] = r[y]
  BY DEF Regs, Fields, Ptrs
<1>. QED BY <1>1, <1>2, <1>3 DEF ButField
LEMMA SetErr ==
  ASSUME NEW r \in Regs, NEW v \in {<<>>, CommitIp, LinkBad}
  PROVE  ButField(r, [r EXCEPT !.err = v], "err") /\ [r EXCEPT !.err = v].err = v
<1>1. [r EXCEPT !.err = v] \in Regs
  BY DEF Regs
<1>2. [r EXCEPT !.err = v].err = v
  BY DEF Regs
<1>3. \A y \in Fields \ {"err"} : [r EXCEPT !.err = v][y] = r[y]
  BY DEF Regs, Fields, Ptrs
<1>. QED BY <1>1, <1>2, <1>3 DEF ButField

\* The registers of a process that has made no call yet, or has returned.
LEMMA NoRegIs ==
  ASSUME NEW v \in Slots \cup {None}, NEW h, h = [NoReg EXCEPT !.cwd = v]
  PROVE  h \in Regs /\ h["cwd"] = v /\ \A x \in CallPtrs : h[x] = None
<1>1. "." \in Names /\ None \in Paths \cup {None} /\ None \in (1 .. NFILE) \cup {None}
  BY FsAssumption DEF Dots
<1>2. NoReg \in Regs /\ \A x \in CallPtrs : NoReg[x] = None
  BY <1>1 DEF NoReg, Regs, CallPtrs
<1>3. h \in Regs /\ h["cwd"] = v /\ \A x \in Ptrs \cup {"fip"} : x # "cwd" => h[x] = NoReg[x]
  BY <1>2, SetReg DEF Ptrs
<1>4. \A x \in CallPtrs : h[x] = None
  BY <1>2, <1>3 DEF CallPtrs, Ptrs
<1>. QED BY <1>3, <1>4

LEMMA PtrIn ==
  ASSUME NEW r \in Regs
  PROVE  \A x \in Ptrs \cup LockRegs : r[x] \in Slots \cup {None}
BY DEF Regs, Ptrs, LockRegs, CallPtrs

LEMMA Finite1 ==
  ASSUME NEW g, NEW s
  PROVE  IsFiniteSet(At1(g, s)) /\ Cardinality(At1(g, s)) \in Nat
<1>1. IsFiniteSet(Ptrs)
  <2>1. IsFiniteSet({"w"}) /\ IsFiniteSet({"ip"}) /\ IsFiniteSet({"dp"}) /\ IsFiniteSet({"ff"}) /\ IsFiniteSet({"cwd"})
    BY FS_Singleton
  <2>2. IsFiniteSet({"w"} \cup {"ip"})
    BY <2>1, FS_Union
  <2>3. IsFiniteSet(({"w"} \cup {"ip"}) \cup {"dp"})
    BY <2>1, <2>2, FS_Union
  <2>4. IsFiniteSet((({"w"} \cup {"ip"}) \cup {"dp"}) \cup {"ff"})
    BY <2>1, <2>3, FS_Union
  <2>5. IsFiniteSet(((({"w"} \cup {"ip"}) \cup {"dp"}) \cup {"ff"}) \cup {"cwd"})
    BY <2>1, <2>4, FS_Union
  <2>6. Ptrs = ((({"w"} \cup {"ip"}) \cup {"dp"}) \cup {"ff"}) \cup {"cwd"}
    BY DEF Ptrs
  <2>. QED BY <2>5, <2>6
<1>2. IsFiniteSet(Procs \X Ptrs)
  BY <1>1, FS_Product, FsAssumption
<1>3. At1(g, s) \subseteq Procs \X Ptrs
  BY DEF At1
<1>. QED BY <1>2, <1>3, FS_Subset, FS_CardinalityType

LEMMA Finite2 ==
  ASSUME NEW fl, NEW s
  PROVE  IsFiniteSet(At2(fl, s)) /\ Cardinality(At2(fl, s)) \in Nat
<1>1. IsFiniteSet(1 .. NFILE)
  BY FS_Interval, FsAssumption
<1>2. At2(fl, s) \subseteq 1 .. NFILE
  BY DEF At2
<1>. QED BY <1>1, <1>2, FS_Subset, FS_CardinalityType

LEMMA Finite3 ==
  ASSUME NEW o, NEW f
  PROVE  IsFiniteSet(NamedBy(o, f)) /\ Cardinality(NamedBy(o, f)) \in Nat
<1>1. IsFiniteSet(1 .. NOFILE)
  BY FS_Interval, FsAssumption
<1>2. IsFiniteSet(Procs \X (1 .. NOFILE))
  BY <1>1, FS_Product, FsAssumption
<1>3. NamedBy(o, f) \subseteq Procs \X (1 .. NOFILE)
  BY DEF NamedBy
<1>. QED BY <1>2, <1>3, FS_Subset, FS_CardinalityType

\* Functions that differ in one place.
But1(g, h, p, x) == \A q \in Procs, y \in Ptrs : q # p \/ y # x => h[q][y] = g[q][y]
But2(a, b, f)    == \A e \in 1 .. NFILE : e # f => b[e] = a[e]
But3(a, b, p, d) == \A q \in Procs, y \in 1 .. NOFILE : q # p \/ y # d => b[q][y] = a[q][y]
RegBut(r, r2, x, z) == \A y \in Ptrs : y # x /\ y # z => r2[y] = r[y]
RefsBut(ic, ic2, s, n) == \A u \in Slots : ic2[u].ref = IF u = s THEN ic[u].ref + n ELSE ic[u].ref
RefsKept(ic, ic2) == \A u \in Slots : ic2[u].ref = ic[u].ref

\* One more pointer, of process p in x, to slot s.
LEMMA Add1 ==
  ASSUME NEW g, NEW h, NEW p \in Procs, NEW x \in Ptrs, NEW s, g[p][x] # s, h[p][x] = s,
         But1(g, h, p, x)
  PROVE  Cardinality(At1(h, s)) = Cardinality(At1(g, s)) + 1
<1>. DEFINE e == <<p, x>>
<1>1. e = <<p, x>> /\ e \in Procs \X Ptrs /\ e[1] = p /\ e[2] = x
  OBVIOUS
<1>. HIDE DEF e
<1>2. e \notin At1(g, s)
  BY <1>1 DEF At1
<1>3. At1(h, s) = At1(g, s) \cup {e}
  <2>1. ASSUME NEW a \in Procs \X Ptrs
        PROVE  a \in At1(h, s) <=> a \in At1(g, s) \cup {e}
    <3>1. PICK q \in Procs, y \in Ptrs : a = <<q, y>> /\ a[1] = q /\ a[2] = y
      OBVIOUS
    <3>2. a = e <=> q = p /\ y = x
      BY <3>1, <1>1
    <3>. QED BY <3>1, <3>2, <1>1 DEF At1, But1
  <2>2. At1(h, s) \subseteq Procs \X Ptrs /\ At1(g, s) \cup {e} \subseteq Procs \X Ptrs
    BY <1>1 DEF At1
  <2>. QED BY <2>1, <2>2, Zenon
<1>. QED BY <1>2, <1>3, Finite1, FS_AddElement

LEMMA Same1 ==
  ASSUME NEW g, NEW h, NEW s,
         \A q \in Procs, y \in Ptrs : h[q][y] = s <=> g[q][y] = s
  PROVE  At1(h, s) = At1(g, s)
BY DEF At1

LEMMA Add2 ==
  ASSUME NEW a, NEW b, NEW f \in 1 .. NFILE, NEW s, a[f].ref = 0 \/ a[f].ip # s,
         b[f].ref > 0 /\ b[f].ip = s, But2(a, b, f)
  PROVE  Cardinality(At2(b, s)) = Cardinality(At2(a, s)) + 1
<1>1. f \notin At2(a, s) /\ At2(b, s) = At2(a, s) \cup {f}
  BY DEF At2, But2
<1>. QED BY <1>1, Finite2, FS_AddElement

LEMMA Same2 ==
  ASSUME NEW a, NEW b, NEW s,
         \A e \in 1 .. NFILE : b[e].ref > 0 /\ b[e].ip = s <=> a[e].ref > 0 /\ a[e].ip = s
  PROVE  At2(b, s) = At2(a, s)
BY DEF At2

LEMMA Add3 ==
  ASSUME NEW a, NEW b, NEW p \in Procs, NEW d \in 1 .. NOFILE, NEW f, a[p][d] # f, b[p][d] = f,
         But3(a, b, p, d)
  PROVE  Cardinality(NamedBy(b, f)) = Cardinality(NamedBy(a, f)) + 1
<1>. DEFINE e == <<p, d>>
<1>1. e = <<p, d>> /\ e \in Procs \X (1 .. NOFILE) /\ e[1] = p /\ e[2] = d
  OBVIOUS
<1>. HIDE DEF e
<1>2. e \notin NamedBy(a, f)
  BY <1>1 DEF NamedBy
<1>3. NamedBy(b, f) = NamedBy(a, f) \cup {e}
  <2>1. ASSUME NEW c \in Procs \X (1 .. NOFILE)
        PROVE  c \in NamedBy(b, f) <=> c \in NamedBy(a, f) \cup {e}
    <3>1. PICK q \in Procs, y \in 1 .. NOFILE : c = <<q, y>> /\ c[1] = q /\ c[2] = y
      OBVIOUS
    <3>2. c = e <=> q = p /\ y = d
      BY <3>1, <1>1
    <3>. QED BY <3>1, <3>2, <1>1 DEF NamedBy, But3
  <2>2. NamedBy(b, f) \subseteq Procs \X (1 .. NOFILE) /\ NamedBy(a, f) \cup {e} \subseteq Procs \X (1 .. NOFILE)
    BY <1>1 DEF NamedBy
  <2>. QED BY <2>1, <2>2, Zenon
<1>. QED BY <1>2, <1>3, Finite3, FS_AddElement

LEMMA Same3 ==
  ASSUME NEW a, NEW b, NEW f,
         \A q \in Procs, y \in 1 .. NOFILE : b[q][y] = f <=> a[q][y] = f
  PROVE  NamedBy(b, f) = NamedBy(a, f)
BY DEF NamedBy

\* How the references change: a pointer is taken, dropped or moved, or passes
\* to a file.
LEMMA RefsSame ==
  ASSUME NEW g \in [Procs -> Regs], NEW p \in Procs, NEW r \in Regs, NEW ic, NEW fl, NEW ic2, NEW fl2,
         RefsAre(ic, g, fl), \A y \in Ptrs : r[y] = g[p][y], RefsKept(ic, ic2),
         \A e \in 1 .. NFILE : (fl2[e].ref > 0 <=> fl[e].ref > 0) /\ (fl[e].ref > 0 => fl2[e].ip = fl[e].ip)
  PROVE  RefsAre(ic2, [g EXCEPT ![p] = r], fl2)
<1>. DEFINE h == [g EXCEPT ![p] = r]
<1>. SUFFICES ASSUME NEW u \in Slots
              PROVE  ic2[u].ref = Cardinality(At1(h, u)) + Cardinality(At2(fl2, u))
  BY DEF RefsAre
<1>1. \A q \in Procs, y \in Ptrs : h[q][y] = g[q][y]
  OBVIOUS
<1>. HIDE DEF h
<1>2. At1(h, u) = At1(g, u)
  BY <1>1 DEF At1
<1>3. At2(fl2, u) = At2(fl, u)
  BY DEF At2
<1>4. ic[u].ref = Cardinality(At1(g, u)) + Cardinality(At2(fl, u)) /\ ic2[u].ref = ic[u].ref
  BY DEF RefsAre, RefsKept
<1>. QED BY <1>2, <1>3, <1>4

LEMMA RefsGet ==
  ASSUME NEW g \in [Procs -> Regs], NEW p \in Procs, NEW r \in Regs, NEW ic, NEW fl, NEW ic2,
         NEW x \in Ptrs, NEW s \in Slots,
         RefsAre(ic, g, fl), g[p][x] = None, r[x] = s, RegBut(g[p], r, x, x), RefsBut(ic, ic2, s, 1)
  PROVE  RefsAre(ic2, [g EXCEPT ![p] = r], fl)
<1>. DEFINE h == [g EXCEPT ![p] = r]
<1>. SUFFICES ASSUME NEW u \in Slots
              PROVE  ic2[u].ref = Cardinality(At1(h, u)) + Cardinality(At2(fl, u))
  BY DEF RefsAre
<1>1. But1(g, h, p, x) /\ h[p][x] = s /\ g[p][x] # s /\ g[p][x] # u
  BY NotNone DEF RegBut, But1
<1>. HIDE DEF h
<1>2. CASE u = s
  <2>1. Cardinality(At1(h, s)) = Cardinality(At1(g, s)) + 1
    BY <1>1, Add1
  <2>2. Cardinality(At1(g, s)) \in Nat /\ Cardinality(At2(fl, s)) \in Nat
    BY Finite1, Finite2
  <2>3. ic[s].ref = Cardinality(At1(g, s)) + Cardinality(At2(fl, s)) /\ ic2[s].ref = ic[s].ref + 1
    BY DEF RefsAre, RefsBut
  <2>. QED BY <1>2, <2>1, <2>2, <2>3
<1>3. CASE u # s
  <2>1. At1(h, u) = At1(g, u)
    BY <1>1, <1>3 DEF At1, But1
  <2>. QED BY <2>1, <1>3 DEF RefsAre, RefsBut
<1>. QED BY <1>2, <1>3

LEMMA RefsPut ==
  ASSUME NEW g \in [Procs -> Regs], NEW p \in Procs, NEW r \in Regs, NEW ic, NEW fl, NEW ic2,
         NEW x \in Ptrs, NEW s \in Slots,
         RefsAre(ic, g, fl), g[p][x] = s, r[x] = None, RegBut(g[p], r, x, x), RefsBut(ic, ic2, s, -1)
  PROVE  RefsAre(ic2, [g EXCEPT ![p] = r], fl)
<1>. DEFINE h == [g EXCEPT ![p] = r]
<1>. SUFFICES ASSUME NEW u \in Slots
              PROVE  ic2[u].ref = Cardinality(At1(h, u)) + Cardinality(At2(fl, u))
  BY DEF RefsAre
<1>1. But1(h, g, p, x) /\ h[p][x] # s /\ h[p][x] # u
  BY NotNone DEF RegBut, But1
<1>. HIDE DEF h
<1>2. CASE u = s
  <2>1. Cardinality(At1(g, s)) = Cardinality(At1(h, s)) + 1
    BY <1>1, Add1
  <2>2. Cardinality(At1(h, s)) \in Nat /\ Cardinality(At2(fl, s)) \in Nat
    BY Finite1, Finite2
  <2>3. ic[s].ref = Cardinality(At1(g, s)) + Cardinality(At2(fl, s)) /\ ic2[s].ref = ic[s].ref + -1
    BY DEF RefsAre, RefsBut
  <2>. QED BY <1>2, <2>1, <2>2, <2>3
<1>3. CASE u # s
  <2>1. At1(h, u) = At1(g, u)
    BY <1>1, <1>3 DEF At1, But1
  <2>. QED BY <2>1, <1>3 DEF RefsAre, RefsBut
<1>. QED BY <1>2, <1>3

\* The same for a file that is opened, and one that is closed.
LEMMA RefsAddFile ==
  ASSUME NEW g, NEW ic, NEW fl, NEW ic2, NEW fl2, NEW s \in Slots, NEW f \in 1 .. NFILE,
         RefsAre(ic, g, fl), fl[f].ref = 0, fl2[f].ref = 1, fl2[f].ip = s, But2(fl, fl2, f),
         RefsBut(ic, ic2, s, 1)
  PROVE  RefsAre(ic2, g, fl2)
<1>. SUFFICES ASSUME NEW u \in Slots
              PROVE  ic2[u].ref = Cardinality(At1(g, u)) + Cardinality(At2(fl2, u))
  BY DEF RefsAre
<1>1. CASE u = s
  <2>1. Cardinality(At2(fl2, s)) = Cardinality(At2(fl, s)) + 1
    BY Add2
  <2>2. Cardinality(At1(g, s)) \in Nat /\ Cardinality(At2(fl, s)) \in Nat
    BY Finite1, Finite2
  <2>3. ic[s].ref = Cardinality(At1(g, s)) + Cardinality(At2(fl, s)) /\ ic2[s].ref = ic[s].ref + 1
    BY DEF RefsAre, RefsBut
  <2>. QED BY <1>1, <2>1, <2>2, <2>3
<1>2. CASE u # s
  <2>1. At2(fl2, u) = At2(fl, u)
    BY <1>2 DEF At2, But2
  <2>. QED BY <2>1, <1>2 DEF RefsAre, RefsBut
<1>. QED BY <1>1, <1>2

LEMMA RefsDropFile ==
  ASSUME NEW g, NEW ic, NEW fl, NEW ic2, NEW fl2, NEW s \in Slots, NEW f \in 1 .. NFILE,
         RefsAre(ic, g, fl), fl[f].ref = 1, fl[f].ip = s, fl2[f].ref = 0, But2(fl, fl2, f),
         RefsBut(ic, ic2, s, -1)
  PROVE  RefsAre(ic2, g, fl2)
<1>. SUFFICES ASSUME NEW u \in Slots
              PROVE  ic2[u].ref = Cardinality(At1(g, u)) + Cardinality(At2(fl2, u))
  BY DEF RefsAre
<1>1. CASE u = s
  <2>1. Cardinality(At2(fl, s)) = Cardinality(At2(fl2, s)) + 1
    <3>1. fl[f].ref > 0 /\ But2(fl2, fl, f)
      BY DEF But2
    <3>. QED BY <3>1, Add2
  <2>2. Cardinality(At1(g, s)) \in Nat /\ Cardinality(At2(fl2, s)) \in Nat
    BY Finite1, Finite2
  <2>3. ic[s].ref = Cardinality(At1(g, s)) + Cardinality(At2(fl, s)) /\ ic2[s].ref = ic[s].ref + -1
    BY DEF RefsAre, RefsBut
  <2>. QED BY <1>1, <2>1, <2>2, <2>3
<1>2. CASE u # s
  <2>1. At2(fl2, u) = At2(fl, u)
    BY <1>2 DEF At2, But2
  <2>. QED BY <2>1, <1>2 DEF RefsAre, RefsBut
<1>. QED BY <1>1, <1>2

\* Counts on the way from one to another.
Counts(ic, s, n) == [u \in Slots |-> [ref |-> IF u = s THEN ic[u].ref + n ELSE ic[u].ref]]

LEMMA CountsBut ==
  ASSUME NEW ic, NEW ic2, NEW s \in Slots, RefsKept(ic, ic2), \A u \in Slots : ic[u].ref \in Nat
  PROVE  /\ RefsBut(ic, Counts(ic, s, -1), s, -1) /\ RefsBut(Counts(ic, s, -1), ic2, s, 1)
         /\ RefsBut(ic, Counts(ic, s, 1), s, 1) /\ RefsBut(Counts(ic, s, 1), ic2, s, -1)
BY DEF Counts, RefsBut, RefsKept

LEMMA RefsMove ==
  ASSUME NEW g \in [Procs -> Regs], NEW p \in Procs, NEW r \in Regs, NEW ic, NEW fl, NEW ic2,
         NEW x \in Ptrs, NEW z \in Ptrs, x # z, NEW s \in Slots,
         RefsAre(ic, g, fl), g[p][x] = s, g[p][z] = None, r[x] = None, r[z] = s,
         RegBut(g[p], r, x, z), RefsKept(ic, ic2), \A u \in Slots : ic[u].ref \in Nat
  PROVE  RefsAre(ic2, [g EXCEPT ![p] = r], fl)
<1>. DEFINE m == [g[p] EXCEPT ![x] = None]
            k == [g EXCEPT ![p] = m]
            c == Counts(ic, s, -1)
<1>1. m \in Regs /\ m[x] = None /\ m[z] = None /\ RegBut(g[p], m, x, x) /\ RegBut(m, r, z, z)
  <2>1. g[p] \in Regs /\ None \in Slots \cup {None}
    OBVIOUS
  <2>2. m \in Regs /\ m[x] = None /\ \A y \in Ptrs : y # x => m[y] = g[p][y]
    BY <2>1, SetReg
  <2>. QED BY <2>2 DEF RegBut
<1>2. RefsBut(ic, c, s, -1) /\ RefsBut(c, ic2, s, 1)
  BY CountsBut
<1>. HIDE DEF m, c
<1>3. RefsAre(c, k, fl)
  BY <1>1, <1>2, RefsPut
<1>4. k \in [Procs -> Regs] /\ k[p] = m /\ [k EXCEPT ![p] = r] = [g EXCEPT ![p] = r]
  BY <1>1
<1>. HIDE DEF k
<1>5. k[p][z] = None /\ RegBut(k[p], r, z, z)
  BY <1>1, <1>4
<1>6. RefsAre(ic2, [k EXCEPT ![p] = r], fl)
  BY <1>2, <1>3, <1>4, <1>5, RefsGet
<1>. QED BY <1>4, <1>6

\* Open: the reference of a register passes to file f.
LEMMA RefsFile ==
  ASSUME NEW g \in [Procs -> Regs], NEW p \in Procs, NEW r \in Regs, NEW ic, NEW fl, NEW ic2, NEW fl2,
         NEW x \in Ptrs, NEW s \in Slots, NEW f \in 1 .. NFILE,
         RefsAre(ic, g, fl), g[p][x] = s, r[x] = None, RegBut(g[p], r, x, x),
         fl[f].ref = 0, fl2[f].ref = 1, fl2[f].ip = s, But2(fl, fl2, f),
         RefsKept(ic, ic2), \A u \in Slots : ic[u].ref \in Nat
  PROVE  RefsAre(ic2, [g EXCEPT ![p] = r], fl2)
<1>. DEFINE c == Counts(ic, s, -1)
<1>1. RefsBut(ic, c, s, -1) /\ RefsBut(c, ic2, s, 1)
  BY CountsBut
<1>. HIDE DEF c
<1>2. RefsAre(c, [g EXCEPT ![p] = r], fl)
  BY <1>1, RefsPut
<1>. QED BY <1>1, <1>2, RefsAddFile

\* Fileclose: the reference of file f passes to a register.
LEMMA RefsClose ==
  ASSUME NEW g \in [Procs -> Regs], NEW p \in Procs, NEW r \in Regs, NEW ic, NEW fl, NEW fl2,
         NEW x \in Ptrs, NEW s \in Slots, NEW f \in 1 .. NFILE,
         RefsAre(ic, g, fl), g[p][x] = None, r[x] = s, RegBut(g[p], r, x, x),
         fl[f].ref = 1, fl[f].ip = s, fl2[f].ref = 0, But2(fl, fl2, f), \A u \in Slots : ic[u].ref \in Nat
  PROVE  RefsAre(ic, [g EXCEPT ![p] = r], fl2)
<1>. DEFINE c == Counts(ic, s, 1)
<1>1. RefsBut(ic, c, s, 1) /\ RefsBut(c, ic, s, -1)
  BY CountsBut DEF RefsKept
<1>. HIDE DEF c
<1>2. RefsAre(c, [g EXCEPT ![p] = r], fl)
  BY <1>1, RefsGet
<1>. QED BY <1>1, <1>2, RefsDropFile

\* How the counts of the files change: one more descriptor, one less, and a
\* child with the descriptors of its parent.
LEMMA FilesUp ==
  ASSUME NEW fl, NEW fl2, NEW o, NEW o2, NEW p \in Procs, NEW d \in 1 .. NOFILE, NEW f \in 1 .. NFILE,
         FilesAre(fl, o), o[p][d] = None, o2[p][d] = f, But3(o, o2, p, d),
         fl2[f].ref = fl[f].ref + 1, fl2[f].ip \in Slots, But2(fl, fl2, f)
  PROVE  FilesAre(fl2, o2)
<1>. SUFFICES ASSUME NEW e \in 1 .. NFILE
              PROVE  fl2[e].ref = Cardinality(NamedBy(o2, e)) /\ (fl2[e].ref > 0 => fl2[e].ip \in Slots)
  BY DEF FilesAre
<1>1. o[p][d] # f /\ o[p][d] # e
  BY NotNone
<1>2. fl[e].ref = Cardinality(NamedBy(o, e)) /\ (fl[e].ref > 0 => fl[e].ip \in Slots)
  BY DEF FilesAre
<1>3. CASE e = f
  <2>1. Cardinality(NamedBy(o2, f)) = Cardinality(NamedBy(o, f)) + 1
    BY <1>1, Add3
  <2>. QED BY <1>2, <1>3, <2>1
<1>4. CASE e # f
  <2>1. NamedBy(o2, e) = NamedBy(o, e)
    BY <1>1, <1>4 DEF NamedBy, But3
  <2>2. fl2[e] = fl[e]
    BY <1>4 DEF But2
  <2>. QED BY <1>2, <2>1, <2>2
<1>. QED BY <1>3, <1>4

LEMMA FilesDown ==
  ASSUME NEW fl, NEW fl2, NEW o, NEW o2, NEW p \in Procs, NEW d \in 1 .. NOFILE, NEW f \in 1 .. NFILE,
         FilesAre(fl, o), o[p][d] = f, o2[p][d] = None, But3(o, o2, p, d),
         fl2[f].ref = fl[f].ref - 1, fl2[f].ref > 0 => fl2[f].ip \in Slots, But2(fl, fl2, f)
  PROVE  FilesAre(fl2, o2)
<1>. SUFFICES ASSUME NEW e \in 1 .. NFILE
              PROVE  fl2[e].ref = Cardinality(NamedBy(o2, e)) /\ (fl2[e].ref > 0 => fl2[e].ip \in Slots)
  BY DEF FilesAre
<1>1. o2[p][d] # f /\ o2[p][d] # e /\ But3(o2, o, p, d)
  BY NotNone DEF But3
<1>2. fl[e].ref = Cardinality(NamedBy(o, e)) /\ (fl[e].ref > 0 => fl[e].ip \in Slots)
  BY DEF FilesAre
<1>3. CASE e = f
  <2>1. Cardinality(NamedBy(o, f)) = Cardinality(NamedBy(o2, f)) + 1
    BY <1>1, Add3
  <2>2. Cardinality(NamedBy(o2, f)) \in Nat
    BY Finite3
  <2>3. fl2[f].ref = Cardinality(NamedBy(o2, f))
    BY <1>2, <1>3, <2>1, <2>2
  <2>. QED BY <1>3, <2>3
<1>4. CASE e # f
  <2>1. NamedBy(o2, e) = NamedBy(o, e)
    BY <1>1, <1>4 DEF NamedBy, But3
  <2>2. fl2[e] = fl[e]
    BY <1>4 DEF But2
  <2>. QED BY <1>2, <2>1, <2>2
<1>. QED BY <1>3, <1>4

Own(o, p, f) == {d \in 1 .. NOFILE : o[p][d] = f}
Forked(p, q, fl, fl2, o, o2) ==
  /\ \A d \in 1 .. NOFILE : o[q][d] = None /\ o2[q][d] = o[p][d]
  /\ \A z \in Procs : z # q => o2[z] = o[z]
  /\ \A f \in 1 .. NFILE : fl2[f].ref = fl[f].ref + Cardinality(Own(o, p, f)) /\ fl2[f].ip = fl[f].ip
LEMMA FilesFork ==
  ASSUME NEW fl, NEW fl2, NEW o, NEW o2, NEW p \in Procs, NEW q \in Procs, FilesAre(fl, o), Forked(p, q, fl, fl2, o, o2)
  PROVE  FilesAre(fl2, o2) /\ \A f \in 1 .. NFILE : fl2[f].ref > 0 <=> fl[f].ref > 0
<1>. /\ \A d \in 1 .. NOFILE : o[q][d] = None /\ o2[q][d] = o[p][d]
     /\ \A z \in Procs : z # q => o2[z] = o[z]
     /\ \A f \in 1 .. NFILE : fl2[f].ref = fl[f].ref + Cardinality(Own(o, p, f)) /\ fl2[f].ip = fl[f].ip
  BY DEF Forked
<1>. SUFFICES ASSUME NEW f \in 1 .. NFILE
              PROVE  /\ fl2[f].ref = Cardinality(NamedBy(o2, f)) /\ (fl2[f].ref > 0 => fl2[f].ip \in Slots)
                     /\ fl2[f].ref > 0 <=> fl[f].ref > 0
  BY DEF FilesAre
<1>. DEFINE D == {d \in 1 .. NOFILE : o[p][d] = f}
<1>1. IsFiniteSet(D) /\ Cardinality(D) \in Nat
  <2>1. IsFiniteSet(1 .. NOFILE) /\ D \subseteq 1 .. NOFILE
    BY FS_Interval, FsAssumption
  <2>. QED BY <2>1, FS_Subset, FS_CardinalityType
<1>2. IsFiniteSet({q} \X D) /\ Cardinality({q} \X D) = Cardinality(D)
  <2>1. IsFiniteSet({q}) /\ Cardinality({q}) = 1
    BY FS_Singleton
  <2>2. IsFiniteSet({q} \X D) /\ Cardinality({q} \X D) = Cardinality({q}) * Cardinality(D)
    BY <1>1, <2>1, FS_Product
  <2>. QED BY <1>1, <2>1, <2>2
<1>3. f # None
  BY NotNone
<1>4. NamedBy(o2, f) = NamedBy(o, f) \cup ({q} \X D)
  <2>1. ASSUME NEW c \in Procs \X (1 .. NOFILE)
        PROVE  c \in NamedBy(o2, f) <=> c \in NamedBy(o, f) \cup ({q} \X D)
    <3>1. PICK z \in Procs, d \in 1 .. NOFILE : c = <<z, d>> /\ c[1] = z /\ c[2] = d
      OBVIOUS
    <3>2. CASE z = q
      BY <1>3, <3>1, <3>2 DEF NamedBy
    <3>3. CASE z # q
      <4>1. c \notin {q} \X D /\ o2[z] = o[z]
        BY <3>1, <3>3
      <4>. QED BY <3>1, <4>1 DEF NamedBy
    <3>. QED BY <3>2, <3>3
  <2>2. NamedBy(o2, f) \subseteq Procs \X (1 .. NOFILE) /\ NamedBy(o, f) \cup ({q} \X D) \subseteq Procs \X (1 .. NOFILE)
    BY DEF NamedBy
  <2>. QED BY <2>1, <2>2, Zenon
<1>5. NamedBy(o, f) \cap ({q} \X D) = {}
  BY <1>3 DEF NamedBy
<1>6. IsFiniteSet(NamedBy(o, f)) /\ Cardinality(NamedBy(o, f)) \in Nat
  BY Finite3
<1>7. Cardinality(NamedBy(o2, f)) = Cardinality(NamedBy(o, f)) + Cardinality(D)
  <2>1. Cardinality(NamedBy(o2, f)) = Cardinality(NamedBy(o, f)) + Cardinality({q} \X D) - Cardinality(NamedBy(o, f) \cap ({q} \X D))
    BY <1>2, <1>4, <1>6, FS_Union
  <2>2. Cardinality(NamedBy(o, f) \cap ({q} \X D)) = 0
    BY <1>5, FS_EmptySet
  <2>. QED BY <2>1, <2>2, <1>1, <1>2, <1>6
<1>8. fl[f].ref = Cardinality(NamedBy(o, f)) /\ (fl[f].ref > 0 => fl[f].ip \in Slots)
  BY DEF FilesAre
<1>9. fl2[f].ref = fl[f].ref + Cardinality(D)
  BY DEF Own
<1>10. ASSUME Cardinality(D) > 0
       PROVE  fl[f].ref > 0
  <2>1. D # {}
    <3>1. D = {} => Cardinality(D) = 0
      BY FS_EmptySet
    <3>. QED BY <1>10, <3>1
  <2>2. PICK d \in 1 .. NOFILE : o[p][d] = f
    BY <2>1
  <2>3. <<p, d>> \in NamedBy(o, f)
    BY <2>2 DEF NamedBy
  <2>4. Cardinality(NamedBy(o, f)) # 0
    BY <2>3, <1>6, FS_EmptySet
  <2>. QED BY <2>4, <1>6, <1>8
<1>. HIDE DEF D
<1>11. fl2[f].ref > 0 <=> fl[f].ref > 0
  BY <1>1, <1>6, <1>8, <1>9, <1>10
<1>. QED BY <1>7, <1>8, <1>9, <1>11

\* A pointer or a descriptor is counted.
LEMMA Counted1 ==
  ASSUME NEW g, NEW fl, NEW ic, RefsAre(ic, g, fl), NEW p \in Procs, NEW x \in Ptrs, g[p][x] \in Slots
  PROVE  ic[g[p][x]].ref >= 1
<1>. DEFINE s == g[p][x]
<1>1. <<p, x>> \in At1(g, s)
  BY DEF At1
<1>2. ic[s].ref = Cardinality(At1(g, s)) + Cardinality(At2(fl, s))
  BY DEF RefsAre
<1>. HIDE DEF s
<1>3. Cardinality(At1(g, s)) \in Nat /\ Cardinality(At2(fl, s)) \in Nat /\ Cardinality(At1(g, s)) # 0
  BY <1>1, Finite1, Finite2, FS_EmptySet
<1>. QED BY <1>2, <1>3 DEF s

LEMMA Counted2 ==
  ASSUME NEW g, NEW fl, NEW ic, RefsAre(ic, g, fl), NEW f \in 1 .. NFILE, fl[f].ref > 0, fl[f].ip \in Slots
  PROVE  ic[fl[f].ip].ref >= 1
<1>. DEFINE s == fl[f].ip
<1>1. f \in At2(fl, s)
  BY DEF At2
<1>2. ic[s].ref = Cardinality(At1(g, s)) + Cardinality(At2(fl, s))
  BY DEF RefsAre
<1>. HIDE DEF s
<1>3. Cardinality(At1(g, s)) \in Nat /\ Cardinality(At2(fl, s)) \in Nat /\ Cardinality(At2(fl, s)) # 0
  BY <1>1, Finite1, Finite2, FS_EmptySet
<1>. QED BY <1>2, <1>3 DEF s

LEMMA Counted3 ==
  ASSUME NEW fl, NEW o, FilesAre(fl, o), NEW p \in Procs, NEW d \in 1 .. NOFILE, NEW f \in 1 .. NFILE,
         o[p][d] = f
  PROVE  fl[f].ref >= 1 /\ fl[f].ip \in Slots
<1>1. <<p, d>> \in NamedBy(o, f)
  BY DEF NamedBy
<1>2. fl[f].ref = Cardinality(NamedBy(o, f)) /\ (fl[f].ref > 0 => fl[f].ip \in Slots)
  BY DEF FilesAre
<1>3. Cardinality(NamedBy(o, f)) \in Nat /\ Cardinality(NamedBy(o, f)) # 0
  BY <1>1, Finite3, FS_EmptySet
<1>4. fl[f].ref >= 1 /\ fl[f].ref > 0
  BY <1>2, <1>3
<1>. QED BY <1>2, <1>4

\* Two of them are two.
LEMMA TwoIn ==
  ASSUME NEW S, IsFiniteSet(S), NEW a \in S, NEW b \in S, a # b
  PROVE  Cardinality(S) >= 2
<1>1. IsFiniteSet({a}) /\ Cardinality({a}) = 1 /\ b \notin {a}
  BY FS_Singleton
<1>2. IsFiniteSet({a} \cup {b}) /\ Cardinality({a} \cup {b}) = 2
  BY <1>1, FS_AddElement
<1>3. {a} \cup {b} \subseteq S
  OBVIOUS
<1>4. Cardinality({a} \cup {b}) <= Cardinality(S)
  BY <1>3, FS_Subset
<1>5. Cardinality(S) \in Nat
  BY FS_CardinalityType
<1>. QED BY <1>2, <1>4, <1>5

LEMMA Counted11 ==
  ASSUME NEW g, NEW fl, NEW ic, RefsAre(ic, g, fl), NEW p \in Procs, NEW x \in Ptrs,
         NEW q \in Procs, NEW y \in Ptrs, q # p \/ y # x, g[p][x] \in Slots, g[q][y] = g[p][x]
  PROVE  ic[g[p][x]].ref >= 2
<1>. DEFINE s == g[p][x]
<1>1. <<p, x>> \in At1(g, s) /\ <<q, y>> \in At1(g, s) /\ <<p, x>> # <<q, y>>
  BY DEF At1
<1>2. ic[s].ref = Cardinality(At1(g, s)) + Cardinality(At2(fl, s))
  BY DEF RefsAre
<1>. HIDE DEF s
<1>3. Cardinality(At1(g, s)) \in Nat /\ Cardinality(At2(fl, s)) \in Nat /\ IsFiniteSet(At1(g, s))
  BY Finite1, Finite2
<1>4. Cardinality(At1(g, s)) >= 2
  BY <1>1, <1>3, TwoIn
<1>. QED BY <1>2, <1>3, <1>4 DEF s

LEMMA Counted12 ==
  ASSUME NEW g, NEW fl, NEW ic, RefsAre(ic, g, fl), NEW p \in Procs, NEW x \in Ptrs, g[p][x] \in Slots,
         NEW f \in 1 .. NFILE, fl[f].ref > 0, fl[f].ip = g[p][x]
  PROVE  ic[g[p][x]].ref >= 2
<1>. DEFINE s == g[p][x]
<1>1. <<p, x>> \in At1(g, s) /\ f \in At2(fl, s)
  BY DEF At1, At2
<1>2. ic[s].ref = Cardinality(At1(g, s)) + Cardinality(At2(fl, s))
  BY DEF RefsAre
<1>. HIDE DEF s
<1>3. /\ Cardinality(At1(g, s)) \in Nat /\ Cardinality(At2(fl, s)) \in Nat
      /\ Cardinality(At1(g, s)) # 0 /\ Cardinality(At2(fl, s)) # 0
  BY <1>1, Finite1, Finite2, FS_EmptySet
<1>. QED BY <1>2, <1>3 DEF s

LEMMA Counted33 ==
  ASSUME NEW fl, NEW o, FilesAre(fl, o), NEW p \in Procs, NEW d \in 1 .. NOFILE, NEW f \in 1 .. NFILE,
         NEW q \in Procs, NEW e \in 1 .. NOFILE, q # p \/ e # d, o[p][d] = f, o[q][e] = f
  PROVE  fl[f].ref >= 2
<1>1. <<p, d>> \in NamedBy(o, f) /\ <<q, e>> \in NamedBy(o, f) /\ <<p, d>> # <<q, e>>
  BY DEF NamedBy
<1>2. IsFiniteSet(NamedBy(o, f)) /\ fl[f].ref = Cardinality(NamedBy(o, f))
  BY Finite3 DEF FilesAre
<1>. QED BY <1>1, <1>2, TwoIn

-----------------------------------------------------------------------------
(* A step of process p: what is left to show.                              *)

Tables ==
  /\ din \in [Inums -> Dinodes]
  /\ ents \in [Inums -> [Names -> 0 .. NINODES - 1]]
  /\ used \subseteq Blocks
  /\ icache \in [Slots -> Inodes]
  /\ file \in [1 .. NFILE -> Files]
  /\ ofile \in [Procs -> [1 .. NOFILE -> (1 .. NFILE) \cup {None}]]

\* The locks that change are of process p; the log too; the descriptors of the
\* others, and their files, are as they were.
BusyBy(p, ic, ic2) ==
  \A s \in Slots : ic2[s].busy = ic[s].busy \/ (ic[s].busy \in {p, None} /\ ic2[s].busy \in {p, None})
LogBy(p, t, a, b) == (b = p <=> Logged(t)) /\ (b = a \/ (a \in {p, None} /\ b \in {p, None}))
FilesBy(p, fl, fl2, o, o2) ==
  \A q \in Procs : q # p =>
    o2[q] = o[q] /\ \A d \in 1 .. NOFILE : o[q][d] \in 1 .. NFILE => fl2[o[q][d]].ip = fl[o[q][d]].ip
Messages == {"ilock", "iunlock", "iput busy", "fileclose"}

\* The registers of a call that has returned.
LEMMA Done ==
  ASSUME NEW r \in Regs, NEW t \in Seq(Steps), NEW o, Local(t, r, o),
         NEW h, h = IF t = <<>> THEN [NoReg EXCEPT !.cwd = r.cwd] ELSE r
  PROVE  h \in Regs /\ Local(t, h, o) /\ (\A x \in Ptrs : h[x] = r[x]) /\ (t # <<>> => h = r)
<1>1. CASE t # <<>>
  BY <1>1
<1>2. CASE t = <<>>
  <2>1. r["cwd"] \in Slots \cup {None} /\ h = [NoReg EXCEPT !.cwd = r["cwd"]]
    BY <1>2, PtrIn DEF Ptrs
  <2>2. h \in Regs /\ h["cwd"] = r["cwd"] /\ \A x \in CallPtrs : h[x] = None
    BY <2>1, NoRegIs
  <2>3. Pointers(t) = {} /\ ~MayFail(t) /\ ~Top(t, "setcwd") /\ ~Walks(t, "ip") /\ ~Walks(t, "dp") /\ ~Has(t, "bump")
    BY <1>2, Nothing DEF Sum, Shape
  <2>4. \A x \in CallPtrs : r[x] = None
    BY <2>3 DEF Local, Holding
  <2>5. \A x \in Ptrs : h[x] = r[x]
    BY <2>2, <2>4 DEF Ptrs, CallPtrs
  <2>6. Holding(t, h)
    BY <1>2, <2>2, <2>3 DEF Holding
  <2>7. Arguments(t, h)
    BY <2>3 DEF Arguments
  <2>8. Descriptors(t, h, o)
    BY <2>2 DEF Local, Descriptors
  <2>. QED BY <1>2, <2>2, <2>5, <2>6, <2>7, <2>8 DEF Local
<1>. QED BY <1>1, <1>2

LEMMA DoneLocks ==
  ASSUME NEW r, NEW t, NEW h, t # <<>> => h = r, NEW p, NEW ic, Locks(p, t, r, ic)
  PROVE  Locks(p, t, h, ic)
<1>1. CASE t = <<>>
  <2>1. Locked(t) = {}
    BY <1>1, Nothing DEF Sum
  <2>. QED BY <2>1 DEF Locks
<1>. QED BY <1>1

LEMMA DoneOpened ==
  ASSUME NEW r, NEW t, NEW h, t # <<>> => h = r, NEW o, NEW fl, Opened(t, r, o, fl)
  PROVE  Opened(t, h, o, fl)
<1>1. CASE t = <<>>
  <2>1. ~OnFile(t)
    BY <1>1, Nothing DEF Shape
  <2>. QED BY <2>1 DEF Opened
<1>. QED BY <1>1

LEMMA Frame ==
  ASSUME IInv, NEW p \in Procs, NEW r \in Regs, NEW t \in Seq(Steps), Do(p, r, t), Tables',
         trans' \in Procs \cup {None},
         Local(t, r, ofile'[p]), Opened(t, r, ofile'[p], file'), Locks(p, t, r, icache'),
         LogBy(p, t, trans, trans'), FilesBy(p, file, file', ofile, ofile'), BusyBy(p, icache, icache'),
         RefsAre(icache', [reg EXCEPT ![p] = r], file'), FilesAre(file', ofile'),
         Unique(icache'), Copied(icache', din'),
         Freeing(icache', [todo EXCEPT ![p] = t], [reg EXCEPT ![p] = r]),
         panic' \notin Messages
  PROVE  IInv'
<1>. DEFINE h == IF t = <<>> THEN [NoReg EXCEPT !.cwd = r.cwd] ELSE r
<1>1. h \in Regs /\ Local(t, h, ofile'[p]) /\ (\A x \in Ptrs : h[x] = r[x]) /\ (t # <<>> => h = r)
  BY Done
<1>2. todo' = [todo EXCEPT ![p] = t] /\ reg' = [reg EXCEPT ![p] = h]
  BY DEF Do
<1>3. todo \in [Procs -> Seq(Steps)] /\ reg \in [Procs -> Regs]
  BY DEF IInv, Typed
<1>. HIDE DEF h
<1>4. Typed'
  BY <1>1, <1>2, <1>3 DEF Tables, Typed
<1>5. ASSUME NEW q \in Procs
      PROVE  /\ Local(todo'[q], reg'[q], ofile'[q])
             /\ Opened(todo'[q], reg'[q], ofile'[q], file')
             /\ Locks(q, todo'[q], reg'[q], icache')
             /\ trans' = q <=> Logged(todo'[q])
  <2>1. CASE q = p
    <3>1. todo'[p] = t /\ reg'[p] = h
      BY <1>2, <1>3
    <3>2. Opened(t, h, ofile'[p], file') /\ Locks(p, t, h, icache')
      BY <1>1, DoneLocks, DoneOpened
    <3>. QED BY <1>1, <2>1, <3>1, <3>2 DEF LogBy
  <2>2. CASE q # p
    <3>1. todo'[q] = todo[q] /\ reg'[q] = reg[q] /\ ofile'[q] = ofile[q]
      BY <1>2, <1>3, <2>2 DEF FilesBy
    <3>2. /\ Local(todo[q], reg[q], ofile[q])
          /\ Opened(todo[q], reg[q], ofile[q], file)
          /\ Locks(q, todo[q], reg[q], icache)
          /\ trans = q <=> Logged(todo[q])
      BY DEF IInv
    <3>3. trans' = q <=> trans = q
      BY <2>2, NotNone DEF LogBy
    <3>4. Opened(todo[q], reg[q], ofile[q], file')
      <4>1. \A d \in 1 .. NOFILE : ofile[q][d] \in 1 .. NFILE => file'[ofile[q][d]].ip = file[ofile[q][d]].ip
        BY <2>2 DEF FilesBy
      <4>. QED BY <3>2, <4>1 DEF Opened
    <3>5. \A s \in Slots : icache'[s].busy = q <=> icache[s].busy = q
      BY <2>2, NotNone DEF BusyBy
    <3>6. Locks(q, todo[q], reg[q], icache')
      BY <3>2, <3>5 DEF Locks
    <3>. QED BY <3>1, <3>2, <3>3, <3>4, <3>6
  <2>. QED BY <2>1, <2>2
<1>6. RefsAre(icache', reg', file')
  <2>1. [reg EXCEPT ![p] = r] \in [Procs -> Regs] /\ [reg EXCEPT ![p] = r][p] = r
    BY <1>3
  <2>2. RefsKept(icache', icache')
    BY DEF RefsKept
  <2>3. RefsAre(icache', [[reg EXCEPT ![p] = r] EXCEPT ![p] = h], file')
    BY <1>1, <2>1, <2>2, RefsSame
  <2>4. [[reg EXCEPT ![p] = r] EXCEPT ![p] = h] = reg'
    BY <1>2, <1>3
  <2>. QED BY <2>3, <2>4
<1>7. Freeing(icache', todo', reg')
  <2>. SUFFICES ASSUME NEW s \in Slots, icache'[s].ref > 0 /\ icache'[s].valid /\ icache'[s].type = "none"
                PROVE  \E q \in Procs : icache'[s].busy = q /\ Top(todo'[q], "iputend") /\ reg'[q][Head(todo'[q])[2]] = s
    BY DEF Freeing
  <2>1. PICK q \in Procs : /\ icache'[s].busy = q /\ Top([todo EXCEPT ![p] = t][q], "iputend")
                           /\ [reg EXCEPT ![p] = r][q][Head([todo EXCEPT ![p] = t][q])[2]] = s
    BY DEF Freeing
  <2>2. todo'[q] = [todo EXCEPT ![p] = t][q]
    BY <1>2
  <2>3. reg'[q] = [reg EXCEPT ![p] = r][q]
    <3>1. CASE q = p
      <4>1. Top(t, "iputend")
        BY <1>3, <2>1, <3>1
      <4>2. t # <<>>
        BY <4>1 DEF Top
      <4>. QED BY <1>1, <1>2, <1>3, <3>1, <4>2
    <3>2. CASE q # p
      BY <1>2, <1>3, <3>2
    <3>. QED BY <3>1, <3>2
  <2>. QED BY <2>1, <2>2, <2>3, Zenon
<1>8. \A q \in Procs : /\ Local(todo'[q], reg'[q], ofile'[q])
                       /\ Opened(todo'[q], reg'[q], ofile'[q], file')
                       /\ Locks(q, todo'[q], reg'[q], icache')
                       /\ trans' = q <=> Logged(todo'[q])
  BY <1>5, Zenon
<1>9. RefsAre(icache, reg, file)' /\ FilesAre(file, ofile)' /\ Unique(icache)' /\ Copied(icache, din)' /\ Freeing(icache, todo, reg)'
  BY <1>6, <1>7
<1>10. (\A q \in Procs : /\ Local(todo[q], reg[q], ofile[q])
                         /\ Opened(todo[q], reg[q], ofile[q], file)
                         /\ Locks(q, todo[q], reg[q], icache)
                         /\ trans = q <=> Logged(todo[q]))'
  BY <1>8
<1>. QED BY <1>4, <1>9, <1>10 DEF IInv, Messages

\* The registers of the steps.
LEMMA Domains ==
  ASSUME NEW s \in Steps
  PROVE  /\ s = <<s[1], s[2]>>
         /\ s[1] \in {"ilock", "iunlock"} => s[2] \in CallPtrs \cup {"fip"}
         /\ s[1] \in {"iput", "itrunc", "ifree", "iputend"} => s[2] \in Ptrs
         /\ s[1] \in {"begin", "commit"} => s[2] \in LockRegs
         /\ s[1] \in {"namex", "element"} => s[2] \in {"ip", "dp"}
         /\ s[1] \in {"create", "exists", "mknode", "bump", "drop", "lookup", "remove", "open", "closeall",
                       "chdir", "setcwd"} => s[2] = "ip"
         /\ s[1] = "entry" => s[2] = "dp"
         /\ s[1] \in {"readi", "writei"} => s[2] = "fip"
         /\ s[1] = "fileclose" => s[2] \in 1 .. NOFILE
<1>1. s = <<s[1], s[2]>>
  BY DEF Steps
<1>2. s[1] \in {"ilock", "iunlock"} => s[2] \in CallPtrs \cup {"fip"}
  BY DEF Steps
<1>3. s[1] \in {"iput", "itrunc", "ifree", "iputend"} => s[2] \in Ptrs
  BY DEF Steps
<1>4. s[1] \in {"begin", "commit"} => s[2] \in LockRegs
  BY DEF Steps
<1>5. s[1] \in {"namex", "element"} => s[2] \in {"ip", "dp"}
  BY DEF Steps
<1>6. s[1] \in {"create", "exists", "mknode", "bump", "drop", "lookup", "remove", "open", "closeall",
                 "chdir", "setcwd"} => s[2] = "ip"
  BY DEF Steps
<1>7. s[1] = "entry" => s[2] = "dp"
  BY DEF Steps
<1>8. s[1] \in {"readi", "writei"} => s[2] = "fip"
  BY DEF Steps
<1>9. s[1] = "fileclose" => s[2] \in 1 .. NOFILE
  BY DEF Steps
<1>. QED BY <1>1, <1>2, <1>3, <1>4, <1>5, <1>6, <1>7, <1>8, <1>9

LEMMA RegIn ==
  ASSUME NEW op, NEW x, <<op, x>> \in Steps
  PROVE  /\ op \in {"ilock", "iunlock"} => x \in CallPtrs \cup {"fip"}
         /\ op \in {"iput", "itrunc", "ifree", "iputend"} => x \in Ptrs
         /\ op \in {"begin", "commit"} => x \in LockRegs
         /\ op \in {"namex", "element"} => x \in {"ip", "dp"}
         /\ op \in {"create", "exists", "mknode", "bump", "drop", "lookup", "remove", "open", "closeall",
                     "chdir", "setcwd"} => x = "ip"
         /\ op = "entry" => x = "dp"
         /\ op \in {"readi", "writei"} => x = "fip"
         /\ op = "fileclose" => x \in 1 .. NOFILE
<1>. DEFINE s == <<op, x>>
<1>1. s \in Steps /\ s[1] = op /\ s[2] = x
  OBVIOUS
<1>. HIDE DEF s
<1>. QED BY <1>1, Domains

\* What the invariant says of a process.
LEMMA Mine ==
  ASSUME IInv, NEW p \in Procs
  PROVE  /\ reg[p] \in Regs /\ todo[p] \in Seq(Steps)
         /\ ofile[p] \in [1 .. NOFILE -> (1 .. NFILE) \cup {None}]
         /\ Code(todo[p]) /\ Holding(todo[p], reg[p]) /\ Arguments(todo[p], reg[p])
         /\ Descriptors(todo[p], reg[p], ofile[p])
         /\ Opened(todo[p], reg[p], ofile[p], file)
         /\ Locks(p, todo[p], reg[p], icache)
         /\ trans = p <=> Logged(todo[p])
BY DEF IInv, Typed, Local

LEMMA Ours ==
  ASSUME IInv
  PROVE  /\ Tables /\ trans \in Procs \cup {None}
         /\ reg \in [Procs -> Regs] /\ todo \in [Procs -> Seq(Steps)]
         /\ RefsAre(icache, reg, file) /\ FilesAre(file, ofile)
         /\ Unique(icache) /\ Copied(icache, din) /\ Freeing(icache, todo, reg)
         /\ panic \notin Messages
BY DEF IInv, Typed, Tables, Messages

\* A process at a step of kind op.
LEMMA Now ==
  ASSUME IInv, NEW p \in Procs, NEW op, At(p, op)
  PROVE  /\ panic = "no" /\ todo[p] # <<>> /\ todo[p] = On(op, Reg(p), Rest(p))
         /\ Rest(p) \in Seq(Steps) /\ <<op, Reg(p)>> \in Steps
         /\ Head(todo[p]) = <<op, Reg(p)>> /\ \A o : Top(todo[p], o) <=> o = op
<1>1. todo[p] \in Seq(Steps) /\ todo[p] # <<>> /\ panic = "no" /\ Head(todo[p])[1] = op
  BY Mine DEF At
<1>2. Head(todo[p]) \in Steps /\ Tail(todo[p]) \in Seq(Steps) /\ todo[p] = Push(Head(todo[p]), Tail(todo[p]))
  BY <1>1, Popped
<1>3. Head(todo[p]) = <<op, Reg(p)>>
  BY <1>1, <1>2, Domains DEF Reg
<1>. QED BY <1>1, <1>2, <1>3 DEF On, Rest, Top

\* A process in a call has a current directory, but for the last step of chdir.
LEMMA HasCwd ==
  ASSUME IInv, NEW p \in Procs, todo[p] # <<>>, ~Top(todo[p], "setcwd")
  PROVE  reg[p]["cwd"] \in Slots
<1>1. reg[p]["cwd"] # None /\ reg[p] \in Regs
  BY Mine DEF Holding
<1>. QED BY <1>1, PtrIn DEF Ptrs

\* What is to be shown of the steps that follow.
LEMMA MakeLocal ==
  ASSUME NEW t, NEW r, NEW o, Code(t), \A x \in CallPtrs : r[x] # None <=> x \in Pointers(t),
         r["cwd"] # None, Arguments(t, r), Leaves(t) /\ ~Has(t, "setcwd") => \A fd \in 1 .. NOFILE : o[fd] = None,
         ~Top(t, "setcwd"), ~Top(t, "fileclose")
  PROVE  Local(t, r, o)
BY DEF Local, Holding, Descriptors

LEMMA SameLocal ==
  ASSUME NEW u, NEW t, NEW r, NEW o, Local(u, r, o), u # <<>>, ~Top(u, "setcwd"),
         Code(t), Pointers(t) = Pointers(u), Like(u, t), Leaves(t) => Leaves(u),
         ~Top(t, "setcwd"), ~Top(t, "fileclose")
  PROVE  Local(t, r, o)
<1>1. Arguments(t, r)
  BY LikeArgs DEF Local
<1>2. Has(u, "setcwd") <=> Has(t, "setcwd")
  BY LikeFails
<1>. QED BY <1>1, <1>2 DEF Local, Holding, Descriptors

LEMMA NoArgs ==
  ASSUME NEW t, NEW r, ~MayFail(t), ~Walks(t, "ip"), ~Walks(t, "dp"), ~Has(t, "bump")
  PROVE  Arguments(t, r)
BY DEF Arguments

\* Where a failing call goes.
LEMMA FailIs ==
  ASSUME NEW u, NEW t, t = Fail(u)
  PROVE  /\ t \in {<<>>, CommitIp, LinkBad} /\ t \in Seq(Steps) /\ Code(t) /\ Locked(t) = {} /\ ~Leaves(t)
         /\ Pointers(t) \subseteq {"ip"} /\ ~OnFile(t)
         /\ Shape(t, FALSE, FALSE, FALSE, FALSE, FALSE, FALSE, FALSE, FALSE)
         /\ ~MayFail(t) /\ ~Top(t, "setcwd") /\ ~Top(t, "fileclose") /\ ~Top(t, "iputend")
<1>1. t \in {<<>>, CommitIp, LinkBad}
  BY DEF Fail
<1>2. CASE t = <<>>
  BY <1>1, <1>2, Nothing DEF Sum, Shape
<1>3. CASE t = CommitIp
  BY <1>1, <1>3, IsCommitIp DEF Sum, Shape
<1>4. CASE t = LinkBad
  BY <1>1, <1>4, IsLinkBad DEF Sum, Shape
<1>. QED BY <1>1, <1>2, <1>3, <1>4

-----------------------------------------------------------------------------
(* Locks, and the inodes that are being freed.                             *)

LEMMA LocksKept ==
  ASSUME NEW p, NEW t, NEW u, NEW r, NEW h, NEW ic, NEW ic2, Locks(p, t, r, ic), Locked(u) = Locked(t),
         \A x \in Locked(t) : h[x] = r[x], \A s \in Slots : ic2[s].busy = ic[s].busy
  PROVE  Locks(p, u, h, ic2)
BY DEF Locks

LEMMA LocksAdd ==
  ASSUME NEW p, NEW t, NEW u, NEW r, NEW h, NEW ic, NEW ic2, Locks(p, t, r, ic), NEW x, NEW s \in Slots,
         Locked(u) = Locked(t) \cup {x}, \A y \in Locked(t) : h[y] = r[y], h[x] = s, p # None,
         ic[s].busy = None, ic2[s].busy = p, \A v \in Slots : v # s => ic2[v].busy = ic[v].busy
  PROVE  Locks(p, u, h, ic2)
<1>1. \A y \in Locked(t) : r[y] \in Slots /\ ic[r[y]].busy = p /\ r[y] # s
  BY DEF Locks
<1>2. \A y \in Locked(u) : h[y] \in Slots /\ ic2[h[y]].busy = p
  BY <1>1
<1>3. \A y, z \in Locked(u) : h[y] = h[z] => y = z
  BY <1>1 DEF Locks
<1>4. \A v \in Slots : ic2[v].busy = p => \E y \in Locked(u) : h[y] = v
  BY <1>1 DEF Locks
<1>. QED BY <1>2, <1>3, <1>4 DEF Locks

LEMMA LocksDrop ==
  ASSUME NEW p, NEW t, NEW u, NEW r, NEW h, NEW ic, NEW ic2, Locks(p, t, r, ic), NEW x \in Locked(t), NEW s, r[x] = s,
         Locked(u) = Locked(t) \ {x}, \A y \in Locked(u) : h[y] = r[y], p # None,
         ic2[s].busy = None, \A v \in Slots : v # s => ic2[v].busy = ic[v].busy
  PROVE  Locks(p, u, h, ic2)
<1>1. \A y \in Locked(u) : r[y] \in Slots /\ ic[r[y]].busy = p /\ r[y] # s
  BY DEF Locks
<1>2. \A y \in Locked(u) : h[y] \in Slots /\ ic2[h[y]].busy = p
  BY <1>1
<1>3. \A y, z \in Locked(u) : h[y] = h[z] => y = z
  BY DEF Locks
<1>4. \A v \in Slots : ic2[v].busy = p => \E y \in Locked(u) : h[y] = v
  BY DEF Locks
<1>. QED BY <1>2, <1>3, <1>4 DEF Locks

LEMMA FreeingKept ==
  ASSUME IInv, NEW p \in Procs, NEW r, NEW t, NEW ic2, ~Top(todo[p], "iputend"),
         \A s \in Slots : ic2[s].ref > 0 /\ ic2[s].valid /\ ic2[s].type = "none" =>
           icache[s].ref > 0 /\ icache[s].valid /\ icache[s].type = "none" /\ ic2[s].busy = icache[s].busy
  PROVE  Freeing(ic2, [todo EXCEPT ![p] = t], [reg EXCEPT ![p] = r])
<1>. SUFFICES ASSUME NEW s \in Slots, ic2[s].ref > 0 /\ ic2[s].valid /\ ic2[s].type = "none"
              PROVE  \E q \in Procs : /\ ic2[s].busy = q /\ Top([todo EXCEPT ![p] = t][q], "iputend")
                                      /\ [reg EXCEPT ![p] = r][q][Head([todo EXCEPT ![p] = t][q])[2]] = s
  BY DEF Freeing
<1>1. icache[s].ref > 0 /\ icache[s].valid /\ icache[s].type = "none" /\ ic2[s].busy = icache[s].busy
  OBVIOUS
<1>2. PICK q \in Procs : icache[s].busy = q /\ Top(todo[q], "iputend") /\ reg[q][Head(todo[q])[2]] = s
  BY <1>1, Ours DEF Freeing
<1>3. q # p /\ todo \in [Procs -> Seq(Steps)] /\ reg \in [Procs -> Regs]
  BY <1>2, Ours
<1>4. [todo EXCEPT ![p] = t][q] = todo[q] /\ [reg EXCEPT ![p] = r][q] = reg[q]
  BY <1>3
<1>. QED BY <1>1, <1>2, <1>4, Zenon

SameFiles(a, b) == \A e \in 1 .. NFILE : b[e].ref = a[e].ref /\ b[e].ip = a[e].ip

LEMMA OpenedKept ==
  ASSUME NEW u, NEW t, NEW r, NEW h, NEW o, NEW fl, NEW fl2, Opened(u, r, o, fl), OnFile(t) => OnFile(u),
         h.fp = r.fp, h.fip = r.fip, SameFiles(fl, fl2)
  PROVE  Opened(t, h, o, fl2)
BY DEF Opened, SameFiles

LEMMA FilesKept ==
  ASSUME NEW p, NEW fl, NEW fl2, NEW o, SameFiles(fl, fl2)
  PROVE  FilesBy(p, fl, fl2, o, o) /\ (FilesAre(fl, o) => FilesAre(fl2, o))
BY DEF FilesBy, SameFiles, FilesAre

\* A step that leaves the inode cache and the references as they are.
LEMMA Quiet ==
  ASSUME IInv, NEW p \in Procs, NEW r \in Regs, NEW t \in Seq(Steps), Do(p, r, t), Tables',
         icache' = icache, din' = din, ofile' = ofile, SameFiles(file, file'), panic' = panic,
         trans' \in Procs \cup {None}, LogBy(p, t, trans, trans'), ~Top(todo[p], "iputend"),
         Local(t, r, ofile[p]), Opened(t, r, ofile[p], file'), Locked(t) = Locked(todo[p]),
         \A x \in Ptrs : r[x] = reg[p][x], \A x \in Locked(t) : r[x] = reg[p][x]
  PROVE  IInv'
<1>1. /\ Tables /\ reg \in [Procs -> Regs]
      /\ RefsAre(icache, reg, file) /\ FilesAre(file, ofile)
      /\ Unique(icache) /\ Copied(icache, din) /\ Freeing(icache, todo, reg)
      /\ panic \notin Messages /\ Locks(p, todo[p], reg[p], icache)
  BY Ours, Mine
<1>2. RefsAre(icache', [reg EXCEPT ![p] = r], file')
  <2>1. RefsKept(icache, icache')
    BY DEF RefsKept
  <2>2. \A e \in 1 .. NFILE : (file'[e].ref > 0 <=> file[e].ref > 0) /\ (file[e].ref > 0 => file'[e].ip = file[e].ip)
    BY DEF SameFiles
  <2>. QED BY <1>1, <2>1, <2>2, RefsSame
<1>3. FilesAre(file', ofile') /\ FilesBy(p, file, file', ofile, ofile')
  BY <1>1, FilesKept
<1>4. Freeing(icache', [todo EXCEPT ![p] = t], [reg EXCEPT ![p] = r])
  BY FreeingKept
<1>5. Locks(p, t, r, icache') /\ BusyBy(p, icache, icache')
  BY <1>1, LocksKept DEF BusyBy
<1>. QED BY <1>1, <1>2, <1>3, <1>4, <1>5, Frame

\* The same with the files as they are, and the log.
LEMMA QuietAll ==
  ASSUME IInv, NEW p \in Procs, NEW r \in Regs, NEW t \in Seq(Steps), Do(p, r, t),
         UNCHANGED <<disk, icache, trans, file, ofile, panic>>, ~Top(todo[p], "iputend"),
         Logged(t) <=> Logged(todo[p]), OnFile(t) => OnFile(todo[p]), r.fp = reg[p].fp, r.fip = reg[p].fip,
         Local(t, r, ofile[p]), Locked(t) = Locked(todo[p]), \A x \in Ptrs : r[x] = reg[p][x]
  PROVE  IInv'
<1>1. Tables /\ trans \in Procs \cup {None} /\ Opened(todo[p], reg[p], ofile[p], file) /\ (trans = p <=> Logged(todo[p]))
  BY Ours, Mine
<1>2. Tables' /\ trans' \in Procs \cup {None}
  BY <1>1 DEF Tables, disk
<1>3. SameFiles(file, file') /\ LogBy(p, t, trans, trans')
  BY <1>1 DEF SameFiles, LogBy
<1>4. Opened(t, r, ofile[p], file')
  BY <1>1, <1>3, OpenedKept
<1>5. \A x \in Locked(t) : r[x] = reg[p][x]
  BY Kinds DEF LockRegs, CallPtrs, Ptrs
<1>. QED BY <1>2, <1>3, <1>4, <1>5, Quiet DEF disk

LEMMA StepBegin ==
  ASSUME IInv, NEW p \in Procs, Begin(p)
  PROVE  IInv'
<1>. DEFINE t == Rest(p)
            r == reg[p]
            x == Reg(p)
            u == On("begin", x, t)
<1>1. t \in Seq(Steps) /\ x \in LockRegs /\ todo[p] = u /\ u # <<>> /\ (\A o : Top(u, o) <=> o = "begin")
  <2>1. /\ todo[p] # <<>> /\ todo[p] = On("begin", Reg(p), Rest(p)) /\ Rest(p) \in Seq(Steps)
        /\ <<"begin", Reg(p)>> \in Steps /\ \A o : Top(todo[p], o) <=> o = "begin"
    BY Now DEF Begin
  <2>2. "begin" \in {"begin", "commit"} => Reg(p) \in LockRegs
    BY <2>1, RegIn, Zenon
  <2>. QED BY <2>1, <2>2
<1>2. /\ Tables /\ r \in Regs /\ Local(u, r, ofile[p]) /\ Opened(u, r, ofile[p], file) /\ Code(u)
  BY <1>1, Ours, Mine DEF Local
<1>3. /\ Do(p, r, t) /\ trans = None /\ trans' = p
      /\ UNCHANGED <<disk, icache, file, ofile, panic>>
  BY DEF Begin, Proceed, Goto
<1>. HIDE DEF t, r, x
<1>4. /\ Pointers(u) = Pointers(t) /\ Locked(u) = Locked(t) /\ (Leaves(u) <=> Leaves(t)) /\ Like(u, t)
      /\ Code(t) /\ ~Top(t, "setcwd") /\ ~Top(t, "fileclose") /\ Logged(t) /\ (OnFile(t) => OnFile(u))
  BY <1>1, <1>2, Op_begin
<1>. HIDE DEF u
<1>5. Local(t, r, ofile[p])
  BY <1>1, <1>2, <1>4, SameLocal
<1>6. Tables' /\ SameFiles(file, file') /\ LogBy(p, t, trans, trans') /\ trans' \in Procs \cup {None}
  BY <1>2, <1>3, <1>4 DEF Tables, SameFiles, LogBy, disk
<1>7. Opened(t, r, ofile[p], file')
  BY <1>2, <1>4, <1>6, OpenedKept
<1>8. Locked(t) = Locked(todo[p]) /\ ~Top(todo[p], "iputend")
  BY <1>1, <1>4
<1>. QED BY <1>1, <1>2, <1>3, <1>5, <1>6, <1>7, <1>8, Quiet DEF r, disk

\* A panic that the theorem is not about.
LEMMA PanicStep ==
  ASSUME IInv, NEW msg, Panic(msg), msg \notin Messages
  PROVE  IInv'
<1>1. /\ din' = din /\ ents' = ents /\ used' = used /\ icache' = icache /\ trans' = trans /\ file' = file
      /\ ofile' = ofile /\ reg' = reg /\ todo' = todo /\ panic' = msg
  BY DEF Panic, disk
<1>2. Typed'
  BY <1>1 DEF IInv, Typed
<1>3. panic' \notin {"ilock", "iunlock", "iput busy", "fileclose"}
  BY <1>1 DEF Messages
<1>4. (\A q \in Procs : /\ Local(todo[q], reg[q], ofile[q])
                        /\ Opened(todo[q], reg[q], ofile[q], file)
                        /\ Locks(q, todo[q], reg[q], icache)
                        /\ trans = q <=> Logged(todo[q]))'
  BY <1>1 DEF IInv
<1>5. RefsAre(icache, reg, file)' /\ FilesAre(file, ofile)' /\ Unique(icache)' /\ Copied(icache, din)' /\ Freeing(icache, todo, reg)'
  BY <1>1 DEF IInv
<1>. QED BY <1>2, <1>3, <1>4, <1>5 DEF IInv

\* An inode that is pointed to, or locked, has a reference.
LEMMA PtrRef ==
  ASSUME IInv, NEW p \in Procs, NEW x, x \in Ptrs \/ (x = "fip" /\ OnFile(todo[p])), reg[p][x] \in Slots
  PROVE  icache[reg[p][x]].ref \in Nat /\ icache[reg[p][x]].ref >= 1
<1>1. RefsAre(icache, reg, file) /\ FilesAre(file, ofile) /\ icache \in [Slots -> Inodes]
  BY Ours DEF Tables
<1>2. icache[reg[p][x]].ref \in Nat
  BY <1>1 DEF Inodes
<1>3. CASE x \in Ptrs
  BY <1>1, <1>2, <1>3, Counted1
<1>4. CASE x = "fip" /\ OnFile(todo[p])
  <2>1. PICK d \in 1 .. NOFILE : ofile[p][d] = reg[p].fp
    BY <1>4, Mine DEF Opened
  <2>2. reg[p].fp \in 1 .. NFILE /\ file[reg[p].fp].ip = reg[p].fip
    BY <1>4, Mine DEF Opened
  <2>3. file[reg[p].fp].ref >= 1 /\ file[reg[p].fp].ip \in Slots
    BY <1>1, <2>1, <2>2, Counted3
  <2>4. file[reg[p].fp].ref > 0
    <3>1. file[reg[p].fp].ref \in Nat
      BY <2>2, Ours DEF Tables, Files
    <3>. QED BY <2>3, <3>1
  <2>5. icache[file[reg[p].fp].ip].ref >= 1
    BY <1>1, <2>2, <2>3, <2>4, Counted2
  <2>. QED BY <1>2, <1>4, <2>2, <2>5
<1>. QED BY <1>3, <1>4

LEMMA LockedFip ==
  ASSUME NEW t \in Seq(Steps), "fip" \in Locked(t)
  PROVE  OnFile(t)
<1>1. PICK i \in 1 .. Len(t) : Lk("fip") \in Uses(t[i])
  BY DEF Locked, Needs
<1>2. t[i] \in Steps
  BY <1>1
<1>3. t[i][1] \in {"iputend", "iunlock", "element", "create", "open", "chdir"}
  BY <1>1, Apart DEF Uses
<1>4. t[i][2] = "fip"
  <2>1. CASE t[i][1] = "iputend"
    <3>1. Uses(t[i]) = {Lk(t[i][2]), IF t[i][2] = "cwd" THEN Dir ELSE Ptr(t[i][2])}
      BY <2>1 DEF Uses
    <3>. QED BY <1>1, <3>1, Apart
  <2>2. CASE t[i][1] = "iunlock"
    <3>1. Uses(t[i]) = {Lk(t[i][2])}
      BY <2>2 DEF Uses
    <3>. QED BY <1>1, <3>1, Apart
  <2>3. CASE t[i][1] = "element"
    <3>1. Uses(t[i]) = {Ptr("w"), Lk("w")}
      BY <2>3 DEF Uses
    <3>. QED BY <1>1, <3>1, Apart
  <2>4. CASE t[i][1] = "create"
    <3>1. Uses(t[i]) = {Ptr("dp"), Lk("dp")}
      BY <2>4 DEF Uses
    <3>. QED BY <1>1, <3>1, Apart
  <2>5. CASE t[i][1] \in {"open", "chdir"}
    <3>1. Uses(t[i]) = {Ptr("ip"), Lk("ip")}
      BY <2>5 DEF Uses
    <3>. QED BY <1>1, <3>1, Apart
  <2>. QED BY <1>3, <2>1, <2>2, <2>3, <2>4, <2>5
<1>. QED BY <1>3, <1>4 DEF OnFile

LEMMA LockRef ==
  ASSUME IInv, NEW s \in Slots, icache[s].busy # None
  PROVE  icache[s].ref \in Nat /\ icache[s].ref >= 1
<1>1. icache[s].busy \in Procs
  BY Ours DEF Tables, Inodes
<1>2. PICK q \in Procs : icache[s].busy = q
  BY <1>1
<1>3. PICK y \in Locked(todo[q]) : reg[q][y] = s
  BY <1>2, Mine DEF Locks
<1>4. y \in Ptrs \/ (y = "fip" /\ OnFile(todo[q]))
  <2>1. y \in LockRegs
    BY <1>3, Kinds
  <2>2. y \in Ptrs \/ y = "fip"
    BY <2>1 DEF LockRegs, CallPtrs, Ptrs
  <2>3. y = "fip" => OnFile(todo[q])
    BY <1>3, Mine, LockedFip
  <2>. QED BY <2>2, <2>3
<1>. QED BY <1>3, <1>4, PtrRef

\* An entry that is not being freed agrees with the disk.
LEMMA Stable ==
  ASSUME IInv, NEW p \in Procs, NEW s \in Slots, icache[s].busy \in {p, None}, ~Top(todo[p], "iputend"),
         icache[s].ref > 0, icache[s].valid
  PROVE  icache[s].type # "none" /\ Copy(icache[s]) = din[icache[s].inum]
<1>1. ASSUME icache[s].type = "none"
      PROVE  FALSE
  <2>1. PICK q \in Procs : icache[s].busy = q /\ Top(todo[q], "iputend")
    BY <1>1, Ours DEF Freeing
  <2>. QED BY <2>1, NotNone
<1>. QED BY <1>1, Ours DEF Copied

Only(s, ic, ic2) == \A v \in Slots : v # s => ic2[v] = ic[v]

\* One entry changes, that nobody else has locked.
LEMMA OneSlot ==
  ASSUME IInv, NEW p \in Procs, NEW s \in Slots, NEW r, NEW t, ~Top(todo[p], "iputend"),
         Only(s, icache, icache'), icache[s].busy \in {p, None}, icache'[s].busy \in {p, None},
         icache[s].ref > 0, icache'[s].inum = icache[s].inum,
         \A i \in Inums : i # icache[s].inum => din'[i] = din[i],
         icache'[s].ref > 0 /\ icache'[s].valid => Copy(icache'[s]) = din'[icache[s].inum] /\ icache'[s].type # "none"
  PROVE  /\ Unique(icache') /\ Copied(icache', din') /\ BusyBy(p, icache, icache')
         /\ Freeing(icache', [todo EXCEPT ![p] = t], [reg EXCEPT ![p] = r])
<1>1. Unique(icache) /\ Copied(icache, din)
  BY Ours
<1>2. Unique(icache')
  BY <1>1 DEF Unique, Only
<1>3. Copied(icache', din')
  <2>. SUFFICES ASSUME NEW v \in Slots, icache'[v].ref > 0 /\ icache'[v].valid
                PROVE  Copy(icache'[v]) = din'[icache'[v].inum] \/ (icache'[v].type = "none" /\ icache'[v].busy # None)
    BY DEF Copied
  <2>1. CASE v = s
    BY <2>1
  <2>2. CASE v # s
    <3>1. icache'[v] = icache[v]
      BY <2>2 DEF Only
    <3>2. icache[v].inum \in Inums /\ icache[v].inum # icache[s].inum
      BY <1>1, <2>2, <3>1 DEF Unique
    <3>3. Copy(icache[v]) = din[icache[v].inum] \/ (icache[v].type = "none" /\ icache[v].busy # None)
      BY <1>1, <3>1 DEF Copied
    <3>. QED BY <3>1, <3>2, <3>3
  <2>. QED BY <2>1, <2>2
<1>4. \A v \in Slots : icache'[v].ref > 0 /\ icache'[v].valid /\ icache'[v].type = "none" =>
        icache[v].ref > 0 /\ icache[v].valid /\ icache[v].type = "none" /\ icache'[v].busy = icache[v].busy
  BY DEF Only
<1>5. Freeing(icache', [todo EXCEPT ![p] = t], [reg EXCEPT ![p] = r])
  BY <1>4, FreeingKept
<1>. QED BY <1>2, <1>3, <1>5 DEF BusyBy, Only

LEMMA StepCommit ==
  ASSUME IInv, NEW p \in Procs, Commit(p)
  PROVE  IInv'
<1>. DEFINE t == Rest(p)
            r == reg[p]
            x == Reg(p)
            u == On("commit", x, t)
<1>1. t \in Seq(Steps) /\ x \in LockRegs /\ todo[p] = u /\ u # <<>> /\ (\A o : Top(u, o) <=> o = "commit") /\ panic = "no"
  <2>1. /\ todo[p] # <<>> /\ todo[p] = On("commit", Reg(p), Rest(p)) /\ Rest(p) \in Seq(Steps) /\ panic = "no"
        /\ <<"commit", Reg(p)>> \in Steps /\ \A o : Top(todo[p], o) <=> o = "commit"
    BY Now DEF Commit
  <2>2. "commit" \in {"begin", "commit"} => Reg(p) \in LockRegs
    BY <2>1, RegIn, Zenon
  <2>. QED BY <2>1, <2>2
<1>2. /\ Tables /\ r \in Regs /\ Local(u, r, ofile[p]) /\ Opened(u, r, ofile[p], file) /\ Code(u)
      /\ Locks(p, u, r, icache) /\ (trans = p <=> Logged(u)) /\ trans \in Procs \cup {None}
      /\ Unique(icache) /\ RefsAre(icache, reg, file) /\ FilesAre(file, ofile) /\ reg \in [Procs -> Regs]
  BY <1>1, Ours, Mine DEF Local
<1>3. Do(p, r, t) /\ trans' = None /\ UNCHANGED <<disk, icache, file, ofile, panic>>
  BY DEF Commit, Proceed, Goto
<1>. HIDE DEF t, r, x
<1>4. /\ Pointers(u) = Pointers(t) /\ Locked(u) = Locked(t) /\ (Leaves(u) <=> Leaves(t)) /\ Like(u, t)
      /\ Code(t) /\ ~Top(t, "setcwd") /\ ~Top(t, "fileclose") /\ ~Logged(t) /\ Logged(u) /\ (OnFile(t) => OnFile(u))
  BY <1>1, <1>2, Op_commit
<1>. HIDE DEF u
<1>5. Local(t, r, ofile[p])
  BY <1>1, <1>2, <1>4, SameLocal
<1>6. Tables' /\ SameFiles(file, file') /\ LogBy(p, t, trans, trans') /\ trans' \in Procs \cup {None}
  BY <1>2, <1>3, <1>4, NotNone DEF Tables, SameFiles, LogBy, disk
<1>7. Opened(t, r, ofile[p], file')
  BY <1>2, <1>4, <1>6, OpenedKept
<1>8. Locked(t) = Locked(todo[p]) /\ ~Top(todo[p], "iputend")
  BY <1>1, <1>4
<1>. QED BY <1>1, <1>2, <1>3, <1>5, <1>6, <1>7, <1>8, Quiet DEF r, disk

LEMMA StepIunlock ==
  ASSUME IInv, NEW p \in Procs, Iunlock(p)
  PROVE  IInv'
<1>. DEFINE t == Rest(p)
            r == reg[p]
            x == Reg(p)
            u == On("iunlock", x, t)
<1>1. t \in Seq(Steps) /\ x \in CallPtrs \cup {"fip"} /\ todo[p] = u /\ u # <<>> /\ (\A o : Top(u, o) <=> o = "iunlock") /\ panic = "no"
  <2>1. /\ todo[p] # <<>> /\ todo[p] = On("iunlock", Reg(p), Rest(p)) /\ Rest(p) \in Seq(Steps) /\ panic = "no"
        /\ <<"iunlock", Reg(p)>> \in Steps /\ \A o : Top(todo[p], o) <=> o = "iunlock"
    BY Now DEF Iunlock
  <2>2. "iunlock" \in {"ilock", "iunlock"} => Reg(p) \in CallPtrs \cup {"fip"}
    BY <2>1, RegIn, Zenon
  <2>. QED BY <2>1, <2>2
<1>2. /\ Tables /\ r \in Regs /\ Local(u, r, ofile[p]) /\ Opened(u, r, ofile[p], file) /\ Code(u)
      /\ Locks(p, u, r, icache) /\ (trans = p <=> Logged(u)) /\ trans \in Procs \cup {None}
      /\ Unique(icache) /\ RefsAre(icache, reg, file) /\ FilesAre(file, ofile) /\ reg \in [Procs -> Regs]
  BY <1>1, Ours, Mine DEF Local
<1>. DEFINE s == r[x]
<1>3. /\ Pointers(u) = Pointers(t) /\ Locked(u) = Locked(t) \cup {x} /\ (Leaves(u) <=> Leaves(t)) /\ Like(u, t)
      /\ Code(t) /\ ~Top(t, "setcwd") /\ ~Top(t, "fileclose") /\ (Logged(u) <=> Logged(t)) /\ x \notin Locked(t)
      /\ OnFile(u) <=> x = "fip" \/ OnFile(t)
  <2>. HIDE DEF t, r, x
  <2>. QED BY <1>1, <1>2, Op_iunlock
<1>4. s \in Slots /\ icache[s].busy = p
  BY <1>2, <1>3 DEF Locks
<1>5. icache[s].ref \in Nat /\ icache[s].ref >= 1
  <2>1. x \in Ptrs \/ (x = "fip" /\ OnFile(todo[p]))
    BY <1>1, <1>3 DEF CallPtrs, Ptrs
  <2>. QED BY <1>4, <2>1, PtrRef
<1>6. /\ icache' = [icache EXCEPT ![s].busy = None] /\ Do(p, r, t)
      /\ UNCHANGED <<disk, trans, file, ofile, panic>>
  <2>1. ~(icache[s].busy = None \/ icache[s].ref < 1)
    BY <1>4, <1>5, NotNone
  <2>. QED BY <2>1 DEF Iunlock, Proceed, Goto
<1>. HIDE DEF t, r, x, u, s
<1>7. /\ icache' \in [Slots -> Inodes] /\ icache'[s].busy = None /\ icache'[s].inum = icache[s].inum
      /\ icache'[s].ref = icache[s].ref /\ icache'[s].valid = icache[s].valid /\ Copy(icache'[s]) = Copy(icache[s])
      /\ icache'[s].type = icache[s].type /\ Only(s, icache, icache')
  BY <1>2, <1>4, <1>6 DEF Tables, Inodes, Only, Copy
<1>8. icache[s].valid => icache[s].type # "none" /\ Copy(icache[s]) = din[icache[s].inum]
  BY <1>1, <1>4, <1>5, Stable
<1>9. /\ Unique(icache') /\ Copied(icache', din') /\ BusyBy(p, icache, icache')
      /\ Freeing(icache', [todo EXCEPT ![p] = t], [reg EXCEPT ![p] = r])
  <2>1. din' = din /\ icache[s].ref > 0 /\ ~Top(todo[p], "iputend")
    BY <1>1, <1>5, <1>6 DEF disk
  <2>2. icache'[s].ref > 0 /\ icache'[s].valid => Copy(icache'[s]) = din'[icache[s].inum] /\ icache'[s].type # "none"
    BY <1>7, <1>8, <2>1
  <2>. QED BY <1>4, <1>7, <2>1, <2>2, OneSlot
<1>10. Locks(p, t, r, icache')
  <2>1. Locked(t) = Locked(u) \ {x} /\ x \in Locked(u) /\ p # None /\ r[x] = s
    BY <1>3, NotNone DEF s
  <2>2. \A v \in Slots : v # s => icache'[v].busy = icache[v].busy
    BY <1>7 DEF Only
  <2>. QED BY <1>2, <1>7, <2>1, <2>2, LocksDrop
<1>11. Local(t, r, ofile'[p])
  BY <1>1, <1>2, <1>3, <1>6, SameLocal
<1>12. Tables' /\ SameFiles(file, file') /\ LogBy(p, t, trans, trans') /\ trans' \in Procs \cup {None}
  BY <1>2, <1>3, <1>6, <1>7 DEF Tables, SameFiles, LogBy, disk
<1>13. Opened(t, r, ofile'[p], file') /\ FilesBy(p, file, file', ofile, ofile') /\ FilesAre(file', ofile')
  BY <1>2, <1>3, <1>6, <1>12, OpenedKept, FilesKept
<1>14. RefsAre(icache', [reg EXCEPT ![p] = r], file')
  <2>1. RefsKept(icache, icache')
    BY <1>7 DEF RefsKept, Only
  <2>2. \A e \in 1 .. NFILE : (file'[e].ref > 0 <=> file[e].ref > 0) /\ (file[e].ref > 0 => file'[e].ip = file[e].ip)
    BY <1>12 DEF SameFiles
  <2>3. \A y \in Ptrs : r[y] = reg[p][y]
    BY DEF r
  <2>. QED BY <1>2, <2>1, <2>2, <2>3, RefsSame
<1>15. panic' \notin Messages
  BY <1>1, <1>6 DEF Messages
<1>. QED BY <1>1, <1>2, <1>6, <1>9, <1>10, <1>11, <1>12, <1>13, <1>14, <1>15, Frame

LEMMA ArgsKept ==
  ASSUME NEW t, NEW r, NEW h, Arguments(t, r), h.err = r.err, h.parent = r.parent, h.path = r.path, h.new = r.new
  PROVE  Arguments(t, h)
BY DEF Arguments

\* One entry changes, the files and the log do not.
LEMMA SlotStep ==
  ASSUME IInv, NEW p \in Procs, NEW r \in Regs, NEW t \in Seq(Steps), Do(p, r, t), Tables',
         trans' = trans, ofile' = ofile, SameFiles(file, file'), panic' = panic,
         NEW s \in Slots, ~Top(todo[p], "iputend"),
         Only(s, icache, icache'), icache[s].busy \in {p, None}, icache'[s].busy \in {p, None},
         icache[s].ref > 0, icache'[s].inum = icache[s].inum,
         \A i \in Inums : i # icache[s].inum => din'[i] = din[i],
         icache'[s].ref > 0 /\ icache'[s].valid => Copy(icache'[s]) = din'[icache[s].inum] /\ icache'[s].type # "none",
         Logged(t) <=> Logged(todo[p]), OnFile(t) => OnFile(todo[p]), r.fp = reg[p].fp, r.fip = reg[p].fip,
         Local(t, r, ofile[p]), Locks(p, t, r, icache'), RefsAre(icache', [reg EXCEPT ![p] = r], file')
  PROVE  IInv'
<1>1. /\ FilesAre(file, ofile) /\ panic \notin Messages /\ trans \in Procs \cup {None}
      /\ Opened(todo[p], reg[p], ofile[p], file) /\ (trans = p <=> Logged(todo[p]))
  BY Ours, Mine
<1>2. /\ Unique(icache') /\ Copied(icache', din') /\ BusyBy(p, icache, icache')
      /\ Freeing(icache', [todo EXCEPT ![p] = t], [reg EXCEPT ![p] = r])
  BY OneSlot
<1>3. LogBy(p, t, trans, trans') /\ trans' \in Procs \cup {None}
  BY <1>1 DEF LogBy
<1>4. Opened(t, r, ofile'[p], file') /\ FilesBy(p, file, file', ofile, ofile') /\ FilesAre(file', ofile')
  BY <1>1, OpenedKept, FilesKept
<1>. QED BY <1>1, <1>2, <1>3, <1>4, Frame

\* The same, and the references do not change either.
LEMMA SlotSame ==
  ASSUME IInv, NEW p \in Procs, NEW r \in Regs, NEW ic2, NEW fl2, RefsKept(icache, ic2), SameFiles(file, fl2),
         \A x \in Ptrs : r[x] = reg[p][x]
  PROVE  RefsAre(ic2, [reg EXCEPT ![p] = r], fl2)
<1>1. RefsAre(icache, reg, file) /\ reg \in [Procs -> Regs]
  BY Ours
<1>2. \A e \in 1 .. NFILE : (fl2[e].ref > 0 <=> file[e].ref > 0) /\ (file[e].ref > 0 => fl2[e].ip = file[e].ip)
  BY DEF SameFiles
<1>. QED BY <1>1, <1>2, RefsSame

\* An entry of the cache is set.
SetAt(ic, s, f, ic2) == ic2 \in [Slots -> Inodes] /\ ic2[s] = f /\ Only(s, ic, ic2)
LEMMA SetEntry ==
  ASSUME NEW ic \in [Slots -> Inodes], NEW s \in Slots, NEW f \in Inodes
  PROVE  SetAt(ic, s, f, [ic EXCEPT ![s] = f])
BY DEF Only, SetAt
\* Its count is set, its lock, both with the flags, the links or the blocks.
LEMMA SetFields ==
  ASSUME NEW e \in Inodes
  PROVE  /\ \A n \in Nat : LET f == [e EXCEPT !.ref = n] IN
              /\ f \in Inodes /\ f.ref = n /\ f.inum = e.inum /\ f.busy = e.busy /\ f.valid = e.valid
              /\ f.type = e.type /\ Copy(f) = Copy(e)
         /\ \A q \in Procs \cup {None} : LET f == [e EXCEPT !.busy = q] IN
              /\ f \in Inodes /\ f.ref = e.ref /\ f.inum = e.inum /\ f.busy = q /\ f.valid = e.valid
              /\ f.type = e.type /\ Copy(f) = Copy(e)
<1>. SUFFICES ASSUME NEW n \in Nat, NEW q \in Procs \cup {None}
              PROVE  /\ LET f == [e EXCEPT !.ref = n] IN
                          /\ f \in Inodes /\ f.ref = n /\ f.inum = e.inum /\ f.busy = e.busy /\ f.valid = e.valid
                          /\ f.type = e.type /\ Copy(f) = Copy(e)
                     /\ LET f == [e EXCEPT !.busy = q] IN
                          /\ f \in Inodes /\ f.ref = e.ref /\ f.inum = e.inum /\ f.busy = q /\ f.valid = e.valid
                          /\ f.type = e.type /\ Copy(f) = Copy(e)
  OBVIOUS
<1>. QED BY DEF Inodes, Copy

LEMMA PutLocal ==
  ASSUME NEW x \in Ptrs, NEW t \in Seq(Steps), NEW r \in Regs, NEW u, NEW o, Local(u, r, o), Code(t), Like(u, t),
         u # <<>>, ~Top(u, "setcwd"), ~Top(t, "fileclose"),
         x # "cwd" => /\ Pointers(u) = Pointers(t) \cup {x} /\ x \notin Pointers(t) /\ (Leaves(u) <=> Leaves(t))
                      /\ ~Top(t, "setcwd"),
         x = "cwd" => Pointers(u) = Pointers(t) /\ Leaves(u) /\ t \in {<<>>, EndCwd},
         NEW h, h = [r EXCEPT ![x] = None]
  PROVE  h \in Regs /\ Local(t, h, o)
<1>1. /\ h \in Regs /\ h[x] = None /\ (\A y \in Ptrs : y # x => h[y] = r[y])
      /\ h.path = r.path /\ h.new = r.new /\ h.parent = r.parent /\ h.err = r.err
  <2>1. None \in Slots \cup {None}
    OBVIOUS
  <2>2. SetTo(r, x, None, h)
    BY <2>1, SetIs, Zenon
  <2>. QED BY <2>2 DEF SetTo
<1>2. Arguments(t, h)
  <2>1. Arguments(u, r)
    BY DEF Local
  <2>2. Arguments(t, r)
    BY <2>1, LikeArgs
  <2>. QED BY <1>1, <2>2, ArgsKept
<1>3. Has(u, "setcwd") <=> Has(t, "setcwd")
  BY LikeFails
<1>4. (\A y \in CallPtrs : r[y] # None <=> y \in Pointers(u)) /\ r["cwd"] # None /\ Descriptors(u, r, o)
  BY DEF Local, Holding
<1>5. CASE x # "cwd"
  <2>1. h["cwd"] = r["cwd"]
    BY <1>1, <1>5 DEF Ptrs
  <2>2. \A y \in CallPtrs : h[y] # None <=> y \in Pointers(t)
    BY <1>1, <1>4, <1>5 DEF Ptrs, CallPtrs
  <2>3. Leaves(t) /\ ~Has(t, "setcwd") => \A fd \in 1 .. NOFILE : o[fd] = None
    BY <1>3, <1>4, <1>5 DEF Descriptors
  <2>. QED BY <1>1, <1>2, <1>4, <1>5, <2>1, <2>2, <2>3, MakeLocal
<1>6. CASE x = "cwd"
  <2>1. \A y \in CallPtrs : h[y] # None <=> y \in Pointers(t)
    BY <1>1, <1>4, <1>6 DEF Ptrs, CallPtrs
  <2>2. CASE t = <<>>
    <3>1. ~Top(t, "setcwd") /\ ~Has(t, "setcwd") /\ ~Leaves(t)
      BY <2>2, Nothing DEF Sum, Shape
    <3>2. \A fd \in 1 .. NOFILE : o[fd] = None
      BY <1>3, <1>4, <1>6, <3>1 DEF Descriptors
    <3>. QED BY <1>1, <1>2, <2>1, <2>2, <3>1, <3>2 DEF Local, Holding, Descriptors
  <2>3. CASE t = EndCwd
    <3>1. Top(t, "setcwd") /\ ~Leaves(t) /\ t # <<>>
      BY <2>3, IsEndCwd DEF Sum
    <3>. QED BY <1>1, <1>2, <1>6, <2>1, <3>1 DEF Local, Holding, Descriptors
  <2>. QED BY <1>6, <2>2, <2>3
<1>. QED BY <1>5, <1>6

\* The steps that free an inode come in the place of iput.
LEMMA FreeCode ==
  ASSUME NEW x \in Ptrs, NEW t \in Seq(Steps), NEW u, u = On("iput", x, t), Code(u),
         NEW v, v = On("itrunc", x, On("ifree", x, On("iputend", x, t)))
  PROVE  /\ v \in Seq(Steps) /\ Code(v) /\ Pointers(v) = Pointers(u) /\ Locked(v) = Locked(u) \cup {x}
         /\ (Logged(v) <=> Logged(u)) /\ (Leaves(v) <=> Leaves(u)) /\ Like(u, v) /\ (OnFile(v) <=> OnFile(u))
         /\ \A o : Top(v, o) <=> o = "itrunc"
<1>. DEFINE a == On("iputend", x, t)
            b == On("ifree", x, a)
            c == On("itrunc", x, b)
<1>1. /\ a \in Seq(Steps) /\ Code(a) /\ Pointers(a) = Pointers(u) /\ Locked(a) = Locked(u) \cup {x}
      /\ (Logged(a) <=> Logged(u)) /\ (Leaves(a) <=> Leaves(u)) /\ (OnFile(a) <=> OnFile(u))
      /\ a # <<>> /\ Head(a) = <<"iputend", x>> /\ (\A o : Top(a, o) <=> o = "iputend") /\ Like(u, t) /\ Like(a, t)
  <2>1. CASE x \in CallPtrs
    <3>1. Code(t) /\ ~Top(t, "fileclose") /\ ~Top(t, "setcwd") /\ x \notin Locked(t) /\ x \notin Pointers(t) /\ Like(u, t)
      BY <2>1, Op_iput
    <3>2. Pointers(u) = Pointers(t) \cup {x} /\ Locked(u) = Locked(t) /\ (Logged(u) <=> Logged(t)) /\ (Leaves(u) <=> Leaves(t)) /\ (OnFile(u) <=> OnFile(t))
      BY <2>1, Op_iput
    <3>3. Pointers(a) = Pointers(t) \cup {x} /\ Locked(a) = Locked(t) \cup {x} /\ (Logged(a) <=> Logged(t)) /\ (Leaves(a) <=> Leaves(t)) /\ (OnFile(a) <=> OnFile(t))
      BY <2>1, Op_iputend
    <3>4. a \in Seq(Steps) /\ Code(a) /\ a # <<>> /\ Head(a) = <<"iputend", x>> /\ (\A o : Top(a, o) <=> o = "iputend") /\ Like(a, t)
      BY <2>1, <3>1, Op_iputend
    <3>. HIDE DEF a
    <3>. QED BY <3>1, <3>2, <3>3, <3>4
  <2>2. CASE x = "cwd"
    <3>1. Code(t) /\ ~Top(t, "fileclose") /\ "cwd" \notin Locked(t) /\ t \in {<<>>, EndCwd} /\ Like(u, t)
      BY <2>2, Op_iputcwd
    <3>2. Pointers(u) = Pointers(t) /\ Locked(u) = Locked(t) /\ (Logged(u) <=> Logged(t)) /\ Leaves(u) /\ (OnFile(u) <=> OnFile(t))
      BY <2>2, Op_iputcwd
    <3>3. Pointers(a) = Pointers(t) /\ Locked(a) = Locked(t) \cup {"cwd"} /\ (Logged(a) <=> Logged(t)) /\ Leaves(a) /\ (OnFile(a) <=> OnFile(t))
      BY <2>2, Op_iputendcwd
    <3>4. a \in Seq(Steps) /\ Code(a) /\ a # <<>> /\ Head(a) = <<"iputend", x>> /\ (\A o : Top(a, o) <=> o = "iputend") /\ Like(a, t)
      BY <2>2, <3>1, Op_iputendcwd
    <3>. HIDE DEF a
    <3>. QED BY <2>2, <3>1, <3>2, <3>3, <3>4
  <2>. QED BY <2>1, <2>2 DEF Ptrs, CallPtrs
<1>. HIDE DEF a
<1>2. /\ b \in Seq(Steps) /\ Pointers(b) = Pointers(a) /\ Locked(b) = Locked(a)
      /\ (Logged(b) <=> Logged(a)) /\ (Leaves(b) <=> Leaves(a)) /\ (OnFile(b) <=> OnFile(a)) /\ Like(b, a)
      /\ b # <<>> /\ Head(b) = <<"ifree", x>> /\ (\A o : Top(b, o) <=> o = "ifree")
  BY <1>1, Op_ifree
<1>3. Code(b)
  <2>1. Code(a) /\ ~Top(a, "fileclose") /\ ~Top(a, "setcwd") /\ x \in Locked(a) /\ a # <<>> /\ Head(a) = <<"iputend", x>>
    BY <1>1
  <2>. QED BY <1>1, <2>1, Op_ifree
<1>. HIDE DEF b
<1>4. /\ c \in Seq(Steps) /\ Pointers(c) = Pointers(b) /\ Locked(c) = Locked(b)
      /\ (Logged(c) <=> Logged(b)) /\ (Leaves(c) <=> Leaves(b)) /\ (OnFile(c) <=> OnFile(b)) /\ Like(c, b)
      /\ (\A o : Top(c, o) <=> o = "itrunc")
  BY <1>2, Op_itrunc
<1>5. Code(c)
  <2>1. Code(b) /\ ~Top(b, "fileclose") /\ ~Top(b, "setcwd") /\ x \in Locked(b) /\ b # <<>> /\ Head(b) = <<"ifree", x>>
    BY <1>1, <1>2, <1>3
  <2>. QED BY <1>2, <2>1, Op_itrunc
<1>6. v = c
  BY DEF a, b
<1>. HIDE DEF c
<1>7. Like(u, c)
  BY <1>1, <1>2, <1>4 DEF Like
<1>. QED BY <1>1, <1>2, <1>4, <1>5, <1>6, <1>7

LEMMA StepIlock ==
  ASSUME IInv, NEW p \in Procs, Ilock(p)
  PROVE  IInv'
<1>. DEFINE t == Rest(p)
            r == reg[p]
            x == Reg(p)
            u == On("ilock", x, t)
<1>1. t \in Seq(Steps) /\ x \in CallPtrs \cup {"fip"} /\ todo[p] = u /\ u # <<>> /\ (\A o : Top(u, o) <=> o = "ilock") /\ panic = "no"
  <2>1. /\ todo[p] # <<>> /\ todo[p] = On("ilock", Reg(p), Rest(p)) /\ Rest(p) \in Seq(Steps) /\ panic = "no"
        /\ <<"ilock", Reg(p)>> \in Steps /\ \A o : Top(todo[p], o) <=> o = "ilock"
    BY Now DEF Ilock
  <2>2. "ilock" \in {"ilock", "iunlock"} => Reg(p) \in CallPtrs \cup {"fip"}
    BY <2>1, RegIn, Zenon
  <2>. QED BY <2>1, <2>2
<1>2. /\ Tables /\ r \in Regs /\ Local(u, r, ofile[p]) /\ Opened(u, r, ofile[p], file) /\ Code(u)
      /\ Locks(p, u, r, icache) /\ (trans = p <=> Logged(u)) /\ trans \in Procs \cup {None}
      /\ Unique(icache) /\ RefsAre(icache, reg, file) /\ FilesAre(file, ofile) /\ reg \in [Procs -> Regs]
  BY <1>1, Ours, Mine DEF Local
<1>. DEFINE s == r[x]
            e == icache[s]
            d == IF e.valid THEN Copy(e) ELSE din[e.inum]
<1>3. /\ Pointers(u) = Pointers(t) /\ Locked(u) = Locked(t) \ {x} /\ (Leaves(u) <=> Leaves(t)) /\ Like(u, t)
      /\ Code(t) /\ ~Top(t, "setcwd") /\ ~Top(t, "fileclose") /\ (Logged(u) <=> Logged(t)) /\ x \in Locked(t)
      /\ x \in Pointers(t) \cup {"fip"} /\ (OnFile(u) <=> x = "fip" \/ OnFile(t))
  <2>. HIDE DEF t, r, x
  <2>. QED BY <1>1, <1>2, Op_ilock
<1>4. s \in Slots /\ (x \in Ptrs \/ (x = "fip" /\ OnFile(todo[p])))
  <2>. HIDE DEF t, r, x
  <2>1. CASE x = "fip"
    <3>1. r.fip \in Slots
      BY <1>2, <1>3, <2>1 DEF Opened
    <3>. QED BY <1>1, <1>3, <2>1, <3>1
  <2>2. CASE x \in Pointers(t)
    <3>1. x \in CallPtrs
      BY <2>2, Kinds
    <3>2. r[x] # None
      BY <1>2, <1>3, <2>2, <3>1 DEF Local, Holding
    <3>3. x \in Ptrs
      BY <3>1 DEF CallPtrs, Ptrs
    <3>. QED BY <1>2, <3>2, <3>3, PtrIn
  <2>. QED BY <1>3, <2>1, <2>2
<1>5. e.ref \in Nat /\ e.ref >= 1
  BY <1>4, PtrRef
<1>6. CASE e.busy = None /\ d.type = "none" /\ Panic("ilock: no type")
  BY <1>6, PanicStep DEF Messages
<1>7. CASE /\ e.busy = None /\ d.type # "none"
           /\ icache' = [icache EXCEPT ![s] =
                [@ EXCEPT !.busy = p, !.valid = TRUE, !.type = d.type,
                          !.nlink = d.nlink, !.addrs = d.addrs]]
           /\ Proceed(p)
           /\ UNCHANGED <<disk, trans, file, ofile, panic>>
  <2>1. Do(p, r, t) /\ UNCHANGED <<disk, trans, file, ofile, panic>>
    BY <1>7 DEF Proceed, Goto
  <2>2. todo[p] = u /\ ~Top(todo[p], "iputend")
    BY <1>1
  <2>3. d = din[e.inum] /\ d \in Dinodes /\ e.inum \in Inums
    <3>1. e.inum \in Inums /\ din[e.inum] \in Dinodes
      BY <1>2, <1>4, <1>5 DEF Unique, Tables
    <3>2. e.valid => Copy(e) = din[e.inum]
      BY <1>4, <1>5, <1>7, <2>2, Stable
    <3>. QED BY <3>1, <3>2
  <2>. HIDE DEF t, r, x, u, d
  <2>4. /\ icache' \in [Slots -> Inodes] /\ icache'[s].busy = p /\ icache'[s].inum = e.inum
        /\ icache'[s].ref = e.ref /\ icache'[s].valid = TRUE /\ Only(s, icache, icache')
        /\ icache'[s].type = d.type /\ icache'[s].nlink = d.nlink /\ icache'[s].addrs = d.addrs
    <3>. DEFINE f == [e EXCEPT !.busy = p, !.valid = TRUE, !.type = d.type, !.nlink = d.nlink, !.addrs = d.addrs]
    <3>1. icache \in [Slots -> Inodes] /\ e \in Inodes /\ icache' = [icache EXCEPT ![s] = f]
      BY <1>2, <1>4, <1>7 DEF Tables
    <3>. HIDE DEF e
    <3>2. f \in Inodes /\ f.busy = p /\ f.inum = e.inum /\ f.ref = e.ref /\ f.valid = TRUE
          /\ f.type = d.type /\ f.nlink = d.nlink /\ f.addrs = d.addrs
      BY <2>3, <3>1 DEF Inodes, Dinodes
    <3>. HIDE DEF f, s
    <3>3. SetAt(icache, s, f, icache')
      BY <1>4, <3>1, <3>2, SetEntry, Zenon
    <3>. QED BY <3>2, <3>3 DEF SetAt
  <2>5. Copy(icache'[s]) = d
    BY <2>3, <2>4 DEF Copy, Dinodes
  <2>6. Tables' /\ SameFiles(file, file')
    BY <1>2, <2>1, <2>4 DEF Tables, SameFiles, disk
  <2>7. Locks(p, t, r, icache')
    <3>1. Locked(t) = Locked(u) \cup {x} /\ p # None /\ r[x] = s /\ icache[s].busy = None
      BY <1>3, <1>7, NotNone
    <3>2. \A v \in Slots : v # s => icache'[v].busy = icache[v].busy
      BY <2>4 DEF Only
    <3>. QED BY <1>2, <1>4, <2>4, <3>1, <3>2, LocksAdd
  <2>8. Local(t, r, ofile[p])
    BY <1>1, <1>2, <1>3, SameLocal
  <2>9. RefsAre(icache', [reg EXCEPT ![p] = r], file')
    <3>1. RefsKept(icache, icache')
      BY <2>4 DEF RefsKept, Only
    <3>. QED BY <1>2, <2>6, <3>1, SlotSame DEF r
  <2>10. /\ trans' = trans /\ ofile' = ofile /\ panic' = panic
         /\ icache[s].busy \in {p, None} /\ icache'[s].busy \in {p, None} /\ icache[s].ref > 0 /\ icache'[s].inum = icache[s].inum
         /\ (\A i \in Inums : i # icache[s].inum => din'[i] = din[i])
         /\ (icache'[s].ref > 0 /\ icache'[s].valid => Copy(icache'[s]) = din'[icache[s].inum] /\ icache'[s].type # "none")
    BY <1>5, <1>7, <2>1, <2>3, <2>4, <2>5 DEF disk
  <2>11. (Logged(t) <=> Logged(todo[p])) /\ (OnFile(t) => OnFile(todo[p])) /\ r.fp = reg[p].fp /\ r.fip = reg[p].fip
    BY <1>1, <1>3 DEF r
  <2>. QED BY <1>1, <1>2, <1>4, <2>1, <2>2, <2>4, <2>6, <2>7, <2>8, <2>9, <2>10, <2>11, SlotStep
<1>8. \/ e.ref < 1 /\ Panic("ilock")
      \/ e.ref >= 1 /\ e.busy = None /\ d.type = "none" /\ Panic("ilock: no type")
      \/ /\ e.ref >= 1 /\ e.busy = None /\ d.type # "none"
         /\ icache' = [icache EXCEPT ![s] =
              [@ EXCEPT !.busy = p, !.valid = TRUE, !.type = d.type,
                        !.nlink = d.nlink, !.addrs = d.addrs]]
         /\ Proceed(p)
         /\ UNCHANGED <<disk, trans, file, ofile, panic>>
  BY Zenon DEF Ilock
<1>9. ~(e.ref < 1)
  BY <1>5
<1>. HIDE DEF e, d, s
<1>. QED BY <1>6, <1>7, <1>8, <1>9

\* The files and the log stay as they are.
LEMMA CacheStep ==
  ASSUME IInv, NEW p \in Procs, NEW r \in Regs, NEW t \in Seq(Steps), Do(p, r, t), Tables',
         trans' = trans, ofile' = ofile, SameFiles(file, file'), panic' = panic,
         Unique(icache'), Copied(icache', din'), BusyBy(p, icache, icache'),
         Freeing(icache', [todo EXCEPT ![p] = t], [reg EXCEPT ![p] = r]),
         Logged(t) <=> Logged(todo[p]), OnFile(t) => OnFile(todo[p]), r.fp = reg[p].fp, r.fip = reg[p].fip,
         Local(t, r, ofile[p]), Locks(p, t, r, icache'), RefsAre(icache', [reg EXCEPT ![p] = r], file')
  PROVE  IInv'
<1>1. /\ FilesAre(file, ofile) /\ panic \notin Messages /\ trans \in Procs \cup {None}
      /\ Opened(todo[p], reg[p], ofile[p], file) /\ (trans = p <=> Logged(todo[p]))
  BY Ours, Mine
<1>3. LogBy(p, t, trans, trans') /\ trans' \in Procs \cup {None}
  BY <1>1 DEF LogBy
<1>4. Opened(t, r, ofile'[p], file') /\ FilesBy(p, file, file', ofile, ofile') /\ FilesAre(file', ofile')
  BY <1>1, OpenedKept, FilesKept
<1>. QED BY <1>1, <1>3, <1>4, Frame

\* The count of entry v changes, or a free entry is taken for an inode that
\* has none.
Touch(ic, ic2, v) ==
  /\ Only(v, ic, ic2) /\ ic2[v].busy = ic[v].busy
  /\ \/ /\ ic[v].ref > 0 /\ ic2[v].inum = ic[v].inum /\ ic2[v].valid = ic[v].valid
        /\ ic2[v].type = ic[v].type /\ Copy(ic2[v]) = Copy(ic[v])
     \/ /\ ~ic2[v].valid /\ ic2[v].inum \in Inums
        /\ \A s \in Slots : s # v /\ ic[s].ref > 0 => ic[s].inum # ic2[v].inum
LEMMA Touched ==
  ASSUME IInv, NEW p \in Procs, NEW v \in Slots, NEW r, NEW t, ~Top(todo[p], "iputend"), Touch(icache, icache', v),
         \A s \in Slots : icache[s].ref > 0 /\ icache[s].valid =>
           din'[icache[s].inum] = din[icache[s].inum] \/ (icache[s].type = "none" /\ icache[s].busy # None)
  PROVE  /\ Unique(icache') /\ Copied(icache', din') /\ BusyBy(p, icache, icache')
         /\ Freeing(icache', [todo EXCEPT ![p] = t], [reg EXCEPT ![p] = r])
<1>1. Unique(icache) /\ Copied(icache, din)
  BY Ours
<1>2. Unique(icache')
  <2>1. CASE icache[v].ref > 0 /\ icache'[v].inum = icache[v].inum
    BY <1>1, <2>1 DEF Unique, Only, Touch
  <2>2. CASE icache'[v].inum \in Inums /\ \A s \in Slots : s # v /\ icache[s].ref > 0 => icache[s].inum # icache'[v].inum
    BY <1>1, <2>2 DEF Unique, Only, Touch
  <2>. QED BY <2>1, <2>2 DEF Touch
<1>3. \A s \in Slots : icache'[s].ref > 0 /\ icache'[s].valid =>
        /\ icache[s].ref > 0 /\ icache[s].valid /\ icache'[s].inum = icache[s].inum
        /\ icache'[s].type = icache[s].type /\ Copy(icache'[s]) = Copy(icache[s]) /\ icache'[s].busy = icache[s].busy
  BY DEF Touch, Only
<1>4. Copied(icache', din')
  BY <1>1, <1>3 DEF Copied
<1>5. Freeing(icache', [todo EXCEPT ![p] = t], [reg EXCEPT ![p] = r])
  BY <1>3, FreeingKept
<1>. QED BY <1>2, <1>4, <1>5 DEF BusyBy, Touch, Only

\* One reference more to an entry, by idup.
LEMMA IdupIs ==
  ASSUME IInv, NEW v \in Slots, icache[v].ref > 0, NEW ic2, ic2 = Idup(v)
  PROVE  Touch(icache, ic2, v) /\ ic2 \in [Slots -> Inodes] /\ RefsBut(icache, ic2, v, 1)
<1>. DEFINE e == icache[v]
            n == e.ref + 1
            f == [e EXCEPT !.ref = n]
<1>1. icache \in [Slots -> Inodes] /\ ic2 = [icache EXCEPT ![v] = f]
  BY Ours DEF Tables, Idup
<1>2. e \in Inodes /\ n \in Nat
  BY <1>1 DEF Inodes
<1>. HIDE DEF e, n
<1>3. /\ f \in Inodes /\ f.ref = n /\ f.inum = e.inum /\ f.busy = e.busy /\ f.valid = e.valid
      /\ f.type = e.type /\ Copy(f) = Copy(e)
  BY <1>2, SetFields
<1>. HIDE DEF f
<1>4. SetAt(icache, v, f, ic2)
  BY <1>1, <1>3, SetEntry, Zenon
<1>5. Touch(icache, ic2, v)
  BY <1>3, <1>4 DEF Touch, SetAt, e
<1>. QED BY <1>3, <1>4, <1>5 DEF RefsBut, Only, SetAt, n, e
LEMMA IgetIs ==
  ASSUME IInv, NEW i \in Inums, ~IgetPanics(i), NEW ic2, ic2 = Iget(i), NEW v, v = IgetSlot(i)
  PROVE  v \in Slots /\ Touch(icache, ic2, v) /\ ic2 \in [Slots -> Inodes] /\ RefsBut(icache, ic2, v, 1)
<1>1. icache \in [Slots -> Inodes] /\ \A s \in Slots : icache[s] \in Inodes /\ icache[s].ref \in Nat
  BY Ours DEF Tables, Inodes
<1>2. CASE Cached(i) # {}
  <2>1. v \in Cached(i)
    <3>1. Cached(i) \in SUBSET Nat
      BY NotNone DEF Cached
    <3>2. v = Min(Cached(i))
      BY <1>2 DEF IgetSlot
    <3>. QED BY <1>2, <3>1, <3>2, MinIn
  <2>2. v \in Slots /\ icache[v].ref > 0
    BY <2>1 DEF Cached
  <2>3. ic2 = Idup(v)
    BY <2>2 DEF Iget, Idup
  <2>. QED BY <2>2, <2>3, IdupIs
<1>3. CASE Cached(i) = {}
  <2>1. v \in Empty
    <3>1. Empty \in SUBSET Nat /\ Empty # {}
      BY <1>3, NotNone DEF Empty, IgetPanics
    <3>2. v = Min(Empty)
      BY <1>3 DEF IgetSlot
    <3>. QED BY <3>1, <3>2, MinIn
  <2>2. v \in Slots /\ icache[v].ref = 0
    BY <2>1 DEF Empty
  <2>. DEFINE f == [Unused EXCEPT !.inum = i, !.ref = 1]
  <2>3. ic2 = [icache EXCEPT ![v] = f]
    BY <2>2 DEF Iget
  <2>4. f \in Inodes /\ f.ref = 1 /\ f.inum = i /\ f.valid = FALSE /\ f.busy = None
    <3>1. i \in 0 .. NINODES - 1 /\ <<>> \in Seq(Nat) /\ 0 \in 0 .. NINODES - 1
      BY FsAssumption DEF Inums
    <3>. DEFINE e == Unused
    <3>2. e \in Inodes /\ e.valid = FALSE /\ e.busy = None
      BY <3>1 DEF Inodes, Unused
    <3>. HIDE DEF e
    <3>3. f = [e EXCEPT !.inum = i, !.ref = 1]
      BY DEF e
    <3>4. [e EXCEPT !.inum = i, !.ref = 1] \in Inodes
      BY <3>1, <3>2 DEF Inodes
    <3>5. /\ [e EXCEPT !.inum = i, !.ref = 1].ref = 1 /\ [e EXCEPT !.inum = i, !.ref = 1].inum = i
          /\ [e EXCEPT !.inum = i, !.ref = 1].valid = e.valid /\ [e EXCEPT !.inum = i, !.ref = 1].busy = e.busy
      BY <3>2 DEF Inodes
    <3>. QED BY <3>2, <3>3, <3>4, <3>5
  <2>. HIDE DEF f
  <2>5. ic2 \in [Slots -> Inodes] /\ ic2[v] = f /\ Only(v, icache, ic2)
    <3>1. SetAt(icache, v, f, [icache EXCEPT ![v] = f])
      BY <1>1, <2>2, <2>4, SetEntry, Zenon
    <3>. QED BY <2>3, <3>1 DEF SetAt
  <2>6. icache[v].busy = None
    BY <2>2, LockRef
  <2>7. \A s \in Slots : s # v /\ icache[s].ref > 0 => icache[s].inum # i
    BY <1>3 DEF Cached
  <2>8. Touch(icache, ic2, v)
    BY <2>4, <2>5, <2>6, <2>7 DEF Touch
  <2>. QED BY <2>2, <2>4, <2>5, <2>8 DEF RefsBut, Only
<1>. QED BY <1>2, <1>3

\* What iput leaves to do.
LEMMA IputCode ==
  ASSUME NEW x \in Ptrs, NEW t \in Seq(Steps), NEW u, u = On("iput", x, t), Code(u)
  PROVE  /\ Code(t) /\ Like(u, t) /\ ~Top(t, "fileclose") /\ Locked(u) = Locked(t) /\ x \notin Locked(t)
         /\ (Logged(u) <=> Logged(t)) /\ (OnFile(u) <=> OnFile(t))
         /\ (x # "cwd" => /\ Pointers(u) = Pointers(t) \cup {x} /\ x \notin Pointers(t) /\ (Leaves(u) <=> Leaves(t))
                          /\ ~Top(t, "setcwd"))
         /\ (x = "cwd" => Pointers(u) = Pointers(t) /\ Leaves(u) /\ t \in {<<>>, EndCwd})
<1>1. CASE x \in CallPtrs
  BY <1>1, Op_iput DEF CallPtrs
<1>2. CASE x = "cwd"
  BY <1>2, Op_iputcwd
<1>. QED BY <1>1, <1>2 DEF Ptrs, CallPtrs
LEMMA IputEndCode ==
  ASSUME NEW x \in Ptrs, NEW t \in Seq(Steps), NEW u, u = On("iputend", x, t), Code(u)
  PROVE  /\ Code(t) /\ Like(u, t) /\ ~Top(t, "fileclose") /\ Locked(u) = Locked(t) \cup {x} /\ x \notin Locked(t)
         /\ (Logged(u) <=> Logged(t)) /\ (OnFile(u) <=> OnFile(t))
         /\ (x # "cwd" => /\ Pointers(u) = Pointers(t) \cup {x} /\ x \notin Pointers(t) /\ (Leaves(u) <=> Leaves(t))
                          /\ ~Top(t, "setcwd"))
         /\ (x = "cwd" => Pointers(u) = Pointers(t) /\ Leaves(u) /\ t \in {<<>>, EndCwd})
<1>1. CASE x \in CallPtrs
  BY <1>1, Op_iputend DEF CallPtrs
<1>2. CASE x = "cwd"
  BY <1>2, Op_iputendcwd
<1>. QED BY <1>1, <1>2 DEF Ptrs, CallPtrs

\* A pointer that the steps need is one.
LEMMA PtrSlot ==
  ASSUME IInv, NEW p \in Procs, NEW x \in Pointers(todo[p])
  PROVE  x \in CallPtrs /\ x \in Ptrs /\ reg[p][x] \in Slots
<1>1. x \in CallPtrs /\ x \in Ptrs
  <2>1. x \in CallPtrs
    BY Kinds
  <2>. QED BY <2>1 DEF CallPtrs, Ptrs
<1>2. reg[p][x] # None
  BY <1>1, Mine DEF Holding
<1>3. reg[p] \in Regs
  BY Mine
<1>. QED BY <1>1, <1>2, <1>3, PtrIn

\* An entry with one reference, of register x of p, is locked by nobody, or by
\* p through x.
LEMMA OneHolder ==
  ASSUME IInv, NEW p \in Procs, NEW x \in Ptrs, NEW s \in Slots, reg[p][x] = s, icache[s].ref = 1, x \notin Locked(todo[p])
  PROVE  icache[s].busy = None
<1>. SUFFICES ASSUME icache[s].busy # None PROVE FALSE
  OBVIOUS
<1>1. icache[s].busy \in Procs
  BY Ours DEF Tables, Inodes
<1>2. PICK q \in Procs : icache[s].busy = q
  BY <1>1
<1>3. PICK y \in Locked(todo[q]) : reg[q][y] = s
  BY <1>2, Mine DEF Locks
<1>4. y \in Ptrs \/ y = "fip"
  <2>1. y \in LockRegs
    BY Kinds
  <2>. QED BY <2>1 DEF LockRegs, CallPtrs, Ptrs
<1>5. RefsAre(icache, reg, file) /\ FilesAre(file, ofile)
  BY Ours
<1>6. CASE y \in Ptrs
  <2>1. q # p \/ y # x
    OBVIOUS
  <2>2. icache[s].ref >= 2
    BY <1>3, <1>5, <1>6, <2>1, Counted11
  <2>. QED BY <2>2
<1>7. CASE y = "fip"
  <2>1. OnFile(todo[q])
    BY <1>3, <1>7, Mine, LockedFip
  <2>2. reg[q].fp \in 1 .. NFILE /\ reg[q].fip = s /\ file[reg[q].fp].ip = reg[q].fip
        /\ \E fd \in 1 .. NOFILE : ofile[q][fd] = reg[q].fp
    BY <1>3, <1>7, <2>1, Mine DEF Opened
  <2>3. PICK fd \in 1 .. NOFILE : ofile[q][fd] = reg[q].fp
    BY <2>2
  <2>4. file[reg[q].fp].ref >= 1
    BY <1>5, <2>2, <2>3, Counted3
  <2>5. file \in [1 .. NFILE -> Files]
    BY Ours DEF Tables
  <2>6. file[reg[q].fp].ref > 0
    BY <2>2, <2>4, <2>5 DEF Files
  <2>7. icache[s].ref >= 2
    BY <1>5, <2>2, <2>6, Counted12
  <2>. QED BY <2>7
<1>. QED BY <1>4, <1>6, <1>7

LEMMA StepIput ==
  ASSUME IInv, NEW p \in Procs, Iput(p)
  PROVE  IInv'
<1>. DEFINE t == Rest(p)
            r == reg[p]
            x == Reg(p)
            u == On("iput", x, t)
<1>1. t \in Seq(Steps) /\ x \in Ptrs /\ todo[p] = u /\ u # <<>> /\ (\A o : Top(u, o) <=> o = "iput") /\ panic = "no"
  <2>1. /\ todo[p] # <<>> /\ todo[p] = On("iput", Reg(p), Rest(p)) /\ Rest(p) \in Seq(Steps) /\ panic = "no"
        /\ <<"iput", Reg(p)>> \in Steps /\ \A o : Top(todo[p], o) <=> o = "iput"
    <3>1. At(p, "iput")
      BY Zenon DEF Iput
    <3>. QED BY <3>1, Now
  <2>2. "iput" \in {"iput", "itrunc", "ifree", "iputend"} => Reg(p) \in Ptrs
    BY <2>1, RegIn, Zenon
  <2>. QED BY <2>1, <2>2
<1>2. /\ Tables /\ r \in Regs /\ Local(u, r, ofile[p]) /\ Opened(u, r, ofile[p], file) /\ Code(u)
      /\ Locks(p, u, r, icache) /\ (trans = p <=> Logged(u)) /\ trans \in Procs \cup {None}
      /\ Unique(icache) /\ RefsAre(icache, reg, file) /\ FilesAre(file, ofile) /\ reg \in [Procs -> Regs]
  BY <1>1, Ours, Mine DEF Local
<1>. DEFINE s == r[x]
            e == icache[s]
            v == On("itrunc", x, On("ifree", x, On("iputend", x, t)))
            h == [r EXCEPT ![x] = None]
<1>3. /\ Code(t) /\ Like(u, t) /\ ~Top(t, "fileclose") /\ Locked(u) = Locked(t) /\ x \notin Locked(t)
      /\ (Logged(u) <=> Logged(t)) /\ (OnFile(u) <=> OnFile(t))
      /\ (x # "cwd" => /\ Pointers(u) = Pointers(t) \cup {x} /\ x \notin Pointers(t) /\ (Leaves(u) <=> Leaves(t))
                       /\ ~Top(t, "setcwd"))
      /\ (x = "cwd" => Pointers(u) = Pointers(t) /\ Leaves(u) /\ t \in {<<>>, EndCwd})
  <2>. HIDE DEF t, r, x
  <2>. QED BY <1>1, <1>2, IputCode
<1>4. s \in Slots
  <2>1. CASE x = "cwd"
    BY <1>1, <2>1, HasCwd
  <2>2. CASE x # "cwd"
    BY <1>1, <1>3, <2>2, PtrSlot
  <2>. QED BY <2>1, <2>2
<1>5. e.ref \in Nat /\ e.ref >= 1 /\ e \in Inodes /\ icache \in [Slots -> Inodes]
  BY <1>1, <1>2, <1>4, PtrRef DEF Tables
<1>6. ~IputFrees(e) \/ e.busy = None
  <2>1. reg[p][x] = s /\ x \notin Locked(todo[p])
    BY <1>1, <1>3
  <2>2. e.ref = 1 => e.busy = None
    BY <1>1, <1>4, <2>1, OneHolder
  <2>. QED BY <2>2 DEF IputFrees
<1>7. CASE /\ e.busy = None
           /\ icache' = [icache EXCEPT ![s].busy = p]
           /\ Goto(p, <<<<"itrunc", x>>, <<"ifree", x>>, <<"iputend", x>>>> \o t)
           /\ UNCHANGED <<disk, trans, file, ofile, panic>>
  <2>1. Do(p, r, v) /\ UNCHANGED <<disk, trans, file, ofile, panic>>
    <3>1. Cat(<<<<"itrunc", x>>, <<"ifree", x>>, <<"iputend", x>>>>, t) = v
      BY <1>1, Piece22
    <3>. HIDE DEF v
    <3>. QED BY <1>7, <3>1 DEF Goto, Cat
  <2>2. todo[p] = u /\ ~Top(todo[p], "iputend") /\ ~Top(u, "setcwd")
    BY <1>1
  <2>. HIDE DEF t, r, x, u, v
  <2>3. /\ v \in Seq(Steps) /\ Code(v) /\ Pointers(v) = Pointers(u) /\ Locked(v) = Locked(u) \cup {x}
        /\ (Logged(v) <=> Logged(u)) /\ (Leaves(v) <=> Leaves(u)) /\ Like(u, v) /\ (OnFile(v) <=> OnFile(u))
        /\ ~Top(v, "setcwd") /\ ~Top(v, "fileclose")
    BY <1>1, <1>2, FreeCode DEF u, v
  <2>4. /\ icache' \in [Slots -> Inodes] /\ icache'[s].busy = p /\ icache'[s].inum = e.inum
        /\ icache'[s].ref = e.ref /\ icache'[s].valid = e.valid /\ Only(s, icache, icache')
        /\ icache'[s].type = e.type /\ Copy(icache'[s]) = Copy(e)
    <3>. DEFINE f == [e EXCEPT !.busy = p]
    <3>1. icache' = [icache EXCEPT ![s] = f]
      BY <1>7
    <3>. HIDE DEF e
    <3>2. /\ f \in Inodes /\ f.ref = e.ref /\ f.inum = e.inum /\ f.busy = p /\ f.valid = e.valid
          /\ f.type = e.type /\ Copy(f) = Copy(e)
      BY <1>5, SetFields
    <3>. HIDE DEF f, s
    <3>3. SetAt(icache, s, f, icache')
      BY <1>4, <1>5, <3>1, <3>2, SetEntry, Zenon
    <3>. QED BY <3>2, <3>3 DEF SetAt
  <2>5. e.valid => e.type # "none" /\ Copy(e) = din[e.inum]
    BY <1>4, <1>5, <1>7, <2>2, Stable
  <2>6. Tables' /\ SameFiles(file, file')
    BY <1>2, <2>1, <2>4 DEF Tables, SameFiles, disk
  <2>7. Locks(p, v, r, icache')
    <3>1. p # None /\ r[x] = s /\ icache[s].busy = None
      BY <1>7, NotNone
    <3>2. \A z \in Slots : z # s => icache'[z].busy = icache[z].busy
      BY <2>4 DEF Only
    <3>. QED BY <1>2, <1>4, <2>3, <2>4, <3>1, <3>2, LocksAdd
  <2>8. Local(v, r, ofile[p])
    BY <1>1, <1>2, <2>2, <2>3, SameLocal
  <2>9. RefsAre(icache', [reg EXCEPT ![p] = r], file')
    <3>1. RefsKept(icache, icache')
      BY <2>4 DEF RefsKept, Only
    <3>. QED BY <1>2, <2>6, <3>1, SlotSame DEF r
  <2>10. /\ trans' = trans /\ ofile' = ofile /\ panic' = panic
         /\ icache[s].busy \in {p, None} /\ icache'[s].busy \in {p, None} /\ icache[s].ref > 0 /\ icache'[s].inum = icache[s].inum
         /\ (\A i \in Inums : i # icache[s].inum => din'[i] = din[i])
         /\ (icache'[s].ref > 0 /\ icache'[s].valid => Copy(icache'[s]) = din'[icache[s].inum] /\ icache'[s].type # "none")
    BY <1>5, <1>7, <2>1, <2>4, <2>5 DEF disk
  <2>11. (Logged(v) <=> Logged(todo[p])) /\ (OnFile(v) => OnFile(todo[p])) /\ r.fp = reg[p].fp /\ r.fip = reg[p].fip
    BY <1>1, <2>3 DEF r
  <2>. QED BY <1>2, <1>4, <2>1, <2>2, <2>3, <2>4, <2>6, <2>7, <2>8, <2>9, <2>10, <2>11, SlotStep
<1>8. CASE /\ icache' = [icache EXCEPT ![s].ref = @ - 1]
           /\ Do(p, h, t)
           /\ UNCHANGED <<disk, trans, file, ofile, panic>>
  <2>1. UNCHANGED <<disk, trans, file, ofile, panic>> /\ ~Top(todo[p], "iputend") /\ ~Top(u, "setcwd")
    BY <1>1, <1>8
  <2>. HIDE DEF t, r, x, u
  <2>2. h \in Regs /\ Local(t, h, ofile[p]) /\ h = [r EXCEPT ![x] = None]
    BY <1>1, <1>2, <1>3, <2>1, PutLocal
  <2>3. SetTo(r, x, None, h)
    BY <1>1, <1>2, SetIs, Zenon
  <2>. HIDE DEF h
  <2>4. /\ icache' \in [Slots -> Inodes] /\ Touch(icache, icache', s) /\ RefsBut(icache, icache', s, -1)
    <3>. DEFINE n == e.ref - 1
                f == [e EXCEPT !.ref = n]
    <3>1. icache' = [icache EXCEPT ![s] = f] /\ n \in Nat /\ n = e.ref + (-1)
      BY <1>5, <1>8
    <3>. HIDE DEF e, n
    <3>2. /\ f \in Inodes /\ f.ref = n /\ f.inum = e.inum /\ f.busy = e.busy /\ f.valid = e.valid
          /\ f.type = e.type /\ Copy(f) = Copy(e)
      BY <1>5, <3>1, SetFields
    <3>. HIDE DEF f
    <3>3. SetAt(icache, s, f, icache')
      <4>. HIDE DEF s
      <4>. QED BY <1>4, <1>5, <3>1, <3>2, SetEntry, Zenon
    <3>4. Touch(icache, icache', s)
      BY <1>5, <3>2, <3>3 DEF Touch, SetAt, e
    <3>. QED BY <3>1, <3>2, <3>3, <3>4 DEF RefsBut, Only, SetAt, e
  <2>5. /\ Unique(icache') /\ Copied(icache', din') /\ BusyBy(p, icache, icache')
        /\ Freeing(icache', [todo EXCEPT ![p] = t], [reg EXCEPT ![p] = h])
    <3>1. \A z \in Slots : icache[z].ref > 0 /\ icache[z].valid =>
           din'[icache[z].inum] = din[icache[z].inum] \/ (icache[z].type = "none" /\ icache[z].busy # None)
      BY <2>1 DEF disk
    <3>. QED BY <1>4, <2>1, <2>4, <3>1, Touched
  <2>6. Tables' /\ SameFiles(file, file')
    BY <1>2, <2>1, <2>4 DEF Tables, SameFiles, disk
  <2>7. Locks(p, t, h, icache')
    <3>1. \A y \in Locked(u) : h[y] = r[y]
      <4>1. \A y \in Locked(u) : y \in Ptrs \cup {"fip"} /\ y # x
        BY <1>3, Kinds DEF LockRegs, CallPtrs, Ptrs
      <4>. QED BY <2>3, <4>1 DEF SetTo
    <3>2. \A z \in Slots : icache'[z].busy = icache[z].busy
      BY <2>4 DEF Touch, Only
    <3>. QED BY <1>2, <1>3, <3>1, <3>2, LocksKept
  <2>8. RefsAre(icache', [reg EXCEPT ![p] = h], file')
    <3>1. reg[p][x] = s /\ h[x] = None /\ RegBut(reg[p], h, x, x) /\ file' = file
      BY <2>1, <2>3 DEF SetTo, RegBut, r
    <3>. QED BY <1>1, <1>2, <1>4, <2>2, <2>4, <3>1, RefsPut
  <2>9. (Logged(t) <=> Logged(todo[p])) /\ (OnFile(t) => OnFile(todo[p])) /\ h.fp = reg[p].fp /\ h.fip = reg[p].fip
    BY <1>1, <1>3, <2>3 DEF SetTo, r
  <2>10. trans' = trans /\ ofile' = ofile /\ panic' = panic
    BY <2>1
  <2>. QED BY <1>1, <1>8, <2>2, <2>5, <2>6, <2>7, <2>8, <2>9, <2>10, CacheStep
<1>9. \/ /\ IputFrees(e) /\ e.busy # None
         /\ Panic("iput busy")
      \/ /\ IputFrees(e) /\ e.busy = None
         /\ icache' = [icache EXCEPT ![s].busy = p]
         /\ Goto(p, <<<<"itrunc", x>>, <<"ifree", x>>, <<"iputend", x>>>> \o t)
         /\ UNCHANGED <<disk, trans, file, ofile, panic>>
      \/ /\ ~ IputFrees(e)
         /\ icache' = [icache EXCEPT ![s].ref = @ - 1]
         /\ Do(p, h, t)
         /\ UNCHANGED <<disk, trans, file, ofile, panic>>
  BY Zenon DEF Iput
<1>. HIDE DEF e, s, t, r, x, u, h, v
<1>. QED BY <1>6, <1>7, <1>8, <1>9, Zenon

\* The copy of the dinode in an entry changes.
Renewed(e, f, c, k) ==
  /\ f \in Inodes /\ f.ref = e.ref /\ f.inum = e.inum /\ f.busy = e.busy /\ f.valid = e.valid
  /\ f.type = k /\ Copy(f) = c /\ Copy(f) \in Dinodes
LEMMA SetAddrs ==
  ASSUME NEW e \in Inodes, NEW d \in Seq(Nat)
  PROVE  Renewed(e, [e EXCEPT !.addrs = d], [Copy(e) EXCEPT !.addrs = d], e.type)
<1>. DEFINE f == [e EXCEPT !.addrs = d]
            c == Copy(e)
<1>1. f \in Inodes /\ f.addrs = d /\ f.ref = e.ref /\ f.inum = e.inum /\ f.busy = e.busy /\ f.valid = e.valid /\ f.type = e.type /\ f.nlink = e.nlink
  BY DEF Inodes
<1>2. c \in Dinodes /\ c.type = e.type /\ c.nlink = e.nlink /\ c.addrs = e.addrs
  BY DEF Copy, Dinodes, Inodes
<1>. HIDE DEF f, c
<1>3. Copy(f) = [type |-> c.type, nlink |-> c.nlink, addrs |-> d] /\ Copy(f) \in Dinodes
  BY <1>1, <1>2 DEF Copy, Inodes, Dinodes
<1>4. [c EXCEPT !.addrs = d] = [type |-> c.type, nlink |-> c.nlink, addrs |-> d]
  BY <1>2 DEF Dinodes
<1>5. Renewed(e, f, [c EXCEPT !.addrs = d], e.type)
  BY <1>1, <1>3, <1>4 DEF Renewed
<1>. QED BY <1>5 DEF f, c
LEMMA SetLink ==
  ASSUME NEW e \in Inodes, NEW n \in Int
  PROVE  Renewed(e, [e EXCEPT !.nlink = n], [Copy(e) EXCEPT !.nlink = n], e.type)
<1>. DEFINE f == [e EXCEPT !.nlink = n]
            c == Copy(e)
<1>1. f \in Inodes /\ f.nlink = n /\ f.ref = e.ref /\ f.inum = e.inum /\ f.busy = e.busy /\ f.valid = e.valid /\ f.type = e.type /\ f.addrs = e.addrs
  BY DEF Inodes
<1>2. c \in Dinodes /\ c.type = e.type /\ c.nlink = e.nlink /\ c.addrs = e.addrs
  BY DEF Copy, Dinodes, Inodes
<1>. HIDE DEF f, c
<1>3. Copy(f) = [type |-> c.type, nlink |-> n, addrs |-> c.addrs] /\ Copy(f) \in Dinodes
  BY <1>1, <1>2 DEF Copy, Inodes, Dinodes
<1>4. [c EXCEPT !.nlink = n] = [type |-> c.type, nlink |-> n, addrs |-> c.addrs]
  BY <1>2 DEF Dinodes
<1>5. Renewed(e, f, [c EXCEPT !.nlink = n], e.type)
  BY <1>1, <1>3, <1>4 DEF Renewed
<1>. QED BY <1>5 DEF f, c
LEMMA SetType ==
  ASSUME NEW e \in Inodes, NEW k \in Types \cup {"none"}
  PROVE  Renewed(e, [e EXCEPT !.type = k], [Copy(e) EXCEPT !.type = k], k)
<1>. DEFINE f == [e EXCEPT !.type = k]
            c == Copy(e)
<1>1. f \in Inodes /\ f.type = k /\ f.ref = e.ref /\ f.inum = e.inum /\ f.busy = e.busy /\ f.valid = e.valid /\ f.nlink = e.nlink /\ f.addrs = e.addrs
  BY DEF Inodes
<1>2. c \in Dinodes /\ c.type = e.type /\ c.nlink = e.nlink /\ c.addrs = e.addrs
  BY DEF Copy, Dinodes, Inodes
<1>. HIDE DEF f, c
<1>3. Copy(f) = [type |-> k, nlink |-> c.nlink, addrs |-> c.addrs] /\ Copy(f) \in Dinodes
  BY <1>1, <1>2 DEF Copy, Inodes, Dinodes
<1>4. [c EXCEPT !.type = k] = [type |-> k, nlink |-> c.nlink, addrs |-> c.addrs]
  BY <1>2 DEF Dinodes
<1>5. Renewed(e, f, [c EXCEPT !.type = k], k)
  BY <1>1, <1>3, <1>4 DEF Renewed
<1>. QED BY <1>5 DEF f, c

\* iupdate: the entry of register x, that p has locked, and its dinode change
\* together.
Updated(s, f) ==
  /\ icache' = [icache EXCEPT ![s] = f]
  /\ din' = [din EXCEPT ![icache[s].inum] = Copy(f)]
LEMMA LockedEntry ==
  ASSUME IInv, NEW p \in Procs, NEW x \in Locked(todo[p])
  PROVE  /\ reg[p][x] \in Slots /\ icache[reg[p][x]].busy = p /\ icache[reg[p][x]] \in Inodes
         /\ icache[reg[p][x]].ref \in Nat /\ icache[reg[p][x]].ref >= 1 /\ icache[reg[p][x]].inum \in Inums
<1>. DEFINE s == reg[p][x]
<1>1. s \in Slots /\ icache[s].busy = p
  BY Mine DEF Locks
<1>2. icache[s].ref \in Nat /\ icache[s].ref >= 1
  BY <1>1, NotNone, LockRef
<1>3. icache[s] \in Inodes /\ icache[s].inum \in Inums
  BY <1>1, <1>2, Ours DEF Tables, Unique
<1>. QED BY <1>1, <1>2, <1>3
LEMMA UpdateStep ==
  ASSUME IInv, NEW p \in Procs, NEW t \in Seq(Steps), NEW r \in Regs, Do(p, r, t), NEW x \in Locked(todo[p]),
         NEW s, s = reg[p][x], NEW f \in Inodes, Updated(s, f), Copy(f) \in Dinodes,
         f.ref = icache[s].ref, f.inum = icache[s].inum, f.busy = icache[s].busy, f.valid = icache[s].valid,
         f.type = icache[s].type, ents' \in [Inums -> [Names -> 0 .. NINODES - 1]], used' \subseteq Blocks,
         trans' = trans, ofile' = ofile, SameFiles(file, file'), file' \in [1 .. NFILE -> Files], panic' = panic,
         ~Top(todo[p], "iputend"), Local(t, r, ofile[p]), Locked(t) = Locked(todo[p]),
         Logged(t) <=> Logged(todo[p]), OnFile(t) => OnFile(todo[p]), r.fp = reg[p].fp, r.fip = reg[p].fip,
         \A y \in Ptrs : r[y] = reg[p][y]
  PROVE  IInv'
<1>1. s \in Slots /\ icache[s].busy = p /\ icache[s].ref \in Nat /\ icache[s].ref >= 1 /\ icache[s].inum \in Inums
  BY LockedEntry
<1>2. /\ Tables /\ Locks(p, todo[p], reg[p], icache) /\ reg[p] \in Regs
  BY Ours, Mine
<1>3. SetAt(icache, s, f, icache')
  <2>1. icache \in [Slots -> Inodes] /\ icache' = [icache EXCEPT ![s] = f]
    BY <1>2 DEF Tables, Updated
  <2>2. SetAt(icache, s, f, [icache EXCEPT ![s] = f])
    BY <1>1, <2>1, SetEntry, Zenon
  <2>. QED BY <2>1, <2>2
<1>4. /\ icache' \in [Slots -> Inodes] /\ icache'[s] = f /\ Only(s, icache, icache')
  BY <1>3 DEF SetAt
<1>5. din' \in [Inums -> Dinodes] /\ din'[icache[s].inum] = Copy(f) /\ \A i \in Inums : i # icache[s].inum => din'[i] = din[i]
  BY <1>1, <1>2 DEF Updated, Tables
<1>6. Tables'
  BY <1>2, <1>4, <1>5 DEF Tables
<1>7. icache[s].valid => icache[s].type # "none"
  BY <1>1, Stable
<1>8. /\ icache[s].busy \in {p, None} /\ icache'[s].busy \in {p, None} /\ icache[s].ref > 0 /\ icache'[s].inum = icache[s].inum
      /\ (icache'[s].ref > 0 /\ icache'[s].valid => Copy(icache'[s]) = din'[icache[s].inum] /\ icache'[s].type # "none")
  BY <1>1, <1>4, <1>5, <1>7
<1>9. RefsAre(icache', [reg EXCEPT ![p] = r], file')
  <2>1. RefsKept(icache, icache')
    BY <1>4 DEF RefsKept, Only
  <2>. QED BY <2>1, SlotSame
<1>10. Locks(p, t, r, icache')
  <2>1. \A z \in Slots : icache'[z].busy = icache[z].busy
    BY <1>4 DEF Only
  <2>2. \A y \in Locked(todo[p]) : r[y] = reg[p][y]
    <3>1. \A y \in Locked(todo[p]) : y \in Ptrs \/ y = "fip"
      BY Kinds DEF LockRegs, CallPtrs, Ptrs
    <3>. QED BY <3>1
  <2>. QED BY <1>2, <2>1, <2>2, LocksKept
<1>. QED BY <1>1, <1>4, <1>5, <1>6, <1>8, <1>9, <1>10, SlotStep

LEMMA StepItrunc ==
  ASSUME IInv, NEW p \in Procs, Itrunc(p)
  PROVE  IInv'
<1>. DEFINE t == Rest(p)
            r == reg[p]
            x == Reg(p)
            u == On("itrunc", x, t)
<1>1. t \in Seq(Steps) /\ x \in Ptrs /\ todo[p] = u /\ u # <<>> /\ (\A o : Top(u, o) <=> o = "itrunc") /\ panic = "no"
  <2>1. /\ todo[p] # <<>> /\ todo[p] = On("itrunc", Reg(p), Rest(p)) /\ Rest(p) \in Seq(Steps) /\ panic = "no"
        /\ <<"itrunc", Reg(p)>> \in Steps /\ \A o : Top(todo[p], o) <=> o = "itrunc"
    <3>1. At(p, "itrunc")
      BY Zenon DEF Itrunc
    <3>. QED BY <3>1, Now
  <2>2. "itrunc" \in {"iput", "itrunc", "ifree", "iputend"} => Reg(p) \in Ptrs
    BY <2>1, RegIn, Zenon
  <2>. QED BY <2>1, <2>2
<1>2. /\ Tables /\ r \in Regs /\ Local(u, r, ofile[p]) /\ Opened(u, r, ofile[p], file) /\ Code(u)
      /\ Locks(p, u, r, icache) /\ (trans = p <=> Logged(u)) /\ trans \in Procs \cup {None}
      /\ Unique(icache) /\ RefsAre(icache, reg, file) /\ FilesAre(file, ofile) /\ reg \in [Procs -> Regs]
  BY <1>1, Ours, Mine DEF Local
<1>. DEFINE s == r[x]
            e == icache[s]
            bs == {icache[s].addrs[k] : k \in DOMAIN icache[s].addrs}
            f == [e EXCEPT !.addrs = <<>>]
<1>3. /\ Pointers(u) = Pointers(t) /\ Locked(u) = Locked(t) /\ (Logged(u) <=> Logged(t)) /\ (Leaves(u) <=> Leaves(t))
      /\ Code(t) /\ ~Top(t, "fileclose") /\ ~Top(t, "setcwd") /\ x \in Locked(t) /\ (OnFile(u) <=> OnFile(t)) /\ Like(u, t)
  <2>. HIDE DEF t, r, x
  <2>. QED BY <1>1, <1>2, Op_itrunc
<1>4. x \in Locked(todo[p]) /\ s \in Slots /\ e \in Inodes /\ e.inum \in Inums
  BY <1>1, <1>3, LockedEntry
<1>5. CASE Panic("freeing free block")
  <2>1. "freeing free block" \notin Messages
    BY Zenon DEF Messages
  <2>. QED BY <1>5, <2>1, PanicStep, Zenon
<1>6. CASE /\ used' = used \ bs
           /\ icache' = [icache EXCEPT ![s].addrs = <<>>]
           /\ din' = [din EXCEPT ![icache[s].inum] = [Copy(icache[s]) EXCEPT !.addrs = <<>>]]
           /\ ents' = [ents EXCEPT ![icache[s].inum] = NoEnts]
           /\ Proceed(p)
           /\ UNCHANGED <<trans, file, ofile, panic>>
  <2>1. Do(p, r, t) /\ UNCHANGED <<trans, file, ofile, panic>>
    BY <1>6 DEF Proceed, Goto
  <2>2. ~Top(todo[p], "iputend") /\ todo[p] = u /\ ~Top(u, "setcwd") /\ u # <<>>
    BY <1>1
  <2>3. used' \subseteq Blocks /\ ents' \in [Inums -> [Names -> 0 .. NINODES - 1]]
    <3>1. NoEnts \in [Names -> 0 .. NINODES - 1]
      BY FsAssumption DEF NoEnts
    <3>2. used' \subseteq used /\ used \subseteq Blocks
      BY <1>2, <1>6 DEF Tables
    <3>3. ents' \in [Inums -> [Names -> 0 .. NINODES - 1]]
      BY <1>2, <1>4, <1>6, <3>1 DEF Tables
    <3>. QED BY <3>2, <3>3
  <2>4. icache' = [icache EXCEPT ![s] = f] /\ din' = [din EXCEPT ![icache[s].inum] = [Copy(e) EXCEPT !.addrs = <<>>]]
    BY <1>6
  <2>. HIDE DEF e
  <2>5. /\ f \in Inodes /\ f.ref = e.ref /\ f.inum = e.inum /\ f.busy = e.busy /\ f.valid = e.valid
        /\ f.type = e.type /\ Copy(f) = [Copy(e) EXCEPT !.addrs = <<>>] /\ Copy(f) \in Dinodes
    <3>1. <<>> \in Seq(Nat)
      OBVIOUS
    <3>2. Renewed(e, f, [Copy(e) EXCEPT !.addrs = <<>>], e.type)
      BY <1>4, <3>1, SetAddrs, Zenon
    <3>. QED BY <3>2 DEF Renewed
  <2>. HIDE DEF f
  <2>6. Updated(s, f)
    BY <2>4, <2>5 DEF Updated
  <2>7. SameFiles(file, file') /\ file' \in [1 .. NFILE -> Files] /\ trans' = trans /\ ofile' = ofile /\ panic' = panic
    BY <1>2, <2>1 DEF SameFiles, Tables
  <2>. HIDE DEF t, r, x, u, s
  <2>8. Local(t, r, ofile[p])
    BY <1>1, <1>2, <1>3, <2>2, SameLocal
  <2>9. /\ Locked(t) = Locked(todo[p]) /\ (Logged(t) <=> Logged(todo[p])) /\ (OnFile(t) => OnFile(todo[p]))
        /\ r.fp = reg[p].fp /\ r.fip = reg[p].fip /\ (\A y \in Ptrs : r[y] = reg[p][y]) /\ s = reg[p][x]
    BY <1>1, <1>3 DEF r, s
  <2>10. f.ref = icache[s].ref /\ f.inum = icache[s].inum /\ f.busy = icache[s].busy /\ f.valid = icache[s].valid /\ f.type = icache[s].type
    BY <2>5 DEF e
  <2>. QED BY <1>1, <1>2, <1>4, <2>1, <2>2, <2>3, <2>5, <2>6, <2>7, <2>8, <2>9, <2>10, UpdateStep
<1>7. \/ Panic("freeing free block")
      \/ /\ used' = used \ bs
         /\ icache' = [icache EXCEPT ![s].addrs = <<>>]
         /\ din' = [din EXCEPT ![icache[s].inum] = [Copy(icache[s]) EXCEPT !.addrs = <<>>]]
         /\ ents' = [ents EXCEPT ![icache[s].inum] = NoEnts]
         /\ Proceed(p)
         /\ UNCHANGED <<trans, file, ofile, panic>>
  BY Zenon DEF Itrunc
<1>. HIDE DEF e, s, t, r, x, u, f, bs
<1>. QED BY <1>5, <1>6, <1>7, Zenon

LEMMA StepStrayWrite ==
  ASSUME IInv, NEW p \in Procs, StrayWrite(p)
  PROVE  IInv'
<1>1. Panic("write outside of trans")
  BY Zenon DEF StrayWrite
<1>2. "write outside of trans" \notin Messages
  BY DEF Messages
<1>. QED BY <1>1, <1>2, PanicStep, Zenon

LEMMA StepIfree ==
  ASSUME IInv, NEW p \in Procs, Ifree(p)
  PROVE  IInv'
<1>. DEFINE t == Rest(p)
            r == reg[p]
            x == Reg(p)
            u == On("ifree", x, t)
<1>1. t \in Seq(Steps) /\ x \in Ptrs /\ todo[p] = u /\ u # <<>> /\ (\A o : Top(u, o) <=> o = "ifree") /\ panic = "no"
  <2>1. /\ todo[p] # <<>> /\ todo[p] = On("ifree", Reg(p), Rest(p)) /\ Rest(p) \in Seq(Steps) /\ panic = "no"
        /\ <<"ifree", Reg(p)>> \in Steps /\ \A o : Top(todo[p], o) <=> o = "ifree"
    <3>1. At(p, "ifree")
      BY Zenon DEF Ifree
    <3>. QED BY <3>1, Now
  <2>2. "ifree" \in {"iput", "itrunc", "ifree", "iputend"} => Reg(p) \in Ptrs
    BY <2>1, RegIn, Zenon
  <2>. QED BY <2>1, <2>2
<1>2. /\ Tables /\ r \in Regs /\ Local(u, r, ofile[p]) /\ Opened(u, r, ofile[p], file) /\ Code(u)
      /\ Locks(p, u, r, icache) /\ (trans = p <=> Logged(u)) /\ trans \in Procs \cup {None}
      /\ Unique(icache) /\ RefsAre(icache, reg, file) /\ FilesAre(file, ofile) /\ reg \in [Procs -> Regs]
  BY <1>1, Ours, Mine DEF Local
<1>. DEFINE s == r[x]
            e == icache[s]
            f == [e EXCEPT !.type = "none"]
<1>3. /\ Pointers(u) = Pointers(t) /\ Locked(u) = Locked(t) /\ (Logged(u) <=> Logged(t)) /\ (Leaves(u) <=> Leaves(t))
      /\ Code(t) /\ ~Top(t, "fileclose") /\ ~Top(t, "setcwd") /\ x \in Locked(t) /\ (OnFile(u) <=> OnFile(t)) /\ Like(u, t)
      /\ t # <<>> /\ Head(t) = <<"iputend", x>>
  <2>. HIDE DEF t, r, x
  <2>. QED BY <1>1, <1>2, Op_ifree
<1>4. x \in Locked(todo[p]) /\ s \in Slots /\ e \in Inodes /\ e.inum \in Inums /\ e.busy = p /\ e.ref \in Nat /\ e.ref >= 1
  BY <1>1, <1>3, LockedEntry
<1>5. Do(p, r, t) /\ UNCHANGED <<ents, used, trans, file, ofile, panic>>
  BY DEF Ifree, Proceed, Goto
<1>6. ~Top(todo[p], "iputend") /\ todo[p] = u /\ ~Top(u, "setcwd") /\ u # <<>>
  BY <1>1
<1>7. icache' = [icache EXCEPT ![s] = f] /\ din' = [din EXCEPT ![icache[s].inum] = [Copy(e) EXCEPT !.type = "none"]]
  BY DEF Ifree
<1>. HIDE DEF e
<1>8. /\ f \in Inodes /\ f.ref = e.ref /\ f.inum = e.inum /\ f.busy = e.busy /\ f.valid = e.valid
      /\ f.type = "none" /\ Copy(f) = [Copy(e) EXCEPT !.type = "none"] /\ Copy(f) \in Dinodes
  <2>1. Renewed(e, f, [Copy(e) EXCEPT !.type = "none"], "none")
    BY <1>4, SetType, Zenon
  <2>. QED BY <2>1 DEF Renewed
<1>. HIDE DEF f, t, r, x, u, s
<1>9. icache' \in [Slots -> Inodes] /\ icache'[s] = f /\ Only(s, icache, icache')
  <2>1. icache \in [Slots -> Inodes]
    BY <1>2 DEF Tables
  <2>2. SetAt(icache, s, f, [icache EXCEPT ![s] = f])
    BY <1>4, <1>8, <2>1, SetEntry, Zenon
  <2>. QED BY <1>7, <2>2 DEF SetAt
<1>10. din' \in [Inums -> Dinodes] /\ din'[e.inum] = Copy(f) /\ \A i \in Inums : i # e.inum => din'[i] = din[i]
  BY <1>2, <1>4, <1>7, <1>8 DEF Tables, e
<1>11. Tables' /\ SameFiles(file, file')
  BY <1>2, <1>5, <1>9, <1>10 DEF Tables, SameFiles
<1>12. Unique(icache') /\ BusyBy(p, icache, icache')
  BY <1>2, <1>4, <1>8, <1>9 DEF Unique, Only, BusyBy, e
<1>13. Copied(icache', din')
  <2>. SUFFICES ASSUME NEW v \in Slots, icache'[v].ref > 0 /\ icache'[v].valid
                PROVE  Copy(icache'[v]) = din'[icache'[v].inum] \/ (icache'[v].type = "none" /\ icache'[v].busy # None)
    BY DEF Copied
  <2>1. CASE v = s
    BY <1>8, <1>9, <1>10, <2>1
  <2>2. CASE v # s
    <3>1. icache'[v] = icache[v]
      BY <1>9, <2>2 DEF Only
    <3>2. icache[v].inum \in Inums /\ icache[v].inum # icache[s].inum
      BY <1>2, <1>4, <2>2, <3>1 DEF Unique, e
    <3>3. Copy(icache[v]) = din[icache[v].inum] \/ (icache[v].type = "none" /\ icache[v].busy # None)
      BY <3>1, Ours DEF Copied
    <3>. QED BY <1>10, <3>1, <3>2, <3>3 DEF e
  <2>. QED BY <2>1, <2>2
<1>14. Freeing(icache', [todo EXCEPT ![p] = t], [reg EXCEPT ![p] = r])
  <2>. DEFINE td == [todo EXCEPT ![p] = t]
              rg == [reg EXCEPT ![p] = r]
  <2>. SUFFICES ASSUME NEW v \in Slots, icache'[v].ref > 0 /\ icache'[v].valid /\ icache'[v].type = "none"
                PROVE  \E q \in Procs : /\ icache'[v].busy = q /\ Top(td[q], "iputend") /\ rg[q][Head(td[q])[2]] = v
    BY DEF Freeing
  <2>0. todo \in [Procs -> Seq(Steps)] /\ reg \in [Procs -> Regs] /\ td[p] = t /\ rg[p] = r
        /\ \A q \in Procs : q # p => td[q] = todo[q] /\ rg[q] = reg[q]
    BY Ours
  <2>. HIDE DEF td, rg
  <2>1. CASE v = s
    <3>1. icache'[v].busy = p /\ Top(td[p], "iputend") /\ rg[p][Head(td[p])[2]] = v
      BY <1>3, <1>4, <1>8, <1>9, <2>0, <2>1 DEF Top, s
    <3>. QED BY <3>1, Zenon
  <2>2. CASE v # s
    <3>1. icache'[v] = icache[v]
      BY <1>9, <2>2 DEF Only
    <3>2. PICK q \in Procs : icache[v].busy = q /\ Top(todo[q], "iputend") /\ reg[q][Head(todo[q])[2]] = v
      BY <3>1, Ours DEF Freeing
    <3>3. q # p
      BY <1>6, <3>2
    <3>4. icache'[v].busy = q /\ Top(td[q], "iputend") /\ rg[q][Head(td[q])[2]] = v
      BY <2>0, <3>1, <3>2, <3>3
    <3>. QED BY <3>4, Zenon
  <2>. QED BY <2>1, <2>2
<1>15. Local(t, r, ofile[p])
  BY <1>1, <1>2, <1>3, <1>6, SameLocal
<1>16. /\ (Logged(t) <=> Logged(todo[p])) /\ (OnFile(t) => OnFile(todo[p])) /\ r.fp = reg[p].fp /\ r.fip = reg[p].fip
       /\ trans' = trans /\ ofile' = ofile /\ panic' = panic
  BY <1>1, <1>3, <1>5 DEF r
<1>17. RefsAre(icache', [reg EXCEPT ![p] = r], file')
  <2>1. RefsKept(icache, icache')
    BY <1>8, <1>9 DEF RefsKept, Only, e
  <2>. QED BY <1>2, <1>11, <2>1, SlotSame DEF r
<1>18. Locks(p, t, r, icache')
  <2>1. \A z \in Slots : icache'[z].busy = icache[z].busy
    BY <1>8, <1>9 DEF Only, e
  <2>2. Locked(t) = Locked(u) /\ \A y \in Locked(u) : r[y] = r[y]
    BY <1>3
  <2>. QED BY <1>2, <2>1, <2>2, LocksKept
<1>. QED BY <1>1, <1>2, <1>5, <1>11, <1>12, <1>13, <1>14, <1>15, <1>16, <1>17, <1>18, CacheStep

LEMMA StepIputEnd ==
  ASSUME IInv, NEW p \in Procs, IputEnd(p)
  PROVE  IInv'
<1>. DEFINE t == Rest(p)
            r == reg[p]
            x == Reg(p)
            u == On("iputend", x, t)
<1>1. t \in Seq(Steps) /\ x \in Ptrs /\ todo[p] = u /\ u # <<>> /\ (\A o : Top(u, o) <=> o = "iputend") /\ panic = "no"
  <2>1. /\ todo[p] # <<>> /\ todo[p] = On("iputend", Reg(p), Rest(p)) /\ Rest(p) \in Seq(Steps) /\ panic = "no"
        /\ <<"iputend", Reg(p)>> \in Steps /\ \A o : Top(todo[p], o) <=> o = "iputend"
    <3>1. At(p, "iputend")
      BY Zenon DEF IputEnd
    <3>. QED BY <3>1, Now
  <2>2. "iputend" \in {"iput", "itrunc", "ifree", "iputend"} => Reg(p) \in Ptrs
    BY <2>1, RegIn, Zenon
  <2>. QED BY <2>1, <2>2
<1>2. /\ Tables /\ r \in Regs /\ Local(u, r, ofile[p]) /\ Opened(u, r, ofile[p], file) /\ Code(u)
      /\ Locks(p, u, r, icache) /\ (trans = p <=> Logged(u)) /\ trans \in Procs \cup {None}
      /\ Unique(icache) /\ RefsAre(icache, reg, file) /\ FilesAre(file, ofile) /\ reg \in [Procs -> Regs]
  BY <1>1, Ours, Mine DEF Local
<1>. DEFINE s == r[x]
            e == icache[s]
            n == e.ref - 1
            f == [e EXCEPT !.ref = n, !.busy = None, !.valid = FALSE]
            h == [r EXCEPT ![x] = None]
<1>3. /\ Code(t) /\ Like(u, t) /\ ~Top(t, "fileclose") /\ Locked(u) = Locked(t) \cup {x} /\ x \notin Locked(t)
      /\ (Logged(u) <=> Logged(t)) /\ (OnFile(u) <=> OnFile(t))
      /\ (x # "cwd" => /\ Pointers(u) = Pointers(t) \cup {x} /\ x \notin Pointers(t) /\ (Leaves(u) <=> Leaves(t))
                       /\ ~Top(t, "setcwd"))
      /\ (x = "cwd" => Pointers(u) = Pointers(t) /\ Leaves(u) /\ t \in {<<>>, EndCwd})
  <2>. HIDE DEF t, r, x
  <2>. QED BY <1>1, <1>2, IputEndCode
<1>4. x \in Locked(todo[p]) /\ s \in Slots /\ e \in Inodes /\ e.inum \in Inums /\ e.busy = p /\ e.ref \in Nat /\ e.ref >= 1
  BY <1>1, <1>3, LockedEntry
<1>5. Do(p, h, t) /\ UNCHANGED <<disk, trans, file, ofile, panic>>
  BY DEF IputEnd
<1>6. todo[p] = u /\ ~Top(u, "setcwd") /\ u # <<>> /\ Head(todo[p])[2] = x
  BY <1>1 DEF Reg
<1>7. icache' = [icache EXCEPT ![s] = f] /\ n \in Nat /\ n = e.ref + (-1)
  BY <1>4 DEF IputEnd
<1>. HIDE DEF e, n
<1>8. f \in Inodes /\ f.ref = n /\ f.inum = e.inum /\ f.busy = None /\ f.valid = FALSE
  BY <1>4, <1>7 DEF Inodes
<1>. HIDE DEF f, t, r, x, u, s
<1>9. icache' \in [Slots -> Inodes] /\ icache'[s] = f /\ Only(s, icache, icache')
  <2>1. icache \in [Slots -> Inodes]
    BY <1>2 DEF Tables
  <2>2. SetAt(icache, s, f, [icache EXCEPT ![s] = f])
    BY <1>4, <1>8, <2>1, SetEntry, Zenon
  <2>. QED BY <1>7, <2>2 DEF SetAt
<1>10. h \in Regs /\ Local(t, h, ofile[p]) /\ h = [r EXCEPT ![x] = None]
  BY <1>1, <1>2, <1>3, <1>6, PutLocal
<1>11. SetTo(r, x, None, h)
  BY <1>1, <1>2, SetIs, Zenon
<1>. HIDE DEF h
<1>12. Tables' /\ SameFiles(file, file') /\ din' = din /\ file' = file
  BY <1>2, <1>5, <1>9 DEF Tables, SameFiles, disk
<1>13. Unique(icache') /\ BusyBy(p, icache, icache')
  <2>1. \A v \in Slots : icache'[v].inum = icache[v].inum /\ (icache'[v].ref > 0 => icache[v].ref > 0)
    BY <1>4, <1>8, <1>9 DEF Only, e
  <2>2. BusyBy(p, icache, icache')
    BY <1>4, <1>8, <1>9 DEF Only, e, BusyBy
  <2>. QED BY <1>2, <2>1, <2>2 DEF Unique
<1>14. Copied(icache', din')
  <2>1. \A v \in Slots : icache'[v].valid => icache'[v] = icache[v]
    BY <1>8, <1>9 DEF Only
  <2>. QED BY <1>12, <2>1, Ours DEF Copied
<1>15. Freeing(icache', [todo EXCEPT ![p] = t], [reg EXCEPT ![p] = h])
  <2>. DEFINE td == [todo EXCEPT ![p] = t]
              rg == [reg EXCEPT ![p] = h]
  <2>. SUFFICES ASSUME NEW v \in Slots, icache'[v].ref > 0 /\ icache'[v].valid /\ icache'[v].type = "none"
                PROVE  \E q \in Procs : /\ icache'[v].busy = q /\ Top(td[q], "iputend") /\ rg[q][Head(td[q])[2]] = v
    BY DEF Freeing
  <2>0. todo \in [Procs -> Seq(Steps)] /\ reg \in [Procs -> Regs]
        /\ \A q \in Procs : q # p => td[q] = todo[q] /\ rg[q] = reg[q]
    BY Ours
  <2>. HIDE DEF td, rg
  <2>1. v # s /\ icache'[v] = icache[v]
    BY <1>8, <1>9 DEF Only
  <2>2. PICK q \in Procs : icache[v].busy = q /\ Top(todo[q], "iputend") /\ reg[q][Head(todo[q])[2]] = v
    BY <2>1, Ours DEF Freeing
  <2>3. q # p
    BY <1>6, <2>1, <2>2 DEF s, r
  <2>4. icache'[v].busy = q /\ Top(td[q], "iputend") /\ rg[q][Head(td[q])[2]] = v
    BY <2>0, <2>1, <2>2, <2>3
  <2>. QED BY <2>4, Zenon
<1>16. Locks(p, t, h, icache')
  <2>1. \A y \in Locked(t) : h[y] = r[y]
    <3>1. \A y \in Locked(t) : y \in Ptrs \cup {"fip"} /\ y # x
      BY <1>3, Kinds DEF LockRegs, CallPtrs, Ptrs
    <3>. QED BY <1>11, <3>1 DEF SetTo
  <2>2. \A z \in Slots : z # s => icache'[z].busy = icache[z].busy
    BY <1>9 DEF Only
  <2>3. Locked(t) = Locked(u) \ {x} /\ x \in Locked(u) /\ r[x] = s /\ p # None /\ icache'[s].busy = None
    BY <1>3, <1>8, <1>9, NotNone DEF s
  <2>. QED BY <1>2, <2>1, <2>2, <2>3, LocksDrop
<1>17. RefsAre(icache', [reg EXCEPT ![p] = h], file')
  <2>1. reg[p][x] = s /\ h[x] = None /\ RegBut(reg[p], h, x, x)
    BY <1>11 DEF SetTo, RegBut, r, s
  <2>2. RefsBut(icache, icache', s, -1)
    BY <1>7, <1>8, <1>9 DEF RefsBut, Only, e
  <2>. QED BY <1>1, <1>2, <1>4, <1>10, <1>12, <2>1, <2>2, RefsPut
<1>18. (Logged(t) <=> Logged(todo[p])) /\ (OnFile(t) => OnFile(todo[p])) /\ h.fp = reg[p].fp /\ h.fip = reg[p].fip
       /\ trans' = trans /\ ofile' = ofile /\ panic' = panic
  BY <1>1, <1>3, <1>5, <1>11 DEF SetTo, r
<1>. QED BY <1>1, <1>5, <1>10, <1>12, <1>13, <1>14, <1>15, <1>16, <1>17, <1>18, CacheStep

-----------------------------------------------------------------------------
(* Links and entries.                                                      *)

\* iunlockput in front of other steps.
LEMMA UpCode ==
  ASSUME NEW x \in CallPtrs, NEW t \in Seq(Steps), Code(t), ~Top(t, "fileclose"), ~Top(t, "setcwd"),
         x \notin Locked(t), x \notin Pointers(t), NEW v, v = UnlockPut(x) \o t
  PROVE  /\ v \in Seq(Steps) /\ Code(v) /\ Pointers(v) = Pointers(t) \cup {x} /\ Locked(v) = Locked(t) \cup {x}
         /\ (Logged(v) <=> Logged(t)) /\ (Leaves(v) <=> Leaves(t)) /\ Like(v, t) /\ (OnFile(v) <=> OnFile(t))
         /\ ~Top(v, "setcwd") /\ ~Top(v, "fileclose")
<1>. DEFINE a == On("iput", x, t)
            b == On("iunlock", x, a)
<1>1. v = b
  <2>1. Cat(UnlockPut(x), t) = b
    BY PieceUnlockPut
  <2>. HIDE DEF b
  <2>. QED BY <2>1 DEF Cat
<1>2. /\ a \in Seq(Steps) /\ Code(a) /\ Pointers(a) = Pointers(t) \cup {x} /\ Locked(a) = Locked(t)
      /\ (Logged(a) <=> Logged(t)) /\ (Leaves(a) <=> Leaves(t)) /\ Like(a, t) /\ (OnFile(a) <=> OnFile(t))
      /\ ~Top(a, "setcwd") /\ ~Top(a, "fileclose")
  BY Op_iput
<1>. HIDE DEF a
<1>3. x \in CallPtrs \cup {"fip"} /\ x # "fip"
  BY DEF CallPtrs
<1>4. /\ b \in Seq(Steps) /\ Code(b) /\ Pointers(b) = Pointers(a) /\ Locked(b) = Locked(a) \cup {x}
      /\ (Logged(b) <=> Logged(a)) /\ (Leaves(b) <=> Leaves(a)) /\ Like(b, a) /\ (OnFile(b) <=> OnFile(a))
      /\ ~Top(b, "setcwd") /\ ~Top(b, "fileclose")
  BY <1>2, <1>3, Op_iunlock
<1>. HIDE DEF b
<1>5. Like(b, t)
  BY <1>2, <1>4, LikeTrans
<1>. QED BY <1>1, <1>2, <1>4, <1>5

\* link goes on to the entry that it makes.
LEMMA BumpEntry ==
  ASSUME NEW t \in Seq(Steps), Code(t), Has(t, "bump")
  PROVE  Has(t, "entry")
<1>1. PICK i \in 1 .. Len(t) : t[i][1] = "bump"
  BY DEF Has
<1>. DEFINE v == SubSeq(t, i + 1, Len(t))
<1>2. Fail(v) = LinkBad
  BY <1>1 DEF Code, Good, Lookup
<1>3. LinkBad # <<>> /\ LinkBad # CommitIp
  BY IsLinkBad, IsCommitIp
<1>. HIDE DEF v
<1>4. Has(v, "entry")
  BY <1>2, <1>3 DEF Fail
<1>5. PICK j \in 1 .. Len(v) : v[j][1] = "entry"
  BY <1>4 DEF Has
<1>6. Len(t) \in Nat /\ i \in Nat /\ i >= 1 /\ i <= Len(t)
  OBVIOUS
<1>7. Len(v) = Len(t) - i /\ v[j] = t[i + j] /\ i + j \in 1 .. Len(t)
  BY <1>6, <1>5 DEF v
<1>. QED BY <1>5, <1>7 DEF Has
LEMMA NoBump ==
  ASSUME NEW t \in Seq(Steps), Code(t), ~MayFail(t), NEW r
  PROVE  ~Has(t, "bump") /\ Arguments(t, r)
<1>1. ~Has(t, "bump")
  BY BumpEntry DEF MayFail
<1>2. ~Walks(t, "ip") /\ ~Walks(t, "dp")
  BY DEF MayFail
<1>. QED BY <1>1, <1>2, NoArgs

LEMMA LinksStep ==
  ASSUME IInv, NEW p \in Procs, NEW t \in Seq(Steps), NEW r \in Regs, Do(p, r, t), NEW x \in Locked(todo[p]),
         NEW n \in Int, SetLinks(p, x, n), ents' \in [Inums -> [Names -> 0 .. NINODES - 1]],
         UNCHANGED <<used, trans, file, ofile, panic>>, ~Top(todo[p], "iputend"),
         Local(t, r, ofile[p]), Locked(t) = Locked(todo[p]),
         Logged(t) <=> Logged(todo[p]), OnFile(t) => OnFile(todo[p]), r.fp = reg[p].fp, r.fip = reg[p].fip,
         \A y \in Ptrs : r[y] = reg[p][y]
  PROVE  IInv'
<1>. DEFINE s == reg[p][x]
            e == icache[s]
            f == [e EXCEPT !.nlink = n]
<1>1. s \in Slots /\ e \in Inodes
  BY LockedEntry
<1>2. icache' = [icache EXCEPT ![s] = f] /\ din' = [din EXCEPT ![icache[s].inum] = [Copy(e) EXCEPT !.nlink = n]]
  BY DEF SetLinks
<1>. HIDE DEF e
<1>3. Renewed(e, f, [Copy(e) EXCEPT !.nlink = n], e.type)
  BY <1>1, SetLink, Zenon
<1>. HIDE DEF f, s
<1>4. Updated(s, f) /\ f \in Inodes /\ Copy(f) \in Dinodes
  BY <1>2, <1>3 DEF Renewed, Updated
<1>5. f.ref = icache[s].ref /\ f.inum = icache[s].inum /\ f.busy = icache[s].busy /\ f.valid = icache[s].valid /\ f.type = icache[s].type
  BY <1>3 DEF Renewed, e
<1>6. /\ SameFiles(file, file') /\ file' \in [1 .. NFILE -> Files] /\ trans' = trans /\ ofile' = ofile /\ panic' = panic
      /\ used' \subseteq Blocks
  BY Ours DEF SameFiles, Tables
<1>7. s = reg[p][x]
  BY DEF s
<1>. QED BY <1>4, <1>5, <1>6, <1>7, UpdateStep

LEMMA NlinkInt ==
  ASSUME IInv, NEW s \in Slots
  PROVE  icache[s].nlink \in Int /\ icache[s].nlink + 1 \in Int /\ icache[s].nlink - 1 \in Int
<1>1. icache[s] \in Inodes
  BY Ours DEF Tables
<1>2. icache[s].nlink \in Int
  BY <1>1 DEF Inodes
<1>. QED BY <1>2

LEMMA StepDropLink ==
  ASSUME IInv, NEW p \in Procs, DropLink(p)
  PROVE  IInv'
<1>. DEFINE t == Rest(p)
            r == reg[p]
            u == On("drop", "ip", t)
<1>1. t \in Seq(Steps) /\ Reg(p) = "ip" /\ todo[p] = u /\ u # <<>> /\ (\A o : Top(u, o) <=> o = "drop") /\ panic = "no"
  <2>1. /\ todo[p] # <<>> /\ todo[p] = On("drop", Reg(p), Rest(p)) /\ Rest(p) \in Seq(Steps) /\ panic = "no"
        /\ <<"drop", Reg(p)>> \in Steps /\ \A o : Top(todo[p], o) <=> o = "drop"
    <3>1. At(p, "drop")
      BY Zenon DEF DropLink
    <3>. QED BY <3>1, Now
  <2>2. "drop" \in {"create", "exists", "mknode", "bump", "drop", "lookup", "remove", "open", "closeall", "chdir", "setcwd"} => Reg(p) = "ip"
    BY <2>1, RegIn, Zenon
  <2>. QED BY <2>1, <2>2
<1>2. /\ Tables /\ r \in Regs /\ Local(u, r, ofile[p]) /\ Opened(u, r, ofile[p], file) /\ Code(u)
      /\ Locks(p, u, r, icache) /\ (trans = p <=> Logged(u)) /\ trans \in Procs \cup {None}
      /\ Unique(icache) /\ RefsAre(icache, reg, file) /\ FilesAre(file, ofile) /\ reg \in [Procs -> Regs]
  BY <1>1, Ours, Mine DEF Local
<1>3. /\ Pointers(u) = Pointers(t) /\ Locked(u) = Locked(t) /\ (Logged(u) <=> Logged(t)) /\ (Leaves(u) <=> Leaves(t))
      /\ Code(t) /\ ~Top(t, "fileclose") /\ ~Top(t, "setcwd") /\ "ip" \in Locked(t) /\ (OnFile(u) <=> OnFile(t)) /\ Like(u, t)
  <2>. HIDE DEF t, r
  <2>. QED BY <1>1, <1>2, Op_drop
<1>. DEFINE n == icache[reg[p].ip].nlink - 1
<1>4. /\ Do(p, r, t) /\ SetLinks(p, "ip", n) /\ UNCHANGED <<ents, used, trans, file, ofile, panic>>
  BY DEF DropLink, Proceed, Goto
<1>5. n \in Int /\ "ip" \in Locked(todo[p])
  BY <1>1, <1>3, LockedEntry, NlinkInt
<1>6. ents' \in [Inums -> [Names -> 0 .. NINODES - 1]] /\ UNCHANGED <<used, trans, file, ofile, panic>>
  BY <1>2, <1>4 DEF Tables
<1>. HIDE DEF t, r, u, n
<1>7. Local(t, r, ofile[p])
  BY <1>1, <1>2, <1>3, SameLocal
<1>8. /\ Locked(t) = Locked(todo[p]) /\ (Logged(t) <=> Logged(todo[p])) /\ (OnFile(t) => OnFile(todo[p]))
      /\ r.fp = reg[p].fp /\ r.fip = reg[p].fip /\ (\A y \in Ptrs : r[y] = reg[p][y]) /\ ~Top(todo[p], "iputend")
  BY <1>1, <1>3 DEF r
<1>. QED BY <1>1, <1>2, <1>4, <1>5, <1>6, <1>7, <1>8, LinksStep

LEMMA StepLinkBump ==
  ASSUME IInv, NEW p \in Procs, LinkBump(p)
  PROVE  IInv'
<1>. DEFINE t == Rest(p)
            r == reg[p]
            u == On("bump", "ip", t)
<1>1. t \in Seq(Steps) /\ Reg(p) = "ip" /\ todo[p] = u /\ u # <<>> /\ (\A o : Top(u, o) <=> o = "bump") /\ panic = "no"
  <2>1. /\ todo[p] # <<>> /\ todo[p] = On("bump", Reg(p), Rest(p)) /\ Rest(p) \in Seq(Steps) /\ panic = "no"
        /\ <<"bump", Reg(p)>> \in Steps /\ \A o : Top(todo[p], o) <=> o = "bump"
    <3>1. At(p, "bump")
      BY Zenon DEF LinkBump
    <3>. QED BY <3>1, Now
  <2>2. "bump" \in {"create", "exists", "mknode", "bump", "drop", "lookup", "remove", "open", "closeall", "chdir", "setcwd"} => Reg(p) = "ip"
    BY <2>1, RegIn, Zenon
  <2>. QED BY <2>1, <2>2
<1>2. /\ Tables /\ r \in Regs /\ Local(u, r, ofile[p]) /\ Opened(u, r, ofile[p], file) /\ Code(u)
      /\ Locks(p, u, r, icache) /\ (trans = p <=> Logged(u)) /\ trans \in Procs \cup {None}
      /\ Unique(icache) /\ RefsAre(icache, reg, file) /\ FilesAre(file, ofile) /\ reg \in [Procs -> Regs]
  BY <1>1, Ours, Mine DEF Local
<1>. DEFINE e == icache[reg[p].ip]
            n == e.nlink + 1
            h == [r EXCEPT !.path = r.new, !.parent = TRUE, !.err = LinkBad]
            v == UnlockPut("ip") \o CommitIp
<1>3. /\ Pointers(u) = Pointers(t) /\ Locked(u) = Locked(t) /\ (Logged(u) <=> Logged(t)) /\ (Leaves(u) <=> Leaves(t))
      /\ Code(t) /\ ~Top(t, "fileclose") /\ ~Top(t, "setcwd") /\ (OnFile(u) <=> OnFile(t))
      /\ Pointers(t) = {"ip"} /\ Locked(t) = {"ip"} /\ Logged(t) /\ ~Walks(t, "ip") /\ ~Has(t, "bump") /\ Fail(t) = LinkBad
      /\ Has(u, "bump") /\ (Walks(u, "dp") <=> Walks(t, "dp")) /\ (Has(u, "setcwd") <=> Has(t, "setcwd"))
  <2>. HIDE DEF t, r
  <2>. QED BY <1>1, <1>2, Op_bump DEF Flags
<1>4. CASE /\ Goto(p, v) /\ UNCHANGED <<disk, icache>> /\ UNCHANGED <<trans, file, ofile, panic>>
  <2>1. Do(p, r, v) /\ UNCHANGED <<disk, icache, trans, file, ofile, panic>>
    BY <1>4 DEF Goto
  <2>2. Sum(CommitIp, {}, {}, TRUE, FALSE) /\ Shape(CommitIp, FALSE, FALSE, FALSE, FALSE, FALSE, FALSE, FALSE, FALSE)
        /\ ~Top(CommitIp, "fileclose") /\ ~Top(CommitIp, "setcwd") /\ ~MayFail(CommitIp)
    BY IsCommitIp
  <2>. DEFINE w == CommitIp
  <2>3. v = UnlockPut("ip") \o w
    OBVIOUS
  <2>. HIDE DEF v, w
  <2>4. w \in Seq(Steps) /\ Code(w) /\ ~Top(w, "fileclose") /\ ~Top(w, "setcwd") /\ Pointers(w) = {} /\ Locked(w) = {} /\ Logged(w) /\ ~Leaves(w)
        /\ ~Walks(w, "ip") /\ ~Walks(w, "dp") /\ ~Has(w, "bump") /\ ~MayFail(w) /\ ~OnFile(w)
    BY <2>2 DEF Sum, Shape, w
  <2>5. /\ v \in Seq(Steps) /\ Code(v) /\ Pointers(v) = Pointers(w) \cup {"ip"} /\ Locked(v) = Locked(w) \cup {"ip"}
        /\ (Logged(v) <=> Logged(w)) /\ (Leaves(v) <=> Leaves(w)) /\ Like(v, w) /\ (OnFile(v) <=> OnFile(w))
        /\ ~Top(v, "setcwd") /\ ~Top(v, "fileclose")
    BY <2>3, <2>4, UpCode DEF CallPtrs
  <2>. HIDE DEF t, r, u
  <2>6. Local(v, r, ofile[p])
    <3>1. Arguments(w, r)
      BY <2>4, NoArgs
    <3>2. Arguments(v, r)
      BY <2>5, <3>1, LikeArgs
    <3>3. (\A y \in CallPtrs : r[y] # None <=> y \in Pointers(v)) /\ r["cwd"] # None
      BY <1>1, <1>2, <1>3, <2>4, <2>5 DEF Local, Holding
    <3>. QED BY <2>4, <2>5, <3>2, <3>3, MakeLocal
  <2>7. /\ (Logged(v) <=> Logged(todo[p])) /\ (OnFile(v) => OnFile(todo[p])) /\ r.fp = reg[p].fp /\ r.fip = reg[p].fip
        /\ Locked(v) = Locked(todo[p]) /\ (\A y \in Ptrs : r[y] = reg[p][y]) /\ ~Top(todo[p], "iputend")
    BY <1>1, <1>3, <2>4, <2>5 DEF r
  <2>. QED BY <1>2, <2>1, <2>5, <2>6, <2>7, QuietAll
<1>5. CASE /\ SetLinks(p, "ip", n) /\ Do(p, h, t) /\ UNCHANGED <<ents, used>> /\ UNCHANGED <<trans, file, ofile, panic>>
  <2>1. n \in Int /\ "ip" \in Locked(todo[p])
    BY <1>1, <1>3, LockedEntry, NlinkInt
  <2>2. ents' \in [Inums -> [Names -> 0 .. NINODES - 1]] /\ UNCHANGED <<used, trans, file, ofile, panic>>
    BY <1>2, <1>5 DEF Tables
  <2>. HIDE DEF t, r, u, n, e
  <2>3. r.new \in Paths
    BY <1>2, <1>3 DEF Local, Arguments
  <2>4. /\ h \in Regs /\ h.path = r.new /\ h.parent = TRUE /\ h.err = LinkBad /\ h.new = r.new
        /\ h.fp = r.fp /\ h.fip = r.fip /\ (\A y \in Ptrs : h[y] = r[y])
    <3>. DEFINE a == [r EXCEPT !.path = r.new]
                b == [a EXCEPT !.parent = TRUE]
    <3>1. ButField(r, a, "path") /\ a.path = r.new
      <4>1. r.new \in Paths \cup {None}
        BY <2>3
      <4>. QED BY <1>2, <4>1, SetPath, Zenon
    <3>2. h = [b EXCEPT !.err = LinkBad]
      BY DEF a
    <3>3. a \in Regs
      BY <3>1, Zenon DEF ButField
    <3>. HIDE DEF a, h
    <3>4. ButField(a, b, "parent") /\ b.parent = TRUE
      <4>1. TRUE \in BOOLEAN
        OBVIOUS
      <4>. QED BY <3>3, <4>1, SetParent, Zenon
    <3>5. b \in Regs
      BY <3>4, Zenon DEF ButField
    <3>. HIDE DEF b
    <3>6. ButField(b, h, "err") /\ h.err = LinkBad
      <4>1. LinkBad \in {<<>>, CommitIp, LinkBad}
        BY Zenon
      <4>2. ButField(b, [b EXCEPT !.err = LinkBad], "err") /\ [b EXCEPT !.err = LinkBad].err = LinkBad
        BY <3>5, <4>1, SetErr, Zenon
      <4>. QED BY <4>2, <3>2, Zenon
    <3>. QED BY <3>1, <3>4, <3>6 DEF ButField, Fields, Ptrs
  <2>. HIDE DEF h
  <2>5. Arguments(t, h)
    BY <1>3, <2>3, <2>4 DEF Arguments
  <2>6. Local(t, h, ofile[p])
    <3>1. (\A y \in CallPtrs : r[y] # None <=> y \in Pointers(t)) /\ r["cwd"] # None
      BY <1>1, <1>2, <1>3 DEF Local, Holding
    <3>2. (\A y \in CallPtrs : h[y] # None <=> y \in Pointers(t)) /\ h["cwd"] # None
      BY <2>4, <3>1 DEF CallPtrs, Ptrs
    <3>3. Leaves(t) /\ ~Has(t, "setcwd") => \A fd \in 1 .. NOFILE : ofile[p][fd] = None
      BY <1>2, <1>3 DEF Local, Descriptors
    <3>. QED BY <1>3, <2>5, <3>2, <3>3, MakeLocal
  <2>7. /\ Locked(t) = Locked(todo[p]) /\ (Logged(t) <=> Logged(todo[p])) /\ (OnFile(t) => OnFile(todo[p]))
        /\ h.fp = reg[p].fp /\ h.fip = reg[p].fip /\ (\A y \in Ptrs : h[y] = reg[p][y]) /\ ~Top(todo[p], "iputend")
    BY <1>1, <1>3, <2>4 DEF r
  <2>. QED BY <1>1, <1>5, <2>1, <2>2, <2>4, <2>6, <2>7, LinksStep
<1>6. \/ /\ Goto(p, v) /\ UNCHANGED <<disk, icache>> /\ UNCHANGED <<trans, file, ofile, panic>>
      \/ /\ SetLinks(p, "ip", n) /\ Do(p, h, t) /\ UNCHANGED <<ents, used>> /\ UNCHANGED <<trans, file, ofile, panic>>
  BY Zenon DEF LinkBump, CommitIp
<1>. HIDE DEF e, n, h, v, t, r, u
<1>. QED BY <1>4, <1>5, <1>6, Zenon

-----------------------------------------------------------------------------
\* A call goes on with other steps, that need what it has and cannot fail.
LEMMA Jump ==
  ASSUME IInv, NEW p \in Procs, NEW v \in Seq(Steps), Goto(p, v), UNCHANGED <<disk, icache, trans, file, ofile, panic>>,
         todo[p] # <<>>, ~Top(todo[p], "setcwd"), ~Top(todo[p], "iputend"),
         Code(v), ~MayFail(v), ~Leaves(v),
         ~Top(v, "fileclose"), ~Top(v, "setcwd"), OnFile(v) => OnFile(todo[p]),
         Pointers(v) = Pointers(todo[p]), Locked(v) = Locked(todo[p]), Logged(v) <=> Logged(todo[p])
  PROVE  IInv'
<1>. DEFINE r == reg[p]
<1>1. Do(p, r, v) /\ r \in Regs
  BY Mine DEF Goto
<1>2. Arguments(v, r)
  BY NoBump
<1>3. (\A y \in CallPtrs : r[y] # None <=> y \in Pointers(v)) /\ r["cwd"] # None
  BY Mine DEF Holding
<1>4. Leaves(v) /\ ~Has(v, "setcwd") => \A fd \in 1 .. NOFILE : ofile[p][fd] = None
  BY Mine DEF Descriptors
<1>5. Local(v, r, ofile[p])
  BY <1>2, <1>3, <1>4, MakeLocal
<1>6. r.fp = reg[p].fp /\ r.fip = reg[p].fip /\ (\A y \in Ptrs : r[y] = reg[p][y])
  OBVIOUS
<1>. HIDE DEF r
<1>. QED BY <1>1, <1>5, <1>6, QuietAll

\* It lets go of the inode of register x, and goes on with w.
LEMMA Retreat ==
  ASSUME IInv, NEW p \in Procs, NEW x \in CallPtrs, NEW w \in Seq(Steps), Goto(p, UnlockPut(x) \o w),
         UNCHANGED <<disk, icache, trans, file, ofile, panic>>,
         todo[p] # <<>>, ~Top(todo[p], "setcwd"), ~Top(todo[p], "iputend"),
         Code(w), ~MayFail(w), ~Leaves(w), ~Top(w, "fileclose"), ~Top(w, "setcwd"), ~OnFile(w),
         x \notin Pointers(w), x \notin Locked(w),
         Pointers(todo[p]) = Pointers(w) \cup {x}, Locked(todo[p]) = Locked(w) \cup {x}, Logged(w) <=> Logged(todo[p])
  PROVE  IInv'
<1>. DEFINE v == UnlockPut(x) \o w
<1>1. Goto(p, v)
  OBVIOUS
<1>2. v = UnlockPut(x) \o w
  OBVIOUS
<1>. HIDE DEF v
<1>3. /\ v \in Seq(Steps) /\ Code(v) /\ Pointers(v) = Pointers(w) \cup {x} /\ Locked(v) = Locked(w) \cup {x}
      /\ (Logged(v) <=> Logged(w)) /\ (Leaves(v) <=> Leaves(w)) /\ Like(v, w) /\ (OnFile(v) <=> OnFile(w))
      /\ ~Top(v, "setcwd") /\ ~Top(v, "fileclose")
  BY <1>2, UpCode
<1>4. ~MayFail(v)
  BY <1>3, LikeFails
<1>5. /\ ~Leaves(v)
      /\ OnFile(v) => OnFile(todo[p])
      /\ Pointers(v) = Pointers(todo[p]) /\ Locked(v) = Locked(todo[p]) /\ (Logged(v) <=> Logged(todo[p]))
  BY <1>3
<1>6. UNCHANGED <<disk, icache, trans, file, ofile, panic>>
  OBVIOUS
<1>. QED BY <1>1, <1>3, <1>4, <1>5, <1>6, Jump

LEMMA EntsSet ==
  ASSUME NEW es \in [Inums -> [Names -> 0 .. NINODES - 1]], NEW d \in Inums, NEW n \in Names, NEW v \in 0 .. NINODES - 1
  PROVE  [es EXCEPT ![d][n] = v] \in [Inums -> [Names -> 0 .. NINODES - 1]]
OBVIOUS

\* The names and the pointers that the call has.
LEMMA RegTypes ==
  ASSUME NEW r \in Regs
  PROVE  /\ r.name \in Names /\ r.kind \in Types \cup {"none"} /\ r.mode \in Modes \cup {"none"} /\ r.parent \in BOOLEAN
         /\ r.ip \in Slots \cup {None} /\ r.dp \in Slots \cup {None} /\ r.w \in Slots \cup {None}
         /\ r.ff \in Slots \cup {None} /\ r.cwd \in Slots \cup {None} /\ r.fip \in Slots \cup {None}
         /\ r.fp \in (1 .. NFILE) \cup {None}
BY DEF Regs

LEMMA InumOf ==
  ASSUME IInv, NEW s \in Slots
  PROVE  icache[s] \in Inodes /\ icache[s].inum \in 0 .. NINODES - 1 /\ icache[s].type \in Types \cup {"none"}
<1>1. icache[s] \in Inodes
  BY Ours DEF Tables
<1>. QED BY <1>1 DEF Inodes

LEMMA StepLinkEntry ==
  ASSUME IInv, NEW p \in Procs, LinkEntry(p)
  PROVE  IInv'
<1>. DEFINE t == Rest(p)
            r == reg[p]
            u == On("entry", "dp", t)
<1>1. t \in Seq(Steps) /\ Reg(p) = "dp" /\ todo[p] = u /\ u # <<>> /\ (\A o : Top(u, o) <=> o = "entry") /\ panic = "no"
  <2>1. /\ todo[p] # <<>> /\ todo[p] = On("entry", Reg(p), Rest(p)) /\ Rest(p) \in Seq(Steps) /\ panic = "no"
        /\ <<"entry", Reg(p)>> \in Steps /\ \A o : Top(todo[p], o) <=> o = "entry"
    <3>1. At(p, "entry")
      BY Zenon DEF LinkEntry
    <3>. QED BY <3>1, Now
  <2>2. "entry" = "entry" => Reg(p) = "dp"
    BY <2>1, RegIn, Zenon
  <2>. QED BY <2>1, <2>2
<1>2. /\ Tables /\ r \in Regs /\ Local(u, r, ofile[p]) /\ Opened(u, r, ofile[p], file) /\ Code(u)
      /\ Locks(p, u, r, icache) /\ (trans = p <=> Logged(u)) /\ trans \in Procs \cup {None}
      /\ Unique(icache) /\ RefsAre(icache, reg, file) /\ FilesAre(file, ofile) /\ reg \in [Procs -> Regs]
  BY <1>1, Ours, Mine DEF Local
<1>3. /\ Pointers(u) = {"ip", "dp"} /\ Pointers(t) = {"ip", "dp"} /\ Locked(u) = {"dp"} /\ Locked(t) = {"dp"}
      /\ Logged(u) /\ Logged(t) /\ (Leaves(u) <=> Leaves(t)) /\ Code(t) /\ ~MayFail(t)
      /\ ~Top(t, "fileclose") /\ ~Top(t, "setcwd") /\ (OnFile(u) <=> OnFile(t))
      /\ Has(u, "entry") /\ (Has(u, "bump") <=> Has(t, "bump")) /\ (Has(u, "setcwd") <=> Has(t, "setcwd"))
      /\ (Has(u, "create") <=> Has(t, "create")) /\ (Has(u, "exists") <=> Has(t, "exists"))
  <2>. HIDE DEF t, r
  <2>. QED BY <1>1, <1>2, Op_entry DEF Flags
<1>. HIDE DEF t, u
<1>4. ~Has(t, "bump") /\ Arguments(t, r)
  BY <1>1, <1>3, NoBump
<1>5. r.err = LinkBad
  <2>1. ~Has(t, "create") /\ ~Has(t, "exists")
    BY <1>3 DEF MayFail
  <2>2. MayFail(u) /\ Fail(u) = LinkBad
    BY <1>3, <1>4, <2>1 DEF MayFail, Fail
  <2>. QED BY <1>2, <2>2 DEF Local, Arguments
<1>. DEFINE d == icache[r.dp].inum
            es == [ents EXCEPT ![d][r.name] = icache[r.ip].inum]
<1>6. CASE /\ Goto(p, UnlockPut("dp") \o r.err) /\ ents' = ents /\ UNCHANGED <<din, used, icache, trans, file, ofile, panic>>
  <2>. DEFINE w == LinkBad
  <2>1. Sum(w, {"ip"}, {}, TRUE, FALSE) /\ Shape(w, FALSE, FALSE, FALSE, FALSE, FALSE, FALSE, FALSE, FALSE)
        /\ (\A o : Top(w, o) <=> o = "ilock") /\ ~MayFail(w)
    BY IsLinkBad
  <2>2. Goto(p, UnlockPut("dp") \o w)
    BY <1>5, <1>6
  <2>. HIDE DEF w
  <2>3. w \in Seq(Steps) /\ Code(w) /\ ~MayFail(w) /\ ~Leaves(w) /\ ~Top(w, "fileclose") /\ ~Top(w, "setcwd") /\ ~OnFile(w)
        /\ Pointers(w) = {"ip"} /\ Locked(w) = {} /\ Logged(w)
    BY <2>1 DEF Sum, Shape
  <2>4. UNCHANGED <<disk, icache, trans, file, ofile, panic>>
    BY <1>6 DEF disk
  <2>5. "dp" \in CallPtrs /\ "dp" \notin Pointers(w) /\ "dp" \notin Locked(w)
    BY <2>3 DEF CallPtrs
  <2>6. Pointers(todo[p]) = Pointers(w) \cup {"dp"} /\ Locked(todo[p]) = Locked(w) \cup {"dp"} /\ (Logged(w) <=> Logged(todo[p]))
    BY <1>1, <1>3, <2>3
  <2>7. todo[p] # <<>> /\ ~Top(todo[p], "setcwd") /\ ~Top(todo[p], "iputend")
    BY <1>1
  <2>. QED BY <2>2, <2>3, <2>4, <2>5, <2>6, <2>7, Retreat
<1>7. CASE /\ Proceed(p) /\ ents' = es /\ UNCHANGED <<din, used, icache, trans, file, ofile, panic>>
  <2>1. Do(p, r, t) /\ UNCHANGED <<din, used, icache, trans, file, ofile, panic>>
    BY <1>7 DEF Proceed, Goto, t
  <2>2. d \in Inums /\ r.name \in Names /\ icache[r.ip].inum \in 0 .. NINODES - 1
    <3>1. "dp" \in Locked(todo[p]) /\ "ip" \in Pointers(todo[p])
      BY <1>1, <1>3
    <3>2. reg[p]["ip"] \in Slots
      BY <3>1, PtrSlot
    <3>. QED BY <1>2, <3>1, <3>2, LockedEntry, InumOf, RegTypes
  <2>3. es \in [Inums -> [Names -> 0 .. NINODES - 1]]
    <3>. HIDE DEF d, r
    <3>. QED BY <1>2, <2>2, EntsSet DEF Tables
  <2>4. Tables'
    BY <1>2, <1>7, <2>3 DEF Tables
  <2>5. Local(t, r, ofile[p])
    <3>1. (\A y \in CallPtrs : r[y] # None <=> y \in Pointers(t)) /\ r["cwd"] # None
      BY <1>1, <1>2, <1>3 DEF Local, Holding
    <3>2. Leaves(t) /\ ~Has(t, "setcwd") => \A fd \in 1 .. NOFILE : ofile[p][fd] = None
      BY <1>2, <1>3 DEF Local, Descriptors
    <3>. QED BY <1>3, <1>4, <3>1, <3>2, MakeLocal
  <2>6. SameFiles(file, file') /\ icache' = icache /\ din' = din /\ ofile' = ofile /\ panic' = panic /\ trans' = trans
    BY <2>1 DEF SameFiles
  <2>7. LogBy(p, t, trans, trans') /\ trans' \in Procs \cup {None} /\ ~Top(todo[p], "iputend") /\ Locked(t) = Locked(todo[p])
    BY <1>1, <1>2, <1>3, <2>6 DEF LogBy
  <2>8. (\A x \in Ptrs : r[x] = reg[p][x]) /\ (\A x \in Locked(t) : r[x] = reg[p][x])
    OBVIOUS
  <2>. HIDE DEF r
  <2>9. Opened(t, r, ofile[p], file')
    BY <1>2, <1>3, <2>6, OpenedKept
  <2>. QED BY <1>1, <1>2, <2>1, <2>4, <2>5, <2>6, <2>7, <2>8, <2>9, Quiet
<1>8. \/ /\ Goto(p, UnlockPut("dp") \o r.err) /\ ents' = ents /\ UNCHANGED <<din, used, icache, trans, file, ofile, panic>>
      \/ /\ Proceed(p) /\ ents' = es /\ UNCHANGED <<din, used, icache, trans, file, ofile, panic>>
  BY Zenon DEF LinkEntry
<1>. HIDE DEF d, es, r
<1>. QED BY <1>6, <1>7, <1>8, Zenon

LEMMA StepCreateExists ==
  ASSUME IInv, NEW p \in Procs, CreateExists(p)
  PROVE  IInv'
<1>. DEFINE t == Rest(p)
            r == reg[p]
            u == On("exists", "ip", t)
<1>1. t \in Seq(Steps) /\ Reg(p) = "ip" /\ todo[p] = u /\ u # <<>> /\ (\A o : Top(u, o) <=> o = "exists") /\ panic = "no"
  <2>1. /\ todo[p] # <<>> /\ todo[p] = On("exists", Reg(p), Rest(p)) /\ Rest(p) \in Seq(Steps) /\ panic = "no"
        /\ <<"exists", Reg(p)>> \in Steps /\ \A o : Top(todo[p], o) <=> o = "exists"
    <3>1. At(p, "exists")
      BY Zenon DEF CreateExists
    <3>. QED BY <3>1, Now
  <2>2. "exists" \in {"create", "exists", "mknode", "bump", "drop", "lookup", "remove", "open", "closeall", "chdir", "setcwd"} => Reg(p) = "ip"
    BY <2>1, RegIn, Zenon
  <2>. QED BY <2>1, <2>2
<1>2. /\ Tables /\ r \in Regs /\ Local(u, r, ofile[p]) /\ Opened(u, r, ofile[p], file) /\ Code(u)
      /\ Locks(p, u, r, icache) /\ (trans = p <=> Logged(u)) /\ trans \in Procs \cup {None}
      /\ Unique(icache) /\ RefsAre(icache, reg, file) /\ FilesAre(file, ofile) /\ reg \in [Procs -> Regs]
  BY <1>1, Ours, Mine DEF Local
<1>3. /\ Pointers(u) = {"ip"} /\ Pointers(t) = {"ip"} /\ Locked(u) = {"ip"} /\ Locked(t) = {"ip"}
      /\ Logged(u) /\ Logged(t) /\ (Leaves(u) <=> Leaves(t)) /\ Code(t) /\ ~MayFail(t)
      /\ ~Top(t, "fileclose") /\ ~Top(t, "setcwd") /\ (OnFile(u) <=> OnFile(t))
      /\ Has(u, "exists") /\ (Has(u, "setcwd") <=> Has(t, "setcwd"))
  <2>. HIDE DEF t, r
  <2>. QED BY <1>1, <1>2, Op_exists DEF Flags
<1>. HIDE DEF t, u
<1>4. ~Has(t, "bump") /\ Arguments(t, r)
  BY <1>1, <1>3, NoBump
<1>5. r.err = CommitIp
  <2>1. MayFail(u) /\ Fail(u) = CommitIp
    BY <1>3 DEF MayFail, Fail
  <2>. QED BY <1>2, <2>1 DEF Local, Arguments
<1>6. Local(t, r, ofile[p])
  <2>1. (\A y \in CallPtrs : r[y] # None <=> y \in Pointers(t)) /\ r["cwd"] # None
    BY <1>1, <1>2, <1>3 DEF Local, Holding
  <2>2. Leaves(t) /\ ~Has(t, "setcwd") => \A fd \in 1 .. NOFILE : ofile[p][fd] = None
    BY <1>2, <1>3 DEF Local, Descriptors
  <2>. QED BY <1>3, <1>4, <2>1, <2>2, MakeLocal
<1>7. UNCHANGED <<disk, icache, trans, file, ofile, panic>>
  BY DEF CreateExists
<1>8. CASE Goto(p, UnlockPut("ip") \o r.err)
  <2>. DEFINE w == CommitIp
  <2>1. Sum(w, {}, {}, TRUE, FALSE) /\ Shape(w, FALSE, FALSE, FALSE, FALSE, FALSE, FALSE, FALSE, FALSE)
        /\ (\A o : Top(w, o) <=> o = "commit") /\ ~MayFail(w)
    BY IsCommitIp
  <2>2. Goto(p, UnlockPut("ip") \o w)
    BY <1>5, <1>8
  <2>. HIDE DEF w
  <2>3. w \in Seq(Steps) /\ Code(w) /\ ~MayFail(w) /\ ~Leaves(w) /\ ~Top(w, "fileclose") /\ ~Top(w, "setcwd") /\ ~OnFile(w)
        /\ Pointers(w) = {} /\ Locked(w) = {} /\ Logged(w)
    BY <2>1 DEF Sum, Shape
  <2>5. "ip" \in CallPtrs /\ "ip" \notin Pointers(w) /\ "ip" \notin Locked(w)
    BY <2>3 DEF CallPtrs
  <2>6. Pointers(todo[p]) = Pointers(w) \cup {"ip"} /\ Locked(todo[p]) = Locked(w) \cup {"ip"} /\ (Logged(w) <=> Logged(todo[p]))
    BY <1>1, <1>3, <2>3
  <2>7. todo[p] # <<>> /\ ~Top(todo[p], "setcwd") /\ ~Top(todo[p], "iputend")
    BY <1>1
  <2>. QED BY <1>7, <2>2, <2>3, <2>5, <2>6, <2>7, Retreat
<1>9. CASE Proceed(p)
  <2>1. Do(p, r, t)
    BY <1>9 DEF Proceed, Goto, t
  <2>2. /\ (Logged(t) <=> Logged(todo[p])) /\ (OnFile(t) => OnFile(todo[p])) /\ r.fp = reg[p].fp /\ r.fip = reg[p].fip
        /\ Locked(t) = Locked(todo[p]) /\ (\A y \in Ptrs : r[y] = reg[p][y]) /\ ~Top(todo[p], "iputend")
    BY <1>1, <1>3
  <2>. HIDE DEF r
  <2>. QED BY <1>1, <1>2, <1>6, <1>7, <2>1, <2>2, QuietAll
<1>10. Goto(p, UnlockPut("ip") \o r.err) \/ Proceed(p)
  BY Zenon DEF CreateExists
<1>. QED BY <1>8, <1>9, <1>10, Zenon

LEMMA StepUnlinkEntry ==
  ASSUME IInv, NEW p \in Procs, UnlinkEntry(p)
  PROVE  IInv'
<1>. DEFINE t == Rest(p)
            r == reg[p]
            u == On("remove", "ip", t)
<1>1. t \in Seq(Steps) /\ Reg(p) = "ip" /\ todo[p] = u /\ u # <<>> /\ (\A o : Top(u, o) <=> o = "remove") /\ panic = "no"
  <2>1. /\ todo[p] # <<>> /\ todo[p] = On("remove", Reg(p), Rest(p)) /\ Rest(p) \in Seq(Steps) /\ panic = "no"
        /\ <<"remove", Reg(p)>> \in Steps /\ \A o : Top(todo[p], o) <=> o = "remove"
    <3>1. At(p, "remove")
      BY Zenon DEF UnlinkEntry
    <3>. QED BY <3>1, Now
  <2>2. "remove" \in {"create", "exists", "mknode", "bump", "drop", "lookup", "remove", "open", "closeall", "chdir", "setcwd"} => Reg(p) = "ip"
    BY <2>1, RegIn, Zenon
  <2>. QED BY <2>1, <2>2
<1>2. /\ Tables /\ r \in Regs /\ Local(u, r, ofile[p]) /\ Opened(u, r, ofile[p], file) /\ Code(u)
      /\ Locks(p, u, r, icache) /\ (trans = p <=> Logged(u)) /\ trans \in Procs \cup {None}
      /\ Unique(icache) /\ RefsAre(icache, reg, file) /\ FilesAre(file, ofile) /\ reg \in [Procs -> Regs]
  BY <1>1, Ours, Mine DEF Local
<1>3. /\ Pointers(u) = {"ip", "dp"} /\ Pointers(t) = {"ip", "dp"} /\ Locked(u) = {"ip", "dp"} /\ Locked(t) = {"ip", "dp"}
      /\ Logged(u) /\ Logged(t) /\ (Leaves(u) <=> Leaves(t)) /\ Code(t)
      /\ ~Top(t, "fileclose") /\ ~Top(t, "setcwd") /\ (OnFile(u) <=> OnFile(t)) /\ Like(u, t)
  <2>. HIDE DEF t, r
  <2>. QED BY <1>1, <1>2, Op_remove
<1>. HIDE DEF t, u
<1>4. Local(t, r, ofile[p])
  BY <1>1, <1>2, <1>3, SameLocal
<1>5. /\ Locked(t) = Locked(todo[p]) /\ (Logged(t) <=> Logged(todo[p])) /\ (OnFile(t) => OnFile(todo[p]))
      /\ r.fp = reg[p].fp /\ r.fip = reg[p].fip /\ (\A y \in Ptrs : r[y] = reg[p][y]) /\ ~Top(todo[p], "iputend")
      /\ todo[p] # <<>> /\ ~Top(todo[p], "setcwd")
  BY <1>1, <1>3
<1>. DEFINE d == icache[r.dp].inum
            e == icache[r.ip]
            n == icache[r.dp].nlink - 1
            es == [ents EXCEPT ![d][r.name] = 0]
            A == Panic("unlink: nlink < 1")
            B == Goto(p, UnlockPut("ip") \o UnlinkBad) /\ UNCHANGED <<disk, icache, trans, file, ofile, panic>>
            C == ents' = es /\ SetLinks(p, "dp", n) /\ Proceed(p) /\ UNCHANGED <<used, trans, file, ofile, panic>>
            D == ents' = es /\ UNCHANGED <<icache, din>> /\ Proceed(p) /\ UNCHANGED <<used, trans, file, ofile, panic>>
<1>6. A \/ B \/ C \/ D
  BY Zenon DEF UnlinkEntry
<1>7. es \in [Inums -> [Names -> 0 .. NINODES - 1]] /\ n \in Int /\ "dp" \in Locked(todo[p])
  <2>1. "dp" \in Locked(todo[p])
    BY <1>1, <1>3
  <2>2. d \in Inums /\ r.dp \in Slots
    BY <2>1, LockedEntry
  <2>3. r.name \in Names /\ n \in Int
    BY <1>2, <2>2, RegTypes, NlinkInt
  <2>4. 0 \in 0 .. NINODES - 1
    BY FsAssumption
  <2>5. es \in [Inums -> [Names -> 0 .. NINODES - 1]]
    <3>. HIDE DEF d, r
    <3>. QED BY <1>2, <2>2, <2>3, <2>4, EntsSet DEF Tables
  <2>. QED BY <2>1, <2>3, <2>5
<1>. HIDE DEF r, d, e, es, n
<1>8. CASE A
  <2>1. "unlink: nlink < 1" \notin Messages
    BY Zenon DEF Messages
  <2>. QED BY <1>8, <2>1, PanicStep, Zenon
<1>9. CASE B
  <2>. DEFINE w == UnlinkBad
  <2>1. Sum(w, {"dp"}, {"dp"}, TRUE, FALSE) /\ Shape(w, FALSE, FALSE, FALSE, FALSE, FALSE, FALSE, FALSE, FALSE)
        /\ (\A o : Top(w, o) <=> o = "iunlock") /\ ~MayFail(w)
    BY IsUnlinkBad
  <2>2. Goto(p, UnlockPut("ip") \o w) /\ UNCHANGED <<disk, icache, trans, file, ofile, panic>>
    BY <1>9
  <2>. HIDE DEF w
  <2>3. w \in Seq(Steps) /\ Code(w) /\ ~MayFail(w) /\ ~Leaves(w) /\ ~Top(w, "fileclose") /\ ~Top(w, "setcwd") /\ ~OnFile(w)
        /\ Pointers(w) = {"dp"} /\ Locked(w) = {"dp"} /\ Logged(w)
    BY <2>1 DEF Sum, Shape
  <2>5. "ip" \in CallPtrs /\ "ip" \notin Pointers(w) /\ "ip" \notin Locked(w)
    BY <2>3 DEF CallPtrs
  <2>6. Pointers(todo[p]) = Pointers(w) \cup {"ip"} /\ Locked(todo[p]) = Locked(w) \cup {"ip"} /\ (Logged(w) <=> Logged(todo[p]))
    BY <1>1, <1>3, <2>3
  <2>. QED BY <1>5, <2>2, <2>3, <2>5, <2>6, Retreat
<1>10. CASE C
  <2>1. Do(p, r, t) /\ ents' = es /\ SetLinks(p, "dp", n) /\ UNCHANGED <<used, trans, file, ofile, panic>>
    BY <1>10 DEF Proceed, Goto, t, r
  <2>. QED BY <1>1, <1>2, <1>4, <1>5, <1>7, <2>1, LinksStep
<1>11. CASE D
  <2>1. Do(p, r, t) /\ ents' = es /\ UNCHANGED <<icache, din, used, trans, file, ofile, panic>>
    BY <1>11 DEF Proceed, Goto, t, r
  <2>2. Tables'
    BY <1>2, <1>7, <2>1 DEF Tables
  <2>3. SameFiles(file, file') /\ icache' = icache /\ din' = din /\ ofile' = ofile /\ panic' = panic /\ trans' = trans
    BY <2>1 DEF SameFiles
  <2>4. LogBy(p, t, trans, trans') /\ trans' \in Procs \cup {None}
    BY <1>1, <1>2, <1>3, <2>3 DEF LogBy
  <2>5. \A x \in Locked(t) : r[x] = reg[p][x]
    BY DEF r
  <2>6. Opened(t, r, ofile[p], file')
    BY <1>2, <1>3, <2>3, OpenedKept
  <2>. QED BY <1>1, <1>2, <1>4, <1>5, <2>1, <2>2, <2>3, <2>4, <2>5, <2>6, Quiet
<1>. HIDE DEF A, B, C, D
<1>. QED BY <1>6, <1>8, <1>9, <1>10, <1>11, Zenon

-----------------------------------------------------------------------------
(* Inodes that are looked up.                                              *)

\* Register x, that was empty, gets the entry v.
LEMMA GetStep ==
  ASSUME IInv, NEW p \in Procs, NEW r \in Regs, NEW t \in Seq(Steps), Do(p, r, t), UNCHANGED <<ents, used, trans, file, ofile, panic>>,
         NEW x \in Ptrs, NEW v \in Slots, Touch(icache, icache', v), icache' \in [Slots -> Inodes],
         RefsBut(icache, icache', v, 1), reg[p][x] = None, r[x] = v, RegBut(reg[p], r, x, x),
         r.fp = reg[p].fp, r.fip = reg[p].fip, ~Top(todo[p], "iputend"), Local(t, r, ofile[p]),
         Logged(t) <=> Logged(todo[p]), OnFile(t) => OnFile(todo[p]), Locked(t) = Locked(todo[p]),
         \A y \in Locked(t) : r[y] = reg[p][y], din' \in [Inums -> Dinodes],
         \A s \in Slots : icache[s].ref > 0 /\ icache[s].valid =>
           din'[icache[s].inum] = din[icache[s].inum] \/ (icache[s].type = "none" /\ icache[s].busy # None)
  PROVE  IInv'
<1>1. /\ Unique(icache') /\ Copied(icache', din') /\ BusyBy(p, icache, icache')
      /\ Freeing(icache', [todo EXCEPT ![p] = t], [reg EXCEPT ![p] = r])
  BY Touched
<1>2. \A s \in Slots : icache'[s].busy = icache[s].busy
  BY DEF Touch, Only
<1>3. Locks(p, t, r, icache')
  <2>1. Locks(p, todo[p], reg[p], icache)
    BY Mine
  <2>. QED BY <1>2, <2>1, LocksKept
<1>4. RefsAre(icache', [reg EXCEPT ![p] = r], file')
  BY Ours, RefsGet
<1>5. Tables'
  BY Ours DEF Tables
<1>6. trans' = trans /\ ofile' = ofile /\ panic' = panic /\ SameFiles(file, file')
  BY DEF SameFiles
<1>. QED BY <1>1, <1>3, <1>4, <1>5, <1>6, CacheStep

LEMMA StepUnlinkLookup ==
  ASSUME IInv, NEW p \in Procs, UnlinkLookup(p)
  PROVE  IInv'
<1>. DEFINE t == Rest(p)
            r == reg[p]
            u == On("lookup", "ip", t)
<1>1. t \in Seq(Steps) /\ Reg(p) = "ip" /\ todo[p] = u /\ u # <<>> /\ (\A o : Top(u, o) <=> o = "lookup") /\ panic = "no"
  <2>1. /\ todo[p] # <<>> /\ todo[p] = On("lookup", Reg(p), Rest(p)) /\ Rest(p) \in Seq(Steps) /\ panic = "no"
        /\ <<"lookup", Reg(p)>> \in Steps /\ \A o : Top(todo[p], o) <=> o = "lookup"
    <3>1. At(p, "lookup")
      BY Zenon DEF UnlinkLookup
    <3>. QED BY <3>1, Now
  <2>2. "lookup" \in {"create", "exists", "mknode", "bump", "drop", "lookup", "remove", "open", "closeall", "chdir", "setcwd"} => Reg(p) = "ip"
    BY <2>1, RegIn, Zenon
  <2>. QED BY <2>1, <2>2
<1>2. /\ Tables /\ r \in Regs /\ Local(u, r, ofile[p]) /\ Opened(u, r, ofile[p], file) /\ Code(u)
      /\ Locks(p, u, r, icache) /\ (trans = p <=> Logged(u)) /\ trans \in Procs \cup {None}
      /\ Unique(icache) /\ RefsAre(icache, reg, file) /\ FilesAre(file, ofile) /\ reg \in [Procs -> Regs]
  BY <1>1, Ours, Mine DEF Local
<1>3. /\ Pointers(u) = {"dp"} /\ Pointers(t) = {"ip", "dp"} /\ Locked(u) = {"dp"} /\ Locked(t) = {"dp"}
      /\ Logged(u) /\ Logged(t) /\ (Leaves(u) <=> Leaves(t)) /\ Code(t)
      /\ ~Top(t, "fileclose") /\ ~Top(t, "setcwd") /\ (OnFile(u) <=> OnFile(t)) /\ Like(u, t)
  <2>. HIDE DEF t, r
  <2>1. /\ Pointers(u) = Pointers(t) \ {"ip"} /\ Locked(u) = Locked(t) /\ Pointers(t) = {"ip", "dp"} /\ Locked(t) = {"dp"}
        /\ (Logged(u) <=> Logged(t)) /\ Logged(t) /\ (Leaves(u) <=> Leaves(t)) /\ Code(t)
        /\ ~Top(t, "fileclose") /\ ~Top(t, "setcwd") /\ (OnFile(u) <=> OnFile(t)) /\ Like(u, t)
    BY <1>1, <1>2, Op_lookup
  <2>. QED BY <2>1
<1>. HIDE DEF t, u
<1>. DEFINE i == ents[icache[r.dp].inum][r.name]
            v == IgetSlot(i)
            h == [r EXCEPT !.ip = v]
            A == Goto(p, UnlinkBad) /\ UNCHANGED <<disk, icache, trans, file, ofile, panic>>
            B == Panic("iget: no inodes")
            C == /\ i # 0 /\ ~IgetPanics(i)
                 /\ icache' = Iget(i) /\ Do(p, h, t) /\ UNCHANGED <<disk, trans, file, ofile, panic>>
<1>4. A \/ B \/ C
  BY Zenon DEF UnlinkLookup, t
<1>5. i \in 0 .. NINODES - 1
  <2>1. "dp" \in Locked(todo[p])
    BY <1>1, <1>3
  <2>2. icache[r.dp].inum \in Inums
    BY <2>1, LockedEntry
  <2>3. r.name \in Names
    BY <1>2, RegTypes
  <2>. QED BY <1>2, <2>2, <2>3 DEF Tables
<1>6. todo[p] # <<>> /\ ~Top(todo[p], "setcwd") /\ ~Top(todo[p], "iputend")
  BY <1>1
<1>. HIDE DEF i
<1>7. CASE A
  <2>. DEFINE w == UnlinkBad
  <2>1. Sum(w, {"dp"}, {"dp"}, TRUE, FALSE) /\ Shape(w, FALSE, FALSE, FALSE, FALSE, FALSE, FALSE, FALSE, FALSE)
        /\ (\A o : Top(w, o) <=> o = "iunlock") /\ ~MayFail(w)
    BY IsUnlinkBad
  <2>2. Goto(p, w) /\ UNCHANGED <<disk, icache, trans, file, ofile, panic>>
    BY <1>7
  <2>. HIDE DEF w
  <2>3. w \in Seq(Steps) /\ Code(w) /\ ~MayFail(w) /\ ~Leaves(w) /\ ~Top(w, "fileclose") /\ ~Top(w, "setcwd") /\ ~OnFile(w)
        /\ Pointers(w) = {"dp"} /\ Locked(w) = {"dp"} /\ Logged(w)
    BY <2>1 DEF Sum, Shape
  <2>6. Pointers(w) = Pointers(todo[p]) /\ Locked(w) = Locked(todo[p]) /\ (Logged(w) <=> Logged(todo[p])) /\ (OnFile(w) => OnFile(todo[p]))
    BY <1>1, <1>3, <2>3
  <2>. QED BY <1>6, <2>2, <2>3, <2>6, Jump
<1>8. CASE B
  <2>1. "iget: no inodes" \notin Messages
    BY Zenon DEF Messages
  <2>. QED BY <1>8, <2>1, PanicStep, Zenon
<1>9. CASE C
  <2>1. i \in Inums /\ ~IgetPanics(i) /\ icache' = Iget(i) /\ Do(p, h, t) /\ UNCHANGED <<disk, trans, file, ofile, panic>>
    BY <1>5, <1>9, FsAssumption DEF Inums
  <2>2. v = IgetSlot(i)
    OBVIOUS
  <2>. HIDE DEF v
  <2>3. v \in Slots /\ Touch(icache, icache', v) /\ icache' \in [Slots -> Inodes] /\ RefsBut(icache, icache', v, 1)
    BY <2>1, <2>2, IgetIs
  <2>4. SetTo(r, "ip", v, h)
    <3>1. "ip" \in Ptrs /\ v \in Slots \cup {None}
      BY <2>3 DEF Ptrs
    <3>2. SetTo(r, "ip", v, [r EXCEPT !["ip"] = v])
      BY <1>2, <3>1, SetIs, Zenon
    <3>. QED BY <3>2
  <2>. HIDE DEF h
  <2>5. Local(t, h, ofile[p])
    <3>1. (\A y \in CallPtrs : r[y] # None <=> y \in {"dp"}) /\ r["cwd"] # None
      BY <1>1, <1>2, <1>3 DEF Local, Holding
    <3>2. (\A y \in CallPtrs : h[y] # None <=> y \in Pointers(t)) /\ h["cwd"] # None
      BY <1>3, <2>3, <2>4, <3>1, NotNone DEF SetTo, Ptrs, CallPtrs
    <3>3. Leaves(t) /\ ~Has(t, "setcwd") => \A fd \in 1 .. NOFILE : ofile[p][fd] = None
      BY <1>2, <1>3, LikeFails DEF Local, Descriptors
    <3>4. Arguments(t, h)
      <4>1. Arguments(t, r)
        BY <1>2, <1>3, LikeArgs DEF Local
      <4>. QED BY <2>4, <4>1, ArgsKept DEF SetTo
    <3>. QED BY <1>3, <3>2, <3>3, <3>4, MakeLocal
  <2>6. reg[p]["ip"] = None /\ h["ip"] = v /\ RegBut(reg[p], h, "ip", "ip") /\ "ip" \in Ptrs /\ h \in Regs
        /\ h.fp = reg[p].fp /\ h.fip = reg[p].fip
    <3>1. r["ip"] = None
      BY <1>2, <1>3 DEF Local, Holding, CallPtrs
    <3>. QED BY <2>4, <3>1 DEF SetTo, RegBut, Ptrs
  <2>7. Locked(t) = Locked(todo[p]) /\ (Logged(t) <=> Logged(todo[p])) /\ (OnFile(t) => OnFile(todo[p]))
        /\ (\A y \in Locked(t) : h[y] = reg[p][y])
    BY <1>1, <1>3, <2>4 DEF SetTo, Ptrs
  <2>8. /\ UNCHANGED <<ents, used, trans, file, ofile, panic>> /\ din' = din /\ din \in [Inums -> Dinodes]
    BY <1>2, <2>1 DEF disk, Tables
  <2>. QED BY <1>1, <1>6, <2>1, <2>3, <2>5, <2>6, <2>7, <2>8, GetStep
<1>. HIDE DEF A, B, C
<1>. QED BY <1>4, <1>7, <1>8, <1>9, Zenon

\* What is left of a walk: the steps c in the place of t, and the registers h
\* in the place of r, with w in ip if it is over.
WalkCode(t, c) ==
  /\ c \in Seq(Steps) /\ Code(c) /\ Locked(c) = {} /\ (Logged(c) <=> Logged(t))
  /\ ~Top(c, "fileclose") /\ ~Top(c, "setcwd") /\ (OnFile(c) => OnFile(t)) /\ "ff" \notin Pointers(c)
  /\ (Leaves(c) /\ ~Has(c, "setcwd") => Leaves(t) /\ ~Has(t, "setcwd"))
Moved(r, h, x, z) == h[x] = None /\ r[z] = None /\ h[z] = r[x] /\ RegBut(r, h, x, z)
WalkRegs(r, h) ==
  /\ h \in Regs /\ h["cwd"] = r["cwd"] /\ h["ff"] = r["ff"] /\ h.fp = r.fp /\ h.fip = r.fip
  /\ (\A z \in Ptrs : h[z] = r[z]) \/ Moved(r, h, "w", "ip")
WalkOk(r, t, h, c) ==
  /\ WalkCode(t, c) /\ WalkRegs(r, h) /\ Arguments(c, h)
  /\ \A z \in CallPtrs : z # "ff" => (h[z] # None <=> z \in Pointers(c))

LEMMA WalkIs ==
  ASSUME NEW r \in Regs, NEW y \in {"ip", "dp"}, NEW t \in Seq(Steps), NEW u, u = On("element", y, t), Code(u),
         Arguments(u, r), r["w"] \in Slots,
         \A z \in CallPtrs : z # "ff" => (r[z] # None <=> z \in Pointers(Fail(t)) \cup {"w"}),
         NEW nx, nx = Walk(r, y, t)
  PROVE  WalkOk(r, t, nx.r, nx.code)
<1>. DEFINE f == Fail(t)
<1>1. /\ Pointers(u) = (Pointers(t) \ {y}) \cup {"w"} /\ Locked(u) = {"w"} /\ (Logged(u) <=> Logged(t)) /\ (Leaves(u) <=> Leaves(t))
      /\ Code(t) /\ ~Top(t, "fileclose") /\ ~Top(t, "setcwd") /\ Pointers(t) = Pointers(f) \cup {y} /\ y \notin Pointers(f)
      /\ Locked(t) = {} /\ (Logged(t) <=> Logged(f)) /\ (~Has(t, "bump") => ~Walks(t, "ip") /\ ~Walks(t, "dp"))
      /\ (y = "dp" => ~Has(t, "bump")) /\ (OnFile(u) <=> OnFile(t))
      /\ (Walks(u, "ip") <=> y = "ip" \/ Walks(t, "ip")) /\ (Walks(u, "dp") <=> y = "dp" \/ Walks(t, "dp"))
      /\ u \in Seq(Steps) /\ u # <<>> /\ \A o : Top(u, o) <=> o = "element"
  <2>1. Locked(u) = Locked(t) \cup {"w"} /\ Locked(t) = {}
    BY Op_element
  <2>2. Locked(u) = {"w"}
    BY <2>1
  <2>. QED BY <2>2, Op_element
<1>2. \A o \in Flags : Has(u, o) <=> Has(t, o)
  BY Op_element
<1>3. /\ (Has(u, "create") <=> Has(t, "create")) /\ (Has(u, "exists") <=> Has(t, "exists")) /\ (Has(u, "entry") <=> Has(t, "entry"))
      /\ (Has(u, "bump") <=> Has(t, "bump")) /\ (Has(u, "setcwd") <=> Has(t, "setcwd"))
  BY <1>2 DEF Flags
<1>4. Fail(u) = f /\ MayFail(u)
  BY <1>1, <1>3 DEF Fail, MayFail
<1>5. /\ f \in Seq(Steps) /\ Code(f) /\ Locked(f) = {} /\ ~Leaves(f) /\ Pointers(f) \subseteq {"ip"} /\ ~OnFile(f)
      /\ ~MayFail(f) /\ ~Top(f, "setcwd") /\ ~Top(f, "fileclose")
  BY FailIs
<1>6. /\ r.err = f /\ (y = "ip" => ~r.parent) /\ (y = "dp" => r.parent) /\ r.path \in Paths /\ (Has(t, "bump") => r.new \in Paths)
  BY <1>1, <1>3, <1>4 DEF Arguments
<1>. HIDE DEF f
<1>7. CASE r.path.elems # <<>>
  <2>. DEFINE a == [r EXCEPT !.name = Head(r.path.elems)]
              q == [r.path EXCEPT !.elems = Tail(r.path.elems)]
              h == [a EXCEPT !.path = q]
              c == On("ilock", "w", u)
  <2>1. Head(r.path.elems) \in Names /\ q \in Paths
    <3>1. r.path.elems \in Seq(Names) /\ r.path \in [abs : BOOLEAN, elems : Seq(Names)]
      BY <1>6 DEF Paths
    <3>2. Head(r.path.elems) \in Names /\ Tail(r.path.elems) \in Seq(Names)
      BY <1>7, <3>1
    <3>3. q \in [abs : BOOLEAN, elems : Seq(Names)]
      BY <3>1, <3>2
    <3>. QED BY <3>2, <3>3 DEF Paths
  <2>2. nx = [r |-> h, code |-> c]
    <3>1. Cat(<<<<"ilock", "w">>, <<"element", y>>>>, t) = c
      BY Piece23
    <3>2. Walk(r, y, t) = [r |-> [r EXCEPT !.name = Head(r.path.elems), !.path.elems = Tail(@)],
                           code |-> <<<<"ilock", "w">>, <<"element", y>>>> \o t]
      BY <1>7, Zenon DEF Walk
    <3>3. [r EXCEPT !.name = Head(r.path.elems), !.path.elems = Tail(@)] = h
      BY DEF Regs
    <3>4. <<<<"ilock", "w">>, <<"element", y>>>> \o t = c
      BY <3>1, Zenon DEF Cat
    <3>. QED BY <3>2, <3>3, <3>4, Zenon
  <2>3. ButField(r, a, "name")
    BY <2>1, SetName, Zenon
  <2>4. a \in Regs /\ q \in Paths \cup {None}
    BY <2>1, <2>3 DEF ButField
  <2>. HIDE DEF a, q
  <2>5. ButField(a, h, "path") /\ h.path = q
    BY <2>4, SetPath, Zenon
  <2>. HIDE DEF h
  <2>6. /\ c \in Seq(Steps) /\ Pointers(c) = Pointers(u) /\ Locked(c) = Locked(u) \ {"w"} /\ (Logged(c) <=> Logged(u)) /\ (Leaves(c) <=> Leaves(u))
        /\ Code(c) /\ ~Top(c, "setcwd") /\ ~Top(c, "fileclose") /\ (OnFile(c) <=> OnFile(u)) /\ Like(c, u)
    <3>1. "w" \in CallPtrs \cup {"fip"} /\ "w" # "fip" /\ "w" \in Locked(u) /\ "w" \in Pointers(u) \cup {"fip"} /\ ~Top(u, "fileclose") /\ ~Top(u, "setcwd")
      BY <1>1 DEF CallPtrs
    <3>. QED BY <1>1, <3>1, Op_ilock
  <2>. HIDE DEF c
  <2>7. Pointers(c) = Pointers(f) \cup {"w"} /\ Locked(c) = {}
    <3>1. Pointers(u) = Pointers(f) \cup {"w"}
      BY <1>1
    <3>. QED BY <1>1, <2>6, <3>1
  <2>8. WalkCode(t, c)
    <3>1. Has(c, "setcwd") <=> Has(t, "setcwd")
      BY <1>3, <2>6, LikeFails
    <3>. QED BY <1>1, <1>5, <2>6, <2>7, <3>1 DEF WalkCode
  <2>9. /\ h \in Regs /\ (\A z \in Ptrs : h[z] = r[z]) /\ h.fp = r.fp /\ h.fip = r.fip /\ h.err = r.err /\ h.new = r.new
        /\ h.parent = r.parent /\ h.path \in Paths
    BY <2>1, <2>3, <2>5 DEF ButField, Fields, Ptrs
  <2>10. WalkRegs(r, h)
    BY <2>9 DEF WalkRegs, Ptrs
  <2>11. Arguments(c, h)
    <3>1. Arguments(u, h)
      BY <2>9 DEF Arguments
    <3>. QED BY <2>6, <3>1, LikeArgs
  <2>12. \A z \in CallPtrs : z # "ff" => (h[z] # None <=> z \in Pointers(c))
    BY <2>7, <2>9 DEF CallPtrs, Ptrs, f
  <2>13. WalkOk(r, t, h, c)
    BY <2>8, <2>10, <2>11, <2>12 DEF WalkOk
  <2>14. nx.r = h /\ nx.code = c
    BY <2>2
  <2>. QED BY <2>13, <2>14, Zenon
<1>8. CASE ~(r.path.elems # <<>>) /\ r.parent
  <2>. DEFINE c == On("iput", "w", f)
  <2>1. nx = [r |-> r, code |-> c]
    <3>1. Cat(<<<<"iput", "w">>>>, f) = c
      BY <1>5, Piece24
    <3>2. Walk(r, y, t) = [r |-> r, code |-> <<<<"iput", "w">>>> \o r.err]
      BY <1>8, Zenon DEF Walk
    <3>. QED BY <1>6, <3>1, <3>2, Zenon DEF Cat
  <2>2. "w" \in CallPtrs /\ "w" \notin Locked(f) /\ "w" \notin Pointers(f)
    BY <1>5 DEF CallPtrs
  <2>3. /\ c \in Seq(Steps) /\ Pointers(c) = Pointers(f) \cup {"w"} /\ Locked(c) = Locked(f) /\ (Logged(c) <=> Logged(f)) /\ (Leaves(c) <=> Leaves(f))
        /\ Code(c) /\ ~Top(c, "setcwd") /\ ~Top(c, "fileclose") /\ (OnFile(c) <=> OnFile(f)) /\ Like(c, f)
    BY <1>5, <2>2, Op_iput
  <2>. HIDE DEF c
  <2>4. WalkCode(t, c)
    BY <1>1, <1>5, <2>3 DEF WalkCode
  <2>5. Arguments(c, r)
    BY <1>5, <2>3, LikeFails, NoBump
  <2>6. WalkRegs(r, r)
    BY DEF WalkRegs
  <2>7. \A z \in CallPtrs : z # "ff" => (r[z] # None <=> z \in Pointers(c))
    BY <2>3 DEF f
  <2>8. WalkOk(r, t, r, c)
    BY <2>4, <2>5, <2>6, <2>7 DEF WalkOk
  <2>14. nx.r = r /\ nx.code = c
    BY <2>1
  <2>. QED BY <2>8, <2>14, Zenon
<1>9. CASE ~(r.path.elems # <<>>) /\ ~r.parent
  <2>. DEFINE w == r.w
              a == [r EXCEPT !["ip"] = w]
              h == [a EXCEPT !["w"] = None]
  <2>1. nx = [r |-> h, code |-> t]
    <3>1. Walk(r, y, t) = [r |-> [r EXCEPT !.ip = r.w, !.w = None], code |-> t]
      BY <1>9, Zenon DEF Walk
    <3>. QED BY <3>1
  <2>2. y = "ip"
    BY <1>6, <1>9
  <2>3. w \in Slots /\ w = r["w"] /\ "ip" \in Ptrs /\ "w" \in Ptrs /\ None \in Slots \cup {None} /\ w \in Slots \cup {None}
    BY DEF Ptrs
  <2>. HIDE DEF w
  <2>4. SetTo(r, "ip", w, a)
    BY <2>3, SetIs, Zenon
  <2>. HIDE DEF a
  <2>5. SetTo(a, "w", None, h)
    <3>1. a \in Regs
      BY <2>4, Zenon DEF SetTo
    <3>. QED BY <2>3, <3>1, SetIs, Zenon
  <2>. HIDE DEF h
  <2>6. /\ h \in Regs /\ h["ip"] = w /\ h["w"] = None /\ h.fp = r.fp /\ h.fip = r.fip /\ h.err = r.err /\ h.new = r.new /\ h.parent = r.parent /\ h.path = r.path
        /\ (\A z \in Ptrs : z # "ip" /\ z # "w" => h[z] = r[z])
    BY <2>4, <2>5 DEF SetTo, Ptrs
  <2>7. r["ip"] = None
    BY <1>1, <2>2 DEF CallPtrs, f
  <2>8. WalkRegs(r, h)
    BY <2>3, <2>6, <2>7 DEF WalkRegs, Moved, RegBut, Ptrs
  <2>9. Arguments(t, h)
    BY <1>1, <1>3, <1>4, <1>6, <2>2, <2>6 DEF Arguments, f
  <2>10. WalkCode(t, t)
    BY <1>1, <1>5, <2>2 DEF WalkCode
  <2>11. \A z \in CallPtrs : z # "ff" => (h[z] # None <=> z \in Pointers(t))
    BY <1>1, <1>5, <2>2, <2>3, <2>6, NotNone DEF CallPtrs, Ptrs, f
  <2>12. WalkOk(r, t, h, t)
    BY <2>8, <2>9, <2>10, <2>11 DEF WalkOk
  <2>14. nx.r = h /\ nx.code = t
    BY <2>1
  <2>. QED BY <2>12, <2>14, Zenon
<1>. QED BY <1>7, <1>8, <1>9, Zenon

\* The references after the walk.
LEMMA WalkRefs ==
  ASSUME NEW g \in [Procs -> Regs], NEW p \in Procs, NEW r \in Regs, NEW h, NEW ic, NEW fl, r["w"] \in Slots,
         WalkRegs(r, h), RefsAre(ic, [g EXCEPT ![p] = r], fl), \A s \in Slots : ic[s].ref \in Nat
  PROVE  RefsAre(ic, [g EXCEPT ![p] = h], fl)
<1>. DEFINE k == [g EXCEPT ![p] = r]
<1>1. k \in [Procs -> Regs] /\ k[p] = r /\ [k EXCEPT ![p] = h] = [g EXCEPT ![p] = h] /\ h \in Regs
  BY DEF WalkRegs
<1>2. RefsKept(ic, ic) /\ RefsAre(ic, k, fl)
  BY DEF RefsKept
<1>. HIDE DEF k
<1>3. CASE \A z \in Ptrs : h[z] = r[z]
  <2>1. RefsAre(ic, [k EXCEPT ![p] = h], fl)
    BY <1>1, <1>2, <1>3, RefsSame
  <2>. QED BY <1>1, <2>1
<1>4. CASE Moved(r, h, "w", "ip")
  <2>1. "w" \in Ptrs /\ "ip" \in Ptrs /\ "w" # "ip"
    BY DEF Ptrs
  <2>2. k[p]["w"] = r["w"] /\ k[p]["ip"] = None /\ h["w"] = None /\ h["ip"] = r["w"] /\ RegBut(k[p], h, "w", "ip")
    BY <1>1, <1>4 DEF Moved
  <2>3. RefsAre(ic, [k EXCEPT ![p] = h], fl)
    BY <1>1, <1>2, <2>1, <2>2, RefsMove
  <2>. QED BY <1>1, <2>3
<1>. QED BY <1>3, <1>4 DEF WalkRegs

\* namex starts from entry v.
LEMMA WalkGo ==
  ASSUME IInv, NEW p \in Procs, NEW y \in {"ip", "dp"}, NEW t \in Seq(Steps), NEW u, u = On("namex", y, t), todo[p] = u,
         NEW v \in Slots, Touch(icache, icache', v), icache' \in [Slots -> Inodes], RefsBut(icache, icache', v, 1),
         NEW nx, nx = Walk([reg[p] EXCEPT !.w = v], y, t), Do(p, nx.r, nx.code), UNCHANGED <<disk, trans, file, ofile, panic>>
  PROVE  IInv'
<1>. DEFINE r == reg[p]
            a == [r EXCEPT !["w"] = v]
            e == On("element", y, t)
<1>1. /\ r \in Regs /\ Local(u, r, ofile[p]) /\ Code(u) /\ Locks(p, u, r, icache) /\ Holding(u, r) /\ Arguments(u, r) /\ Descriptors(u, r, ofile[p])
  BY Mine DEF Local
<1>2. nx = Walk(a, y, t)
  OBVIOUS
<1>3. SetTo(r, "w", v, a)
  <2>1. "w" \in Ptrs /\ v \in Slots \cup {None}
    BY DEF Ptrs
  <2>. QED BY <1>1, <2>1, SetIs, Zenon
<1>. HIDE DEF r, a
<1>4. /\ Pointers(u) = Pointers(t) \ {y} /\ Locked(u) = Locked(t) /\ (Logged(u) <=> Logged(t)) /\ (Leaves(u) <=> Leaves(t))
      /\ Code(t) /\ ~Top(t, "fileclose") /\ ~Top(t, "setcwd") /\ Pointers(t) = Pointers(Fail(t)) \cup {y} /\ y \notin Pointers(Fail(t))
      /\ Locked(t) = {} /\ (OnFile(u) <=> OnFile(t)) /\ u # <<>> /\ (\A o : Top(u, o) <=> o = "namex")
  BY <1>1, Op_namex
<1>5. Pointers(u) = Pointers(Fail(t)) /\ "ff" \notin Pointers(u) /\ "w" \notin Pointers(u)
  <2>1. Pointers(Fail(t)) \subseteq {"ip"}
    BY FailIs
  <2>. QED BY <1>4, <2>1
<1>6. Code(e) /\ Like(u, e)
  <2>1. Code(e)
    <3>1. /\ (Logged(t) <=> Logged(Fail(t))) /\ (y = "dp" => ~Has(t, "bump"))
          /\ (~Has(t, "bump") => ~Walks(t, "ip") /\ ~Walks(t, "dp"))
      BY <1>1, Op_namex
    <3>. QED BY <1>4, <3>1, Op_element
  <2>2. /\ (Walks(u, "ip") <=> y = "ip" \/ Walks(t, "ip")) /\ (Walks(u, "dp") <=> y = "dp" \/ Walks(t, "dp"))
        /\ (\A o \in Flags : Has(u, o) <=> Has(t, o))
    BY Op_namex
  <2>3. /\ (Walks(e, "ip") <=> y = "ip" \/ Walks(t, "ip")) /\ (Walks(e, "dp") <=> y = "dp" \/ Walks(t, "dp"))
        /\ (\A o \in Flags : Has(e, o) <=> Has(t, o))
    BY Op_element
  <2>. HIDE DEF e
  <2>4. Like(u, e)
    BY <2>2, <2>3 DEF Like
  <2>. QED BY <2>1, <2>4
<1>7. e = On("element", y, t)
  OBVIOUS
<1>. HIDE DEF e
<1>8. Arguments(e, a)
  <2>1. Arguments(u, a)
    BY <1>1, <1>3, ArgsKept DEF SetTo
  <2>. QED BY <1>6, <2>1, LikeArgs
<1>9. a["w"] \in Slots /\ a \in Regs
  BY <1>3 DEF SetTo
<1>10. \A z \in CallPtrs : z # "ff" => (a[z] # None <=> z \in Pointers(Fail(t)) \cup {"w"})
  BY <1>1, <1>3, <1>5, NotNone DEF SetTo, Holding, CallPtrs, Ptrs
<1>. DEFINE h == nx.r
            c == nx.code
<1>11. WalkOk(a, t, h, c)
  BY <1>2, <1>6, <1>7, <1>8, <1>9, <1>10, WalkIs
<1>12. Do(p, h, c)
  OBVIOUS
<1>. HIDE DEF h, c
<1>13. r["w"] = None /\ r["ff"] = None /\ r["cwd"] # None
  BY <1>1, <1>4, <1>5 DEF Holding, CallPtrs
<1>14. RefsAre(icache', [reg EXCEPT ![p] = a], file')
  <2>1. RegBut(reg[p], a, "w", "w") /\ reg[p]["w"] = None /\ a["w"] = v /\ "w" \in Ptrs /\ file' = file
    BY <1>3, <1>13 DEF SetTo, RegBut, r, Ptrs
  <2>. QED BY <1>9, <2>1, Ours, RefsGet
<1>15. RefsAre(icache', [reg EXCEPT ![p] = h], file')
  <2>1. \A s \in Slots : icache'[s].ref \in Nat
    BY DEF Inodes
  <2>. QED BY <1>9, <1>11, <1>14, <2>1, Ours, WalkRefs DEF WalkOk
<1>16. UNCHANGED <<din, ents, used>> /\ trans' = trans /\ ofile' = ofile /\ panic' = panic /\ SameFiles(file, file')
  BY DEF SameFiles, disk
<1>17. /\ Unique(icache') /\ Copied(icache', din') /\ BusyBy(p, icache, icache')
       /\ Freeing(icache', [todo EXCEPT ![p] = c], [reg EXCEPT ![p] = h])
  <2>1. ~Top(todo[p], "iputend")
    BY <1>4
  <2>. QED BY <1>16, <2>1, Touched
<1>18. /\ c \in Seq(Steps) /\ Code(c) /\ Locked(c) = {} /\ (Logged(c) <=> Logged(t)) /\ h \in Regs
       /\ ~Top(c, "fileclose") /\ ~Top(c, "setcwd") /\ (OnFile(c) => OnFile(t)) /\ "ff" \notin Pointers(c)
       /\ (Leaves(c) /\ ~Has(c, "setcwd") => Leaves(t) /\ ~Has(t, "setcwd"))
       /\ h["cwd"] = a["cwd"] /\ h["ff"] = a["ff"] /\ h.fp = a.fp /\ h.fip = a.fip /\ Arguments(c, h)
       /\ \A z \in CallPtrs : z # "ff" => (h[z] # None <=> z \in Pointers(c))
  BY <1>11 DEF WalkOk, WalkCode, WalkRegs
<1>19. h["cwd"] # None /\ h["ff"] = None /\ h.fp = r.fp /\ h.fip = r.fip
  BY <1>3, <1>13, <1>18 DEF SetTo, Ptrs
<1>20. Local(c, h, ofile[p])
  <2>1. \A z \in CallPtrs : h[z] # None <=> z \in Pointers(c)
    BY <1>18, <1>19
  <2>2. Has(u, "setcwd") <=> Has(t, "setcwd")
    BY Op_namex DEF Flags
  <2>3. Leaves(c) /\ ~Has(c, "setcwd") => \A fd \in 1 .. NOFILE : ofile[p][fd] = None
    BY <1>1, <1>4, <1>18, <2>2 DEF Descriptors
  <2>. QED BY <1>18, <1>19, <2>1, <2>3, MakeLocal
<1>21. Locks(p, c, h, icache')
  <2>1. Locked(u) = {} /\ Locked(c) = {} /\ \A s \in Slots : icache'[s].busy = icache[s].busy
    BY <1>4, <1>18 DEF Touch, Only
  <2>. QED BY <1>1, <2>1 DEF Locks
<1>22. Tables'
  BY <1>16, Ours DEF Tables
<1>23. (Logged(c) <=> Logged(todo[p])) /\ (OnFile(c) => OnFile(todo[p])) /\ h.fp = reg[p].fp /\ h.fip = reg[p].fip
  BY <1>4, <1>18, <1>19 DEF r
<1>. QED BY <1>12, <1>15, <1>16, <1>17, <1>18, <1>20, <1>21, <1>22, <1>23, CacheStep

LEMMA StepNamex ==
  ASSUME IInv, NEW p \in Procs, Namex(p)
  PROVE  IInv'
<1>. DEFINE t == Rest(p)
            r == reg[p]
            x == Reg(p)
            u == On("namex", x, t)
<1>1. t \in Seq(Steps) /\ x \in {"ip", "dp"} /\ todo[p] = u /\ u # <<>> /\ (\A o : Top(u, o) <=> o = "namex") /\ panic = "no"
  <2>1. /\ todo[p] # <<>> /\ todo[p] = On("namex", Reg(p), Rest(p)) /\ Rest(p) \in Seq(Steps) /\ panic = "no"
        /\ <<"namex", Reg(p)>> \in Steps /\ \A o : Top(todo[p], o) <=> o = "namex"
    <3>1. At(p, "namex")
      BY Zenon DEF Namex
    <3>. QED BY <3>1, Now
  <2>2. "namex" \in {"namex", "element"} => Reg(p) \in {"ip", "dp"}
    BY <2>1, RegIn, Zenon
  <2>. QED BY <2>1, <2>2
<1>2. /\ Tables /\ r \in Regs /\ Local(u, r, ofile[p]) /\ Opened(u, r, ofile[p], file) /\ Code(u)
      /\ Locks(p, u, r, icache) /\ (trans = p <=> Logged(u)) /\ trans \in Procs \cup {None}
      /\ Unique(icache) /\ RefsAre(icache, reg, file) /\ FilesAre(file, ofile) /\ reg \in [Procs -> Regs]
  BY <1>1, Ours, Mine DEF Local
<1>. HIDE DEF t, u
<1>. DEFINE nx(v) == Walk([r EXCEPT !.w = v], x, t)
            A == icache' = Idup(r.cwd) /\ Do(p, nx(r.cwd).r, nx(r.cwd).code) /\ UNCHANGED <<disk, trans, file, ofile, panic>>
            B == Panic("iget: no inodes")
            k == IgetSlot(ROOTINO)
            C == /\ ~IgetPanics(ROOTINO) /\ icache' = Iget(ROOTINO) /\ Do(p, nx(k).r, nx(k).code)
                 /\ UNCHANGED <<disk, trans, file, ofile, panic>>
<1>3. A \/ B \/ C
  BY Zenon DEF Namex, t
<1>4. CASE A
  <2>. DEFINE v == r.cwd
              n == nx(v)
  <2>1. v \in Slots /\ icache[v].ref > 0 /\ icache' = Idup(v)
    <3>1. reg[p]["cwd"] \in Slots
      BY <1>1, HasCwd
    <3>2. "cwd" \in Ptrs
      BY DEF Ptrs
    <3>3. icache[reg[p]["cwd"]].ref \in Nat /\ icache[reg[p]["cwd"]].ref >= 1
      BY <3>1, <3>2, PtrRef
    <3>. QED BY <1>4, <3>1, <3>3
  <2>2. Touch(icache, icache', v) /\ icache' \in [Slots -> Inodes] /\ RefsBut(icache, icache', v, 1)
    <3>. HIDE DEF v
    <3>. QED BY <2>1, IdupIs
  <2>3. n = Walk([reg[p] EXCEPT !.w = v], x, t) /\ Do(p, n.r, n.code) /\ UNCHANGED <<disk, trans, file, ofile, panic>>
    BY <1>4
  <2>4. u = On("namex", x, t)
    BY DEF u
  <2>. HIDE DEF v, n, x, r
  <2>. QED BY <1>1, <2>1, <2>2, <2>3, <2>4, WalkGo
<1>5. CASE B
  <2>1. "iget: no inodes" \notin Messages
    BY Zenon DEF Messages
  <2>. QED BY <1>5, <2>1, PanicStep, Zenon
<1>6. CASE C
  <2>. DEFINE v == IgetSlot(ROOTINO)
              n == nx(v)
  <2>1. ROOTINO \in Inums
    BY FsAssumption DEF ROOTINO, Inums
  <2>2. v \in Slots /\ Touch(icache, icache', v) /\ icache' \in [Slots -> Inodes] /\ RefsBut(icache, icache', v, 1)
    <3>1. v = IgetSlot(ROOTINO) /\ ~IgetPanics(ROOTINO) /\ icache' = Iget(ROOTINO)
      BY <1>6
    <3>. HIDE DEF v
    <3>. QED BY <2>1, <3>1, IgetIs
  <2>3. n = Walk([reg[p] EXCEPT !.w = v], x, t) /\ Do(p, n.r, n.code) /\ UNCHANGED <<disk, trans, file, ofile, panic>>
    BY <1>6
  <2>4. u = On("namex", x, t)
    BY DEF u
  <2>. HIDE DEF v, n, x, r
  <2>. QED BY <1>1, <2>2, <2>3, <2>4, WalkGo
<1>. HIDE DEF A, B, C
<1>. QED BY <1>3, <1>4, <1>5, <1>6, Zenon

\* The pointer of register x moves to z, which was empty, and entry v is put in
\* x: the walk goes on.
LEMMA RefsNext ==
  ASSUME NEW g \in [Procs -> Regs], NEW p \in Procs, NEW a \in Regs, NEW ic, NEW fl, NEW ic2,
         NEW s \in Slots, NEW v \in Slots, RefsAre(ic, g, fl), g[p]["w"] = s, g[p]["ff"] = None, a["w"] = v, a["ff"] = s,
         RegBut(g[p], a, "w", "ff"), RefsBut(ic, ic2, v, 1), \A k \in Slots : ic[k].ref \in Nat
  PROVE  RefsAre(ic2, [g EXCEPT ![p] = a], fl)
<1>. DEFINE m == [a EXCEPT !["w"] = None]
            k == [g EXCEPT ![p] = m]
<1>1. SetTo(a, "w", None, m)
  <2>1. "w" \in Ptrs /\ None \in Slots \cup {None}
    BY DEF Ptrs
  <2>. QED BY <2>1, SetIs, Zenon
<1>. HIDE DEF m
<1>2. m \in Regs /\ m["w"] = None /\ m["ff"] = s /\ RegBut(g[p], m, "w", "ff") /\ RegBut(m, a, "w", "w")
  BY <1>1 DEF SetTo, RegBut, Ptrs
<1>3. "w" \in Ptrs /\ "ff" \in Ptrs /\ "w" # "ff" /\ RefsKept(ic, ic)
  BY DEF Ptrs, RefsKept
<1>4. RefsAre(ic, k, fl)
  BY <1>2, <1>3, RefsMove
<1>5. k \in [Procs -> Regs] /\ k[p] = m /\ [k EXCEPT ![p] = a] = [g EXCEPT ![p] = a]
  BY <1>2
<1>. HIDE DEF k
<1>6. RefsAre(ic2, [k EXCEPT ![p] = a], fl)
  BY <1>2, <1>3, <1>4, <1>5, RefsGet
<1>. QED BY <1>5, <1>6

LEMMA StepElement ==
  ASSUME IInv, NEW p \in Procs, Element(p)
  PROVE  IInv'
<1>. DEFINE t == Rest(p)
            r == reg[p]
            x == Reg(p)
            u == On("element", x, t)
<1>1. t \in Seq(Steps) /\ x \in {"ip", "dp"} /\ todo[p] = u /\ u # <<>> /\ (\A o : Top(u, o) <=> o = "element") /\ panic = "no"
  <2>1. /\ todo[p] # <<>> /\ todo[p] = On("element", Reg(p), Rest(p)) /\ Rest(p) \in Seq(Steps) /\ panic = "no"
        /\ <<"element", Reg(p)>> \in Steps /\ \A o : Top(todo[p], o) <=> o = "element"
    <3>1. At(p, "element")
      BY Zenon DEF Element
    <3>. QED BY <3>1, Now
  <2>2. "element" \in {"namex", "element"} => Reg(p) \in {"ip", "dp"}
    BY <2>1, RegIn, Zenon
  <2>. QED BY <2>1, <2>2
<1>2. /\ Tables /\ r \in Regs /\ Local(u, r, ofile[p]) /\ Opened(u, r, ofile[p], file) /\ Code(u)
      /\ Locks(p, u, r, icache) /\ (trans = p <=> Logged(u)) /\ trans \in Procs \cup {None}
      /\ Unique(icache) /\ RefsAre(icache, reg, file) /\ FilesAre(file, ofile) /\ reg \in [Procs -> Regs]
  BY <1>1, Ours, Mine DEF Local
<1>. DEFINE f == Fail(t)
<1>3. /\ Pointers(u) = (Pointers(t) \ {x}) \cup {"w"} /\ Locked(u) = Locked(t) \cup {"w"} /\ (Logged(u) <=> Logged(t)) /\ (Leaves(u) <=> Leaves(t))
      /\ Code(t) /\ ~Top(t, "fileclose") /\ ~Top(t, "setcwd") /\ Pointers(t) = Pointers(f) \cup {x} /\ x \notin Pointers(f)
      /\ Locked(t) = {} /\ (Logged(t) <=> Logged(f)) /\ (~Has(t, "bump") => ~Walks(t, "ip") /\ ~Walks(t, "dp"))
      /\ (x = "dp" => ~Has(t, "bump")) /\ (OnFile(u) <=> OnFile(t))
      /\ (Walks(u, "ip") <=> x = "ip" \/ Walks(t, "ip")) /\ (Walks(u, "dp") <=> x = "dp" \/ Walks(t, "dp"))
      /\ (Has(u, "create") <=> Has(t, "create")) /\ (Has(u, "exists") <=> Has(t, "exists")) /\ (Has(u, "entry") <=> Has(t, "entry"))
      /\ (Has(u, "bump") <=> Has(t, "bump")) /\ (Has(u, "setcwd") <=> Has(t, "setcwd"))
  <2>. HIDE DEF t, r, x
  <2>. QED BY <1>1, <1>2, Op_element DEF Flags
<1>4. u = On("element", x, t)
  OBVIOUS
<1>. HIDE DEF t, u, x
<1>5. /\ f \in Seq(Steps) /\ Code(f) /\ Locked(f) = {} /\ ~Leaves(f) /\ Pointers(f) \subseteq {"ip"} /\ ~OnFile(f)
      /\ ~MayFail(f) /\ ~Top(f, "setcwd") /\ ~Top(f, "fileclose")
  BY FailIs
<1>6. Fail(u) = f /\ MayFail(u)
  BY <1>1, <1>3 DEF Fail, MayFail
<1>7. r.err = f /\ (x = "ip" => ~r.parent) /\ r.path \in Paths
  BY <1>1, <1>2, <1>3, <1>6 DEF Local, Arguments
<1>. HIDE DEF f
<1>8. Pointers(u) = Pointers(f) \cup {"w"} /\ Locked(u) = {"w"} /\ Pointers(u) \subseteq {"ip", "w"}
  BY <1>3, <1>5
<1>9. todo[p] # <<>> /\ ~Top(todo[p], "setcwd") /\ ~Top(todo[p], "iputend") /\ "w" \in Locked(todo[p])
  BY <1>1, <1>8
<1>10. (\A z \in CallPtrs : r[z] # None <=> z \in Pointers(u)) /\ r["cwd"] # None
  BY <1>1, <1>2 DEF Local, Holding
<1>. DEFINE s == r.w
            i == ents[icache[r.w].inum][r.name]
            v == IgetSlot(i)
            nx == Walk([r EXCEPT !.w = v, !.ff = r.w], x, t)
            A == Goto(p, UnlockPut("w") \o r.err) /\ UNCHANGED <<disk, icache, trans, file, ofile, panic>>
            B == /\ r.parent /\ icache' = [icache EXCEPT ![r.w].busy = None]
                 /\ Do(p, [r EXCEPT !.dp = r.w, !.w = None], t) /\ UNCHANGED <<disk, trans, file, ofile, panic>>
            C == Panic("iget: no inodes")
            D == /\ i # 0 /\ ~IgetPanics(i) /\ icache' = Iget(i) /\ Do(p, nx.r, UnlockPut("ff") \o nx.code)
                 /\ UNCHANGED <<disk, trans, file, ofile, panic>>
<1>11. A \/ B \/ C \/ D
  BY Zenon DEF Element, t, x
<1>12. s \in Slots /\ icache[s].busy = p /\ icache[s].ref > 0 /\ icache[s].inum \in Inums /\ s = r["w"] /\ icache[s] \in Inodes
  BY <1>9, LockedEntry
<1>13. CASE A
  <2>1. Goto(p, UnlockPut("w") \o f) /\ UNCHANGED <<disk, icache, trans, file, ofile, panic>>
    BY <1>7, <1>13
  <2>2. "w" \in CallPtrs /\ "w" \notin Pointers(f) /\ "w" \notin Locked(f)
    BY <1>5 DEF CallPtrs
  <2>3. Pointers(todo[p]) = Pointers(f) \cup {"w"} /\ Locked(todo[p]) = Locked(f) \cup {"w"} /\ (Logged(f) <=> Logged(todo[p]))
    BY <1>1, <1>3, <1>5, <1>8
  <2>. QED BY <1>5, <1>9, <2>1, <2>2, <2>3, Retreat
<1>14. CASE B
  <2>. DEFINE a == [r EXCEPT !["dp"] = s]
              h == [a EXCEPT !["w"] = None]
              e == icache[s]
              b == [e EXCEPT !.busy = None]
  <2>1. /\ icache' = [icache EXCEPT ![s] = b] /\ Do(p, h, t) /\ r.parent
        /\ UNCHANGED <<din, ents, used>> /\ trans' = trans /\ file' = file /\ ofile' = ofile /\ panic' = panic
    BY <1>14 DEF disk
  <2>2. x = "dp"
    BY <1>1, <1>7, <2>1
  <2>3. e \in Inodes /\ "dp" \in Ptrs /\ "w" \in Ptrs /\ s \in Slots \cup {None} /\ None \in Slots \cup {None} /\ None \in Procs \cup {None}
    BY <1>12 DEF Ptrs
  <2>. HIDE DEF s, e
  <2>4. /\ b \in Inodes /\ b.ref = e.ref /\ b.inum = e.inum /\ b.busy = None /\ b.valid = e.valid
        /\ b.type = e.type /\ Copy(b) = Copy(e)
    BY <2>3, SetFields
  <2>. HIDE DEF b
  <2>5. SetTo(r, "dp", s, a)
    BY <1>2, <2>3, SetIs, Zenon
  <2>. HIDE DEF a
  <2>6. SetTo(a, "w", None, h)
    <3>1. a \in Regs
      BY <2>5, Zenon DEF SetTo
    <3>. QED BY <2>3, <3>1, SetIs, Zenon
  <2>. HIDE DEF h
  <2>7. /\ h \in Regs /\ h["dp"] = s /\ h["w"] = None /\ h.fp = r.fp /\ h.fip = r.fip /\ h.err = r.err /\ h.new = r.new /\ h.parent = r.parent /\ h.path = r.path
        /\ (\A z \in Ptrs : z # "dp" /\ z # "w" => h[z] = r[z])
    BY <2>5, <2>6 DEF SetTo, Ptrs
  <2>8. r["dp"] = None
    BY <1>8, <1>10 DEF CallPtrs
  <2>9. SetAt(icache, s, b, icache')
    <3>1. SetAt(icache, s, b, [icache EXCEPT ![s] = b])
      BY <1>2, <1>12, <2>4, SetEntry, Zenon DEF Tables
    <3>. QED BY <2>1, <3>1, Zenon
  <2>10. RefsAre(icache', [reg EXCEPT ![p] = h], file')
    <3>1. RefsKept(icache, icache')
      BY <2>4, <2>9 DEF SetAt, Only, RefsKept, e
    <3>2. reg[p]["w"] = s /\ reg[p]["dp"] = None /\ RegBut(reg[p], h, "w", "dp") /\ "w" # "dp" /\ file' = file
      BY <1>12, <2>1, <2>7, <2>8 DEF RegBut, r
    <3>3. \A k \in Slots : icache[k].ref \in Nat
      BY <1>2 DEF Tables, Inodes
    <3>4. RefsAre(icache, reg, file) /\ reg \in [Procs -> Regs] /\ s \in Slots /\ "w" \in Ptrs /\ "dp" \in Ptrs /\ h["w"] = None /\ h["dp"] = s /\ h \in Regs
      BY <1>2, <1>12, <2>3, <2>7
    <3>. QED BY <3>1, <3>2, <3>3, <3>4, RefsMove
  <2>11. Locks(p, t, h, icache')
    <3>1. "w" \in Locked(u) /\ r["w"] = s /\ Locked(t) = Locked(u) \ {"w"} /\ (\A y \in Locked(t) : h[y] = r[y]) /\ p # None
      BY <1>3, <1>8, <1>12, NotNone
    <3>2. icache'[s].busy = None /\ \A k \in Slots : k # s => icache'[k].busy = icache[k].busy
      BY <2>4, <2>9 DEF SetAt, Only
    <3>. QED BY <1>2, <3>1, <3>2, LocksDrop
  <2>12. Local(t, h, ofile[p])
    <3>1. Arguments(t, h)
      BY <1>3, <1>7, <2>2, <2>7 DEF Arguments, f
    <3>2. (\A z \in CallPtrs : h[z] # None <=> z \in Pointers(t)) /\ h["cwd"] # None
      BY <1>3, <1>5, <1>8, <1>10, <1>12, <2>2, <2>7, NotNone DEF CallPtrs, Ptrs
    <3>3. Leaves(t) /\ ~Has(t, "setcwd") => \A fd \in 1 .. NOFILE : ofile[p][fd] = None
      BY <1>2, <1>3 DEF Local, Descriptors
    <3>. QED BY <1>3, <3>1, <3>2, <3>3, MakeLocal
  <2>13. /\ Only(s, icache, icache') /\ icache[s].busy \in {p, None} /\ icache'[s].busy \in {p, None} /\ icache'[s].inum = icache[s].inum
         /\ (\A j \in Inums : j # icache[s].inum => din'[j] = din[j])
         /\ (icache'[s].ref > 0 /\ icache'[s].valid => Copy(icache'[s]) = din'[icache[s].inum] /\ icache'[s].type # "none")
    <3>1. icache[s].busy \in {p, None} /\ icache[s].ref > 0
      BY <1>12
    <3>2. icache[s].valid => icache[s].type # "none" /\ Copy(icache[s]) = din[icache[s].inum]
      BY <1>9, <1>12, <3>1, Stable
    <3>. QED BY <2>1, <2>4, <2>9, <3>1, <3>2 DEF SetAt, e
  <2>14. Tables' /\ SameFiles(file, file')
    <3>1. icache' \in [Slots -> Inodes]
      BY <2>9 DEF SetAt
    <3>. QED BY <1>2, <2>1, <3>1 DEF Tables, SameFiles
  <2>15. (Logged(t) <=> Logged(todo[p])) /\ (OnFile(t) => OnFile(todo[p])) /\ h.fp = reg[p].fp /\ h.fip = reg[p].fip
    BY <1>1, <1>3, <2>7 DEF r
  <2>16. /\ t \in Seq(Steps) /\ ~Top(todo[p], "iputend") /\ s \in Slots /\ icache[s].ref > 0 /\ Do(p, h, t) /\ h \in Regs
         /\ trans' = trans /\ ofile' = ofile /\ panic' = panic
    BY <1>1, <1>9, <1>12, <2>1, <2>7
  <2>. QED BY <2>10, <2>11, <2>12, <2>13, <2>14, <2>15, <2>16, SlotStep
<1>15. CASE C
  <2>1. "iget: no inodes" \notin Messages
    BY Zenon DEF Messages
  <2>. QED BY <1>15, <2>1, PanicStep, Zenon
<1>16. CASE D
  <2>. DEFINE b == [r EXCEPT !["w"] = v]
              a == [b EXCEPT !["ff"] = s]
              h == nx.r
              c == nx.code
              z == UnlockPut("ff") \o c
  <2>1. i \in Inums
    <3>1. i \in 0 .. NINODES - 1
      BY <1>2, <1>12, RegTypes DEF Tables
    <3>2. i # 0
      BY <1>16, Zenon
    <3>. HIDE DEF i
    <3>. QED BY <3>1, <3>2, FsAssumption DEF Inums
  <2>2. /\ nx = Walk(a, x, t) /\ ~IgetPanics(i) /\ icache' = Iget(i) /\ v = IgetSlot(i) /\ Do(p, h, z)
        /\ UNCHANGED <<din, ents, used>> /\ trans' = trans /\ file' = file /\ ofile' = ofile /\ panic' = panic
    <3>1. ~IgetPanics(i) /\ icache' = Iget(i) /\ v = IgetSlot(i) /\ Do(p, h, z) /\ UNCHANGED <<disk, trans, file, ofile, panic>>
      BY <1>16, Zenon
    <3>5. UNCHANGED <<disk, trans, file, ofile, panic>>
      BY <1>16, Zenon
    <3>2. UNCHANGED <<din, ents, used>> /\ trans' = trans /\ file' = file /\ ofile' = ofile /\ panic' = panic
      BY <3>5 DEF disk
    <3>. HIDE DEF v, i
    <3>3. [r EXCEPT !.w = v, !.ff = r.w] = a
      OBVIOUS
    <3>4. nx = Walk(a, x, t)
      BY <3>3, Zenon
    <3>. QED BY <3>1, <3>2, <3>4, Zenon
  <2>. HIDE DEF nx, i, s
  <2>. HIDE DEF v
  <2>3. v \in Slots /\ Touch(icache, icache', v) /\ icache' \in [Slots -> Inodes] /\ RefsBut(icache, icache', v, 1)
    BY <2>1, <2>2, IgetIs
  <2>4. SetTo(r, "w", v, b)
    <3>1. "w" \in Ptrs /\ v \in Slots \cup {None}
      BY <2>3 DEF Ptrs
    <3>. QED BY <1>2, <3>1, SetIs, Zenon
  <2>. HIDE DEF b
  <2>5. SetTo(b, "ff", s, a)
    <3>1. "ff" \in Ptrs /\ s \in Slots \cup {None} /\ b \in Regs
      BY <1>12, <2>4 DEF SetTo, Ptrs
    <3>. QED BY <3>1, SetIs, Zenon
  <2>. HIDE DEF a
  <2>6. /\ a \in Regs /\ a["w"] = v /\ a["ff"] = s /\ RegBut(r, a, "w", "ff") /\ a.fp = r.fp /\ a.fip = r.fip
        /\ a.err = r.err /\ a.parent = r.parent /\ a.path = r.path /\ a.new = r.new
    BY <2>4, <2>5 DEF SetTo, RegBut, Ptrs
  <2>7. WalkOk(a, t, h, c)
    <3>1. Arguments(u, a)
      BY <1>2, <2>6, ArgsKept DEF Local
    <3>2. \A y \in CallPtrs : y # "ff" => (a[y] # None <=> y \in Pointers(Fail(t)) \cup {"w"})
      BY <1>8, <1>10, <2>3, <2>6, NotNone DEF RegBut, CallPtrs, Ptrs, f
    <3>. HIDE DEF r
    <3>. QED BY <1>1, <1>2, <1>4, <2>2, <2>3, <2>6, <3>1, <3>2, WalkIs
  <2>8. RefsAre(icache', [reg EXCEPT ![p] = a], file')
    <3>1. reg[p]["w"] = s /\ reg[p]["ff"] = None /\ RegBut(reg[p], a, "w", "ff") /\ file' = file
      <4>1. r["ff"] = None
        BY <1>8, <1>10 DEF CallPtrs
      <4>. QED BY <1>12, <2>2, <2>6, <4>1
    <3>2. \A k \in Slots : icache[k].ref \in Nat
      BY <1>2 DEF Tables, Inodes
    <3>. QED BY <1>2, <1>12, <2>3, <2>6, <3>1, <3>2, RefsNext
  <2>9. RefsAre(icache', [reg EXCEPT ![p] = h], file')
    <3>1. \A k \in Slots : icache'[k].ref \in Nat
      BY <2>3 DEF Inodes
    <3>2. a["w"] \in Slots /\ WalkRegs(a, h)
      BY <2>3, <2>6, <2>7 DEF WalkOk
    <3>. QED BY <1>2, <2>6, <2>8, <3>1, <3>2, WalkRefs
  <2>. HIDE DEF h, c
  <2>10. /\ c \in Seq(Steps) /\ Code(c) /\ Locked(c) = {} /\ (Logged(c) <=> Logged(t)) /\ h \in Regs
         /\ ~Top(c, "fileclose") /\ ~Top(c, "setcwd") /\ (OnFile(c) => OnFile(t)) /\ "ff" \notin Pointers(c)
         /\ (Leaves(c) /\ ~Has(c, "setcwd") => Leaves(t) /\ ~Has(t, "setcwd"))
         /\ h["cwd"] = a["cwd"] /\ h["ff"] = a["ff"] /\ h.fp = a.fp /\ h.fip = a.fip /\ Arguments(c, h)
         /\ \A y \in CallPtrs : y # "ff" => (h[y] # None <=> y \in Pointers(c))
    BY <2>7 DEF WalkOk, WalkCode, WalkRegs
  <2>11. z = UnlockPut("ff") \o c /\ "ff" \in CallPtrs /\ "ff" \notin Locked(c)
    BY <2>10 DEF CallPtrs
  <2>. HIDE DEF z
  <2>12. /\ z \in Seq(Steps) /\ Code(z) /\ Pointers(z) = Pointers(c) \cup {"ff"} /\ Locked(z) = Locked(c) \cup {"ff"}
         /\ (Logged(z) <=> Logged(c)) /\ (Leaves(z) <=> Leaves(c)) /\ Like(z, c) /\ (OnFile(z) <=> OnFile(c))
         /\ ~Top(z, "setcwd") /\ ~Top(z, "fileclose")
    BY <2>10, <2>11, UpCode
  <2>13. Local(z, h, ofile[p])
    <3>1. Arguments(z, h) /\ (Has(z, "setcwd") <=> Has(c, "setcwd"))
      BY <2>10, <2>12, LikeArgs, LikeFails
    <3>2. (\A y \in CallPtrs : h[y] # None <=> y \in Pointers(z)) /\ h["cwd"] # None
      <4>1. h["ff"] = s /\ s # None
        BY <1>12, <2>6, <2>10, NotNone
      <4>2. h["cwd"] # None
        BY <1>10, <2>6, <2>10 DEF RegBut, Ptrs
      <4>. QED BY <2>10, <2>12, <4>1, <4>2
    <3>3. Leaves(z) /\ ~Has(z, "setcwd") => \A fd \in 1 .. NOFILE : ofile[p][fd] = None
      BY <1>2, <1>3, <2>10, <2>12, <3>1 DEF Local, Descriptors
    <3>. QED BY <2>12, <3>1, <3>2, <3>3, MakeLocal
  <2>14. Locks(p, z, h, icache')
    <3>1. Locked(z) = {"ff"} /\ h["ff"] = s /\ Locked(u) = {"w"} /\ r["w"] = s
      BY <1>8, <1>12, <2>6, <2>10, <2>12
    <3>2. \A k \in Slots : icache'[k].busy = icache[k].busy
      BY <2>3 DEF Touch, Only
    <3>. HIDE DEF r
    <3>. QED BY <1>2, <1>12, <3>1, <3>2 DEF Locks
  <2>15. /\ Unique(icache') /\ Copied(icache', din') /\ BusyBy(p, icache, icache')
         /\ Freeing(icache', [todo EXCEPT ![p] = z], [reg EXCEPT ![p] = h])
    BY <1>9, <2>2, <2>3, Touched
  <2>16. Tables' /\ SameFiles(file, file')
    BY <1>2, <2>2, <2>3 DEF Tables, SameFiles
  <2>17. (Logged(z) <=> Logged(todo[p])) /\ (OnFile(z) => OnFile(todo[p])) /\ h.fp = reg[p].fp /\ h.fip = reg[p].fip
    BY <1>1, <1>3, <2>6, <2>10, <2>12
  <2>. QED BY <2>2, <2>9, <2>10, <2>12, <2>13, <2>14, <2>15, <2>16, <2>17, CacheStep
<1>. HIDE DEF A, B, C, D
<1>. QED BY <1>11, <1>13, <1>14, <1>15, <1>16, Zenon

-----------------------------------------------------------------------------
(* create                                                                  *)

\* What create has left, if the name exists, and for a new inode.
LEMMA ExistsCode ==
  ASSUME NEW t \in Seq(Steps), Code(t), ~Top(t, "fileclose"), ~Top(t, "setcwd"), ~MayFail(t),
         Pointers(t) = {"ip"}, Locked(t) = {"ip"}, Logged(t),
         NEW z, z = UnlockPut("dp") \o <<<<"ilock", "ip">>, <<"exists", "ip">>>> \o t
  PROVE  /\ z \in Seq(Steps) /\ Code(z) /\ Pointers(z) = {"ip", "dp"} /\ Locked(z) = {"dp"} /\ Logged(z)
         /\ (Leaves(z) <=> Leaves(t)) /\ (OnFile(z) <=> OnFile(t)) /\ (Has(z, "setcwd") <=> Has(t, "setcwd"))
         /\ ~Top(z, "setcwd") /\ ~Top(z, "fileclose")
         /\ \A r : r.err = CommitIp => Arguments(z, r)
<1>. DEFINE a == On("exists", "ip", t)
            b == On("ilock", "ip", a)
            c == UnlockPut("dp") \o b
<1>1. z = c
  <2>1. PICK A \in Seq(Steps) : A = UnlockPut("dp")
    BY PieceUnlockPut, Zenon DEF CallPtrs
  <2>2. PICK B \in Seq(Steps) : B = <<<<"ilock", "ip">>, <<"exists", "ip">>>> /\ Cat(B, t) = b
    BY Piece25, Zenon
  <2>3. z = Cat(Cat(A, B), t)
    BY <2>1, <2>2, Zenon DEF Cat
  <2>4. Cat(Cat(A, B), t) = Cat(A, Cat(B, t))
    BY CatAssoc
  <2>5. Cat(A, b) = c
    BY <2>1, Zenon DEF Cat
  <2>. HIDE DEF c, b
  <2>. QED BY <2>2, <2>3, <2>4, <2>5
<1>2. /\ a \in Seq(Steps) /\ Code(a) /\ Pointers(a) = {"ip"} /\ Locked(a) = {"ip"} /\ Logged(a) /\ (Leaves(a) <=> Leaves(t))
      /\ (OnFile(a) <=> OnFile(t)) /\ (Walks(a, "ip") <=> Walks(t, "ip")) /\ (Walks(a, "dp") <=> Walks(t, "dp"))
      /\ (Has(a, "setcwd") <=> Has(t, "setcwd")) /\ Has(a, "exists") /\ (Has(a, "bump") <=> Has(t, "bump"))
      /\ ~Top(a, "fileclose") /\ ~Top(a, "setcwd")
  BY Op_exists DEF Flags
<1>. HIDE DEF a
<1>3. /\ b \in Seq(Steps) /\ Code(b) /\ Pointers(b) = Pointers(a) /\ Locked(b) = Locked(a) \ {"ip"} /\ (Logged(b) <=> Logged(a)) /\ (Leaves(b) <=> Leaves(a))
      /\ (OnFile(b) <=> OnFile(a)) /\ Like(b, a) /\ ~Top(b, "fileclose") /\ ~Top(b, "setcwd")
  <2>1. "ip" \in CallPtrs \cup {"fip"} /\ "ip" # "fip" /\ "ip" \in Locked(a) /\ "ip" \in Pointers(a) \cup {"fip"}
    BY <1>2 DEF CallPtrs
  <2>. QED BY <1>2, <2>1, Op_ilock
<1>. HIDE DEF b
<1>4. Locked(b) = {} /\ Pointers(b) = {"ip"} /\ "dp" \in CallPtrs /\ "dp" \notin Pointers(b) /\ "dp" \notin Locked(b)
  BY <1>2, <1>3 DEF CallPtrs
<1>5. c = UnlockPut("dp") \o b
  OBVIOUS
<1>. HIDE DEF c
<1>6. /\ c \in Seq(Steps) /\ Code(c) /\ Pointers(c) = Pointers(b) \cup {"dp"} /\ Locked(c) = Locked(b) \cup {"dp"}
      /\ (Logged(c) <=> Logged(b)) /\ (Leaves(c) <=> Leaves(b)) /\ Like(c, b) /\ (OnFile(c) <=> OnFile(b))
      /\ ~Top(c, "setcwd") /\ ~Top(c, "fileclose")
  BY <1>3, <1>4, <1>5, UpCode
<1>7. Like(c, a)
  BY <1>3, <1>6, LikeTrans
<1>8. /\ Has(c, "exists") /\ ~Walks(c, "ip") /\ ~Walks(c, "dp") /\ ~Has(c, "bump") /\ (Has(c, "setcwd") <=> Has(t, "setcwd"))
  <2>1. ~Has(t, "bump") /\ ~Walks(t, "ip") /\ ~Walks(t, "dp")
    BY NoBump DEF MayFail
  <2>. QED BY <1>2, <1>7, <2>1 DEF Like, Flags
<1>9. \A r : r.err = CommitIp => Arguments(c, r)
  BY <1>8 DEF Arguments, Fail
<1>10. Pointers(c) = {"ip", "dp"} /\ Locked(c) = {"dp"}
  BY <1>4, <1>6
<1>. QED BY <1>1, <1>2, <1>3, <1>6, <1>8, <1>9, <1>10

LEMMA NodeCode ==
  ASSUME NEW t \in Seq(Steps), Code(t), ~Top(t, "fileclose"), ~Top(t, "setcwd"), ~MayFail(t),
         Pointers(t) = {"ip"}, Locked(t) = {"ip"}, Logged(t),
         NEW z, z = <<<<"ilock", "ip">>, <<"mknode", "ip">>>> \o UnlockPut("dp") \o t
  PROVE  /\ z \in Seq(Steps) /\ Code(z) /\ Pointers(z) = {"ip", "dp"} /\ Locked(z) = {"dp"} /\ Logged(z)
         /\ (Leaves(z) <=> Leaves(t)) /\ (OnFile(z) <=> OnFile(t)) /\ (Has(z, "setcwd") <=> Has(t, "setcwd"))
         /\ ~Top(z, "setcwd") /\ ~Top(z, "fileclose")
         /\ \A r : Arguments(z, r)
<1>. DEFINE a == UnlockPut("dp") \o t
            b == On("mknode", "ip", a)
            c == On("ilock", "ip", b)
<1>1. a = UnlockPut("dp") \o t /\ "dp" \in CallPtrs /\ "dp" \notin Pointers(t) /\ "dp" \notin Locked(t)
  BY DEF CallPtrs
<1>. HIDE DEF a
<1>2. /\ a \in Seq(Steps) /\ Code(a) /\ Pointers(a) = Pointers(t) \cup {"dp"} /\ Locked(a) = Locked(t) \cup {"dp"}
      /\ (Logged(a) <=> Logged(t)) /\ (Leaves(a) <=> Leaves(t)) /\ Like(a, t) /\ (OnFile(a) <=> OnFile(t))
      /\ ~Top(a, "setcwd") /\ ~Top(a, "fileclose")
  BY <1>1, UpCode
<1>3. z = c
  <2>1. PICK A \in Seq(Steps) : A = UnlockPut("dp")
    BY PieceUnlockPut, Zenon DEF CallPtrs
  <2>2. PICK B \in Seq(Steps) : B = <<<<"ilock", "ip">>, <<"mknode", "ip">>>> /\ Cat(B, a) = c
    BY <1>2, Piece26, Zenon
  <2>3. z = Cat(Cat(B, A), t)
    BY <2>1, <2>2, Zenon DEF Cat
  <2>4. Cat(Cat(B, A), t) = Cat(B, Cat(A, t))
    BY CatAssoc
  <2>5. Cat(A, t) = a
    BY <1>1, <2>1, Zenon DEF Cat
  <2>. HIDE DEF c, b
  <2>. QED BY <2>2, <2>3, <2>4, <2>5
<1>4. Pointers(a) = {"ip", "dp"} /\ Locked(a) = {"ip", "dp"} /\ {"ip", "dp"} \subseteq Locked(a)
  BY <1>2
<1>5. /\ b \in Seq(Steps) /\ Code(b) /\ Pointers(b) = Pointers(a) /\ Locked(b) = Locked(a)
      /\ (Logged(b) <=> Logged(a)) /\ (Leaves(b) <=> Leaves(a)) /\ Like(b, a) /\ (OnFile(b) <=> OnFile(a))
      /\ ~Top(b, "setcwd") /\ ~Top(b, "fileclose")
  BY <1>2, <1>4, Op_mknode
<1>. HIDE DEF b
<1>6. /\ c \in Seq(Steps) /\ Code(c) /\ Pointers(c) = Pointers(b) /\ Locked(c) = Locked(b) \ {"ip"} /\ (Logged(c) <=> Logged(b)) /\ (Leaves(c) <=> Leaves(b))
      /\ (OnFile(c) <=> OnFile(b)) /\ Like(c, b) /\ ~Top(c, "fileclose") /\ ~Top(c, "setcwd")
  <2>1. "ip" \in CallPtrs \cup {"fip"} /\ "ip" # "fip" /\ "ip" \in Locked(b) /\ "ip" \in Pointers(b) \cup {"fip"}
    BY <1>4, <1>5 DEF CallPtrs
  <2>. QED BY <1>5, <2>1, Op_ilock
<1>. HIDE DEF c
<1>7. Like(c, t)
  BY <1>2, <1>5, <1>6, LikeTrans
<1>8. Pointers(c) = {"ip", "dp"} /\ Locked(c) = {"dp"}
  BY <1>4, <1>5, <1>6
<1>9. (Has(c, "setcwd") <=> Has(t, "setcwd")) /\ ~MayFail(c)
  BY <1>7, LikeFails
<1>10. \A r : Arguments(c, r)
  BY <1>6, <1>9, NoBump
<1>. QED BY <1>2, <1>3, <1>5, <1>6, <1>8, <1>9, <1>10

LEMMA StepCreateLookup ==
  ASSUME IInv, NEW p \in Procs, CreateLookup(p)
  PROVE  IInv'
<1>. DEFINE t == Rest(p)
            r == reg[p]
            u == On("create", "ip", t)
<1>1. t \in Seq(Steps) /\ Reg(p) = "ip" /\ todo[p] = u /\ u # <<>> /\ (\A o : Top(u, o) <=> o = "create") /\ panic = "no"
  <2>1. /\ todo[p] # <<>> /\ todo[p] = On("create", Reg(p), Rest(p)) /\ Rest(p) \in Seq(Steps) /\ panic = "no"
        /\ <<"create", Reg(p)>> \in Steps /\ \A o : Top(todo[p], o) <=> o = "create"
    <3>1. At(p, "create")
      BY Zenon DEF CreateLookup
    <3>. QED BY <3>1, Now
  <2>2. "create" \in {"create", "exists", "mknode", "bump", "drop", "lookup", "remove", "open", "closeall", "chdir", "setcwd"} => Reg(p) = "ip"
    BY <2>1, RegIn, Zenon
  <2>. QED BY <2>1, <2>2
<1>2. /\ Tables /\ r \in Regs /\ Local(u, r, ofile[p]) /\ Opened(u, r, ofile[p], file) /\ Code(u)
      /\ Locks(p, u, r, icache) /\ (trans = p <=> Logged(u)) /\ trans \in Procs \cup {None}
      /\ Unique(icache) /\ RefsAre(icache, reg, file) /\ FilesAre(file, ofile) /\ reg \in [Procs -> Regs]
  BY <1>1, Ours, Mine DEF Local
<1>3. /\ Pointers(u) = (Pointers(t) \ {"ip"}) \cup {"dp"} /\ Pointers(t) = {"ip"} /\ Locked(u) = (Locked(t) \ {"ip"}) \cup {"dp"} /\ Locked(t) = {"ip"}
      /\ Logged(u) /\ Logged(t) /\ (Leaves(u) <=> Leaves(t)) /\ Code(t) /\ ~MayFail(t)
      /\ ~Top(t, "fileclose") /\ ~Top(t, "setcwd") /\ (OnFile(u) <=> OnFile(t))
      /\ Has(u, "create") /\ (Has(u, "setcwd") <=> Has(t, "setcwd"))
  <2>. HIDE DEF t, r
  <2>. QED BY <1>1, <1>2, Op_create DEF Flags
<1>. HIDE DEF t, u
<1>4. Pointers(u) = {"dp"} /\ Locked(u) = {"dp"}
  BY <1>3
<1>5. r.err = CommitIp
  <2>1. MayFail(u) /\ Fail(u) = CommitIp
    BY <1>3 DEF MayFail, Fail
  <2>. QED BY <1>2, <2>1 DEF Local, Arguments
<1>6. (\A y \in CallPtrs : r[y] # None <=> y \in {"dp"}) /\ r["cwd"] # None /\ r["ip"] = None
  BY <1>1, <1>2, <1>4 DEF Local, Holding, CallPtrs
<1>. DEFINE i == ents[icache[r.dp].inum][r.name]
            frees == {j \in Inums : din[j].type = "none"}
            m == Min(frees)
            k == r.kind
            z1 == UnlockPut("dp") \o <<<<"ilock", "ip">>, <<"exists", "ip">>>> \o t
            z2 == <<<<"ilock", "ip">>, <<"mknode", "ip">>>> \o UnlockPut("dp") \o t
            A == Panic("iget: no inodes")
            B == Panic("ialloc: no inodes")
            C == /\ i # 0 /\ ~IgetPanics(i) /\ icache' = Iget(i) /\ Do(p, [r EXCEPT !.ip = IgetSlot(i)], z1)
                 /\ UNCHANGED <<disk, trans, file, ofile, panic>>
            D == /\ frees # {} /\ ~IgetPanics(m) /\ din' = [din EXCEPT ![m] = [Free EXCEPT !.type = k]] /\ icache' = Iget(m)
                 /\ Do(p, [r EXCEPT !.ip = IgetSlot(m)], z2) /\ UNCHANGED <<ents, used, trans, file, ofile, panic>>
<1>7. A \/ B \/ C \/ D
  BY Zenon DEF CreateLookup, t
<1>8. ~Top(todo[p], "iputend")
  BY <1>1
\* The rest of both: entry v for register ip, and the steps z.
<1>9. ASSUME NEW v, NEW z, v \in Slots, Touch(icache, icache', v), icache' \in [Slots -> Inodes], RefsBut(icache, icache', v, 1),
             Do(p, [r EXCEPT !["ip"] = v], z), UNCHANGED <<ents, used, trans, file, ofile, panic>>, din' \in [Inums -> Dinodes],
             \A s \in Slots : icache[s].ref > 0 /\ icache[s].valid =>
               din'[icache[s].inum] = din[icache[s].inum] \/ (icache[s].type = "none" /\ icache[s].busy # None),
             z \in Seq(Steps), Code(z), Pointers(z) = {"ip", "dp"}, Locked(z) = {"dp"}, Logged(z),
             Leaves(z) <=> Leaves(t), OnFile(z) <=> OnFile(t), Has(z, "setcwd") <=> Has(t, "setcwd"),
             ~Top(z, "setcwd"), ~Top(z, "fileclose"), \A h : h.err = CommitIp => Arguments(z, h)
      PROVE  IInv'
  <2>. DEFINE h == [r EXCEPT !["ip"] = v]
  <2>1. SetTo(r, "ip", v, h)
    <3>1. "ip" \in Ptrs /\ v \in Slots \cup {None}
      BY <1>9 DEF Ptrs
    <3>. QED BY <1>2, <3>1, SetIs, Zenon
  <2>2. Do(p, h, z)
    BY <1>9
  <2>. HIDE DEF h
  <2>3. Local(z, h, ofile[p])
    <3>1. (\A y \in CallPtrs : h[y] # None <=> y \in Pointers(z)) /\ h["cwd"] # None
      BY <1>6, <1>9, <2>1, NotNone DEF SetTo, Ptrs, CallPtrs
    <3>2. Leaves(z) /\ ~Has(z, "setcwd") => \A fd \in 1 .. NOFILE : ofile[p][fd] = None
      BY <1>2, <1>3, <1>9 DEF Local, Descriptors
    <3>3. Arguments(z, h)
      BY <1>5, <1>9, <2>1 DEF SetTo
    <3>. QED BY <1>9, <3>1, <3>2, <3>3, MakeLocal
  <2>4. reg[p]["ip"] = None /\ h["ip"] = v /\ RegBut(reg[p], h, "ip", "ip") /\ "ip" \in Ptrs /\ h \in Regs
        /\ h.fp = reg[p].fp /\ h.fip = reg[p].fip
    BY <1>6, <2>1 DEF SetTo, RegBut, Ptrs
  <2>5. Locked(z) = Locked(todo[p]) /\ (Logged(z) <=> Logged(todo[p])) /\ (OnFile(z) => OnFile(todo[p]))
        /\ (\A y \in Locked(z) : h[y] = reg[p][y])
    BY <1>1, <1>3, <1>4, <1>9, <2>1 DEF SetTo, Ptrs
  <2>. QED BY <1>8, <1>9, <2>2, <2>3, <2>4, <2>5, GetStep
<1>10. CASE A
  <2>1. "iget: no inodes" \notin Messages
    BY Zenon DEF Messages
  <2>. QED BY <1>10, <2>1, PanicStep, Zenon
<1>11. CASE B
  <2>1. "ialloc: no inodes" \notin Messages
    BY Zenon DEF Messages
  <2>. QED BY <1>11, <2>1, PanicStep, Zenon
<1>12. CASE C
  <2>. DEFINE v == IgetSlot(i)
  <2>1. i \in 0 .. NINODES - 1
    <3>1. "dp" \in Locked(todo[p])
      BY <1>1, <1>4
    <3>2. icache[r.dp].inum \in Inums
      BY <3>1, LockedEntry
    <3>. QED BY <1>2, <3>2, RegTypes DEF Tables
  <2>2. ~IgetPanics(i) /\ icache' = Iget(i) /\ v = IgetSlot(i) /\ Do(p, [r EXCEPT !["ip"] = v], z1) /\ i # 0
    BY <1>12, Zenon
  <2>3. UNCHANGED <<disk, trans, file, ofile, panic>>
    BY <1>12, Zenon
  <2>4. UNCHANGED <<ents, used, trans, file, ofile, panic>> /\ din' = din /\ din \in [Inums -> Dinodes]
    BY <1>2, <2>3 DEF disk, Tables
  <2>. HIDE DEF i, v
  <2>5. i \in Inums
    BY <2>1, <2>2, FsAssumption DEF Inums
  <2>6. v \in Slots /\ Touch(icache, icache', v) /\ icache' \in [Slots -> Inodes] /\ RefsBut(icache, icache', v, 1)
    BY <2>2, <2>5, IgetIs
  <2>7. /\ z1 \in Seq(Steps) /\ Code(z1) /\ Pointers(z1) = {"ip", "dp"} /\ Locked(z1) = {"dp"} /\ Logged(z1)
        /\ (Leaves(z1) <=> Leaves(t)) /\ (OnFile(z1) <=> OnFile(t)) /\ (Has(z1, "setcwd") <=> Has(t, "setcwd"))
        /\ ~Top(z1, "setcwd") /\ ~Top(z1, "fileclose") /\ (\A h : h.err = CommitIp => Arguments(z1, h))
    <3>1. z1 = UnlockPut("dp") \o <<<<"ilock", "ip">>, <<"exists", "ip">>>> \o t
      OBVIOUS
    <3>. HIDE DEF z1
    <3>. QED BY <1>1, <1>3, <3>1, ExistsCode
  <2>. HIDE DEF z1, r
  <2>. QED BY <1>9, <2>2, <2>4, <2>6, <2>7
<1>13. CASE D
  <2>. DEFINE v == IgetSlot(m)
              n == [Free EXCEPT !.type = k]
  <2>1. ~IgetPanics(m) /\ icache' = Iget(m) /\ v = IgetSlot(m) /\ Do(p, [r EXCEPT !["ip"] = v], z2) /\ din' = [din EXCEPT ![m] = n]
    BY <1>13, Zenon
  <2>2. UNCHANGED <<ents, used, trans, file, ofile, panic>> /\ frees # {}
    BY <1>13, Zenon
  <2>3. m \in Inums /\ din[m].type = "none"
    <3>1. frees \in SUBSET Nat
      BY NotNone
    <3>2. m \in frees
      <4>. HIDE DEF frees
      <4>. QED BY <2>2, <3>1, MinIn
    <3>. QED BY <3>2
  <2>4. n \in Dinodes
    <3>1. k \in Types \cup {"none"}
      BY <1>2, RegTypes
    <3>2. <<>> \in Seq(Nat) /\ 0 \in Int
      OBVIOUS
    <3>. HIDE DEF k
    <3>. QED BY <3>1, <3>2 DEF Dinodes, Free
  <2>. HIDE DEF m, v, n
  <2>5. v \in Slots /\ Touch(icache, icache', v) /\ icache' \in [Slots -> Inodes] /\ RefsBut(icache, icache', v, 1)
    BY <2>1, <2>3, IgetIs
  <2>6. din' \in [Inums -> Dinodes]
    BY <1>2, <2>1, <2>4 DEF Tables
  <2>7. ASSUME NEW s \in Slots, icache[s].ref > 0 /\ icache[s].valid
        PROVE  din'[icache[s].inum] = din[icache[s].inum] \/ (icache[s].type = "none" /\ icache[s].busy # None)
    <3>1. Copy(icache[s]) = din[icache[s].inum] \/ (icache[s].type = "none" /\ icache[s].busy # None)
      BY <2>7, Ours DEF Copied
    <3>2. CASE icache[s].inum = m /\ Copy(icache[s]) = din[icache[s].inum]
      <4>1. icache[s].type = "none"
        BY <2>3, <3>2 DEF Copy
      <4>2. PICK q \in Procs : icache[s].busy = q
        BY <2>7, <4>1, Ours DEF Freeing
      <4>. QED BY <4>1, <4>2, NotNone
    <3>3. CASE icache[s].inum # m
      <4>1. icache[s].inum \in Inums /\ din \in [Inums -> Dinodes]
        BY <1>2, <2>7 DEF Unique, Tables
      <4>. QED BY <2>1, <3>3, <4>1
    <3>. QED BY <3>1, <3>2, <3>3
  <2>8. /\ z2 \in Seq(Steps) /\ Code(z2) /\ Pointers(z2) = {"ip", "dp"} /\ Locked(z2) = {"dp"} /\ Logged(z2)
        /\ (Leaves(z2) <=> Leaves(t)) /\ (OnFile(z2) <=> OnFile(t)) /\ (Has(z2, "setcwd") <=> Has(t, "setcwd"))
        /\ ~Top(z2, "setcwd") /\ ~Top(z2, "fileclose") /\ (\A h : Arguments(z2, h))
    <3>1. z2 = <<<<"ilock", "ip">>, <<"mknode", "ip">>>> \o UnlockPut("dp") \o t
      OBVIOUS
    <3>. HIDE DEF z2
    <3>. QED BY <1>1, <1>3, <3>1, NodeCode
  <2>. HIDE DEF z2, r
  <2>. QED BY <1>9, <2>1, <2>2, <2>5, <2>6, <2>7, <2>8
<1>. HIDE DEF A, B, C, D
<1>. QED BY <1>7, <1>10, <1>11, <1>12, <1>13, Zenon

-----------------------------------------------------------------------------
(* The inode that create makes, and its directory.                         *)

\* The entries a and b of the cache change their copies of the dinodes.
Pair(ic, ic2, a, b) ==
  /\ ic2 \in [Slots -> Inodes] /\ (\A s \in Slots : s # a /\ s # b => ic2[s] = ic[s])
  /\ Copy(ic2[a]) \in Dinodes /\ Copy(ic2[b]) \in Dinodes
  /\ \A s \in Slots : /\ ic2[s].ref = ic[s].ref /\ ic2[s].inum = ic[s].inum /\ ic2[s].busy = ic[s].busy
                      /\ ic2[s].valid = ic[s].valid /\ ic2[s].type = ic[s].type
LEMMA PairIs ==
  ASSUME NEW ic \in [Slots -> Inodes], NEW a \in Slots, NEW b \in Slots, a # b, NEW bs \in Seq(Nat), NEW dir
  PROVE  Pair(ic, [ic EXCEPT ![a].nlink = 1, ![a].addrs = bs, ![b].nlink = IF dir THEN @ + 1 ELSE @], a, b)
<1>. DEFINE ic2 == [ic EXCEPT ![a].nlink = 1, ![a].addrs = bs, ![b].nlink = IF dir THEN @ + 1 ELSE @]
            m == IF dir THEN ic[b].nlink + 1 ELSE ic[b].nlink
            e == [[ic[a] EXCEPT !.nlink = 1] EXCEPT !.addrs = bs]
            f == [ic[b] EXCEPT !.nlink = m]
<1>1. ic[a] \in Inodes /\ ic[b] \in Inodes /\ m \in Int
  BY DEF Inodes
<1>2. ic2 = [[ic EXCEPT ![a] = e] EXCEPT ![b] = f]
  BY <1>1
<1>. DEFINE e1 == [ic[a] EXCEPT !.nlink = 1]
            ic1 == [ic EXCEPT ![a] = e]
<1>8. e = [e1 EXCEPT !.addrs = bs] /\ ic2 = [ic1 EXCEPT ![b] = f]
  BY <1>2
<1>. HIDE DEF m, ic1, e, ic2
<1>9. /\ e1 \in Inodes /\ e1.ref = ic[a].ref /\ e1.inum = ic[a].inum /\ e1.busy = ic[a].busy /\ e1.valid = ic[a].valid
      /\ e1.type = ic[a].type
  <2>1. 1 \in Int
    OBVIOUS
  <2>2. Renewed(ic[a], e1, [Copy(ic[a]) EXCEPT !.nlink = 1], ic[a].type)
    BY <1>1, <2>1, SetLink, Zenon
  <2>. QED BY <2>2 DEF Renewed
<1>. HIDE DEF e1
<1>3. /\ e \in Inodes /\ e.ref = ic[a].ref /\ e.inum = ic[a].inum /\ e.busy = ic[a].busy /\ e.valid = ic[a].valid
      /\ e.type = ic[a].type
  BY <1>8, <1>9 DEF Inodes
<1>4. /\ f \in Inodes /\ f.ref = ic[b].ref /\ f.inum = ic[b].inum /\ f.busy = ic[b].busy /\ f.valid = ic[b].valid
      /\ f.type = ic[b].type
  BY <1>1 DEF Inodes
<1>. HIDE DEF f
<1>10. ic1 \in [Slots -> Inodes] /\ ic1[a] = e /\ (\A s \in Slots : s # a => ic1[s] = ic[s])
  BY <1>3 DEF ic1
<1>5. ic2 \in [Slots -> Inodes] /\ ic2[a] = e /\ ic2[b] = f /\ (\A s \in Slots : s # a /\ s # b => ic2[s] = ic[s])
  BY <1>4, <1>8, <1>10
<1>6. Copy(e) \in Dinodes /\ Copy(f) \in Dinodes
  BY <1>3, <1>4 DEF Copy, Dinodes, Inodes
<1>7. Pair(ic, ic2, a, b)
  BY <1>3, <1>4, <1>5, <1>6 DEF Pair
<1>. QED BY <1>7 DEF ic2

PairWritten(a, b) ==
  din' = [[din EXCEPT ![icache[a].inum] = Copy(icache'[a])] EXCEPT ![icache[b].inum] = Copy(icache'[b])]

\* Two locked entries and their dinodes change together.
LEMMA PairStep ==
  ASSUME IInv, NEW p \in Procs, NEW t \in Seq(Steps), NEW r \in Regs, Do(p, r, t), NEW x \in Locked(todo[p]),
         NEW y \in Locked(todo[p]), x # y, NEW a, a = reg[p][x], NEW b, b = reg[p][y], Pair(icache, icache', a, b),
         PairWritten(a, b),
         ents' \in [Inums -> [Names -> 0 .. NINODES - 1]], used' \subseteq Blocks,
         UNCHANGED <<trans, file, ofile, panic>>,
         ~Top(todo[p], "iputend"), Local(t, r, ofile[p]), Locked(t) = Locked(todo[p]),
         Logged(t) <=> Logged(todo[p]), OnFile(t) => OnFile(todo[p]), r.fp = reg[p].fp, r.fip = reg[p].fip,
         \A z \in Ptrs : r[z] = reg[p][z]
  PROVE  IInv'
<1>. DEFINE i == icache[a].inum
            j == icache[b].inum
<1>1. a \in Slots /\ icache[a].busy = p /\ icache[a].ref \in Nat /\ icache[a].ref >= 1 /\ i \in Inums
  BY LockedEntry
<1>2. b \in Slots /\ icache[b].busy = p /\ icache[b].ref \in Nat /\ icache[b].ref >= 1 /\ j \in Inums
  BY LockedEntry
<1>3. /\ Tables /\ Locks(p, todo[p], reg[p], icache) /\ reg[p] \in Regs /\ Unique(icache) /\ Copied(icache, din)
  BY Ours, Mine
<1>4. a # b
  BY <1>3 DEF Locks
<1>5. i # j
  BY <1>1, <1>2, <1>3, <1>4 DEF Unique
<1>6. /\ din' \in [Inums -> Dinodes] /\ din'[i] = Copy(icache'[a]) /\ din'[j] = Copy(icache'[b])
      /\ \A k \in Inums : k # i /\ k # j => din'[k] = din[k]
  <2>. HIDE DEF i, j
  <2>1. Copy(icache'[a]) \in Dinodes /\ Copy(icache'[b]) \in Dinodes
    BY DEF Pair
  <2>2. din' = [[din EXCEPT ![i] = Copy(icache'[a])] EXCEPT ![j] = Copy(icache'[b])]
    BY DEF i, j, PairWritten
  <2>. DEFINE d1 == [din EXCEPT ![i] = Copy(icache'[a])]
  <2>3. d1 \in [Inums -> Dinodes] /\ d1[i] = Copy(icache'[a]) /\ \A k \in Inums : k # i => d1[k] = din[k]
    BY <1>1, <1>3, <2>1 DEF Tables
  <2>4. din' = [d1 EXCEPT ![j] = Copy(icache'[b])]
    BY <2>2
  <2>. HIDE DEF d1
  <2>. QED BY <1>1, <1>2, <1>5, <2>1, <2>3, <2>4
<1>7. Tables' /\ SameFiles(file, file') /\ trans' = trans /\ ofile' = ofile /\ panic' = panic
  BY <1>3, <1>6 DEF Tables, Pair, SameFiles
<1>8. Unique(icache')
  BY <1>3 DEF Pair, Unique
<1>9. BusyBy(p, icache, icache')
  BY DEF Pair, BusyBy
<1>10. Copied(icache', din')
  <2>. SUFFICES ASSUME NEW s \in Slots, icache'[s].ref > 0, icache'[s].valid
                PROVE  Copy(icache'[s]) = din'[icache'[s].inum] \/ (icache'[s].type = "none" /\ icache'[s].busy # None)
    BY DEF Copied
  <2>1. icache'[s].inum = icache[s].inum /\ icache[s].ref > 0 /\ icache[s].valid
    BY DEF Pair
  <2>2. CASE s = a
    BY <1>6, <2>1, <2>2
  <2>3. CASE s = b
    BY <1>6, <2>1, <2>3
  <2>4. CASE s # a /\ s # b
    <3>1. icache'[s] = icache[s]
      BY <2>4 DEF Pair
    <3>2. icache[s].inum \in Inums /\ icache[s].inum # i /\ icache[s].inum # j
      BY <1>1, <1>2, <1>3, <2>1, <2>4 DEF Unique
    <3>3. din'[icache[s].inum] = din[icache[s].inum]
      BY <1>6, <3>2
    <3>. QED BY <1>3, <2>1, <3>1, <3>3 DEF Copied
  <2>. QED BY <2>2, <2>3, <2>4
<1>11. Freeing(icache', [todo EXCEPT ![p] = t], [reg EXCEPT ![p] = r])
  <2>1. \A s \in Slots : icache'[s].ref > 0 /\ icache'[s].valid /\ icache'[s].type = "none" =>
          icache[s].ref > 0 /\ icache[s].valid /\ icache[s].type = "none" /\ icache'[s].busy = icache[s].busy
    BY DEF Pair
  <2>. QED BY <2>1, FreeingKept
<1>12. RefsAre(icache', [reg EXCEPT ![p] = r], file')
  <2>1. RefsKept(icache, icache')
    BY DEF RefsKept, Pair
  <2>. QED BY <1>7, <2>1, SlotSame
<1>13. Locks(p, t, r, icache')
  <2>1. \A z \in Slots : icache'[z].busy = icache[z].busy
    BY DEF Pair
  <2>2. \A z \in Locked(todo[p]) : r[z] = reg[p][z]
    <3>1. \A z \in Locked(todo[p]) : z \in Ptrs \/ z = "fip"
      BY Kinds DEF LockRegs, CallPtrs, Ptrs
    <3>. QED BY <3>1
  <2>. QED BY <1>3, <2>1, <2>2, LocksKept
<1>. QED BY <1>7, <1>8, <1>9, <1>10, <1>11, <1>12, <1>13, CacheStep

LEMMA StepCreateNode ==
  ASSUME IInv, NEW p \in Procs, CreateNode(p)
  PROVE  IInv'
<1>. DEFINE t == Rest(p)
            r == reg[p]
            u == On("mknode", "ip", t)
<1>1. t \in Seq(Steps) /\ Reg(p) = "ip" /\ todo[p] = u /\ u # <<>> /\ (\A o : Top(u, o) <=> o = "mknode") /\ panic = "no"
  <2>1. /\ todo[p] # <<>> /\ todo[p] = On("mknode", Reg(p), Rest(p)) /\ Rest(p) \in Seq(Steps) /\ panic = "no"
        /\ <<"mknode", Reg(p)>> \in Steps /\ \A o : Top(todo[p], o) <=> o = "mknode"
    <3>1. At(p, "mknode")
      BY Zenon DEF CreateNode
    <3>. QED BY <3>1, Now
  <2>2. "mknode" \in {"create", "exists", "mknode", "bump", "drop", "lookup", "remove", "open", "closeall", "chdir", "setcwd"} => Reg(p) = "ip"
    BY <2>1, RegIn, Zenon
  <2>. QED BY <2>1, <2>2
<1>2. /\ Tables /\ r \in Regs /\ Local(u, r, ofile[p]) /\ Opened(u, r, ofile[p], file) /\ Code(u)
      /\ Locks(p, u, r, icache) /\ (trans = p <=> Logged(u)) /\ trans \in Procs \cup {None}
      /\ Unique(icache) /\ RefsAre(icache, reg, file) /\ FilesAre(file, ofile) /\ reg \in [Procs -> Regs]
  BY <1>1, Ours, Mine DEF Local

<1>3. /\ Pointers(u) = Pointers(t) /\ {"ip", "dp"} \subseteq Locked(t) /\ Locked(u) = Locked(t)
      /\ (Logged(u) <=> Logged(t)) /\ (Leaves(u) <=> Leaves(t)) /\ Code(t)
      /\ ~Top(t, "fileclose") /\ ~Top(t, "setcwd") /\ (OnFile(u) <=> OnFile(t)) /\ Like(u, t)
  <2>. HIDE DEF t, r
  <2>. QED BY <1>1, <1>2, Op_mknode
<1>. HIDE DEF t, u
<1>4. Local(t, r, ofile[p])
  BY <1>1, <1>2, <1>3, SameLocal
<1>5. /\ Locked(t) = Locked(todo[p]) /\ (Logged(t) <=> Logged(todo[p])) /\ (OnFile(t) => OnFile(todo[p]))
      /\ r.fp = reg[p].fp /\ r.fip = reg[p].fip /\ (\A y \in Ptrs : r[y] = reg[p][y]) /\ ~Top(todo[p], "iputend")
      /\ todo[p] # <<>> /\ ~Top(todo[p], "setcwd") /\ "ip" \in Locked(todo[p]) /\ "dp" \in Locked(todo[p])
  BY <1>1, <1>3
<1>. DEFINE a == r.ip
            b == r.dp
            i == icache[a].inum
            d == icache[b].inum
            dir == r.kind = "T_DIR"
            bs == IF dir THEN <<NextBlock>> ELSE icache[a].addrs
            ic == [icache EXCEPT ![a].nlink = 1, ![a].addrs = bs, ![b].nlink = IF dir THEN @ + 1 ELSE @]
            dn == [din EXCEPT ![i] = Copy(ic[a]), ![d] = Copy(ic[b])]
            es == [ents EXCEPT ![i] = IF dir THEN [NoEnts EXCEPT !["."] = i, ![".."] = d] ELSE @, ![d][r.name] = i]
            us == IF dir THEN used \cup {NextBlock} ELSE used
            A == Panic("balloc: out of blocks")
            B == /\ ~(dir /\ used = Blocks)
                 /\ icache' = ic /\ din' = dn /\ used' = us /\ ents' = es
                 /\ Proceed(p) /\ UNCHANGED <<trans, file, ofile, panic>>
<1>6. A \/ B
  BY Zenon DEF CreateNode
<1>7. CASE A
  <2>1. "balloc: out of blocks" \notin Messages
    BY Zenon DEF Messages
  <2>. QED BY <1>7, <2>1, PanicStep, Zenon
<1>8. CASE B
  <2>1. a \in Slots /\ b \in Slots /\ a # b /\ i \in Inums /\ d \in Inums /\ r.name \in Names
    <3>1. reg[p]["ip"] \in Slots /\ reg[p]["dp"] \in Slots /\ icache[reg[p]["ip"]].inum \in Inums /\ icache[reg[p]["dp"]].inum \in Inums
      BY <1>5, LockedEntry
    <3>2. reg[p]["ip"] # reg[p]["dp"]
      BY <1>1, <1>2, <1>5 DEF Locks
    <3>. QED BY <1>2, <3>1, <3>2, RegTypes
  <2>2. icache' = ic /\ din' = dn /\ used' = us /\ ents' = es
    BY <1>8, Zenon
  <2>3. Proceed(p) /\ UNCHANGED <<trans, file, ofile, panic>>
    BY <1>8, Zenon
  <2>4. dir => NextBlock \in Blocks /\ NextBlock \in Nat
    <3>1. ASSUME dir PROVE NextBlock \in Blocks
      <4>1. Blocks \ used # {}
        <5>1. ~(dir /\ used = Blocks)
          BY <1>8, Zenon
        <5>. QED BY <1>2, <3>1, <5>1 DEF Tables
      <4>2. Blocks \ used \in SUBSET Nat
        BY FsAssumption DEF Blocks
      <4>. QED BY <4>1, <4>2, MinIn DEF NextBlock
    <3>2. Blocks \subseteq Nat
      BY FsAssumption DEF Blocks
    <3>. HIDE DEF dir
    <3>. QED BY <3>1, <3>2
  <2>5. bs \in Seq(Nat) /\ us \subseteq Blocks
    <3>1. dir => <<NextBlock>> \in Seq(Nat)
      BY <2>4
    <3>2. icache[a].addrs \in Seq(Nat)
      BY <1>2, <2>1 DEF Tables, Inodes
    <3>. HIDE DEF dir, a
    <3>. QED BY <1>2, <2>4, <3>1, <3>2 DEF Tables
  <2>6. Pair(icache, icache', a, b)
    <3>1. icache \in [Slots -> Inodes]
      BY <1>2 DEF Tables
    <3>. HIDE DEF dir, bs, a, b
    <3>2. Pair(icache, ic, a, b)
      BY <2>1, <2>5, <3>1, PairIs, Zenon
    <3>. HIDE DEF ic
    <3>. QED BY <2>2, <3>2
  <2>7. din' = [[din EXCEPT ![i] = Copy(icache'[a])] EXCEPT ![d] = Copy(icache'[b])]
    <3>. HIDE DEF i, d, ic, a, b
    <3>. QED BY <2>2
  <2>8. ents' \in [Inums -> [Names -> 0 .. NINODES - 1]]
    <3>. DEFINE v == [NoEnts EXCEPT !["."] = i, ![".."] = d]
                e1 == [ents EXCEPT ![i] = IF dir THEN v ELSE ents[i]]
    <3>1. ents \in [Inums -> [Names -> 0 .. NINODES - 1]] /\ i \in 0 .. NINODES - 1 /\ d \in 0 .. NINODES - 1 /\ 0 \in 0 .. NINODES - 1
      <4>. HIDE DEF i, d
      <4>. QED BY <1>2, <2>1, FsAssumption DEF Tables, Inums
    <3>2. "." \in Names /\ ".." \in Names
      BY FsAssumption DEF Dots
    <3>3. v \in [Names -> 0 .. NINODES - 1]
      <4>. HIDE DEF i, d
      <4>. QED BY <3>1, <3>2 DEF NoEnts
    <3>4. es = [e1 EXCEPT ![d][r.name] = i]
      <4>. HIDE DEF i, d, v, dir
      <4>. QED BY DEF v
    <3>5. e1 \in [Inums -> [Names -> 0 .. NINODES - 1]]
      <4>. HIDE DEF i, d, v, dir
      <4>. QED BY <2>1, <3>1, <3>3
    <3>. HIDE DEF i, d, e1
    <3>6. [e1 EXCEPT ![d][r.name] = i] \in [Inums -> [Names -> 0 .. NINODES - 1]]
      BY <2>1, <3>1, <3>5, EntsSet
    <3>. HIDE DEF es
    <3>. QED BY <2>2, <3>4, <3>6
  <2>9. Do(p, r, t)
    BY <2>3 DEF Proceed, Goto, t
  <2>10. used' \subseteq Blocks
    <3>. HIDE DEF us, es, ic, dn
    <3>. QED BY <2>2, <2>5
  <2>11. a = reg[p]["ip"] /\ b = reg[p]["dp"] /\ "ip" # "dp"
    OBVIOUS
  <2>12. PairWritten(a, b)
    BY <2>7 DEF PairWritten
  <2>. HIDE DEF r, a, b, i, d, ic, dn, es, us, dir
  <2>. QED BY <1>1, <1>2, <1>4, <1>5, <2>3, <2>6, <2>8, <2>9, <2>10, <2>11, <2>12, PairStep
<1>. HIDE DEF A, B
<1>. QED BY <1>6, <1>7, <1>8, Zenon

-----------------------------------------------------------------------------
(* The current directory and exit.                                         *)

LEMMA Ends ==
  /\ On("setcwd", "ip", <<>>) = EndCwd /\ On("iput", "cwd", <<>>) = PutCwd
  /\ On("closeall", "ip", PutCwd) = ExitEnd
  /\ EndCwd \in Seq(Steps) /\ PutCwd \in Seq(Steps) /\ ExitEnd \in Seq(Steps)
<1>1. <<>> \in Seq(Steps)
  OBVIOUS
<1>2. Cat(EndCwd, <<>>) = On("setcwd", "ip", <<>>) /\ EndCwd \in Seq(Steps)
  BY <1>1, Piece6 DEF EndCwd
<1>3. Cat(PutCwd, <<>>) = On("iput", "cwd", <<>>) /\ PutCwd \in Seq(Steps)
  BY <1>1, Piece7 DEF PutCwd
<1>4. Cat(ExitEnd, <<>>) = On("closeall", "ip", On("iput", "cwd", <<>>)) /\ ExitEnd \in Seq(Steps)
  BY <1>1, Piece8 DEF ExitEnd
<1>. QED BY <1>2, <1>3, <1>4, CatNone, Zenon

LEMMA StepChdir ==
  ASSUME IInv, NEW p \in Procs, Chdir(p)
  PROVE  IInv'
<1>. DEFINE t == Rest(p)
            r == reg[p]
            u == On("chdir", "ip", t)
<1>1. t \in Seq(Steps) /\ Reg(p) = "ip" /\ todo[p] = u /\ u # <<>> /\ (\A o : Top(u, o) <=> o = "chdir") /\ panic = "no"
  <2>1. /\ todo[p] # <<>> /\ todo[p] = On("chdir", Reg(p), Rest(p)) /\ Rest(p) \in Seq(Steps) /\ panic = "no"
        /\ <<"chdir", Reg(p)>> \in Steps /\ \A o : Top(todo[p], o) <=> o = "chdir"
    <3>1. At(p, "chdir")
      BY Zenon DEF Chdir
    <3>. QED BY <3>1, Now
  <2>2. "chdir" \in {"create", "exists", "mknode", "bump", "drop", "lookup", "remove", "open", "closeall", "chdir", "setcwd"} => Reg(p) = "ip"
    BY <2>1, RegIn, Zenon
  <2>. QED BY <2>1, <2>2
<1>2. /\ Tables /\ r \in Regs /\ Local(u, r, ofile[p]) /\ Opened(u, r, ofile[p], file) /\ Code(u)
      /\ Locks(p, u, r, icache) /\ (trans = p <=> Logged(u)) /\ trans \in Procs \cup {None}
      /\ Unique(icache) /\ RefsAre(icache, reg, file) /\ FilesAre(file, ofile) /\ reg \in [Procs -> Regs]
  BY <1>1, Ours, Mine DEF Local

<1>. DEFINE v == <<<<"iunlock", "ip">>, <<"iput", "cwd">>, <<"setcwd", "ip">>>> \o t
            A == Goto(p, UnlockPut("ip") \o t)
            B == Goto(p, v)
<1>3. (A \/ B) /\ UNCHANGED <<disk, icache, trans, file, ofile, panic>>
  BY Zenon DEF Chdir
<1>4. t = <<>>
  <2>. HIDE DEF t, r
  <2>. QED BY <1>1, <1>2, Op_chdir
<1>5. /\ Pointers(t) = {} /\ Locked(t) = {} /\ ~Logged(t) /\ ~Leaves(t) /\ ~OnFile(t) /\ ~MayFail(t) /\ Code(t)
      /\ ~Top(t, "fileclose") /\ ~Top(t, "setcwd")
  <2>. HIDE DEF t
  <2>. QED BY <1>4, Nothing, Bottom DEF Sum
<1>6. Pointers(u) = {"ip"} /\ Locked(u) = {"ip"} /\ ~Logged(u) /\ ~Leaves(u)
  <2>. HIDE DEF t, r
  <2>. QED BY <1>1, <1>2, <1>5, Op_chdir
<1>7. todo[p] # <<>> /\ ~Top(todo[p], "setcwd") /\ ~Top(todo[p], "iputend")
  BY <1>1
<1>8. CASE A
  <2>. HIDE DEF t, u, r
  <2>1. "ip" \in CallPtrs /\ "ip" \notin Pointers(t) /\ "ip" \notin Locked(t)
    BY <1>5 DEF CallPtrs
  <2>2. Pointers(todo[p]) = Pointers(t) \cup {"ip"} /\ Locked(todo[p]) = Locked(t) \cup {"ip"} /\ (Logged(t) <=> Logged(todo[p]))
    BY <1>1, <1>5, <1>6
  <2>. QED BY <1>1, <1>3, <1>5, <1>7, <1>8, <2>1, <2>2, Retreat
<1>9. CASE B
  <2>1. v = On("iunlock", "ip", On("iput", "cwd", On("setcwd", "ip", t)))
    <3>. HIDE DEF t
    <3>. QED BY <1>1, Piece29 DEF Cat
  <2>2. Do(p, r, v)
    BY <1>9 DEF Goto
  <2>. HIDE DEF t, u, r, v, A, B
  <2>3. v = On("iunlock", "ip", On("iput", "cwd", EndCwd))
    BY <1>4, <2>1, Ends
  <2>. DEFINE a == EndCwd
              b == On("iput", "cwd", a)
  <2>4. Sum(a, {"ip"}, {}, FALSE, FALSE) /\ Shape(a, FALSE, FALSE, FALSE, FALSE, FALSE, FALSE, TRUE, FALSE) /\ (\A o : Top(a, o) <=> o = "setcwd")
    BY IsEndCwd
  <2>. HIDE DEF a
  <2>5. /\ b \in Seq(Steps) /\ Code(b) /\ Pointers(b) = {"ip"} /\ Locked(b) = {} /\ ~Logged(b) /\ Leaves(b) /\ ~OnFile(b) /\ Like(b, a)
        /\ (\A o : Top(b, o) <=> o = "iput")
    <3>1. a = EndCwd
      BY DEF a
    <3>2. a \in Seq(Steps) /\ Code(a) /\ Pointers(a) = {"ip"} /\ Locked(a) = {} /\ ~Logged(a) /\ ~OnFile(a) /\ ~Top(a, "fileclose")
      BY <2>4 DEF Sum, Shape
    <3>3. "cwd" \notin Locked(a) /\ a \in {<<>>, EndCwd}
      BY <3>1, <3>2
    <3>. QED BY <3>2, <3>3, Op_iputcwd
  <2>6. v = On("iunlock", "ip", b)
    BY <2>3 DEF a
  <2>. HIDE DEF b
  <2>7. /\ v \in Seq(Steps) /\ Code(v) /\ Pointers(v) = {"ip"} /\ Locked(v) = {"ip"} /\ ~Logged(v) /\ Leaves(v) /\ ~OnFile(v) /\ Like(v, b)
        /\ (\A o : Top(v, o) <=> o = "iunlock")
    <3>1. "ip" \in CallPtrs \cup {"fip"} /\ "ip" \notin Locked(b) /\ ~Top(b, "fileclose") /\ ~Top(b, "setcwd")
      BY <2>5 DEF CallPtrs
    <3>. QED BY <2>5, <2>6, <3>1, Op_iunlock
  <2>8. ~MayFail(v) /\ Has(v, "setcwd")
    <3>1. Like(v, a)
      BY <2>5, <2>7, LikeTrans
    <3>2. ~MayFail(a) /\ Has(a, "setcwd")
      BY <2>4 DEF Shape, MayFail
    <3>. QED BY <3>1, <3>2, LikeFails
  <2>9. Local(v, r, ofile[p])
    <3>1. (\A y \in CallPtrs : r[y] # None <=> y \in Pointers(v)) /\ r["cwd"] # None
      BY <1>1, <1>2, <1>6, <2>7 DEF Local, Holding
    <3>2. Arguments(v, r)
      BY <2>7, <2>8, NoBump
    <3>3. ~Top(v, "setcwd") /\ ~Top(v, "fileclose")
      BY <2>7
    <3>. QED BY <2>7, <2>8, <3>1, <3>2, <3>3, MakeLocal
  <2>10. r \in Regs /\ Locked(v) = Locked(todo[p]) /\ (Logged(v) <=> Logged(todo[p])) /\ r.fp = reg[p].fp /\ r.fip = reg[p].fip /\ \A x \in Ptrs : r[x] = reg[p][x]
    BY <1>1, <1>2, <1>6, <2>7 DEF r
  <2>. QED BY <1>3, <1>7, <2>2, <2>7, <2>9, <2>10, QuietAll
<1>. HIDE DEF A, B
<1>. QED BY <1>3, <1>8, <1>9, Zenon

LEMMA StepCloseAll ==
  ASSUME IInv, NEW p \in Procs, CloseAll(p)
  PROVE  IInv'
<1>. DEFINE t == Rest(p)
            r == reg[p]
            u == On("closeall", "ip", t)
<1>1. t \in Seq(Steps) /\ Reg(p) = "ip" /\ todo[p] = u /\ u # <<>> /\ (\A o : Top(u, o) <=> o = "closeall") /\ panic = "no"
  <2>1. /\ todo[p] # <<>> /\ todo[p] = On("closeall", Reg(p), Rest(p)) /\ Rest(p) \in Seq(Steps) /\ panic = "no"
        /\ <<"closeall", Reg(p)>> \in Steps /\ \A o : Top(todo[p], o) <=> o = "closeall"
    <3>1. At(p, "closeall")
      BY Zenon DEF CloseAll
    <3>. QED BY <3>1, Now
  <2>2. "closeall" \in {"create", "exists", "mknode", "bump", "drop", "lookup", "remove", "open", "closeall", "chdir", "setcwd"} => Reg(p) = "ip"
    BY <2>1, RegIn, Zenon
  <2>. QED BY <2>1, <2>2
<1>2. /\ Tables /\ r \in Regs /\ Local(u, r, ofile[p]) /\ Opened(u, r, ofile[p], file) /\ Code(u)
      /\ Locks(p, u, r, icache) /\ (trans = p <=> Logged(u)) /\ trans \in Procs \cup {None}
      /\ Unique(icache) /\ RefsAre(icache, reg, file) /\ FilesAre(file, ofile) /\ reg \in [Procs -> Regs]
  BY <1>1, Ours, Mine DEF Local

<1>. DEFINE open == (1 .. NOFILE) \ FreeFds(p)
            m == Min(open)
            v == <<<<"fileclose", m>>>> \o todo[p]
            A == open = {} /\ Goto(p, t)
            B == open # {} /\ Goto(p, v)
<1>3. (A \/ B) /\ UNCHANGED <<disk, icache, trans, file, ofile, panic>>
  BY Zenon DEF CloseAll
<1>4. t = PutCwd
  <2>. HIDE DEF t, r
  <2>. QED BY <1>1, <1>2, Op_closeall
<1>5. /\ Pointers(t) = {} /\ Locked(t) = {} /\ ~Logged(t) /\ Leaves(t) /\ ~OnFile(t) /\ ~MayFail(t) /\ Code(t)
      /\ ~Top(t, "fileclose") /\ ~Top(t, "setcwd") /\ ~Has(t, "setcwd")
  <2>. HIDE DEF t
  <2>1. Sum(t, {}, {}, FALSE, TRUE) /\ Shape(t, FALSE, FALSE, FALSE, FALSE, FALSE, FALSE, FALSE, FALSE)
        /\ (\A o : Top(t, o) <=> o = "iput") /\ ~MayFail(t)
    BY <1>4, IsPutCwd
  <2>. QED BY <2>1 DEF Sum, Shape
<1>6. Pointers(u) = {} /\ Locked(u) = {} /\ ~Logged(u) /\ ~Leaves(u) /\ ~OnFile(u) /\ Like(u, t)
  <2>. HIDE DEF t, r
  <2>. QED BY <1>1, <1>2, <1>5, Op_closeall
<1>7. todo[p] # <<>> /\ ~Top(todo[p], "setcwd") /\ ~Top(todo[p], "iputend")
  BY <1>1
<1>8. CASE A
  <2>1. Do(p, r, t) /\ open = {}
    BY <1>8 DEF Goto
  <2>2. \A fd \in 1 .. NOFILE : ofile[p][fd] = None
    BY <2>1 DEF FreeFds
  <2>. HIDE DEF t, u, A, B
  <2>3. Local(t, r, ofile[p])
    <3>1. (\A y \in CallPtrs : r[y] # None <=> y \in Pointers(t)) /\ r["cwd"] # None
      BY <1>1, <1>2, <1>5, <1>6 DEF Local, Holding
    <3>2. Arguments(t, r)
      BY <1>1, <1>5, NoBump
    <3>. QED BY <1>5, <2>2, <3>1, <3>2, MakeLocal
  <2>4. r \in Regs /\ Locked(t) = Locked(todo[p]) /\ (Logged(t) <=> Logged(todo[p])) /\ r.fp = reg[p].fp /\ r.fip = reg[p].fip /\ \A x \in Ptrs : r[x] = reg[p][x]
    BY <1>1, <1>2, <1>5, <1>6
  <2>. HIDE DEF r
  <2>. QED BY <1>1, <1>3, <1>5, <1>7, <2>1, <2>3, <2>4, QuietAll
<1>9. CASE B
  <2>1. Do(p, r, v) /\ open # {}
    BY <1>9 DEF Goto
  <2>2. m \in open
    <3>1. open \in SUBSET Nat
      BY FsAssumption
    <3>. HIDE DEF open
    <3>. QED BY <2>1, <3>1, MinIn
  <2>3. m \in 1 .. NOFILE /\ ofile[p][m] # None
    BY <2>2 DEF FreeFds
  <2>4. u \in Seq(Steps) /\ u = ExitEnd
    BY <1>4, Ends
  <2>. HIDE DEF m, open, t, u
  <2>5. v = On("fileclose", m, u)
    <3>1. <<"fileclose", m>> \in Steps
      BY <2>3 DEF Steps
    <3>2. Cat(<<<<"fileclose", m>>>>, u) = Push(<<"fileclose", m>>, u)
      BY <2>4, <3>1, Cat1, Zenon
    <3>. QED BY <1>1, <3>2 DEF Cat, On
  <2>. HIDE DEF v, A, B
  <2>6. /\ v \in Seq(Steps) /\ v # <<>> /\ Head(v) = <<"fileclose", m>> /\ Code(v) /\ Pointers(v) = {} /\ Locked(v) = {} /\ ~Logged(v) /\ ~Leaves(v)
        /\ ~OnFile(v) /\ Like(v, u) /\ (\A o : Top(v, o) <=> o = "fileclose")
    <3>1. ~Top(u, "fileclose") /\ ~Top(u, "setcwd") /\ u \in {<<>>, ExitEnd}
      BY <1>1, <2>4
    <3>. QED BY <1>2, <1>6, <2>3, <2>4, <2>5, <3>1, Op_fileclose
  <2>7. Local(v, r, ofile[p])
    <3>1. Holding(v, r)
      BY <1>1, <1>2, <1>6, <2>6 DEF Local, Holding
    <3>2. Arguments(v, r)
      BY <1>2, <2>6, LikeArgs DEF Local
    <3>3. Descriptors(v, r, ofile[p])
      <4>1. Head(v)[2] = m
        BY <2>6
      <4>. QED BY <2>3, <2>6, <4>1 DEF Descriptors
    <3>. QED BY <2>6, <3>1, <3>2, <3>3 DEF Local
  <2>8. r \in Regs /\ Locked(v) = Locked(todo[p]) /\ (Logged(v) <=> Logged(todo[p])) /\ r.fp = reg[p].fp /\ r.fip = reg[p].fip /\ \A x \in Ptrs : r[x] = reg[p][x]
    BY <1>1, <1>2, <1>6, <2>6
  <2>. HIDE DEF r
  <2>. QED BY <1>3, <1>7, <2>1, <2>6, <2>7, <2>8, QuietAll
<1>. HIDE DEF A, B
<1>. QED BY <1>3, <1>8, <1>9, Zenon

-----------------------------------------------------------------------------
(* Reading and writing a file.                                             *)

\* A device lets go of the inode, and locks it again.
LEMMA DeviceCode ==
  ASSUME NEW t \in Seq(Steps), Code(t), "fip" \in Locked(t), ~Top(t, "fileclose"), ~Top(t, "setcwd"),
         NEW v, v = On("iunlock", "fip", On("ilock", "fip", t))
  PROVE  /\ v \in Seq(Steps) /\ Code(v) /\ Pointers(v) = Pointers(t) /\ Locked(v) = Locked(t) /\ (Logged(v) <=> Logged(t))
         /\ (Leaves(v) <=> Leaves(t)) /\ Like(v, t) /\ ~Top(v, "fileclose") /\ ~Top(v, "setcwd")
<1>. DEFINE a == On("ilock", "fip", t)
            b == On("iunlock", "fip", a)
<1>1. v = b
  OBVIOUS
<1>2. "fip" \in CallPtrs \cup {"fip"} /\ "fip" \in Pointers(t) \cup {"fip"}
  OBVIOUS
<1>3. /\ a \in Seq(Steps) /\ Code(a) /\ Pointers(a) = Pointers(t) /\ Locked(a) = Locked(t) \ {"fip"} /\ (Logged(a) <=> Logged(t))
      /\ (Leaves(a) <=> Leaves(t)) /\ Like(a, t) /\ ~Top(a, "fileclose") /\ ~Top(a, "setcwd")
  BY <1>2, Op_ilock
<1>. HIDE DEF a
<1>4. "fip" \notin Locked(a)
  BY <1>3
<1>5. /\ b \in Seq(Steps) /\ Code(b) /\ Pointers(b) = Pointers(a) /\ Locked(b) = Locked(a) \cup {"fip"} /\ (Logged(b) <=> Logged(a))
      /\ (Leaves(b) <=> Leaves(a)) /\ Like(b, a) /\ ~Top(b, "fileclose") /\ ~Top(b, "setcwd")
  BY <1>2, <1>3, <1>4, Op_iunlock
<1>. HIDE DEF b
<1>6. Like(b, t)
  BY <1>3, <1>5, LikeTrans
<1>7. Locked(b) = Locked(t)
  BY <1>3, <1>5
<1>. QED BY <1>1, <1>3, <1>5, <1>6, <1>7
LEMMA DeviceStep ==
  ASSUME IInv, NEW p \in Procs, NEW r \in Regs, r = reg[p], NEW t \in Seq(Steps),
         NEW v, v = On("iunlock", "fip", On("ilock", "fip", t)), Do(p, r, v),
         UNCHANGED <<disk, icache, trans, file, ofile, panic>>, todo[p] # <<>>, ~Top(todo[p], "setcwd"), ~Top(todo[p], "iputend"),
         OnFile(todo[p]), Code(t), Pointers(t) = Pointers(todo[p]), "fip" \in Locked(t), Locked(t) = Locked(todo[p]),
         Logged(todo[p]) <=> Logged(t), Leaves(todo[p]) <=> Leaves(t), ~Top(t, "fileclose"), ~Top(t, "setcwd"), Like(todo[p], t)
  PROVE  IInv'
<1>5. /\ v \in Seq(Steps) /\ Code(v) /\ Pointers(v) = Pointers(t) /\ Locked(v) = Locked(t) /\ (Logged(v) <=> Logged(t))
      /\ (Leaves(v) <=> Leaves(t)) /\ Like(v, t) /\ ~Top(v, "fileclose") /\ ~Top(v, "setcwd")
  BY DeviceCode
<1>6. Like(todo[p], v)
  BY <1>5 DEF Like
<1>7. Local(v, r, ofile[p])
  <2>1. Local(todo[p], r, ofile[p])
    BY Mine DEF Local
  <2>. QED BY <1>5, <1>6, <2>1, SameLocal
<1>. QED BY <1>5, <1>7, QuietAll

LEMMA OffIs ==
  ASSUME NEW fl \in [1 .. NFILE -> Files], NEW f \in 1 .. NFILE, NEW n \in Nat, NEW fl2, fl2 = [fl EXCEPT ![f].off = n]
  PROVE  SameFiles(fl, fl2) /\ fl2 \in [1 .. NFILE -> Files]
<1>. DEFINE e == [fl[f] EXCEPT !.off = n]
<1>1. e \in Files /\ e.ref = fl[f].ref /\ e.ip = fl[f].ip
  BY DEF Files
<1>2. fl2 = [fl EXCEPT ![f] = e]
  OBVIOUS
<1>. HIDE DEF e
<1>. QED BY <1>1, <1>2 DEF SameFiles

\* The offset of a file moves.
LEMMA OffStep ==
  ASSUME IInv, NEW p \in Procs, NEW t \in Seq(Steps), NEW r \in Regs, r = reg[p], Do(p, r, t), NEW f \in 1 .. NFILE, NEW n \in Nat,
         file' = [file EXCEPT ![f].off = n], UNCHANGED <<disk, icache, trans, ofile, panic>>,
         ~Top(todo[p], "iputend"), Local(t, r, ofile[p]), Locked(t) = Locked(todo[p]),
         Logged(t) <=> Logged(todo[p]), OnFile(t) => OnFile(todo[p])
  PROVE  IInv'
<1>1. Tables /\ Opened(todo[p], r, ofile[p], file) /\ (trans = p <=> Logged(todo[p])) /\ trans \in Procs \cup {None}
  BY Ours, Mine
<1>2. SameFiles(file, file') /\ file' \in [1 .. NFILE -> Files]
  BY <1>1, OffIs DEF Tables
<1>3. Tables' /\ icache' = icache /\ din' = din /\ ofile' = ofile /\ panic' = panic /\ trans' = trans
  BY <1>1, <1>2 DEF Tables, disk
<1>4. LogBy(p, t, trans, trans') /\ trans' \in Procs \cup {None}
  BY <1>1, <1>3 DEF LogBy
<1>5. (\A x \in Locked(t) : r[x] = reg[p][x]) /\ (\A x \in Ptrs : r[x] = reg[p][x])
  OBVIOUS
<1>6. Opened(t, r, ofile[p], file')
  BY <1>1, <1>2, OpenedKept
<1>. QED BY <1>2, <1>3, <1>4, <1>5, <1>6, Quiet

LEMMA StepSetCwd ==
  ASSUME IInv, NEW p \in Procs, SetCwd(p)
  PROVE  IInv'
<1>. DEFINE t == Rest(p)
            r == reg[p]
            u == On("setcwd", "ip", t)
<1>1. t \in Seq(Steps) /\ Reg(p) = "ip" /\ todo[p] = u /\ u # <<>> /\ (\A o : Top(u, o) <=> o = "setcwd") /\ panic = "no"
  <2>1. /\ todo[p] # <<>> /\ todo[p] = On("setcwd", Reg(p), Rest(p)) /\ Rest(p) \in Seq(Steps) /\ panic = "no"
        /\ <<"setcwd", Reg(p)>> \in Steps /\ \A o : Top(todo[p], o) <=> o = "setcwd"
    <3>1. At(p, "setcwd")
      BY Zenon DEF SetCwd
    <3>. QED BY <3>1, Now
  <2>2. "setcwd" \in {"create", "exists", "mknode", "bump", "drop", "lookup", "remove", "open", "closeall", "chdir", "setcwd"} => Reg(p) = "ip"
    BY <2>1, RegIn, Zenon
  <2>. QED BY <2>1, <2>2
<1>2. /\ Tables /\ r \in Regs /\ Local(u, r, ofile[p]) /\ Opened(u, r, ofile[p], file) /\ Code(u)
      /\ Locks(p, u, r, icache) /\ (trans = p <=> Logged(u)) /\ trans \in Procs \cup {None}
      /\ Unique(icache) /\ RefsAre(icache, reg, file) /\ FilesAre(file, ofile) /\ reg \in [Procs -> Regs]
  BY <1>1, Ours, Mine DEF Local

<1>. DEFINE h == [r EXCEPT !["cwd"] = r.ip, !["ip"] = None]
<1>3. Do(p, h, t) /\ UNCHANGED <<disk, icache, trans, file, ofile, panic>>
  BY Zenon DEF SetCwd
<1>4. t = <<>>
  <2>. HIDE DEF t, r
  <2>. QED BY <1>1, <1>2, Op_setcwd
<1>5. /\ Pointers(t) = {} /\ Locked(t) = {} /\ ~Logged(t) /\ ~Leaves(t) /\ ~OnFile(t) /\ ~MayFail(t) /\ Code(t)
      /\ ~Top(t, "fileclose") /\ ~Top(t, "setcwd")
  <2>. HIDE DEF t
  <2>. QED BY <1>4, Nothing, Bottom DEF Sum
<1>6. Pointers(u) = {"ip"} /\ Locked(u) = {} /\ ~Logged(u) /\ ~Leaves(u) /\ ~OnFile(u)
  <2>. HIDE DEF t, r
  <2>. QED BY <1>1, <1>2, <1>5, Op_setcwd
<1>. HIDE DEF t, u
<1>7. /\ reg[p]["ip"] \in Slots /\ reg[p]["cwd"] = None /\ \A y \in CallPtrs : y # "ip" => reg[p][y] = None
  <2>1. Holding(u, r)
    BY <1>2 DEF Local
  <2>2. r["cwd"] = None /\ r["ip"] # None /\ \A y \in CallPtrs : y # "ip" => r[y] = None
    BY <1>1, <1>6, <2>1 DEF Holding, CallPtrs
  <2>3. r["ip"] \in Slots \cup {None}
    BY <1>2, RegTypes
  <2>. QED BY <2>2, <2>3
<1>8. /\ h \in Regs /\ h["ip"] = None /\ h["cwd"] = reg[p]["ip"] /\ (\A y \in Ptrs : y # "ip" /\ y # "cwd" => h[y] = reg[p][y])
      /\ h.fp = reg[p].fp /\ h.fip = reg[p].fip
  <2>. DEFINE s == r.ip
              k == [r EXCEPT !["cwd"] = s]
  <2>1. s \in Slots \cup {None} /\ None \in Slots \cup {None} /\ "cwd" \in Ptrs /\ "ip" \in Ptrs
    BY <1>7 DEF Ptrs
  <2>2. SetTo(r, "cwd", s, k)
    <3>. HIDE DEF s, r
    <3>. QED BY <1>2, <2>1, SetIs, Zenon
  <2>3. h = [k EXCEPT !["ip"] = None]
    OBVIOUS
  <2>. HIDE DEF k, r, s
  <2>4. k \in Regs
    BY <2>2 DEF SetTo
  <2>5. SetTo(k, "ip", None, [k EXCEPT !["ip"] = None])
    BY <2>1, <2>4, SetIs, Zenon
  <2>. HIDE DEF h
  <2>6. SetTo(k, "ip", None, h)
    BY <2>3, <2>5
  <2>. QED BY <2>2, <2>6 DEF SetTo, Ptrs, r, s
<1>. HIDE DEF h, r
<1>9. Local(t, h, ofile[p])
  <2>1. (\A y \in CallPtrs : h[y] # None <=> y \in Pointers(t)) /\ h["cwd"] # None
    BY <1>5, <1>7, <1>8, NotNone DEF Ptrs, CallPtrs
  <2>2. Arguments(t, h)
    BY <1>1, <1>5, NoBump
  <2>. QED BY <1>5, <2>1, <2>2, MakeLocal
<1>10. RefsAre(icache', [reg EXCEPT ![p] = h], file')
  <2>. DEFINE s == reg[p]["ip"]
  <2>1. icache' = icache /\ file' = file /\ RefsKept(icache, icache)
    BY <1>3 DEF RefsKept
  <2>2. \A z \in Slots : icache[z].ref \in Nat
    BY <1>2 DEF Tables, Inodes
  <2>3. s \in Slots /\ h["ip"] = None /\ h["cwd"] = s /\ RegBut(reg[p], h, "ip", "cwd") /\ "ip" \in Ptrs /\ "cwd" \in Ptrs /\ reg[p]["cwd"] = None
    BY <1>7, <1>8 DEF RegBut, Ptrs
  <2>. HIDE DEF s
  <2>4. reg[p]["ip"] = s /\ "ip" # "cwd"
    BY DEF s
  <2>5. RefsAre(icache, [reg EXCEPT ![p] = h], file)
    BY <1>2, <1>8, <2>1, <2>2, <2>3, <2>4, RefsMove
  <2>. QED BY <2>1, <2>5
<1>11. /\ Tables' /\ SameFiles(file, file') /\ trans' = trans /\ ofile' = ofile /\ panic' = panic
       /\ Unique(icache') /\ Copied(icache', din') /\ BusyBy(p, icache, icache')
  <2>1. Copied(icache, din)
    BY Ours
  <2>2. icache' = icache /\ din' = din /\ trans' = trans /\ ofile' = ofile /\ panic' = panic /\ file' = file /\ ents' = ents /\ used' = used
    BY <1>3 DEF disk
  <2>. QED BY <1>2, <2>1, <2>2 DEF Tables, SameFiles, BusyBy
<1>12. Freeing(icache', [todo EXCEPT ![p] = t], [reg EXCEPT ![p] = h])
  BY <1>1, <1>3, FreeingKept
<1>13. Locks(p, t, h, icache')
  BY <1>2, <1>3, <1>5, <1>6, LocksKept
<1>14. (Logged(t) <=> Logged(todo[p])) /\ (OnFile(t) => OnFile(todo[p]))
  BY <1>1, <1>5, <1>6
<1>. QED BY <1>1, <1>3, <1>8, <1>9, <1>10, <1>11, <1>12, <1>13, <1>14, CacheStep

LEMMA StepReadi ==
  ASSUME IInv, NEW p \in Procs, Readi(p)
  PROVE  IInv'
<1>. DEFINE t == Rest(p)
            r == reg[p]
            u == On("readi", "fip", t)
<1>1. t \in Seq(Steps) /\ Reg(p) = "fip" /\ todo[p] = u /\ u # <<>> /\ (\A o : Top(u, o) <=> o = "readi") /\ panic = "no"
  <2>1. /\ todo[p] # <<>> /\ todo[p] = On("readi", Reg(p), Rest(p)) /\ Rest(p) \in Seq(Steps) /\ panic = "no"
        /\ <<"readi", Reg(p)>> \in Steps /\ \A o : Top(todo[p], o) <=> o = "readi"
    <3>1. At(p, "readi")
      BY Zenon DEF Readi
    <3>. QED BY <3>1, Now
  <2>2. "readi" \in {"readi", "writei"} => Reg(p) = "fip"
    BY <2>1, RegIn, Zenon
  <2>. QED BY <2>1, <2>2
<1>2. /\ Tables /\ r \in Regs /\ Local(u, r, ofile[p]) /\ Opened(u, r, ofile[p], file) /\ Code(u)
      /\ Locks(p, u, r, icache) /\ (trans = p <=> Logged(u)) /\ trans \in Procs \cup {None}
      /\ Unique(icache) /\ RefsAre(icache, reg, file) /\ FilesAre(file, ofile) /\ reg \in [Procs -> Regs]
  BY <1>1, Ours, Mine DEF Local

<1>. DEFINE f == r.fp
            e == icache[r.fip]
            v == <<<<"iunlock", "fip">>, <<"ilock", "fip">>>> \o t
            fl == [file EXCEPT ![f].off = IF @ < Len(e.addrs) THEN @ + 1 ELSE @]
            A == Goto(p, v) /\ file' = file
            B == file' = fl /\ Proceed(p)
<1>3. (A \/ B) /\ UNCHANGED <<disk, icache, trans, ofile, panic>>
  BY Zenon DEF Readi
<1>4. /\ Pointers(u) = Pointers(t) /\ "fip" \in Locked(t) /\ Locked(u) = Locked(t)
      /\ (Logged(u) <=> Logged(t)) /\ (Leaves(u) <=> Leaves(t)) /\ Code(t)
      /\ ~Top(t, "fileclose") /\ ~Top(t, "setcwd") /\ OnFile(u) /\ Like(u, t)
  <2>. HIDE DEF t, r
  <2>. QED BY <1>1, <1>2, Op_readi
<1>. HIDE DEF t, u
<1>5. /\ todo[p] # <<>> /\ ~Top(todo[p], "setcwd") /\ ~Top(todo[p], "iputend") /\ OnFile(todo[p])
  BY <1>1, <1>4
<1>6. CASE A
  <2>1. Do(p, r, v) /\ UNCHANGED <<disk, icache, trans, file, ofile, panic>>
    BY <1>3, <1>6 DEF Goto
  <2>2. v = On("iunlock", "fip", On("ilock", "fip", t))
    BY <1>1, Piece28 DEF Cat
  <2>3. r = reg[p]
    OBVIOUS
  <2>. HIDE DEF r, v, A, B, fl, e, f
  <2>. QED BY <1>1, <1>2, <1>4, <1>5, <2>1, <2>2, <2>3, DeviceStep
<1>7. CASE B
  <2>1. file' = fl /\ Do(p, r, t) /\ UNCHANGED <<disk, icache, trans, ofile, panic>>
    BY <1>3, <1>7 DEF Proceed, Goto, t
  <2>2. f \in 1 .. NFILE
    BY <1>2, <1>4 DEF Opened
  <2>3. file \in [1 .. NFILE -> Files] /\ file[f].off \in Nat
    BY <1>2, <2>2 DEF Tables, Files
  <2>. DEFINE n == IF file[f].off < Len(e.addrs) THEN file[f].off + 1 ELSE file[f].off
  <2>4. n \in Nat /\ file' = [file EXCEPT ![f].off = n]
    BY <2>1, <2>3
  <2>5. r = reg[p]
    OBVIOUS
  <2>. HIDE DEF n, r, e, fl, f, A, B
  <2>6. Local(t, r, ofile[p])
    BY <1>1, <1>2, <1>4, <1>5, SameLocal
  <2>7. Locked(t) = Locked(todo[p]) /\ (Logged(t) <=> Logged(todo[p])) /\ UNCHANGED <<disk, icache, trans, ofile, panic>> /\ Do(p, r, t)
    BY <1>1, <1>4, <2>1
  <2>. QED BY <1>1, <1>2, <1>5, <2>2, <2>4, <2>5, <2>6, <2>7, OffStep
<1>. HIDE DEF A, B
<1>. QED BY <1>3, <1>6, <1>7, Zenon

LEMMA StepWritei ==
  ASSUME IInv, NEW p \in Procs, Writei(p)
  PROVE  IInv'
<1>. DEFINE t == Rest(p)
            r == reg[p]
            u == On("writei", "fip", t)
<1>1. t \in Seq(Steps) /\ Reg(p) = "fip" /\ todo[p] = u /\ u # <<>> /\ (\A o : Top(u, o) <=> o = "writei") /\ panic = "no"
  <2>1. /\ todo[p] # <<>> /\ todo[p] = On("writei", Reg(p), Rest(p)) /\ Rest(p) \in Seq(Steps) /\ panic = "no"
        /\ <<"writei", Reg(p)>> \in Steps /\ \A o : Top(todo[p], o) <=> o = "writei"
    <3>1. At(p, "writei")
      BY Zenon DEF Writei
    <3>. QED BY <3>1, Now
  <2>2. "writei" \in {"readi", "writei"} => Reg(p) = "fip"
    BY <2>1, RegIn, Zenon
  <2>. QED BY <2>1, <2>2
<1>2. /\ Tables /\ r \in Regs /\ Local(u, r, ofile[p]) /\ Opened(u, r, ofile[p], file) /\ Code(u)
      /\ Locks(p, u, r, icache) /\ (trans = p <=> Logged(u)) /\ trans \in Procs \cup {None}
      /\ Unique(icache) /\ RefsAre(icache, reg, file) /\ FilesAre(file, ofile) /\ reg \in [Procs -> Regs]
  BY <1>1, Ours, Mine DEF Local

<1>. DEFINE f == r.fp
            s == r.fip
            e == icache[s]
            v == <<<<"iunlock", "fip">>, <<"ilock", "fip">>>> \o t
            A == Goto(p, v) /\ UNCHANGED <<disk, icache, trans, file, ofile, panic>>
            B == Proceed(p) /\ UNCHANGED <<disk, icache, trans, file, ofile, panic>>
            C == file' = [file EXCEPT ![f].off = @ + 1] /\ Proceed(p) /\ UNCHANGED <<disk, icache, trans, ofile, panic>>
            D == Panic("balloc: out of blocks")
            E == /\ used # Blocks /\ used' = used \cup {NextBlock}
                 /\ icache' = [icache EXCEPT ![s].addrs = Append(@, NextBlock)]
                 /\ din' = [din EXCEPT ![e.inum] = [Copy(e) EXCEPT !.addrs = Append(@, NextBlock)]]
                 /\ file' = [file EXCEPT ![f].off = @ + 1]
                 /\ Proceed(p)
                 /\ UNCHANGED <<ents, trans, ofile, panic>>
<1>3. A \/ B \/ C \/ D \/ E
  BY Zenon DEF Writei
<1>4. /\ Pointers(u) = Pointers(t) /\ "fip" \in Locked(t) /\ Locked(u) = Locked(t)
      /\ (Logged(u) <=> Logged(t)) /\ (Leaves(u) <=> Leaves(t)) /\ Code(t)
      /\ ~Top(t, "fileclose") /\ ~Top(t, "setcwd") /\ OnFile(u) /\ Like(u, t)
  <2>. HIDE DEF t, r
  <2>. QED BY <1>1, <1>2, Op_writei
<1>5. /\ todo[p] # <<>> /\ ~Top(todo[p], "setcwd") /\ ~Top(todo[p], "iputend") /\ OnFile(todo[p])
      /\ Locked(t) = Locked(todo[p]) /\ (Logged(t) <=> Logged(todo[p])) /\ "fip" \in Locked(todo[p])
  BY <1>1, <1>4
<1>6. r = reg[p] /\ (\A x \in Ptrs : r[x] = reg[p][x]) /\ r.fp = reg[p].fp /\ r.fip = reg[p].fip
  OBVIOUS
<1>7. Local(t, r, ofile[p])
  <2>. HIDE DEF t, u, r
  <2>. QED BY <1>1, <1>2, <1>4, <1>5, SameLocal
<1>8. f \in 1 .. NFILE /\ file \in [1 .. NFILE -> Files] /\ file[f].off \in Nat
  BY <1>2, <1>4 DEF Opened, Tables, Files
<1>9. CASE A
  <2>1. Do(p, r, v) /\ UNCHANGED <<disk, icache, trans, file, ofile, panic>>
    BY <1>9 DEF Goto
  <2>2. v = On("iunlock", "fip", On("ilock", "fip", t))
    BY <1>1, Piece28 DEF Cat
  <2>. HIDE DEF r, v, A, B, C, D, E, e, f, s, t, u
  <2>. QED BY <1>1, <1>2, <1>4, <1>5, <1>6, <2>1, <2>2, DeviceStep
<1>10. CASE B
  <2>1. Do(p, r, t) /\ UNCHANGED <<disk, icache, trans, file, ofile, panic>>
    BY <1>10 DEF Goto, Proceed
  <2>. HIDE DEF r, v, A, B, C, D, E, e, f, s, t, u
  <2>. QED BY <1>1, <1>2, <1>5, <1>6, <1>7, <2>1, QuietAll
<1>11. CASE C
  <2>. DEFINE n == file[f].off + 1
  <2>1. Do(p, r, t) /\ UNCHANGED <<disk, icache, trans, ofile, panic>> /\ file' = [file EXCEPT ![f].off = n]
    BY <1>11 DEF Goto, Proceed
  <2>2. n \in Nat
    BY <1>8
  <2>. HIDE DEF n, r, v, A, B, C, D, E, e, f, s, t, u
  <2>. QED BY <1>1, <1>2, <1>5, <1>6, <1>7, <1>8, <2>1, <2>2, OffStep
<1>12. CASE D
  <2>1. "balloc: out of blocks" \notin Messages
    BY Zenon DEF Messages
  <2>. QED BY <1>12, <2>1, PanicStep, Zenon
<1>13. CASE E
  <2>. DEFINE n == file[f].off + 1
              b == NextBlock
              g == [e EXCEPT !.addrs = Append(e.addrs, b)]
              c == [Copy(e) EXCEPT !.addrs = Append(e.addrs, b)]
  <2>1. Proceed(p) /\ UNCHANGED <<ents, trans, ofile, panic>> /\ used # Blocks /\ used' = used \cup {b}
    BY <1>13, Zenon
  <2>2. icache' = [icache EXCEPT ![s] = g]
    BY <1>13
  <2>3. din' = [din EXCEPT ![e.inum] = c]
    BY <1>13 DEF Copy
  <2>4. file' = [file EXCEPT ![f].off = n]
    BY <1>13
  <2>5. n \in Nat
    BY <1>8
  <2>6. Do(p, r, t)
    BY <2>1 DEF Goto, Proceed
  <2>. HIDE DEF A, B, C, D, E
  <2>7. b \in Blocks /\ b \in Nat
    <3>1. Blocks \ used # {}
      BY <1>2, <2>1 DEF Tables
    <3>2. Blocks \ used \in SUBSET Nat /\ Blocks \subseteq Nat
      BY FsAssumption DEF Blocks
    <3>. QED BY <3>1, <3>2, MinIn DEF NextBlock
  <2>. HIDE DEF b
  <2>8. s = reg[p]["fip"] /\ s \in Slots /\ e \in Inodes
    BY <1>5, LockedEntry
  <2>. HIDE DEF e
  <2>9. Append(e.addrs, b) \in Seq(Nat)
    BY <2>7, <2>8 DEF Inodes
  <2>10. Renewed(e, g, c, e.type)
    BY <2>8, <2>9, SetAddrs, Zenon
  <2>. HIDE DEF g, c
  <2>11. g \in Inodes /\ Copy(g) \in Dinodes /\ g.ref = e.ref /\ g.inum = e.inum /\ g.busy = e.busy /\ g.valid = e.valid /\ g.type = e.type /\ Copy(g) = c
    BY <2>10 DEF Renewed
  <2>12. e = icache[s]
    BY DEF e
  <2>. HIDE DEF r, f, s, t, u, v, n
  <2>13. Updated(s, g)
    BY <2>2, <2>3, <2>11, <2>12 DEF Updated
  <2>14. SameFiles(file, file') /\ file' \in [1 .. NFILE -> Files]
    BY <1>8, <2>4, <2>5, OffIs
  <2>15. ents' \in [Inums -> [Names -> 0 .. NINODES - 1]] /\ used' \subseteq Blocks
    BY <1>2, <2>1, <2>7 DEF Tables
  <2>16. trans' = trans /\ ofile' = ofile /\ panic' = panic
    BY <2>1
  <2>. QED BY <1>1, <1>2, <1>5, <1>6, <1>7, <2>6, <2>8, <2>11, <2>12, <2>13, <2>14, <2>15, <2>16, UpdateStep
<1>. HIDE DEF A, B, C, D, E
<1>. QED BY <1>3, <1>9, <1>10, <1>11, <1>12, <1>13, Zenon

-----------------------------------------------------------------------------
(* The file table.                                                         *)

LEMMA FileSet ==
  ASSUME NEW fl \in [1 .. NFILE -> Files], NEW f \in 1 .. NFILE, NEW e \in Files, NEW fl2, fl2 = [fl EXCEPT ![f] = e]
  PROVE  fl2 \in [1 .. NFILE -> Files] /\ fl2[f] = e /\ But2(fl, fl2, f)
BY DEF But2
FdAt(o, p, d, v, o2) ==
  /\ o2 \in [Procs -> [1 .. NOFILE -> (1 .. NFILE) \cup {None}]] /\ o2[p][d] = v /\ But3(o, o2, p, d)
  /\ \A q \in Procs : q # p => o2[q] = o[q]
LEMMA FdSet ==
  ASSUME NEW o \in [Procs -> [1 .. NOFILE -> (1 .. NFILE) \cup {None}]], NEW p \in Procs, NEW d \in 1 .. NOFILE,
         NEW v \in (1 .. NFILE) \cup {None}
  PROVE  FdAt(o, p, d, v, [o EXCEPT ![p][d] = v])
BY DEF But3, FdAt
LEMMA BusySet ==
  ASSUME NEW ic \in [Slots -> Inodes], NEW s \in Slots, NEW q \in Procs \cup {None}
  PROVE  SetAt(ic, s, [ic[s] EXCEPT !.busy = q], [ic EXCEPT ![s].busy = q])
<1>. DEFINE f == [ic[s] EXCEPT !.busy = q]
<1>1. f \in Inodes
  BY DEF Inodes
<1>2. [ic EXCEPT ![s].busy = q] = [ic EXCEPT ![s] = f]
  OBVIOUS
<1>. HIDE DEF f
<1>3. SetAt(ic, s, f, [ic EXCEPT ![s] = f])
  BY <1>1, SetEntry, Zenon
<1>4. SetAt(ic, s, f, [ic EXCEPT ![s].busy = q])
  BY <1>2, <1>3
<1>. QED BY <1>4 DEF f

LEMMA StepOpen ==
  ASSUME IInv, NEW p \in Procs, Open(p)
  PROVE  IInv'
<1>. DEFINE t == Rest(p)
            r == reg[p]
            u == On("open", "ip", t)
<1>1. t \in Seq(Steps) /\ Reg(p) = "ip" /\ todo[p] = u /\ u # <<>> /\ (\A o : Top(u, o) <=> o = "open") /\ panic = "no"
  <2>1. /\ todo[p] # <<>> /\ todo[p] = On("open", Reg(p), Rest(p)) /\ Rest(p) \in Seq(Steps) /\ panic = "no"
        /\ <<"open", Reg(p)>> \in Steps /\ \A o : Top(todo[p], o) <=> o = "open"
    <3>1. At(p, "open")
      BY Zenon DEF Open
    <3>. QED BY <3>1, Now
  <2>2. "open" \in {"create", "exists", "mknode", "bump", "drop", "lookup", "remove", "open", "closeall", "chdir", "setcwd"} => Reg(p) = "ip"
    BY <2>1, RegIn, Zenon
  <2>. QED BY <2>1, <2>2
<1>2. /\ Tables /\ r \in Regs /\ Local(u, r, ofile[p]) /\ Opened(u, r, ofile[p], file) /\ Code(u)
      /\ Locks(p, u, r, icache) /\ (trans = p <=> Logged(u)) /\ trans \in Procs \cup {None}
      /\ Unique(icache) /\ RefsAre(icache, reg, file) /\ FilesAre(file, ofile) /\ reg \in [Procs -> Regs]
  BY <1>1, Ours, Mine DEF Local

<1>. DEFINE fs == FreeFiles
            ds == FreeFds(p)
            f == Min(fs)
            d == Min(ds)
            s == r.ip
            h == [r EXCEPT !["ip"] = None]
            n == [ref |-> 1, ip |-> s, off |-> 0, mode |-> r.mode]
            A == Goto(p, UnlockPut("ip") \o t) /\ UNCHANGED <<icache, file, ofile>>
            B == /\ fs # {} /\ ds # {}
                 /\ file' = [file EXCEPT ![f] = n]
                 /\ ofile' = [ofile EXCEPT ![p][d] = f]
                 /\ icache' = [icache EXCEPT ![s].busy = None]
                 /\ Do(p, h, t)
<1>3. (A \/ B) /\ UNCHANGED <<disk, trans, panic>>
  BY Zenon DEF Open
<1>4. t = <<>>
  <2>. HIDE DEF t, r
  <2>. QED BY <1>1, <1>2, Op_open
<1>5. /\ Pointers(t) = {} /\ Locked(t) = {} /\ ~Logged(t) /\ ~Leaves(t) /\ ~OnFile(t) /\ ~MayFail(t) /\ Code(t)
      /\ ~Top(t, "fileclose") /\ ~Top(t, "setcwd")
  <2>. HIDE DEF t
  <2>. QED BY <1>4, Nothing, Bottom DEF Sum
<1>6. Pointers(u) = {"ip"} /\ Locked(u) = {"ip"} /\ ~Logged(u) /\ ~Leaves(u)
  <2>. HIDE DEF t, r
  <2>. QED BY <1>1, <1>2, <1>5, Op_open
<1>7. todo[p] # <<>> /\ ~Top(todo[p], "setcwd") /\ ~Top(todo[p], "iputend")
  BY <1>1
<1>8. CASE A
  <2>1. Goto(p, UnlockPut("ip") \o t) /\ UNCHANGED <<disk, icache, trans, file, ofile, panic>>
    BY <1>3, <1>8
  <2>. HIDE DEF t, u, r, A, B
  <2>2. "ip" \in CallPtrs /\ "ip" \notin Pointers(t) /\ "ip" \notin Locked(t)
    BY <1>5 DEF CallPtrs
  <2>3. Pointers(todo[p]) = Pointers(t) \cup {"ip"} /\ Locked(todo[p]) = Locked(t) \cup {"ip"} /\ (Logged(t) <=> Logged(todo[p]))
    BY <1>1, <1>5, <1>6
  <2>. QED BY <1>1, <1>5, <1>7, <2>1, <2>2, <2>3, Retreat
<1>9. CASE B
  <2>1. fs # {} /\ ds # {} /\ file' = [file EXCEPT ![f] = n] /\ ofile' = [ofile EXCEPT ![p][d] = f]
    BY <1>9, Zenon
  <2>2. icache' = [icache EXCEPT ![s].busy = None] /\ Do(p, h, t)
    BY <1>9, Zenon
  <2>3. file \in [1 .. NFILE -> Files] /\ ofile \in [Procs -> [1 .. NOFILE -> (1 .. NFILE) \cup {None}]] /\ icache \in [Slots -> Inodes]
        /\ din' = din /\ ents' = ents /\ used' = used /\ trans' = trans /\ panic' = panic
    BY <1>2, <1>3 DEF Tables, disk
  <2>4. f \in 1 .. NFILE /\ file[f].ref = 0
    <3>1. fs \in SUBSET Nat
      BY <2>3, FsAssumption DEF FreeFiles
    <3>2. f \in fs
      <4>. HIDE DEF fs
      <4>. QED BY <2>1, <3>1, MinIn
    <3>. QED BY <2>3, <3>2 DEF FreeFiles
  <2>5. d \in 1 .. NOFILE /\ ofile[p][d] = None
    <3>1. ds \in SUBSET Nat
      BY FsAssumption DEF FreeFds
    <3>2. d \in ds
      <4>. HIDE DEF ds
      <4>. QED BY <2>1, <3>1, MinIn
    <3>. QED BY <3>2 DEF FreeFds
  <2>. HIDE DEF f, d, fs, ds, A, B, t, u
  <2>6. "ip" \in Locked(todo[p]) /\ s = reg[p]["ip"]
    BY <1>1, <1>6
  <2>7. s \in Slots /\ icache[s].busy = p /\ icache[s] \in Inodes /\ icache[s].ref \in Nat /\ icache[s].ref >= 1 /\ r.mode \in Modes \cup {"none"}
    BY <1>2, <2>6, LockedEntry, RegTypes
  <2>8. n \in Files /\ n.ref = 1 /\ n.ip = s
    <3>1. r.mode \in Modes \cup {"none"} /\ s \in Slots
      BY <2>7
    <3>. HIDE DEF s, r
    <3>. QED BY <3>1 DEF Files
  <2>9. SetTo(r, "ip", None, h)
    <3>1. "ip" \in Ptrs /\ None \in Slots \cup {None}
      BY DEF Ptrs
    <3>. HIDE DEF r
    <3>. QED BY <1>2, <3>1, SetIs, Zenon
  <2>10. r["cwd"] # None /\ \A y \in CallPtrs : y # "ip" => r[y] = None
    BY <1>1, <1>2, <1>6 DEF Local, Holding
  <2>11. r = reg[p]
    OBVIOUS
  <2>. HIDE DEF h, n, r, s
  <2>12. file' \in [1 .. NFILE -> Files] /\ file'[f] = n /\ But2(file, file', f)
    BY <2>1, <2>3, <2>4, <2>8, FileSet
  <2>13. /\ ofile' \in [Procs -> [1 .. NOFILE -> (1 .. NFILE) \cup {None}]] /\ ofile'[p][d] = f /\ But3(ofile, ofile', p, d)
         /\ \A q \in Procs : q # p => ofile'[q] = ofile[q]
    <3>1. f \in (1 .. NFILE) \cup {None}
      BY <2>4
    <3>2. ofile' = [ofile EXCEPT ![p][d] = f] /\ ofile \in [Procs -> [1 .. NOFILE -> (1 .. NFILE) \cup {None}]] /\ d \in 1 .. NOFILE
      BY <2>1, <2>3, <2>5, Zenon
    <3>3. FdAt(ofile, p, d, f, [ofile EXCEPT ![p][d] = f])
      BY <3>1, <3>2, FdSet, Zenon
    <3>4. FdAt(ofile, p, d, f, ofile')
      BY <3>2, <3>3
    <3>. QED BY <3>4 DEF FdAt
  <2>. DEFINE e == [icache[s] EXCEPT !.busy = None]
  <2>14. icache' \in [Slots -> Inodes] /\ icache'[s] = e /\ Only(s, icache, icache')
    <3>1. SetAt(icache, s, e, [icache EXCEPT ![s].busy = None])
      BY <2>3, <2>7, BusySet, Zenon
    <3>2. SetAt(icache, s, e, icache')
      BY <2>2, <3>1
    <3>. QED BY <3>2 DEF SetAt
  <2>15. e.ref = icache[s].ref /\ e.inum = icache[s].inum /\ e.busy = None /\ e.valid = icache[s].valid /\ e.type = icache[s].type /\ Copy(e) = Copy(icache[s])
    BY <2>7, SetFields
  <2>. HIDE DEF e
  <2>16. Tables'
    <3>1. din \in [Inums -> Dinodes] /\ ents \in [Inums -> [Names -> 0 .. NINODES - 1]] /\ used \subseteq Blocks
      BY <1>2 DEF Tables
    <3>. QED BY <2>3, <2>12, <2>13, <2>14, <3>1 DEF Tables
  <2>17. h \in Regs /\ Local(t, h, ofile'[p])
    <3>1. (\A y \in CallPtrs : h[y] # None <=> y \in Pointers(t)) /\ h["cwd"] # None
      BY <1>5, <2>9, <2>10 DEF SetTo, Ptrs, CallPtrs
    <3>2. Arguments(t, h)
      BY <1>1, <1>5, NoBump
    <3>3. Local(t, h, ofile'[p])
      BY <1>5, <3>1, <3>2, MakeLocal
    <3>. QED BY <2>9, <3>3 DEF SetTo
  <2>18. Opened(t, h, ofile'[p], file')
    BY <1>5 DEF Opened
  <2>19. Locks(p, t, h, icache')
    <3>1. Locks(p, todo[p], r, icache) /\ Locked(t) = Locked(todo[p]) \ {"ip"} /\ r["ip"] = s /\ p # None
      BY <1>1, <1>2, <1>5, <1>6, <2>6, <2>11, NotNone
    <3>2. icache'[s].busy = None /\ \A v \in Slots : v # s => icache'[v].busy = icache[v].busy
      BY <2>14, <2>15 DEF Only
    <3>3. \A y \in Locked(t) : h[y] = r[y]
      BY <1>5
    <3>. QED BY <2>6, <3>1, <3>2, <3>3, LocksDrop
  <2>20. LogBy(p, t, trans, trans') /\ trans' \in Procs \cup {None}
    BY <1>2, <1>5, <1>6, <2>3 DEF LogBy
  <2>21. FilesBy(p, file, file', ofile, ofile')
    <3>. SUFFICES ASSUME NEW q \in Procs, q # p, NEW k \in 1 .. NOFILE, ofile[q][k] \in 1 .. NFILE
                  PROVE  file'[ofile[q][k]].ip = file[ofile[q][k]].ip
      BY <2>13 DEF FilesBy
    <3>1. file[ofile[q][k]].ref >= 1
      BY <1>2, Counted3
    <3>2. ofile[q][k] # f
      BY <2>4, <3>1
    <3>. QED BY <2>12, <3>2 DEF But2
  <2>22. /\ Unique(icache') /\ Copied(icache', din') /\ BusyBy(p, icache, icache')
         /\ Freeing(icache', [todo EXCEPT ![p] = t], [reg EXCEPT ![p] = h])
    <3>1. /\ icache[s].busy \in {p, None} /\ icache'[s].busy \in {p, None} /\ icache[s].ref > 0 /\ icache'[s].inum = icache[s].inum
          /\ \A i \in Inums : i # icache[s].inum => din'[i] = din[i]
      BY <2>3, <2>7, <2>14, <2>15
    <3>2. icache'[s].ref > 0 /\ icache'[s].valid => Copy(icache'[s]) = din'[icache[s].inum] /\ icache'[s].type # "none"
      BY <1>7, <2>3, <2>7, <2>14, <2>15, <3>1, Stable
    <3>. QED BY <1>7, <2>7, <2>14, <3>1, <3>2, OneSlot
  <2>23. RefsAre(icache', [reg EXCEPT ![p] = h], file')
    <3>1. RefsKept(icache, icache')
      BY <2>14, <2>15 DEF RefsKept, Only
    <3>2. \A v \in Slots : icache[v].ref \in Nat
      BY <2>3 DEF Inodes
    <3>3. "ip" \in Ptrs /\ reg[p]["ip"] = s /\ h["ip"] = None /\ RegBut(reg[p], h, "ip", "ip")
      BY <2>6, <2>9, <2>11 DEF SetTo, RegBut, Ptrs
    <3>4. file'[f].ref = 1 /\ file'[f].ip = s
      BY <2>8, <2>12
    <3>. QED BY <1>2, <2>4, <2>7, <2>12, <2>17, <3>1, <3>2, <3>3, <3>4, RefsFile
  <2>24. FilesAre(file', ofile')
    <3>1. file'[f].ref = file[f].ref + 1 /\ file'[f].ip \in Slots
      BY <2>4, <2>7, <2>8, <2>12
    <3>. QED BY <1>2, <2>4, <2>5, <2>12, <2>13, <3>1, FilesUp
  <2>25. panic' \notin Messages
    BY <2>3, Ours, Zenon
  <2>. QED BY <1>1, <2>2, <2>16, <2>17, <2>18, <2>19, <2>20, <2>21, <2>22, <2>23, <2>24, <2>25, Frame
<1>. HIDE DEF A, B
<1>. QED BY <1>3, <1>8, <1>9, Zenon

\* The last close of a file goes on to put its inode.
LEMMA CloseCode ==
  ASSUME NEW t \in Seq(Steps), Code(t), ~Logged(t), ~Top(t, "fileclose"), ~Top(t, "setcwd"), ~OnFile(t), ~MayFail(t), ~Leaves(t),
         Pointers(t) = {}, Locked(t) = {},
         NEW v, v = <<<<"begin", "ff">>, <<"iput", "ff">>, <<"commit", "ff">>>> \o t
  PROVE  /\ v \in Seq(Steps) /\ Code(v) /\ Pointers(v) = {"ff"} /\ Locked(v) = {} /\ ~Logged(v) /\ ~Leaves(v) /\ ~OnFile(v)
         /\ ~MayFail(v) /\ ~Top(v, "fileclose") /\ ~Top(v, "setcwd")
<1>. DEFINE a == On("commit", "ff", t)
            b == On("iput", "ff", a)
            c == On("begin", "ff", b)
<1>1. v = c
  <2>1. Cat(<<<<"begin", "ff">>, <<"iput", "ff">>, <<"commit", "ff">>>>, t) = c
    BY Piece27
  <2>. HIDE DEF c
  <2>. QED BY <2>1 DEF Cat
<1>2. "ff" \in CallPtrs /\ "ff" \in LockRegs /\ "ff" # "fip"
  BY RegsIn
<1>3. /\ a \in Seq(Steps) /\ Code(a) /\ Pointers(a) = {} /\ Locked(a) = {} /\ Logged(a) /\ ~Leaves(a) /\ ~OnFile(a) /\ Like(a, t)
      /\ ~Top(a, "fileclose") /\ ~Top(a, "setcwd")
  BY <1>2, Op_commit
<1>. HIDE DEF a
<1>4. "ff" \notin Locked(a) /\ "ff" \notin Pointers(a)
  BY <1>3
<1>5. /\ b \in Seq(Steps) /\ Code(b) /\ Pointers(b) = {"ff"} /\ Locked(b) = {} /\ Logged(b) /\ ~Leaves(b) /\ ~OnFile(b) /\ Like(b, a)
      /\ ~Top(b, "fileclose") /\ ~Top(b, "setcwd")
  BY <1>2, <1>3, <1>4, Op_iput
<1>. HIDE DEF b
<1>6. /\ c \in Seq(Steps) /\ Code(c) /\ Pointers(c) = {"ff"} /\ Locked(c) = {} /\ ~Logged(c) /\ ~Leaves(c) /\ ~OnFile(c) /\ Like(c, b)
      /\ ~Top(c, "fileclose") /\ ~Top(c, "setcwd")
  BY <1>2, <1>5, Op_begin
<1>. HIDE DEF c
<1>7. ~MayFail(c)
  BY <1>3, <1>5, <1>6, LikeFails
<1>. QED BY <1>1, <1>6, <1>7

LEMMA ClosedCode ==
  ASSUME NEW t, t \in {<<>>, ExitEnd}
  PROVE  /\ Pointers(t) = {} /\ Locked(t) = {} /\ ~Logged(t) /\ ~Leaves(t) /\ ~OnFile(t) /\ ~MayFail(t) /\ Code(t) /\ t \in Seq(Steps)
         /\ ~Top(t, "fileclose") /\ ~Top(t, "setcwd")
<1>1. CASE t = <<>>
  BY <1>1, Nothing, Bottom DEF Sum
<1>2. CASE t = ExitEnd
  <2>1. Sum(t, {}, {}, FALSE, FALSE) /\ Shape(t, FALSE, FALSE, FALSE, FALSE, FALSE, FALSE, FALSE, FALSE)
        /\ (\A o : Top(t, o) <=> o = "closeall") /\ ~MayFail(t)
    BY <1>2, IsExitEnd
  <2>. QED BY <2>1 DEF Sum, Shape
<1>. QED BY <1>1, <1>2

LEMMA StepFileclose ==
  ASSUME IInv, NEW p \in Procs, Fileclose(p)
  PROVE  IInv'
<1>. DEFINE t == Rest(p)
            r == reg[p]
            x == Reg(p)
            u == On("fileclose", x, t)
<1>1. t \in Seq(Steps) /\ x \in 1 .. NOFILE /\ todo[p] = u /\ u # <<>> /\ (\A o : Top(u, o) <=> o = "fileclose") /\ panic = "no"
  <2>1. /\ todo[p] # <<>> /\ todo[p] = On("fileclose", Reg(p), Rest(p)) /\ Rest(p) \in Seq(Steps) /\ panic = "no"
        /\ <<"fileclose", Reg(p)>> \in Steps /\ \A o : Top(todo[p], o) <=> o = "fileclose"
    <3>1. At(p, "fileclose")
      BY Zenon DEF Fileclose
    <3>. QED BY <3>1, Now
  <2>2. "fileclose" = "fileclose" => Reg(p) \in 1 .. NOFILE
    BY <2>1, RegIn, Zenon
  <2>. QED BY <2>1, <2>2
<1>2. /\ Tables /\ r \in Regs /\ Local(u, r, ofile[p]) /\ Opened(u, r, ofile[p], file) /\ Code(u)
      /\ Locks(p, u, r, icache) /\ (trans = p <=> Logged(u)) /\ trans \in Procs \cup {None}
      /\ Unique(icache) /\ RefsAre(icache, reg, file) /\ FilesAre(file, ofile) /\ reg \in [Procs -> Regs]
  BY <1>1, Ours, Mine DEF Local

<1>. DEFINE f == ofile[p][x]
            s == file[f].ip
            h == [r EXCEPT !["ff"] = s]
            v == <<<<"begin", "ff">>, <<"iput", "ff">>, <<"commit", "ff">>>> \o t
            A == file[f].ref < 1 /\ Panic("fileclose")
            B == /\ file[f].ref > 1 /\ file' = [file EXCEPT ![f].ref = @ - 1] /\ Proceed(p)
                 /\ ofile' = [ofile EXCEPT ![p][x] = None] /\ UNCHANGED <<disk, icache, trans, panic>>
            C == /\ ~(file[f].ref < 1) /\ ~(file[f].ref > 1) /\ file' = [file EXCEPT ![f] = NoFile] /\ Do(p, h, v)
                 /\ ofile' = [ofile EXCEPT ![p][x] = None] /\ UNCHANGED <<disk, icache, trans, panic>>
<1>3. A \/ B \/ C
  BY Zenon DEF Fileclose
<1>4. t \in {<<>>, ExitEnd} /\ Pointers(u) = Pointers(t) /\ Locked(u) = Locked(t) /\ (Logged(u) <=> Logged(t)) /\ Head(u) = <<"fileclose", x>>
  <2>. HIDE DEF t, r, x
  <2>. QED BY <1>1, <1>2, Op_fileclose
<1>5. /\ Pointers(t) = {} /\ Locked(t) = {} /\ ~Logged(t) /\ ~Leaves(t) /\ ~OnFile(t) /\ ~MayFail(t) /\ Code(t)
      /\ ~Top(t, "fileclose") /\ ~Top(t, "setcwd")
  <2>. HIDE DEF t
  <2>. QED BY <1>4, ClosedCode
<1>. HIDE DEF t, u, x
<1>6. todo[p] # <<>> /\ ~Top(todo[p], "setcwd") /\ ~Top(todo[p], "iputend")
  BY <1>1
<1>7. /\ file \in [1 .. NFILE -> Files] /\ ofile \in [Procs -> [1 .. NOFILE -> (1 .. NFILE) \cup {None}]] /\ icache \in [Slots -> Inodes]
  BY <1>2 DEF Tables
<1>8. f \in 1 .. NFILE /\ file[f].ref \in Nat /\ file[f].ref >= 1 /\ s \in Slots
  <2>1. Top(u, "fileclose") /\ Head(u)[2] = x
    BY <1>1, <1>4
  <2>2. f # None
    BY <1>2, <2>1 DEF Local, Descriptors
  <2>3. f \in 1 .. NFILE
    <3>1. x \in 1 .. NOFILE /\ ofile[p] \in [1 .. NOFILE -> (1 .. NFILE) \cup {None}]
      BY <1>1, <1>7, Zenon
    <3>2. ofile[p][x] \in (1 .. NFILE) \cup {None}
      BY <3>1, Zenon
    <3>. QED BY <2>2, <3>2
  <2>4. file[f].ref >= 1 /\ s \in Slots
    BY <1>1, <1>2, <2>3, Counted3
  <2>5. file[f].ref \in Nat
    BY <1>7, <2>3 DEF Files
  <2>. QED BY <2>3, <2>4, <2>5
<1>9. r["cwd"] # None /\ \A y \in CallPtrs : r[y] = None
  BY <1>1, <1>2, <1>4, <1>5 DEF Local, Holding
<1>10. ASSUME NEW k \in Regs, NEW w \in Seq(Steps), Do(p, k, w), Code(w), \A y \in CallPtrs : k[y] # None <=> y \in Pointers(w), k["cwd"] # None,
              Locked(w) = {}, ~Logged(w), ~Leaves(w), ~OnFile(w), ~MayFail(w), ~Top(w, "fileclose"), ~Top(w, "setcwd"),
              file' \in [1 .. NFILE -> Files], UNCHANGED <<disk, icache, trans, panic>>, FdAt(ofile, p, x, None, ofile'),
              \A q \in Procs, z \in 1 .. NOFILE : q # p /\ ofile[q][z] \in 1 .. NFILE => file'[ofile[q][z]].ip = file[ofile[q][z]].ip,
              RefsAre(icache, [reg EXCEPT ![p] = k], file'), FilesAre(file', ofile')
       PROVE  IInv'
  <2>. HIDE DEF A, B, C, f, s, h, v, r
  <2>1. icache' = icache /\ trans' = trans /\ panic' = panic /\ din' = din /\ ents' = ents /\ used' = used
    BY <1>10 DEF disk
  <2>2. /\ ofile' \in [Procs -> [1 .. NOFILE -> (1 .. NFILE) \cup {None}]] /\ \A q \in Procs : q # p => ofile'[q] = ofile[q]
    BY <1>10 DEF FdAt
  <2>3. Tables'
    <3>1. din \in [Inums -> Dinodes] /\ ents \in [Inums -> [Names -> 0 .. NINODES - 1]] /\ used \subseteq Blocks
      BY <1>2 DEF Tables
    <3>. QED BY <1>7, <1>10, <2>1, <2>2, <3>1 DEF Tables
  <2>4. Local(w, k, ofile'[p])
    <3>1. Arguments(w, k)
      BY <1>10, NoBump
    <3>. QED BY <1>10, <3>1, MakeLocal
  <2>5. Opened(w, k, ofile'[p], file')
    BY <1>10 DEF Opened
  <2>6. Locks(p, w, k, icache')
    BY <1>2, <1>4, <1>5, <1>10, <2>1, LocksKept
  <2>7. LogBy(p, w, trans, trans') /\ trans' \in Procs \cup {None}
    BY <1>2, <1>4, <1>5, <1>10, <2>1 DEF LogBy
  <2>8. FilesBy(p, file, file', ofile, ofile')
    BY <1>10, <2>2 DEF FilesBy
  <2>9. BusyBy(p, icache, icache') /\ Unique(icache') /\ Copied(icache', din') /\ panic' \notin Messages
    <3>1. Copied(icache, din) /\ panic \notin Messages
      BY Ours
    <3>2. Unique(icache') /\ Copied(icache', din') /\ panic' \notin Messages
      BY <1>2, <2>1, <3>1, Zenon
    <3>. QED BY <2>1, <3>2 DEF BusyBy
  <2>10. Freeing(icache', [todo EXCEPT ![p] = w], [reg EXCEPT ![p] = k])
    BY <1>6, <2>1, FreeingKept
  <2>11. RefsAre(icache', [reg EXCEPT ![p] = k], file')
    BY <1>10, <2>1
  <2>. QED BY <1>10, <2>3, <2>4, <2>5, <2>6, <2>7, <2>8, <2>9, <2>10, <2>11, Frame
<1>11. CASE A
  BY <1>8, <1>11
<1>12. ASSUME ofile' = [ofile EXCEPT ![p][x] = None]
       PROVE  FdAt(ofile, p, x, None, ofile')
  <2>1. FdAt(ofile, p, x, None, [ofile EXCEPT ![p][x] = None])
    <3>1. None \in (1 .. NFILE) \cup {None}
      OBVIOUS
    <3>. QED BY <1>1, <1>7, <3>1, FdSet, Zenon
  <2>. QED BY <1>12, <2>1
<1>13. CASE B
  <2>. DEFINE n == [file[f] EXCEPT !.ref = file[f].ref - 1]
  <2>1. file[f].ref > 1 /\ file' = [file EXCEPT ![f] = n]
    BY <1>13
  <2>2. ofile' = [ofile EXCEPT ![p][x] = None] /\ UNCHANGED <<disk, icache, trans, panic>> /\ Proceed(p)
    BY <1>13, Zenon
  <2>3. Do(p, r, t)
    BY <2>2 DEF Proceed, Goto, t
  <2>4. FdAt(ofile, p, x, None, ofile')
    BY <1>12, <2>2
  <2>. HIDE DEF A, B, C, f
  <2>5. n \in Files /\ n.ref = file[f].ref - 1 /\ n.ip = file[f].ip /\ n.ref > 0
    BY <1>7, <1>8, <2>1 DEF Files
  <2>. HIDE DEF n
  <2>6. file' \in [1 .. NFILE -> Files] /\ file'[f] = n /\ But2(file, file', f)
    BY <1>7, <1>8, <2>1, <2>5, FileSet
  <2>7. \A e \in 1 .. NFILE : (file'[e].ref > 0 <=> file[e].ref > 0) /\ file'[e].ip = file[e].ip
    BY <1>8, <2>1, <2>5, <2>6 DEF But2
  <2>8. RefsAre(icache, [reg EXCEPT ![p] = r], file')
    <3>1. (\A y \in Ptrs : r[y] = reg[p][y]) /\ RefsKept(icache, icache)
      BY DEF RefsKept
    <3>. HIDE DEF r
    <3>. QED BY <1>2, <2>7, <3>1, RefsSame
  <2>9. FilesAre(file', ofile')
    <3>1. ofile[p][x] = f /\ ofile'[p][x] = None /\ But3(ofile, ofile', p, x)
      BY <2>4 DEF FdAt, f
    <3>2. file'[f].ref = file[f].ref - 1 /\ file'[f].ip \in Slots
      BY <1>8, <2>5, <2>6
    <3>. QED BY <1>1, <1>2, <1>8, <2>6, <3>1, <3>2, FilesDown
  <2>10. \A y \in CallPtrs : r[y] # None <=> y \in Pointers(t)
    BY <1>5, <1>9
  <2>11. \A q \in Procs, z \in 1 .. NOFILE : q # p /\ ofile[q][z] \in 1 .. NFILE => file'[ofile[q][z]].ip = file[ofile[q][z]].ip
    BY <2>7
  <2>. HIDE DEF r
  <2>. QED BY <1>1, <1>2, <1>5, <1>9, <1>10, <2>2, <2>3, <2>4, <2>6, <2>8, <2>9, <2>10, <2>11
<1>14. CASE C
  <2>1. ~(file[f].ref < 1) /\ ~(file[f].ref > 1) /\ file' = [file EXCEPT ![f] = NoFile] /\ Do(p, h, v)
    BY <1>14, Zenon
  <2>2. ofile' = [ofile EXCEPT ![p][x] = None] /\ UNCHANGED <<disk, icache, trans, panic>>
    BY <1>14, Zenon
  <2>3. FdAt(ofile, p, x, None, ofile')
    BY <1>12, <2>2
  <2>4. v = <<<<"begin", "ff">>, <<"iput", "ff">>, <<"commit", "ff">>>> \o t
    OBVIOUS
  <2>5. SetTo(r, "ff", s, h)
    <3>1. "ff" \in Ptrs /\ s \in Slots \cup {None}
      BY <1>8 DEF Ptrs
    <3>. HIDE DEF r, s
    <3>. QED BY <1>2, <3>1, SetIs, Zenon
  <2>. HIDE DEF A, B, C, v, h
  <2>6. /\ v \in Seq(Steps) /\ Code(v) /\ Pointers(v) = {"ff"} /\ Locked(v) = {} /\ ~Logged(v) /\ ~Leaves(v) /\ ~OnFile(v)
        /\ ~MayFail(v) /\ ~Top(v, "fileclose") /\ ~Top(v, "setcwd")
    BY <1>1, <1>5, <2>4, CloseCode
  <2>7. file[f].ref = 1
    BY <1>8, <2>1
  <2>8. NoFile \in Files /\ NoFile.ref = 0
    BY DEF NoFile, Files
  <2>9. s = file[f].ip /\ f = ofile[p][x]
    OBVIOUS
  <2>. HIDE DEF f, s
  <2>10. file' \in [1 .. NFILE -> Files] /\ file'[f] = NoFile /\ But2(file, file', f)
    BY <1>7, <1>8, <2>1, <2>8, FileSet
  <2>11. ASSUME NEW q \in Procs, NEW z \in 1 .. NOFILE, q # p, ofile[q][z] \in 1 .. NFILE
         PROVE  file'[ofile[q][z]].ip = file[ofile[q][z]].ip
    <3>1. ofile[q][z] # f
      <4>1. SUFFICES ASSUME ofile[q][z] = f PROVE FALSE
        OBVIOUS
      <4>2. file[f].ref >= 2
        BY <1>1, <1>2, <1>8, <2>9, <2>11, <4>1, Counted33
      <4>. QED BY <2>7, <4>2
    <3>. QED BY <2>10, <2>11, <3>1 DEF But2
  <2>12. h \in Regs /\ h["cwd"] # None /\ \A y \in CallPtrs : h[y] # None <=> y \in Pointers(v)
    BY <1>8, <1>9, <2>5, <2>6, NotNone DEF SetTo, Ptrs, CallPtrs
  <2>13. RefsAre(icache, [reg EXCEPT ![p] = h], file')
    <3>1. \A z \in Slots : icache[z].ref \in Nat
      BY <1>7 DEF Inodes
    <3>2. "ff" \in Ptrs /\ reg[p]["ff"] = None /\ h["ff"] = s /\ RegBut(reg[p], h, "ff", "ff")
      BY <1>9, <2>5 DEF SetTo, RegBut, Ptrs, CallPtrs
    <3>3. file'[f].ref = 0
      BY <2>8, <2>10
    <3>. QED BY <1>2, <1>8, <2>7, <2>9, <2>10, <2>12, <3>1, <3>2, <3>3, RefsClose
  <2>14. FilesAre(file', ofile')
    <3>1. ofile[p][x] = f /\ ofile'[p][x] = None /\ But3(ofile, ofile', p, x)
      BY <2>3, <2>9 DEF FdAt
    <3>2. file'[f].ref = file[f].ref - 1 /\ ~(file'[f].ref > 0)
      BY <2>7, <2>8, <2>10
    <3>. QED BY <1>1, <1>2, <1>8, <2>10, <3>1, <3>2, FilesDown
  <2>. HIDE DEF r
  <2>. QED BY <1>10, <2>1, <2>2, <2>3, <2>6, <2>10, <2>11, <2>12, <2>13, <2>14
<1>. HIDE DEF A, B, C
<1>. QED BY <1>3, <1>11, <1>13, <1>14, Zenon

-----------------------------------------------------------------------------
(* The calls begin.                                                        *)

\* The registers of a call with a path name, and where it goes when it fails.
Base(p, r, path, parent, err) ==
  /\ r \in Regs /\ r["cwd"] = reg[p]["cwd"] /\ (\A x \in CallPtrs : r[x] = None)
  /\ r.path = path /\ r.parent = parent /\ r.err = err

LEMMA Asked ==
  ASSUME NEW q \in Requests
  PROVE  /\ q.path \in Paths
         /\ q.call = "link" => q.new \in Paths
         /\ q.call \in {"open", "create"} => q.mode \in Modes
  BY FsAssumption

LEMMA ArgsIs ==
  ASSUME IInv, NEW p \in Procs, NEW path \in Paths \cup {None}
  PROVE  Base(p, Args(p, path), path, FALSE, <<>>)
<1>. DEFINE c == reg[p]["cwd"]
            h == [NoReg EXCEPT !.cwd = c]
            k == [h EXCEPT !.path = path]
<1>1. c \in Slots \cup {None}
  BY Mine, PtrIn DEF Ptrs
<1>2. Args(p, path) = k
  BY DEF Args
<1>. HIDE DEF c
<1>3. h \in Regs /\ h["cwd"] = c /\ (\A x \in CallPtrs : h[x] = None) /\ h["parent"] = FALSE /\ h["err"] = <<>>
  <2>1. h \in Regs /\ h["cwd"] = c /\ \A x \in CallPtrs : h[x] = None
    BY <1>1, NoRegIs
  <2>2. h["parent"] = FALSE /\ h["err"] = <<>>
    BY DEF NoReg
  <2>. QED BY <2>1, <2>2
<1>. HIDE DEF h
<1>4. ButField(h, k, "path") /\ k.path = path
  BY <1>3, SetPath, Zenon
<1>. HIDE DEF k
<1>5. k \in Regs /\ k["cwd"] = c /\ (\A x \in CallPtrs : k[x] = None) /\ k["parent"] = FALSE /\ k["err"] = <<>>
  BY <1>3, <1>4 DEF ButField, Fields, Ptrs, CallPtrs
<1>6. Base(p, k, path, FALSE, <<>>)
  BY <1>4, <1>5 DEF Base, c
<1>. QED BY <1>2, <1>6

LEMMA BaseBut ==
  ASSUME NEW p, NEW r, NEW h, NEW k \in {"new", "name", "kind", "mode", "fp", "fip"}, NEW path, NEW parent, NEW err,
         Base(p, r, path, parent, err), ButField(r, h, k)
  PROVE  Base(p, h, path, parent, err)
  BY DEF Base, ButField, Fields, Ptrs, CallPtrs

LEMMA ParentIs ==
  ASSUME IInv, NEW p \in Procs, NEW path \in Paths
  PROVE  Base(p, Parent(p, path), path, TRUE, <<>>)
<1>. DEFINE a == Args(p, path)
            k == [a EXCEPT !.parent = TRUE]
<1>1. Base(p, a, path, FALSE, <<>>)
  BY ArgsIs
<1>2. Parent(p, path) = k
  BY Zenon DEF Parent
<1>. HIDE DEF a
<1>3. ButField(a, k, "parent") /\ k.parent = TRUE
  <2>1. a \in Regs
    BY <1>1 DEF Base
  <2>. QED BY <2>1, SetParent, Zenon
<1>. HIDE DEF k
<1>4. Base(p, k, path, TRUE, <<>>)
  BY <1>1, <1>3 DEF Base, ButField, Fields, Ptrs, CallPtrs
<1>. QED BY <1>2, <1>4

LEMMA StartStep ==
  ASSUME IInv, NEW p \in Procs, NEW r \in Regs, NEW t, Start(p, r, t), Sum(t, {}, {}, FALSE, FALSE),
         r["cwd"] = reg[p]["cwd"], \A x \in CallPtrs : r[x] = None, Arguments(t, r), ~Top(t, "setcwd"),
         Top(t, "fileclose") => ofile[p][Head(t)[2]] # None, Opened(t, r, ofile[p], file)
  PROVE  IInv'
<1>1. /\ todo[p] = <<>> /\ reg[p]["cwd"] # None /\ Do(p, r, t) /\ UNCHANGED <<disk, icache, trans, file, ofile, panic>>
  BY DEF Start, Ready
<1>2. din' = din /\ ents' = ents /\ used' = used /\ icache' = icache /\ trans' = trans /\ file' = file /\ ofile' = ofile /\ panic' = panic
  BY <1>1 DEF disk
<1>3. t \in Seq(Steps) /\ Code(t) /\ Pointers(t) = {} /\ Locked(t) = {} /\ ~Logged(t) /\ ~Leaves(t)
  BY DEF Sum
<1>4. /\ Tables /\ trans \in Procs \cup {None} /\ reg \in [Procs -> Regs] /\ RefsAre(icache, reg, file) /\ FilesAre(file, ofile)
      /\ Unique(icache) /\ Copied(icache, din) /\ panic \notin Messages
  BY Ours, Zenon
<1>5. /\ Holding(<<>>, reg[p]) /\ Locks(p, <<>>, reg[p], icache) /\ (trans = p <=> Logged(<<>>))
  BY <1>1, Mine
<1>6. Pointers(<<>>) = {} /\ Locked(<<>>) = {} /\ ~Logged(<<>>) /\ \A o : ~Top(<<>>, o)
  BY Nothing DEF Sum
<1>7. Tables'
  BY <1>2, <1>4 DEF Tables
<1>8. Local(t, r, ofile'[p])
  <2>1. Holding(t, r)
    BY <1>1, <1>3 DEF Holding
  <2>2. Descriptors(t, r, ofile[p])
    BY <1>1, <1>3 DEF Descriptors
  <2>. QED BY <1>2, <1>3, <2>1, <2>2 DEF Local
<1>9. Locks(p, t, r, icache')
  BY <1>2, <1>3, <1>5, <1>6, LocksKept
<1>10. LogBy(p, t, trans, trans') /\ BusyBy(p, icache, icache') /\ FilesBy(p, file, file', ofile, ofile')
  BY <1>2, <1>3, <1>5, <1>6 DEF LogBy, BusyBy, FilesBy
<1>11. RefsAre(icache', [reg EXCEPT ![p] = r], file')
  <2>1. (\A y \in Ptrs : r[y] = reg[p][y]) /\ RefsKept(icache, icache)
    BY <1>1, <1>5, <1>6 DEF Ptrs, CallPtrs, Holding, RefsKept
  <2>. QED BY <1>2, <1>4, <2>1, RefsSame
<1>12. Freeing(icache', [todo EXCEPT ![p] = t], [reg EXCEPT ![p] = r])
  BY <1>1, <1>2, <1>6, FreeingKept
<1>13. /\ Unique(icache') /\ Copied(icache', din') /\ panic' \notin Messages /\ FilesAre(file', ofile') /\ trans' \in Procs \cup {None}
       /\ Opened(t, r, ofile'[p], file')
  BY <1>2, <1>4, Zenon
<1>. QED BY <1>1, <1>3, <1>7, <1>8, <1>9, <1>10, <1>11, <1>12, <1>13, Frame

\* A call that walks a path.
LEMMA StartPath ==
  ASSUME IInv, NEW p \in Procs, NEW r, NEW t, NEW path \in Paths, NEW parent \in BOOLEAN, NEW wi \in BOOLEAN, NEW wd \in BOOLEAN,
         NEW cr, NEW en, NEW bu, Start(p, r, t), Base(p, r, path, parent, Fail(t)),
         Sum(t, {}, {}, FALSE, FALSE), Shape(t, wi, wd, cr, FALSE, en, bu, FALSE, FALSE),
         wi => ~parent, wd /\ ~bu => parent, bu => r.new \in Paths,
         ~Top(t, "setcwd"), ~Top(t, "fileclose")
  PROVE  IInv'
<1>1. r \in Regs /\ r["cwd"] = reg[p]["cwd"] /\ (\A x \in CallPtrs : r[x] = None) /\ r.path = path /\ r.parent = parent /\ r.err = Fail(t)
  BY DEF Base
<1>2. Arguments(t, r)
  BY <1>1 DEF Shape, Arguments
<1>3. Opened(t, r, ofile[p], file)
  BY DEF Shape, Opened
<1>. QED BY <1>1, <1>2, <1>3, StartStep

LEMMA StartOpen ==
  ASSUME IInv, NEW p \in Procs, SysOpen(p)
  PROVE  IInv'
<1>1. PICK q \in Requests :
        \/ /\ q.call = "open"
           /\ Start(p, [Args(p, q.path) EXCEPT !.mode = q.mode],
                    <<<<"namex", "ip">>, <<"ilock", "ip">>, <<"open", "ip">>>>)
        \/ /\ q.call = "create"
           /\ Start(p, [Parent(p, q.path) EXCEPT !.mode = q.mode, !.kind = "T_FILE",
                                                 !.err = <<<<"commit", "ip">>>>],
                    CreateCode \o <<<<"commit", "ip">>, <<"open", "ip">>>>)
  BY Zenon DEF SysOpen
<1>2. q.path \in Paths /\ (q.call \in {"open", "create"} => q.mode \in Modes)
  BY Asked
<1>3. CASE q.call = "open"
  <2>. DEFINE a == Args(p, q.path)
              r == [a EXCEPT !.mode = q.mode]
              t == <<<<"namex", "ip">>, <<"ilock", "ip">>, <<"open", "ip">>>>
  <2>1. Start(p, r, t)
    BY <1>1, <1>3
  <2>2. Base(p, a, q.path, FALSE, <<>>)
    BY <1>2, ArgsIs
  <2>. HIDE DEF a
  <2>3. ButField(a, r, "mode")
    <3>1. a \in Regs /\ q.mode \in Modes \cup {"none"}
      BY <1>2, <1>3, <2>2 DEF Base
    <3>. QED BY <3>1, SetMode, Zenon
  <2>4. t = <<<<"namex", "ip">>, <<"ilock", "ip">>, <<"open", "ip">>>>
    OBVIOUS
  <2>. HIDE DEF r, t
  <2>5. Base(p, r, q.path, FALSE, <<>>)
    BY <2>2, <2>3, BaseBut
  <2>6. /\ Sum(t, {}, {}, FALSE, FALSE) /\ Shape(t, TRUE, FALSE, FALSE, FALSE, FALSE, FALSE, FALSE, FALSE)
        /\ (\A o : Top(t, o) <=> o = "namex") /\ Fail(t) = <<>>
    BY <2>4, IsOpen
  <2>. QED BY <1>2, <2>1, <2>5, <2>6, StartPath
<1>4. CASE q.call = "create"
  <2>. DEFINE a == Parent(p, q.path)
              h == [a EXCEPT !.mode = q.mode]
              k == [h EXCEPT !.kind = "T_FILE"]
              r == [k EXCEPT !.err = <<<<"commit", "ip">>>>]
              t == CreateCode \o <<<<"commit", "ip">>, <<"open", "ip">>>>
  <2>1. Start(p, r, t)
    BY <1>1, <1>4
  <2>2. Base(p, a, q.path, TRUE, <<>>)
    BY <1>2, ParentIs
  <2>. HIDE DEF a
  <2>3. ButField(a, h, "mode")
    <3>1. a \in Regs /\ q.mode \in Modes \cup {"none"}
      BY <1>2, <1>4, <2>2 DEF Base
    <3>. QED BY <3>1, SetMode, Zenon
  <2>. HIDE DEF h
  <2>4. Base(p, h, q.path, TRUE, <<>>)
    BY <2>2, <2>3, BaseBut
  <2>5. ButField(h, k, "kind")
    <3>1. h \in Regs /\ "T_FILE" \in Types \cup {"none"}
      BY <2>4 DEF Base, Types
    <3>. QED BY <3>1, SetKind, Zenon
  <2>. HIDE DEF k
  <2>6. Base(p, k, q.path, TRUE, <<>>)
    BY <2>4, <2>5, BaseBut
  <2>7. ButField(k, r, "err") /\ r.err = CommitIp
    <3>1. k \in Regs /\ CommitIp \in {<<>>, CommitIp, LinkBad}
      BY <2>6 DEF Base
    <3>2. r = [k EXCEPT !.err = CommitIp]
      BY DEF CommitIp
    <3>3. ButField(k, [k EXCEPT !.err = CommitIp], "err") /\ [k EXCEPT !.err = CommitIp].err = CommitIp
      BY <3>1, SetErr, Zenon
    <3>. QED BY <3>2, <3>3, Zenon
  <2>8. t = CreateCode \o <<<<"commit", "ip">>, <<"open", "ip">>>>
    OBVIOUS
  <2>. HIDE DEF r, t
  <2>9. Base(p, r, q.path, TRUE, CommitIp)
    BY <2>6, <2>7 DEF Base, ButField, Fields, Ptrs, CallPtrs
  <2>10. /\ Sum(t, {}, {}, FALSE, FALSE) /\ Shape(t, FALSE, TRUE, TRUE, FALSE, FALSE, FALSE, FALSE, FALSE)
         /\ (\A o : Top(t, o) <=> o = "begin") /\ Fail(t) = CommitIp
    BY <2>8, IsCreate
  <2>. QED BY <1>2, <2>1, <2>9, <2>10, StartPath
<1>. QED BY <1>1, <1>3, <1>4

LEMMA StartMkdir ==
  ASSUME IInv, NEW p \in Procs, SysMkdir(p)
  PROVE  IInv'
<1>1. PICK q \in Requests :
        /\ q.call \in {"mkdir", "mknod"}
        /\ Start(p, [Parent(p, q.path) EXCEPT
                       !.kind = IF q.call = "mkdir" THEN "T_DIR" ELSE "T_DEV",
                       !.err = <<<<"commit", "ip">>>>],
                 CreateCode \o UnlockPut("ip") \o <<<<"commit", "ip">>>>)
  BY Zenon DEF SysMkdir
<1>2. q.path \in Paths
  BY Asked
<1>. DEFINE a == Parent(p, q.path)
            e == IF q.call = "mkdir" THEN "T_DIR" ELSE "T_DEV"
            k == [a EXCEPT !.kind = e]
            r == [k EXCEPT !.err = <<<<"commit", "ip">>>>]
            t == CreateCode \o UnlockPut("ip") \o <<<<"commit", "ip">>>>
<1>3. Start(p, r, t)
  BY <1>1
<1>4. Base(p, a, q.path, TRUE, <<>>)
  BY <1>2, ParentIs
<1>5. e \in Types \cup {"none"}
  BY DEF Types
<1>. HIDE DEF a, e
<1>6. ButField(a, k, "kind")
  <2>1. a \in Regs
    BY <1>4 DEF Base
  <2>. QED BY <1>5, <2>1, SetKind, Zenon
<1>. HIDE DEF k
<1>7. Base(p, k, q.path, TRUE, <<>>)
  BY <1>4, <1>6, BaseBut
<1>8. ButField(k, r, "err") /\ r.err = CommitIp
  <2>1. k \in Regs /\ CommitIp \in {<<>>, CommitIp, LinkBad}
    BY <1>7 DEF Base
  <2>2. r = [k EXCEPT !.err = CommitIp]
    BY DEF CommitIp
  <2>3. ButField(k, [k EXCEPT !.err = CommitIp], "err") /\ [k EXCEPT !.err = CommitIp].err = CommitIp
    BY <2>1, SetErr, Zenon
  <2>. QED BY <2>2, <2>3, Zenon
<1>9. t = CreateCode \o UnlockPut("ip") \o <<<<"commit", "ip">>>>
  OBVIOUS
<1>. HIDE DEF r, t
<1>10. Base(p, r, q.path, TRUE, CommitIp)
  BY <1>7, <1>8 DEF Base, ButField, Fields, Ptrs, CallPtrs
<1>11. /\ Sum(t, {}, {}, FALSE, FALSE) /\ Shape(t, FALSE, TRUE, TRUE, FALSE, FALSE, FALSE, FALSE, FALSE)
       /\ (\A o : Top(t, o) <=> o = "begin") /\ Fail(t) = CommitIp
  BY <1>9, IsMkdir
<1>. QED BY <1>2, <1>3, <1>10, <1>11, StartPath


LEMMA StartLink ==
  ASSUME IInv, NEW p \in Procs, SysLink(p)
  PROVE  IInv'
<1>1. PICK q \in Requests :
        /\ q.call = "link"
        /\ Start(p, [Args(p, q.path) EXCEPT !.new = q.new],
                 <<<<"namex", "ip">>, <<"begin", "ip">>, <<"ilock", "ip">>, <<"bump", "ip">>, <<"iunlock", "ip">>>>
                 \o <<<<"namex", "dp">>, <<"ilock", "dp">>, <<"entry", "dp">>>> \o UnlockPut("dp")
                 \o <<<<"iput", "ip">>, <<"commit", "ip">>>>)
  BY Zenon DEF SysLink
<1>2. q.path \in Paths /\ q.new \in Paths
  BY <1>1, Asked
<1>. DEFINE a == Args(p, q.path)
            r == [a EXCEPT !.new = q.new]
            t == <<<<"namex", "ip">>, <<"begin", "ip">>, <<"ilock", "ip">>, <<"bump", "ip">>, <<"iunlock", "ip">>>>
                 \o <<<<"namex", "dp">>, <<"ilock", "dp">>, <<"entry", "dp">>>> \o UnlockPut("dp")
                 \o <<<<"iput", "ip">>, <<"commit", "ip">>>>
<1>3. Start(p, r, t)
  BY <1>1, Zenon
<1>4. Base(p, a, q.path, FALSE, <<>>)
  BY <1>2, ArgsIs
<1>. HIDE DEF a
<1>5. ButField(a, r, "new") /\ r.new = q.new
  <2>1. a \in Regs /\ q.new \in Paths \cup {None}
    BY <1>2, <1>4 DEF Base
  <2>. QED BY <2>1, SetNew, Zenon
<1>. HIDE DEF r
<1>6. Base(p, r, q.path, FALSE, <<>>)
  BY <1>4, <1>5, BaseBut
<1>7. /\ Sum(t, {}, {}, FALSE, FALSE) /\ Shape(t, TRUE, TRUE, FALSE, FALSE, TRUE, TRUE, FALSE, FALSE)
      /\ (\A o : Top(t, o) <=> o = "namex") /\ Fail(t) = <<>>
  BY IsLink, Zenon
<1>. HIDE DEF t
<1>. QED BY <1>2, <1>3, <1>5, <1>6, <1>7, StartPath

LEMMA StartUnlink ==
  ASSUME IInv, NEW p \in Procs, SysUnlink(p)
  PROVE  IInv'
<1>1. PICK q \in Requests :
        /\ q.call = "unlink"
        /\ Start(p, Parent(p, q.path),
                 <<<<"namex", "dp">>, <<"begin", "dp">>, <<"ilock", "dp">>, <<"lookup", "ip">>>>
                 \o <<<<"ilock", "ip">>, <<"remove", "ip">>>> \o UnlockPut("dp")
                 \o <<<<"drop", "ip">>>> \o UnlockPut("ip") \o <<<<"commit", "ip">>>>)
  BY Zenon DEF SysUnlink
<1>2. q.path \in Paths
  BY Asked
<1>. DEFINE r == Parent(p, q.path)
            t == <<<<"namex", "dp">>, <<"begin", "dp">>, <<"ilock", "dp">>, <<"lookup", "ip">>>>
                 \o <<<<"ilock", "ip">>, <<"remove", "ip">>>> \o UnlockPut("dp")
                 \o <<<<"drop", "ip">>>> \o UnlockPut("ip") \o <<<<"commit", "ip">>>>
<1>3. Start(p, r, t)
  BY <1>1, Zenon
<1>4. Base(p, r, q.path, TRUE, <<>>)
  BY <1>2, ParentIs
<1>. HIDE DEF r
<1>5. /\ Sum(t, {}, {}, FALSE, FALSE) /\ Shape(t, FALSE, TRUE, FALSE, FALSE, FALSE, FALSE, FALSE, FALSE)
      /\ (\A o : Top(t, o) <=> o = "namex") /\ Fail(t) = <<>>
  BY IsUnlink, Zenon
<1>. HIDE DEF t
<1>. QED BY <1>2, <1>3, <1>4, <1>5, StartPath


LEMMA StartChdir ==
  ASSUME IInv, NEW p \in Procs, SysChdir(p)
  PROVE  IInv'
<1>1. PICK q \in Requests :
        /\ q.call = "chdir"
        /\ Start(p, Args(p, q.path), <<<<"namex", "ip">>, <<"ilock", "ip">>, <<"chdir", "ip">>>>)
  BY Zenon DEF SysChdir
<1>2. q.path \in Paths
  BY Asked
<1>. DEFINE r == Args(p, q.path)
            t == <<<<"namex", "ip">>, <<"ilock", "ip">>, <<"chdir", "ip">>>>
<1>3. Start(p, r, t)
  BY <1>1, Zenon
<1>4. Base(p, r, q.path, FALSE, <<>>)
  BY <1>2, ArgsIs
<1>. HIDE DEF r
<1>5. /\ Sum(t, {}, {}, FALSE, FALSE) /\ Shape(t, TRUE, FALSE, FALSE, FALSE, FALSE, FALSE, FALSE, FALSE)
      /\ (\A o : Top(t, o) <=> o = "namex") /\ Fail(t) = <<>>
  BY IsChdir, Zenon
<1>. HIDE DEF t
<1>. QED BY <1>2, <1>3, <1>4, <1>5, StartPath


LEMMA StartExec ==
  ASSUME IInv, NEW p \in Procs, Exec(p)
  PROVE  IInv'
<1>1. PICK q \in Requests :
        /\ q.call = "exec"
        /\ Start(p, Args(p, q.path), <<<<"namex", "ip">>, <<"ilock", "ip">>>> \o UnlockPut("ip"))
  BY Zenon DEF Exec
<1>2. q.path \in Paths
  BY Asked
<1>. DEFINE r == Args(p, q.path)
            t == <<<<"namex", "ip">>, <<"ilock", "ip">>>> \o UnlockPut("ip")
<1>3. Start(p, r, t)
  BY <1>1, Zenon
<1>4. Base(p, r, q.path, FALSE, <<>>)
  BY <1>2, ArgsIs
<1>. HIDE DEF r
<1>5. /\ Sum(t, {}, {}, FALSE, FALSE) /\ Shape(t, TRUE, FALSE, FALSE, FALSE, FALSE, FALSE, FALSE, FALSE)
      /\ (\A o : Top(t, o) <=> o = "namex") /\ Fail(t) = <<>>
  BY IsExec, Zenon
<1>. HIDE DEF t
<1>. QED BY <1>2, <1>3, <1>4, <1>5, StartPath

\* A call on a descriptor.
LEMMA Taken ==
  ASSUME IInv, NEW p \in Procs, NEW fd \in (1 .. NOFILE) \ FreeFds(p)
  PROVE  /\ fd \in 1 .. NOFILE /\ ofile[p][fd] # None /\ ofile[p][fd] \in 1 .. NFILE
         /\ file[ofile[p][fd]] \in Files /\ file[ofile[p][fd]].ref >= 1 /\ file[ofile[p][fd]].ip \in Slots
<1>1. fd \in 1 .. NOFILE /\ ofile[p][fd] # None
  BY DEF FreeFds
<1>2. ofile[p] \in [1 .. NOFILE -> (1 .. NFILE) \cup {None}] /\ file \in [1 .. NFILE -> Files] /\ FilesAre(file, ofile)
  BY Mine, Ours DEF Tables
<1>3. ofile[p][fd] \in 1 .. NFILE
  BY <1>1, <1>2
<1>4. file[ofile[p][fd]].ref >= 1 /\ file[ofile[p][fd]].ip \in Slots
  BY <1>1, <1>2, <1>3, Counted3
<1>. QED BY <1>1, <1>2, <1>3, <1>4

LEMMA StartClose ==
  ASSUME IInv, NEW p \in Procs, SysClose(p)
  PROVE  IInv'
<1>1. PICK fd \in (1 .. NOFILE) \ FreeFds(p) : Start(p, Args(p, None), <<<<"fileclose", fd>>>>)
  BY Zenon DEF SysClose
<1>. DEFINE r == Args(p, None)
            t == On("fileclose", fd, <<>>)
<1>2. fd \in 1 .. NOFILE /\ ofile[p][fd] # None
  BY Taken
<1>3. Start(p, r, t)
  <2>1. <<"fileclose", fd>> \in Steps
    BY <1>2 DEF Steps
  <2>2. t = <<<<"fileclose", fd>>>>
    BY <2>1, Tup1 DEF On
  <2>. QED BY <1>1, <2>2
<1>4. Base(p, r, None, FALSE, <<>>)
  BY ArgsIs
<1>5. /\ Sum(<<>>, {}, {}, FALSE, FALSE) /\ Shape(<<>>, FALSE, FALSE, FALSE, FALSE, FALSE, FALSE, FALSE, FALSE)
      /\ (\A o : ~Top(<<>>, o)) /\ <<>> \in Seq(Steps)
  BY Nothing DEF Sum
<1>6. /\ t \in Seq(Steps) /\ Head(t) = <<"fileclose", fd>> /\ Pointers(t) = Pointers(<<>>) /\ Locked(t) = Locked(<<>>)
      /\ (Logged(t) <=> Logged(<<>>)) /\ (Leaves(t) <=> Leaves(<<>>)) /\ (Code(t) <=> Code(<<>>))
      /\ (\A o : Top(t, o) <=> o = "fileclose") /\ (OnFile(t) <=> OnFile(<<>>)) /\ Like(t, <<>>)
  BY <1>2, <1>5, Op_fileclose
<1>. HIDE DEF r, t
<1>7. Sum(t, {}, {}, FALSE, FALSE)
  BY <1>5, <1>6 DEF Sum
<1>8. Shape(t, FALSE, FALSE, FALSE, FALSE, FALSE, FALSE, FALSE, FALSE)
  BY <1>5, <1>6, LikeShape
<1>9. Arguments(t, r) /\ Opened(t, r, ofile[p], file)
  BY <1>8 DEF Shape, Arguments, MayFail, Opened
<1>10. r \in Regs /\ r["cwd"] = reg[p]["cwd"] /\ (\A x \in CallPtrs : r[x] = None)
  BY <1>4 DEF Base
<1>11. ~Top(t, "setcwd") /\ (Top(t, "fileclose") => ofile[p][Head(t)[2]] # None)
  BY <1>2, <1>6
<1>. QED BY <1>3, <1>7, <1>9, <1>10, <1>11, StartStep

LEMMA StartExit ==
  ASSUME IInv, NEW p \in Procs, Exit(p)
  PROVE  IInv'
<1>. DEFINE r == Args(p, None)
            t == ExitEnd
<1>1. Start(p, r, t)
  BY DEF Exit, ExitEnd
<1>2. Base(p, r, None, FALSE, <<>>)
  BY ArgsIs
<1>3. /\ Sum(t, {}, {}, FALSE, FALSE) /\ Shape(t, FALSE, FALSE, FALSE, FALSE, FALSE, FALSE, FALSE, FALSE)
      /\ \A o : Top(t, o) <=> o = "closeall"
  BY IsExitEnd
<1>. HIDE DEF r, t
<1>4. Arguments(t, r) /\ Opened(t, r, ofile[p], file)
  BY <1>3 DEF Shape, Arguments, MayFail, Opened
<1>5. r \in Regs /\ r["cwd"] = reg[p]["cwd"] /\ (\A x \in CallPtrs : r[x] = None)
  BY <1>2 DEF Base
<1>. QED BY <1>1, <1>3, <1>4, <1>5, StartStep

LEMMA StartAccess ==
  ASSUME IInv, NEW p \in Procs, NEW fd \in (1 .. NOFILE) \ FreeFds(p), NEW t, Access(p, fd, t),
         Sum(t, {}, {}, FALSE, FALSE), Shape(t, FALSE, FALSE, FALSE, FALSE, FALSE, FALSE, FALSE, TRUE),
         ~Top(t, "setcwd"), ~Top(t, "fileclose")
  PROVE  IInv'
<1>. DEFINE a == Args(p, None)
            f == ofile[p][fd]
            s == file[f].ip
            h == [a EXCEPT !.fp = f]
            r == [h EXCEPT !.fip = s]
<1>1. Start(p, r, t)
  BY DEF Access
<1>2. Base(p, a, None, FALSE, <<>>)
  BY ArgsIs
<1>3. fd \in 1 .. NOFILE /\ f \in 1 .. NFILE /\ s \in Slots
  BY Taken
<1>. HIDE DEF a, f, s
<1>4. ButField(a, h, "fp") /\ h.fp = f
  <2>1. a \in Regs /\ f \in (1 .. NFILE) \cup {None}
    BY <1>2, <1>3 DEF Base
  <2>. QED BY <2>1, SetFp, Zenon
<1>. HIDE DEF h
<1>5. Base(p, h, None, FALSE, <<>>)
  BY <1>2, <1>4, BaseBut
<1>6. ButField(h, r, "fip") /\ r.fip = s
  <2>1. h \in Regs /\ s \in Slots \cup {None}
    BY <1>3, <1>5 DEF Base
  <2>. QED BY <2>1, SetFip, Zenon
<1>. HIDE DEF r
<1>7. Base(p, r, None, FALSE, <<>>)
  BY <1>5, <1>6, BaseBut
<1>8. r.fp = f
  BY <1>4, <1>6 DEF ButField, Fields
<1>9. Arguments(t, r)
  BY DEF Shape, Arguments, MayFail
<1>10. Opened(t, r, ofile[p], file)
  BY <1>3, <1>6, <1>8 DEF Opened, f, s
<1>11. r \in Regs /\ r["cwd"] = reg[p]["cwd"] /\ (\A x \in CallPtrs : r[x] = None)
  BY <1>7 DEF Base
<1>. QED BY <1>1, <1>9, <1>10, <1>11, StartStep


LEMMA StartRead ==
  ASSUME IInv, NEW p \in Procs, SysRead(p)
  PROVE  IInv'
<1>. DEFINE t == <<<<"ilock", "fip">>, <<"readi", "fip">>, <<"iunlock", "fip">>>>
<1>1. PICK fd \in (1 .. NOFILE) \ FreeFds(p) : Access(p, fd, t)
  BY Zenon DEF SysRead
<1>2. /\ Sum(t, {}, {}, FALSE, FALSE) /\ Shape(t, FALSE, FALSE, FALSE, FALSE, FALSE, FALSE, FALSE, TRUE)
      /\ \A o : Top(t, o) <=> o = "ilock"
  BY IsRead, Zenon
<1>. HIDE DEF t
<1>. QED BY <1>1, <1>2, StartAccess


LEMMA StartWrite ==
  ASSUME IInv, NEW p \in Procs, SysWrite(p)
  PROVE  IInv'
<1>. DEFINE t == <<<<"begin", "fip">>, <<"ilock", "fip">>, <<"writei", "fip">>, <<"iunlock", "fip">>, <<"commit", "fip">>>>
<1>1. PICK fd \in (1 .. NOFILE) \ FreeFds(p) : Access(p, fd, t)
  BY Zenon DEF SysWrite
<1>2. /\ Sum(t, {}, {}, FALSE, FALSE) /\ Shape(t, FALSE, FALSE, FALSE, FALSE, FALSE, FALSE, FALSE, TRUE)
      /\ \A o : Top(t, o) <=> o = "begin"
  BY IsWrite, Zenon
<1>. HIDE DEF t
<1>. QED BY <1>1, <1>2, StartAccess


LEMMA StartFstat ==
  ASSUME IInv, NEW p \in Procs, SysFstat(p)
  PROVE  IInv'
<1>. DEFINE t == <<<<"ilock", "fip">>, <<"iunlock", "fip">>>>
<1>1. PICK fd \in (1 .. NOFILE) \ FreeFds(p) : Access(p, fd, t)
  BY Zenon DEF SysFstat
<1>2. /\ Sum(t, {}, {}, FALSE, FALSE) /\ Shape(t, FALSE, FALSE, FALSE, FALSE, FALSE, FALSE, FALSE, TRUE)
      /\ \A o : Top(t, o) <=> o = "ilock"
  BY IsFstat, Zenon
<1>. HIDE DEF t
<1>. QED BY <1>1, <1>2, StartAccess

\* The registers of a process outside of a call change, and the tables.
LEMMA IdleStep ==
  ASSUME IInv, NEW p \in Procs, NEW r \in Regs, todo[p] = <<>>, r["cwd"] # None, \A x \in CallPtrs : r[x] = None,
         reg' = [reg EXCEPT ![p] = r], todo' = todo, trans' = trans, panic' = panic, Tables',
         \A s \in Slots : icache'[s].busy = icache[s].busy, FilesBy(p, file, file', ofile, ofile'),
         RefsAre(icache', [reg EXCEPT ![p] = r], file'), FilesAre(file', ofile'),
         Unique(icache'), Copied(icache', din'),
         Freeing(icache', [todo EXCEPT ![p] = <<>>], [reg EXCEPT ![p] = r])
  PROVE  IInv'
<1>1. todo \in [Procs -> Seq(Steps)] /\ reg \in [Procs -> Regs] /\ trans \in Procs \cup {None} /\ panic \notin Messages
  BY Ours
<1>2. Typed'
  BY <1>1 DEF Tables, Typed
<1>3. ASSUME NEW q \in Procs
      PROVE  /\ Local(todo'[q], reg'[q], ofile'[q])
             /\ Opened(todo'[q], reg'[q], ofile'[q], file')
             /\ Locks(q, todo'[q], reg'[q], icache')
             /\ trans' = q <=> Logged(todo'[q])
  <2>1. /\ Local(todo[q], reg[q], ofile[q])
        /\ Opened(todo[q], reg[q], ofile[q], file)
        /\ Locks(q, todo[q], reg[q], icache)
        /\ trans = q <=> Logged(todo[q])
    BY Mine DEF Local
  <2>2. CASE q = p
    <3>1. todo'[p] = <<>> /\ reg'[p] = r
      BY <1>1
    <3>2. /\ Code(<<>>) /\ Pointers(<<>>) = {} /\ Locked(<<>>) = {} /\ ~Leaves(<<>>) /\ (\A o : ~Top(<<>>, o)) /\ ~MayFail(<<>>)
          /\ ~Walks(<<>>, "ip") /\ ~Walks(<<>>, "dp") /\ ~Has(<<>>, "bump") /\ ~OnFile(<<>>)
      BY Nothing DEF Sum, Shape
    <3>3. Holding(<<>>, r) /\ Arguments(<<>>, r) /\ Descriptors(<<>>, r, ofile'[p]) /\ Opened(<<>>, r, ofile'[p], file')
      BY <3>2 DEF Holding, Arguments, Descriptors, Opened
    <3>4. Locks(p, <<>>, r, icache')
      BY <2>1, <2>2, <3>2, LocksKept
    <3>. QED BY <2>1, <2>2, <3>1, <3>2, <3>3, <3>4 DEF Local
  <2>3. CASE q # p
    <3>1. todo'[q] = todo[q] /\ reg'[q] = reg[q] /\ ofile'[q] = ofile[q]
      BY <1>1, <2>3 DEF FilesBy
    <3>2. Opened(todo[q], reg[q], ofile[q], file')
      <4>1. \A d \in 1 .. NOFILE : ofile[q][d] \in 1 .. NFILE => file'[ofile[q][d]].ip = file[ofile[q][d]].ip
        BY <2>3 DEF FilesBy
      <4>. QED BY <2>1, <4>1 DEF Opened
    <3>3. Locks(q, todo[q], reg[q], icache')
      BY <2>1 DEF Locks
    <3>. QED BY <2>1, <3>1, <3>2, <3>3
  <2>. QED BY <2>2, <2>3
<1>4. Freeing(icache', todo', reg')
  <2>1. [todo EXCEPT ![p] = <<>>] = todo
    BY <1>1
  <2>. QED BY <2>1
<1>5. RefsAre(icache, reg, file)' /\ FilesAre(file, ofile)' /\ Unique(icache)' /\ Copied(icache, din)' /\ Freeing(icache, todo, reg)'
  BY <1>4
<1>6. (\A q \in Procs : /\ Local(todo[q], reg[q], ofile[q])
                        /\ Opened(todo[q], reg[q], ofile[q], file)
                        /\ Locks(q, todo[q], reg[q], icache)
                        /\ trans = q <=> Logged(todo[q]))'
  BY <1>3
<1>7. panic' \notin Messages
  BY <1>1
<1>8. panic' \notin {"ilock", "iunlock", "iput busy", "fileclose"}
  BY <1>7, Zenon DEF Messages
<1>. QED BY <1>2, <1>5, <1>6, <1>8, Zenon DEF IInv

LEMMA StartDup ==
  ASSUME IInv, NEW p \in Procs, SysDup(p)
  PROVE  IInv'
<1>1. PICK fd \in (1 .. NOFILE) \ FreeFds(p) :
        /\ FreeFds(p) # {}
        /\ file' = [file EXCEPT ![ofile[p][fd]].ref = @ + 1]
        /\ ofile' = [ofile EXCEPT ![p][Min(FreeFds(p))] = ofile[p][fd]]
  BY Zenon DEF SysDup
<1>2. /\ todo[p] = <<>> /\ reg[p]["cwd"] # None /\ din' = din /\ ents' = ents /\ used' = used /\ icache' = icache
      /\ trans' = trans /\ reg' = reg /\ todo' = todo /\ panic' = panic
  BY DEF SysDup, Ready, disk
<1>3. /\ Tables /\ reg \in [Procs -> Regs] /\ RefsAre(icache, reg, file) /\ FilesAre(file, ofile)
      /\ Unique(icache) /\ Copied(icache, din) /\ reg[p] \in Regs /\ Holding(<<>>, reg[p])
  BY <1>2, Ours, Mine
<1>. DEFINE f == ofile[p][fd]
            d == Min(FreeFds(p))
            n == [file[f] EXCEPT !.ref = file[f].ref + 1]
<1>4. /\ file \in [1 .. NFILE -> Files] /\ ofile \in [Procs -> [1 .. NOFILE -> (1 .. NFILE) \cup {None}]]
  BY <1>3 DEF Tables
<1>5. f \in 1 .. NFILE /\ file[f] \in Files /\ file[f].ref >= 1 /\ file[f].ip \in Slots
  BY Taken
<1>6. d \in 1 .. NOFILE /\ ofile[p][d] = None
  <2>1. FreeFds(p) \in SUBSET Nat
    BY DEF FreeFds
  <2>2. d \in FreeFds(p)
    BY <1>1, <2>1, MinIn
  <2>. QED BY <2>2 DEF FreeFds
<1>7. FdAt(ofile, p, d, f, ofile')
  <2>1. f \in (1 .. NFILE) \cup {None} /\ ofile' = [ofile EXCEPT ![p][d] = f]
    BY <1>1, <1>5
  <2>. HIDE DEF f, d
  <2>2. FdAt(ofile, p, d, f, [ofile EXCEPT ![p][d] = f])
    BY <1>4, <1>6, <2>1, FdSet, Zenon
  <2>. QED BY <2>1, <2>2
<1>8. file' = [file EXCEPT ![f] = n]
  BY <1>1
<1>. HIDE DEF f, d
<1>9. n \in Files /\ n.ref = file[f].ref + 1 /\ n.ip = file[f].ip /\ file[f].ref \in Nat
  BY <1>5 DEF Files
<1>. HIDE DEF n
<1>10. file' \in [1 .. NFILE -> Files] /\ file'[f] = n /\ But2(file, file', f)
  BY <1>4, <1>5, <1>8, <1>9, FileSet
<1>11. \A e \in 1 .. NFILE : (file'[e].ref > 0 <=> file[e].ref > 0) /\ file'[e].ip = file[e].ip
  BY <1>5, <1>9, <1>10 DEF But2
<1>12. RefsAre(icache', [reg EXCEPT ![p] = reg[p]], file')
  <2>1. RefsKept(icache, icache')
    BY <1>2 DEF RefsKept
  <2>. QED BY <1>3, <1>11, <2>1, RefsSame
<1>13. FilesAre(file', ofile')
  <2>1. ofile'[p][d] = f /\ But3(ofile, ofile', p, d)
    BY <1>7 DEF FdAt
  <2>2. file'[f].ref = file[f].ref + 1 /\ file'[f].ip \in Slots
    BY <1>5, <1>9, <1>10
  <2>. QED BY <1>3, <1>5, <1>6, <1>10, <2>1, <2>2, FilesUp
<1>14. FilesBy(p, file, file', ofile, ofile')
  BY <1>7, <1>11 DEF FdAt, FilesBy
<1>15. Tables'
  BY <1>2, <1>3, <1>7, <1>10 DEF Tables, FdAt
<1>16. Freeing(icache', [todo EXCEPT ![p] = <<>>], [reg EXCEPT ![p] = reg[p]])
  <2>1. ~Top(todo[p], "iputend")
    BY <1>2, Nothing
  <2>. QED BY <1>2, <2>1, FreeingKept
<1>17. /\ reg' = [reg EXCEPT ![p] = reg[p]] /\ (\A x \in CallPtrs : reg[p][x] = None) /\ Unique(icache') /\ Copied(icache', din')
       /\ \A s \in Slots : icache'[s].busy = icache[s].busy
  <2>1. Pointers(<<>>) = {}
    BY Nothing DEF Sum
  <2>. QED BY <1>2, <1>3, <2>1 DEF Holding
<1>. QED BY <1>2, <1>3, <1>12, <1>13, <1>14, <1>15, <1>16, <1>17, IdleStep

LEMMA StartFork ==
  ASSUME IInv, NEW p \in Procs, NEW q \in Procs, Fork(p, q)
  PROVE  IInv'
<1>1. /\ todo[p] = <<>> /\ reg[p]["cwd"] # None /\ reg[q]["cwd"] = None /\ todo[q] = <<>>
      /\ din' = din /\ ents' = ents /\ used' = used /\ trans' = trans /\ todo' = todo /\ panic' = panic
  BY DEF Fork, Ready, disk
<1>2. /\ Tables /\ reg \in [Procs -> Regs] /\ RefsAre(icache, reg, file) /\ FilesAre(file, ofile)
      /\ reg[q] \in Regs /\ Holding(<<>>, reg[q]) /\ Descriptors(<<>>, reg[q], ofile[q])
  BY <1>1, Ours, Mine
<1>. DEFINE c == reg[p]["cwd"]
            h == [reg[q] EXCEPT !["cwd"] = c]
<1>3. reg' = [reg EXCEPT ![q] = h] /\ icache' = Idup(c) /\ ofile' = [ofile EXCEPT ![q] = ofile[p]]
  BY DEF Fork
<1>4. file' = [f \in DOMAIN file |-> [file[f] EXCEPT
                 !.ref = @ + Cardinality({fd \in 1 .. NOFILE : ofile[p][fd] = f})]]
  BY DEF Fork
<1>5. /\ file \in [1 .. NFILE -> Files] /\ ofile \in [Procs -> [1 .. NOFILE -> (1 .. NFILE) \cup {None}]]
  BY <1>2 DEF Tables
<1>6. c \in Slots /\ icache[c].ref > 0
  <2>1. "cwd" \in Ptrs /\ c \in Slots
    BY <1>1, <1>2, PtrIn DEF Ptrs
  <2>2. icache[c].ref \in Nat /\ icache[c].ref >= 1
    BY <2>1, PtrRef
  <2>. QED BY <2>1, <2>2
<1>. HIDE DEF c
<1>7. Touch(icache, icache', c) /\ icache' \in [Slots -> Inodes] /\ RefsBut(icache, icache', c, 1)
  BY <1>3, <1>6, IdupIs
<1>8. SetTo(reg[q], "cwd", c, h)
  <2>1. "cwd" \in Ptrs /\ c \in Slots \cup {None}
    BY <1>6 DEF Ptrs
  <2>. QED BY <1>2, <2>1, SetIs, Zenon
<1>. HIDE DEF h
<1>9. h \in Regs /\ h["cwd"] = c /\ c # None /\ RegBut(reg[q], h, "cwd", "cwd") /\ \A x \in CallPtrs : h[x] = None
  <2>1. Pointers(<<>>) = {}
    BY Nothing DEF Sum
  <2>. QED BY <1>2, <1>6, <1>8, <2>1, NotNone DEF SetTo, RegBut, Holding, Ptrs, CallPtrs
<1>10. ASSUME NEW f \in 1 .. NFILE
       PROVE  /\ file'[f] \in Files /\ file'[f].ip = file[f].ip
              /\ file'[f].ref = file[f].ref + Cardinality({d \in 1 .. NOFILE : ofile[p][d] = f})
  <2>. DEFINE k == Cardinality({d \in 1 .. NOFILE : ofile[p][d] = f})
  <2>1. file'[f] = [file[f] EXCEPT !.ref = file[f].ref + k]
    BY <1>4, <1>5
  <2>2. k \in Nat
    <3>1. IsFiniteSet(1 .. NOFILE)
      BY FsAssumption, FS_Interval
    <3>2. IsFiniteSet({d \in 1 .. NOFILE : ofile[p][d] = f})
      BY <3>1, FS_Subset
    <3>. QED BY <3>2, FS_CardinalityType
  <2>3. file[f] \in Files
    BY <1>5
  <2>. HIDE DEF k
  <2>4. /\ file'[f] \in Files /\ file'[f].ip = file[f].ip /\ file'[f].ref = file[f].ref + k
    BY <2>1, <2>2, <2>3 DEF Files
  <2>. QED BY <2>4 DEF k
<1>11. file' \in [1 .. NFILE -> Files]
  <2>1. file' = [f \in 1 .. NFILE |-> file'[f]]
    BY <1>4, <1>5
  <2>. QED BY <1>10, <2>1
<1>12. ofile' \in [Procs -> [1 .. NOFILE -> (1 .. NFILE) \cup {None}]] /\ ofile'[q] = ofile[p] /\ \A z \in Procs : z # q => ofile'[z] = ofile[z]
  BY <1>3, <1>5
<1>13. FilesAre(file', ofile') /\ \A f \in 1 .. NFILE : file'[f].ref > 0 <=> file[f].ref > 0
  <2>1. \A d \in 1 .. NOFILE : ofile[q][d] = None /\ ofile'[q][d] = ofile[p][d]
    BY <1>1, <1>2, <1>12 DEF Descriptors
  <2>2. \A f \in 1 .. NFILE : file'[f].ref = file[f].ref + Cardinality(Own(ofile, p, f)) /\ file'[f].ip = file[f].ip
    BY <1>10 DEF Own
  <2>3. Forked(p, q, file, file', ofile, ofile')
    BY <1>12, <2>1, <2>2 DEF Forked
  <2>. QED BY <1>2, <2>3, FilesFork
<1>14. RefsAre(icache', [reg EXCEPT ![q] = h], file')
  <2>1. "cwd" \in Ptrs
    BY DEF Ptrs
  <2>2. RefsAre(icache', [reg EXCEPT ![q] = h], file)
    BY <1>1, <1>2, <1>6, <1>7, <1>9, <2>1, RefsGet
  <2>3. [reg EXCEPT ![q] = h] \in [Procs -> Regs] /\ [reg EXCEPT ![q] = h][q] = h
    BY <1>2, <1>9
  <2>4. RefsKept(icache', icache')
    BY DEF RefsKept
  <2>5. [[reg EXCEPT ![q] = h] EXCEPT ![q] = h] = [reg EXCEPT ![q] = h]
    BY <1>2, <1>9
  <2>. DEFINE g == [reg EXCEPT ![q] = h]
  <2>. HIDE DEF g
  <2>6. RefsAre(icache', g, file) /\ g \in [Procs -> Regs] /\ g[q] = h /\ [g EXCEPT ![q] = h] = g
    BY <2>2, <2>3, <2>5 DEF g
  <2>7. RefsAre(icache', [g EXCEPT ![q] = h], file')
    BY <1>9, <1>10, <1>13, <2>4, <2>6, RefsSame
  <2>. QED BY <2>6, <2>7 DEF g
<1>15. FilesBy(q, file, file', ofile, ofile')
  BY <1>10, <1>12 DEF FilesBy
<1>16. Tables'
  BY <1>1, <1>2, <1>7, <1>11, <1>12 DEF Tables
<1>17. /\ Unique(icache') /\ Copied(icache', din') /\ Freeing(icache', [todo EXCEPT ![q] = <<>>], [reg EXCEPT ![q] = h])
  <2>1. ~Top(todo[q], "iputend")
    BY <1>1, Nothing
  <2>2. \A s \in Slots : icache[s].ref > 0 /\ icache[s].valid =>
           din'[icache[s].inum] = din[icache[s].inum] \/ (icache[s].type = "none" /\ icache[s].busy # None)
    BY <1>1
  <2>. QED BY <1>6, <1>7, <2>1, <2>2, Touched
<1>18. \A s \in Slots : icache'[s].busy = icache[s].busy
  BY <1>7 DEF Touch, Only
<1>. QED BY <1>1, <1>3, <1>9, <1>13, <1>14, <1>15, <1>16, <1>17, <1>18, IdleStep

-----------------------------------------------------------------------------
(* The invariant holds at first, and every step preserves it.              *)

LEMMA StartRefs ==
  ASSUME Init
  PROVE  RefsAre(icache, reg, file)
<1>. SUFFICES ASSUME NEW s \in Slots
              PROVE  icache[s].ref = Cardinality(At1(reg, s)) + Cardinality(At2(file, s))
  BY DEF RefsAre
<1>1. None # s /\ 1 \in Slots /\ InitProc \in Procs
  BY NotNone, FsAssumption DEF Slots
<1>2. At2(file, s) = {}
  BY DEF Init, At2, NoFile
<1>3. Cardinality(At2(file, s)) = 0
  BY <1>2, FS_EmptySet
<1>4. \A p \in Procs, x \in Ptrs : reg[p][x] = IF p = InitProc /\ x = "cwd" THEN 1 ELSE None
  <2>1. ASSUME NEW p \in Procs, NEW x \in Ptrs
        PROVE  reg[p][x] = IF p = InitProc /\ x = "cwd" THEN 1 ELSE None
    <3>1. NoReg[x] = None /\ [NoReg EXCEPT !.cwd = 1][x] = IF x = "cwd" THEN 1 ELSE None
      BY DEF NoReg, Ptrs
    <3>2. reg[p] = IF p = InitProc THEN [NoReg EXCEPT !.cwd = 1] ELSE NoReg
      BY Zenon DEF Init
    <3>. QED BY <3>1, <3>2
  <2>. QED BY <2>1
<1>5. CASE s = 1
  <2>1. At1(reg, s) = {<<InitProc, "cwd">>}
    <3>1. "cwd" \in Ptrs
      BY DEF Ptrs
    <3>. QED BY <1>1, <1>4, <1>5, <3>1 DEF At1
  <2>2. Cardinality(At1(reg, s)) = 1
    BY <2>1, FS_Singleton
  <2>3. icache[s].ref = 1
    BY <1>1, <1>5 DEF Init, Unused
  <2>. QED BY <1>3, <2>2, <2>3
<1>6. CASE s # 1
  <2>1. At1(reg, s) = {}
    BY <1>1, <1>4, <1>6 DEF At1
  <2>2. Cardinality(At1(reg, s)) = 0
    BY <2>1, FS_EmptySet
  <2>3. icache[s].ref = 0
    BY <1>6 DEF Init, Unused
  <2>. QED BY <1>3, <2>2, <2>3
<1>. QED BY <1>5, <1>6

LEMMA StartTyped ==
  ASSUME Init
  PROVE  Typed
<1>1. din \in [Inums -> Dinodes]
  <2>1. Free \in Dinodes /\ [type |-> "T_DIR", nlink |-> 1, addrs |-> <<1>>] \in Dinodes
    BY DEF Free, Dinodes, Types
  <2>. QED BY <2>1 DEF Init
<1>2. ents \in [Inums -> [Names -> 0 .. NINODES - 1]]
  BY FsAssumption DEF Init, NoEnts, ROOTINO
<1>3. used \subseteq Blocks
  BY FsAssumption DEF Init, Blocks
<1>4. icache \in [Slots -> Inodes]
  <2>1. Unused \in Inodes
    BY FsAssumption DEF Unused, Inodes
  <2>2. [Unused EXCEPT !.inum = ROOTINO, !.ref = 1] \in Inodes
    <3>1. ROOTINO \in 0 .. NINODES - 1 /\ 1 \in Nat
      BY FsAssumption DEF ROOTINO
    <3>2. [Unused EXCEPT !.inum = ROOTINO] \in Inodes
      BY <2>1, <3>1 DEF Inodes
    <3>. QED BY <3>1, <3>2 DEF Inodes
  <2>. QED BY <2>1, <2>2 DEF Init
<1>5. trans \in Procs \cup {None} /\ todo \in [Procs -> Seq(Steps)]
  BY DEF Init
<1>6. file \in [1 .. NFILE -> Files]
  <2>1. NoFile \in Files
    BY DEF NoFile, Files
  <2>. QED BY <2>1 DEF Init
<1>7. ofile \in [Procs -> [1 .. NOFILE -> (1 .. NFILE) \cup {None}]]
  BY DEF Init
<1>8. reg \in [Procs -> Regs]
  <2>1. [NoReg EXCEPT !.cwd = 1] \in Regs
    <3>1. 1 \in Slots
      BY FsAssumption DEF Slots
    <3>. QED BY <3>1, NoRegIs
  <2>2. NoReg \in Regs
    <3>1. "." \in Names
      BY FsAssumption DEF Dots
    <3>. QED BY <3>1 DEF NoReg, Regs
  <2>. QED BY <2>1, <2>2 DEF Init
<1>. QED BY <1>1, <1>2, <1>3, <1>4, <1>5, <1>6, <1>7, <1>8 DEF Typed

LEMMA Starts ==
  ASSUME Init
  PROVE  IInv
<1>1. Typed
  BY StartTyped
<1>2. \A s \in Slots : ~icache[s].valid /\ icache[s].busy = None /\ icache[s].inum = (IF s = 1 THEN ROOTINO ELSE 0)
                       /\ icache[s].ref = IF s = 1 THEN 1 ELSE 0
  BY DEF Init, Unused
<1>3. ASSUME NEW p \in Procs
      PROVE  /\ Local(todo[p], reg[p], ofile[p])
             /\ Opened(todo[p], reg[p], ofile[p], file)
             /\ Locks(p, todo[p], reg[p], icache)
             /\ trans = p <=> Logged(todo[p])
  <2>1. todo[p] = <<>> /\ trans = None /\ None \notin Procs /\ \A fd \in 1 .. NOFILE : ofile[p][fd] = None
    BY NotNone DEF Init
  <2>2. \A x \in CallPtrs : reg[p][x] = None
    <3>1. \A x \in CallPtrs : NoReg[x] = None /\ [NoReg EXCEPT !.cwd = 1][x] = None
      BY DEF NoReg, CallPtrs
    <3>2. reg[p] = IF p = InitProc THEN [NoReg EXCEPT !.cwd = 1] ELSE NoReg
      BY Zenon DEF Init
    <3>. QED BY <3>1, <3>2
  <2>3. /\ Code(<<>>) /\ Pointers(<<>>) = {} /\ Locked(<<>>) = {} /\ ~Leaves(<<>>) /\ (\A o : ~Top(<<>>, o)) /\ ~MayFail(<<>>)
        /\ ~Walks(<<>>, "ip") /\ ~Walks(<<>>, "dp") /\ ~Has(<<>>, "bump") /\ ~OnFile(<<>>) /\ ~Logged(<<>>)
    BY Nothing DEF Sum, Shape
  <2>4. Holding(<<>>, reg[p]) /\ Arguments(<<>>, reg[p]) /\ Descriptors(<<>>, reg[p], ofile[p]) /\ Opened(<<>>, reg[p], ofile[p], file)
    BY <2>1, <2>2, <2>3 DEF Holding, Arguments, Descriptors, Opened
  <2>5. Locks(p, <<>>, reg[p], icache)
    BY <1>2, <2>1, <2>3 DEF Locks
  <2>. QED BY <2>1, <2>3, <2>4, <2>5 DEF Local
<1>4. RefsAre(icache, reg, file)
  BY StartRefs
<1>5. FilesAre(file, ofile)
  <2>. SUFFICES ASSUME NEW f \in 1 .. NFILE
                PROVE  file[f].ref = Cardinality(NamedBy(ofile, f)) /\ ~(file[f].ref > 0)
    BY DEF FilesAre
  <2>1. file[f].ref = 0
    BY DEF Init, NoFile
  <2>2. NamedBy(ofile, f) = {}
    BY NotNone DEF Init, NamedBy
  <2>. QED BY <2>1, <2>2, FS_EmptySet
<1>6. Unique(icache) /\ Copied(icache, din) /\ Freeing(icache, todo, reg)
  <2>1. ROOTINO \in Inums
    BY FsAssumption DEF ROOTINO, Inums
  <2>. QED BY <1>2, <2>1 DEF Unique, Copied, Freeing
<1>7. panic \notin {"ilock", "iunlock", "iput busy", "fileclose"}
  <2>1. panic = "no"
    BY DEF Init
  <2>. QED BY <2>1, Zenon
<1>. QED BY <1>1, <1>3, <1>4, <1>5, <1>6, <1>7, Zenon DEF IInv

LEMMA Stutters ==
  ASSUME IInv, UNCHANGED vars
  PROVE  IInv'
<1>1. /\ din' = din /\ ents' = ents /\ used' = used /\ icache' = icache /\ trans' = trans /\ file' = file
      /\ ofile' = ofile /\ reg' = reg /\ todo' = todo /\ panic' = panic
  BY DEF vars
<1>2. Panic(panic)
  BY <1>1 DEF Panic, disk
<1>3. panic \notin Messages
  BY Ours
<1>. QED BY <1>2, <1>3, PanicStep, Zenon

LEMMA Steps1 ==
  ASSUME IInv, NEW p \in Procs, Step(p)
  PROVE  IInv'
  BY StepIlock, StepIunlock, StepIput, StepItrunc, StepIfree, StepIputEnd, StepStrayWrite, StepBegin, StepCommit,
     StepNamex, StepElement, StepCreateLookup, StepCreateExists, StepCreateNode, StepLinkBump, StepLinkEntry,
     StepDropLink, StepUnlinkLookup, StepUnlinkEntry, StepOpen, StepFileclose, StepCloseAll, StepReadi, StepWritei,
     StepChdir, StepSetCwd, Zenon DEF Step

LEMMA Calls1 ==
  ASSUME IInv, NEW p \in Procs, SysCall(p)
  PROVE  IInv'
  BY StartOpen, StartMkdir, StartLink, StartUnlink, StartChdir, StartExec, StartClose, StartDup, StartRead, StartWrite,
     StartFstat, StartExit, StartFork, Zenon DEF SysCall

LEMMA Inductive ==
  ASSUME IInv, [Next]_vars
  PROVE  IInv'
<1>1. CASE UNCHANGED vars
  BY <1>1, Stutters
<1>2. CASE Halt
  BY <1>2, Stutters DEF Halt
<1>3. ASSUME NEW p \in Procs, Step(p) \/ SysCall(p)
      PROVE  IInv'
  BY <1>3, Steps1, Calls1
<1>. QED BY <1>1, <1>2, <1>3, Zenon DEF Next

LEMMA Exact ==
  ASSUME IInv
  PROVE  CacheExact
<1>1. Typed
  BY Zenon DEF IInv
<1>2. TypeOK
  <2>1. \A i \in Inums : din[i].type \in Types \cup {"none"} /\ din[i].nlink \in Int
    BY <1>1 DEF Typed, Dinodes
  <2>2. \A s \in Slots : icache[s].ref \in Nat /\ icache[s].busy \in Procs \cup {None}
    BY <1>1 DEF Typed, Inodes
  <2>3. \A p \in Procs, x \in Ptrs : reg[p][x] \in Slots \cup {None}
    BY <1>1, PtrIn DEF Typed
  <2>. QED BY <1>1, <2>1, <2>2, <2>3 DEF Typed, TypeOK
<1>3. OneEntry
  BY Ours DEF Unique, OneEntry
<1>4. RefsCounted
  <2>1. DOMAIN file = 1 .. NFILE
    BY <1>1 DEF Typed
  <2>. QED BY <2>1, Ours DEF RefsAre, RefsCounted, Holders, At1, At2
<1>5. FilesCounted
  <2>1. DOMAIN file = 1 .. NFILE
    BY <1>1 DEF Typed
  <2>. QED BY <2>1, Ours DEF FilesAre, FilesCounted, NamedBy
<1>6. CleanReturn
  <2>. SUFFICES ASSUME NEW p \in Procs, todo[p] = <<>>
                PROVE  trans # p /\ \A s \in Slots : icache[s].busy # p
    BY DEF CleanReturn
  <2>1. Locks(p, <<>>, reg[p], icache) /\ (trans = p <=> Logged(<<>>))
    BY Mine
  <2>2. Locked(<<>>) = {} /\ ~Logged(<<>>)
    BY Nothing DEF Sum
  <2>. QED BY <2>1, <2>2 DEF Locks
<1>7. Coherent
  BY Ours DEF Copied, Coherent
<1>. QED BY <1>2, <1>3, <1>4, <1>5, <1>6, <1>7 DEF CacheExact

-----------------------------------------------------------------------------
(* No step changes an inode that is valid and not locked.                  *)

Kept ==
  \A s \in Slots : icache[s].ref > 0 /\ icache[s].valid /\ icache[s].busy = None =>
    \/ ~ icache'[s].valid
    \/ Copy(icache'[s]) = Copy(icache[s]) /\ ents'[icache[s].inum] = ents[icache[s].inum]

\* The registers that are locked at the steps that change an inode.
LEMMA LockedNow ==
  ASSUME IInv, NEW p \in Procs
  PROVE  /\ At(p, "itrunc") => Reg(p) \in Locked(todo[p])
         /\ At(p, "ifree") => Reg(p) \in Locked(todo[p])
         /\ At(p, "bump") => "ip" \in Locked(todo[p])
         /\ At(p, "drop") => "ip" \in Locked(todo[p])
         /\ At(p, "entry") => "dp" \in Locked(todo[p])
         /\ At(p, "mknode") => "ip" \in Locked(todo[p]) /\ "dp" \in Locked(todo[p])
         /\ At(p, "remove") => "dp" \in Locked(todo[p])
         /\ At(p, "writei") => "fip" \in Locked(todo[p])
<1>. DEFINE t == Rest(p)
            x == Reg(p)
            u == todo[p]
<1>0. Code(u)
  BY Mine
<1>1. ASSUME NEW op, At(p, op)
      PROVE  t \in Seq(Steps) /\ u = On(op, x, t) /\ <<op, x>> \in Steps
  BY <1>1, Now
<1>2. ASSUME NEW op, At(p, op)
      PROVE  /\ op \in {"itrunc", "ifree"} => x \in Ptrs
             /\ op \in {"bump", "drop", "mknode", "remove"} => x = "ip"
             /\ op = "entry" => x = "dp"
             /\ op = "writei" => x = "fip"
  <2>1. <<op, x>> \in Steps
    BY <1>1, <1>2
  <2>. HIDE DEF x
  <2>. QED BY <2>1, RegIn
<1>. HIDE DEF t, x, u

<1>3. ASSUME At(p, "itrunc")
      PROVE  x \in Locked(u)
  <2>1. t \in Seq(Steps) /\ u = On("itrunc", x, t) /\ x \in Ptrs
    BY <1>1, <1>2, <1>3
  <2>. QED BY <1>0, <2>1, Op_itrunc
<1>4. ASSUME At(p, "ifree")
      PROVE  x \in Locked(u)
  <2>1. t \in Seq(Steps) /\ u = On("ifree", x, t) /\ x \in Ptrs
    BY <1>1, <1>2, <1>4
  <2>. QED BY <1>0, <2>1, Op_ifree
<1>5. ASSUME At(p, "bump")
      PROVE  "ip" \in Locked(u)
  <2>1. t \in Seq(Steps) /\ u = On("bump", "ip", t)
    BY <1>1, <1>2, <1>5
  <2>. QED BY <1>0, <2>1, Op_bump
<1>6. ASSUME At(p, "drop")
      PROVE  "ip" \in Locked(u)
  <2>1. t \in Seq(Steps) /\ u = On("drop", "ip", t)
    BY <1>1, <1>2, <1>6
  <2>. QED BY <1>0, <2>1, Op_drop
<1>7. ASSUME At(p, "entry")
      PROVE  "dp" \in Locked(u)
  <2>1. t \in Seq(Steps) /\ u = On("entry", "dp", t)
    BY <1>1, <1>2, <1>7
  <2>. QED BY <1>0, <2>1, Op_entry
<1>8. ASSUME At(p, "mknode")
      PROVE  "ip" \in Locked(u) /\ "dp" \in Locked(u)
  <2>1. t \in Seq(Steps) /\ u = On("mknode", "ip", t)
    BY <1>1, <1>2, <1>8
  <2>. QED BY <1>0, <2>1, Op_mknode
<1>9. ASSUME At(p, "remove")
      PROVE  "dp" \in Locked(u)
  <2>1. t \in Seq(Steps) /\ u = On("remove", "ip", t)
    BY <1>1, <1>2, <1>9
  <2>. QED BY <1>0, <2>1, Op_remove
<1>10. ASSUME At(p, "writei")
      PROVE  "fip" \in Locked(u)
  <2>1. t \in Seq(Steps) /\ u = On("writei", "fip", t)
    BY <1>1, <1>2, <1>10
  <2>. QED BY <1>0, <2>1, Op_writei
<1>. QED BY <1>3, <1>4, <1>5, <1>6, <1>7, <1>8, <1>9, <1>10 DEF x, u

\* Only entries of register x or y, which are locked, change, or their
\* directories.
LEMMA KeptLocked ==
  ASSUME IInv, NEW p \in Procs, NEW x \in Locked(todo[p]), NEW y \in Locked(todo[p]),
         NEW a, NEW b, a = reg[p][x], b = reg[p][y],
         \A s \in Slots : s # a /\ s # b => icache'[s] = icache[s],
         \A i \in Inums : i # icache[a].inum /\ i # icache[b].inum => ents'[i] = ents[i]
  PROVE  Kept
<1>1. /\ a \in Slots /\ icache[a].busy = p /\ icache[a].ref > 0 /\ b \in Slots /\ icache[b].busy = p /\ icache[b].ref > 0
  BY LockedEntry
<1>2. Unique(icache) /\ p # None
  BY Ours, NotNone
<1>. SUFFICES ASSUME NEW s \in Slots, icache[s].ref > 0, icache[s].busy = None
              PROVE  Copy(icache'[s]) = Copy(icache[s]) /\ ents'[icache[s].inum] = ents[icache[s].inum]
  BY DEF Kept
<1>3. s # a /\ s # b
  BY <1>1, <1>2
<1>4. icache[s].inum \in Inums /\ icache[s].inum # icache[a].inum /\ icache[s].inum # icache[b].inum
  BY <1>1, <1>2, <1>3 DEF Unique
<1>. QED BY <1>3, <1>4

LEMMA KeptSame ==
  ASSUME ents' = ents,
         \A s \in Slots : icache[s].ref > 0 /\ icache[s].valid => ~icache'[s].valid \/ Copy(icache'[s]) = Copy(icache[s])
  PROVE  Kept
  BY DEF Kept

LEMMA KeptAll ==
  ASSUME ents' = ents, icache' = icache
  PROVE  Kept
  BY DEF Kept

LEMMA KeptDisk ==
  ASSUME UNCHANGED <<disk, icache>>
  PROVE  Kept
  BY KeptAll DEF disk

LEMMA KeptPanic ==
  ASSUME NEW msg, Panic(msg)
  PROVE  Kept
  BY KeptAll DEF disk, Panic

LEMMA KeptSet ==
  ASSUME IInv, NEW s, NEW f, icache' = [icache EXCEPT ![s] = f], ents' = ents, s \in Slots => ~f.valid \/ Copy(f) = Copy(icache[s])
  PROVE  Kept
<1>1. icache \in [Slots -> Inodes]
  BY Ours DEF Tables
<1>. QED BY <1>1, KeptSame

LEMMA KeptBusy ==
  ASSUME IInv, NEW s, NEW q, icache' = [icache EXCEPT ![s].busy = q], ents' = ents
  PROVE  Kept
<1>. DEFINE f == [icache[s] EXCEPT !.busy = q]
<1>1. icache' = [icache EXCEPT ![s] = f]
  OBVIOUS
<1>2. s \in Slots => Copy(f) = Copy(icache[s])
  <2>. SUFFICES ASSUME s \in Slots PROVE Copy(f) = Copy(icache[s])
    OBVIOUS
  <2>1. icache[s] \in Inodes
    BY Ours DEF Tables
  <2>. QED BY <2>1 DEF Copy, Inodes
<1>. HIDE DEF f
<1>. QED BY <1>1, <1>2, KeptSet

LEMMA KeptRef ==
  ASSUME IInv, NEW s, NEW q, icache' = [icache EXCEPT ![s].ref = q], ents' = ents
  PROVE  Kept
<1>. DEFINE f == [icache[s] EXCEPT !.ref = q]
<1>1. icache' = [icache EXCEPT ![s] = f]
  OBVIOUS
<1>2. s \in Slots => Copy(f) = Copy(icache[s])
  <2>. SUFFICES ASSUME s \in Slots PROVE Copy(f) = Copy(icache[s])
    OBVIOUS
  <2>1. icache[s] \in Inodes
    BY Ours DEF Tables
  <2>. QED BY <2>1 DEF Copy, Inodes
<1>. HIDE DEF f
<1>. QED BY <1>1, <1>2, KeptSet

LEMMA KeptIdup ==
  ASSUME IInv, NEW s, icache' = Idup(s), ents' = ents
  PROVE  Kept
<1>1. icache' = [icache EXCEPT ![s].ref = icache[s].ref + 1]
  BY DEF Idup
<1>. QED BY <1>1, KeptRef

LEMMA KeptIget ==
  ASSUME IInv, NEW i, icache' = Iget(i), ents' = ents
  PROVE  Kept
<1>. DEFINE v == IgetSlot(i)
            n == [Unused EXCEPT !.inum = i, !.ref = 1]
            e == icache[v]
            f == IF e.ref > 0 THEN [e EXCEPT !.ref = e.ref + 1] ELSE n
<1>1. icache' = [icache EXCEPT ![v] = f]
  BY DEF Iget
<1>2. ~n.valid
  BY DEF Unused
<1>3. v \in Slots => Copy([e EXCEPT !.ref = e.ref + 1]) = Copy(e)
  <2>. SUFFICES ASSUME v \in Slots PROVE Copy([e EXCEPT !.ref = e.ref + 1]) = Copy(e)
    OBVIOUS
  <2>1. e \in Inodes
    BY Ours DEF Tables
  <2>. HIDE DEF e
  <2>. QED BY <2>1 DEF Copy, Inodes
<1>. HIDE DEF n
<1>4. v \in Slots => ~f.valid \/ Copy(f) = Copy(icache[v])
  BY <1>2, <1>3
<1>. HIDE DEF f, v, e
<1>. QED BY <1>1, <1>4, KeptSet

\* Steps that only read, or go on.
LEMMA KeptQuiet ==
  ASSUME NEW p \in Procs, \/ Begin(p) \/ Commit(p) \/ CreateExists(p) \/ Fileclose(p) \/ CloseAll(p) \/ Readi(p)
                          \/ Chdir(p) \/ SetCwd(p) \/ StrayWrite(p) \/ SysDup(p)
  PROVE  Kept
<1>1. CASE Begin(p) \/ Commit(p) \/ CreateExists(p) \/ CloseAll(p) \/ Readi(p) \/ Chdir(p) \/ SetCwd(p) \/ SysDup(p)
  <2>1. UNCHANGED <<disk, icache>>
    BY <1>1, Zenon DEF Begin, Commit, CreateExists, CloseAll, Readi, Chdir, SetCwd, SysDup
  <2>. QED BY <2>1, KeptDisk
<1>2. CASE Fileclose(p)
  <2>1. Panic("fileclose") \/ UNCHANGED <<disk, icache, trans, panic>>
    BY <1>2, Zenon DEF Fileclose
  <2>. QED BY <2>1, KeptPanic, KeptDisk
<1>3. CASE StrayWrite(p)
  BY <1>3, KeptPanic, Zenon DEF StrayWrite
<1>. QED BY <1>1, <1>2, <1>3, Zenon

LEMMA KeptStart ==
  ASSUME NEW p, NEW r, NEW t, Start(p, r, t)
  PROVE  Kept
<1>1. UNCHANGED <<disk, icache>>
  BY Zenon DEF Start
<1>. QED BY <1>1, KeptDisk

LEMMA KeptCalls ==
  ASSUME IInv, NEW p \in Procs, SysCall(p)
  PROVE  Kept
<1>1. CASE \E r, t : Start(p, r, t)
  BY <1>1, KeptStart, Zenon
<1>2. CASE SysDup(p)
  BY <1>2, KeptQuiet
<1>3. CASE \E q \in Procs : Fork(p, q)
  <2>1. icache' = Idup(reg[p].cwd) /\ UNCHANGED disk
    BY <1>3, Zenon DEF Fork
  <2>. QED BY <2>1, KeptIdup DEF disk
<1>4. \/ SysOpen(p) \/ SysMkdir(p) \/ SysLink(p) \/ SysUnlink(p) \/ SysChdir(p) \/ Exec(p)
      \/ SysClose(p) \/ SysRead(p) \/ SysWrite(p) \/ SysFstat(p) \/ Exit(p)
      => \E r, t : Start(p, r, t)
  BY Zenon DEF SysOpen, SysMkdir, SysLink, SysUnlink, SysChdir, Exec, SysClose, SysRead, SysWrite, SysFstat, Exit, Access
<1>. QED BY <1>1, <1>2, <1>3, <1>4, Zenon DEF SysCall

LEMMA KeptIlock ==
  ASSUME IInv, NEW p \in Procs, Ilock(p)
  PROVE  Kept
<1>. DEFINE s == reg[p][Reg(p)]
            e == icache[s]
            d == IF e.valid THEN Copy(e) ELSE din[e.inum]
            f == [e EXCEPT !.busy = p, !.valid = TRUE, !.type = d.type, !.nlink = d.nlink, !.addrs = d.addrs]
            B == icache' = [icache EXCEPT ![s] = f] /\ UNCHANGED <<disk, trans, file, ofile, panic>>
<1>1. Panic("ilock") \/ Panic("ilock: no type") \/ B
  BY Zenon DEF Ilock
<1>2. CASE B
  <2>1. icache' = [icache EXCEPT ![s] = f] /\ ents' = ents
    BY <1>2 DEF disk
  <2>2. s \in Slots /\ e.valid => Copy(f) = Copy(e)
    <3>. SUFFICES ASSUME s \in Slots, e.valid PROVE Copy(f) = Copy(e)
      OBVIOUS
    <3>1. e \in Inodes
      BY Ours DEF Tables
    <3>2. d = Copy(e)
      OBVIOUS
    <3>3. d.type = e.type /\ d.nlink = e.nlink /\ d.addrs = e.addrs
      BY <3>2 DEF Copy
    <3>. HIDE DEF e, d
    <3>. QED BY <3>1, <3>3 DEF Copy, Inodes
  <2>3. icache \in [Slots -> Inodes]
    BY Ours DEF Tables
  <2>4. \A z \in Slots : icache[z].ref > 0 /\ icache[z].valid => ~icache'[z].valid \/ Copy(icache'[z]) = Copy(icache[z])
    <3>. HIDE DEF s, f
    <3>. QED BY <2>1, <2>2, <2>3
  <2>. QED BY <2>1, <2>4, KeptSame
<1>. HIDE DEF B
<1>. QED BY <1>1, <1>2, KeptPanic, Zenon

LEMMA KeptIunlock ==
  ASSUME IInv, NEW p \in Procs, Iunlock(p)
  PROVE  Kept
<1>. DEFINE s == reg[p][Reg(p)]
            B == icache' = [icache EXCEPT ![s].busy = None] /\ UNCHANGED <<disk, trans, file, ofile, panic>>
<1>1. Panic("iunlock") \/ B
  BY Zenon DEF Iunlock
<1>2. CASE B
  BY <1>2, KeptBusy DEF disk
<1>. HIDE DEF B
<1>. QED BY <1>1, <1>2, KeptPanic, Zenon

LEMMA KeptIput ==
  ASSUME IInv, NEW p \in Procs, Iput(p)
  PROVE  Kept
<1>. DEFINE s == reg[p][Reg(p)]
            B == icache' = [icache EXCEPT ![s].busy = p] /\ UNCHANGED <<disk, trans, file, ofile, panic>>
            C == icache' = [icache EXCEPT ![s].ref = @ - 1] /\ UNCHANGED <<disk, trans, file, ofile, panic>>
<1>1. Panic("iput busy") \/ B \/ C
  BY Zenon DEF Iput
<1>2. CASE B
  BY <1>2, KeptBusy DEF disk
<1>3. CASE C
  BY <1>3, KeptRef DEF disk
<1>. HIDE DEF B, C
<1>. QED BY <1>1, <1>2, <1>3, KeptPanic, Zenon

LEMMA KeptIputEnd ==
  ASSUME IInv, NEW p \in Procs, IputEnd(p)
  PROVE  Kept
<1>. DEFINE s == reg[p][Reg(p)]
            f == [icache[s] EXCEPT !.ref = icache[s].ref - 1, !.busy = None, !.valid = FALSE]
<1>1. icache' = [icache EXCEPT ![s] = f] /\ UNCHANGED <<disk, trans, file, ofile, panic>>
  BY Zenon DEF IputEnd
<1>2. s \in Slots => ~f.valid
  <2>. SUFFICES ASSUME s \in Slots PROVE ~f.valid
    OBVIOUS
  <2>1. icache[s] \in Inodes
    BY Ours DEF Tables
  <2>. QED BY <2>1 DEF Inodes
<1>. HIDE DEF s, f
<1>3. ents' = ents
  BY <1>1 DEF disk
<1>. QED BY <1>1, <1>2, <1>3, KeptSet

LEMMA KeptLooks ==
  ASSUME IInv, NEW p \in Procs, Namex(p) \/ Element(p) \/ CreateLookup(p) \/ UnlinkLookup(p)
  PROVE  Kept
<1>1. CASE Namex(p)
  <2>1. Panic("iget: no inodes") \/ (ents' = ents /\ (icache' = Idup(reg[p].cwd) \/ icache' = Iget(ROOTINO)))
    <3>1. \/ Panic("iget: no inodes")
          \/ (icache' = Idup(reg[p].cwd) \/ icache' = Iget(ROOTINO)) /\ UNCHANGED <<disk, trans, file, ofile, panic>>
      BY <1>1, Zenon DEF Namex
    <3>. QED BY <3>1, Zenon DEF disk
  <2>. QED BY <2>1, KeptPanic, KeptIdup, KeptIget, Zenon
<1>2. CASE Element(p)
  <2>. DEFINE i == ents[icache[reg[p].w].inum][reg[p].name]
  <2>1. \/ Panic("iget: no inodes")
        \/ /\ UNCHANGED disk
           /\ icache' = icache \/ icache' = [icache EXCEPT ![reg[p].w].busy = None] \/ icache' = Iget(i)
    BY <1>2, Zenon DEF Element
  <2>. HIDE DEF i
  <2>2. UNCHANGED disk => ents' = ents
    BY DEF disk
  <2>. QED BY <2>1, <2>2, KeptPanic, KeptAll, KeptBusy, KeptIget, Zenon
<1>3. CASE CreateLookup(p)
  <2>. DEFINE i == ents[icache[reg[p].dp].inum][reg[p].name]
              m == Min({j \in Inums : din[j].type = "none"})
  <2>1. \/ Panic("iget: no inodes") \/ Panic("ialloc: no inodes")
        \/ (UNCHANGED <<disk, trans, file, ofile, panic>> /\ icache' = Iget(i))
        \/ (UNCHANGED <<ents, used, trans, file, ofile, panic>> /\ icache' = Iget(m))
    BY <1>3, Zenon DEF CreateLookup
  <2>. HIDE DEF i, m
  <2>2. UNCHANGED <<disk, trans, file, ofile, panic>> \/ UNCHANGED <<ents, used, trans, file, ofile, panic>> => ents' = ents
    BY DEF disk
  <2>. QED BY <2>1, <2>2, KeptPanic, KeptIget, Zenon
<1>4. CASE UnlinkLookup(p)
  <2>. DEFINE i == ents[icache[reg[p].dp].inum][reg[p].name]
  <2>1. Panic("iget: no inodes") \/ (UNCHANGED disk /\ (icache' = icache \/ icache' = Iget(i)))
    BY <1>4, Zenon DEF UnlinkLookup
  <2>. HIDE DEF i
  <2>2. UNCHANGED disk => ents' = ents
    BY DEF disk
  <2>. QED BY <2>1, <2>2, KeptPanic, KeptAll, KeptIget, Zenon
<1>. QED BY <1>1, <1>2, <1>3, <1>4

LEMMA KeptOpen ==
  ASSUME IInv, NEW p \in Procs, Open(p)
  PROVE  Kept
<1>1. UNCHANGED <<disk, trans, panic>> /\ (icache' = icache \/ icache' = [icache EXCEPT ![reg[p].ip].busy = None])
  BY Zenon DEF Open
<1>2. ents' = ents
  BY <1>1 DEF disk
<1>. QED BY <1>1, <1>2, KeptAll, KeptBusy, Zenon

LEMMA KeptLinks ==
  ASSUME IInv, NEW p \in Procs, NEW x \in Locked(todo[p]), NEW n, SetLinks(p, x, n),
         \A i \in Inums : i # icache[reg[p][x]].inum => ents'[i] = ents[i]
  PROVE  Kept
<1>. DEFINE s == reg[p][x]
<1>1. icache' = [icache EXCEPT ![s].nlink = n]
  BY DEF SetLinks
<1>2. \A z \in Slots : z # s => icache'[z] = icache[z]
  <2>1. icache \in [Slots -> Inodes]
    BY Ours DEF Tables
  <2>. QED BY <1>1, <2>1
<1>. QED BY <1>2, KeptLocked

LEMMA KeptFrees ==
  ASSUME IInv, NEW p \in Procs, Itrunc(p) \/ Ifree(p)
  PROVE  Kept
<1>. DEFINE x == Reg(p)
            s == reg[p][x]
<1>1. icache \in [Slots -> Inodes] /\ ents \in [Inums -> [Names -> 0 .. NINODES - 1]]
  BY Ours DEF Tables
<1>2. x \in Locked(todo[p])
  <2>1. At(p, "itrunc") \/ At(p, "ifree")
    BY Zenon DEF Itrunc, Ifree
  <2>. QED BY <2>1, LockedNow
<1>3. CASE Itrunc(p)
  <2>1. \/ Panic("freeing free block")
        \/ /\ icache' = [icache EXCEPT ![s].addrs = <<>>]
           /\ ents' = [ents EXCEPT ![icache[s].inum] = NoEnts]
    BY <1>3, Zenon DEF Itrunc
  <2>2. ASSUME icache' = [icache EXCEPT ![s].addrs = <<>>], ents' = [ents EXCEPT ![icache[s].inum] = NoEnts]
        PROVE  Kept
    <3>1. \A z \in Slots : z # s => icache'[z] = icache[z]
      BY <1>1, <2>2
    <3>2. \A i \in Inums : i # icache[s].inum => ents'[i] = ents[i]
      BY <1>1, <2>2
    <3>. QED BY <1>2, <3>1, <3>2, KeptLocked
  <2>. QED BY <2>1, <2>2, KeptPanic, Zenon
<1>4. CASE Ifree(p)
  <2>1. icache' = [icache EXCEPT ![s].type = "none"] /\ ents' = ents
    BY <1>4 DEF Ifree
  <2>2. \A z \in Slots : z # s => icache'[z] = icache[z]
    BY <1>1, <2>1
  <2>. QED BY <1>2, <2>1, <2>2, KeptLocked
<1>. QED BY <1>3, <1>4

LEMMA KeptCounts ==
  ASSUME IInv, NEW p \in Procs, LinkBump(p) \/ DropLink(p)
  PROVE  Kept
<1>1. "ip" \in Locked(todo[p])
  <2>1. At(p, "bump") \/ At(p, "drop")
    BY Zenon DEF LinkBump, DropLink
  <2>. QED BY <2>1, LockedNow
<1>2. \/ UNCHANGED <<disk, icache>>
      \/ \E n : SetLinks(p, "ip", n) /\ ents' = ents
  <2>1. LinkBump(p) => UNCHANGED <<disk, icache>> \/ (SetLinks(p, "ip", icache[reg[p].ip].nlink + 1) /\ UNCHANGED <<ents, used>>)
    BY Zenon DEF LinkBump
  <2>2. DropLink(p) => SetLinks(p, "ip", icache[reg[p].ip].nlink - 1) /\ UNCHANGED <<ents, used, trans, file, ofile, panic>>
    BY Zenon DEF DropLink
  <2>. QED BY <2>1, <2>2
<1>3. ASSUME NEW n, SetLinks(p, "ip", n), ents' = ents
      PROVE  Kept
  BY <1>1, <1>3, KeptLinks
<1>. QED BY <1>2, <1>3, KeptDisk, Zenon

LEMMA KeptEntry ==
  ASSUME IInv, NEW p \in Procs, LinkEntry(p) \/ UnlinkEntry(p)
  PROVE  Kept
<1>. DEFINE s == reg[p]["dp"]
            d == icache[s].inum
            k == reg[p].name
            D == /\ icache' = icache \/ \E n : SetLinks(p, "dp", n)
                 /\ ents' = ents \/ \E v : ents' = [ents EXCEPT ![d][k] = v]
<1>1. "dp" \in Locked(todo[p])
  <2>1. At(p, "entry") \/ At(p, "remove")
    BY Zenon DEF LinkEntry, UnlinkEntry
  <2>. QED BY <2>1, LockedNow
<1>2. Panic("unlink: nlink < 1") \/ D
  <2>1. LinkEntry(p) => UNCHANGED <<din, used, icache, trans, file, ofile, panic>> /\ (ents' = ents \/ \E v : ents' = [ents EXCEPT ![d][k] = v])
    BY Zenon DEF LinkEntry
  <2>2. UnlinkEntry(p) => \/ Panic("unlink: nlink < 1")
                          \/ UNCHANGED <<disk, icache, trans, file, ofile, panic>>
                          \/ /\ ents' = [ents EXCEPT ![d][k] = 0]
                             /\ SetLinks(p, "dp", icache[s].nlink - 1) \/ UNCHANGED <<icache, din>>
    BY Zenon DEF UnlinkEntry
  <2>3. UNCHANGED <<disk, icache, trans, file, ofile, panic>> => icache' = icache /\ ents' = ents
    BY DEF disk
  <2>4. UNCHANGED <<din, used, icache, trans, file, ofile, panic>> \/ UNCHANGED <<icache, din>> => icache' = icache
    OBVIOUS
  <2>. HIDE DEF s, d, k
  <2>. QED BY <2>1, <2>2, <2>3, <2>4, Zenon
<1>3. CASE D
  <2>1. ents \in [Inums -> [Names -> 0 .. NINODES - 1]]
    BY Ours DEF Tables
  <2>2. \A i \in Inums : i # d => ents'[i] = ents[i]
    <3>1. CASE ents' = ents
      BY <3>1
    <3>2. ASSUME NEW v, ents' = [ents EXCEPT ![d][k] = v]
          PROVE  \A i \in Inums : i # d => ents'[i] = ents[i]
      <4>. HIDE DEF d, k
      <4>. QED BY <2>1, <3>2
    <3>. QED BY <1>3, <3>1, <3>2
  <2>3. CASE icache' = icache
    BY <1>1, <2>2, <2>3, KeptLocked
  <2>4. ASSUME NEW n, SetLinks(p, "dp", n)
        PROVE  Kept
    BY <1>1, <2>2, <2>4, KeptLinks
  <2>. QED BY <1>3, <2>3, <2>4
<1>. HIDE DEF D
<1>. QED BY <1>2, <1>3, KeptPanic, Zenon

LEMMA KeptNode ==
  ASSUME IInv, NEW p \in Procs, CreateNode(p)
  PROVE  Kept
<1>. DEFINE a == reg[p]["ip"]
            b == reg[p]["dp"]
            i == icache[a].inum
            d == icache[b].inum
            dir == reg[p].kind = "T_DIR"
            k == reg[p].name
            c == IF dir THEN <<NextBlock>> ELSE icache[a].addrs
            D == /\ icache' = [icache EXCEPT ![a].nlink = 1, ![a].addrs = c,
                                             ![b].nlink = IF dir THEN @ + 1 ELSE @]
                 /\ ents' = [ents EXCEPT
                       ![i] = IF dir THEN [NoEnts EXCEPT !["."] = i, ![".."] = d] ELSE @,
                       ![d][k] = i]
<1>1. "ip" \in Locked(todo[p]) /\ "dp" \in Locked(todo[p])
  <2>1. At(p, "mknode")
    BY Zenon DEF CreateNode
  <2>. QED BY <2>1, LockedNow
<1>2. Panic("balloc: out of blocks") \/ D
  BY Zenon DEF CreateNode
<1>3. CASE D
  <2>1. icache \in [Slots -> Inodes] /\ ents \in [Inums -> [Names -> 0 .. NINODES - 1]]
    BY Ours DEF Tables
  <2>2. a \in Slots /\ b \in Slots /\ i \in Inums /\ d \in Inums
    BY <1>1, LockedEntry
  <2>3. \A z \in Slots : z # a /\ z # b => icache'[z] = icache[z]
    <3>. HIDE DEF a, b, c, dir, i, d, k
    <3>. QED BY <1>3, <2>1, <2>2
  <2>4. \A j \in Inums : j # i /\ j # d => ents'[j] = ents[j]
    <3>. HIDE DEF a, b, c, dir, i, d, k
    <3>. QED BY <1>3, <2>1, <2>2
  <2>. QED BY <1>1, <2>3, <2>4, KeptLocked
<1>. HIDE DEF D
<1>. QED BY <1>2, <1>3, KeptPanic, Zenon

LEMMA KeptWritei ==
  ASSUME IInv, NEW p \in Procs, Writei(p)
  PROVE  Kept
<1>. DEFINE s == reg[p]["fip"]
            D == /\ icache' = [icache EXCEPT ![s].addrs = Append(@, NextBlock)]
                 /\ UNCHANGED <<ents, trans, ofile, panic>>
<1>1. "fip" \in Locked(todo[p])
  <2>1. At(p, "writei")
    BY Zenon DEF Writei
  <2>. QED BY <2>1, LockedNow
<1>2. \/ Panic("balloc: out of blocks") \/ D
      \/ UNCHANGED <<disk, icache, trans, file, ofile, panic>> \/ UNCHANGED <<disk, icache, trans, ofile, panic>>
  BY Zenon DEF Writei
<1>3. CASE D
  <2>1. icache \in [Slots -> Inodes]
    BY Ours DEF Tables
  <2>2. \A z \in Slots : z # s => icache'[z] = icache[z]
    BY <1>3, <2>1
  <2>. QED BY <1>1, <1>3, <2>2, KeptLocked
<1>4. CASE UNCHANGED <<disk, icache, trans, file, ofile, panic>> \/ UNCHANGED <<disk, icache, trans, ofile, panic>>
  BY <1>4, KeptDisk
<1>. HIDE DEF D
<1>. QED BY <1>2, <1>3, <1>4, KeptPanic, Zenon

LEMMA KeptNext ==
  ASSUME IInv, [Next]_vars
  PROVE  Kept
<1>1. ASSUME UNCHANGED vars PROVE Kept
  BY <1>1, KeptAll DEF vars
<1>2. ASSUME NEW p \in Procs, Step(p)
      PROVE  Kept
  BY <1>2, KeptIlock, KeptIunlock, KeptIput, KeptFrees, KeptIputEnd, KeptQuiet, KeptLooks, KeptNode, KeptCounts,
     KeptEntry, KeptOpen, KeptWritei, Zenon DEF Step
<1>3. ASSUME Halt PROVE Kept
  BY <1>1, <1>3 DEF Halt
<1>. QED BY <1>1, <1>2, <1>3, KeptCalls, Zenon DEF Next

-----------------------------------------------------------------------------
(* What holds for every number of processes, inodes, blocks and files.     *)

LEMMA Always == Spec => []IInv
<1>1. Init => IInv
  BY Starts
<1>2. IInv /\ [Next]_vars => IInv'
  BY Inductive
<1>. QED BY <1>1, <1>2, PTL DEF Spec

\* The caches in memory are exact, whatever the interleaving of the calls: the
\* count of an inode is the number of pointers to it (iget, idup and iput,
\* fs.c:222-337), the count of a file the number of its descriptors
\* (file.c:26-79), an inode has one entry, a valid entry that nobody has locked
\* is what the disk holds (iupdate, fs.c:202), and no call returns with an inode
\* locked or in a transaction (the return paths of sysfile.c:116-400).
THEOREM CacheCorrect == Spec => []CacheExact
<1>1. IInv => CacheExact
  BY Exact
<1>. QED BY <1>1, Always, PTL

\* Only who has locked an inode changes it, or the entries of its directory
\* (fs.c:129-139): true of every step of the calls, those of iput on an inode
\* without links (fs.c:318-337) among them.
THEOREM LockedChangeCorrect == Spec => LockedChange
<1>1. IInv /\ [Next]_vars =>
        [\A s \in Slots : icache[s].ref > 0 /\ icache[s].valid /\ icache[s].busy = None =>
           \/ ~ icache'[s].valid
           \/ Copy(icache'[s]) = Copy(icache[s]) /\ ents'[icache[s].inum] = ents[icache[s].inum]]_vars
  BY KeptNext, Zenon DEF Kept
<1>. QED BY <1>1, Always, PTL DEF Spec, LockedChange

\* The panics of ilock and iunlock for an inode without a reference or a lock
\* (fs.c:275, 304), of iput for an inode that is locked (fs.c:324) and of
\* fileclose for a file without a reference (file.c:62) never happen.
THEOREM AssertionsCorrect == Spec => [](panic \notin {"ilock", "iunlock", "iput busy", "fileclose"})
<1>1. IInv => panic \notin {"ilock", "iunlock", "iput busy", "fileclose"}
  BY Zenon DEF IInv
<1>. QED BY <1>1, Always, PTL

-----------------------------------------------------------------------------
(* The log is atomic across crashes.                                       *)

(* What a reboot finds at a block that the log names, and at one it does not. *)
LEMMA OverlayFacts ==
  ASSUME NEW h, NEW l, NEW sq \in Seq(HomeBlocks), Distinct(sq)
  PROVE  /\ \A i \in DOMAIN sq : OverlayOf(h, l, sq)[sq[i]] = l[i]
         /\ \A b \in HomeBlocks : b \notin Range(sq) => OverlayOf(h, l, sq)[b] = h[b]
<1>1. ASSUME NEW i \in DOMAIN sq PROVE OverlayOf(h, l, sq)[sq[i]] = l[i]
  <2>1. sq[i] \in HomeBlocks /\ sq[i] \in Range(sq)
    BY DEF Range
  <2>2. Place(sq, sq[i]) \in DOMAIN sq /\ sq[Place(sq, sq[i])] = sq[i]
    BY DEF Place
  <2>3. Place(sq, sq[i]) = i
    BY <2>2 DEF Distinct
  <2> QED BY <2>1, <2>3 DEF OverlayOf
<1>2. ASSUME NEW b \in HomeBlocks, b \notin Range(sq) PROVE OverlayOf(h, l, sq)[b] = h[b]
  BY <1>2 DEF OverlayOf
<1> QED BY <1>1, <1>2

(* An empty log changes nothing. *)
LEMMA OverlayEmpty ==
  ASSUME NEW h, h = [b \in HomeBlocks |-> h[b]], NEW l
  PROVE  OverlayOf(h, l, <<>>) = h
BY DEF OverlayOf, Range

(* Blocks that agree with the log where it names them, and with h elsewhere. *)
Matches(f, h, l, sq) ==
  /\ \A i \in DOMAIN sq : f[sq[i]] = l[i]
  /\ \A b \in HomeBlocks : b \notin Range(sq) => f[b] = h[b]

LEMMA OverlaySame ==
  ASSUME NEW h, NEW l, NEW sq \in Seq(HomeBlocks), Distinct(sq),
         NEW f \in [HomeBlocks -> Vals], Matches(f, h, l, sq)
  PROVE  OverlayOf(h, l, sq) = f
<1>1. ASSUME NEW b \in HomeBlocks PROVE OverlayOf(h, l, sq)[b] = f[b]
  <2>1. CASE b \in Range(sq)
    <3>1. PICK i \in DOMAIN sq : b = sq[i]
      BY <2>1 DEF Range
    <3> QED BY <3>1, OverlayFacts DEF Matches
  <2>2. CASE b \notin Range(sq)
    BY <2>2, OverlayFacts DEF Matches
  <2> QED BY <2>1, <2>2
<1> QED BY <1>1 DEF OverlayOf

-----------------------------------------------------------------------------
LEMMA LogTypeStep == LogTypeOK /\ [LogNext]_logVars => LogTypeOK'
<1> SUFFICES ASSUME LogTypeOK, [LogNext]_logVars PROVE LogTypeOK'
  OBVIOUS
<1> USE LogSizeAssumption DEF LogTypeOK, Fits
<1>0. /\ <<>> \in Seq(HomeBlocks) /\ Fits(<<>>) /\ 1 \in 1..(LOGSIZE + 1)
      /\ {"boot", "install", "clear", "up", "panic"} \subseteq Phases
      /\ {"idle", "asleep", "retry", "trans", "head", "install", "clear", "release"} \subseteq Points
  BY DEF Phases, Points
<1>1. CASE UNCHANGED logVars
  BY <1>1 DEF logVars, logDisk
<1>2. CASE Crash
  BY <1>0, <1>2 DEF Crash, logDisk
<1>3. CASE ReadHead
  BY <1>0, <1>3 DEF ReadHead, logDisk
<1>4. ASSUME InstallBlock, UNCHANGED <<phase, pc>> PROVE LogTypeOK'
  <2>1. tail \in DOMAIN lh /\ tail \in LogSlots /\ tail + 1 \in 1..(LOGSIZE + 1)
    BY <1>4 DEF InstallBlock, LogSlots
  <2>2. lh[tail] \in HomeBlocks /\ logblk[tail] \in Vals
    BY <2>1
  <2> QED BY <1>4, <2>1, <2>2 DEF InstallBlock
<1>5. CASE RecoverInstall
  <2>1. CASE InstallBlock /\ UNCHANGED phase
    BY <1>4, <1>5, <2>1 DEF RecoverInstall
  <2>2. CASE lh' = <<>> /\ phase' = "clear" /\ UNCHANGED <<logDisk, buf, dirty, busy, tail>>
    BY <1>0, <1>5, <2>2 DEF RecoverInstall, logDisk
  <2> QED BY <1>5, <2>1, <2>2 DEF RecoverInstall
<1>6. CASE RecoverClear
  BY <1>0, <1>6 DEF RecoverClear
<1>7. ASSUME NEW b \in HomeBlocks, Evict(b) PROVE LogTypeOK'
  BY <1>7 DEF Evict, logDisk
<1>8. ASSUME NEW p \in Callers, begin_trans(p) PROVE LogTypeOK'
  BY <1>0, <1>8 DEF begin_trans, logDisk
<1>9. ASSUME NEW p \in Callers, commit_trans(p) PROVE LogTypeOK'
  BY <1>0, <1>9 DEF commit_trans, logDisk
<1>10. ASSUME NEW p \in Callers, WriteHead(p) PROVE LogTypeOK'
  BY <1>0, <1>10 DEF WriteHead
<1>11. ASSUME NEW p \in Callers, CommitInstall(p) PROVE LogTypeOK'
  <2>1. CASE InstallBlock /\ UNCHANGED pc
    BY <1>4, <1>11, <2>1 DEF CommitInstall
  <2>2. CASE /\ lh' = <<>> /\ pc' = [pc EXCEPT ![p] = "clear"]
             /\ UNCHANGED <<logDisk, buf, dirty, busy, tail>>
    BY <1>0, <1>11, <2>2 DEF CommitInstall, logDisk
  <2> QED BY <1>11, <2>1, <2>2 DEF CommitInstall
<1>12. ASSUME NEW p \in Callers, ClearHead(p) PROVE LogTypeOK'
  BY <1>0, <1>12 DEF ClearHead
<1>13. ASSUME NEW p \in Callers, Release(p) PROVE LogTypeOK'
  BY <1>0, <1>13 DEF Release, logDisk
<1>14. ASSUME NEW p \in Callers, TooBig(p) PROVE LogTypeOK'
  BY <1>0, <1>14 DEF TooBig, logDisk
<1>15. ASSUME NEW p \in Callers, NEW b \in HomeBlocks, NEW v \in Vals, log_write(p, b, v)
       PROVE  LogTypeOK'
  <2>1. Append(lh, b) \in Seq(HomeBlocks) /\ Len(Append(lh, b)) = Len(lh) + 1
    OBVIOUS
  <2>2. Len(lh) + 1 <= LOGSIZE /\ Len(lh) + 1 <= LogBlocks - 1
    BY <1>15 DEF log_write, LogIsFull
  <2>3. lh' \in Seq(HomeBlocks) /\ Fits(lh')
    <3>1. CASE b \in Range(lh)
      BY <1>15, <3>1 DEF log_write
    <3>2. CASE b \notin Range(lh)
      BY <1>15, <2>1, <2>2, <3>2 DEF log_write
    <3> QED BY <3>1, <3>2
  <2>4. logblk' \in [LogSlots -> Vals]
    BY <1>15 DEF log_write
  <2> QED BY <1>15, <2>3, <2>4 DEF log_write
<1> QED
  BY <1>1, <1>2, <1>3, <1>5, <1>6, <1>7, <1>8, <1>9, <1>10, <1>11, <1>12, <1>13, <1>14, <1>15
  DEF LogNext, Recover, CommitStep

(* Every variable keeps its type; the header, in memory and on the disk, never
   names more sectors than its array has room for, nor more than the log has
   data blocks. *)
THEOREM LogTypeCorrect == LogSpec => []LogTypeOK
<1>1. LogInit => LogTypeOK
  <2>1. <<>> \in Seq(HomeBlocks) /\ Fits(<<>>) /\ 1 \in 1..(LOGSIZE + 1)
    BY LogSizeAssumption DEF Fits
  <2> QED BY <2>1 DEF LogInit, LogTypeOK, Phases, Points
<1> QED BY <1>1, LogTypeStep, PTL DEF LogSpec

-----------------------------------------------------------------------------
(* Only a system that is up has processes in begin_trans or in a transaction. *)
TurnInv ==
  /\ NoLostTurn
  /\ phase \notin {"up", "panic"} => ~busy /\ \A p \in Callers : pc[p] = "idle"

LEMMA TurnStep == LogTypeOK /\ TurnInv /\ [LogNext]_logVars => TurnInv'
<1> SUFFICES ASSUME LogTypeOK, TurnInv, [LogNext]_logVars PROVE TurnInv'
  OBVIOUS
<1> USE DEF LogTypeOK, TurnInv, NoLostTurn, InTrans
<1>1. CASE UNCHANGED logVars
  BY <1>1 DEF logVars
<1>2. CASE Crash
  BY <1>2 DEF Crash
<1>3. CASE Recover
  BY <1>3 DEF Recover, ReadHead, RecoverInstall, RecoverClear, InstallBlock
<1>4. ASSUME NEW b \in HomeBlocks, Evict(b) PROVE TurnInv'
  BY <1>4 DEF Evict
<1>5. ASSUME NEW p \in Callers, begin_trans(p) PROVE TurnInv'
  BY <1>5 DEF begin_trans
<1>6. ASSUME NEW p \in Callers, commit_trans(p) \/ WriteHead(p) \/ ClearHead(p) PROVE TurnInv'
  BY <1>6 DEF commit_trans, WriteHead, ClearHead
<1>7. ASSUME NEW p \in Callers, CommitInstall(p) PROVE TurnInv'
  BY <1>7 DEF CommitInstall, InstallBlock
<1>8. ASSUME NEW p \in Callers, Release(p) PROVE TurnInv'
  BY <1>8 DEF Release
<1>9. ASSUME NEW p \in Callers, TooBig(p) PROVE TurnInv'
  BY <1>9 DEF TooBig
<1>10. ASSUME NEW p \in Callers, NEW b \in HomeBlocks, NEW v \in Vals, log_write(p, b, v)
       PROVE  TurnInv'
  BY <1>10 DEF log_write
<1> QED
  BY <1>1, <1>2, <1>3, <1>4, <1>5, <1>6, <1>7, <1>8, <1>9, <1>10 DEF LogNext, CommitStep

LEMMA TurnCorrect == LogSpec => []TurnInv
<1>1. LogInit => TurnInv
  BY DEF LogInit, TurnInv, NoLostTurn, InTrans
<1> QED BY <1>1, TurnStep, LogTypeCorrect, PTL DEF LogSpec

(* One transaction at a time, and nobody sleeps in begin_trans while the log
   is free. *)
THEOREM NoLostTurnCorrect == LogSpec => []NoLostTurn
<1>1. TurnInv => NoLostTurn
  BY DEF TurnInv
<1> QED BY <1>1, TurnCorrect, PTL

-----------------------------------------------------------------------------
(* Copying one block home changes nothing of what a reboot would find. *)
LEMMA InstallKeeps ==
  ASSUME LogTypeOK, Distinct(lh), Installed, InstallBlock
  PROVE  Overlay(lh)' = Overlay(lh) /\ Installed' /\ lh' = lh
<1> USE DEF LogTypeOK
<1>1. tail \in DOMAIN lh /\ lh[tail] \in HomeBlocks
  BY DEF InstallBlock
<1>2. /\ lh' = lh /\ logblk' = logblk /\ tail' = tail + 1
      /\ home' = [home EXCEPT ![lh[tail]] = logblk[tail]]
  BY DEF InstallBlock
<1>3. \A b \in HomeBlocks : b \notin Range(lh) => home'[b] = home[b]
  BY <1>1, <1>2 DEF Range
<1>6. OverlayOf(home', logblk, lh) = OverlayOf(home, logblk, lh)
  BY <1>3 DEF OverlayOf
<1>7. Installed'
  BY <1>1, <1>2 DEF Installed, Distinct
<1> QED BY <1>2, <1>6, <1>7 DEF Overlay

(* Once all of them have been copied, the log adds nothing. *)
LEMMA InstallDone ==
  ASSUME LogTypeOK, Distinct(lh), Installed, tail > Len(lh)
  PROVE  Overlay(lh) = home
<1> USE DEF LogTypeOK
<1>1. Matches(home, home, logblk, lh)
  BY DEF Installed, Matches
<1>2. home \in [HomeBlocks -> Vals] /\ lh \in Seq(HomeBlocks)
  OBVIOUS
<1> QED BY <1>1, <1>2, OverlaySame DEF Overlay

(* A buffer that is changed and logged is what a commit would make of it. *)
LEMMA LogWriteKeeps ==
  ASSUME LogTypeOK, LogTypeOK', Distinct(lh), buf = Overlay(lh), dirty = Range(lh),
         NEW p \in Callers, NEW b \in HomeBlocks, NEW v \in Vals, log_write(p, b, v)
  PROVE  Distinct(lh)' /\ buf' = Overlay(lh)' /\ dirty' = Range(lh)'
<1> USE DEF LogTypeOK
<1>0. /\ buf' = [buf EXCEPT ![b] = v] /\ home' = home /\ dirty' = dirty \cup {b}
      /\ logblk' = [logblk EXCEPT ![SlotOf(b)] = v]
      /\ Len(lh) < LOGSIZE
  BY LogSizeAssumption DEF log_write, LogIsFull
<1>1. /\ \A i \in DOMAIN lh : buf[lh[i]] = logblk[i]
      /\ \A c \in HomeBlocks : c \notin Range(lh) => buf[c] = home[c]
  BY OverlayFacts DEF Overlay
<1>2. buf' \in [HomeBlocks -> Vals] /\ lh \in Seq(HomeBlocks) /\ lh' \in Seq(HomeBlocks)
  OBVIOUS
<1>3. DOMAIN lh = 1..Len(lh) /\ DOMAIN lh \subseteq LogSlots /\ Len(lh) + 1 \in LogSlots
  BY <1>0, LogSizeAssumption DEF LogSlots
<1>4. CASE b \in Range(lh)
  <2>1. lh' = lh
    BY <1>4 DEF log_write
  <2>2. PICK k \in DOMAIN lh : lh[k] = b
    BY <1>4 DEF Range
  <2>3. Place(lh, b) \in DOMAIN lh /\ lh[Place(lh, b)] = b
    BY <2>2 DEF Place
  <2>4. SlotOf(b) = k
    BY <1>4, <2>2, <2>3 DEF SlotOf, Distinct
  <2>5. \A i \in DOMAIN lh : buf'[lh[i]] = logblk'[i]
    BY <1>0, <1>1, <1>3, <2>2, <2>4 DEF Distinct
  <2>6. \A c \in HomeBlocks : c \notin Range(lh) => buf'[c] = home[c]
    BY <1>0, <1>1, <1>4
  <2>61. Matches(buf', home, logblk', lh)
    BY <2>5, <2>6 DEF Matches
  <2>7. OverlayOf(home, logblk', lh) = buf'
    BY <1>2, <2>61, OverlaySame
  <2>8. Range(lh') = Range(lh)
    BY <2>1
  <2> QED BY <1>0, <1>4, <2>1, <2>7, <2>8 DEF Overlay, Distinct
<1>5. CASE b \notin Range(lh)
  <2>1. lh' = Append(lh, b) /\ SlotOf(b) = Len(lh) + 1
    BY <1>5 DEF log_write, SlotOf
  <2>2. /\ lh' \in Seq(HomeBlocks) /\ Len(lh') = Len(lh) + 1
        /\ \A i \in 1..Len(lh) : lh'[i] = lh[i]
        /\ lh'[Len(lh) + 1] = b
    BY <2>1
  <2>3. DOMAIN lh' = 1..(Len(lh) + 1)
    BY <2>2
  <2>4. \A i \in 1..Len(lh) : lh[i] # b
    BY <1>3, <1>5 DEF Range
  <2>5. Distinct(lh')
    <3> SUFFICES ASSUME NEW i \in 1..(Len(lh) + 1), NEW j \in 1..(Len(lh) + 1), lh'[i] = lh'[j]
                 PROVE  i = j
      BY <2>3 DEF Distinct
    <3>1. CASE i \in 1..Len(lh) /\ j \in 1..Len(lh)
      BY <1>3, <2>2, <3>1 DEF Distinct
    <3>2. CASE i \notin 1..Len(lh) \/ j \notin 1..Len(lh)
      <4>0. Len(lh) \in Nat
        BY <1>2
      <4>1. \A k \in 1..(Len(lh) + 1) : k \notin 1..Len(lh) => k = Len(lh) + 1
        BY <4>0
      <4> QED BY <2>2, <2>4, <3>2, <4>1
    <3> QED BY <3>1, <3>2
  <2>6. \A i \in 1..Len(lh) : buf'[lh'[i]] = logblk'[i]
    <3> SUFFICES ASSUME NEW i \in 1..Len(lh) PROVE buf'[lh'[i]] = logblk'[i]
      OBVIOUS
    <3>1. lh'[i] = lh[i] /\ lh[i] # b /\ i # Len(lh) + 1 /\ i \in LogSlots /\ i \in DOMAIN lh
      BY <1>3, <2>2, <2>4
    <3> QED BY <1>0, <1>1, <2>1, <3>1
  <2>7. buf'[b] = v /\ logblk'[Len(lh) + 1] = v
    BY <1>0, <1>3, <2>1
  <2>8. \A i \in DOMAIN lh' : buf'[lh'[i]] = logblk'[i]
    <3>1. \A i \in DOMAIN lh' : i \in 1..Len(lh) \/ i = Len(lh) + 1
      BY <2>3
    <3> QED BY <2>2, <2>6, <2>7, <3>1
  <2>9. Range(lh') = Range(lh) \cup {b}
    <3>1. \A i \in DOMAIN lh' : i \in 1..Len(lh) \/ i = Len(lh) + 1
      BY <2>3
    <3>2. ASSUME NEW c \in Range(lh') PROVE c \in Range(lh) \cup {b}
      BY <1>3, <2>2, <3>1, <3>2 DEF Range
    <3>3. ASSUME NEW c \in Range(lh) \cup {b} PROVE c \in Range(lh')
      <4>1. CASE c = b
        <5>1. Len(lh) + 1 \in DOMAIN lh'
          BY <2>3
        <5> QED BY <2>2, <4>1, <5>1 DEF Range
      <4>2. CASE c \in Range(lh)
        <5>1. PICK i \in 1..Len(lh) : c = lh[i]
          BY <1>3, <4>2 DEF Range
        <5>2. i \in DOMAIN lh' /\ lh'[i] = c
          BY <2>2, <2>3, <5>1
        <5> QED BY <5>2 DEF Range
      <4> QED BY <3>3, <4>1, <4>2
    <3> QED BY <3>2, <3>3
  <2>10. \A c \in HomeBlocks : c \notin Range(lh') => buf'[c] = home[c]
    BY <1>0, <1>1, <2>9
  <2>101. Matches(buf', home, logblk', lh')
    BY <2>8, <2>10 DEF Matches
  <2>11. OverlayOf(home, logblk', lh') = buf'
    BY <1>2, <2>5, <2>101, OverlaySame
  <2>12. Distinct(lh)' /\ Range(lh)' = Range(lh')
    BY <2>5 DEF Distinct, Range
  <2> QED BY <1>0, <2>9, <2>11, <2>12 DEF Overlay
<1> QED BY <1>4, <1>5

(* The buffers that install_trans has still to write. *)
LEMMA InstallDirty ==
  ASSUME LogTypeOK, Distinct(lh), InstallBlock,
         dirty = {lh[i] : i \in {j \in DOMAIN lh : j >= tail}}
  PROVE  dirty' = {lh[i] : i \in {j \in DOMAIN lh : j >= tail + 1}}
<1> USE DEF LogTypeOK
<1>1. tail \in DOMAIN lh /\ tail \in Int /\ DOMAIN lh \subseteq Int
  BY DEF InstallBlock
<1>2. dirty' = dirty \ {lh[tail]}
  BY DEF InstallBlock
<1>3. \A i \in DOMAIN lh : i >= tail /\ i # tail <=> i >= tail + 1
  BY <1>1
<1>4. \A i \in DOMAIN lh : lh[i] = lh[tail] => i = tail
  BY <1>1 DEF Distinct
<1>5. tail >= tail /\ ~(tail >= tail + 1)
  BY <1>1
<1> QED BY <1>1, <1>2, <1>3, <1>4, <1>5

(* What LogInv says of a process at a point of its transaction. *)
AtPoint(p) ==
  /\ pc[p] \in {"trans", "head"} => head = <<>> /\ dirty = Range(lh)
  /\ pc[p] = "install" =>
       head = lh /\ Installed /\ dirty = {lh[i] : i \in {j \in DOMAIN lh : j >= tail}}
  /\ pc[p] = "clear" => lh = <<>> /\ dirty = {} /\ Overlay(head) = home
  /\ pc[p] = "release" => head = <<>> /\ lh = <<>> /\ dirty = {}

(* A step of a system that is up by a process in a transaction, which stays
   in it: only what holds at its own point has to be shown. *)
LEMMA TransStep ==
  ASSUME LogTypeOK, LogTypeOK', TurnInv, TurnInv', phase' = "up",
         NEW p \in Callers, pc'[p] \in InTrans,
         Distinct(head)', Distinct(lh)', buf' = Overlay(lh)', AtPoint(p)'
  PROVE  LogInv'
<1>1. \A q \in Callers : q # p => pc'[q] \notin InTrans
  BY DEF TurnInv, NoLostTurn
<1>2. \A q \in Callers : q # p => pc'[q] \notin {"trans", "head", "install", "clear", "release"}
  BY <1>1 DEF InTrans
<1>3. \A q \in Callers : AtPoint(q)'
  BY <1>2 DEF AtPoint
<1> QED BY <1>3 DEF LogInv, AtPoint

(* The buffers that may be evicted hold what the disk holds. *)
LEMMA CleanFromInv == LogTypeOK /\ LogInv => CleanBuffers
<1> SUFFICES ASSUME LogTypeOK, LogInv, phase = "up", NEW b \in HomeBlocks, b \notin dirty
             PROVE  buf[b] = home[b]
  BY DEF CleanBuffers
<1>1. lh \in Seq(HomeBlocks) /\ Distinct(lh) /\ buf = OverlayOf(home, logblk, lh)
  BY DEF LogTypeOK, LogInv, Overlay
<1>2. b \notin Range(lh) => buf[b] = home[b]
  BY <1>1, OverlayFacts
<1>3. CASE lh = <<>>
  BY <1>2, <1>3 DEF Range
<1>4. CASE dirty = Range(lh)
  BY <1>2, <1>4
<1>5. CASE Installed /\ dirty = {lh[i] : i \in {j \in DOMAIN lh : j >= tail}}
  <2>1. CASE b \in Range(lh)
    <3>1. PICK i \in DOMAIN lh : b = lh[i]
      BY <2>1 DEF Range
    <3>2. ~(i >= tail)
      BY <1>5, <3>1
    <3>3. i < tail
      BY <1>1, <3>1, <3>2 DEF LogTypeOK
    <3>4. home[lh[i]] = logblk[i]
      BY <1>5, <3>1, <3>3 DEF Installed
    <3> QED BY <1>1, <3>1, <3>4, OverlayFacts
  <2> QED BY <1>2, <2>1
<1>6. lh = <<>> \/ dirty = Range(lh)
      \/ (Installed /\ dirty = {lh[i] : i \in {j \in DOMAIN lh : j >= tail}})
  BY DEF LogInv, InTrans
<1> QED BY <1>3, <1>4, <1>5, <1>6

LEMMA LogStep == LogTypeOK /\ LogTypeOK' /\ TurnInv /\ TurnInv' /\ LogInv /\ [LogNext]_logVars => LogInv'
<1> SUFFICES ASSUME LogTypeOK, LogTypeOK', TurnInv, TurnInv', LogInv, [LogNext]_logVars PROVE LogInv'
  OBVIOUS
<1>e. Distinct(<<>>) /\ Range(<<>>) = {}
  BY DEF Distinct, Range
<1>t. /\ home \in [HomeBlocks -> Vals] /\ buf \in [HomeBlocks -> Vals]
      /\ lh \in Seq(HomeBlocks) /\ head \in Seq(HomeBlocks) /\ logblk \in [LogSlots -> Vals]
      /\ pc \in [Callers -> Points] /\ tail \in Nat
  BY DEF LogTypeOK
<1>d. Distinct(lh) /\ Distinct(head)
  BY DEF LogInv
<1>o. /\ \A l : OverlayOf(home, l, <<>>) = home
      /\ \A l : OverlayOf(home', l, <<>>) = home'
  <2>1. home = [b \in HomeBlocks |-> home[b]] /\ home' = [b \in HomeBlocks |-> home'[b]]
    BY DEF LogTypeOK
  <2> QED BY <2>1, OverlayEmpty
<1>u. ASSUME NEW p \in Callers, pc[p] \in InTrans, phase = "up" PROVE AtPoint(p) /\ buf = Overlay(lh)
  BY <1>u DEF LogInv, AtPoint
<1>1. CASE UNCHANGED logVars
  BY <1>1 DEF logVars, logDisk, LogInv, Distinct, Installed, Overlay, OverlayOf, Range
<1>2. CASE Crash
  BY <1>2, <1>e DEF Crash, logDisk, LogInv, Distinct
<1>3. CASE ReadHead
  BY <1>3, <1>t DEF ReadHead, logDisk, LogInv, Distinct, Installed
<1>4. CASE RecoverInstall
  <2>1. /\ phase = "install" /\ UNCHANGED pc
        /\ buf = home /\ dirty = {} /\ ~busy /\ \A p \in Callers : pc[p] = "idle"
        /\ lh = head /\ Installed
    BY <1>4 DEF RecoverInstall, LogInv
  <2>2. CASE InstallBlock /\ UNCHANGED phase
    <3>1. Installed' /\ lh' = lh
      BY <1>d, <2>1, <2>2, InstallKeeps
    <3>2. buf' = home' /\ dirty' = {} /\ head' = head /\ busy' = busy
      BY <2>1, <2>2 DEF InstallBlock
    <3>3. Distinct(lh)' /\ Distinct(head)'
      BY <1>d, <3>1, <3>2 DEF Distinct
    <3> QED BY <2>1, <2>2, <3>1, <3>2, <3>3 DEF LogInv
  <2>3. CASE /\ tail > Len(lh) /\ lh' = <<>> /\ phase' = "clear"
             /\ UNCHANGED <<logDisk, buf, dirty, busy, tail>>
    <3>1. Overlay(lh) = home
      BY <1>d, <2>1, <2>3, InstallDone
    <3>2. Overlay(head)' = home' /\ Distinct(lh)' /\ Distinct(head)'
      BY <1>d, <1>e, <2>1, <2>3, <3>1 DEF Overlay, logDisk, Distinct
    <3> QED BY <2>1, <2>3, <3>2 DEF LogInv, logDisk
  <2> QED BY <1>4, <2>2, <2>3 DEF RecoverInstall
<1>5. CASE RecoverClear
  <2>1. /\ phase' = "up" /\ head' = <<>> /\ lh' = <<>> /\ buf' = home' /\ dirty' = {} /\ ~busy'
        /\ \A p \in Callers : pc'[p] = "idle"
    BY <1>5 DEF RecoverClear, LogInv
  <2>2. Overlay(lh)' = home' /\ Distinct(lh)' /\ Distinct(head)'
    BY <1>o, <1>e, <2>1 DEF Overlay, Distinct
  <2> QED BY <2>1, <2>2 DEF LogInv
<1>6. ASSUME NEW b \in HomeBlocks, Evict(b) PROVE LogInv'
  <2>1. buf[b] = home[b]
    BY <1>6, CleanFromInv DEF Evict, CleanBuffers
  <2>2. buf' = buf /\ UNCHANGED <<logDisk, lh, dirty, busy, phase, tail, pc>>
    BY <1>6, <1>t, <2>1 DEF Evict
  <2> QED BY <1>1, <2>2 DEF logVars
<1>7. ASSUME NEW p \in Callers, begin_trans(p) PROVE LogInv'
  <2>0. /\ phase = "up" /\ pc[p] \in {"idle", "retry"}
        /\ UNCHANGED <<home, logblk, head, lh, buf, dirty, phase, tail>>
    BY <1>7 DEF begin_trans, logDisk
  <2>1. CASE busy
    <3>1. pc' = [pc EXCEPT ![p] = "asleep"] /\ busy' = busy
      BY <1>7, <2>1 DEF begin_trans
    <3>2. PICK q \in Callers : pc[q] \in InTrans
      BY <2>0, <2>1 DEF LogInv
    <3>3. q # p /\ pc'[q] = pc[q]
      BY <1>t, <2>0, <3>1, <3>2 DEF InTrans
    <3>4. AtPoint(q)' /\ buf' = Overlay(lh)' /\ Distinct(lh)' /\ Distinct(head)'
      BY <1>d, <1>u, <2>0, <3>2, <3>3 DEF AtPoint, Overlay, OverlayOf, Installed, Range, Distinct
    <3> QED BY <2>0, <3>2, <3>3, <3>4, TransStep
  <2>2. CASE ~busy
    <3>1. pc' = [pc EXCEPT ![p] = "trans"]
      BY <1>7, <2>2 DEF begin_trans
    <3>2. \A q \in Callers : pc[q] \notin InTrans
      BY <2>2 DEF TurnInv, NoLostTurn
    <3>3. head = <<>> /\ lh = <<>> /\ dirty = {} /\ buf = Overlay(lh)
      BY <2>0, <3>2 DEF LogInv
    <3>4. pc'[p] = "trans" /\ pc'[p] \in InTrans
      BY <1>t, <3>1 DEF InTrans
    <3>5. AtPoint(p)' /\ buf' = Overlay(lh)' /\ Distinct(lh)' /\ Distinct(head)'
      BY <1>d, <1>e, <2>0, <3>3, <3>4 DEF AtPoint, Overlay, Distinct
    <3> QED BY <2>0, <3>4, <3>5, TransStep
  <2> QED BY <2>1, <2>2
<1>8. ASSUME NEW p \in Callers, commit_trans(p) PROVE LogInv'
  <2>1. /\ phase = "up" /\ pc[p] = "trans" /\ phase' = "up"
        /\ UNCHANGED <<home, logblk, head, lh, buf, dirty, tail>>
        /\ pc' = [pc EXCEPT ![p] = IF Len(lh) > 0 THEN "head" ELSE "release"]
    BY <1>8 DEF commit_trans, logDisk
  <2>2. head = <<>> /\ dirty = Range(lh) /\ buf = Overlay(lh)
    BY <1>u, <2>1 DEF AtPoint, InTrans
  <2>3. Len(lh) > 0 \/ lh = <<>>
    BY <1>t
  <2>4. (pc'[p] = "head" \/ (pc'[p] = "release" /\ lh = <<>>)) /\ pc'[p] \in InTrans
    BY <1>t, <2>1, <2>3 DEF InTrans
  <2>5. AtPoint(p)' /\ buf' = Overlay(lh)' /\ Distinct(lh)' /\ Distinct(head)'
    BY <1>d, <1>e, <2>1, <2>2, <2>4 DEF AtPoint, Overlay, Distinct
  <2> QED BY <2>1, <2>4, <2>5, TransStep
<1>9. ASSUME NEW p \in Callers, WriteHead(p) PROVE LogInv'
  <2>1. /\ phase = "up" /\ pc[p] = "head" /\ phase' = "up"
        /\ UNCHANGED <<home, logblk, lh, buf, dirty>>
        /\ head' = lh /\ tail' = 1 /\ pc'[p] = "install"
    BY <1>9, <1>t DEF WriteHead
  <2>2. dirty = Range(lh) /\ buf = Overlay(lh)
    BY <1>u, <2>1 DEF AtPoint, InTrans
  <2>3. \A i \in DOMAIN lh : i >= 1 /\ ~(i < 1)
    BY <1>t
  <2>4. {j \in DOMAIN lh : j >= 1} = DOMAIN lh
    BY <2>3
  <2>5. dirty' = {lh'[i] : i \in {j \in DOMAIN lh' : j >= tail'}} /\ Installed'
    BY <2>1, <2>2, <2>3, <2>4 DEF Range, Installed
  <2>6. AtPoint(p)' /\ buf' = Overlay(lh)' /\ Distinct(lh)' /\ Distinct(head)'
    BY <1>d, <2>1, <2>2, <2>5 DEF AtPoint, Overlay, Distinct
  <2> QED BY <2>1, <2>6, TransStep DEF InTrans
<1>10. ASSUME NEW p \in Callers, CommitInstall(p) PROVE LogInv'
  <2>1. phase = "up" /\ pc[p] = "install" /\ phase' = "up"
    BY <1>10 DEF CommitInstall
  <2>2. /\ head = lh /\ Installed /\ buf = Overlay(lh)
        /\ dirty = {lh[i] : i \in {j \in DOMAIN lh : j >= tail}}
    BY <1>u, <2>1 DEF AtPoint, InTrans
  <2>3. CASE InstallBlock /\ UNCHANGED pc
    <3>1. Overlay(lh)' = Overlay(lh) /\ Installed' /\ lh' = lh
      BY <1>d, <2>2, <2>3, InstallKeeps
    <3>2. dirty' = {lh[i] : i \in {j \in DOMAIN lh : j >= tail + 1}}
      BY <1>d, <2>2, <2>3, InstallDirty
    <3>3. head' = head /\ tail' = tail + 1 /\ buf' = [buf EXCEPT ![lh[tail]] = logblk[tail]]
      BY <2>3 DEF InstallBlock
    <3>4. tail \in DOMAIN lh
      BY <1>t, <2>3 DEF InstallBlock, LogTypeOK
    <3>5. buf[lh[tail]] = logblk[tail]
      BY <1>d, <1>t, <2>2, <3>4, OverlayFacts DEF Overlay
    <3>6. buf' = buf
      BY <1>t, <3>3, <3>5
    <3>7. AtPoint(p)' /\ Distinct(lh)' /\ Distinct(head)'
      BY <1>d, <2>1, <2>2, <2>3, <3>1, <3>2, <3>3 DEF AtPoint, Distinct
    <3>8. buf' = Overlay(lh)' /\ pc'[p] \in InTrans
      BY <2>1, <2>2, <2>3, <3>1, <3>6 DEF InTrans
    <3> QED BY <2>1, <3>7, <3>8, TransStep
  <2>4. CASE /\ tail > Len(lh) /\ lh' = <<>> /\ pc' = [pc EXCEPT ![p] = "clear"]
             /\ UNCHANGED <<logDisk, buf, dirty, busy, tail>>
    <3>1. Overlay(lh) = home
      BY <1>d, <2>2, <2>4, InstallDone
    <3>2. \A j \in DOMAIN lh : ~(j >= tail)
      BY <1>t, <2>4
    <3>3. dirty = {}
      BY <2>2, <3>2
    <3>4. pc'[p] = "clear" /\ UNCHANGED <<home, logblk, head>>
      BY <1>t, <2>4 DEF logDisk
    <3>5. Overlay(head)' = home' /\ Distinct(lh)' /\ Distinct(head)'
      BY <1>d, <1>e, <2>2, <2>4, <3>1, <3>4 DEF Overlay, Distinct
    <3>6. AtPoint(p)'
      BY <2>4, <3>3, <3>4, <3>5 DEF AtPoint
    <3>7. buf' = Overlay(lh)'
      BY <1>o, <2>2, <2>4, <3>1, <3>4 DEF Overlay
    <3> QED BY <2>1, <3>4, <3>5, <3>6, <3>7, TransStep DEF InTrans
  <2> QED BY <1>10, <2>3, <2>4 DEF CommitInstall
<1>11. ASSUME NEW p \in Callers, ClearHead(p) PROVE LogInv'
  <2>1. /\ phase = "up" /\ pc[p] = "clear" /\ phase' = "up" /\ pc'[p] = "release"
        /\ UNCHANGED <<home, logblk, lh, buf, dirty>> /\ head' = lh
    BY <1>11, <1>t DEF ClearHead
  <2>2. lh = <<>> /\ dirty = {} /\ buf = Overlay(lh)
    BY <1>u, <2>1 DEF AtPoint, InTrans
  <2>3. AtPoint(p)' /\ buf' = Overlay(lh)' /\ Distinct(lh)' /\ Distinct(head)'
    BY <1>e, <2>1, <2>2 DEF AtPoint, Overlay, Distinct
  <2> QED BY <2>1, <2>3, TransStep DEF InTrans
<1>12. ASSUME NEW p \in Callers, Release(p) PROVE LogInv'
  <2>1. /\ phase = "up" /\ pc[p] = "release" /\ phase' = "up" /\ ~busy'
        /\ UNCHANGED <<home, logblk, head, lh, buf, dirty>>
    BY <1>12 DEF Release, logDisk
  <2>2. head = <<>> /\ lh = <<>> /\ dirty = {} /\ buf = Overlay(lh)
    BY <1>u, <2>1 DEF AtPoint, InTrans
  <2>3. \A q \in Callers : pc'[q] \notin {"trans", "head", "install", "clear", "release"}
    BY <2>1 DEF TurnInv, NoLostTurn, InTrans
  <2>4. buf' = Overlay(lh)' /\ Distinct(lh)' /\ Distinct(head)'
    BY <1>d, <2>1, <2>2 DEF Overlay, Distinct
  <2> QED BY <2>1, <2>2, <2>3, <2>4 DEF LogInv
<1>13. ASSUME NEW p \in Callers, TooBig(p) PROVE LogInv'
  BY <1>13 DEF TooBig, logDisk, LogInv, Distinct
<1>14. ASSUME NEW p \in Callers, NEW b \in HomeBlocks, NEW v \in Vals, log_write(p, b, v)
       PROVE  LogInv'
  <2>1. phase = "up" /\ pc[p] = "trans" /\ UNCHANGED <<head, phase, pc>>
    BY <1>14 DEF log_write
  <2>2. head = <<>> /\ dirty = Range(lh) /\ buf = Overlay(lh)
    BY <1>u, <2>1 DEF AtPoint, InTrans
  <2>3. Distinct(lh)' /\ buf' = Overlay(lh)' /\ dirty' = Range(lh)'
    BY <1>14, <1>d, <2>2, LogWriteKeeps
  <2>4. AtPoint(p)' /\ Distinct(head)'
    BY <1>d, <2>1, <2>2, <2>3 DEF AtPoint, Distinct
  <2> QED BY <2>1, <2>3, <2>4, TransStep DEF InTrans
<1> QED
  BY <1>1, <1>2, <1>3, <1>4, <1>5, <1>6, <1>7, <1>8, <1>9, <1>10, <1>11, <1>12, <1>13, <1>14
  DEF LogNext, CommitStep, Recover

LEMMA LogCorrect == LogSpec => []LogInv
<1>1. LogInit => LogInv
  BY DEF LogInit, LogInv, Distinct
<1> QED BY <1>1, LogStep, LogTypeCorrect, TurnCorrect, PTL DEF LogSpec

(* A buffer that may be evicted never holds anything the disk does not. *)
THEOREM CleanBuffersCorrect == LogSpec => []CleanBuffers
BY CleanFromInv, LogTypeCorrect, LogCorrect, PTL

(* Between transactions nothing of an earlier one is left in the log. *)
THEOREM QuiescentCorrect == LogSpec => []Quiescent
<1>1. LogTypeOK /\ TurnInv /\ LogInv => Quiescent
  <2> SUFFICES ASSUME LogTypeOK, TurnInv, LogInv, phase = "up", ~busy
               PROVE  head = <<>> /\ lh = <<>> /\ buf = home
    BY DEF Quiescent
  <2>1. \A q \in Callers : pc[q] \notin InTrans
    BY DEF TurnInv, NoLostTurn
  <2>2. head = <<>> /\ lh = <<>> /\ buf = Overlay(lh)
    BY <2>1 DEF LogInv
  <2>3. home = [b \in HomeBlocks |-> home[b]]
    BY DEF LogTypeOK
  <2> QED BY <2>2, <2>3, OverlayEmpty DEF Overlay
<1> QED BY <1>1, LogTypeCorrect, TurnCorrect, LogCorrect, PTL

-----------------------------------------------------------------------------
(* The refinement mapping, by name. *)
Durable == Overlay(head)
View == IF phase \in {"up", "panic"} THEN buf ELSE Overlay(head)
Inside == {p \in Callers : pc[p] \in InTrans}
Settled == {p \in Callers : pc[p] \in Committed}

(* Every step of the log is a step of the atomic disk or changes nothing of
   it. *)
LEMMA AtomicStep ==
  LogTypeOK /\ LogTypeOK' /\ TurnInv /\ TurnInv' /\ LogInv /\ LogInv' /\ [LogNext]_logVars => [Atomic!Next]_(Atomic!vars)
<1> SUFFICES ASSUME LogTypeOK, LogTypeOK', TurnInv, TurnInv', LogInv, LogInv', [LogNext]_logVars
             PROVE  [Atomic!Next]_(Atomic!vars)
  OBVIOUS
<1>s. (Durable' = Durable /\ View' = View /\ Inside' = Inside /\ Settled' = Settled) => [Atomic!Next]_(Atomic!vars)
  BY DEF Durable, View, Inside, Settled, Atomic!vars
<1>t. /\ home \in [HomeBlocks -> Vals] /\ buf \in [HomeBlocks -> Vals]
      /\ lh \in Seq(HomeBlocks) /\ head \in Seq(HomeBlocks) /\ logblk \in [LogSlots -> Vals]
      /\ pc \in [Callers -> Points] /\ tail \in Nat
  BY DEF LogTypeOK
<1>d. Distinct(lh) /\ Distinct(head)
  BY DEF LogInv
<1>o. /\ \A l : OverlayOf(home, l, <<>>) = home
      /\ \A l : OverlayOf(home', l, <<>>) = home'
  <2>1. home = [b \in HomeBlocks |-> home[b]] /\ home' = [b \in HomeBlocks |-> home'[b]]
    BY DEF LogTypeOK
  <2> QED BY <2>1, OverlayEmpty
<1>u. ASSUME NEW p \in Callers, pc[p] \in InTrans, phase = "up"
      PROVE  /\ AtPoint(p) /\ buf = Overlay(lh) /\ Inside = {p}
             /\ Settled = IF pc[p] \in Committed THEN {p} ELSE {}
  <2>1. \A q \in Callers : pc[q] \in InTrans => q = p
    BY <1>u DEF TurnInv, NoLostTurn
  <2>2. Settled = IF pc[p] \in Committed THEN {p} ELSE {}
    BY <2>1 DEF Settled, Committed, InTrans, Committed
  <2> QED BY <1>u, <2>1, <2>2 DEF LogInv, AtPoint, Inside, Settled
<1>1. CASE UNCHANGED logVars
  <2>1. Durable' = Durable /\ View' = View /\ Inside' = Inside /\ Settled' = Settled
    BY <1>1 DEF logVars, logDisk, Durable, View, Inside, Settled, Overlay
  <2> QED BY <1>s, <2>1
<1>2. CASE Crash
  <2>1. Durable' = Durable /\ View' = Durable /\ Inside' = {} /\ Settled' = {}
    BY <1>2 DEF Crash, logDisk, Durable, View, Inside, Settled, Overlay, InTrans, Committed
  <2>2. Atomic!Crash
    BY <2>1 DEF Atomic!Crash, Durable, View, Inside, Settled
  <2> QED BY <2>2 DEF Atomic!Next
<1>3. CASE ReadHead
  <2>1. Durable' = Durable /\ View' = View /\ Inside' = Inside /\ Settled' = Settled
    BY <1>3 DEF ReadHead, logDisk, Durable, View, Inside, Settled, Overlay
  <2> QED BY <1>s, <2>1
<1>4. CASE RecoverInstall
  <2>1. phase = "install" /\ UNCHANGED pc /\ lh = head /\ Installed
    BY <1>4 DEF RecoverInstall, LogInv
  <2>2. CASE InstallBlock /\ UNCHANGED phase
    <3>1. Overlay(lh)' = Overlay(lh) /\ lh' = lh
      BY <1>d, <2>1, <2>2, InstallKeeps
    <3>2. head' = head
      BY <2>2 DEF InstallBlock
    <3>3. Durable' = Durable /\ View' = View /\ Inside' = Inside /\ Settled' = Settled
      BY <2>1, <2>2, <3>1, <3>2 DEF Durable, View, Inside, Settled, Overlay
    <3> QED BY <1>s, <3>3
  <2>3. CASE phase' = "clear" /\ UNCHANGED <<logDisk, buf, dirty, busy, tail>>
    <3>1. Durable' = Durable /\ View' = View /\ Inside' = Inside /\ Settled' = Settled
      BY <2>1, <2>3 DEF Durable, View, Inside, Settled, Overlay, logDisk
    <3> QED BY <1>s, <3>1
  <2> QED BY <1>4, <2>2, <2>3 DEF RecoverInstall
<1>5. CASE RecoverClear
  <2>1. /\ phase = "clear" /\ phase' = "up" /\ lh = <<>> /\ Overlay(head) = home /\ buf = home
        /\ head' = <<>> /\ UNCHANGED <<home, logblk, buf, pc>>
    BY <1>5 DEF RecoverClear, LogInv
  <2>2. Durable' = Durable /\ View' = View /\ Inside' = Inside /\ Settled' = Settled
    BY <1>o, <2>1 DEF Durable, View, Inside, Settled, Overlay
  <2> QED BY <1>s, <2>2
<1>6. ASSUME NEW b \in HomeBlocks, Evict(b) PROVE [Atomic!Next]_(Atomic!vars)
  <2>1. buf[b] = home[b]
    BY <1>6, CleanFromInv DEF Evict, CleanBuffers
  <2>2. buf' = buf /\ UNCHANGED <<logDisk, phase, pc>>
    BY <1>6, <1>t, <2>1 DEF Evict
  <2>3. Durable' = Durable /\ View' = View /\ Inside' = Inside /\ Settled' = Settled
    BY <2>2 DEF Durable, View, Inside, Settled, Overlay, logDisk
  <2> QED BY <1>s, <2>3
<1>7. ASSUME NEW p \in Callers, begin_trans(p) PROVE [Atomic!Next]_(Atomic!vars)
  <2>1. /\ phase = "up" /\ pc[p] \in {"idle", "retry"}
        /\ UNCHANGED <<home, logblk, head, buf, phase>>
    BY <1>7 DEF begin_trans, logDisk
  <2>2. Durable' = Durable /\ View' = View
    BY <2>1 DEF Durable, View, Overlay
  <2>3. CASE busy
    <3>1. pc' = [pc EXCEPT ![p] = "asleep"]
      BY <1>7, <2>3 DEF begin_trans
    <3>2. Inside' = Inside /\ Settled' = Settled
      BY <1>t, <2>1, <3>1 DEF Inside, Settled, InTrans, Committed
    <3> QED BY <1>s, <2>2, <3>2
  <2>4. CASE ~busy
    <3>1. pc' = [pc EXCEPT ![p] = "trans"]
      BY <1>7, <2>4 DEF begin_trans
    <3>2. Inside = {} /\ Settled = {}
      BY <2>4 DEF TurnInv, NoLostTurn, Inside, Settled, InTrans, Committed
    <3>3. Inside' = {p} /\ Settled' = Settled
      BY <1>t, <3>1, <3>2 DEF Inside, Settled, InTrans, Committed
    <3>4. Atomic!Begin(p)
      BY <2>2, <3>2, <3>3 DEF Atomic!Begin, Durable, View, Inside, Settled
    <3> QED BY <3>4 DEF Atomic!Next
  <2> QED BY <2>3, <2>4
<1>8. ASSUME NEW p \in Callers, commit_trans(p) PROVE [Atomic!Next]_(Atomic!vars)
  <2>1. /\ phase = "up" /\ pc[p] = "trans" /\ UNCHANGED <<home, logblk, head, buf, phase>>
        /\ pc' = [pc EXCEPT ![p] = IF Len(lh) > 0 THEN "head" ELSE "release"]
    BY <1>8 DEF commit_trans, logDisk
  <2>2. Durable' = Durable /\ View' = View /\ Inside' = Inside
    BY <1>t, <2>1 DEF Durable, View, Inside, Overlay, InTrans
  <2>3. CASE Len(lh) > 0
    <3>1. Settled' = Settled
      BY <1>t, <2>1, <2>3 DEF Settled, Committed
    <3> QED BY <1>s, <2>2, <3>1
  <2>4. CASE ~(Len(lh) > 0)
    <3>1. lh = <<>> /\ head = <<>> /\ buf = Overlay(lh) /\ Inside = {p} /\ Settled = {}
      BY <1>t, <1>u, <2>1, <2>4 DEF AtPoint, InTrans, Committed
    <3>2. Durable' = View
      BY <2>1, <2>2, <3>1 DEF Durable, View, Overlay
    <3>3. Settled' = {p}
      BY <1>t, <2>1, <2>4, <3>1 DEF Settled, Committed
    <3>4. Atomic!Commit(p)
      BY <2>2, <3>1, <3>2, <3>3 DEF Atomic!Commit, Durable, View, Inside, Settled
    <3> QED BY <3>4 DEF Atomic!Next
  <2> QED BY <2>3, <2>4
<1>9. ASSUME NEW p \in Callers, WriteHead(p) PROVE [Atomic!Next]_(Atomic!vars)
  <2>1. /\ phase = "up" /\ pc[p] = "head" /\ UNCHANGED <<home, logblk, buf, phase>>
        /\ head' = lh /\ pc' = [pc EXCEPT ![p] = "install"]
    BY <1>9 DEF WriteHead
  <2>2. buf = Overlay(lh) /\ Inside = {p} /\ Settled = {}
    BY <1>u, <2>1 DEF InTrans, Committed
  <2>3. Durable' = View /\ View' = View /\ Inside' = Inside /\ Settled' = {p}
    BY <1>t, <2>1, <2>2 DEF Durable, View, Inside, Settled, Overlay, InTrans, Committed
  <2>4. Atomic!Commit(p)
    BY <2>2, <2>3 DEF Atomic!Commit, Durable, View, Inside, Settled
  <2> QED BY <2>4 DEF Atomic!Next
<1>10. ASSUME NEW p \in Callers, CommitInstall(p) PROVE [Atomic!Next]_(Atomic!vars)
  <2>1. phase = "up" /\ pc[p] = "install" /\ UNCHANGED phase
    BY <1>10 DEF CommitInstall
  <2>2. head = lh /\ Installed /\ buf = Overlay(lh)
    BY <1>u, <2>1 DEF AtPoint, InTrans, Committed
  <2>3. CASE InstallBlock /\ UNCHANGED pc
    <3>1. Overlay(lh)' = Overlay(lh) /\ lh' = lh
      BY <1>d, <2>2, <2>3, InstallKeeps
    <3>2. head' = head /\ buf' = [buf EXCEPT ![lh[tail]] = logblk[tail]]
      BY <2>3 DEF InstallBlock
    <3>3. tail \in DOMAIN lh
      BY <1>t, <2>3 DEF InstallBlock, LogTypeOK
    <3>4. buf[lh[tail]] = logblk[tail]
      BY <1>d, <1>t, <2>2, <3>3, OverlayFacts DEF Overlay
    <3>5. buf' = buf
      BY <1>t, <3>2, <3>4
    <3>6. Durable' = Durable /\ View' = View /\ Inside' = Inside /\ Settled' = Settled
      BY <2>1, <2>2, <2>3, <3>1, <3>2, <3>5 DEF Durable, View, Inside, Settled, Overlay
    <3> QED BY <1>s, <3>6
  <2>4. CASE /\ pc' = [pc EXCEPT ![p] = "clear"]
             /\ UNCHANGED <<logDisk, buf, dirty, busy, tail>>
    <3>1. Durable' = Durable /\ View' = View /\ Inside' = Inside /\ Settled' = Settled
      BY <1>t, <2>1, <2>4 DEF Durable, View, Inside, Settled, Overlay, InTrans, Committed, logDisk
    <3> QED BY <1>s, <3>1
  <2> QED BY <1>10, <2>3, <2>4 DEF CommitInstall
<1>11. ASSUME NEW p \in Callers, ClearHead(p) PROVE [Atomic!Next]_(Atomic!vars)
  <2>1. /\ phase = "up" /\ pc[p] = "clear" /\ UNCHANGED <<home, logblk, buf, phase>>
        /\ head' = lh /\ pc' = [pc EXCEPT ![p] = "release"]
    BY <1>11 DEF ClearHead
  <2>2. lh = <<>> /\ Overlay(head) = home
    BY <1>u, <2>1 DEF AtPoint, InTrans, Committed
  <2>3. Durable' = Durable /\ View' = View
    BY <1>o, <2>1, <2>2 DEF Durable, View, Overlay
  <2>4. Inside' = Inside /\ Settled' = Settled
    BY <1>t, <2>1 DEF Inside, Settled, InTrans, Committed
  <2> QED BY <1>s, <2>3, <2>4
<1>12. ASSUME NEW p \in Callers, Release(p) PROVE [Atomic!Next]_(Atomic!vars)
  <2>1. phase = "up" /\ pc[p] = "release" /\ ~busy' /\ UNCHANGED <<home, logblk, head, buf, phase>>
    BY <1>12 DEF Release, logDisk
  <2>2. head = <<>> /\ lh = <<>> /\ buf = Overlay(lh) /\ Inside = {p} /\ Settled = {p}
    BY <1>u, <2>1 DEF AtPoint, InTrans, Committed
  <2>3. Inside' = {} /\ Settled' = {}
    BY <2>1 DEF Inside, Settled, InTrans, Committed, TurnInv, NoLostTurn
  <2>4. Durable' = Durable /\ View' = View
    BY <2>1, <2>2 DEF Durable, View, Overlay
  <2>5. Atomic!End(p)
    BY <2>2, <2>3, <2>4 DEF Atomic!End, Durable, View, Inside, Settled
  <2> QED BY <2>5 DEF Atomic!Next
<1>13. ASSUME NEW p \in Callers, TooBig(p) PROVE [Atomic!Next]_(Atomic!vars)
  <2>1. Durable' = Durable /\ View' = View /\ Inside' = Inside /\ Settled' = Settled
    BY <1>13 DEF TooBig, logDisk, Durable, View, Inside, Settled, Overlay
  <2> QED BY <1>s, <2>1
<1>14. ASSUME NEW p \in Callers, NEW b \in HomeBlocks, NEW v \in Vals, log_write(p, b, v)
       PROVE  [Atomic!Next]_(Atomic!vars)
  <2>1. /\ phase = "up" /\ pc[p] = "trans" /\ UNCHANGED <<home, head, phase, pc>>
        /\ buf' = [buf EXCEPT ![b] = v]
    BY <1>14 DEF log_write
  <2>2. head = <<>> /\ Inside = {p} /\ Settled = {}
    BY <1>u, <2>1 DEF AtPoint, InTrans, Committed
  <2>3. Durable' = Durable /\ View' = [View EXCEPT ![b] = v] /\ Inside' = Inside /\ Settled' = Settled
    BY <1>o, <2>1, <2>2 DEF Durable, View, Inside, Settled, Overlay
  <2>4. Atomic!Write(p, b, v)
    BY <2>2, <2>3 DEF Atomic!Write, Durable, View, Inside, Settled
  <2> QED BY <2>4 DEF Atomic!Next
<1> QED
  BY <1>1, <1>2, <1>3, <1>4, <1>5, <1>6, <1>7, <1>8, <1>9, <1>10, <1>11, <1>12, <1>13, <1>14
  DEF LogNext, CommitStep, Recover

(* Transactions are atomic: whatever the processes do, and whenever the
   machine crashes, also during commit and recovery, the log behaves like the
   atomic disk. *)
THEOREM AtomicRefinement == LogSpec => ImplementsAtomicDisk
<1>1. LogInit => Atomic!Init
  <2> SUFFICES ASSUME LogInit PROVE Atomic!Init
    OBVIOUS
  <2>1. home = [b \in HomeBlocks |-> home[b]] /\ home \in [HomeBlocks -> Vals]
    BY DEF LogInit
  <2>2. Durable = home /\ View = Durable /\ Inside = {} /\ Settled = {}
    BY <2>1, OverlayEmpty DEF LogInit, Durable, View, Inside, Settled, Overlay, InTrans, Committed
  <2> QED BY <2>1, <2>2 DEF Atomic!Init, Durable, View, Inside, Settled
<1> QED
  BY <1>1, AtomicStep, LogTypeCorrect, TurnCorrect, LogCorrect, PTL DEF LogSpec, ImplementsAtomicDisk, Atomic!Spec
=============================================================================

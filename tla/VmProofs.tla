------------------------------ MODULE VmProofs ------------------------------
(***************************************************************************)
(* Proofs about Vm: the types, that a page has one use, that none is lost  *)
(* and that images are whole, for any number of processes and pages and    *)
(* any sizes.                                                              *)
(***************************************************************************)
EXTENDS Vm, TLAPS

\* A call in progress: the loop variable, the end it goes to, the child, and
\* the program header of the segment that is loaded.
Pcs == {"idle", "kstack", "dir", "kpt", "page", "map"}
Job == [pc : Pcs, call : {"none", "fork", "exec", "sbrk", "load", "stack"},
        a : Nat, end : Nat, child : Procs \cup {None}, ph : Segments]
JobOK == job \in [Procs -> Job]

PagesOK == free \subseteq Pages /\ ptr \in [Procs -> [Roles -> Pages \cup {None}]]

\* What every step preserves.
IInv == TypeOK /\ JobOK /\ OneUse

\* PGROUNDUP gives a number of pages.
LEMMA PgRound ==
  ASSUME NEW n \in Nat
  PROVE  PGROUNDUP(n) \in Nat
<1>1. PGSIZE \in Nat /\ PGSIZE > 0
  BY VmAssumption
<1>2. n + PGSIZE - 1 \in Nat
  BY <1>1
<1>. DEFINE k == n + PGSIZE - 1
<1>3. k \in Nat BY <1>2
<1>. HIDE DEF k
<1>4. k \div PGSIZE \in Nat
  BY <1>1, <1>3
<1>. QED BY <1>4 DEF PGROUNDUP, k

\* Program headers are made of unsigned ints.
LEMMA HeaderFacts ==
  /\ UINT \in Nat /\ UINT > 0 /\ NoHeader \in Segments /\ Headers \subseteq Segments
  /\ \A ph \in Segments : ph.vaddr \in Nat /\ ph.memsz \in Nat /\ ph.filesz \in Nat
BY VmAssumption DEF NoHeader, Segments, Uints

\* The roles that a failed call or a shrinking process gives up are roles of
\* one image.
LEMMA GivenUp ==
  ASSUME NEW p, NEW i \in {"cur", "new"}, NEW old, NEW new
  PROVE  /\ Dealloc(p, i, old, new) \subseteq Roles
         /\ Freevm(p, i) \subseteq Roles
         /\ \A r \in Freevm(p, i) : r[1] = i
<1>1. \A v \in VPages : Pg(i, v) \in Image(i)
  <2>. SUFFICES ASSUME NEW v \in VPages PROVE Pg(i, v) \in Image(i)
    OBVIOUS
  <2>1. <<"page", v>> \in Parts
    BY DEF Parts
  <2>2. At(i, <<"page", v>>) = Pg(i, v)
    BY DEF At, Pg
  <2>. QED BY <2>1, <2>2 DEF Image
<1>2. Image(i) \subseteq Roles
  BY DEF Roles
<1>3. \A r \in Image(i) : r[1] = i
  BY DEF Image, At
<1>4. Dealloc(p, i, old, new) \subseteq Image(i) /\ Dealloc(p, i, KERNBASE, 0) \subseteq Image(i)
  BY <1>1 DEF Dealloc
<1>5. Freevm(p, i) \subseteq Image(i)
  BY <1>4 DEF Freevm
<1>. QED BY <1>2, <1>3, <1>4, <1>5

\* kalloc gives out a page that nobody has.
LEMMA KallocOneUse ==
  ASSUME PagesOK, OneUse, NEW q, NEW r, Kalloc(q, r)
  PROVE  PagesOK' /\ OneUse'
<1>1. Freelist \in free
  BY DEF Kalloc, Freelist
<1>2. Freelist \in Pages /\ Freelist # None
  BY <1>1, VmAssumption DEF PagesOK
<1>3. ptr' \in [Procs -> [Roles -> Pages \cup {None}]]
  BY <1>2 DEF Kalloc, PagesOK
<1>4. \A p \in Procs, s \in Roles :
        ptr'[p][s] = IF p = q /\ s = r THEN Freelist ELSE ptr[p][s]
  BY DEF Kalloc, PagesOK
<1>5. free' = free \ {Freelist}
  BY DEF Kalloc
<1>6. \A p \in Procs, s \in Roles : ptr[p][s] # Freelist
  BY <1>1, <1>2 DEF OneUse
<1>7. OneUse'
  BY <1>4, <1>5, <1>6 DEF OneUse
<1>. QED BY <1>3, <1>5, <1>7 DEF PagesOK

\* Pointers that are dropped, and pages freed that nobody points to any more.
LEMMA DropOneUse ==
  ASSUME PagesOK, OneUse, NEW F \in SUBSET Pages,
         ptr' \in [Procs -> [Roles -> Pages \cup {None}]],
         \A p \in Procs, r \in Roles : ptr'[p][r] = None \/ ptr'[p][r] = ptr[p][r],
         free' = free \cup F,
         \A p \in Procs, r \in Roles : ptr'[p][r] \notin F
  PROVE  PagesOK' /\ OneUse'
BY DEF PagesOK, OneUse

LEMMA KfreeOneUse ==
  ASSUME PagesOK, OneUse, NEW q \in Procs, NEW S \in SUBSET Roles, Kfree(q, S)
  PROVE  PagesOK' /\ OneUse'
<1>. DEFINE F == {ptr[q][r] : r \in S} \ {None}
<1>1. F \in SUBSET Pages
  BY DEF PagesOK
<1>2. ptr' \in [Procs -> [Roles -> Pages \cup {None}]]
  BY DEF PagesOK, Kfree
<1>3. \A p \in Procs, r \in Roles :
        ptr'[p][r] = IF p = q /\ r \in S THEN None ELSE ptr[p][r]
  BY DEF PagesOK, Kfree
<1>4. free' = free \cup F
  BY DEF Kfree
<1>5. \A p \in Procs, r \in Roles : ptr'[p][r] \notin F
  BY <1>3, VmAssumption DEF OneUse
<1>. HIDE DEF F
<1>6. \A p \in Procs, r \in Roles : ptr'[p][r] = None \/ ptr'[p][r] = ptr[p][r]
  BY <1>3
<1>. QED BY <1>1, <1>2, <1>6, <1>4, <1>5, DropOneUse

LEMMA AbortOneUse ==
  ASSUME PagesOK, OneUse, JobOK, NEW p \in Procs,
         NEW gone \in SUBSET Roles, NEW lost, Abort(p, gone, lost)
  PROVE  PagesOK' /\ OneUse'
<1>. DEFINE q == job[p].child
            K == IF q = None THEN {} ELSE {ptr[q][Kstack]} \ {None}
            F == ({ptr[p][r] : r \in gone} \ {None}) \cup K
<1>1. q \in Procs \cup {None}
  BY DEF JobOK, Job
<1>2. Kstack \in Roles
  BY DEF Roles
<1>3. F \in SUBSET Pages
  BY <1>1, <1>2 DEF PagesOK
<1>4. \A s \in Procs, r \in Roles :
        ptr'[s][r] = IF (s = p /\ r \in gone \cup lost) \/ (s = q /\ r = Kstack) THEN None
                     ELSE ptr[s][r]
  BY DEF Abort
<1>5. ptr' \in [Procs -> [Roles -> Pages \cup {None}]]
  BY DEF PagesOK, Abort
<1>6. free' = free \cup F
  BY DEF Abort
<1>7. \A s \in Procs, r \in Roles : ptr'[s][r] \notin F
  BY <1>1, <1>2, <1>4 DEF OneUse
<1>. HIDE DEF F
<1>8. \A s \in Procs, r \in Roles : ptr'[s][r] = None \/ ptr'[s][r] = ptr[s][r]
  BY <1>4
<1>. QED BY <1>3, <1>5, <1>6, <1>7, <1>8, DropOneUse

\* A new image takes the place of the old one; what is freed was the old one's.
LEMMA HandedOneUse ==
  ASSUME PagesOK, OneUse, NEW p \in Procs, NEW q, ptr' = Handed(p, q),
         NEW R \in SUBSET Roles, \A r \in R : r[1] = "cur",
         q # p => R = {},
         free' = free \cup ({ptr[p][r] : r \in R} \ {None})
  PROVE  PagesOK' /\ OneUse'
<1>1. \A r \in Roles : r[1] = "cur" => <<"new", r[2], r[3]>> \in Roles
  <2>. SUFFICES ASSUME NEW r \in Roles, r[1] = "cur" PROVE <<"new", r[2], r[3]>> \in Roles
    OBVIOUS
  <2>1. r \in Image("cur")
    BY DEF Roles, Image, At, Kstack, Mem
  <2>2. PICK x \in Parts : r = At("cur", x)
    BY <2>1 DEF Image
  <2>3. At("new", x) = <<"new", r[2], r[3]>>
    BY <2>2 DEF At
  <2>. QED BY <2>3 DEF Roles, Image
<1>2. \A s \in Procs, r \in Roles :
        ptr'[s][r] = IF s = q /\ r[1] = "cur" THEN ptr[p][<<"new", r[2], r[3]>>]
                     ELSE IF s = p /\ r[1] = "new" THEN None ELSE ptr[s][r]
  BY DEF Handed
<1>3. ptr' \in [Procs -> [Roles -> Pages \cup {None}]]
  BY <1>1 DEF PagesOK, Handed
<1>4. \A r, s \in Roles : r[1] = "cur" /\ s[1] = "cur" /\ r[2] = s[2] /\ r[3] = s[3] => r = s
  <2>. SUFFICES ASSUME NEW r \in Roles, NEW s \in Roles,
                       r[1] = "cur", s[1] = "cur", r[2] = s[2], r[3] = s[3]
                PROVE  r = s
    OBVIOUS
  <2>1. PICK x \in Parts : r = At("cur", x)
    BY DEF Roles, Image, At, Kstack, Mem
  <2>2. PICK y \in Parts : s = At("cur", y)
    BY DEF Roles, Image, At, Kstack, Mem
  <2>. QED BY <2>1, <2>2 DEF At
<1>5. free' \subseteq Pages
  BY DEF PagesOK
<1>7. \A x, y \in Procs, v, w \in Roles : ptr[x][v] # None /\ ptr[y][w] = ptr[x][v] => y = x /\ w = v
  BY DEF OneUse
<1>6. OneUse'
  <2>. SUFFICES ASSUME NEW s \in Procs, NEW r \in Roles, ptr'[s][r] # None
                PROVE  /\ ptr'[s][r] \notin free'
                       /\ \A t \in Procs, u \in Roles : ptr'[t][u] = ptr'[s][r] => t = s /\ u = r
    BY DEF OneUse
  <2>1. ptr'[s][r] \notin free'
    <3>1. CASE s = q /\ r[1] = "cur"
      <4>. DEFINE n == <<"new", r[2], r[3]>>
      <4>1. n \in Roles /\ n[1] = "new" /\ ptr'[s][r] = ptr[p][n]
        BY <1>1, <1>2, <3>1
      <4>. HIDE DEF n
      <4>. QED BY <4>1 DEF OneUse
    <3>2. CASE ~(s = q /\ r[1] = "cur")
      <4>1. ptr'[s][r] = ptr[s][r]
        BY <1>2, <3>2
      <4>2. s = p => q # p \/ r \notin R
        BY <3>2
      <4>. QED BY <4>1, <4>2 DEF OneUse
    <3>. QED BY <3>1, <3>2
  <2>2. ASSUME NEW t \in Procs, NEW u \in Roles, ptr'[t][u] = ptr'[s][r]
        PROVE  t = s /\ u = r
    <3>. DEFINE n == <<"new", r[2], r[3]>>
                m == <<"new", u[2], u[3]>>
    <3>1. CASE s = q /\ r[1] = "cur" /\ t = q /\ u[1] = "cur"
      <4>1. n \in Roles /\ m \in Roles /\ ptr'[s][r] = ptr[p][n] /\ ptr'[t][u] = ptr[p][m]
        BY <1>1, <1>2, <3>1
      <4>0. ptr[p][n] # None /\ ptr[p][m] = ptr[p][n]
        BY <4>1, <2>2
      <4>2. m = n
        BY <4>0, <4>1, <1>7
      <4>3. u[2] = r[2] /\ u[3] = r[3]
        BY <4>2
      <4>. QED BY <3>1, <4>3, <1>4
    <3>2. CASE s = q /\ r[1] = "cur" /\ ~(t = q /\ u[1] = "cur")
      <4>1. n \in Roles /\ n[1] = "new" /\ ptr'[s][r] = ptr[p][n] /\ ptr'[t][u] = ptr[t][u] /\ ~(t = p /\ u[1] = "new")
        BY <1>1, <1>2, <3>2, <2>2
      <4>. HIDE DEF n
      <4>0. ptr[p][n] # None /\ ptr[t][u] = ptr[p][n]
        BY <4>1, <2>2
      <4>2. t = p /\ u = n
        BY <4>0, <4>1, <1>7
      <4>. QED BY <4>1, <4>2
    <3>3. CASE ~(s = q /\ r[1] = "cur") /\ t = q /\ u[1] = "cur"
      <4>1. m \in Roles /\ m[1] = "new" /\ ptr'[t][u] = ptr[p][m] /\ ptr'[s][r] = ptr[s][r] /\ ~(s = p /\ r[1] = "new")
        BY <1>1, <1>2, <3>3, <2>2
      <4>. HIDE DEF m
      <4>0. ptr[s][r] # None /\ ptr[p][m] = ptr[s][r]
        BY <4>1, <2>2
      <4>2. p = s /\ m = r
        BY <4>0, <4>1, <1>7
      <4>. QED BY <4>1, <4>2
    <3>4. CASE ~(s = q /\ r[1] = "cur") /\ ~(t = q /\ u[1] = "cur")
      <4>1. ptr'[t][u] = ptr[t][u] /\ ptr'[s][r] = ptr[s][r]
        BY <1>2, <3>4, <2>2
      <4>2. ptr[s][r] # None /\ ptr[t][u] = ptr[s][r]
        BY <4>1, <2>2
      <4>. QED BY <4>2, <1>7
    <3>. QED BY <3>1, <3>2, <3>3, <3>4
  <2>. QED BY <2>1, <2>2
<1>. QED BY <1>3, <1>5, <1>6 DEF PagesOK

-----------------------------------------------------------------------------
(* The invariant.                                                          *)

LEMMA InitIInv == Init => IInv
<1>. SUFFICES ASSUME Init PROVE IInv
  OBVIOUS
<1>1. \A r \in BootRoles : Boot[r] \in Pages
  BY VmAssumption
<1>2. TypeOK
  BY <1>1, VmAssumption DEF Init, TypeOK
<1>3. JobOK
  BY HeaderFacts DEF Init, JobOK, Job, Idle, Pcs
<1>4. \A p \in Procs, r \in Roles :
        ptr[p][r] = IF p = InitProc /\ r \in BootRoles THEN Boot[r] ELSE None
  BY DEF Init
<1>5. OneUse
  BY <1>4, VmAssumption DEF Init, OneUse
<1>. QED BY <1>2, <1>3, <1>5 DEF IInv

\* Steps that build on the lemmas: the rest of the state keeps its types.
LEMMA RestOK ==
  ASSUME IInv, PagesOK', OneUse', JobOK', sz' \in [Procs -> Nat],
         state' \in [Procs -> {"UNUSED", "EMBRYO", "RUNNING", "ZOMBIE"}], short' \in BOOLEAN
  PROVE  IInv'
BY DEF IInv, TypeOK, PagesOK

LEMMA AbortIInv ==
  ASSUME IInv, NEW p \in Procs, NEW gone \in SUBSET Roles, NEW lost,
         Abort(p, gone, lost), short' \in BOOLEAN
  PROVE  IInv'
<1>1. PagesOK /\ OneUse /\ JobOK
  BY DEF IInv, TypeOK, PagesOK
<1>2. PagesOK' /\ OneUse'
  BY <1>1, AbortOneUse
<1>3. JobOK'
  BY <1>1, HeaderFacts DEF Abort, JobOK, Job, Idle, Pcs
<1>4. sz' \in [Procs -> Nat]
  BY DEF IInv, TypeOK, Abort
<1>5. state' \in [Procs -> {"UNUSED", "EMBRYO", "RUNNING", "ZOMBIE"}]
  BY DEF IInv, TypeOK, Abort
<1>. QED BY <1>2, <1>3, <1>4, <1>5, RestOK

\* Steps that do not touch pages.
LEMMA NoPages ==
  ASSUME IInv, UNCHANGED <<free, ptr>>
  PROVE  PagesOK' /\ OneUse'
BY DEF IInv, TypeOK, PagesOK, OneUse

LEMMA PanicIInv ==
  ASSUME IInv, NEW msg, Panic(msg)
  PROVE  IInv'
BY DEF IInv, TypeOK, OneUse, JobOK, Panic

\* The steps of exec from header to header: on to the stack, or to the end of
\* a segment that is below KERNBASE and not before the others.
LEMMA SegmentFacts ==
  ASSUME NEW p \in Procs, job[p].end \in Nat, ExecSegment(p)
  PROVE  \E call \in {"load", "stack"}, end \in Nat, ph \in Segments :
           /\ job' = [job EXCEPT ![p] = [@ EXCEPT !.call = call, !.end = end, !.ph = ph]]
           /\ UNCHANGED <<free, ptr, sz, state, short, panic>>
           /\ call = "stack" => end = (PGROUNDUP(job[p].end) + 2) * PGSIZE /\ ph = NoHeader
           /\ call = "load" => /\ ph.filesz <= ph.memsz /\ (ph.vaddr + ph.memsz) % UINT <= end
                              /\ job[p].end <= end /\ (job[p].end < KERNBASE => end < KERNBASE)
<1>. DEFINE old == job[p].end
            Goes(call, end, ph) ==
              /\ job' = [job EXCEPT ![p] = [@ EXCEPT !.call = call, !.end = end, !.ph = ph]]
              /\ UNCHANGED <<free, ptr, sz, state, short, panic>>
<1>1. CASE Goes("stack", (PGROUNDUP(old) + 2) * PGSIZE, NoHeader)
  <2>1. PICK end \in Nat : end = (PGROUNDUP(old) + 2) * PGSIZE
    BY PgRound, VmAssumption
  <2>2. Goes("stack", end, NoHeader)
    BY <1>1, <2>1
  <2>. QED BY <2>1, <2>2, HeaderFacts
<1>2. ASSUME NEW ph \in Headers, ph.filesz <= ph.memsz, (ph.vaddr + ph.memsz) % UINT < KERNBASE,
             Goes("load", IF (ph.vaddr + ph.memsz) % UINT < old THEN old
                          ELSE (ph.vaddr + ph.memsz) % UINT, ph)
      PROVE  \E end \in Nat :
               /\ Goes("load", end, ph) /\ (ph.vaddr + ph.memsz) % UINT <= end
               /\ old <= end /\ (old < KERNBASE => end < KERNBASE)
  <2>1. ph.vaddr + ph.memsz \in Nat /\ UINT \in Nat /\ UINT > 0
    BY HeaderFacts
  <2>2. PICK new \in Nat : new = (ph.vaddr + ph.memsz) % UINT
    BY <2>1
  <2>3. PICK end \in Nat : end = IF new < old THEN old ELSE new
    OBVIOUS
  <2>4. Goes("load", end, ph) /\ new <= end /\ old <= end /\ (old < KERNBASE => end < KERNBASE)
    BY <1>2, <2>2, <2>3
  <2>. QED BY <2>2, <2>4
<1>3. \/ Goes("stack", (PGROUNDUP(old) + 2) * PGSIZE, NoHeader)
      \/ \E ph \in Headers :
           /\ ph.filesz <= ph.memsz /\ (ph.vaddr + ph.memsz) % UINT < KERNBASE
           /\ Goes("load", IF (ph.vaddr + ph.memsz) % UINT < old THEN old
                           ELSE (ph.vaddr + ph.memsz) % UINT, ph)
  BY DEF ExecSegment
<1>4. CASE \E ph \in Headers :
             /\ ph.filesz <= ph.memsz /\ (ph.vaddr + ph.memsz) % UINT < KERNBASE
             /\ Goes("load", IF (ph.vaddr + ph.memsz) % UINT < old THEN old
                             ELSE (ph.vaddr + ph.memsz) % UINT, ph)
  <2>1. PICK ph \in Headers :
             /\ ph.filesz <= ph.memsz /\ (ph.vaddr + ph.memsz) % UINT < KERNBASE
             /\ Goes("load", IF (ph.vaddr + ph.memsz) % UINT < old THEN old
                             ELSE (ph.vaddr + ph.memsz) % UINT, ph)
    BY <1>4
  <2>2. PICK end \in Nat :
               /\ Goes("load", end, ph) /\ (ph.vaddr + ph.memsz) % UINT <= end
               /\ old <= end /\ (old < KERNBASE => end < KERNBASE)
    BY <2>1, <1>2
  <2>. QED BY <2>1, <2>2, HeaderFacts
<1>. QED BY <1>1, <1>3, <1>4

LEMMA StepIInv ==
  ASSUME IInv, NEW p \in Procs,
         \/ Exec(p) \/ SbrkGrow(p) \/ SbrkShrink(p) \/ Exit(p) \/ Reap(p)
         \/ AllocKstack(p) \/ SetupKvm(p) \/ NextPage(p) \/ MapPage(p)
         \/ ForkDone(p) \/ SbrkDone(p) \/ ExecSegment(p) \/ ExecGivesUp(p)
         \/ ExecLoad(p) \/ ExecStack(p)
         \/ \E q \in Procs : Fork(p, q)
  PROVE  IInv'
<1>. DEFINE States == {"UNUSED", "EMBRYO", "RUNNING", "ZOMBIE"}
<1>a. /\ PagesOK /\ OneUse /\ JobOK
      /\ sz \in [Procs -> Nat] /\ state \in [Procs -> States] /\ short \in BOOLEAN
  BY DEF IInv, TypeOK, PagesOK
<1>b. job[p] \in Job /\ job[p].end \in Nat /\ job[p].a \in Nat
  BY <1>a DEF JobOK, Job
<1>c. PGSIZE \in Nat /\ UINT \in Nat /\ UINT > 0
  BY VmAssumption
<1>d. \A i \in {"cur", "new"} : Freevm(p, i) \subseteq Roles
  BY GivenUp
<1>e. ASSUME NEW pc \in Pcs, Pc(p, pc)
      PROVE  JobOK'
  BY <1>e, <1>a DEF Pc, JobOK, Job, Pcs
<1>1. CASE Exec(p)
  <2>1. JobOK'
    BY <1>1, <1>a, HeaderFacts DEF Exec, Start, JobOK, Job, Pcs
  <2>. QED BY <1>1, <2>1, <1>a, NoPages, RestOK DEF Exec
<1>2. CASE SbrkGrow(p)
  <2>1. PICK n \in Increments :
          /\ n > 0 /\ Start(p, "sbrk", "page", PGROUNDUP(sz[p]), sz[p] + n, None)
          /\ UNCHANGED <<free, ptr, sz, state, short, panic>>
    BY <1>2 DEF SbrkGrow
  <2>2. n \in Int
    BY VmAssumption
  <2>3. PGROUNDUP(sz[p]) \in Nat /\ sz[p] + n \in Nat
    BY <1>a, <2>1, <2>2, PgRound
  <2>4. JobOK'
    BY <2>1, <2>3, <1>a, HeaderFacts DEF Start, JobOK, Job, Pcs
  <2>. QED BY <2>1, <2>4, <1>a, NoPages, RestOK
<1>3. CASE SbrkShrink(p)
  <2>1. PICK n \in Increments :
          /\ Kfree(p, Dealloc(p, "cur", sz[p], (sz[p] + n) % UINT))
          /\ sz' = [sz EXCEPT ![p] = IF (sz[p] + n) % UINT = 0 THEN @ ELSE (sz[p] + n) % UINT]
          /\ UNCHANGED <<state, job, short, panic>>
    BY <1>3 DEF SbrkShrink
  <2>2. n \in Int
    BY VmAssumption
  <2>3. (sz[p] + n) % UINT \in Nat
    BY <2>2, <1>a, <1>c
  <2>4. sz' \in [Procs -> Nat]
    BY <2>1, <2>3, <1>a
  <2>5. PagesOK' /\ OneUse'
    BY <2>1, <1>a, GivenUp, KfreeOneUse
  <2>. QED BY <2>1, <2>4, <2>5, <1>a, RestOK DEF JobOK
<1>4. CASE Exit(p)
  <2>1. CASE \E msg : Panic(msg)
    BY <2>1, PanicIInv
  <2>2. CASE state' = [state EXCEPT ![p] = "ZOMBIE"] /\ UNCHANGED <<free, ptr, sz, job, short, panic>>
    BY <2>2, <1>a, NoPages, RestOK DEF JobOK
  <2>. QED BY <1>4, <2>1, <2>2 DEF Exit
<1>5. CASE Reap(p)
  <2>1. {Kstack} \cup Freevm(p, "cur") \in SUBSET Roles
    BY <1>d DEF Roles
  <2>2. PagesOK' /\ OneUse'
    BY <1>5, <2>1, <1>a, KfreeOneUse DEF Reap
  <2>. QED BY <1>5, <2>2, <1>a, RestOK DEF Reap, JobOK
<1>6. CASE AllocKstack(p)
  <2>1. CASE Kalloc(job[p].child, Kstack) /\ Pc(p, "dir") /\ UNCHANGED <<sz, state, short, panic>>
    <3>1. PagesOK' /\ OneUse'
      BY <2>1, <1>a, KallocOneUse
    <3>2. JobOK'
      BY <2>1, <1>e DEF Pcs
    <3>. QED BY <2>1, <3>1, <3>2, <1>a, RestOK
  <2>2. CASE Abort(p, {}, {}) /\ short' = short
    BY <2>2, <1>a, AbortIInv
  <2>. QED BY <1>6, <2>1, <2>2 DEF AllocKstack
<1>7. CASE SetupKvm(p)
  <2>1. ASSUME NEW r, NEW pc \in Pcs, Kalloc(p, r), Pc(p, pc), UNCHANGED <<sz, state, short, panic>>
        PROVE  IInv'
    <3>1. PagesOK' /\ OneUse'
      BY <2>1, <1>a, KallocOneUse
    <3>2. JobOK'
      BY <2>1, <1>e DEF Pcs
    <3>. QED BY <2>1, <3>1, <3>2, <1>a, RestOK
  <2>2. ASSUME NEW lost, Abort(p, {}, lost), short' \in BOOLEAN
        PROVE  IInv'
    BY <2>2, AbortIInv
  <2>3. CASE At_(p, "dir")
    BY <1>7, <2>1, <2>2, <2>3, <1>a DEF SetupKvm, At_, Pcs
  <2>4. CASE At_(p, "kpt")
    BY <1>7, <2>1, <2>2, <2>4, <1>a DEF SetupKvm, At_, Pcs
  <2>. QED BY <1>7, <2>3, <2>4 DEF SetupKvm
<1>8. CASE NextPage(p)
  <2>1. CASE \E msg : Panic(msg)
    BY <2>1, PanicIInv
  <2>2. CASE Kalloc(p, Mem) /\ Pc(p, "map") /\ UNCHANGED <<sz, state, short, panic>>
    <3>1. PagesOK' /\ OneUse'
      BY <2>2, <1>a, KallocOneUse
    <3>2. JobOK'
      BY <2>2, <1>e DEF Pcs
    <3>. QED BY <2>2, <3>1, <3>2, <1>a, RestOK
  <2>3. CASE Abort(p, Undo(p), {}) /\ short' = short
    <3>1. Undo(p) \in SUBSET Roles
      BY <1>d, GivenUp DEF Undo
    <3>. QED BY <2>3, <3>1, <1>a, AbortIInv
  <2>. QED BY <1>8, <2>1, <2>2, <2>3 DEF NextPage
<1>9. CASE MapPage(p)
  <2>. DEFINE i == Target(p)
              a == job[p].a
              next == [job EXCEPT ![p] = [@ EXCEPT !.pc = "page", !.a = a + 1]]
  <2>0. next \in [Procs -> Job]
    <3>1. a + 1 \in Nat
      BY <1>b
    <3>2. [job[p] EXCEPT !.pc = "page", !.a = a + 1] \in Job
      BY <3>1, <1>b DEF Job, Pcs
    <3>. QED BY <3>2, <1>a DEF JobOK
  <2>1. CASE Kalloc(p, Tab(i, a)) /\ UNCHANGED <<sz, state, job, short, panic>>
    <3>1. PagesOK' /\ OneUse'
      BY <2>1, <1>a, KallocOneUse
    <3>. QED BY <2>1, <3>1, <1>a, RestOK DEF JobOK
  <2>2. CASE Abort(p, Freevm(p, "new"), {Mem}) /\ short' = TRUE
    BY <2>2, <1>d, AbortIInv
  <2>3. CASE /\ ptr' = [ptr EXCEPT ![p][Mem] = None]
             /\ job' = next /\ short' = TRUE /\ UNCHANGED <<free, sz, state, panic>>
    <3>1. ptr' \in [Procs -> [Roles -> Pages \cup {None}]]
      BY <2>3, <1>a DEF PagesOK
    <3>2. \A q \in Procs, r \in Roles : ptr'[q][r] = None \/ ptr'[q][r] = ptr[q][r]
      BY <2>3, <1>a DEF PagesOK
    <3>. DEFINE F == {}
    <3>3. free' = free \cup F /\ F \in SUBSET Pages /\ \A q \in Procs, r \in Roles : ptr'[q][r] \notin F
      BY <2>3
    <3>. HIDE DEF F
    <3>4. PagesOK' /\ OneUse'
      BY <3>1, <3>2, <3>3, <1>a, DropOneUse
    <3>. QED BY <2>3, <3>4, <2>0, <1>a, RestOK DEF JobOK
  <2>4. CASE \E msg : Panic(msg)
    BY <2>4, PanicIInv
  <2>5. CASE /\ ptr' = [ptr EXCEPT ![p] = [@ EXCEPT ![Pg(i, a)] = ptr[p][Mem], ![Mem] = None]]
             /\ job' = next /\ UNCHANGED <<free, sz, state, short, panic>>
    <3>1. Mem \in Roles
      BY DEF Roles
    <3>2. Pg(i, a) # Mem
      BY DEF Pg, Mem, Target
    <3>3. ptr' \in [Procs -> [Roles -> Pages \cup {None}]]
      BY <2>5, <3>1, <1>a DEF PagesOK
    <3>4. \A q \in Procs, r \in Roles :
            ptr'[q][r] = IF q = p /\ r = Mem THEN None
                         ELSE IF q = p /\ r = Pg(i, a) THEN ptr[p][Mem] ELSE ptr[q][r]
      BY <2>5, <3>2, <1>a DEF PagesOK
    <3>5. OneUse'
      BY <3>1, <3>4, <2>5, <1>a DEF OneUse
    <3>6. PagesOK'
      BY <3>3, <2>5, <1>a DEF PagesOK
    <3>. QED BY <2>5, <3>5, <3>6, <2>0, <1>a, RestOK DEF JobOK
  <2>. QED BY <1>9, <2>1, <2>2, <2>3, <2>4, <2>5 DEF MapPage
<1>10. CASE ForkDone(p)
  <2>1. PagesOK' /\ OneUse'
    <3>. DEFINE R == {}
    <3>1. /\ free' = free \cup ({ptr[p][r] : r \in R} \ {None}) /\ ptr' = Handed(p, job[p].child)
          /\ R \in SUBSET Roles /\ \A r \in R : r[1] = "cur"
      BY <1>10 DEF ForkDone
    <3>2. R = {}
      OBVIOUS
    <3>. HIDE DEF R
    <3>. QED BY <3>1, <3>2, <1>a, HandedOneUse
  <2>2. sz' \in [Procs -> Nat] /\ state' \in [Procs -> States]
    BY <1>10, <1>a DEF ForkDone
  <2>3. JobOK'
    BY <1>10, <1>a, HeaderFacts DEF ForkDone, JobOK, Job, Idle, Pcs
  <2>. QED BY <1>10, <2>1, <2>2, <2>3, <1>a, RestOK DEF ForkDone
<1>11. CASE SbrkDone(p)
  <2>1. sz' \in [Procs -> Nat]
    BY <1>11, <1>a, <1>b DEF SbrkDone
  <2>2. JobOK'
    BY <1>11, <1>a, HeaderFacts DEF SbrkDone, JobOK, Job, Idle, Pcs
  <2>. QED BY <1>11, <2>1, <2>2, <1>a, NoPages, RestOK DEF SbrkDone
<1>12. CASE ExecGivesUp(p)
  BY <1>12, <1>a, <1>d, AbortIInv DEF ExecGivesUp
<1>13. CASE ExecLoad(p)
  <2>1. CASE \E msg : Panic(msg)
    BY <2>1, PanicIInv
  <2>2. CASE /\ job' = [job EXCEPT ![p] = [@ EXCEPT !.call = "exec", !.ph = NoHeader]]
             /\ UNCHANGED <<free, ptr, sz, state, short, panic>>
    <3>1. JobOK'
      BY <2>2, <1>a, HeaderFacts DEF JobOK, Job
    <3>. QED BY <2>2, <3>1, <1>a, NoPages, RestOK
  <2>. QED BY <1>13, <2>1, <2>2 DEF ExecLoad
<1>16. CASE ExecSegment(p)
  <2>1. PICK call \in {"load", "stack"}, end \in Nat, ph \in Segments :
          /\ job' = [job EXCEPT ![p] = [@ EXCEPT !.call = call, !.end = end, !.ph = ph]]
          /\ UNCHANGED <<free, ptr, sz, state, short, panic>>
    BY <1>16, SegmentFacts, <1>b
  <2>2. JobOK'
    BY <2>1, <1>a DEF JobOK, Job
  <2>. QED BY <2>1, <2>2, <1>a, NoPages, RestOK
<1>14. CASE ExecStack(p)
  <2>1. CASE \E msg : Panic(msg)
    BY <2>1, PanicIInv
  <2>2. CASE Abort(p, Freevm(p, "new"), {}) /\ short' = short
    BY <2>2, <1>a, <1>d, AbortIInv
  <2>3. CASE ExecCommit(p)
    <3>1. PagesOK' /\ OneUse'
      <4>1. Freevm(p, "cur") \in SUBSET Roles /\ \A r \in Freevm(p, "cur") : r[1] = "cur"
        BY GivenUp
      <4>. QED BY <4>1, <2>3, <1>a, HandedOneUse DEF ExecCommit
    <3>2. sz' \in [Procs -> Nat]
      BY <2>3, <1>a, <1>b DEF ExecCommit
    <3>3. JobOK'
      BY <2>3, <1>a, HeaderFacts DEF ExecCommit, JobOK, Job, Idle, Pcs
    <3>. QED BY <2>3, <3>1, <3>2, <3>3, <1>a, RestOK DEF ExecCommit
  <2>. QED BY <1>14, <2>1, <2>2, <2>3 DEF ExecStack
<1>15. CASE \E q \in Procs : Fork(p, q)
  <2>1. PICK q \in Procs : Fork(p, q)
    BY <1>15
  <2>2. JobOK'
    BY <2>1, <1>a, HeaderFacts DEF Fork, Start, JobOK, Job, Pcs
  <2>3. state' \in [Procs -> States]
    BY <2>1, <1>a DEF Fork
  <2>. QED BY <2>1, <2>2, <2>3, <1>a, NoPages, RestOK DEF Fork
<1>. QED BY <1>1, <1>2, <1>3, <1>4, <1>5, <1>6, <1>7, <1>8, <1>9, <1>10, <1>11, <1>12,
            <1>13, <1>14, <1>15, <1>16

LEMMA NextIInv ==
  ASSUME IInv, [Next]_vars
  PROVE  IInv'
<1>1. CASE UNCHANGED vars
  BY <1>1 DEF vars, IInv, TypeOK, OneUse, JobOK
<1>2. CASE Next
  BY <1>1, <1>2, StepIInv DEF Next, Halt
<1>. QED BY <1>1, <1>2

-----------------------------------------------------------------------------
(* Theorems.                                                               *)

LEMMA Invariant == Spec => []IInv
<1>1. Init => IInv
  BY InitIInv
<1>2. IInv /\ [Next]_vars => IInv'
  BY NextIInv
<1>. QED BY <1>1, <1>2, PTL DEF Spec

\* The free list and the pointers of page tables and processes stay pages, and
\* sizes stay unsigned, through sbrk with any argument and calls that fail
\* (kalloc.c, proc.c:125-141, vm.c).
THEOREM TypeCorrect == Spec => []TypeOK
<1>1. IInv => TypeOK
  BY DEF IInv
<1>. QED BY <1>1, Invariant, PTL

\* A page is free or has one use, for any number of processes that fork, exec,
\* grow, shrink, exit and run out of memory at any page (kalloc.c:54-95,
\* vm.c:220-337, exec.c:10-101).
THEOREM OneUseCorrect == Spec => []OneUse
<1>1. IInv => OneUse
  BY DEF IInv
<1>. QED BY <1>1, Invariant, PTL

-----------------------------------------------------------------------------
(* No page is lost and images are whole, as long as every page table could *)
(* be allocated: what each process has at each step of its call.           *)

\* The pages mapped in image i of p are those before page k.
Mapped(p, i, k) == \A v \in VPages : ptr[p][Pg(i, v)] # None <=> v < k

\* A page that is mapped is mapped by a table.
Tabled(p, i) == \A v \in VPages : ptr[p][Pg(i, v)] # None => ptr[p][Tab(i, v)] # None

Blank(p, i) == \A r \in Image(i) : ptr[p][r] = None

\* copyuvm or allocuvm is filling the new image.
Building(p) == job[p].pc \in {"page", "map"} /\ job[p].call # "sbrk"

\* The current image goes up to the size; while it grows, up to the loop's
\* page; it is empty after sbrk took everything.
CurOK(p) ==
  /\ Tabled(p, "cur")
  /\ state[p] \in {"UNUSED", "EMBRYO"} => Blank(p, "cur")
  /\ state[p] \in {"RUNNING", "ZOMBIE"} =>
       /\ sz[p] > 0 /\ sz[p] < KERNBASE
       /\ IF job[p].call = "sbrk" THEN Mapped(p, "cur", job[p].a)
          ELSE \/ Mapped(p, "cur", PGROUNDUP(sz[p]))
               \/ p # InitProc /\ job[p] = Idle /\ Mapped(p, "cur", 0)

\* The new image goes up to the loop's page; outside the loops there is none,
\* or its directory alone.
NewOK(p) ==
  /\ Tabled(p, "new")
  /\ IF Building(p) THEN Mapped(p, "new", job[p].a)
     ELSE \A r \in Image("new") :
            ptr[p][r] # None => r = At("new", <<"dir", 0>>) /\ job[p].pc = "kpt"

\* The loop has taken a page that is not mapped yet.
MemOK(p) == ptr[p][Mem] # None <=> job[p].pc = "map"

\* Where a call is, and the range its loop goes through.
CallOK(p) ==
  /\ job[p].pc = "idle" \/ job[p].call = "none" => job[p] = Idle
  /\ job[p].pc # "idle" => state[p] = "RUNNING"
  /\ job[p].pc \in {"kstack", "dir", "kpt"} => job[p].call \in {"fork", "exec"} /\ job[p].a = 0
  /\ job[p].pc = "kstack" => job[p].call = "fork"
  /\ job[p].pc \in {"page", "map"} => job[p].a <= PGROUNDUP(job[p].end)
  /\ job[p].pc = "map" => job[p].a * PGSIZE < job[p].end /\ job[p].end < KERNBASE
  /\ job[p].call = "fork" => job[p].end = sz[p]
  /\ job[p].call = "sbrk" => /\ p # InitProc /\ sz[p] < job[p].end /\ job[p].end < KERNBASE
                             /\ PGROUNDUP(sz[p]) <= job[p].a
  /\ job[p].call = "stack" => job[p].end >= 2 * PGSIZE
  /\ job[p].call \in {"exec", "load"} => job[p].end < KERNBASE
  /\ job[p].call = "load" => /\ job[p].ph.filesz <= job[p].ph.memsz
                             /\ (job[p].ph.vaddr + job[p].ph.memsz) % UINT <= job[p].end

ProcOK(p) == CurOK(p) /\ NewOK(p) /\ MemOK(p) /\ CallOK(p)

\* A slot is claimed by one fork until its image is there.
Forks ==
  /\ state[InitProc] = "RUNNING"
  /\ \A p \in Procs : job[p].child # None <=> job[p].call = "fork"
  /\ \A p \in Procs : job[p].call = "fork" =>
       /\ state[job[p].child] = "EMBRYO"
       /\ job[p].pc = "kstack" => ptr[job[p].child][Kstack] = None
       /\ \A q \in Procs : job[q].child = job[p].child => q = p
  /\ \A p \in Procs : state[p] = "UNUSED" => ptr[p][Kstack] = None

Kept == \A g \in Pages : g \in free \/ \E p \in Procs, r \in Roles : ptr[p][r] = g

Whole == panic = "no" /\ Kept /\ Forks /\ \A p \in Procs : ProcOK(p)

\* The kernel has stopped in loaduvm at a segment that is not proper.
Stopped ==
  /\ panic \in LoadPanics /\ Kept /\ \A p \in Procs : ProcOK(p)
  /\ \E p \in Procs : ~Proper(job[p].ph)

WInv == IInv /\ (~short => Whole \/ Stopped)

\* The bounds of the constants.
LEMMA Sizes ==
  /\ PGSIZE \in Nat /\ PGSIZE > 0 /\ NPTENTRIES \in Nat /\ NPTENTRIES > 0
  /\ KERNBASE \in Nat /\ PGSIZE < KERNBASE /\ KERNBASE % PGSIZE = 0
BY VmAssumption

\* v pages fill less than n units exactly when v is before the end of n.
LEMMA RoundUp ==
  ASSUME NEW n \in Nat, NEW v \in Nat
  PROVE  v * PGSIZE < n <=> v < PGROUNDUP(n)
<1>. DEFINE d == PGROUNDUP(n)
            m == n + PGSIZE - 1
<1>1. PGSIZE \in Nat /\ PGSIZE > 0
  BY Sizes
<1>2. m \in Nat /\ d \in Nat
  BY <1>1, PgRound
<1>3. d * PGSIZE <= m /\ m < (d + 1) * PGSIZE
  <2>1. d = m \div PGSIZE
    BY DEF PGROUNDUP
  <2>. HIDE DEF m, d
  <2>2. m = (m \div PGSIZE) * PGSIZE + (m % PGSIZE) /\ (m % PGSIZE) \in 0 .. PGSIZE - 1
    BY <1>1, <1>2
  <2>. QED BY <1>1, <1>2, <2>1, <2>2
<1>4. d * PGSIZE <= n + PGSIZE - 1 /\ n - 1 < d * PGSIZE
  <2>1. (d + 1) * PGSIZE = d * PGSIZE + PGSIZE
    BY <1>1, <1>2
  <2>2. d * PGSIZE \in Nat
    BY <1>1, <1>2
  <2>. QED BY <1>1, <1>2, <1>3, <2>1, <2>2
<1>. HIDE DEF d, m
<1>5. CASE v < d
  <2>1. (v + 1) * PGSIZE <= d * PGSIZE
    BY <1>1, <1>2, <1>5
  <2>2. (v + 1) * PGSIZE = v * PGSIZE + PGSIZE
    BY <1>1
  <2>3. v * PGSIZE \in Nat /\ d * PGSIZE \in Nat
    BY <1>1, <1>2
  <2>4. v * PGSIZE < n
    BY <1>1, <1>4, <2>1, <2>2, <2>3
  <2>. QED BY <1>5, <2>4 DEF d
<1>6. CASE ~(v < d)
  <2>1. d * PGSIZE <= v * PGSIZE
    BY <1>1, <1>2, <1>6
  <2>2. v * PGSIZE \in Nat /\ d * PGSIZE \in Nat
    BY <1>1, <1>2
  <2>3. ~(v * PGSIZE < n)
    BY <1>4, <2>1, <2>2
  <2>. QED BY <1>6, <2>3 DEF d
<1>. QED BY <1>5, <1>6

LEMMA RoundMono ==
  ASSUME NEW m \in Nat, NEW n \in Nat, m <= n
  PROVE  PGROUNDUP(m) <= PGROUNDUP(n)
<1>. DEFINE v == PGROUNDUP(n)
            w == PGROUNDUP(m)
<1>1. v \in Nat /\ w \in Nat /\ PGSIZE \in Nat
  BY PgRound, Sizes
<1>2. v < w => v * PGSIZE < m
  BY <1>1, RoundUp
<1>3. v * PGSIZE < n => v < v
  BY <1>1, RoundUp
<1>. HIDE DEF v, w
<1>4. v * PGSIZE \in Nat
  BY <1>1
<1>5. ~(v < w)
  BY <1>1, <1>2, <1>3, <1>4
<1>6. w <= v
  BY <1>1, <1>5
<1>. QED BY <1>6 DEF v, w

LEMMA RoundZero == PGROUNDUP(0) = 0
<1>1. PGROUNDUP(0) \in Nat
  BY PgRound
<1>2. 0 * PGSIZE < 0 <=> 0 < PGROUNDUP(0)
  BY RoundUp
<1>3. 0 * PGSIZE = 0
  BY Sizes
<1>. QED BY <1>1, <1>2, <1>3

\* A page that starts below KERNBASE is a page of the user addresses.
LEMMA UserPage ==
  ASSUME NEW v \in Nat
  PROVE  v \in VPages <=> v * PGSIZE < KERNBASE
<1>. DEFINE K == KERNBASE \div PGSIZE
<1>1. PGSIZE \in Nat /\ PGSIZE > 0 /\ KERNBASE \in Nat /\ KERNBASE % PGSIZE = 0
  BY Sizes
<1>2. K \in Nat /\ KERNBASE = K * PGSIZE
  BY <1>1
<1>3. VPages = 0 .. K - 1
  BY DEF VPages
<1>. HIDE DEF K
<1>4. CASE v < K
  <2>1. (v + 1) * PGSIZE <= K * PGSIZE /\ (v + 1) * PGSIZE = v * PGSIZE + PGSIZE
    BY <1>1, <1>2, <1>4
  <2>. QED BY <1>1, <1>2, <1>3, <1>4, <2>1
<1>5. CASE ~(v < K)
  <2>1. K * PGSIZE <= v * PGSIZE
    BY <1>1, <1>2, <1>5
  <2>. QED BY <1>1, <1>2, <1>3, <1>5, <2>1
<1>. QED BY <1>4, <1>5

\* The roles are different from each other.
LEMMA RoleFacts ==
  /\ Kstack \in Roles /\ Mem \in Roles /\ Kstack # Mem
  /\ \A i \in {"cur", "new"} :
       /\ Image(i) \subseteq Roles /\ Kstack \notin Image(i) /\ Mem \notin Image(i)
       /\ At(i, <<"dir", 0>>) \in Image(i) /\ At(i, <<"kpt", 0>>) \in Image(i)
       /\ At(i, <<"dir", 0>>) # At(i, <<"kpt", 0>>)
       /\ \A r \in Image(i) : r[1] = i
       /\ \A v \in VPages : /\ Pg(i, v) \in Image(i) /\ Tab(i, v) \in Image(i)
                            /\ Pg(i, v) # At(i, <<"dir", 0>>) /\ Pg(i, v) # At(i, <<"kpt", 0>>)
                            /\ Tab(i, v) # At(i, <<"dir", 0>>) /\ Tab(i, v) # At(i, <<"kpt", 0>>)
       /\ \A v, w \in VPages : Pg(i, v) # Tab(i, w) /\ (Pg(i, v) = Pg(i, w) => v = w)
  /\ \A r \in Image("cur") : r \notin Image("new")
  /\ \A r \in Roles : r[1] = "cur" <=> r \in Image("cur")
  /\ \A r \in Roles : r[1] = "new" <=> r \in Image("new")
<1>1. Kstack \in Roles /\ Mem \in Roles /\ Kstack # Mem
  BY DEF Roles, Kstack, Mem
<1>2. ASSUME NEW i \in {"cur", "new"}
      PROVE  /\ Image(i) \subseteq Roles /\ Kstack \notin Image(i) /\ Mem \notin Image(i)
             /\ At(i, <<"dir", 0>>) \in Image(i) /\ At(i, <<"kpt", 0>>) \in Image(i)
             /\ At(i, <<"dir", 0>>) # At(i, <<"kpt", 0>>)
             /\ \A r \in Image(i) : r[1] = i
  <2>1. Image(i) \subseteq Roles
    BY DEF Roles
  <2>2. \A r \in Image(i) : r[1] = i
    BY DEF Image, At
  <2>3. Kstack \notin Image(i) /\ Mem \notin Image(i)
    BY <2>2 DEF Kstack, Mem
  <2>4. <<"dir", 0>> \in Parts /\ <<"kpt", 0>> \in Parts
    BY DEF Parts
  <2>5. At(i, <<"dir", 0>>) \in Image(i) /\ At(i, <<"kpt", 0>>) \in Image(i)
    BY <2>4 DEF Image
  <2>6. At(i, <<"dir", 0>>) # At(i, <<"kpt", 0>>)
    BY DEF At
  <2>. QED BY <2>1, <2>2, <2>3, <2>5, <2>6
<1>3. ASSUME NEW i \in {"cur", "new"}, NEW v \in VPages
      PROVE  /\ Pg(i, v) \in Image(i) /\ Tab(i, v) \in Image(i)
             /\ Pg(i, v) # At(i, <<"dir", 0>>) /\ Pg(i, v) # At(i, <<"kpt", 0>>)
             /\ Tab(i, v) # At(i, <<"dir", 0>>) /\ Tab(i, v) # At(i, <<"kpt", 0>>)
  <2>1. v \div NPTENTRIES \in Tables
    BY DEF Tables
  <2>2. <<"page", v>> \in Parts /\ <<"table", v \div NPTENTRIES>> \in Parts
    BY <2>1 DEF Parts
  <2>3. Pg(i, v) = At(i, <<"page", v>>) /\ Tab(i, v) = At(i, <<"table", v \div NPTENTRIES>>)
    BY DEF Pg, Tab, At
  <2>4. Pg(i, v) \in Image(i) /\ Tab(i, v) \in Image(i)
    BY <2>2, <2>3 DEF Image
  <2>. QED BY <2>4 DEF Pg, Tab, At
<1>4. ASSUME NEW i \in {"cur", "new"}, NEW v \in VPages, NEW w \in VPages
      PROVE  Pg(i, v) # Tab(i, w) /\ (Pg(i, v) = Pg(i, w) => v = w)
  BY DEF Pg, Tab
<1>5. \A r \in Image("cur") : r \notin Image("new")
  BY <1>2
<1>6. /\ \A r \in Roles : r[1] = "cur" <=> r \in Image("cur")
      /\ \A r \in Roles : r[1] = "new" <=> r \in Image("new")
  <2>1. Kstack[1] = "own" /\ Mem[1] = "own"
    BY DEF Kstack, Mem
  <2>. QED BY <2>1, <1>2 DEF Roles
<1>. QED BY <1>1, <1>2, <1>3, <1>4, <1>5, <1>6

\* freevm frees everything an image has.
LEMMA FreevmAll ==
  ASSUME NEW p, NEW i \in {"cur", "new"}
  PROVE  Freevm(p, i) = Image(i)
<1>1. Missed(p, i, PGROUNDUP(0)) = {}
  <2>1. 0 % NPTENTRIES = 0
    BY Sizes
  <2>2. \A v \in VPages : (v % NPTENTRIES) >= 0
    <3>. SUFFICES ASSUME NEW v \in VPages PROVE (v % NPTENTRIES) >= 0
      OBVIOUS
    <3>1. v \in Int
      BY DEF VPages
    <3>. QED BY <3>1, Sizes
  <2>3. \A v \in VPages : (v % NPTENTRIES) \in Int
    <3>. SUFFICES ASSUME NEW v \in VPages PROVE (v % NPTENTRIES) \in Int
      OBVIOUS
    <3>1. v \in Int
      BY DEF VPages
    <3>. QED BY <3>1, Sizes
  <2>. QED BY <2>1, <2>2, <2>3, RoundZero DEF Missed
<1>2. ASSUME NEW v \in VPages
      PROVE  Pg(i, v) \in Dealloc(p, i, KERNBASE, 0)
  <2>1. v \in Nat
    BY Sizes DEF VPages
  <2>2. v * PGSIZE < KERNBASE /\ 0 <= v
    BY <2>1, UserPage
  <2>. QED BY <1>1, <2>2, RoundZero DEF Dealloc
<1>3. ASSUME NEW r \in Image(i), r[2] = "page"
      PROVE  \E v \in VPages : r = Pg(i, v)
  <2>1. PICK x \in Parts : r = At(i, x)
    BY DEF Image
  <2>2. x[1] = "page"
    BY <2>1, <1>3 DEF At
  <2>3. \E v \in VPages : x = <<"page", v>>
    BY <2>2 DEF Parts
  <2>. QED BY <2>1, <2>3 DEF At, Pg
<1>4. Image(i) \subseteq Freevm(p, i)
  BY <1>2, <1>3 DEF Freevm
<1>5. Dealloc(p, i, KERNBASE, 0) \subseteq Image(i)
  BY RoleFacts DEF Dealloc
<1>. QED BY <1>4, <1>5 DEF Freevm

\* deallocuvm leaves the pages before its lower end, when those of the image
\* are without a gap and have their tables.
LEMMA DeallocRest ==
  ASSUME NEW p \in Procs, NEW k \in Nat, Mapped(p, "cur", k), Tabled(p, "cur"),
         NEW old \in Nat, NEW new \in Nat, k <= PGROUNDUP(old), PGROUNDUP(new) <= k,
         NEW v \in VPages, ptr[p][Pg("cur", v)] # None
  PROVE  Pg("cur", v) \in Dealloc(p, "cur", old, new) <=> ~(v < PGROUNDUP(new))
<1>. DEFINE lo == PGROUNDUP(new)
<1>1. v \in Nat /\ lo \in Nat /\ PGROUNDUP(old) \in Nat
  BY PgRound, Sizes DEF VPages
<1>2. v < k
  BY DEF Mapped
<1>3. v * PGSIZE < old
  BY <1>1, <1>2, RoundUp
<1>. HIDE DEF lo
<1>4. ASSUME lo <= v, v \in Missed(p, "cur", lo)
      PROVE  FALSE
  <2>1. lo \in VPages
    BY <1>1, <1>4, Sizes DEF VPages
  <2>2. lo < k
    BY <1>1, <1>2, <1>4
  <2>3. ptr[p][Tab("cur", lo)] # None
    BY <2>1, <2>2 DEF Mapped, Tabled
  <2>4. lo \in lo .. v /\ lo \div NPTENTRIES < v \div NPTENTRIES
    BY <1>1, <1>4 DEF Missed
  <2>. QED BY <1>4, <2>3, <2>4 DEF Missed
<1>5. CASE lo <= v
  <2>1. Pg("cur", v) \in Dealloc(p, "cur", old, new)
    BY <1>3, <1>4, <1>5 DEF Dealloc, lo
  <2>. QED BY <2>1, <1>5, <1>1 DEF lo
<1>6. CASE ~(lo <= v)
  <2>1. \A w \in VPages : Pg("cur", w) = Pg("cur", v) => w = v
    BY RoleFacts
  <2>2. Pg("cur", v) \notin Dealloc(p, "cur", old, new)
    BY <2>1, <1>6 DEF Dealloc, lo
  <2>. QED BY <2>2, <1>6, <1>1 DEF lo
<1>. QED BY <1>5, <1>6

-----------------------------------------------------------------------------
(* Each kind of step keeps Whole.                                          *)

\* A process that a step leaves alone.
LEMMA Frame ==
  ASSUME NEW s, ProcOK(s), ptr'[s] = ptr[s], sz'[s] = sz[s], state'[s] = state[s], job'[s] = job[s]
  PROVE  ProcOK(s)'
<1>1. CurOK(s)'
  BY DEF ProcOK, CurOK, Tabled, Mapped, Blank
<1>2. NewOK(s)' /\ MemOK(s)' /\ CallOK(s)'
  BY DEF ProcOK, NewOK, MemOK, CallOK, Tabled, Mapped, Building
<1>. QED BY <1>1, <1>2 DEF ProcOK

\* The state in which a step of p is taken.
LEMMA Facts ==
  ASSUME IInv, Whole, NEW p \in Procs
  PROVE  /\ ptr \in [Procs -> [Roles -> Pages \cup {None}]]
         /\ job \in [Procs -> Job] /\ job[p] \in Job
         /\ job[p].a \in Nat /\ job[p].end \in Nat /\ job[p].child \in Procs \cup {None}
         /\ job[p].ph \in Segments
         /\ sz \in [Procs -> Nat] /\ sz[p] \in Nat
         /\ state \in [Procs -> {"UNUSED", "EMBRYO", "RUNNING", "ZOMBIE"}]
         /\ CurOK(p) /\ NewOK(p) /\ MemOK(p) /\ CallOK(p)
         /\ None \notin Procs /\ None \notin Pages
<1>1. None \notin Procs /\ None \notin Pages
  BY VmAssumption
<1>2. job[p] \in Job
  BY DEF IInv, JobOK
<1>. QED BY <1>1, <1>2 DEF IInv, TypeOK, JobOK, Job, Whole, ProcOK

\* kalloc for a role that has no page.
LEMMA KallocKept ==
  ASSUME IInv, Kept, NEW q \in Procs, NEW r \in Roles, ptr[q][r] = None, Kalloc(q, r)
  PROVE  /\ Kept'
         /\ \A s \in Procs : s # q => ptr'[s] = ptr[s]
         /\ \A u \in Roles : u # r => ptr'[q][u] = ptr[q][u]
         /\ ptr'[q][r] # None
<1>1. ptr \in [Procs -> [Roles -> Pages \cup {None}]] /\ free \subseteq Pages /\ None \notin Pages
  BY VmAssumption DEF IInv, TypeOK
<1>2. Freelist \in free
  BY DEF Kalloc, Freelist
<1>3. /\ \A s \in Procs : s # q => ptr'[s] = ptr[s]
      /\ \A u \in Roles : u # r => ptr'[q][u] = ptr[q][u]
      /\ ptr'[q][r] = Freelist
  BY <1>1 DEF Kalloc
<1>4. \A s \in Procs, u \in Roles : ptr[s][u] # None => ptr'[s][u] = ptr[s][u]
  BY <1>3
<1>5. free' = free \ {Freelist}
  BY DEF Kalloc
<1>6. Kept'
  <2>. SUFFICES ASSUME NEW g \in Pages
                PROVE  g \in free' \/ \E s \in Procs, u \in Roles : ptr'[s][u] = g
    BY DEF Kept
  <2>1. CASE g \in free
    BY <2>1, <1>3, <1>5
  <2>2. CASE g \notin free
    BY <2>2, <1>1, <1>4 DEF Kept
  <2>. QED BY <2>1, <2>2
<1>. QED BY <1>1, <1>2, <1>3, <1>6

\* Pages that lose their role are freed or get another role.
LEMMA MovedKept ==
  ASSUME IInv, Kept, free \subseteq free',
         \A s \in Procs, r \in Roles : ptr[s][r] # None =>
           ptr[s][r] \in free' \/ \E t \in Procs, u \in Roles : ptr'[t][u] = ptr[s][r]
  PROVE  Kept'
<1>1. None \notin Pages
  BY VmAssumption
<1>. QED BY <1>1 DEF Kept

\* Forks looks at slots, calls and kernel stacks only.
LEMMA ForksKeep ==
  ASSUME Forks, NEW p \in Procs, job \in [Procs -> Job], job' \in [Procs -> Job],
         \A s \in Procs : s # p => job'[s] = job[s],
         job'[p].child = job[p].child, job'[p].call = job[p].call \/ (job'[p].call # "fork" /\ job[p].call # "fork"),
         job'[p].pc = "kstack" => job[p].pc = "kstack",
         state' = state, \A s \in Procs : ptr'[s][Kstack] = ptr[s][Kstack]
  PROVE  Forks'
<1>1. \A s \in Procs : job'[s].child = job[s].child /\ (job'[s].call = "fork" <=> job[s].call = "fork")
  OBVIOUS
<1>2. \A s \in Procs : job[s].call = "fork" => job[s].child \in Procs
  <2>1. \A s \in Procs : job[s].child \in Procs \cup {None}
    BY DEF Job
  <2>. QED BY <2>1 DEF Forks
<1>3. \A s \in Procs : job'[s].pc = "kstack" => job[s].pc = "kstack"
  OBVIOUS
<1>. QED BY <1>1, <1>2, <1>3 DEF Forks

\* A call that fails and frees what it built.
LEMMA AbortWhole ==
  ASSUME IInv, Whole, NEW p \in Procs, NEW gone \in SUBSET (Image("cur") \cup Image("new")),
         Abort(p, gone, {}), job[p].pc # "idle", job[p].pc # "map",
         \A r \in Image("new") : r \in gone \/ ptr[p][r] = None,
         Tabled(p, "cur")', Mapped(p, "cur", PGROUNDUP(sz[p]))'
  PROVE  Whole'
<1>. DEFINE q == job[p].child
<1>a. /\ ptr \in [Procs -> [Roles -> Pages \cup {None}]] /\ job \in [Procs -> Job]
      /\ job[p] \in Job /\ q \in Procs \cup {None} /\ sz \in [Procs -> Nat]
      /\ state \in [Procs -> {"UNUSED", "EMBRYO", "RUNNING", "ZOMBIE"}]
      /\ CurOK(p) /\ NewOK(p) /\ MemOK(p) /\ CallOK(p)
      /\ None \notin Procs /\ None \notin Pages
  BY Facts
<1>b. panic = "no" /\ Kept /\ Forks /\ \A s \in Procs : ProcOK(s)
  BY DEF Whole
<1>c. state[p] = "RUNNING"
  BY <1>a DEF CallOK
<1>d. q # None => state[q] = "EMBRYO" /\ q # p /\ q # InitProc
  BY <1>b, <1>c DEF Forks
<1>e. \A s \in Procs, r \in Roles :
        ptr'[s][r] = IF (s = p /\ r \in gone) \/ (s = q /\ r = Kstack) THEN None ELSE ptr[s][r]
  BY DEF Abort
<1>f. /\ state' = (IF q = None THEN state ELSE [state EXCEPT ![q] = "UNUSED"])
      /\ job' = [job EXCEPT ![p] = Idle] /\ sz' = sz /\ panic' = panic
  BY DEF Abort
<1>g. job'[p] = Idle /\ \A s \in Procs : s # p => job'[s] = job[s]
  BY <1>a, <1>f
<1>h. state'[p] = "RUNNING" /\ \A s \in Procs : s # q => state'[s] = state[s]
  BY <1>a, <1>c, <1>d, <1>f
<1>i. q # None => state'[q] = "UNUSED"
  BY <1>a, <1>f
<1>1. Kept'
  <2>. DEFINE F == ({ptr[p][r] : r \in gone} \ {None})
                     \cup (IF q = None THEN {} ELSE {ptr[q][Kstack]} \ {None})
  <2>1. free' = free \cup F
    BY DEF Abort
  <2>2. ASSUME NEW s \in Procs, NEW r \in Roles, ptr[s][r] # None
        PROVE  ptr[s][r] \in free' \/ \E t \in Procs, u \in Roles : ptr'[t][u] = ptr[s][r]
    <3>1. CASE s = p /\ r \in gone
      BY <2>1, <2>2, <3>1
    <3>2. CASE s = q /\ r = Kstack
      BY <2>1, <2>2, <3>2, <1>a
    <3>3. CASE ~(s = p /\ r \in gone) /\ ~(s = q /\ r = Kstack)
      BY <3>3, <1>e
    <3>. QED BY <3>1, <3>2, <3>3
  <2>. QED BY <2>1, <2>2, <1>b, MovedKept
<1>2. ProcOK(p)'
  <2>1. \A r \in Image("new") : ptr'[p][r] = None
    BY <1>e, RoleFacts
  <2>2. ptr'[p][Mem] = None
    BY <1>a, <1>e, RoleFacts DEF MemOK
  <2>3. CurOK(p)'
    <3>1. sz[p] > 0 /\ sz[p] < KERNBASE
      BY <1>a, <1>c DEF CurOK
    <3>. QED BY <3>1, <1>f, <1>g, <1>h DEF CurOK, Idle
  <2>4. NewOK(p)'
    <3>1. Tabled(p, "new")'
      BY <2>1, RoleFacts DEF Tabled
    <3>2. ~Building(p)'
      BY <1>g DEF Building, Idle
    <3>. QED BY <2>1, <3>1, <3>2 DEF NewOK
  <2>5. MemOK(p)'
    BY <2>2, <1>g DEF MemOK, Idle
  <2>6. CallOK(p)'
    BY <1>g DEF CallOK, Idle
  <2>. QED BY <2>3, <2>4, <2>5, <2>6 DEF ProcOK
<1>3. ASSUME NEW c \in Procs, c = q
      PROVE  ProcOK(c)'
  <2>0. q # None
    BY <1>3, <1>a
  <2>1. state[c] = "EMBRYO" /\ state'[c] = "UNUSED" /\ sz'[c] = sz[c] /\ job'[c] = job[c]
    BY <1>3, <1>d, <1>f, <1>g, <1>i, <2>0
  <2>2. CurOK(c) /\ NewOK(c) /\ MemOK(c) /\ CallOK(c)
    BY <1>b DEF ProcOK
  <2>3. \A r \in Roles : r # Kstack => ptr'[c][r] = ptr[c][r]
    BY <1>e, <1>d, <1>3, <2>0
  <2>4. \A r \in Image("cur") \cup Image("new") : r \in Roles /\ ptr'[c][r] = ptr[c][r]
    BY <2>3, RoleFacts
  <2>5. CurOK(c)'
    <3>1. Blank(c, "cur")'
      BY <2>1, <2>2, <2>4 DEF CurOK, Blank
    <3>2. Tabled(c, "cur")'
      BY <3>1, RoleFacts DEF Blank, Tabled
    <3>. QED BY <2>1, <3>1, <3>2 DEF CurOK
  <2>6. job[c].pc = "idle" /\ job[c] = Idle
    BY <2>1, <2>2 DEF CallOK
  <2>7. NewOK(c)'
    <3>1. \A r \in Image("new") : ptr'[c][r] = None
      BY <2>2, <2>4, <2>6 DEF NewOK, Building
    <3>2. Tabled(c, "new")' /\ ~Building(c)'
      BY <3>1, <2>1, <2>6, RoleFacts DEF Tabled, Building, Idle
    <3>. QED BY <3>1, <3>2 DEF NewOK
  <2>8. MemOK(c)'
    BY <2>1, <2>2, <2>3, RoleFacts DEF MemOK
  <2>9. CallOK(c)'
    BY <2>1, <2>6 DEF CallOK, Idle
  <2>. QED BY <2>5, <2>7, <2>8, <2>9 DEF ProcOK
<1>4. ASSUME NEW s \in Procs, s # p, s # q
      PROVE  ProcOK(s)'
  <2>1. ptr'[s] = ptr[s]
    <3>1. ptr'[s] = [r \in Roles |-> ptr[s][r]]
      BY <1>4 DEF Abort
    <3>. QED BY <3>1, <1>a
  <2>. QED BY <2>1, <1>4, <1>b, <1>f, <1>g, <1>h, Frame
<1>5. Forks'
  <2>1. state'[InitProc] = "RUNNING"
    BY <1>b, <1>d, <1>f, <1>h, VmAssumption DEF Forks
  <2>2. \A s \in Procs : job'[s].child # None <=> job'[s].call = "fork"
    BY <1>b, <1>g DEF Forks, Idle
  <2>3. ASSUME NEW s \in Procs, job'[s].call = "fork"
        PROVE  /\ state'[job'[s].child] = "EMBRYO"
               /\ job'[s].pc = "kstack" => ptr'[job'[s].child][Kstack] = None
               /\ \A t \in Procs : job'[t].child = job'[s].child => t = s
    <3>1. s # p /\ job'[s] = job[s]
      BY <2>3, <1>g DEF Idle
    <3>2. job[s].child # None /\ job[s].child \in Procs
      BY <2>3, <3>1, <1>a, <1>b DEF Forks, Job
    <3>3. job[s].child # q
      BY <2>3, <3>1, <3>2, <1>b DEF Forks
    <3>4. state'[job[s].child] = state[job[s].child]
      BY <3>2, <3>3, <1>h
    <3>5. job[s].child # p
      BY <3>1, <3>2, <2>3, <1>b, <1>c DEF Forks
    <3>6. ptr'[job[s].child][Kstack] = ptr[job[s].child][Kstack]
      BY <3>2, <3>3, <3>5, <1>e, RoleFacts
    <3>7. \A t \in Procs : job'[t].child = job[s].child => t # p
      BY <3>2, <1>g DEF Idle
    <3>8. \A t \in Procs : job'[t].child = job[s].child => t = s
      BY <3>7, <3>1, <2>3, <1>b, <1>g DEF Forks
    <3>. QED BY <3>1, <3>4, <3>6, <3>8, <2>3, <1>b DEF Forks
  <2>4. ASSUME NEW s \in Procs, state'[s] = "UNUSED"
        PROVE  ptr'[s][Kstack] = None
    <3>1. s # p
      BY <2>4, <1>h
    <3>2. CASE s = q
      BY <3>2, <1>e, RoleFacts
    <3>3. CASE s # q
      BY <3>1, <3>3, <2>4, <1>b, <1>e, <1>h, RoleFacts DEF Forks
    <3>. QED BY <3>2, <3>3
  <2>. QED BY <2>1, <2>2, <2>3, <2>4 DEF Forks
<1>6. panic' = "no"
  BY <1>b, <1>f
<1>. HIDE DEF q
<1>. QED BY <1>1, <1>2, <1>3, <1>4, <1>5, <1>6 DEF Whole

\* A call that fails while p's current image stays as it is.
LEMMA GiveUpWhole ==
  ASSUME IInv, Whole, NEW p \in Procs, NEW gone \in {{}, Image("new")},
         Abort(p, gone, {}), job[p].pc # "idle", job[p].pc # "map", job[p].call # "sbrk",
         \A r \in Image("new") : r \in gone \/ ptr[p][r] = None
  PROVE  Whole'
<1>1. /\ CurOK(p) /\ CallOK(p) /\ job[p].child \in Procs \cup {None}
      /\ panic = "no" /\ Forks
  BY Facts DEF Whole
<1>2. state[p] = "RUNNING"
  BY <1>1 DEF CallOK
<1>3. sz' = sz
  BY DEF Abort
<1>4. \A r \in Image("cur") : ptr'[p][r] = ptr[p][r]
  <2>1. \A r \in Image("cur") : r \in Roles /\ r \notin gone /\ r # Kstack
    BY RoleFacts
  <2>. QED BY <2>1 DEF Abort
<1>5. Tabled(p, "cur")'
  BY <1>1, <1>4, RoleFacts DEF CurOK, Tabled
<1>6. Mapped(p, "cur", PGROUNDUP(sz[p]))
  BY <1>1, <1>2 DEF CurOK, Idle
<1>7. Mapped(p, "cur", PGROUNDUP(sz[p]))'
  BY <1>3, <1>4, <1>6, RoleFacts DEF Mapped
<1>8. gone \in SUBSET (Image("cur") \cup Image("new"))
  OBVIOUS
<1>. QED BY <1>5, <1>7, <1>8, AbortWhole

\* A step that changes what p alone has.
LEMMA OwnStep ==
  ASSUME Whole, NEW p \in Procs, ProcOK(p)', Forks', Kept', panic' = panic,
         \A s \in Procs : s # p => /\ ptr'[s] = ptr[s] /\ sz'[s] = sz[s]
                                   /\ state'[s] = state[s] /\ job'[s] = job[s]
  PROVE  Whole'
<1>1. ASSUME NEW s \in Procs, s # p
      PROVE  ProcOK(s)'
  <2>1. ProcOK(s)
    BY DEF Whole
  <2>. QED BY <1>1, <2>1, Frame
<1>. QED BY <1>1 DEF Whole

LEMMA SameKept ==
  ASSUME Kept, UNCHANGED <<free, ptr>>
  PROVE  Kept'
BY DEF Kept

\* The pages before the rounded size are those that start below the size.
LEMMA MappedExact ==
  ASSUME NEW p, sz[p] \in Nat, Mapped(p, "cur", PGROUNDUP(sz[p]))
  PROVE  Exact(p)
<1>. SUFFICES ASSUME NEW v \in VPages
              PROVE  ptr[p][Pg("cur", v)] # None <=> v * PGSIZE < sz[p]
  BY DEF Exact
<1>1. v \in Nat
  BY Sizes DEF VPages
<1>. QED BY <1>1, RoundUp DEF Mapped

\* What a process in user mode has.
LEMMA ReadyFacts ==
  ASSUME IInv, Whole, NEW p \in Procs, Ready(p)
  PROVE  /\ state[p] = "RUNNING" /\ job[p] = Idle
         /\ Mapped(p, "cur", PGROUNDUP(sz[p])) /\ sz[p] > 0 /\ sz[p] < KERNBASE
         /\ \A r \in Image("new") : ptr[p][r] = None
         /\ ptr[p][Mem] = None
<1>1. state[p] = "RUNNING" /\ job[p] = Idle
  BY DEF Ready, Running
<1>2. CurOK(p) /\ NewOK(p) /\ MemOK(p)
  BY Facts
<1>3. \A v \in VPages : ~(v < 0)
  BY Sizes DEF VPages
<1>4. ~Mapped(p, "cur", 0)
  BY <1>3 DEF Ready, Gone, Mapped
<1>5. Mapped(p, "cur", PGROUNDUP(sz[p])) /\ sz[p] > 0 /\ sz[p] < KERNBASE
  BY <1>1, <1>2, <1>4 DEF CurOK, Idle
<1>6. \A r \in Image("new") : ptr[p][r] = None
  BY <1>1, <1>2 DEF NewOK, Building, Idle
<1>7. ptr[p][Mem] = None
  BY <1>1, <1>2 DEF MemOK, Idle
<1>. QED BY <1>1, <1>5, <1>6, <1>7

LEMMA ExecWhole ==
  ASSUME IInv, Whole, NEW p \in Procs, Exec(p)
  PROVE  Whole'
<1>1. Ready(p) /\ Start(p, "exec", "dir", 0, 0, None) /\ UNCHANGED <<free, ptr, sz, state, short, panic>>
  BY DEF Exec
<1>a. /\ job \in [Procs -> Job] /\ CurOK(p) /\ NewOK(p) /\ MemOK(p) /\ Kept /\ Forks
  BY Facts DEF Whole
<1>b. /\ state[p] = "RUNNING" /\ job[p] = Idle
      /\ Mapped(p, "cur", PGROUNDUP(sz[p])) /\ sz[p] > 0 /\ sz[p] < KERNBASE
      /\ \A r \in Image("new") : ptr[p][r] = None
      /\ ptr[p][Mem] = None
  BY <1>1, ReadyFacts
<1>2. /\ job'[p] = [pc |-> "dir", call |-> "exec", a |-> 0, end |-> 0, child |-> None, ph |-> NoHeader]
      /\ \A s \in Procs : s # p => job'[s] = job[s]
  BY <1>1, <1>a DEF Start
<1>3. job' \in [Procs -> Job]
  BY <1>1, <1>a, HeaderFacts DEF Start, Job, Pcs
<1>4. CurOK(p)'
  BY <1>1, <1>2, <1>a, <1>b DEF CurOK, Tabled, Mapped
<1>5. NewOK(p)'
  BY <1>1, <1>2, <1>a, <1>b DEF NewOK, Tabled, Building
<1>6. MemOK(p)' /\ CallOK(p)'
  BY <1>1, <1>2, <1>b, Sizes DEF MemOK, CallOK
<1>7. Forks'
  BY <1>1, <1>2, <1>3, <1>a, <1>b, ForksKeep DEF Idle
<1>8. Kept'
  BY <1>1, <1>a, SameKept
<1>. QED BY <1>1, <1>2, <1>4, <1>5, <1>6, <1>7, <1>8, OwnStep DEF ProcOK

LEMMA SbrkGrowWhole ==
  ASSUME IInv, Whole, NEW p \in Procs, SbrkGrow(p)
  PROVE  Whole'
<1>1. PICK n \in Increments : /\ Ready(p) /\ p # InitProc /\ n > 0 /\ sz[p] + n < KERNBASE
                              /\ Start(p, "sbrk", "page", PGROUNDUP(sz[p]), sz[p] + n, None)
                              /\ UNCHANGED <<free, ptr, sz, state, short, panic>>
  BY DEF SbrkGrow
<1>a. /\ job \in [Procs -> Job] /\ CurOK(p) /\ NewOK(p) /\ MemOK(p) /\ Kept /\ Forks
      /\ sz[p] \in Nat
  BY Facts DEF Whole
<1>b. /\ state[p] = "RUNNING" /\ job[p] = Idle
      /\ Mapped(p, "cur", PGROUNDUP(sz[p])) /\ sz[p] > 0 /\ sz[p] < KERNBASE
      /\ \A r \in Image("new") : ptr[p][r] = None
      /\ ptr[p][Mem] = None
  BY <1>1, ReadyFacts
<1>c. n \in Int
  BY VmAssumption
<1>d. PGROUNDUP(sz[p]) \in Nat /\ sz[p] + n \in Nat /\ PGROUNDUP(sz[p]) <= PGROUNDUP(sz[p] + n)
  BY <1>1, <1>a, <1>c, PgRound, RoundMono
<1>2. /\ job'[p] = [pc |-> "page", call |-> "sbrk", a |-> PGROUNDUP(sz[p]), end |-> sz[p] + n, child |-> None,
                  ph |-> NoHeader]
      /\ \A s \in Procs : s # p => job'[s] = job[s]
  BY <1>1, <1>a DEF Start
<1>3. job' \in [Procs -> Job]
  BY <1>1, <1>a, <1>d, HeaderFacts DEF Start, Job, Pcs
<1>4. CurOK(p)'
  BY <1>1, <1>2, <1>a, <1>b DEF CurOK, Tabled, Mapped
<1>5. NewOK(p)'
  BY <1>1, <1>2, <1>a, <1>b DEF NewOK, Tabled, Building
<1>6. MemOK(p)'
  BY <1>1, <1>2, <1>b DEF MemOK
<1>9. CallOK(p)'
  <2>1. sz'[p] = sz[p] /\ state'[p] = "RUNNING" /\ sz[p] < sz[p] + n
    BY <1>1, <1>a, <1>b, <1>c
  <2>2. PGROUNDUP(sz[p]) <= PGROUNDUP(sz[p])
    BY <1>d
  <2>. QED BY <1>1, <1>2, <1>d, <2>1, <2>2 DEF CallOK
<1>7. Forks'
  BY <1>1, <1>2, <1>3, <1>a, <1>b, ForksKeep DEF Idle
<1>8. Kept'
  BY <1>1, <1>a, SameKept
<1>. QED BY <1>1, <1>2, <1>4, <1>5, <1>6, <1>7, <1>8, <1>9, OwnStep DEF ProcOK

LEMMA SbrkShrinkWhole ==
  ASSUME IInv, Whole, NEW p \in Procs, SbrkShrink(p)
  PROVE  Whole'
<1>1. PICK n \in Increments :
        /\ Ready(p) /\ p # InitProc /\ (sz[p] + n) % UINT < sz[p]
        /\ Kfree(p, Dealloc(p, "cur", sz[p], (sz[p] + n) % UINT))
        /\ sz' = [sz EXCEPT ![p] = IF (sz[p] + n) % UINT = 0 THEN @ ELSE (sz[p] + n) % UINT]
        /\ UNCHANGED <<state, job, short, panic>>
  BY DEF SbrkShrink
<1>a. /\ job \in [Procs -> Job] /\ CurOK(p) /\ NewOK(p) /\ MemOK(p) /\ CallOK(p) /\ Kept /\ Forks
      /\ sz \in [Procs -> Nat] /\ sz[p] \in Nat /\ ptr \in [Procs -> [Roles -> Pages \cup {None}]]
  BY Facts DEF Whole
<1>b. /\ state[p] = "RUNNING" /\ job[p] = Idle
      /\ Mapped(p, "cur", PGROUNDUP(sz[p])) /\ sz[p] > 0 /\ sz[p] < KERNBASE
      /\ \A r \in Image("new") : ptr[p][r] = None
      /\ ptr[p][Mem] = None
  BY <1>1, ReadyFacts
<1>c. PICK new \in Nat : new = (sz[p] + n) % UINT
  <2>1. n \in Int /\ UINT \in Nat /\ UINT > 0
    BY VmAssumption
  <2>. QED BY <2>1, <1>a
<1>. DEFINE D == Dealloc(p, "cur", sz[p], new)
<1>d. new < sz[p] /\ Kfree(p, D) /\ sz' = [sz EXCEPT ![p] = IF new = 0 THEN @ ELSE new]
  BY <1>1, <1>c
<1>e. PGROUNDUP(new) \in Nat /\ PGROUNDUP(sz[p]) \in Nat /\ PGROUNDUP(new) <= PGROUNDUP(sz[p])
  BY <1>a, <1>c, <1>d, PgRound, RoundMono
<1>f. \A v \in VPages : ptr[p][Pg("cur", v)] # None =>
         (Pg("cur", v) \in D <=> ~(v < PGROUNDUP(new)))
  <2>. SUFFICES ASSUME NEW v \in VPages, ptr[p][Pg("cur", v)] # None
                PROVE  Pg("cur", v) \in D <=> ~(v < PGROUNDUP(new))
    OBVIOUS
  <2>1. PGROUNDUP(sz[p]) <= PGROUNDUP(sz[p]) /\ Tabled(p, "cur")
    BY <1>a, <1>e DEF CurOK
  <2>. QED BY <2>1, <1>a, <1>b, <1>e, DeallocRest
<1>g. \A r \in D : \E v \in VPages : r = Pg("cur", v)
  BY DEF Dealloc
<1>. HIDE DEF D
<1>2. /\ \A s \in Procs : s # p => ptr'[s] = ptr[s]
      /\ \A r \in Roles : ptr'[p][r] = IF r \in D THEN None ELSE ptr[p][r]
  BY <1>d, <1>a DEF Kfree
<1>3. Kept'
  <2>1. free' = free \cup ({ptr[p][r] : r \in D} \ {None})
    BY <1>d DEF Kfree
  <2>2. ASSUME NEW s \in Procs, NEW r \in Roles, ptr[s][r] # None
        PROVE  ptr[s][r] \in free' \/ \E t \in Procs, u \in Roles : ptr'[t][u] = ptr[s][r]
    <3>1. CASE s = p /\ r \in D
      BY <2>1, <2>2, <3>1
    <3>2. CASE ~(s = p /\ r \in D)
      BY <1>2, <3>2
    <3>. QED BY <3>1, <3>2
  <2>. QED BY <1>a, <2>1, <2>2, MovedKept
<1>4. \A v \in VPages : ptr'[p][Pg("cur", v)] # None <=> v < PGROUNDUP(new)
  <2>. SUFFICES ASSUME NEW v \in VPages
                PROVE  ptr'[p][Pg("cur", v)] # None <=> v < PGROUNDUP(new)
    OBVIOUS
  <2>1. v \in Nat /\ Pg("cur", v) \in Roles
    BY RoleFacts, Sizes DEF VPages
  <2>2. ptr[p][Pg("cur", v)] # None <=> v < PGROUNDUP(sz[p])
    BY <1>b DEF Mapped
  <2>. QED BY <2>1, <2>2, <1>2, <1>e, <1>f
<1>5. \A r \in Roles : (\A v \in VPages : r # Pg("cur", v)) => ptr'[p][r] = ptr[p][r]
  BY <1>2, <1>g
<1>6. CurOK(p)'
  <2>1. Tabled(p, "cur")'
    <3>1. \A v \in VPages : ptr'[p][Tab("cur", v)] = ptr[p][Tab("cur", v)]
      BY <1>5, RoleFacts
    <3>2. \A v \in VPages : ptr'[p][Pg("cur", v)] # None => ptr[p][Pg("cur", v)] # None
      BY <1>2, RoleFacts
    <3>. QED BY <3>1, <3>2, <1>a DEF CurOK, Tabled
  <2>2. state'[p] = "RUNNING" /\ job'[p] = Idle
    BY <1>1, <1>b
  <2>3. CASE new = 0
    <3>1. Mapped(p, "cur", 0)'
      BY <1>4, <2>3, RoundZero DEF Mapped
    <3>2. sz'[p] = sz[p]
      BY <1>d, <2>3, <1>a
    <3>. QED BY <1>1, <1>b, <2>1, <2>2, <3>1, <3>2 DEF CurOK, Idle
  <2>4. CASE new # 0
    <3>1. sz'[p] = new /\ new > 0 /\ new < KERNBASE
      BY <1>d, <1>b, <2>4, <1>a, <1>c, Sizes
    <3>2. Mapped(p, "cur", PGROUNDUP(sz[p]))'
      BY <1>4, <3>1 DEF Mapped
    <3>. QED BY <2>1, <2>2, <3>1, <3>2 DEF CurOK, Idle
  <2>. QED BY <2>3, <2>4
<1>7. \A r \in Image("new") \cup {Mem, Kstack} : ptr'[p][r] = ptr[p][r]
  BY <1>5, RoleFacts
<1>8. NewOK(p)' /\ MemOK(p)' /\ CallOK(p)'
  <2>1. NewOK(p)'
    BY <1>1, <1>7, <1>b, RoleFacts DEF NewOK, Tabled, Building, Idle
  <2>2. MemOK(p)'
    BY <1>1, <1>7, <1>a DEF MemOK
  <2>3. CallOK(p)'
    BY <1>1, <1>b DEF CallOK, Idle
  <2>. QED BY <2>1, <2>2, <2>3
<1>9. Forks'
  BY <1>1, <1>2, <1>7, <1>a, ForksKeep
<1>10. \A s \in Procs : s # p => ptr'[s] = ptr[s] /\ sz'[s] = sz[s] /\ state'[s] = state[s] /\ job'[s] = job[s]
  BY <1>1, <1>2, <1>d, <1>a
<1>. QED BY <1>1, <1>3, <1>6, <1>8, <1>9, <1>10, OwnStep DEF ProcOK

LEMMA ExitWhole ==
  ASSUME IInv, Whole, NEW p \in Procs, Exit(p)
  PROVE  Whole'
<1>a. /\ job \in [Procs -> Job] /\ CurOK(p) /\ NewOK(p) /\ MemOK(p) /\ CallOK(p) /\ Kept /\ Forks
      /\ state \in [Procs -> {"UNUSED", "EMBRYO", "RUNNING", "ZOMBIE"}] /\ sz[p] \in Nat
  BY Facts DEF Whole
<1>1. state[p] = "RUNNING" /\ job[p] = Idle
  BY DEF Exit, Running
<1>2. CASE p = InitProc /\ ~Exact(p)
  <2>1. Mapped(p, "cur", PGROUNDUP(sz[p])) /\ sz[p] > 0
    BY <1>2, <1>1, <1>a DEF CurOK, Idle
  <2>2. Exact(p)
    BY <2>1, <1>a, MappedExact
  <2>. QED BY <1>2, <2>2
<1>3. CASE /\ p # InitProc /\ state' = [state EXCEPT ![p] = "ZOMBIE"]
           /\ UNCHANGED <<free, ptr, sz, job, short, panic>>
  <2>1. state'[p] = "ZOMBIE" /\ \A s \in Procs : s # p => state'[s] = state[s]
    BY <1>3, <1>a
  <2>2. CurOK(p)'
    BY <1>1, <1>3, <2>1, <1>a DEF CurOK, Tabled, Mapped, Idle
  <2>3. NewOK(p)' /\ MemOK(p)'
    BY <1>3, <1>a DEF NewOK, MemOK, Tabled, Mapped, Building
  <2>4. CallOK(p)'
    BY <1>1, <1>3 DEF CallOK, Idle
  <2>5. \A s \in Procs : job[s].call = "fork" => job[s].child \in Procs
    BY <1>a DEF Forks, Job
  <2>6. Forks'
    BY <1>1, <1>3, <1>a, <2>1, <2>5, VmAssumption DEF Forks
  <2>7. Kept'
    BY <1>3, <1>a, SameKept
  <2>. QED BY <1>3, <2>1, <2>2, <2>3, <2>4, <2>6, <2>7, OwnStep DEF ProcOK
<1>. QED BY <1>2, <1>3 DEF Exit

LEMMA ReapWhole ==
  ASSUME IInv, Whole, NEW p \in Procs, Reap(p)
  PROVE  Whole'
<1>. DEFINE S == {Kstack} \cup Image("cur")
<1>a. /\ job \in [Procs -> Job] /\ CurOK(p) /\ NewOK(p) /\ MemOK(p) /\ CallOK(p) /\ Kept /\ Forks
      /\ state \in [Procs -> {"UNUSED", "EMBRYO", "RUNNING", "ZOMBIE"}]
      /\ ptr \in [Procs -> [Roles -> Pages \cup {None}]]
  BY Facts DEF Whole
<1>b. state[p] = "ZOMBIE" /\ state' = [state EXCEPT ![p] = "UNUSED"] /\ UNCHANGED <<sz, job, short, panic>>
  BY DEF Reap
<1>c. Kfree(p, S)
  BY FreevmAll DEF Reap
<1>d. job[p] = Idle /\ job[p].pc = "idle"
  BY <1>a, <1>b DEF CallOK
<1>1. /\ \A s \in Procs : s # p => ptr'[s] = ptr[s]
      /\ \A r \in Roles : ptr'[p][r] = IF r \in S THEN None ELSE ptr[p][r]
      /\ free' = free \cup ({ptr[p][r] : r \in S} \ {None})
  BY <1>c, <1>a DEF Kfree
<1>2. Kept'
  <2>1. ASSUME NEW s \in Procs, NEW r \in Roles, ptr[s][r] # None
        PROVE  ptr[s][r] \in free' \/ \E t \in Procs, u \in Roles : ptr'[t][u] = ptr[s][r]
    <3>. HIDE DEF S
    <3>1. CASE s = p /\ r \in S
      BY <1>1, <2>1, <3>1
    <3>2. CASE ~(s = p /\ r \in S)
      BY <1>1, <3>2
    <3>. QED BY <3>1, <3>2
  <2>. QED BY <1>a, <1>1, <2>1, MovedKept
<1>3. state'[p] = "UNUSED" /\ \A s \in Procs : s # p => state'[s] = state[s]
  BY <1>a, <1>b
<1>4. /\ \A r \in Image("cur") : ptr'[p][r] = None
      /\ \A r \in Image("new") : ptr'[p][r] = ptr[p][r]
      /\ ptr'[p][Kstack] = None /\ ptr'[p][Mem] = ptr[p][Mem]
  BY <1>1, RoleFacts
<1>5. CurOK(p)'
  BY <1>3, <1>4, RoleFacts DEF CurOK, Tabled, Blank
<1>6. NewOK(p)'
  BY <1>4, <1>b, <1>a, RoleFacts DEF NewOK, Tabled, Mapped, Building
<1>7. MemOK(p)' /\ CallOK(p)'
  BY <1>4, <1>a, <1>b, <1>d DEF MemOK, CallOK, Idle
<1>8. Forks'
  <2>1. \A s \in Procs : job[s].call = "fork" => job[s].child \in Procs /\ job[s].child # p
    BY <1>a, <1>b DEF Forks, Job
  <2>2. p # InitProc
    BY <1>a, <1>b DEF Forks
  <2>. QED BY <2>1, <2>2, <1>a, <1>b, <1>1, <1>3, <1>4, VmAssumption DEF Forks
<1>. QED BY <1>b, <1>1, <1>2, <1>3, <1>5, <1>6, <1>7, <1>8, OwnStep DEF ProcOK

LEMMA ForkWhole ==
  ASSUME IInv, Whole, NEW p \in Procs, NEW q \in Procs, Fork(p, q)
  PROVE  Whole'
<1>a. /\ job \in [Procs -> Job] /\ CurOK(p) /\ NewOK(p) /\ MemOK(p) /\ CallOK(p) /\ Kept /\ Forks
      /\ state \in [Procs -> {"UNUSED", "EMBRYO", "RUNNING", "ZOMBIE"}] /\ sz[p] \in Nat
      /\ None \notin Procs
  BY Facts DEF Whole
<1>b. /\ Ready(p) /\ state[q] = "UNUSED" /\ state' = [state EXCEPT ![q] = "EMBRYO"]
      /\ Start(p, "fork", "kstack", 0, sz[p], q)
      /\ UNCHANGED <<free, ptr, sz, short, panic>>
  BY DEF Fork
<1>c. /\ state[p] = "RUNNING" /\ job[p] = Idle
      /\ Mapped(p, "cur", PGROUNDUP(sz[p])) /\ sz[p] > 0 /\ sz[p] < KERNBASE
      /\ \A r \in Image("new") : ptr[p][r] = None
      /\ ptr[p][Mem] = None
  BY <1>b, ReadyFacts
<1>d. q # p /\ CurOK(q) /\ NewOK(q) /\ MemOK(q) /\ CallOK(q)
  BY <1>b, <1>c DEF Whole, ProcOK
<1>e. job[q] = Idle
  BY <1>d, <1>b DEF CallOK
<1>1. /\ job'[p] = [pc |-> "kstack", call |-> "fork", a |-> 0, end |-> sz[p], child |-> q, ph |-> NoHeader]
      /\ \A s \in Procs : s # p => job'[s] = job[s]
      /\ state'[q] = "EMBRYO" /\ \A s \in Procs : s # q => state'[s] = state[s]
  BY <1>a, <1>b DEF Start
<1>2. ProcOK(p)'
  <2>1. CurOK(p)'
    BY <1>a, <1>b, <1>c, <1>d, <1>1 DEF CurOK, Tabled, Mapped
  <2>2. NewOK(p)'
    BY <1>a, <1>b, <1>c, <1>1 DEF NewOK, Tabled, Building
  <2>3. MemOK(p)' /\ CallOK(p)'
    BY <1>b, <1>c, <1>d, <1>1 DEF MemOK, CallOK
  <2>. QED BY <2>1, <2>2, <2>3 DEF ProcOK
<1>3. ProcOK(q)'
  <2>1. CurOK(q)'
    BY <1>b, <1>d, <1>1 DEF CurOK, Tabled, Blank
  <2>2. NewOK(q)' /\ MemOK(q)'
    BY <1>b, <1>d, <1>1 DEF NewOK, MemOK, Tabled, Mapped, Building
  <2>3. CallOK(q)'
    BY <1>d, <1>e, <1>1 DEF CallOK, Idle
  <2>. QED BY <2>1, <2>2, <2>3 DEF ProcOK
<1>4. \A s \in Procs : s # p /\ s # q => ProcOK(s)'
  BY <1>b, <1>1, Frame DEF Whole
<1>5. Forks'
  <2>1. \A s \in Procs : s # p => job[s].child # q
    BY <1>a, <1>b DEF Forks
  <2>2. \A s \in Procs : job[s].call = "fork" => job[s].child \in Procs /\ job[s].child # q
    BY <1>a, <1>b DEF Forks, Job
  <2>3. q # InitProc
    BY <1>a, <1>b DEF Forks
  <2>4. state'[InitProc] = "RUNNING"
    BY <1>a, <1>1, <2>3, VmAssumption DEF Forks
  <2>5. \A s \in Procs : job'[s].child # None <=> job'[s].call = "fork"
    BY <1>a, <1>1 DEF Forks
  <2>6. ASSUME NEW s \in Procs, job'[s].call = "fork"
        PROVE  /\ state'[job'[s].child] = "EMBRYO"
               /\ job'[s].pc = "kstack" => ptr'[job'[s].child][Kstack] = None
               /\ \A t \in Procs : job'[t].child = job'[s].child => t = s
    <3>1. CASE s = p
      BY <3>1, <1>1, <1>a, <1>b, <2>1 DEF Forks
    <3>2. CASE s # p
      <4>1. job'[s] = job[s] /\ job[s].child # q /\ job[s].child \in Procs
        BY <3>2, <2>6, <1>1, <2>2
      <4>2. state'[job[s].child] = state[job[s].child]
        BY <4>1, <1>1
      <4>3. \A t \in Procs : job'[t].child = job[s].child => t # p
        BY <4>1, <1>1
      <4>. QED BY <4>1, <4>2, <4>3, <3>2, <2>6, <1>a, <1>b, <1>1 DEF Forks
    <3>. QED BY <3>1, <3>2
  <2>7. \A s \in Procs : state'[s] = "UNUSED" => ptr'[s][Kstack] = None
    BY <1>a, <1>b, <1>1 DEF Forks
  <2>. QED BY <2>4, <2>5, <2>6, <2>7 DEF Forks
<1>6. Kept'
  BY <1>a, <1>b, SameKept
<1>. QED BY <1>b, <1>2, <1>3, <1>4, <1>5, <1>6 DEF Whole

LEMMA AllocKstackWhole ==
  ASSUME IInv, Whole, NEW p \in Procs, AllocKstack(p)
  PROVE  Whole'
<1>a. /\ job \in [Procs -> Job] /\ job[p] \in Job /\ CurOK(p) /\ NewOK(p) /\ MemOK(p) /\ CallOK(p)
      /\ Kept /\ Forks /\ job[p].child \in Procs \cup {None} /\ None \notin Procs
  BY Facts DEF Whole
<1>b. job[p].pc = "kstack"
  BY DEF AllocKstack, At_
<1>c. job[p].call = "fork" /\ job[p].a = 0 /\ state[p] = "RUNNING"
  BY <1>a, <1>b DEF CallOK
<1>d. PICK q \in Procs : q = job[p].child
  BY <1>a, <1>c DEF Forks
<1>e. state[q] = "EMBRYO" /\ ptr[q][Kstack] = None /\ q # p /\ \A s \in Procs : job[s].child = q => s = p
  BY <1>a, <1>b, <1>c, <1>d DEF Forks
<1>1. CASE Kalloc(q, Kstack) /\ Pc(p, "dir") /\ UNCHANGED <<sz, state, short, panic>>
  <2>1. /\ Kept'
        /\ \A s \in Procs : s # q => ptr'[s] = ptr[s]
        /\ \A u \in Roles : u # Kstack => ptr'[q][u] = ptr[q][u]
    BY <1>1, <1>a, <1>e, KallocKept, RoleFacts
  <2>2. /\ job'[p] = [job[p] EXCEPT !.pc = "dir"]
        /\ \A s \in Procs : s # p => job'[s] = job[s]
    BY <1>1, <1>a DEF Pc
  <2>3. /\ job'[p].pc = "dir" /\ job'[p].call = "fork" /\ job'[p].a = 0
        /\ job'[p].end = job[p].end /\ job'[p].child = q
    BY <2>2, <1>a, <1>c, <1>d DEF Job
  <2>4. ProcOK(p)'
    <3>1. ptr'[p] = ptr[p] /\ sz'[p] = sz[p] /\ state'[p] = state[p]
      BY <1>1, <1>e, <2>1
    <3>2. CurOK(p)'
      BY <3>1, <2>3, <1>a, <1>b, <1>c DEF CurOK, Tabled, Mapped, Idle
    <3>3. NewOK(p)' /\ MemOK(p)'
      BY <3>1, <2>3, <1>a, <1>b DEF NewOK, MemOK, Tabled, Building
    <3>4. CallOK(p)'
      BY <3>1, <2>3, <1>a, <1>c DEF CallOK
    <3>. QED BY <3>2, <3>3, <3>4 DEF ProcOK
  <2>5. ProcOK(q)'
    <3>1. CurOK(q) /\ NewOK(q) /\ MemOK(q) /\ CallOK(q)
      BY DEF Whole, ProcOK
    <3>2. job'[q] = job[q] /\ sz'[q] = sz[q] /\ state'[q] = state[q]
      BY <1>1, <1>e, <2>2
    <3>3. \A r \in Image("cur") \cup Image("new") \cup {Mem} : ptr'[q][r] = ptr[q][r]
      BY <2>1, RoleFacts
    <3>4. CurOK(q)'
      BY <3>1, <3>2, <3>3, <1>e, RoleFacts DEF CurOK, Tabled, Blank
    <3>5. NewOK(q)' /\ MemOK(q)'
      BY <3>1, <3>2, <3>3, RoleFacts DEF NewOK, MemOK, Tabled, Mapped, Building
    <3>6. CallOK(q)'
      BY <3>1, <3>2 DEF CallOK
    <3>. QED BY <3>4, <3>5, <3>6 DEF ProcOK
  <2>6. \A s \in Procs : s # p /\ s # q => ProcOK(s)'
    BY <1>1, <2>1, <2>2, Frame DEF Whole
  <2>7. Forks'
    <3>1. state' = state
      BY <1>1
    <3>2. \A s \in Procs : job'[s].child = job[s].child /\ job'[s].call = job[s].call
      BY <2>2, <2>3, <1>c, <1>d
    <3>3. \A s \in Procs : job[s].call = "fork" => job[s].child \in Procs
      BY <1>a DEF Forks, Job
    <3>4. \A s \in Procs : job'[s].pc = "kstack" => job[s].pc = "kstack" /\ job[s].child # q
      BY <2>2, <2>3, <1>e
    <3>5. \A s \in Procs : s # q => ptr'[s][Kstack] = ptr[s][Kstack]
      BY <2>1
    <3>. QED BY <3>1, <3>2, <3>3, <3>4, <3>5, <1>a, <1>e DEF Forks
  <2>. QED BY <1>1, <2>1, <2>4, <2>5, <2>6, <2>7 DEF Whole
<1>2. CASE Abort(p, {}, {})
  <2>1. \A r \in Image("new") : ptr[p][r] = None
    BY <1>a, <1>b DEF NewOK, Building
  <2>2. {} \in {{}, Image("new")}
    OBVIOUS
  <2>. QED BY <1>2, <1>b, <1>c, <2>1, <2>2, GiveUpWhole
<1>. QED BY <1>1, <1>2, <1>d DEF AllocKstack

\* A page for a role of p that does not show in its current image, while the
\* call goes on.
LEMMA StageWhole ==
  ASSUME IInv, Whole, NEW p \in Procs, NEW r \in Image("new") \cup {Mem}, ptr[p][r] = None,
         Kalloc(p, r), NEW pc \in Pcs, Pc(p, pc), UNCHANGED <<sz, state, short, panic>>,
         job[p].pc # "idle", pc \notin {"idle", "kstack"},
         NewOK(p)', MemOK(p)', CallOK(p)'
  PROVE  Whole'
<1>a. /\ job \in [Procs -> Job] /\ job[p] \in Job /\ CurOK(p) /\ CallOK(p) /\ Kept /\ Forks
  BY Facts DEF Whole
<1>b. r \in Roles /\ r # Kstack /\ r \notin Image("cur")
  BY RoleFacts
<1>1. /\ Kept'
      /\ \A s \in Procs : s # p => ptr'[s] = ptr[s]
      /\ \A u \in Roles : u # r => ptr'[p][u] = ptr[p][u]
  BY <1>a, <1>b, KallocKept
<1>2. /\ job'[p] = [job[p] EXCEPT !.pc = pc]
      /\ \A s \in Procs : s # p => job'[s] = job[s]
      /\ job' \in [Procs -> Job]
  BY <1>a DEF Pc, Job
<1>3. /\ job'[p].pc = pc /\ job'[p].call = job[p].call /\ job'[p].a = job[p].a
      /\ job'[p].child = job[p].child
  BY <1>2, <1>a DEF Job
<1>4. \A u \in Image("cur") \cup {Kstack} : ptr'[p][u] = ptr[p][u]
  BY <1>1, <1>b, RoleFacts
<1>5. CurOK(p)'
  <2>1. state[p] = "RUNNING" /\ state'[p] = state[p] /\ sz'[p] = sz[p]
    BY <1>a DEF CallOK
  <2>2. Tabled(p, "cur")'
    BY <1>a, <1>4, RoleFacts DEF CurOK, Tabled
  <2>3. job[p] # Idle
    BY DEF Idle
  <2>4. job[p].call = "sbrk" => Mapped(p, "cur", job[p].a)'
    BY <1>a, <1>3, <1>4, <2>1, RoleFacts DEF CurOK, Mapped
  <2>5. job[p].call # "sbrk" => Mapped(p, "cur", PGROUNDUP(sz[p]))'
    BY <1>a, <1>4, <2>1, <2>3, RoleFacts DEF CurOK, Mapped
  <2>. QED BY <1>a, <1>3, <2>1, <2>2, <2>4, <2>5 DEF CurOK
<1>6. Forks'
  <2>1. \A s \in Procs : ptr'[s][Kstack] = ptr[s][Kstack]
    BY <1>1, <1>4
  <2>. QED BY <2>1, <1>a, <1>2, <1>3, ForksKeep
<1>. QED BY <1>1, <1>2, <1>5, <1>6, OwnStep DEF ProcOK

LEMMA SetupKvmWhole ==
  ASSUME IInv, Whole, NEW p \in Procs, SetupKvm(p), ~short'
  PROVE  Whole'
<1>. DEFINE dir == At("new", <<"dir", 0>>)
            kpt == At("new", <<"kpt", 0>>)
<1>a. /\ job \in [Procs -> Job] /\ job[p] \in Job /\ NewOK(p) /\ MemOK(p) /\ CallOK(p)
      /\ Kept /\ job[p].end \in Nat
  BY Facts DEF Whole
<1>b. dir \in Image("new") /\ kpt \in Image("new") /\ dir # kpt
  BY RoleFacts
<1>c. /\ \A v \in VPages : /\ Pg("new", v) # dir /\ Pg("new", v) # kpt /\ Tab("new", v) # dir
                           /\ Tab("new", v) # kpt /\ Pg("new", v) \in Image("new")
      /\ \A u \in Image("new") : u \in Roles /\ u # Mem
      /\ Mem \in Roles
  BY RoleFacts
<1>. HIDE DEF dir, kpt
<1>1. ASSUME At_(p, "dir") \/ At_(p, "kpt"), NEW pc \in Pcs, Pc(p, pc)
      PROVE  /\ job'[p].pc = pc /\ job'[p].call = job[p].call /\ job'[p].a = 0
             /\ job'[p].end = job[p].end /\ job[p].call \in {"fork", "exec"} /\ job[p].pc # "idle"
  <2>1. job'[p] = [job[p] EXCEPT !.pc = pc]
    BY <1>1, <1>a DEF Pc
  <2>. QED BY <2>1, <1>1, <1>a DEF Job, At_, CallOK
<1>2. CASE At_(p, "dir")
  <2>0. job[p].pc = "dir" /\ job[p].call \in {"fork", "exec"}
    BY <1>2, <1>a DEF At_, CallOK
  <2>1. \A u \in Image("new") : ptr[p][u] = None
    BY <2>0, <1>a DEF NewOK, Building
  <2>2. CASE Kalloc(p, dir) /\ Pc(p, "kpt") /\ UNCHANGED <<sz, state, short, panic>>
    <3>1. /\ job'[p].pc = "kpt" /\ job'[p].call = job[p].call /\ job'[p].a = 0
          /\ job'[p].end = job[p].end /\ job[p].call \in {"fork", "exec"} /\ job[p].pc # "idle"
      BY <1>1, <1>2, <2>2 DEF Pcs
    <3>2. \A u \in Roles : u # dir => ptr'[p][u] = ptr[p][u]
      BY <2>1, <2>2, <1>a, <1>b, <1>c, KallocKept
    <3>3. NewOK(p)'
      <4>1. Tabled(p, "new")'
        BY <3>2, <2>1, <1>c DEF Tabled
      <4>. QED BY <4>1, <3>1, <3>2, <2>1, <1>c DEF NewOK, Building, dir
    <3>4. MemOK(p)'
      BY <3>1, <3>2, <2>0, <1>a, <1>b, <1>c DEF MemOK
    <3>5. CallOK(p)'
      BY <3>1, <2>2, <1>a, <2>0 DEF CallOK
    <3>6. "kpt" \in Pcs /\ "kpt" \notin {"idle", "kstack"}
      BY DEF Pcs
    <3>7. dir \in Image("new") \cup {Mem} /\ ptr[p][dir] = None
      BY <1>b, <2>1
    <3>. QED BY <2>2, <3>1, <3>3, <3>4, <3>5, <3>6, <3>7, StageWhole
  <2>3. CASE Abort(p, {}, {})
    <3>1. {} \in {{}, Image("new")}
      OBVIOUS
    <3>. QED BY <2>0, <2>1, <2>3, <3>1, GiveUpWhole
  <2>. QED BY <1>2, <2>2, <2>3 DEF SetupKvm, At_, dir
<1>3. CASE At_(p, "kpt")
  <2>0. job[p].pc = "kpt" /\ job[p].call \in {"fork", "exec"}
    BY <1>3, <1>a DEF At_, CallOK
  <2>1. \A u \in Image("new") : u # dir => ptr[p][u] = None
    BY <2>0, <1>a DEF NewOK, Building, dir
  <2>2. CASE Kalloc(p, kpt) /\ Pc(p, "page") /\ UNCHANGED <<sz, state, short, panic>>
    <3>1. /\ job'[p].pc = "page" /\ job'[p].call = job[p].call /\ job'[p].a = 0
          /\ job'[p].end = job[p].end /\ job[p].call \in {"fork", "exec"} /\ job[p].pc # "idle"
      BY <1>1, <1>3, <2>2 DEF Pcs
    <3>7. kpt \in Image("new") \cup {Mem} /\ ptr[p][kpt] = None
      BY <1>b, <2>1
    <3>2. \A u \in Roles : u # kpt => ptr'[p][u] = ptr[p][u]
      BY <3>7, <2>2, <1>a, <1>b, <1>c, KallocKept
    <3>3. NewOK(p)'
      <4>1. \A v \in VPages : ptr'[p][Pg("new", v)] = None
        BY <3>2, <2>1, <1>c
      <4>2. \A v \in VPages : ~(v < 0)
        BY Sizes DEF VPages
      <4>3. Tabled(p, "new")' /\ Mapped(p, "new", 0)'
        BY <4>1, <4>2 DEF Tabled, Mapped
      <4>4. Mapped(p, "new", job[p].a)'
        BY <4>3, <3>1
      <4>. QED BY <4>3, <4>4, <3>1 DEF NewOK, Building
    <3>4. MemOK(p)'
      BY <3>1, <3>2, <2>0, <1>a, <1>b, <1>c DEF MemOK
    <3>5. CallOK(p)'
      <4>1. 0 <= PGROUNDUP(job[p].end)
        BY <1>a, PgRound
      <4>. QED BY <4>1, <3>1, <2>2, <1>a, <2>0 DEF CallOK
    <3>6. "page" \in Pcs /\ "page" \notin {"idle", "kstack"}
      BY DEF Pcs
    <3>. QED BY <2>2, <3>1, <3>3, <3>4, <3>5, <3>6, <3>7, StageWhole
  <2>. QED BY <1>3, <2>2 DEF SetupKvm, At_, kpt
<1>. QED BY <1>2, <1>3 DEF SetupKvm

LEMMA NextPageWhole ==
  ASSUME IInv, Whole, NEW p \in Procs, NextPage(p)
  PROVE  Whole'
<1>a. /\ job \in [Procs -> Job] /\ job[p] \in Job /\ CurOK(p) /\ NewOK(p) /\ MemOK(p) /\ CallOK(p)
      /\ Kept /\ job[p].a \in Nat /\ job[p].end \in Nat /\ sz[p] \in Nat
  BY Facts DEF Whole
<1>b. job[p].pc = "page" /\ job[p].a * PGSIZE < job[p].end /\ job[p].end < KERNBASE
  BY DEF NextPage, At_
<1>c. state[p] = "RUNNING" /\ job[p].a <= PGROUNDUP(job[p].end) /\ job[p] # Idle /\ ptr[p][Mem] = None
  BY <1>a, <1>b DEF CallOK, MemOK, Idle
<1>1. CASE job[p].call = "fork" /\ ptr[p][Pg("cur", job[p].a)] = None
  <2>1. Mapped(p, "cur", PGROUNDUP(sz[p])) /\ job[p].end = sz[p]
    BY <1>1, <1>a, <1>c DEF CurOK, CallOK
  <2>2. job[p].a < PGROUNDUP(sz[p])
    BY <1>a, <1>b, <2>1, RoundUp
  <2>3. job[p].a * PGSIZE < KERNBASE
    BY <1>a, <1>b, Sizes
  <2>4. job[p].a \in VPages
    BY <1>a, <2>3, UserPage
  <2>. QED BY <1>1, <2>1, <2>2, <2>4 DEF Mapped
<1>2. CASE Kalloc(p, Mem) /\ Pc(p, "map") /\ UNCHANGED <<sz, state, short, panic>>
  <2>1. job'[p] = [job[p] EXCEPT !.pc = "map"]
    BY <1>2, <1>a DEF Pc
  <2>2. /\ job'[p].pc = "map" /\ job'[p].call = job[p].call /\ job'[p].a = job[p].a
        /\ job'[p].end = job[p].end /\ job'[p].ph = job[p].ph
    BY <2>1, <1>a DEF Job
  <2>3. Mem \in Roles /\ Mem \in Image("new") \cup {Mem}
    BY RoleFacts
  <2>4. ptr'[p][Mem] # None /\ \A u \in Roles : u # Mem => ptr'[p][u] = ptr[p][u]
    BY <1>2, <1>a, <1>c, <2>3, KallocKept
  <2>5. \A u \in Image("new") : ptr'[p][u] = ptr[p][u]
    BY <2>4, RoleFacts
  <2>6. NewOK(p)'
    <3>1. Building(p)' <=> Building(p)
      BY <2>2, <1>b DEF Building
    <3>2. Tabled(p, "new")'
      BY <2>5, <1>a, RoleFacts DEF NewOK, Tabled
    <3>3. Building(p) => Mapped(p, "new", job[p].a)'
      BY <2>2, <2>5, <1>a, RoleFacts DEF NewOK, Mapped
    <3>4. ~Building(p) => \A u \in Image("new") : ptr'[p][u] = None
      BY <2>5, <1>a, <1>b DEF NewOK
    <3>. QED BY <3>1, <3>2, <3>3, <3>4 DEF NewOK
  <2>7. MemOK(p)'
    BY <2>2, <2>4 DEF MemOK
  <2>8. CallOK(p)'
    BY <2>2, <1>2, <1>a, <1>b, <1>c DEF CallOK
  <2>9. "map" \in Pcs /\ "map" \notin {"idle", "kstack"}
    BY DEF Pcs
  <2>. QED BY <1>2, <1>b, <1>c, <2>3, <2>6, <2>7, <2>8, <2>9, StageWhole
<1>3. CASE Abort(p, Undo(p), {})
  <2>1. CASE job[p].call # "sbrk"
    <3>1. Undo(p) = Image("new")
      BY <2>1, FreevmAll DEF Undo
    <3>2. Image("new") \in {{}, Image("new")}
      OBVIOUS
    <3>. QED BY <1>3, <1>b, <2>1, <3>1, <3>2, GiveUpWhole
  <2>2. CASE job[p].call = "sbrk"
    <3>. DEFINE D == Dealloc(p, "cur", job[p].end, sz[p])
    <3>1. Abort(p, D, {})
      BY <1>3, <2>2 DEF Undo
    <3>2. /\ Mapped(p, "cur", job[p].a) /\ Tabled(p, "cur") /\ PGROUNDUP(sz[p]) <= job[p].a
          /\ job[p].child = None
      BY <2>2, <1>a, <1>c DEF CurOK, CallOK, Whole, Forks
    <3>3. \A v \in VPages : ptr[p][Pg("cur", v)] # None =>
             (Pg("cur", v) \in D <=> ~(v < PGROUNDUP(sz[p])))
      <4>. SUFFICES ASSUME NEW v \in VPages, ptr[p][Pg("cur", v)] # None
                    PROVE  Pg("cur", v) \in D <=> ~(v < PGROUNDUP(sz[p]))
        OBVIOUS
      <4>. QED BY <3>2, <1>a, <1>c, DeallocRest
    <3>4. \A r \in D : \E v \in VPages : r = Pg("cur", v)
      BY DEF Dealloc
    <3>. HIDE DEF D
    <3>5. D \in SUBSET (Image("cur") \cup Image("new"))
      BY <3>4, RoleFacts
    <3>6. /\ \A r \in Roles : r # Kstack => ptr'[p][r] = IF r \in D THEN None ELSE ptr[p][r]
          /\ sz' = sz
      BY <3>1 DEF Abort
    <3>7. \A v \in VPages : ptr'[p][Pg("cur", v)] = IF Pg("cur", v) \in D THEN None ELSE ptr[p][Pg("cur", v)]
      BY <3>6, RoleFacts
    <3>8. Tabled(p, "cur")'
      <4>1. \A v \in VPages : ptr'[p][Tab("cur", v)] = ptr[p][Tab("cur", v)]
        BY <3>4, <3>6, RoleFacts
      <4>. QED BY <4>1, <3>2, <3>7 DEF Tabled
    <3>9. Mapped(p, "cur", PGROUNDUP(sz[p]))'
      <4>. SUFFICES ASSUME NEW v \in VPages
                    PROVE  ptr'[p][Pg("cur", v)] # None <=> v < PGROUNDUP(sz[p])
        BY <3>6 DEF Mapped
      <4>1. v \in Nat /\ PGROUNDUP(sz[p]) \in Nat
        BY <1>a, PgRound, Sizes DEF VPages
      <4>2. ptr[p][Pg("cur", v)] # None <=> v < job[p].a
        BY <3>2 DEF Mapped
      <4>. QED BY <4>1, <4>2, <3>2, <3>3, <3>7, <1>a
    <3>10. \A r \in Image("new") : ptr[p][r] = None
      BY <2>2, <1>a, <1>b DEF NewOK, Building
    <3>. QED BY <1>b, <3>1, <3>5, <3>8, <3>9, <3>10, AbortWhole
  <2>. QED BY <2>1, <2>2
<1>. QED BY <1>1, <1>2, <1>3 DEF NextPage

\* A step of p's loop in image i, which the call fills.
LEMMA LoopFacts ==
  ASSUME IInv, Whole, NEW p \in Procs, job[p].pc \in {"page", "map"}
  PROVE  /\ Target(p) \in {"cur", "new"} /\ state[p] = "RUNNING" /\ job[p] # Idle
         /\ Mapped(p, Target(p), job[p].a) /\ Tabled(p, Target(p))
         /\ Target(p) = "cur" <=> job[p].call = "sbrk"
<1>1. CurOK(p) /\ NewOK(p) /\ CallOK(p)
  BY Facts
<1>2. state[p] = "RUNNING" /\ job[p] # Idle
  BY <1>1 DEF CallOK, Idle
<1>. QED BY <1>1, <1>2 DEF CurOK, NewOK, Building, Target

LEMMA MapPageWhole ==
  ASSUME IInv, Whole, NEW p \in Procs, MapPage(p), ~short'
  PROVE  Whole'
<1>a. /\ job \in [Procs -> Job] /\ job[p] \in Job /\ CurOK(p) /\ NewOK(p) /\ MemOK(p) /\ CallOK(p)
      /\ Kept /\ Forks /\ job[p].a \in Nat /\ job[p].end \in Nat /\ sz[p] \in Nat
      /\ ptr \in [Procs -> [Roles -> Pages \cup {None}]]
  BY Facts DEF Whole
<1>b. job[p].pc = "map" /\ job[p].a * PGSIZE < job[p].end /\ job[p].end < KERNBASE
  BY <1>a DEF MapPage, At_, CallOK
<1>c. PICK i \in {"cur", "new"} : i = Target(p)
  BY DEF Target
<1>d. PICK a \in Nat : a = job[p].a
  BY <1>a
<1>e. /\ state[p] = "RUNNING" /\ job[p] # Idle /\ Mapped(p, i, a) /\ Tabled(p, i)
      /\ i = "cur" <=> job[p].call = "sbrk"
      /\ ptr[p][Mem] # None
  BY <1>a, <1>b, <1>c, <1>d, LoopFacts DEF MemOK
<1>f. a \in VPages /\ a < PGROUNDUP(job[p].end)
  <2>1. a * PGSIZE < KERNBASE /\ a * PGSIZE < job[p].end
    BY <1>a, <1>b, <1>d, Sizes
  <2>. QED BY <2>1, <1>a, <1>d, UserPage, RoundUp
<1>g. Pg(i, a) \in Image(i) /\ Tab(i, a) \in Image(i) /\ Pg(i, a) \in Roles /\ Tab(i, a) \in Roles
  BY <1>f, RoleFacts
<1>h. ptr[p][Pg(i, a)] = None
  BY <1>d, <1>e, <1>f DEF Mapped
<1>1. CASE /\ ptr[p][Tab(i, a)] = None /\ Kalloc(p, Tab(i, a))
           /\ UNCHANGED <<sz, state, job, short, panic>>
  <2>1. /\ Kept'
        /\ \A s \in Procs : s # p => ptr'[s] = ptr[s]
        /\ \A u \in Roles : u # Tab(i, a) => ptr'[p][u] = ptr[p][u]
        /\ ptr'[p][Tab(i, a)] # None
    BY <1>1, <1>a, <1>g, KallocKept
  <2>2. \A j \in {"cur", "new"}, v \in VPages : ptr'[p][Pg(j, v)] = ptr[p][Pg(j, v)]
    <3>. SUFFICES ASSUME NEW j \in {"cur", "new"}, NEW v \in VPages
                  PROVE  Pg(j, v) \in Roles /\ Pg(j, v) # Tab(i, a)
      BY <2>1
    <3>. QED BY RoleFacts DEF Pg, Tab
  <2>3. \A u \in Roles : ptr[p][u] # None => ptr'[p][u] # None
    BY <2>1
  <2>4. Tabled(p, "cur")' /\ Tabled(p, "new")'
    <3>1. ASSUME NEW j \in {"cur", "new"}, Tabled(p, j)
          PROVE  Tabled(p, j)'
      BY <3>1, <2>2, <2>3, RoleFacts DEF Tabled
    <3>. QED BY <3>1, <1>a DEF CurOK, NewOK
  <2>5. CurOK(p)'
    <3>1. /\ job[p].call = "sbrk" => Mapped(p, "cur", job[p].a)'
          /\ job[p].call # "sbrk" => Mapped(p, "cur", PGROUNDUP(sz[p]))'
      BY <1>1, <1>a, <1>e, <2>2 DEF CurOK, Mapped
    <3>. QED BY <1>1, <1>a, <1>e, <2>4, <3>1 DEF CurOK
  <2>6. NewOK(p)'
    <3>1. CASE i = "new"
      BY <3>1, <1>1, <1>a, <1>b, <1>e, <2>2, <2>4 DEF NewOK, Mapped, Building
    <3>2. CASE i = "cur"
      <4>1. \A u \in Image("new") : ptr'[p][u] = ptr[p][u]
        BY <3>2, <1>g, <2>1, RoleFacts
      <4>. QED BY <3>2, <4>1, <1>1, <1>a, <1>b, <1>e, <2>4 DEF NewOK, Building
    <3>. QED BY <3>1, <3>2
  <2>7. MemOK(p)'
    BY <1>1, <1>a, <1>g, <2>1, RoleFacts DEF MemOK
  <2>8. CallOK(p)'
    BY <1>1, <1>a DEF CallOK
  <2>9. Forks'
    <3>1. \A s \in Procs : ptr'[s][Kstack] = ptr[s][Kstack]
      BY <1>g, <2>1, RoleFacts
    <3>. QED BY <3>1, <1>1, <1>a, ForksKeep
  <2>. QED BY <1>1, <2>1, <2>5, <2>6, <2>7, <2>8, <2>9, OwnStep DEF ProcOK
<1>2. CASE /\ ptr[p][Tab(i, a)] # None
           /\ ptr' = [ptr EXCEPT ![p] = [@ EXCEPT ![Pg(i, a)] = ptr[p][Mem], ![Mem] = None]]
           /\ job' = [job EXCEPT ![p] = [@ EXCEPT !.pc = "page", !.a = a + 1]]
           /\ UNCHANGED <<free, sz, state, short, panic>>
  <2>0. Pg(i, a) # Mem /\ Mem \in Roles /\ Kstack \in Roles /\ Pg(i, a) # Kstack /\ Kstack # Mem
    BY <1>g, RoleFacts
  <2>1. /\ \A s \in Procs : s # p => ptr'[s] = ptr[s]
        /\ \A u \in Roles : ptr'[p][u] = IF u = Mem THEN None
                                         ELSE IF u = Pg(i, a) THEN ptr[p][Mem] ELSE ptr[p][u]
    BY <1>2, <2>0, <1>a
  <2>2. /\ job'[p] = [job[p] EXCEPT !.pc = "page", !.a = a + 1]
        /\ \A s \in Procs : s # p => job'[s] = job[s]
    BY <1>2, <1>a
  <2>3. /\ job'[p].pc = "page" /\ job'[p].a = a + 1 /\ job'[p].call = job[p].call
        /\ job'[p].end = job[p].end /\ job'[p].child = job[p].child /\ job'[p].ph = job[p].ph
    BY <2>2, <1>a DEF Job
  <2>4. Kept'
    <3>1. ASSUME NEW s \in Procs, NEW r \in Roles, ptr[s][r] # None
          PROVE  \E t \in Procs, u \in Roles : ptr'[t][u] = ptr[s][r]
      <4>1. CASE s = p /\ r = Mem
        BY <4>1, <2>0, <2>1, <1>g
      <4>2. CASE ~(s = p /\ r = Mem)
        BY <4>2, <3>1, <2>1, <1>h
      <4>. QED BY <4>1, <4>2
    <3>. QED BY <3>1, <1>2, <1>a, MovedKept
  <2>5. Tabled(p, "cur")' /\ Tabled(p, "new")'
    <3>1. ASSUME NEW j \in {"cur", "new"}, Tabled(p, j)
          PROVE  Tabled(p, j)'
      <4>1. \A v \in VPages : ptr'[p][Tab(j, v)] = ptr[p][Tab(j, v)]
        <5>. SUFFICES ASSUME NEW v \in VPages
                      PROVE  Tab(j, v) \in Roles /\ Tab(j, v) # Pg(i, a) /\ Tab(j, v) # Mem
          BY <2>1
        <5>1. Tab(j, v) # Pg(i, a)
          BY DEF Tab, Pg
        <5>. QED BY <5>1, RoleFacts
      <4>2. \A v \in VPages : Pg(j, v) # Pg(i, a) => ptr'[p][Pg(j, v)] = ptr[p][Pg(j, v)]
        BY <2>1, RoleFacts
      <4>3. \A v \in VPages : Pg(j, v) = Pg(i, a) => j = i /\ v = a
        BY DEF Pg
      <4>. QED BY <3>1, <4>1, <4>2, <4>3, <1>2 DEF Tabled
    <3>. QED BY <3>1, <1>a DEF CurOK, NewOK
  <2>6. \A v \in VPages : ptr'[p][Pg(i, v)] # None <=> v < a + 1
    <3>. SUFFICES ASSUME NEW v \in VPages
                  PROVE  ptr'[p][Pg(i, v)] # None <=> v < a + 1
      OBVIOUS
    <3>1. v \in Nat /\ Pg(i, v) \in Roles /\ Pg(i, v) # Mem
      BY RoleFacts, Sizes DEF VPages
    <3>2. CASE v = a
      BY <3>1, <3>2, <2>1, <1>e
    <3>3. CASE v # a
      <4>1. Pg(i, v) # Pg(i, a)
        BY <3>3, <1>f, RoleFacts
      <4>2. ptr'[p][Pg(i, v)] # None <=> v < a
        BY <3>1, <4>1, <2>1, <1>e DEF Mapped
      <4>. QED BY <4>2, <3>1, <3>3
    <3>. QED BY <3>2, <3>3
  <2>7. \A u \in Roles : u \notin Image(i) /\ u # Mem => ptr'[p][u] = ptr[p][u]
    BY <2>1, <1>g
  <2>8. CurOK(p)'
    <3>1. CASE i = "cur"
      BY <3>1, <1>2, <1>a, <1>e, <2>3, <2>5, <2>6 DEF CurOK, Mapped
    <3>2. CASE i = "new"
      <4>1. \A v \in VPages : ptr'[p][Pg("cur", v)] = ptr[p][Pg("cur", v)]
        BY <3>2, <2>7, RoleFacts
      <4>2. Mapped(p, "cur", PGROUNDUP(sz[p]))'
        BY <3>2, <4>1, <1>2, <1>a, <1>e DEF CurOK, Mapped
      <4>. QED BY <3>2, <4>2, <1>2, <1>a, <1>e, <2>3, <2>5 DEF CurOK
    <3>. QED BY <3>1, <3>2
  <2>9. NewOK(p)'
    <3>1. CASE i = "new"
      BY <3>1, <1>e, <2>3, <2>5, <2>6 DEF NewOK, Mapped, Building
    <3>2. CASE i = "cur"
      <4>1. \A u \in Image("new") : ptr'[p][u] = ptr[p][u]
        BY <3>2, <2>7, RoleFacts
      <4>. QED BY <3>2, <4>1, <1>a, <1>b, <1>e, <2>3, <2>5 DEF NewOK, Building
    <3>. QED BY <3>1, <3>2
  <2>10. MemOK(p)'
    BY <2>0, <2>1, <2>3 DEF MemOK
  <2>11. CallOK(p)'
    <3>1. a + 1 <= PGROUNDUP(job[p].end)
      BY <1>a, <1>f, PgRound
    <3>2. PGROUNDUP(sz[p]) <= job[p].a => PGROUNDUP(sz[p]) <= a + 1
      BY <1>a, <1>d, PgRound
    <3>. QED BY <3>1, <3>2, <1>2, <1>a, <1>b, <1>e, <2>3 DEF CallOK
  <2>12. Forks'
    <3>1. \A s \in Procs : ptr'[s][Kstack] = ptr[s][Kstack]
      BY <2>0, <2>1
    <3>2. job' \in [Procs -> Job]
      <4>0. a + 1 \in Nat
        OBVIOUS
      <4>1. [job[p] EXCEPT !.pc = "page", !.a = a + 1] \in Job
        BY <4>0, <1>a DEF Job, Pcs
      <4>. QED BY <4>1, <1>2, <1>a
    <3>. QED BY <3>1, <3>2, <1>2, <1>a, <2>2, <2>3, ForksKeep
  <2>. QED BY <1>2, <2>1, <2>2, <2>4, <2>8, <2>9, <2>10, <2>11, <2>12, OwnStep DEF ProcOK
<1>. QED BY <1>1, <1>2, <1>c, <1>d, <1>h DEF MapPage

\* The loop has gone to its end.
LEMMA CompleteFacts ==
  ASSUME IInv, Whole, NEW p \in Procs, Complete(p)
  PROVE  job[p].pc = "page" /\ job[p].a = PGROUNDUP(job[p].end)
<1>1. /\ CallOK(p) /\ job[p].a \in Nat /\ job[p].end \in Nat
  BY Facts
<1>2. job[p].pc = "page" /\ job[p].a * PGSIZE >= job[p].end
  BY DEF Complete, At_
<1>3. job[p].a <= PGROUNDUP(job[p].end)
  BY <1>1, <1>2 DEF CallOK
<1>4. job[p].a * PGSIZE \in Nat /\ PGROUNDUP(job[p].end) \in Nat
  BY <1>1, Sizes, PgRound
<1>5. ~(job[p].a * PGSIZE < job[p].end)
  BY <1>1, <1>2, <1>4
<1>6. ~(job[p].a < PGROUNDUP(job[p].end))
  BY <1>1, <1>5, RoundUp
<1>. QED BY <1>1, <1>2, <1>3, <1>4, <1>6

\* What the new image becomes.
LEMMA HandedFacts ==
  ASSUME IInv, NEW p \in Procs, NEW q \in Procs, ptr' = Handed(p, q)
  PROVE  /\ \A s \in Procs : s # p /\ s # q => ptr'[s] = ptr[s]
         /\ \A v \in VPages : /\ ptr'[q][Pg("cur", v)] = ptr[p][Pg("new", v)]
                              /\ ptr'[q][Tab("cur", v)] = ptr[p][Tab("new", v)]
         /\ \A r \in Image("new") : ptr'[p][r] = None
         /\ \A r \in Image("new") : q # p => ptr'[q][r] = ptr[q][r]
         /\ \A r \in Image("cur") : q # p => ptr'[p][r] = ptr[p][r]
         /\ \A s \in Procs : ptr'[s][Kstack] = ptr[s][Kstack] /\ ptr'[s][Mem] = ptr[s][Mem]
         /\ \A r \in Image("new") : \E u \in Roles : ptr'[q][u] = ptr[p][r]
<1>a. ptr \in [Procs -> [Roles -> Pages \cup {None}]]
  BY DEF IInv, TypeOK
<1>b. \A s \in Procs, r \in Roles :
        ptr'[s][r] = IF s = q /\ r[1] = "cur" THEN ptr[p][<<"new", r[2], r[3]>>]
                     ELSE IF s = p /\ r[1] = "new" THEN None ELSE ptr[s][r]
  BY DEF Handed
<1>1. ASSUME NEW s \in Procs, s # p, s # q
      PROVE  ptr'[s] = ptr[s]
  <2>1. ptr'[s] = [r \in Roles |-> ptr[s][r]]
    BY <1>1 DEF Handed
  <2>. QED BY <2>1, <1>a
<1>2. ASSUME NEW v \in VPages
      PROVE  /\ ptr'[q][Pg("cur", v)] = ptr[p][Pg("new", v)]
             /\ ptr'[q][Tab("cur", v)] = ptr[p][Tab("new", v)]
  <2>1. Pg("cur", v) \in Roles /\ Tab("cur", v) \in Roles
    BY RoleFacts
  <2>2. ptr'[q][Pg("cur", v)] = ptr[p][Pg("new", v)]
    BY <2>1, <1>b DEF Pg
  <2>3. ptr'[q][Tab("cur", v)] = ptr[p][Tab("new", v)]
    BY <2>1, <1>b DEF Tab
  <2>. QED BY <2>2, <2>3
<1>3. ASSUME NEW r \in Image("new")
      PROVE  \E u \in Roles : ptr'[q][u] = ptr[p][r]
  <2>1. PICK x \in Parts : r = At("new", x)
    BY DEF Image
  <2>2. At("cur", x) \in Roles
    BY DEF Image, Roles
  <2>3. ptr'[q][At("cur", x)] = ptr[p][At("new", x)]
    BY <2>2, <1>b DEF At
  <2>. QED BY <2>1, <2>2, <2>3
<1>4. \A r \in Image("new") : r \in Roles /\ r[1] = "new"
  BY RoleFacts
<1>5. \A r \in Image("cur") : r \in Roles /\ r[1] = "cur"
  BY RoleFacts
<1>6. Kstack \in Roles /\ Mem \in Roles /\ Kstack[1] = "own" /\ Mem[1] = "own"
  BY RoleFacts DEF Kstack, Mem
<1>. QED BY <1>1, <1>2, <1>3, <1>4, <1>5, <1>6, <1>b

LEMMA ForkDoneWhole ==
  ASSUME IInv, Whole, NEW p \in Procs, ForkDone(p)
  PROVE  Whole'
<1>a. /\ job \in [Procs -> Job] /\ job[p] \in Job /\ CurOK(p) /\ NewOK(p) /\ MemOK(p) /\ CallOK(p)
      /\ Kept /\ Forks /\ job[p].child \in Procs \cup {None} /\ None \notin Procs
      /\ state \in [Procs -> {"UNUSED", "EMBRYO", "RUNNING", "ZOMBIE"}] /\ sz \in [Procs -> Nat]
      /\ ptr \in [Procs -> [Roles -> Pages \cup {None}]]
  BY Facts DEF Whole
<1>b. Complete(p) /\ job[p].call = "fork"
  BY DEF ForkDone
<1>c. job[p].pc = "page" /\ job[p].a = PGROUNDUP(job[p].end) /\ job[p].end = sz[p]
  BY <1>a, <1>b, CompleteFacts DEF CallOK
<1>d. state[p] = "RUNNING" /\ job[p] # Idle
  BY <1>a, <1>c DEF CallOK, Idle
<1>e. PICK q \in Procs : q = job[p].child
  BY <1>a, <1>b DEF Forks
<1>f. state[q] = "EMBRYO" /\ q # p /\ q # InitProc /\ \A s \in Procs : job[s].child = q => s = p
  BY <1>a, <1>b, <1>d, <1>e DEF Forks
<1>g. /\ ptr' = Handed(p, q) /\ sz' = [sz EXCEPT ![q] = sz[p]]
      /\ state' = [state EXCEPT ![q] = "RUNNING"] /\ job' = [job EXCEPT ![p] = Idle]
      /\ UNCHANGED <<free, short, panic>>
  BY <1>e DEF ForkDone
<1>1. /\ job'[p] = Idle /\ \A s \in Procs : s # p => job'[s] = job[s]
      /\ state'[q] = "RUNNING" /\ \A s \in Procs : s # q => state'[s] = state[s]
      /\ sz'[q] = sz[p] /\ \A s \in Procs : s # q => sz'[s] = sz[s]
  BY <1>a, <1>g
<1>2. /\ \A s \in Procs : s # p /\ s # q => ptr'[s] = ptr[s]
      /\ \A v \in VPages : /\ ptr'[q][Pg("cur", v)] = ptr[p][Pg("new", v)]
                           /\ ptr'[q][Tab("cur", v)] = ptr[p][Tab("new", v)]
      /\ \A r \in Image("new") : ptr'[p][r] = None
      /\ \A r \in Image("new") : q # p => ptr'[q][r] = ptr[q][r]
      /\ \A r \in Image("cur") : q # p => ptr'[p][r] = ptr[p][r]
      /\ \A s \in Procs : ptr'[s][Kstack] = ptr[s][Kstack] /\ ptr'[s][Mem] = ptr[s][Mem]
      /\ \A r \in Image("new") : \E u \in Roles : ptr'[q][u] = ptr[p][r]
  BY <1>g, HandedFacts
<1>3. CurOK(q) /\ NewOK(q) /\ MemOK(q) /\ CallOK(q) /\ job[q] = Idle
  <2>1. CurOK(q) /\ NewOK(q) /\ MemOK(q) /\ CallOK(q)
    BY DEF Whole, ProcOK
  <2>. QED BY <2>1, <1>f DEF CallOK
<1>4. Kept'
  <2>1. ASSUME NEW s \in Procs, NEW r \in Roles, ptr[s][r] # None
        PROVE  \E t \in Procs, u \in Roles : ptr'[t][u] = ptr[s][r]
    <3>1. CASE r = Kstack \/ r = Mem \/ (s # p /\ s # q)
      BY <3>1, <1>2
    <3>2. CASE r \in Image("new")
      BY <3>2, <1>2, <1>f
    <3>3. CASE r \in Image("cur")
      <4>1. s # q
        BY <3>3, <2>1, <1>3, <1>f DEF CurOK, Blank
      <4>. QED BY <4>1, <3>3, <1>2, <1>f
    <3>. QED BY <3>1, <3>2, <3>3 DEF Roles
  <2>. QED BY <2>1, <1>a, <1>g, MovedKept
<1>5. ProcOK(p)'
  <2>1. CurOK(p)'
    <3>1. Tabled(p, "cur")'
      BY <1>a, <1>2, <1>f, RoleFacts DEF CurOK, Tabled
    <3>2. Mapped(p, "cur", PGROUNDUP(sz[p]))'
      BY <1>a, <1>b, <1>d, <1>1, <1>2, <1>f, RoleFacts DEF CurOK, Mapped
    <3>. QED BY <3>1, <3>2, <1>a, <1>b, <1>d, <1>1, <1>f DEF CurOK, Idle
  <2>2. NewOK(p)'
    BY <1>1, <1>2, RoleFacts DEF NewOK, Tabled, Building, Idle
  <2>3. MemOK(p)' /\ CallOK(p)'
    BY <1>a, <1>c, <1>1, <1>2 DEF MemOK, CallOK, Idle
  <2>. QED BY <2>1, <2>2, <2>3 DEF ProcOK
<1>6. ProcOK(q)'
  <2>0. job'[q] = Idle
    BY <1>1, <1>3, <1>f
  <2>1. CurOK(q)'
    <3>1. Mapped(p, "new", job[p].a) /\ Tabled(p, "new")
      BY <1>a, <1>b, <1>c DEF NewOK, Building
    <3>2. Tabled(q, "cur")'
      BY <3>1, <1>2 DEF Tabled
    <3>3. Mapped(q, "cur", PGROUNDUP(sz[q]))'
      BY <3>1, <1>1, <1>2, <1>c DEF Mapped
    <3>4. sz[p] > 0 /\ sz[p] < KERNBASE
      BY <1>a, <1>d DEF CurOK
    <3>. QED BY <2>0, <3>2, <3>3, <3>4, <1>1 DEF CurOK, Idle
  <2>2. NewOK(q)'
    BY <2>0, <1>2, <1>3, <1>f, RoleFacts DEF NewOK, Tabled, Building, Idle
  <2>3. MemOK(q)' /\ CallOK(q)'
    BY <2>0, <1>2, <1>3 DEF MemOK, CallOK, Idle
  <2>. QED BY <2>1, <2>2, <2>3 DEF ProcOK
<1>7. \A s \in Procs : s # p /\ s # q => ProcOK(s)'
  BY <1>1, <1>2, Frame DEF Whole
<1>8. Forks'
  <2>1. state'[InitProc] = "RUNNING"
    BY <1>a, <1>1, <1>f, VmAssumption DEF Forks
  <2>2. \A s \in Procs : job'[s].child # None <=> job'[s].call = "fork"
    BY <1>a, <1>1 DEF Forks, Idle
  <2>3. ASSUME NEW s \in Procs, job'[s].call = "fork"
        PROVE  /\ state'[job'[s].child] = "EMBRYO"
               /\ job'[s].pc = "kstack" => ptr'[job'[s].child][Kstack] = None
               /\ \A t \in Procs : job'[t].child = job'[s].child => t = s
    <3>1. s # p /\ job'[s] = job[s]
      BY <2>3, <1>1 DEF Idle
    <3>2. job[s].child # None /\ job[s].child \in Procs /\ job[s].child # q
      BY <2>3, <3>1, <1>a, <1>f DEF Forks, Job
    <3>3. state'[job[s].child] = state[job[s].child]
      BY <3>2, <1>1
    <3>4. \A t \in Procs : job'[t].child = job[s].child => t # p
      BY <3>2, <1>1 DEF Idle
    <3>5. \A t \in Procs : job'[t].child = job[s].child => t = s
      BY <3>1, <3>4, <2>3, <1>a, <1>1 DEF Forks
    <3>. QED BY <3>1, <3>2, <3>3, <3>5, <2>3, <1>a, <1>2 DEF Forks
  <2>4. \A s \in Procs : state'[s] = "UNUSED" => ptr'[s][Kstack] = None
    BY <1>a, <1>1, <1>2 DEF Forks
  <2>. QED BY <2>1, <2>2, <2>3, <2>4 DEF Forks
<1>. QED BY <1>g, <1>4, <1>5, <1>6, <1>7, <1>8 DEF Whole

LEMMA SbrkDoneWhole ==
  ASSUME IInv, Whole, NEW p \in Procs, SbrkDone(p)
  PROVE  Whole'
<1>a. /\ job \in [Procs -> Job] /\ CurOK(p) /\ NewOK(p) /\ MemOK(p) /\ CallOK(p)
      /\ Kept /\ Forks /\ sz \in [Procs -> Nat] /\ sz[p] \in Nat /\ job[p].end \in Nat
  BY Facts DEF Whole
<1>b. /\ Complete(p) /\ job[p].call = "sbrk" /\ sz' = [sz EXCEPT ![p] = job[p].end]
      /\ job' = [job EXCEPT ![p] = Idle] /\ UNCHANGED <<free, ptr, state, short, panic>>
  BY DEF SbrkDone
<1>c. job[p].pc = "page" /\ job[p].a = PGROUNDUP(job[p].end)
  BY <1>b, CompleteFacts
<1>d. /\ state[p] = "RUNNING" /\ Mapped(p, "cur", job[p].a) /\ job[p].end > 0 /\ job[p].end < KERNBASE
  <2>1. state[p] = "RUNNING" /\ sz[p] < job[p].end /\ job[p].end < KERNBASE
    BY <1>a, <1>b, <1>c DEF CallOK
  <2>. QED BY <2>1, <1>a, <1>b DEF CurOK
<1>1. /\ job'[p] = Idle /\ sz'[p] = job[p].end
      /\ \A s \in Procs : s # p => job'[s] = job[s] /\ sz'[s] = sz[s]
  BY <1>a, <1>b
<1>2. CurOK(p)'
  <2>1. Mapped(p, "cur", PGROUNDUP(sz[p]))'
    BY <1>1, <1>b, <1>c, <1>d DEF Mapped
  <2>. QED BY <2>1, <1>1, <1>a, <1>b, <1>d DEF CurOK, Tabled, Idle
<1>3. NewOK(p)'
  BY <1>1, <1>a, <1>b, <1>c DEF NewOK, Tabled, Building, Idle
<1>4. MemOK(p)' /\ CallOK(p)'
  BY <1>1, <1>a, <1>b, <1>c DEF MemOK, CallOK, Idle
<1>5. Forks'
  <2>1. job[p].child = None /\ job' \in [Procs -> Job]
    BY <1>a, <1>b, HeaderFacts DEF Forks, Job, Idle, Pcs
  <2>. QED BY <2>1, <1>1, <1>a, <1>b, ForksKeep DEF Idle
<1>6. Kept'
  BY <1>a, <1>b, SameKept
<1>. QED BY <1>b, <1>1, <1>2, <1>3, <1>4, <1>5, <1>6, OwnStep DEF ProcOK

LEMMA ExecGivesUpWhole ==
  ASSUME IInv, Whole, NEW p \in Procs, ExecGivesUp(p)
  PROVE  Whole'
<1>1. /\ job[p].pc = "page" /\ job[p].call \in {"exec", "load", "stack"}
      /\ Abort(p, Image("new"), {})
  BY FreevmAll DEF ExecGivesUp, Complete, At_
<1>2. Image("new") \in {{}, Image("new")}
  OBVIOUS
<1>. QED BY <1>1, <1>2, GiveUpWhole

\* A step of exec that changes its call alone: the loop may go farther than it
\* has come.
LEMMA CallWhole ==
  ASSUME IInv, Whole, NEW p \in Procs, Complete(p), job[p].call \in {"exec", "load"},
         NEW call \in {"exec", "load", "stack"}, NEW end \in Nat, NEW ph \in Segments,
         job' = [job EXCEPT ![p] = [@ EXCEPT !.call = call, !.end = end, !.ph = ph]],
         UNCHANGED <<free, ptr, sz, state, short, panic>>,
         job[p].end <= end,
         call = "stack" => end >= 2 * PGSIZE,
         call \in {"exec", "load"} => end < KERNBASE,
         call = "load" => ph.filesz <= ph.memsz /\ (ph.vaddr + ph.memsz) % UINT <= end
  PROVE  Whole'
<1>a. /\ job \in [Procs -> Job] /\ job[p] \in Job /\ CurOK(p) /\ NewOK(p) /\ MemOK(p) /\ CallOK(p)
      /\ Kept /\ Forks /\ job[p].a \in Nat /\ job[p].end \in Nat
  BY Facts DEF Whole
<1>b. job[p].pc = "page" /\ job[p].a = PGROUNDUP(job[p].end)
  BY CompleteFacts
<1>c. Mapped(p, "new", job[p].a) /\ Tabled(p, "new") /\ state[p] = "RUNNING" /\ job[p] # Idle
  BY <1>a, <1>b DEF NewOK, Building, CallOK, Idle
<1>1. /\ job'[p] = [job[p] EXCEPT !.call = call, !.end = end, !.ph = ph]
      /\ \A s \in Procs : s # p => job'[s] = job[s]
      /\ job' \in [Procs -> Job]
  BY <1>a DEF Job
<1>2. /\ job'[p].pc = "page" /\ job'[p].call = call /\ job'[p].end = end /\ job'[p].ph = ph
      /\ job'[p].a = job[p].a /\ job'[p].child = job[p].child
  BY <1>1, <1>a, <1>b DEF Job
<1>3. job[p].a <= PGROUNDUP(end)
  BY <1>a, <1>b, RoundMono
<1>4. CurOK(p)'
  BY <1>2, <1>a, <1>c DEF CurOK, Tabled, Mapped
<1>5. NewOK(p)'
  BY <1>2, <1>c DEF NewOK, Tabled, Mapped, Building
<1>6. MemOK(p)'
  BY <1>2, <1>a, <1>b DEF MemOK
<1>7. CallOK(p)'
  BY <1>2, <1>3, <1>c DEF CallOK
<1>8. Forks'
  BY <1>1, <1>2, <1>a, ForksKeep
<1>9. Kept'
  BY <1>a, SameKept
<1>. QED BY <1>1, <1>4, <1>5, <1>6, <1>7, <1>8, <1>9, OwnStep DEF ProcOK

LEMMA ExecSegmentWhole ==
  ASSUME IInv, Whole, NEW p \in Procs, ExecSegment(p)
  PROVE  Whole'
<1>a. CallOK(p) /\ job[p].end \in Nat
  BY Facts
<1>b. Complete(p) /\ job[p].call = "exec" /\ job[p].end < KERNBASE
  BY <1>a DEF ExecSegment, CallOK
<1>1. PICK call \in {"load", "stack"}, end \in Nat, ph \in Segments :
           /\ job' = [job EXCEPT ![p] = [@ EXCEPT !.call = call, !.end = end, !.ph = ph]]
           /\ UNCHANGED <<free, ptr, sz, state, short, panic>>
           /\ call = "stack" => end = (PGROUNDUP(job[p].end) + 2) * PGSIZE /\ ph = NoHeader
           /\ call = "load" => /\ ph.filesz <= ph.memsz /\ (ph.vaddr + ph.memsz) % UINT <= end
                              /\ job[p].end <= end /\ (job[p].end < KERNBASE => end < KERNBASE)
  BY <1>a, SegmentFacts
<1>2. ASSUME call = "stack" PROVE end >= 2 * PGSIZE /\ job[p].end <= end
  <2>. DEFINE k == PGROUNDUP(job[p].end)
  <2>1. k \in Nat /\ PGSIZE \in Nat /\ PGSIZE > 0 /\ end = (k + 2) * PGSIZE
    BY <1>1, <1>2, <1>a, PgRound, Sizes
  <2>2. k * PGSIZE < job[p].end <=> k < k
    BY <2>1, <1>a, RoundUp
  <2>. HIDE DEF k
  <2>3. (k + 2) * PGSIZE = k * PGSIZE + 2 * PGSIZE /\ k * PGSIZE \in Nat
    BY <2>1
  <2>4. job[p].end <= k * PGSIZE
    BY <2>1, <2>2, <2>3, <1>a
  <2>. QED BY <2>1, <2>3, <2>4, <1>a
<1>. QED BY <1>1, <1>2, <1>b, CallWhole

\* The pages that a proper segment is read into are mapped.
LEMMA LoadMapped ==
  ASSUME IInv, Whole, NEW p \in Procs, Complete(p), job[p].call = "load", Proper(job[p].ph)
  PROVE  /\ \A v \in Loads(job[p].ph) : ptr[p][Pg("new", v)] # None /\ ptr[p][Tab("new", v)] # None
         /\ job[p].ph.vaddr + job[p].ph.filesz < KERNBASE
<1>. DEFINE ph == job[p].ph
<1>a. /\ NewOK(p) /\ CallOK(p) /\ job[p].end \in Nat /\ ph \in Segments
  BY Facts
<1>b. job[p].pc = "page" /\ job[p].a = PGROUNDUP(job[p].end)
  BY CompleteFacts
<1>c. Mapped(p, "new", job[p].a) /\ Tabled(p, "new")
  BY <1>a, <1>b DEF NewOK, Building
<1>d. ph.vaddr \in Nat /\ ph.memsz \in Nat /\ ph.filesz \in Nat /\ UINT \in Nat /\ KERNBASE \in Nat /\ PGSIZE \in Nat
  BY <1>a, HeaderFacts, Sizes
<1>e. ph.filesz <= ph.memsz /\ (ph.vaddr + ph.memsz) % UINT <= job[p].end /\ job[p].end < KERNBASE
  BY <1>a DEF CallOK
<1>f. ph.vaddr + ph.memsz < UINT
  BY DEF Proper
<1>. HIDE DEF ph
<1>g. ph.vaddr + ph.memsz <= job[p].end
  <2>. DEFINE m == ph.vaddr + ph.memsz
  <2>1. m \in Nat /\ m < UINT /\ UINT > 0
    BY <1>d, <1>f
  <2>2. m % UINT <= job[p].end
    BY <1>e
  <2>. HIDE DEF m
  <2>3. m % UINT = m
    BY <2>1, <1>d
  <2>. QED BY <2>2, <2>3 DEF m
<1>1. ASSUME NEW v \in Loads(ph)
      PROVE  ptr[p][Pg("new", v)] # None /\ ptr[p][Tab("new", v)] # None
  <2>1. v \in VPages /\ v * PGSIZE < ph.vaddr + ph.filesz
    BY <1>1 DEF Loads
  <2>2. v \in Nat
    BY <2>1, Sizes DEF VPages
  <2>5. v * PGSIZE \in Nat
    BY <2>2, <1>d
  <2>3. v * PGSIZE < job[p].end
    BY <2>1, <2>5, <1>d, <1>e, <1>g, <1>a
  <2>4. v < job[p].a
    BY <2>2, <2>3, <1>a, <1>b, RoundUp
  <2>. QED BY <2>1, <2>4, <1>c DEF Mapped, Tabled
<1>2. ph.vaddr + ph.filesz < KERNBASE
  BY <1>a, <1>d, <1>e, <1>g
<1>. QED BY <1>1, <1>2 DEF ph

LEMMA ExecLoadWhole ==
  ASSUME IInv, Whole, NEW p \in Procs, ExecLoad(p)
  PROVE  Whole' \/ Stopped'
<1>a. /\ CallOK(p) /\ job[p].end \in Nat /\ job[p].ph \in Segments /\ panic = "no"
      /\ Kept /\ \A s \in Procs : ProcOK(s)
  BY Facts DEF Whole
<1>b. Complete(p) /\ job[p].call = "load" /\ job[p].end < KERNBASE
  BY <1>a DEF ExecLoad, CallOK
<1>1. ASSUME NEW msg \in LoadPanics, Panic(msg), ~Proper(job[p].ph)
      PROVE  Stopped'
  <2>1. panic' \in LoadPanics /\ UNCHANGED <<free, ptr, sz, state, job, short>>
    BY <1>1 DEF Panic
  <2>2. \A s \in Procs : ProcOK(s)'
    BY <2>1, <1>a, Frame
  <2>3. Kept'
    BY <2>1, <1>a, SameKept
  <2>. QED BY <2>1, <2>2, <2>3, <1>1 DEF Stopped, Proper
<1>2. ASSUME Proper(job[p].ph)
      PROVE  job' = [job EXCEPT ![p] = [@ EXCEPT !.call = "exec", !.ph = NoHeader]]
             /\ UNCHANGED <<free, ptr, sz, state, short, panic>>
  <2>1. /\ \A v \in Loads(job[p].ph) : ptr[p][Tab("new", v)] # None
        /\ job[p].ph.vaddr + job[p].ph.filesz < KERNBASE
    BY <1>2, <1>b, LoadMapped
  <2>2. job[p].ph.vaddr % PGSIZE = 0
    BY <1>2 DEF Proper
  <2>3. job[p].ph.vaddr + job[p].ph.filesz \in Nat /\ KERNBASE \in Nat
    BY <1>a, HeaderFacts, Sizes
  <2>4. ~(job[p].ph.vaddr + job[p].ph.filesz > KERNBASE)
    BY <2>1, <2>3
  <2>. QED BY <2>1, <2>2, <2>4 DEF ExecLoad
<1>3. CASE job' = [job EXCEPT ![p] = [@ EXCEPT !.call = "exec", !.ph = NoHeader]]
           /\ UNCHANGED <<free, ptr, sz, state, short, panic>>
  <2>1. PICK end \in Nat : end = job[p].end
    BY <1>a
  <2>2. job' = [job EXCEPT ![p] = [@ EXCEPT !.call = "exec", !.end = end, !.ph = NoHeader]]
    <3>1. job \in [Procs -> Job] /\ job[p] \in Job
      BY Facts
    <3>2. [job[p] EXCEPT !.call = "exec", !.end = end, !.ph = NoHeader]
            = [job[p] EXCEPT !.call = "exec", !.ph = NoHeader]
      BY <2>1, <3>1 DEF Job
    <3>. QED BY <1>3, <3>1, <3>2
  <2>3. job[p].end <= end
    BY <2>1
  <2>. QED BY <1>3, <1>b, <2>1, <2>2, <2>3, HeaderFacts, CallWhole
<1>4. \/ \E msg \in LoadPanics : Panic(msg)
      \/ job' = [job EXCEPT ![p] = [@ EXCEPT !.call = "exec", !.ph = NoHeader]]
         /\ UNCHANGED <<free, ptr, sz, state, short, panic>>
  BY DEF ExecLoad, LoadPanics
<1>. QED BY <1>1, <1>2, <1>3, <1>4

LEMMA ExecStackWhole ==
  ASSUME IInv, Whole, NEW p \in Procs, ExecStack(p)
  PROVE  Whole'
<1>a. /\ job \in [Procs -> Job] /\ job[p] \in Job /\ CurOK(p) /\ NewOK(p) /\ MemOK(p) /\ CallOK(p)
      /\ Kept /\ Forks /\ job[p].a \in Nat /\ job[p].end \in Nat /\ sz \in [Procs -> Nat]
      /\ ptr \in [Procs -> [Roles -> Pages \cup {None}]]
  BY Facts DEF Whole
<1>b. Complete(p) /\ job[p].call = "stack" /\ job[p].end < KERNBASE
  BY DEF ExecStack
<1>c. job[p].pc = "page" /\ job[p].a = PGROUNDUP(job[p].end)
  BY <1>b, CompleteFacts
<1>d. /\ Mapped(p, "new", job[p].a) /\ Tabled(p, "new") /\ state[p] = "RUNNING" /\ job[p] # Idle
      /\ job[p].end >= 2 * PGSIZE
  BY <1>a, <1>b, <1>c DEF NewOK, Building, CallOK, Idle
<1>1. ~NoStackTable(p)
  <2>. DEFINE e == job[p].end \div PGSIZE
              v == e - 2
  <2>1. PGSIZE \in Nat /\ PGSIZE > 0 /\ KERNBASE \in Nat
    BY Sizes
  <2>2. e \in Nat /\ e * PGSIZE <= job[p].end /\ job[p].end < (e + 1) * PGSIZE
    <3>. DEFINE m == job[p].end
    <3>1. m \in Nat
      BY <1>a
    <3>. HIDE DEF m
    <3>2. m \div PGSIZE \in Nat /\ m = (m \div PGSIZE) * PGSIZE + (m % PGSIZE) /\ (m % PGSIZE) \in 0 .. PGSIZE - 1
      BY <2>1, <3>1
    <3>3. (m \div PGSIZE) * PGSIZE <= m /\ m < ((m \div PGSIZE) + 1) * PGSIZE
      BY <2>1, <3>1, <3>2
    <3>. QED BY <3>2, <3>3 DEF m
  <2>. HIDE DEF e
  <2>3. e >= 2
    <3>1. ASSUME e = 0 PROVE FALSE
      <4>1. (e + 1) * PGSIZE = PGSIZE
        BY <2>1, <3>1
      <4>. QED BY <4>1, <2>1, <2>2, <1>a, <1>d
    <3>2. ASSUME e = 1 PROVE FALSE
      <4>1. (e + 1) * PGSIZE = 2 * PGSIZE
        BY <3>2
      <4>. QED BY <4>1, <2>1, <2>2, <1>a, <1>d
    <3>3. e \in Nat
      BY <2>2
    <3>. QED BY <3>1, <3>2, <3>3
  <2>4. v \in Nat /\ v * PGSIZE < job[p].end
    <3>1. v \in Nat /\ e * PGSIZE = v * PGSIZE + 2 * PGSIZE
      BY <2>1, <2>2, <2>3
    <3>2. v * PGSIZE \in Nat /\ e * PGSIZE \in Nat
      BY <2>1, <2>2, <3>1
    <3>. HIDE DEF v
    <3>3. v * PGSIZE < e * PGSIZE
      BY <2>1, <3>1, <3>2
    <3>4. e * PGSIZE <= job[p].end
      BY <2>2
    <3>. QED BY <3>1, <3>2, <3>3, <3>4, <1>a
  <2>. HIDE DEF v
  <2>5. v < job[p].a
    BY <2>4, <1>a, <1>c, RoundUp
  <2>6. v * PGSIZE < KERNBASE
    BY <2>1, <2>4, <1>a, <1>b
  <2>7. v \in VPages
    BY <2>4, <2>6, UserPage
  <2>8. ptr[p][Tab("new", v)] # None
    BY <2>5, <2>7, <1>d DEF Mapped, Tabled
  <2>9. v = job[p].end \div PGSIZE - 2
    BY DEF v, e
  <2>. QED BY <2>8, <2>9 DEF NoStackTable
<1>2. CASE Abort(p, Freevm(p, "new"), {})
  <2>1. Abort(p, Image("new"), {}) /\ Image("new") \in {{}, Image("new")}
    BY <1>2, FreevmAll
  <2>. QED BY <2>1, <1>b, <1>c, GiveUpWhole
<1>3. CASE ExecCommit(p)
  <2>1. /\ free' = free \cup ({ptr[p][r] : r \in Image("cur")} \ {None}) /\ ptr' = Handed(p, p)
        /\ sz' = [sz EXCEPT ![p] = job[p].end] /\ job' = [job EXCEPT ![p] = Idle]
        /\ UNCHANGED <<state, short, panic>>
    BY <1>3, FreevmAll DEF ExecCommit
  <2>2. /\ \A s \in Procs : s # p => ptr'[s] = ptr[s]
        /\ \A v \in VPages : /\ ptr'[p][Pg("cur", v)] = ptr[p][Pg("new", v)]
                             /\ ptr'[p][Tab("cur", v)] = ptr[p][Tab("new", v)]
        /\ \A r \in Image("new") : ptr'[p][r] = None
        /\ \A s \in Procs : ptr'[s][Kstack] = ptr[s][Kstack] /\ ptr'[s][Mem] = ptr[s][Mem]
        /\ \A r \in Image("new") : \E u \in Roles : ptr'[p][u] = ptr[p][r]
    BY <2>1, HandedFacts
  <2>3. /\ job'[p] = Idle /\ sz'[p] = job[p].end
        /\ \A s \in Procs : s # p => job'[s] = job[s] /\ sz'[s] = sz[s]
    BY <2>1, <1>a
  <2>4. Kept'
    <3>1. ASSUME NEW s \in Procs, NEW r \in Roles, ptr[s][r] # None
          PROVE  ptr[s][r] \in free' \/ \E t \in Procs, u \in Roles : ptr'[t][u] = ptr[s][r]
      <4>1. CASE r = Kstack \/ r = Mem \/ s # p
        BY <4>1, <2>2
      <4>2. CASE s = p /\ r \in Image("new")
        BY <4>2, <2>2
      <4>3. CASE s = p /\ r \in Image("cur")
        BY <4>3, <2>1, <3>1
      <4>. QED BY <4>1, <4>2, <4>3 DEF Roles
    <3>2. free \subseteq free'
      BY <2>1
    <3>. QED BY <3>1, <3>2, <1>a, MovedKept
  <2>5. CurOK(p)'
    <3>1. Tabled(p, "cur")'
      BY <1>d, <2>2 DEF Tabled
    <3>2. Mapped(p, "cur", PGROUNDUP(sz[p]))'
      BY <1>c, <1>d, <2>2, <2>3 DEF Mapped
    <3>3. job[p].end > 0
      BY <1>a, <1>d, Sizes
    <3>. QED BY <3>1, <3>2, <3>3, <1>b, <1>d, <2>1, <2>3 DEF CurOK, Idle
  <2>6. NewOK(p)'
    BY <2>2, <2>3, RoleFacts DEF NewOK, Tabled, Building, Idle
  <2>7. MemOK(p)' /\ CallOK(p)'
    BY <1>a, <1>c, <2>2, <2>3 DEF MemOK, CallOK, Idle
  <2>8. Forks'
    <3>1. job[p].child = None /\ job' \in [Procs -> Job]
      BY <1>a, <1>b, <2>1, HeaderFacts DEF Forks, Job, Idle, Pcs
    <3>. QED BY <3>1, <2>1, <2>2, <2>3, <1>a, <1>b, ForksKeep DEF Idle
  <2>. QED BY <2>1, <2>2, <2>3, <2>4, <2>5, <2>6, <2>7, <2>8, OwnStep DEF ProcOK
<1>. QED BY <1>1, <1>2, <1>3 DEF ExecStack

-----------------------------------------------------------------------------
(* Memory.                                                                 *)

LEMMA InitWhole == Init => Whole
<1>. SUFFICES ASSUME Init PROVE Whole
  OBVIOUS
<1>1. \A p \in Procs, r \in Roles :
        ptr[p][r] = IF p = InitProc /\ r \in BootRoles THEN Boot[r] ELSE None
  BY DEF Init
<1>2. /\ InitProc \in Procs /\ \A r \in BootRoles : Boot[r] \in Pages /\ Boot[r] # None
  BY VmAssumption
<1>3. 0 \in VPages /\ PGROUNDUP(PGSIZE) = 1 /\ PGSIZE > 0 /\ PGSIZE < KERNBASE
  <2>1. PGSIZE \in Nat /\ PGSIZE > 0 /\ 0 * PGSIZE < KERNBASE /\ PGSIZE < KERNBASE
    BY Sizes
  <2>2. 0 \in VPages
    BY <2>1, UserPage
  <2>3. 0 * PGSIZE < PGSIZE <=> 0 < PGROUNDUP(PGSIZE)
    BY <2>1, RoundUp
  <2>4. 1 * PGSIZE < PGSIZE <=> 1 < PGROUNDUP(PGSIZE)
    BY <2>1, RoundUp
  <2>5. PGROUNDUP(PGSIZE) \in Nat
    BY <2>1, PgRound
  <2>. QED BY <2>1, <2>2, <2>3, <2>4, <2>5
<1>4. BootRoles \subseteq Roles /\ \A r \in BootRoles : r \notin Image("new") /\ r # Mem
  BY <1>3, RoleFacts DEF BootRoles
<1>5. \A r \in Image("new") \cup {Mem} : r \in Roles /\ \A p \in Procs : ptr[p][r] = None
  BY <1>1, <1>4, RoleFacts
<1>6. \A p \in Procs : job[p] = Idle
  BY DEF Init
<1>7. ASSUME NEW p \in Procs
      PROVE  ProcOK(p)
  <2>1. NewOK(p)
    BY <1>5, <1>6, RoleFacts DEF NewOK, Tabled, Building, Idle
  <2>2. MemOK(p) /\ CallOK(p)
    BY <1>5, <1>6 DEF MemOK, CallOK, Idle
  <2>3. CurOK(p)
    <3>1. CASE p # InitProc
      <4>1. \A r \in Image("cur") : ptr[p][r] = None
        BY <3>1, <1>1, RoleFacts
      <4>2. state[p] = "UNUSED"
        BY <3>1 DEF Init
      <4>. QED BY <4>1, <4>2, RoleFacts DEF CurOK, Tabled, Blank
    <3>2. CASE p = InitProc
      <4>1. \A v \in VPages : Pg("cur", v) \in BootRoles <=> v = 0
        <5>. SUFFICES ASSUME NEW v \in VPages PROVE Pg("cur", v) \in BootRoles <=> v = 0
          OBVIOUS
        <5>1. /\ Pg("cur", v) # Kstack /\ Pg("cur", v) # At("cur", <<"dir", 0>>)
              /\ Pg("cur", v) # At("cur", <<"kpt", 0>>) /\ Pg("cur", v) # Tab("cur", 0)
              /\ Pg("cur", v) = Pg("cur", 0) <=> v = 0
          BY <1>3, RoleFacts
        <5>. QED BY <5>1 DEF BootRoles
      <4>2. \A v \in VPages : ptr[p][Pg("cur", v)] # None <=> v = 0
        BY <3>2, <4>1, <1>1, <1>2, RoleFacts
      <4>3. \A v \in VPages : v = 0 <=> v < 1
        BY Sizes DEF VPages
      <4>4. Mapped(p, "cur", 1)
        BY <4>2, <4>3 DEF Mapped
      <4>5. ptr[p][Tab("cur", 0)] # None
        BY <3>2, <1>1, <1>2, <1>3, RoleFacts DEF BootRoles
      <4>6. Tabled(p, "cur")
        BY <4>2, <4>5 DEF Tabled
      <4>7. sz[p] = PGSIZE /\ state[p] = "RUNNING"
        BY <3>2 DEF Init
      <4>. QED BY <4>4, <4>6, <4>7, <1>3, <1>6 DEF CurOK, Idle
    <3>. QED BY <3>1, <3>2
  <2>. QED BY <2>1, <2>2, <2>3 DEF ProcOK
<1>8. Kept
  <2>. SUFFICES ASSUME NEW g \in Pages, g \notin free
                PROVE  \E p \in Procs, r \in Roles : ptr[p][r] = g
    BY DEF Kept
  <2>1. PICK r \in BootRoles : Boot[r] = g
    BY DEF Init
  <2>. QED BY <2>1, <1>1, <1>2, <1>4
<1>9. Forks
  <2>1. \A p \in Procs : p # InitProc => ptr[p][Kstack] = None
    BY <1>1, RoleFacts
  <2>. QED BY <2>1, <1>2, <1>6 DEF Init, Forks, Idle
<1>10. panic = "no"
  BY DEF Init
<1>. QED BY <1>7, <1>8, <1>9, <1>10 DEF Whole

\* Once a page table is missing, short says so for ever.
LEMMA ShortStays ==
  ASSUME short, [Next]_vars
  PROVE  short'
<1>. USE DEF Abort, Panic
<1>1. CASE UNCHANGED vars
  BY <1>1 DEF vars
<1>2. ASSUME NEW p \in Procs, Exec(p) \/ SbrkGrow(p) \/ SbrkShrink(p) \/ Exit(p) \/ Reap(p) \/ \E q \in Procs : Fork(p, q)
      PROVE  short'
  BY <1>2 DEF Exec, SbrkGrow, SbrkShrink, Exit, Reap, Fork
<1>3. ASSUME NEW p \in Procs, AllocKstack(p) \/ SetupKvm(p) \/ NextPage(p) \/ MapPage(p)
      PROVE  short'
  BY <1>3 DEF AllocKstack, SetupKvm, NextPage, MapPage
<1>4. ASSUME NEW p \in Procs, ForkDone(p) \/ SbrkDone(p) \/ ExecSegment(p) \/ ExecGivesUp(p)
                             \/ ExecLoad(p) \/ ExecStack(p)
      PROVE  short'
  BY <1>4 DEF ForkDone, SbrkDone, ExecSegment, ExecGivesUp, ExecLoad, ExecStack, ExecCommit
<1>. QED BY <1>1, <1>2, <1>3, <1>4 DEF Next, Halt

\* A kernel that has stopped takes no step.
LEMMA Stops ==
  ASSUME panic # "no", [Next]_vars
  PROVE  UNCHANGED vars
<1>1. ASSUME NEW p \in Procs, Exec(p) \/ SbrkGrow(p) \/ SbrkShrink(p) \/ Exit(p) \/ Reap(p) \/ \E q \in Procs : Fork(p, q)
      PROVE  FALSE
  BY <1>1 DEF Exec, SbrkGrow, SbrkShrink, Exit, Reap, Fork, Ready
<1>2. ASSUME NEW p \in Procs, AllocKstack(p) \/ SetupKvm(p) \/ NextPage(p) \/ MapPage(p)
      PROVE  FALSE
  BY <1>2 DEF AllocKstack, SetupKvm, NextPage, MapPage, At_
<1>3. ASSUME NEW p \in Procs, ForkDone(p) \/ SbrkDone(p) \/ ExecSegment(p) \/ ExecGivesUp(p)
                             \/ ExecLoad(p) \/ ExecStack(p)
      PROVE  FALSE
  BY <1>3 DEF ForkDone, SbrkDone, ExecSegment, ExecGivesUp, ExecLoad, ExecStack, Complete, At_
<1>. QED BY <1>1, <1>2, <1>3 DEF Next, Halt

LEMMA NextWInv ==
  ASSUME WInv, [Next]_vars
  PROVE  WInv'
<1>1. IInv /\ IInv'
  BY NextIInv DEF WInv
<1>2. SUFFICES ASSUME ~short' PROVE Whole' \/ Stopped'
  BY <1>1 DEF WInv
<1>3. Whole \/ Stopped
  BY <1>2, ShortStays DEF WInv
<1>4. CASE UNCHANGED vars
  <2>1. \A p \in Procs : ProcOK(p)'
    BY <1>3, <1>4, Frame DEF vars, Whole, Stopped
  <2>2. Kept' /\ panic' = panic
    BY <1>3, <1>4, SameKept DEF vars, Whole, Stopped
  <2>3. CASE Whole
    BY <2>1, <2>2, <2>3, <1>4 DEF vars, Whole, Forks
  <2>4. CASE Stopped
    BY <2>1, <2>2, <2>4, <1>4 DEF vars, Stopped, Proper
  <2>. QED BY <1>3, <2>3, <2>4
<1>5. ASSUME Whole, NEW p \in Procs,
             \/ Exec(p) \/ SbrkGrow(p) \/ SbrkShrink(p) \/ Exit(p) \/ Reap(p)
             \/ AllocKstack(p) \/ SetupKvm(p) \/ NextPage(p) \/ MapPage(p)
             \/ ForkDone(p) \/ SbrkDone(p) \/ ExecSegment(p) \/ ExecGivesUp(p)
             \/ ExecLoad(p) \/ ExecStack(p)
             \/ \E q \in Procs : Fork(p, q)
      PROVE  Whole' \/ Stopped'
  BY <1>1, <1>2, <1>5, ExecWhole, SbrkGrowWhole, SbrkShrinkWhole, ExitWhole, ReapWhole,
     AllocKstackWhole, SetupKvmWhole, NextPageWhole, MapPageWhole, ForkDoneWhole, SbrkDoneWhole,
     ExecSegmentWhole, ExecGivesUpWhole, ExecLoadWhole, ExecStackWhole, ForkWhole
<1>6. CASE Stopped
  <2>1. panic # "no"
    BY <1>6 DEF Stopped, LoadPanics
  <2>. QED BY <2>1, <1>4, Stops
<1>7. CASE Whole
  BY <1>4, <1>5, <1>7 DEF Next, Halt
<1>. QED BY <1>3, <1>6, <1>7

LEMMA Memory == Spec => []WInv
<1>1. Init => WInv
  BY InitIInv, InitWhole DEF WInv
<1>2. WInv /\ [Next]_vars => WInv'
  BY NextWInv
<1>. QED BY <1>1, <1>2, PTL DEF Spec

\* No page is lost, through calls that run out of memory at any of their pages
\* and give up what they built, shrinking, exec and exit, for any number of
\* processes, as long as every page table could be allocated (fork and growproc
\* of proc.c, exec.c:95-100, vm.c:234-237 and 334-336).
THEOREM NoLossCorrect == Spec => []NoLoss
<1>1. WInv => NoLoss
  <2>. SUFFICES ASSUME Kept, NEW g \in Pages, g \notin free
                PROVE  g \in {ptr[pr[1]][pr[2]] : pr \in Procs \X Roles}
    BY DEF WInv, Whole, Stopped, NoLoss
  <2>1. PICK p \in Procs, r \in Roles : ptr[p][r] = g
    BY DEF Kept
  <2>2. <<p, r>> \in Procs \X Roles /\ ptr[<<p, r>>[1]][<<p, r>>[2]] = g
    BY <2>1
  <2>. QED BY <2>2
<1>. QED BY <1>1, Memory, PTL

\* As long as every page table could be allocated, and for any program headers:
\* a process that runs has a page for each address below its size and for no
\* other, after calls that succeeded and calls that failed, or it has none, where
\* sbrk(-sz) took them; loaduvm finds the pages of a proper segment; and the
\* kernel stops only in loaduvm, at a segment that is not proper (proc.c:123-141,
\* vm.c:82, 194-216 and 220-337, exec.c).
THEOREM ImageWholeCorrect == Spec => []ImageWhole
<1>1. WInv => ImageWhole
  <2>. SUFFICES ASSUME IInv, Whole \/ Stopped
                PROVE  /\ \A p \in Procs : Running(p) => Exact(p) \/ (p # InitProc /\ Gone(p))
                       /\ \A p \in Procs :
                            Complete(p) /\ job[p].call = "load" /\ Proper(job[p].ph) =>
                              \A v \in Loads(job[p].ph) : ptr[p][Pg("new", v)] # None
                       /\ panic # "no" => panic \in LoadPanics /\ \E p \in Procs : ~Proper(job[p].ph)
    BY DEF WInv, ImageWhole
  <2>1. ASSUME NEW p \in Procs, Running(p)
        PROVE  Exact(p) \/ (p # InitProc /\ Gone(p))
    <3>1. CurOK(p) /\ sz[p] \in Nat
      BY DEF Whole, Stopped, ProcOK, IInv, TypeOK
    <3>2. Mapped(p, "cur", PGROUNDUP(sz[p])) \/ (p # InitProc /\ Mapped(p, "cur", 0))
      BY <2>1, <3>1 DEF CurOK, Running, Idle
    <3>3. \A v \in VPages : ~(v < 0)
      BY Sizes DEF VPages
    <3>4. Mapped(p, "cur", 0) => Gone(p)
      BY <3>3 DEF Mapped, Gone
    <3>. QED BY <3>1, <3>2, <3>4, MappedExact
  <2>2. ASSUME NEW p \in Procs, Complete(p), job[p].call = "load", Proper(job[p].ph)
        PROVE  \A v \in Loads(job[p].ph) : ptr[p][Pg("new", v)] # None
    <3>1. Whole
      BY <2>2 DEF Stopped, LoadPanics, Complete, At_
    <3>. QED BY <2>2, <3>1, LoadMapped
  <2>. QED BY <2>1, <2>2 DEF Whole, Stopped
<1>. QED BY <1>1, Memory, PTL
=============================================================================

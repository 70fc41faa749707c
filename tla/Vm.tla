--------------------------------- MODULE Vm ---------------------------------
(***************************************************************************)
(* Physical pages and address spaces: the page allocator (kalloc.c), page  *)
(* tables (vm.c), and the calls that build, grow, copy, replace and free   *)
(* an image (fork, growproc and wait of proc.c, exec.c).                   *)
(*                                                                         *)
(* Processes ask for pages one at a time, under kmem.lock, so a call can   *)
(* run out of memory at any of its pages while others allocate and free.   *)
(* Addresses are counted in units of which PGSIZE make a page; a page      *)
(* table maps NPTENTRIES pages.                                            *)
(***************************************************************************)
EXTENDS Integers

CONSTANTS
  Procs,      \* slots of the process table
  InitProc,   \* the first process
  Pages,      \* physical pages
  Boot,       \* the pages userinit takes, by their roles
  PGSIZE,     \* units in a page
  NPTENTRIES, \* pages mapped by a page table
  KERNBASE,   \* end of the user addresses, in units
  UINT,       \* an unsigned int counts modulo UINT
  Headers,    \* the program headers of loadable segments exec may read
  ArgSizes,   \* sizes of what exec pushes on the stack
  Increments, \* arguments of sbrk
  None

\* Virtual pages and the page tables for them.
VPages == 0 .. (KERNBASE \div PGSIZE) - 1
Tables == {v \div NPTENTRIES : v \in VPages}

\* Pointers to pages: the kernel stack, the page a loop has just taken, and
\* the parts of an image: the directory, the kernel's table, the tables and
\* pages of the user part.  "cur" is proc->pgdir, "new" one being built.
Parts ==
  ({"dir", "kpt"} \X {0}) \cup ({"table"} \X Tables) \cup ({"page"} \X VPages)
Kstack    == <<"own", "kstack", 0>>
Mem       == <<"own", "mem", 0>>
At(i, x)  == <<i, x[1], x[2]>>
Image(i)  == {At(i, x) : x \in Parts}
Roles     == {Kstack, Mem} \cup Image("cur") \cup Image("new")
Pg(i, v)  == <<i, "page", v>>
Tab(i, v) == <<i, "table", v \div NPTENTRIES>>

BootRoles == {Kstack, At("cur", <<"dir", 0>>), At("cur", <<"kpt", 0>>), Tab("cur", 0), Pg("cur", 0)}

PGROUNDUP(n) == (n + PGSIZE - 1) \div PGSIZE      \* in pages

\* A program header.  Nothing says that it makes sense.
Uints    == 0 .. UINT - 1
Segments == [vaddr : Uints, memsz : Uints, filesz : Uints]

\* Sizes below KERNBASE do not wrap when they are added.
ASSUME VmAssumption ==
  /\ PGSIZE \in Nat \ {0} /\ NPTENTRIES \in Nat \ {0}
  /\ KERNBASE \in Nat /\ PGSIZE < KERNBASE /\ KERNBASE % PGSIZE = 0
  /\ UINT \in Nat /\ 2 * KERNBASE <= UINT /\ KERNBASE + 2 * PGSIZE < UINT
  /\ Headers \subseteq Segments /\ ArgSizes \subseteq Nat /\ Increments \subseteq Int
  /\ InitProc \in Procs /\ None \notin Pages \cup Procs
  /\ Boot \in [BootRoles -> Pages]
  /\ \A r, s \in BootRoles : Boot[r] = Boot[s] => r = s

VARIABLES
  free,   \* the pages of kmem.freelist
  ptr,    \* ptr[p][r]: the page p has in role r, or None
  sz,     \* proc->sz
  state,  \* proc->state
  job,    \* the call p is in
  short,  \* a page table could not be allocated
  panic

vars == <<free, ptr, sz, state, job, short, panic>>

NoHeader == [vaddr |-> 0, memsz |-> 0, filesz |-> 0]
Idle == [pc |-> "idle", call |-> "none", a |-> 0, end |-> 0, child |-> None, ph |-> NoHeader]

\* kinit1, kinit2: every page is free; userinit takes the kernel stack, the
\* directory, two tables and a page.
Init ==
  /\ free = Pages \ {Boot[r] : r \in BootRoles}
  /\ ptr = [p \in Procs |-> [r \in Roles |->
              IF p = InitProc /\ r \in BootRoles THEN Boot[r] ELSE None]]
  /\ sz = [p \in Procs |-> IF p = InitProc THEN PGSIZE ELSE 0]
  /\ state = [p \in Procs |-> IF p = InitProc THEN "RUNNING" ELSE "UNUSED"]
  /\ job = [p \in Procs |-> Idle]
  /\ short = FALSE
  /\ panic = "no"

-----------------------------------------------------------------------------
(* Pages.                                                                  *)

\* The first page of the free list; no step depends on which page that is.
Freelist == CHOOSE pg \in free : TRUE

\* kalloc: a page for role r of q.
Kalloc(q, r) ==
  /\ free # {}
  /\ free' = free \ {Freelist}
  /\ ptr' = [ptr EXCEPT ![q][r] = Freelist]

\* mutant: kfree leaves the pointer in place
KfreeDangling(q, S) ==
  /\ free' = free \cup ({ptr[q][r] : r \in S} \ {None})
  /\ ptr' = ptr

\* kfree of the pages q has in the roles S.
Kfree(q, S) ==
  /\ free' = free \cup ({ptr[q][r] : r \in S} \ {None})
  /\ ptr' = [ptr EXCEPT ![q] = [r \in Roles |-> IF r \in S THEN None ELSE ptr[q][r]]]

Panic(msg) == panic' = msg /\ UNCHANGED <<free, ptr, sz, state, job, short>>

At_(p, pc) == panic = "no" /\ job[p].pc = pc
Pc(p, pc)  == job' = [job EXCEPT ![p].pc = pc]

\* The image the call builds, and the slot it belongs to while it is built.
Target(p) == IF job[p].call = "sbrk" THEN "cur" ELSE "new"

-----------------------------------------------------------------------------
(* Calls.  A process runs user code only while it has a page; init never   *)
(* changes its size (init.c).                                              *)

Running(p) == state[p] = "RUNNING" /\ job[p] = Idle
Gone(p)    == \A v \in VPages : ptr[p][Pg("cur", v)] = None
Exact(p)   == \A v \in VPages : ptr[p][Pg("cur", v)] # None <=> v * PGSIZE < sz[p]
Ready(p)   == panic = "no" /\ Running(p) /\ ~Gone(p)

Start(p, call, pc, a, end, child) ==
  job' = [job EXCEPT ![p] =
            [pc |-> pc, call |-> call, a |-> a, end |-> end, child |-> child, ph |-> NoHeader]]

\* fork: allocproc claims a slot.
Fork(p, q) ==
  /\ Ready(p) /\ state[q] = "UNUSED"
  /\ state' = [state EXCEPT ![q] = "EMBRYO"]
  /\ Start(p, "fork", "kstack", 0, sz[p], q)
  /\ UNCHANGED <<free, ptr, sz, short, panic>>

\* exec of a file with a good ELF header.
Exec(p) ==
  /\ Ready(p)
  /\ Start(p, "exec", "dir", 0, 0, None)
  /\ UNCHANGED <<free, ptr, sz, state, short, panic>>

\* growproc(n), n > 0: allocuvm from PGROUNDUP(sz).
SbrkGrow(p) ==
  \E n \in Increments :
    /\ Ready(p) /\ p # InitProc /\ n > 0
    /\ sz[p] + n < KERNBASE
    /\ Start(p, "sbrk", "page", PGROUNDUP(sz[p]), sz[p] + n, None)
    /\ UNCHANGED <<free, ptr, sz, state, short, panic>>

\* The loop of deallocuvm from page a skips NPTENTRIES pages where there is no
\* table; unless a is the first page of its table, that misses the first pages
\* of the next table there is.
Missed(p, i, a) ==
  {v \in VPages : /\ a \div NPTENTRIES < v \div NPTENTRIES
                  /\ v % NPTENTRIES < a % NPTENTRIES
                  /\ \A w \in a .. v : w \div NPTENTRIES < v \div NPTENTRIES
                                          => ptr[p][Tab(i, w)] = None}

\* deallocuvm: the pages from PGROUNDUP(new) to old.
Dealloc(p, i, old, new) ==
  {Pg(i, v) : v \in {w \in VPages \ Missed(p, i, PGROUNDUP(new)) :
                       PGROUNDUP(new) <= w /\ w * PGSIZE < old}}

\* freevm: the pages, the tables and the directory.
Freevm(p, i) == {r \in Image(i) : r[2] # "page"} \cup Dealloc(p, i, KERNBASE, 0)

\* growproc(n), n < 0: sz + n may wrap, then nothing happens; size 0 is taken
\* for a failure, and proc->sz stays.
SbrkShrink(p) ==
  \E n \in Increments :
    LET new == (sz[p] + n) % UINT
    IN /\ Ready(p) /\ p # InitProc /\ n < 0 /\ new < sz[p]
       /\ Kfree(p, Dealloc(p, "cur", sz[p], new))
       /\ sz' = [sz EXCEPT ![p] = IF new = 0 THEN @ ELSE new]
       /\ UNCHANGED <<state, job, short, panic>>

\* exit, called or after a fault; init faults only where a page is missing, and
\* must not exit.
Exit(p) ==
  /\ panic = "no" /\ Running(p)
  /\ \/ /\ p # InitProc
        /\ state' = [state EXCEPT ![p] = "ZOMBIE"]
        /\ UNCHANGED <<free, ptr, sz, job, short, panic>>
     \/ p = InitProc /\ ~Exact(p) /\ Panic("init exiting")

\* wait of the parent: kfree(p->kstack), freevm(p->pgdir).
Reap(p) ==
  /\ panic = "no" /\ state[p] = "ZOMBIE"
  /\ Kfree(p, {Kstack} \cup Freevm(p, "cur"))
  /\ state' = [state EXCEPT ![p] = "UNUSED"]
  /\ UNCHANGED <<sz, job, short, panic>>

-----------------------------------------------------------------------------
(* The steps of a call.                                                    *)

\* The call returns -1.  fork gives the child's slot and stack back.  lost are
\* roles whose pages are forgotten, gone those that are freed.
Abort(p, gone, lost) ==
  LET q == job[p].child
  IN /\ free' = free \cup ({ptr[p][r] : r \in gone} \ {None})
                     \cup (IF q = None THEN {} ELSE {ptr[q][Kstack]} \ {None})
     /\ ptr' = [s \in Procs |-> [r \in Roles |->
                  IF (s = p /\ r \in gone \cup lost) \/ (s = q /\ r = Kstack) THEN None
                  ELSE ptr[s][r]]]
     /\ state' = IF q = None THEN state ELSE [state EXCEPT ![q] = "UNUSED"]
     /\ job' = [job EXCEPT ![p] = Idle]
     /\ UNCHANGED <<sz, panic>>

AllocKstack(p) ==
  /\ At_(p, "kstack")
  /\ \/ /\ Kalloc(job[p].child, Kstack)
        /\ Pc(p, "dir")
        /\ UNCHANGED <<sz, state, short, panic>>
     \/ free = {} /\ Abort(p, {}, {}) /\ short' = short

\* setupkvm: the directory, then the kernel's mappings.  When they fail the
\* directory is not freed.
SetupKvm(p) ==
  \/ /\ At_(p, "dir")
     /\ \/ /\ Kalloc(p, At("new", <<"dir", 0>>))
           /\ Pc(p, "kpt")
           /\ UNCHANGED <<sz, state, short, panic>>
        \/ free = {} /\ Abort(p, {}, {}) /\ short' = short
  \/ /\ At_(p, "kpt")
     /\ \/ /\ Kalloc(p, At("new", <<"kpt", 0>>))
           /\ Pc(p, "page")
           /\ UNCHANGED <<sz, state, short, panic>>
        \/ free = {} /\ Abort(p, {}, Image("new")) /\ short' = TRUE

\* What the failure of kalloc in allocuvm and copyuvm frees.
Undo(p) ==
  IF job[p].call = "sbrk" THEN Dealloc(p, "cur", job[p].end, sz[p]) ELSE Freevm(p, "new")

\* The loops of allocuvm and copyuvm: a page; copyuvm needs the parent's.
NextPage(p) ==
  /\ At_(p, "page") /\ job[p].a * PGSIZE < job[p].end /\ job[p].end < KERNBASE
  /\ \/ /\ job[p].call = "fork" /\ ptr[p][Pg("cur", job[p].a)] = None
        /\ Panic("copyuvm: page not present")
     \/ /\ job[p].call = "fork" => ptr[p][Pg("cur", job[p].a)] # None
        /\ \/ /\ Kalloc(p, Mem)
              /\ Pc(p, "map")
              /\ UNCHANGED <<sz, state, short, panic>>
           \/ free = {} /\ Abort(p, Undo(p), {}) /\ short' = short

\* mappages of that page: walkpgdir may need a table first.
MapPage(p) ==
  LET i == Target(p)
      a == job[p].a
  IN /\ At_(p, "map")
     /\ IF ptr[p][Tab(i, a)] = None
        THEN \/ /\ Kalloc(p, Tab(i, a))
                /\ UNCHANGED <<sz, state, job, short, panic>>
             \/ /\ free = {} /\ job[p].call = "fork"      \* bad: freevm(d), mem is lost
                /\ Abort(p, Freevm(p, "new"), {Mem}) /\ short' = TRUE
             \/ /\ free = {} /\ job[p].call # "fork"      \* allocuvm does not notice
                /\ ptr' = [ptr EXCEPT ![p][Mem] = None]
                /\ job' = [job EXCEPT ![p] = [@ EXCEPT !.pc = "page", !.a = a + 1]]
                /\ short' = TRUE
                /\ UNCHANGED <<free, sz, state, panic>>
        ELSE IF ptr[p][Pg(i, a)] # None THEN Panic("remap")
        ELSE /\ ptr' = [ptr EXCEPT ![p] = [@ EXCEPT ![Pg(i, a)] = ptr[p][Mem], ![Mem] = None]]
             /\ job' = [job EXCEPT ![p] = [@ EXCEPT !.pc = "page", !.a = a + 1]]
             /\ UNCHANGED <<free, sz, state, short, panic>>

Complete(p) == At_(p, "page") /\ job[p].a * PGSIZE >= job[p].end

\* The image "new" of p becomes the current one of q.
Handed(p, q) ==
  [s \in Procs |-> [r \in Roles |->
     IF s = q /\ r[1] = "cur" THEN ptr[p][<<"new", r[2], r[3]>>]
     ELSE IF s = p /\ r[1] = "new" THEN None
     ELSE ptr[s][r]]]

ForkDone(p) ==
  LET q == job[p].child
  IN /\ Complete(p) /\ job[p].call = "fork"
     /\ ptr' = Handed(p, q)
     /\ sz' = [sz EXCEPT ![q] = sz[p]]
     /\ state' = [state EXCEPT ![q] = "RUNNING"]
     /\ job' = [job EXCEPT ![p] = Idle]
     /\ UNCHANGED <<free, short, panic>>

\* mutant: growproc forgets proc->sz
SbrkDoneForgets(p) ==
  /\ Complete(p) /\ job[p].call = "sbrk"
  /\ job' = [job EXCEPT ![p] = Idle]
  /\ UNCHANGED <<free, ptr, sz, state, short, panic>>

SbrkDone(p) ==
  /\ Complete(p) /\ job[p].call = "sbrk"
  /\ sz' = [sz EXCEPT ![p] = job[p].end]
  /\ job' = [job EXCEPT ![p] = Idle]
  /\ UNCHANGED <<free, ptr, state, short, panic>>

StackPage(p)    == Pg("new", job[p].end \div PGSIZE - 1)
NoStackTable(p) == ptr[p][Tab("new", job[p].end \div PGSIZE - 2)] = None

\* The next program header: allocuvm goes on to the end of the segment, which
\* may wrap, if that is farther than the segments before; after the last, two
\* pages more, for the guard page and the stack.
ExecSegment(p) ==
  LET old == job[p].end
      Goes(call, end, ph) ==
        job' = [job EXCEPT ![p] = [@ EXCEPT !.call = call, !.end = end, !.ph = ph]]
  IN /\ Complete(p) /\ job[p].call = "exec"
     /\ \/ Goes("stack", (PGROUNDUP(old) + 2) * PGSIZE, NoHeader)
        \/ \E ph \in Headers :
             LET new == (ph.vaddr + ph.memsz) % UINT
             IN /\ ph.filesz <= ph.memsz /\ new < KERNBASE /\ new + old > 0
                /\ Goes("load", IF new < old THEN old ELSE new, ph)
     /\ UNCHANGED <<free, ptr, sz, state, short, panic>>

\* The new image of exec is given up: a header cannot be read or is refused, the
\* file ends before the segment does (readi in loaduvm, once a page was found),
\* or there is no room for the stack below KERNBASE (allocuvm).
ExecGivesUp(p) ==
  LET ph == job[p].ph
  IN /\ \/ Complete(p) /\ job[p].call = "exec"
        \/ /\ Complete(p) /\ job[p].call = "load"
           /\ ph.vaddr % PGSIZE = 0 /\ ph.filesz > 0
           /\ ph.vaddr < KERNBASE => ptr[p][Tab("new", ph.vaddr \div PGSIZE)] # None
        \/ At_(p, "page") /\ job[p].call = "stack" /\ job[p].end >= KERNBASE
     /\ Abort(p, Freevm(p, "new"), {}) /\ short' = short

\* The user pages that loaduvm reads the segment into.
Loads(ph) == {v \in VPages : ph.vaddr <= v * PGSIZE /\ v * PGSIZE < ph.vaddr + ph.filesz}

\* loaduvm of the segment.  It needs an aligned address and the tables of the
\* pages; where a table has no page it reads into the physical page 0, which is
\* nobody's, and where the segment goes beyond the user part it reads over the
\* kernel, and nothing more can be said.
ExecLoad(p) ==
  LET ph == job[p].ph
  IN /\ Complete(p) /\ job[p].call = "load"
     /\ IF ph.vaddr % PGSIZE # 0 THEN Panic("loaduvm: addr must be page aligned")
        ELSE IF \E v \in Loads(ph) : ptr[p][Tab("new", v)] = None
        THEN Panic("loaduvm: address should exist")
        ELSE IF ph.filesz > 0 /\ ph.vaddr + ph.filesz > KERNBASE THEN Panic("loaduvm: kernel")
        ELSE /\ job' = [job EXCEPT ![p] = [@ EXCEPT !.call = "exec", !.ph = NoHeader]]
             /\ UNCHANGED <<free, ptr, sz, state, short, panic>>

\* mutant: exec forgets to free the old image
ExecCommitLeaks(p) ==
  /\ free' = free
  /\ ptr' = Handed(p, p)
  /\ sz' = [sz EXCEPT ![p] = job[p].end]
  /\ job' = [job EXCEPT ![p] = Idle]
  /\ UNCHANGED <<state, short, panic>>

\* Commit to the new image, freevm(oldpgdir).
ExecCommit(p) ==
  /\ free' = free \cup ({ptr[p][r] : r \in Freevm(p, "cur")} \ {None})
  /\ ptr' = Handed(p, p)
  /\ sz' = [sz EXCEPT ![p] = job[p].end]
  /\ job' = [job EXCEPT ![p] = Idle]
  /\ UNCHANGED <<state, short, panic>>

\* clearpteu, then copyout of the arguments, which fails if they do not fit in
\* the stack page (the guard page below it is not PTE_U) or there is none.
ExecStack(p) ==
  /\ Complete(p) /\ job[p].call = "stack" /\ job[p].end < KERNBASE
  /\ IF NoStackTable(p) THEN Panic("clearpteu")
     ELSE \E n \in ArgSizes :
            \/ (n > PGSIZE \/ ptr[p][StackPage(p)] = None)
               /\ Abort(p, Freevm(p, "new"), {}) /\ short' = short
            \/ n <= PGSIZE /\ ptr[p][StackPage(p)] # None /\ ExecCommit(p)

Halt == panic # "no" /\ UNCHANGED vars

Next ==
  \/ Halt
  \/ \E p \in Procs :
       \/ Exec(p) \/ SbrkGrow(p) \/ SbrkShrink(p) \/ Exit(p) \/ Reap(p)
       \/ AllocKstack(p) \/ SetupKvm(p) \/ NextPage(p) \/ MapPage(p)
       \/ ForkDone(p) \/ SbrkDone(p) \/ ExecSegment(p) \/ ExecGivesUp(p) \/ ExecLoad(p)
       \/ ExecStack(p)
       \/ \E q \in Procs : Fork(p, q)

Spec == Init /\ [][Next]_vars

-----------------------------------------------------------------------------
(* Properties.                                                             *)

\* Every variable has its type.
TypeOK ==
  /\ free \subseteq Pages
  /\ ptr \in [Procs -> [Roles -> Pages \cup {None}]]
  /\ sz \in [Procs -> Nat]
  /\ state \in [Procs -> {"UNUSED", "EMBRYO", "RUNNING", "ZOMBIE"}]
  /\ short \in BOOLEAN

\* A page has one use (kalloc.c:54-95, vm.c): no page in use is free, and no
\* page is used twice, whichever step of whichever call runs out of memory.
OneUse ==
  \A p \in Procs, r \in Roles :
    ptr[p][r] # None =>
      /\ ptr[p][r] \notin free
      /\ \A q \in Procs, s \in Roles : ptr[q][s] = ptr[p][r] => q = p /\ s = r

\* No page is lost (the error paths of fork, exec.c:95-100, vm.c:234-237 and
\* 334-336), as long as every page table could be allocated.
NoLoss == ~short => Pages \subseteq free \cup {ptr[pr[1]][pr[2]] : pr \in Procs \X Roles}

\* A segment as linkers write them: aligned, with an end that does not wrap.
Proper(ph) == ph.vaddr % PGSIZE = 0 /\ ph.vaddr + ph.memsz < UINT
LoadPanics == {"loaduvm: addr must be page aligned", "loaduvm: address should exist",
               "loaduvm: kernel"}

\* As long as every page table could be allocated:
\* - a process that runs has a page for each address below its size and for no
\*   other ("Grow current process's memory by n bytes", proc.c:123), also after
\*   a call that failed; but sbrk(-sz), which growproc takes for a failure
\*   (proc.c:135), leaves it no page at all, and never init;
\* - the pages of a proper segment are there when loaduvm reads it ("must already
\*   be mapped", vm.c:194-195), in whatever order the segments come;
\* - the kernel stops at no other panic than those of loaduvm, and then a segment
\*   that is not proper was being loaded: never "remap", "copyuvm: page not
\*   present", "clearpteu" or "init exiting" (vm.c:82, 303 and 323, proc.c:191).
ImageWhole ==
  ~short =>
    /\ \A p \in Procs : Running(p) => Exact(p) \/ (p # InitProc /\ Gone(p))
    /\ \A p \in Procs :
         Complete(p) /\ job[p].call = "load" /\ Proper(job[p].ph) =>
           \A v \in Loads(job[p].ph) : ptr[p][Pg("new", v)] # None
    /\ panic # "no" =>
         panic \in LoadPanics /\ \E p \in Procs : ~Proper(job[p].ph)

\* sz is the "size of process memory" (proc.h:56).  It is not after sbrk(-sz):
\* no page is left and sz stays (proc.c:135-139), which VmSize.cfg shows.
SizeIsMemory == ~short => \A p \in Procs : Running(p) => Exact(p)
=============================================================================

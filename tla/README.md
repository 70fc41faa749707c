# A verification project for the stride-scheduling xv6 of T2-SO

The repository is the x86 teaching kernel xv6 with its round-robin scheduler
replaced by a stride scheduler (`src/src/proc.c`). This directory holds TLA+
models of the kernel's parts, the TLC configurations that check them on small
instances, and TLAPS proofs that hold for every instance.

## 1. The system

| component | state | operations | interacts with | what is hard | correct when |
|---|---|---|---|---|---|
| process table (`proc.c`, `trap.c`, `sysproc.c`) | `ptable` (state, pid, parent, chan, killed, kstack, step, sizeStep per slot), `nextpid`, `proc` of each CPU | allocproc, fork, exit, wait, kill, sleep, wakeup, yield, sched | every other part sleeps and wakes through it | the lock crosses `swtch`; fork fills its slot without the lock; slots are reused | no two CPUs on one stack; no lost exit; no orphan; pids unique; kill hits only its target |
| scheduler (`proc.c`) | `step`, `sizeStep`, the local scan | one choice in each round; a round-robin branch that is dead code | the table | several CPUs choose at once; a cutoff at 5000000 | smallest step is picked, nobody starves, CPU time is shared in proportion to tickets |
| log (`log.c`) | header in memory and on disk, log blocks, `busy` | begin_trans, log_write, commit_trans, recovery | file system calls, buffer cache | crash at any write, also in recovery; sleepers in begin_trans | transactions atomic and durable |
| buffer cache, IDE (`bio.c`, `ide.c`) | buffers with BUSY/VALID/DIRTY, LRU list, request queue | bread, bwrite, brelse, iderw, ideintr | log, inodes, interrupts | interrupts that name no request; replacement; sleepers on a buffer | one buffer per sector, one owner per buffer, nobody waits for ever |
| inodes (`fs.c`) | inode cache, inodes, bitmap, directories on disk | iget, idup, ilock, iunlock, iput, ialloc, bmap, itrunc, readi, writei, dirlookup, dirlink, namex | log, buffer cache, file table | references versus links, freeing while others look it up | no inode in use is freed, none is leaked |
| file table, pipes (`file.c`, `pipe.c`) | reference counts; ring of 512 bytes and two flags | filealloc, filedup, fileclose, fileread, filewrite; pipealloc, pipeclose, pipewrite, piperead | processes, inodes | closing one end while the other sleeps; killed sleepers | bytes in order, nobody sleeps for ever |
| file system calls (`sysfile.c`, `exec.c`) | none of their own | link, unlink, create, open, mkdir, mknod, chdir, exec, ... | all of the above | error paths after the first change | transactions cover all changes |
| memory (`vm.c`, `kalloc.c`) | free list, page tables | kalloc, kfree, setupkvm, allocuvm, deallocuvm, copyuvm, freevm | fork, exec, sbrk | failure half way | every page has one owner |
| console (`console.c`, `kbd.c`, `uart.c`) | input ring with r, w, e | consoleintr, consoleread, consolewrite | interrupts | editing what a reader may take | lines come whole |
| spin locks (`spinlock.c`) | locked, holder, ncli, intena | acquire, release, pushcli, popcli | everything | interrupts while a lock is held | mutual exclusion, no self-deadlock |
| clock (`trap.c`, `sysproc.c`) | `ticks` | timer interrupt, sys_sleep, sys_uptime | scheduler, processes | interrupts nest on kernel stacks and take locks themselves | nobody sleeps past his tick |
| shell (`sh.c`) | trees of commands, descriptors of a family of processes | parsecmd, runcmd | fork, exec, wait, pipe, open, dup, close | descriptors left open; steps that fail | a line does what it says and ends |
| user library, programs (`umalloc.c`, `ulib.c`, `printf.c`, `grep.c`, ...) | the heap's free list | malloc, free, printf, atoi, match, ... | sbrk, read, write | corner cases of pointers and numbers | they compute what they promise |
| devices, boot (`lapic.c`, `ioapic.c`, `mp.c`, `main.c`, ...) | registers | start-up | | | not modelled |
| tests, `mkfs` | | | | | clients of the above, not modelled |

`PROJECT.json` lists each part with its status and, under `hazards`, what could
go wrong in it that a test would hardly reach.

## 2. What is modelled

### `Proc`: the process table and the scheduler

A slot number stands for the slot's address; 0 is the null pointer. Every field
of `struct proc` that the protocol depends on is a function over slots. A
critical section of `ptable.lock` without a `swtch` is one action; one with a
`swtch` is cut there and `lock` stays held by the CPU in between, as in the
code, where the scheduler acquires the lock that the process releases. So
`yield` is three actions: `yield` (lock, state), `sched` (back to the
scheduler), and `YieldReturn` when it is dispatched again. What fork does
without the lock (`AllocKstack`, `ForkFails`, `ForkCopy`, `ForkRun`) are
actions that do not look at it and interleave with everything.

| code | actions |
|---|---|
| `scheduler` | `SchedulerStride` with `Candidates`, `minP` |
| `sched` and the scheduler's code after `swtch` | `sched` |
| `forkret` | `forkret`, `InitlogReturn` |
| `yield`, `sleep`, `wakeup` | `yield`, `YieldReturn`; `sleep`, `SleepReturn`; `wakeup` |
| `trap` | `SyscallEntry`, `SyscallReturn`, `UserFault`, `ToUser` |
| `allocproc`, `fork` | `allocproc` with `Claim`; `AllocKstack`, `ForkFails`, `ForkCopy`, `ForkRun` |
| `wait` | `wait`, `WaitAgain`, both one `WaitScan` |
| `kill`, `exit` | `kill`; `sys_exit`, `exit`, `InitExits` (the panic) |

Left open on purpose: what a system call that is not about processes does (it
may sleep on any channel of `Chans`, be woken, return), and which interrupt
wakes whom. `killedAs` and `gaveUp` are history variables: the pid that the
kill of a slot named, and the pids of forks that ran out of memory. Left out:
the round-robin branch of `scheduler` (`proc.c:279-307`), which is taken if the
global `s` is not 0; `s` is 0 (`proc.c:15`) and nothing assigns to it.

### `StrideSched`, `StrideLag`, `ProcStride`: stride scheduling

`StrideSched` says what a stride scheduler with a cutoff is, without locks or
CPUs. `ProcStride` maps the table to it (RUNNABLE is ready, SLEEPING blocked,
ZOMBIE, UNUSED and EMBRYO free) and states that `Proc` implements it. `StrideLag` adds a history of where each pair of processes
started and bounds how far their passes can drift apart.

### `Log`, `AtomicDisk`: transactions

`Log` is `log.c`: each write of a sector is a step, and `Crash` may come
between any two, also during recovery. `buf` is what `bread` returns; `Evict`
is `bget` recycling a buffer that is not B_DIRTY. `AtomicDisk` is the promise:
a disk on which the writes of a transaction become durable all at once, once in
a transaction and after the last of them (`committed`); what was not committed
is gone after a crash. `ImplementsAtomicDisk` maps what a
reboot would find (home blocks overlaid by what a committed header names) to
the abstract disk; the commit point is the first `write_head`, and a
transaction is committed from there to the end of `commit_trans`. `LOGSIZE` is the
size of the header's array, `LogBlocks` that of the log's area: `mkfs.c:17`
makes it LOGSIZE blocks with the header among them, so that one data block
less fits than `param.h:11` says, and `log_write` panics (`TooBig`) at that
one.

### `Pipe`, `Fifo`: pipes

One pipe, created, shared by fork, used and closed by several processes, and
created again. `pipe.c` is cut at every point where another process may see the
difference: `Acquire`; one action for each byte (`WriteByte`, `ReadByte`),
because `kill` does not take the pipe's lock; the test that ends in a sleep
(`WriteFull`, `ReadEmpty`) and the sleep itself (`Sleep`), between which `kill`
may come; and the return (`WriteDone`, `ReadDone`). `fileclose` is cut where it
releases `ftable.lock`. `nread` and `nwrite` wrap at `UINT` (2^32 in the code).
`eof` and `cut` are history variables: a read has returned 0, a write has given
up on a full ring that could still be read. `Fifo` is the promise: a bounded
queue with counted ends.

### `BufCache`, `SectorStore`: buffers and the disk

`bget` is one action for each outcome of a pass of its loop: `BgetHit`,
`BgetSleep`, `BgetRecycle`, `NoBuffers` (the panic). `bread` goes on with
`BreadReturn` and, if the buffer is not valid, `iderw`. `ideintr` is the
interrupt handler with `idestart` of the next request in it; `DriveDone` is the
drive, which is not part of the source. The list of buffers is a sequence from
`bcache.head.next` on; `brelse` moves its buffer to the front. A member of
`Procs` is one use of a buffer from bread to brelse, so that a process that has
two buffers is two of them. `SectorStore` is the promise: one current value and
one lock for each sector, and a disk that follows.

### `Fs`: inodes, directories, the file table and the calls on them

`fs.c`, `file.c` and `sysfile.c`, interleaved by two processes. A process
carries the rest of its system call in `todo`, a sequence of steps; each step
is what the code does under one lock (`icache.lock`, `ftable.lock`, the I_BUSY
flag of an inode, a buffer), and others may run between any two. Jumps to
`bad:` and early returns replace the rest of the sequence, so that every error
path is in the model with exactly the unlocks, puts and commits it has in the
code. `reg` holds the inode pointers that are local variables in the code (`ip`,
`dp`, `next`, `cwd`, ...): `RefsCounted` counts them.

| code | definitions |
|---|---|
| `iget`, `idup`, `ilock`, `iunlock`, `iput` | `IgetSlot`, `Ilock`, `Iunlock`; `Iput`, `Itrunc`, `Ifree`, `IputEnd` (cut where iput drops the lock) |
| `namex` | `Namex`, one `Element` for each turn of its loop |
| `create` | `CreateLookup`, `CreateExists`, `CreateNode` |
| `sys_link`, `sys_unlink` | `LinkBump`, `LinkEntry`, `DropLink`; `UnlinkLookup`, `UnlinkEntry` |
| `sys_open`, `sys_chdir`, `exec`, `exit`, `fork` | `SysOpen`, `Open`; `SysChdir`, `Chdir`, `SetCwd`; `Exec`; `Exit`, `CloseAll`; `Fork` |
| `fileclose`, `filedup`, `fileread`, `filewrite`, `filestat` | `Fileclose`, `SysDup`, `SysRead`, `Readi`, `SysWrite`, `Writei`, `SysFstat` |
| `begin_trans`, `commit_trans`, a `log_write` outside | `Begin`, `Commit`, `StrayWrite` |

The log is reduced to `trans`, its owner (module `Log` has the rest). A
directory is a function from names to inode numbers and fits in one block.
`MCFs` starts from a tree with `/a` and `/a/b`. Left out of the instance: a
process that creates files in a current directory that has been removed, and
`..` of a removed directory whose parent has been freed as well (`ilock: no
type`); a block number beyond the data blocks (see section 6). In `Open` the
file, the descriptor and the unlock are one step.

### `FileData`: the contents of files

`balloc`, `bfree`, `bmap`, `itrunc`, `readi`, `writei` and the splitting of a
`filewrite` into transactions, with direct and indirect blocks, one call at a
time. Cells of a block hold bytes or, in an indirect block, block numbers, so
that a block freed as data and used again as an indirect block would show. One
bitmap block covers the disk. A write that is too large for the file keeps the
parts before the first that does not fit, and returns -1 (`filewrite`); `Kept`
says how much that is, independently of the loop. LOGSIZE and NBUF are 6 in the
run, the tight case: data, bitmap, indirect block and inode just fit in the log,
and pinned in the cache they leave one buffer for the block of the log.

### `Vm`: pages and images

`kalloc.c`, `vm.c`, `exec.c`, and the parts of fork, growproc, exit and wait
that take or free pages. A page has a role: kernel stack, page directory,
kernel page tables (taken as one page), user page tables, user pages, of the
current image or of one being built, and the page a loop has just taken. Every
`kalloc` is a step of its own, so that a call may run out of memory at any of
its pages while others allocate and free. `short` remembers that a page table
could not be allocated, which the code handles badly (section 6). Sizes that
are not page aligned, that wrap and that shrink to 0 are in the inputs of sbrk;
after the last the process has no page, and can only fault and exit.
`ExecSegment` is a turn of the loop of exec over the program headers: any header
of `Headers`, whose address need not be aligned and whose end may wrap, or none,
and then the stack; the pages come from the same steps as those of sbrk, and
`ExecLoad` is loaduvm with its panics. init never calls sbrk. The TLB, which sbrk with a negative argument flushes
through `switchuvm`, is not modelled.

### `Terminal`, `LineInput`: terminal input

`consoleintr` and `consoleread`. The handler takes a character in one critical
section; a reader is cut at each turn of its loop. `r`, `w` and `e` wrap.
`LineInput` is the promise: a line that is edited, sent when it ends or nothing
more fits, and read in order, at most a line for a call. Not modelled: the echo
on the screen, `^P`, and reads of size 0.

### `Clock`: spin locks, interrupts and ticks

`spinlock.c`, the timer interrupt in `trap.c`, and what yield, sleep, wakeup,
kill, sched and the scheduler do to locks and interrupts. Processes and
schedulers have a stack of steps left to do; a call and an interrupt push
steps onto the stack that the CPU uses, so an interrupt can come in at any
step with interrupts on, and its frame goes with the process that is switched
out. `tickslock` and `ptable.lock` are the two locks that nest. The scheduler
picks any RUNNABLE process here: which one is `Proc`'s matter.

### `Umalloc`, `Shell`, `Text`, `Keyboard`, composed in `MCLibrary`

* `Umalloc` is `umalloc.c` with its circular list; addresses count headers.
* `Shell` is `sh.c` from tokens on: the parser's functions as recursive
  operators, checked by parsing the text of a tree (`Unparse`), and `runcmd` as
  a family of processes with descriptors, forks that fail, and `wait` that
  takes any child. `Wiring` says which descriptors a program is to have.
* `Text` has `memmove`, `skipelem` with the loop of `namex`, `printint`, `atoi`
  and grep's matcher, each beside a definition of what it computes.
* `Keyboard` has the modifier flags of `kbdgetc` from the bytes of a keyboard
  that presses and releases keys in any order.

`MCLibrary` runs them, and `FileData`, side by side: a behaviour is one of one
part.

### Mutants

A definition whose comment says `mutant` is a faulty version of the definition
after it (a dropped test, an off-by-one, a missing wakeup). No module uses it;
it is there to show that a property notices when the code goes wrong.

## 3. The runs

| run | bounds | shows |
|---|---|---|
| `proc_stride` (`MCProc.cfg`) | 2 CPUs, 3 slots, pids up to 3, strides 20 and 33, cutoff 60, kill of pids 0 and 2, memory failures | `OneStackOneCpu`, `StackAllocated`, `NoOrphans`, `NoLostExit`, `KilledOnlyIfTargeted`, `ImplementsStride` |
| `proc_yield_stride` (`MCProcCutoff.cfg`) | 1 CPU, 3 slots, stride 20, cutoff 60, fairness | `YieldOneRound` fails: the first finding of section 6 |
| `stride` (`StrideLag.cfg`) | 3 processes, strides 10 and 20, cutoff 40, one CPU, fairness | `LagBound`, `NoStarvation` |
| `log` (`Log.cfg`) | 3 processes, 3 blocks, 2 contents, 2 data blocks of log, fairness | `NoLostTurn`, `CleanBuffers`, `ImplementsAtomicDisk`, `Progress` |
| `buffers` (`BufCache.cfg`) | 2 users, 2 buffers, 3 sectors, 2 contents, a drive that does not fail, fairness | `OneCopyOneOwner`, `NobodyForgotten`, `ImplementsStore`, `RequestsEnd` |
| `pipe` (`Pipe.cfg`) | 2 processes, a ring of 2 bytes, counters modulo 4, counts 1 and 3, 2 byte values, fairness | `NoLostWakeup`, `PageOwned`, `EofIsFinal`, `ImplementsFifo`, `HangUp` |
| `fs` (`Fs.cfg`) | 2 processes, 3 overlapping calls, 4 cache entries, 3 inodes, 3 blocks, 1 open file | `CacheExact` (one entry for an inode, references and files counted, locks given back, cached copies), `DiskExact` (links, bitmap), `NoPanic`, `LockedChange` |
| `fs_up` (`FsUp.cfg`) | the same | `KernelUp` fails: the second finding of section 6 |
| `vm` (`Vm.cfg`) | 3 processes, 14 pages, 2 pages to a table, images below 5 pages, 8 program headers | `OneUse`, `NoLoss`, `ImageWhole` |
| `terminal` (`Terminal.cfg`) | 2 readers, a ring of 3, indices modulo 6, fairness | `RingInv`, `ImplementsLineInput`, `Consumed` |
| `clock` (`Clock.cfg`) | 2 CPUs, 2 processes, ticks modulo 3, naps of -1, which is 2 as an unsigned number | `LockDiscipline` (one holder, nesting, no panic, no embrace), `InterruptDiscipline`, `NoLostTick` |
| `library` (`Library.cfg`) | heap of 11 units, trees of two levels and more, files of 3 blocks, texts of 4 characters, ints of 8 bits | `HeapInv`, `LineInv`, `LineEnds`, `DataInv`, `Computed` |

A name in the table may be a conjunction of named parts; each part is stated
with its own comment in its module. What is proved for every instance and says
little on a small one (the types, `UniquePids`, `StepBound`, `Quiescent`,
`BreadReturnsSector`) is left to section 5.

Why the bounds are enough to be interesting: three slots let a process, its
child and its grandchild (or two children) exist at once, so a parent can die
between a grandchild's exit and a wait; a slot is reused after a reap and after
a failed fork; two CPUs suffice for every race over one lock; the cutoff of 60
is reached. Three blocks and two log slots let a transaction be absorbed, be
full, and be cut at every write; three processes let a wakeup find two
sleepers. Counts of 1 and 3 on a ring of 2 bytes let a write sleep in its
middle and be finished by another, and counters modulo 4 wrap after two rounds.
Two buffers for three sectors force replacement while one of them is busy,
pinned or waited for. In `fs` every inode is in use and one block is free at
the start, so that a creation fails or takes what a removal has just freed, and
only one file may be open; three calls by two processes let a third call meet
what two others left half done. In `vm` fourteen pages are too few for three images, and an
image of more than two pages needs a second page table; of the program headers
that exec may read, in any order and number, two are proper, one does not fit,
one is refused, one is not aligned, and three wrap to pages that are in no
table, in a table, and the kernel's. A ring of three
characters with indices modulo six wraps, is full, and holds a line longer
than a small read. A clock modulo three wraps while somebody sleeps. What the
small instance cannot show is proved, where it could be (section 5).

Deadlock is not checked where the system really may stop: in the runs of
`Proc`, when every CPU has panicked because init exited; in `BufCache`, when
bget panics for want of a buffer; in `library`, of which every part but the
keyboard comes to an end.

Symmetry: the CPUs (`MCProc`) and the processes (`MCClock`) are interchangeable
model values; symmetry is used only in runs without liveness properties. The
run `vm` identifies states that differ only in the names of the pages by a
`VIEW`: `Shape` keeps, for each pointer, whether it is null, and how many pages
are free. Which page the free list gives is chosen without regard to its name,
so states with the same shape have the same continuations as long as `OneUse`
holds, which is proved.

## 4. Fairness

* `Proc!FairSpec`: weak fairness of the scheduler's loop, of `sched`, of a
  process that has been switched to, and of the timer interrupt that makes the
  running process yield (or exit, if it was killed in user space). The
  scheduler is an endless loop and the timer is periodic. No system call is
  assumed to end and no sleeper to be woken. This is the only fairness here
  that speaks of the scheduler itself: it says that a choice is made, not who
  is chosen.
* `StrideLag!LagFairSpec`: dispatches go on and every turn ends, for the same
  reasons.
* `Log!LogFairSpec`: recovery runs, a process that is in a transaction ends it,
  and a woken process tries again. `Progress` speaks of behaviours in which
  crashes stop, and allows the panic of a transaction that is too big.
* `Pipe!FairSpec`: a process that is in the kernel runs on. Nothing says that
  anyone calls, closes or is killed. `HangUp` allows calls to keep coming for
  ever: a spin lock is not handed out in order, so a stream of calls on other
  CPUs may keep one process from it.
* `BufCache!FairSpec`: the drive answers, its interrupt is taken, and a process
  in bget, bread or iderw runs on. Nothing says that an owner ever releases its
  buffer, so nothing is claimed of the waiters in bget.
* `Terminal!FairSpec`: a reader that is in the kernel runs on; nobody is
  assumed to type or to read. `Consumed` speaks of as long as somebody reads.
* `MCLibrary!Spec`: the processes of a command line, taken together, go on
  while one of them can. A program that reads a pipe ends when no write end is
  left; others end by themselves. `Fs`, `Vm` and `Clock` are checked for safety
  only.

The models other than `Proc` have no scheduler: that a process in the kernel, or
one that was woken, runs on is an assumption of `Progress`, `RequestsEnd`,
`HangUp`, `Consumed` and `LineEnds`. The scheduler justifies it only below its
cutoff (`NoStarvation`): a process whose step has reached 5000000 is never
dispatched again (`proc.c:319`, section 6), wherever it is in the kernel, with
the log, a buffer or a pipe in its hands. The five properties are about systems
in which no process has become that old: at the default 500 tickets, after
250000 dispatches.

## 5. What is proved

All theorems are for every value of the constants that satisfies the named
assumptions (at least one slot, a free lock has no owner, channels are not
slots, tickets are integers, a positive cutoff and log size; the size of a ring
divides the range of its counters; the kernel starts at a page boundary, above
the first page; a process is not a CPU).

* `ProcProofs`: `TypeCorrect`; `OneStackCorrect`, `StackCorrect`,
  `UniquePidsCorrect`, `KillCorrect`. The first two safety properties are not
  inductive. The inductive invariant adds `CpuInv` (a CPU without the lock is
  with a RUNNING process, and every RUNNING process is with a CPU),
  `ContextInv` (who resumes in wait is in a system call) and `ForkInv` (a
  process in fork owns the slot it fills, alone, although it works without the
  lock). `UniquePids` rests on `PidInv`: pids are given out once, also those
  that a failed fork leaves behind. `KillCorrect` is for every argument of kill
  and with forks that run out of memory; it rests on `SlotInv`: a free slot has
  no pid but 0 or that of a failed fork, so the only kills that a slot can keep
  for a later process named a pid that no process ever had. `NoOrphansCorrect` and
  `NoLostExitCorrect` follow by `ParentInv` (a free slot has no parent, one
  being filled none but its creator, init never dies). `StepBoundCorrect`;
  `StrideRefinement`: `Proc` implements `StrideSched`, whatever the number of
  CPUs. Every action of the table is shown to be a step of the
  abstract scheduler or to leave it alone. `LagCorrect` says of
  that scheduler, for any strides and any number of processes, that on one CPU
  the passes stay close (`LagBound`).
* `FsProofs`, the log: `LogTypeCorrect`, `NoLostTurnCorrect`, `CleanBuffersCorrect`,
  `QuiescentCorrect`, `AtomicRefinement`. The invariant `LogInv` says what the
  disk, the header and the buffers are at each point of a transaction and of
  recovery; the lemmas `OverlayFacts`, `InstallKeeps`, `InstallDone` and
  `LogWriteKeeps` say what copying a block home, finishing, and logging a block
  do to what a reboot would find.
* `PipeProofs`: `TypeCorrect`, `NoLostWakeupCorrect`, `PageOwnedCorrect`,
  `EofIsFinalCorrect`, for any number of processes, any size of the ring and
  any width of the counters. `WakeInv` says why no wakeup is lost: whoever ends
  a condition that others sleep on holds the lock and is still on its way to
  the wakeup. `CountInv`, `PointInv` and `OpenInv` tie the reference counts to
  the descriptors and to the processes inside pipeclose.
* `BufCacheProofs`: `TypeCorrect`, `OneCopyCorrect` and
  `NobodyForgottenCorrect`, for any number of users, buffers and sectors and
  also for a drive that fails; `BreadCorrect` and `StoreRefinement` for one
  that does not. The invariant adds to the checked
  properties what the flags say at each point (`PointInv`), that the queue
  holds each waiting buffer once and the drive works on its head (`QueueInv`),
  and that clean buffers agree with the disk (`Coherent`). The refinement maps
  bget's success to taking the sector's lock, bwrite and log_write to a change
  of its value, the completion of a write to the disk following it.
* `PipeProofs`, `FifoRefinement`: `Pipe` implements `Fifo`. `nread` and `nwrite`
  wrap at `UINT` and index the ring modulo its size; the number
  of bytes is their difference modulo `UINT` (`Amount`), the queue a run of the
  ring from `nread` on (`Run`). A byte keeps its place when a counter wraps,
  because the size divides `UINT` (`Slot`); `RunPut` and its like say what a
  byte written or read does to a run.
* `TerminalProofs`: `RingCorrect`, `LineRefinement`, for any size of the ring
  that divides the range of the indices, any number of readers and any keys.
  What has been sent (from `r` to `w`) and what is being edited (from `w` to
  `e`) are runs of the ring; each key of `consoleintr` and each turn of
  `consoleread` is then a step of the line or leaves it alone.
* `VmProofs`: `TypeCorrect`, `OneUseCorrect`, for any number of processes and
  pages, any page size and any program headers, and whichever allocation
  fails. The invariant is `TypeOK`, the types of the calls in progress
  (`JobOK`) and `OneUse` itself, which is inductive with them: a page that is
  taken was free, and a role that is given up is cleared as its page is freed
  (`GivenUp`). `NoLossCorrect` and `ImageWholeCorrect` add `Whole`: what each
  process has at each point of a call that builds an image page by page
  (`ProcOK`), and which child a fork is filling (`Forks`). A process that runs
  has the pages below its size, or none (`Gone`), and then it makes no call.
  What stops the kernel is the load of a segment that is not proper
  (`Stopped`): for a proper one the pages are there (`LoadMapped`), because a
  segment ends where allocuvm went or below. Both speak of
  behaviours in which no page table was missing (`short`), the failure that the
  code handles badly (section 6); running out of memory at any other page is
  included.
* `ClockProofs`: `LockCorrect`, `InterruptCorrect`, `TickCorrect`, for any
  number of CPUs and processes, any clock and any naps. The properties are not
  inductive, and no bound on what is on a stack is known, so the invariant
  judges a stack by its steps: `StackOK` says of each step what the steps below
  it must be (`Good`: the locks that are then held, the calls it belongs to,
  whether it is in a handler). It is checked once for each function of the code,
  where its steps are put on a stack (`PushYield`, `PushSleep`, `PushClock`,
  ...); a step that is done only takes itself away. The rest of `Inv` ties the
  stacks to the machine: `Switched` (who is where between two calls of swtch),
  `Owners` (the stack in use shows the locks a CPU has), `Cpus` (`ncli`, the
  interrupt flag, and what `intena` will restore), `Ticking` (who sleeps, or is
  about to with ptable.lock taken, has time left, or wakeup1 is on the way).
* `FsProofs`, the calls: `CacheCorrect`, `LockedChangeCorrect`,
  `AssertionsCorrect`, for any number of processes, entries, inodes, blocks,
  files and names, any requests and any paths. The code of a call is data here
  (`todo`), of no bounded length, and which pointers a process must have at a
  step depends on what is left of it. So the invariant `IInv` reads it off: a
  step uses tokens (a pointer in a register, a lock on the inode of a
  register, the log) and makes others (`Uses`, `Makes` of `FsCode`), and
  `Needs(t)` is what the steps of `t` use before they make it. `Holding` and
  `Locks` say that a process has exactly the pointers and locks that its code
  needs, and no more, hence no call returns with one left. `Code(t)` says that
  `t` is a well-formed rest of a call: each step can be in front of those that
  follow (`Good`): what it takes is for them, what it gives back they do not
  use, and where it may fail the code of the failure (`Fail`) needs what is
  then left. It is proved once for each call, where its steps are laid out
  (`StartOpen`, `StartLink`, ...), and for each step by what the step takes
  away or puts in place (`StepElement`, `StepUnlinkLookup`, ...). The rest of
  `IInv` ties the code to the memory: `RefsAre` and `FilesAre` (the count of
  an entry is the number of registers and open files that point to it, that of
  a file the number of its descriptors), `Opened` (who is in a call on a file
  keeps it open), `Unique` (one entry for an inode), `Copied` (a valid entry
  is a copy of the dinode, unless its inode is being freed), `Freeing` (such
  an entry is locked by a process whose next step marks it invalid). TLC
  checked `IInv` before it was proved, with two calls on the tree of `fs`.

Only model-checked:

* everything under fairness (`NoStarvation`, `Progress`, `HangUp`,
  `RequestsEnd`, `Consumed`, `LineEnds`), which the prover cannot treat;
* `Computed`, `LineInv` and `DataInv`: the functions of `Text`, `Shell` and
  `FileData` are recursive, over strings, trees and block lists, and what a
  recursive definition computes needs induction over its data; `HeapInv` of
  `Umalloc`, whose malloc and free walk a list of any length;
* `DiskExact` and `NoPanic` of `Fs`. They are not theorems of the code for every
  request: `..` of a removed directory still names its parent, and if that was
  removed as well its inode may be free (`ilock: no type`) or belong to another
  file; a process may create files in a current directory that was removed. The
  instance of `MCFs` leaves both out (section 3). `AssertionsCorrect` is the part
  of `NoPanic` that holds without conditions. The other panics are "no inodes",
  a matter of size, and "write outside of trans", a finding of section 6.

## 6. Findings and known deviations

First finding: a process whose step has reached the 5000000 at which the
scheduler starts its search (`proc.c:319`) is never dispatched again, even by an
idle CPU, and no step of a living process ever goes down. The comment on yield
says "Give up the CPU for one scheduling round." (`proc.c:372`). Run
`proc_yield_stride`, property `YieldOneRound`: under `FairSpec`, a process that
yields with its step at the cutoff stays RUNNABLE for ever.

Second finding: `chdir`, `exit`, `open`, `exec` and the walk of a path call `iput`
without a transaction (`sysfile.c:372`, `proc.c:201`, `sysfile.c:308`,
`exec.c:49`, `fs.c:617`), and `iput` frees an inode through `log_write`. If that
drops the last reference to a removed inode, `log_write` panics with "write
outside of trans" (`log.c:166`): `mkdir a; cd a; rm /a; cd /` stops the machine.
Run `fs_up`, property `KernelUp`.

Known deviations, each visible in the models. Those with a configuration in
parentheses are counterexamples that TLC finds with it.

* `proc.c:471` kill does not look at the state of a slot: kill(0) marks a free
  slot, and the next process forked into it is born killed; so does a kill with
  the pid that a fork out of memory left behind (`KillsTheNamed`,
  `MCProcKill.cfg`).
* `pipe.c:110` a kill between the test of `killed` and the sleep in piperead or
  pipewrite is lost, and the process sleeps on (`PipeKill.cfg`).
* `pipe.c:85` a killed writer that finds the ring full returns without waking
  the readers, who sleep in front of a full pipe (`PipeCut.cfg`).
* `ide.c:106` a read that the drive fails leaves the buffer marked valid, and
  bread returns what it held before (`BufCacheFault.cfg`).
* `vm.c:142`, `vm.c:240`, `vm.c:329` when `mappages` or `setupkvm` cannot get a
  page table, the page just taken for it belongs to nobody or the failure goes
  unnoticed; `deallocuvm` (`vm.c:261`) skips a range by page tables and frees
  less than asked if it starts inside one. `NoLoss` and `ImageWhole` speak of
  behaviours in which this has not happened yet (`short`).
* `proc.c:135` a size of 0 is a failure to `growproc`: sbrk(-sz) frees every
  page, reports an error and leaves `sz`, which is then not the "Size of process
  memory" (`proc.h:56`; `SizeIsMemory`, `VmSize.cfg`). The process faults at its
  next instruction and exits; `ImageWhole` says that the kernel survives it.
* `exec.c:44` exec checks neither that a segment is aligned nor that its end does
  not wrap, which loaduvm relies on (`vm.c:194-195`): it then panics, or reads
  over the kernel where the segment goes beyond the user part. `ImageWhole`
  says that this, and no other panic of `vm.c`, can happen, and only there.
* `sysproc.c:68` sleep with a negative argument is a sleep of nearly 2^32
  ticks; `Clock` has such a nap.
* `sh.c:392` `>>` opens like `>`; the innermost of two redirections wins; when
  the second fork of a pipe fails (`sh.c:111`), the left side is left running,
  and `InOrder` and `Prompt` do not count it.
* `fs.c:63` `balloc` scans up to `sb.size`, and the log lies at the end of the
  disk: without a free data block it hands out the log's own. `Fs` and
  `FileData` stop where the data blocks are used up.
* Outside of the models: `umalloc.c:69` sizes near 2^32 wrap to small ones;
  `grep.c:20` searches past the bytes that were read, and `grep.c:28` drops a
  line that fills the buffer; `mkfs.c:151` rounds the size of the root directory
  up by a whole block also when it is a multiple of BSIZE.

## 7. What is not modelled, and the plan

Not modelled, and why:

* Device registers: `lapic.c`, `ioapic.c`, `picirq.c`, `timer.c`, `uart.c`, the
  screen of `console.c`, the ports of `ide.c`. What they do to the rest, the
  interrupts, are actions of `Clock`, `BufCache`, `Terminal` and `Keyboard`.
* Boot: `bootasm.S`, `bootmain.c`, `entry.S`, `entryother.S`, `main.c`, `mp.c`.
  It runs once, before the first process; the other CPUs do nothing but enter
  the scheduler.
* `trapasm.S`, `swtch.S`, `vectors.S` (generated), `mmu.h`, `x86.h`: saved
  registers and segments, which the models do not have.
* `syscall.c`: fetching arguments checks addresses and changes no state.
* `mkfs.c`: a host program; what it leaves on the disk is in the initial states
  of `Log`, `Fs` and `FileData`.
* `usertests.c`, `forktest.c`, `stressfs.c` and the small programs (`cat`, `wc`,
  `ls`, ...): clients without state.
* `fmt/`: copies of the sources for printing, and `stdlib.h`, a header of
  another system that the kernel does not include. These, with the tests and the
  generated vectors, are more than half of the lines in the repository, so that
  the share of them that the models stand for is small, although most of the
  kernel's own logic is there.
* `procdump` prints without taking the lock and changes nothing; characters of
  `gettoken`, the `cd` of the shell, `grep`'s loop around read.

Left to do, in this order:

1. Links and blocks of `Fs` (`DiskExact`) as a theorem, for requests that do not
   go through a removed directory: it needs what is known of a directory that is
   not locked, from its links and from the entries of others.
2. Directories of several blocks and the bound of `balloc` in `Fs`; a crash in
   the middle of a call, by composing `Fs` with `AtomicDisk`.
3. The TLB in `Vm`, for an image that shrinks while it runs.

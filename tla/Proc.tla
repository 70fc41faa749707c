-------------------------------- MODULE Proc --------------------------------
(***************************************************************************)
(* The process table and the per-CPU scheduler (proc.c, trap.c,            *)
(* sysproc.c).                                                             *)
(*                                                                         *)
(* Every field of struct proc that the table's protocol depends on is a    *)
(* function over slots.  A slot number stands for the address of the slot, *)
(* so the scan order of every loop over ptable.proc is the order of the    *)
(* numbers, and 0 is the null pointer.                                     *)
(*                                                                         *)
(* A critical section of ptable.lock that contains no swtch is one action: *)
(* it runs with interrupts off and every other access to what it reads     *)
(* that matters to it takes the lock.  A critical section that contains a  *)
(* swtch is cut there, with the lock left held by the CPU in between: the  *)
(* scheduler acquires it and the process it switches to releases it, and   *)
(* the other way round.  The writes the code makes without the lock        *)
(* (allocproc and fork on the slot they are filling, trap on proc->killed) *)
(* are actions that do not look at the lock.                               *)
(***************************************************************************)
EXTENDS Integers, FiniteSets

CONSTANTS
  NPROC,        \* number of slots of the table (param.h: 64)
  CPUS,         \* the processors
  NoCpu,        \* owner of a free lock
  Chans,        \* sleep channels other than process addresses
  Tickets,      \* the arguments fork is called with (sys_fork: only 500)
  StepLimit,    \* a process whose step is not below it is never picked (5000000)
  MayFail,      \* whether kalloc and copyuvm may run out of memory
  KillPids,     \* the arguments kill is called with
  MaxPid        \* bound: fork is not called once nextpid exceeds it

Procs == 1..NPROC

(* The slot userinit fills: the first one. *)
initproc == 1

ASSUME NPROCAssumption == NPROC \in Nat \ {0}
ASSUME CpuAssumption == NoCpu \notin CPUS
ASSUME ChanAssumption == Chans \cap (0..NPROC) = {}
ASSUME TicketAssumption == Tickets \subseteq Int
ASSUME LimitAssumption == StepLimit \in Nat \ {0}
ASSUME MemoryAssumption == MayFail \in BOOLEAN
ASSUME PidAssumption == KillPids \subseteq Nat /\ MaxPid \in Nat

VARIABLES
  lock,       \* the CPU that holds ptable.lock, or NoCpu
  state,      \* p->state
  pid,        \* p->pid
  parent,     \* p->parent
  chan,       \* p->chan
  killed,     \* p->killed
  kstack,     \* whether p->kstack points to an allocated page
  step,       \* p->step, the stride pass of p
  sizeStep,   \* p->sizeStep, the stride of p
  context,    \* where p->context resumes
  pc,         \* where p is: in user space or at a point of a system call
  np,         \* fork's local np
  nextpid,    \* nextpid
  proc,       \* per CPU: proc, whose kernel stack and page table it uses
  halted,     \* the CPUs that panicked
  killedAs,   \* history: the pid a slot had when killed was last set in it
  gaveUp      \* history: the pids of forks that ran out of memory

table == <<state, pid, parent, chan, killed, kstack, step, sizeStep>>
control == <<context, pc, np, nextpid>>
cpuVars == <<proc, halted>>
history == <<killedAs, gaveUp>>
vars == <<lock, table, control, cpuVars, history>>

States == {"UNUSED", "EMBRYO", "SLEEPING", "RUNNABLE", "RUNNING", "ZOMBIE"}

(* forkret, and the three callers of sched that are resumed after it; exit
   is never resumed. *)
Contexts == {"forkret", "yield", "sleep", "wait", "exit"}

(* initlog: the first process before its first return to user space, in
   forkret's call of initlog.  user: in user space.  kernel: inside a system call that may still fork,
   wait, kill or sleep.  kstack, copy, run: in fork, before kalloc, before
   copyuvm, before the child is made RUNNABLE.  exit: in exit(), closing
   files. *)
Points == {"initlog", "user", "kernel", "kstack", "copy", "run", "exit"}
InFork == {"kstack", "copy", "run"}

-----------------------------------------------------------------------------
(* Helpers. *)

(* The slot a loop over the table meets first among those of S. *)
First(S) == {p \in S : \A q \in S : p <= q}

(* allocproc: the stride that the number of tickets buys. *)
SizeStep(tickets) ==
  IF tickets = 0 THEN 10000 \div 500
  ELSE IF tickets <= 50 THEN 10000 \div 50
  ELSE IF tickets >= 1000 THEN 10000 \div 1000
  ELSE 10000 \div tickets

(* wakeup1: the states once every sleeper on a channel of woken is RUNNABLE. *)
wakeup1(woken) ==
  [p \in Procs |-> IF state[p] = "SLEEPING" /\ chan[p] \in woken
                     THEN "RUNNABLE" ELSE state[p]]

Children(p) == {q \in Procs : parent[q] = p}

(* p executes on c and c does not hold ptable.lock: its kernel or user code
   may take a step of its own. *)
Runs(c, p) == proc[c] = p /\ lock # c /\ c \notin halted

(* trap: where p goes when it is about to return to user space. *)
ToUser(p) == IF killed[p] THEN "exit" ELSE "user"

-----------------------------------------------------------------------------
(* main and userinit have run: slot 1 holds the first process, whose first
   instruction is that of initcode. *)
Init ==
  /\ lock = NoCpu
  /\ state = [p \in Procs |-> IF p = initproc THEN "RUNNABLE" ELSE "UNUSED"]
  /\ pid = [p \in Procs |-> IF p = initproc THEN 1 ELSE 0]
  /\ parent = [p \in Procs |-> 0]
  /\ chan = [p \in Procs |-> 0]
  /\ killed = [p \in Procs |-> FALSE]
  /\ kstack = [p \in Procs |-> p = initproc]
  /\ step = [p \in Procs |-> 0]
  /\ sizeStep = [p \in Procs |-> IF p = initproc THEN SizeStep(500) ELSE 0]
  /\ context = [p \in Procs |-> "forkret"]
  /\ pc = [p \in Procs |-> IF p = initproc THEN "initlog" ELSE "user"]
  /\ np = [p \in Procs |-> 0]
  /\ nextpid = 2
  /\ proc = [c \in CPUS |-> 0]
  /\ halted = {}
  /\ killedAs = [p \in Procs |-> 0]
  /\ gaveUp = {}

-----------------------------------------------------------------------------
(* The scheduler. *)

(* The slots the stride loop considers, and the one it settles on: the
   smallest step, the first of those that have it. *)
CandidatesRunningToo ==   \* mutant: the test of the state is too weak
  {p \in Procs : state[p] \in {"RUNNABLE", "RUNNING"} /\ step[p] < StepLimit}
Candidates == {p \in Procs : state[p] = "RUNNABLE" /\ step[p] < StepLimit}
minPFirst == First(Candidates)   \* mutant: min is not updated
minP == {p \in Candidates : \A q \in Candidates :
            step[p] < step[q] \/ (step[p] = step[q] /\ p <= q)}

(* scheduler, up to the swtch to the process: one pass of the loop that finds
   a process.  A pass that finds none takes the lock and gives it back, which
   changes nothing.  The global s is 0 and never assigned, so the other branch,
   a round-robin loop, is not part of the program that runs. *)
SchedulerStride(c) ==
  /\ proc[c] = 0 /\ lock = NoCpu
  /\ \E p \in minP :
       /\ lock' = c
       /\ proc' = [proc EXCEPT ![c] = p]
       /\ step' = [step EXCEPT ![p] = @ + sizeStep[p]]
       /\ state' = [state EXCEPT ![p] = "RUNNING"]
  /\ UNCHANGED <<pid, parent, chan, killed, kstack, sizeStep, control, halted,
                 history>>

(* sched, reached with the lock held and the state already changed, and the
   scheduler's code after the swtch. *)
sched(c) ==
  /\ proc[c] # 0 /\ lock = c
  /\ state[proc[c]] # "RUNNING"
  /\ proc' = [proc EXCEPT ![c] = 0]
  /\ lock' = NoCpu
  /\ UNCHANGED <<table, control, halted, history>>

-----------------------------------------------------------------------------
(* A process that the scheduler has just switched to holds the lock. *)
Resumed(c, p, where) ==
  /\ proc[c] = p /\ lock = c
  /\ state[p] = "RUNNING" /\ context[p] = where

(* forkret: a process's first instructions.  It goes to user space without a
   look at killed, the first process by way of initlog. *)
forkret(c, p) ==
  /\ Resumed(c, p, "forkret")
  /\ lock' = NoCpu
  /\ UNCHANGED <<table, control, cpuVars, history>>

(* forkret, after initlog. *)
InitlogReturn(c, p) ==
  /\ Runs(c, p) /\ pc[p] = "initlog"
  /\ pc' = [pc EXCEPT ![p] = "user"]
  /\ UNCHANGED <<lock, table, context, np, nextpid, cpuVars, history>>

(* yield after sched, then the end of trap. *)
YieldReturn(c, p) ==
  /\ Resumed(c, p, "yield")
  /\ lock' = NoCpu
  /\ pc' = [pc EXCEPT ![p] = IF @ = "user" THEN ToUser(p) ELSE @]
  /\ UNCHANGED <<table, context, np, nextpid, cpuVars, history>>

(* sleep after sched: tidy up and give the lock back. *)
SleepReturn(c, p) ==
  /\ Resumed(c, p, "sleep")
  /\ lock' = NoCpu
  /\ chan' = [chan EXCEPT ![p] = 0]
  /\ UNCHANGED <<state, pid, parent, killed, kstack, step, sizeStep, control,
                 cpuVars, history>>

-----------------------------------------------------------------------------
(* A process gives up the CPU: the lock is taken, the state changed, and
   sched is next. *)

(* yield, called by trap on a timer interrupt, in user space or in the kernel
   with interrupts on.  A killed process in user space exits instead. *)
yield(c, p) ==
  /\ Runs(c, p) /\ lock = NoCpu
  /\ pc[p] = "user" => ~killed[p]
  /\ lock' = c
  /\ state' = [state EXCEPT ![p] = "RUNNABLE"]
  /\ context' = [context EXCEPT ![p] = "yield"]
  /\ UNCHANGED <<pid, parent, chan, killed, kstack, step, sizeStep, pc, np,
                 nextpid, cpuVars, history>>

(* sleep on a channel of a driver, a buffer, the log...: in a system call, in
   initlog, or in exit while it closes files.  What the sleeper waits for is left open. *)
sleep(c, p, ch) ==
  /\ Runs(c, p) /\ lock = NoCpu
  /\ pc[p] \in {"kernel", "initlog"} \/ (pc[p] = "exit" /\ p # initproc)
  /\ lock' = c
  /\ chan' = [chan EXCEPT ![p] = ch]
  /\ state' = [state EXCEPT ![p] = "SLEEPING"]
  /\ context' = [context EXCEPT ![p] = "sleep"]
  /\ UNCHANGED <<pid, parent, killed, kstack, step, sizeStep, pc, np, nextpid,
                 cpuVars, history>>

(* wakeup, called by an interrupt handler or by another process's system
   call, on any CPU that still runs. *)
wakeup(c, ch) ==
  /\ lock = NoCpu /\ c \notin halted
  /\ state' = wakeup1({ch})
  /\ UNCHANGED <<lock, pid, parent, chan, killed, kstack, step, sizeStep,
                 control, cpuVars, history>>

-----------------------------------------------------------------------------
(* Traps. *)

(* trap on T_SYSCALL: a killed process exits. *)
SyscallEntry(c, p) ==
  /\ Runs(c, p) /\ pc[p] = "user"
  /\ pc' = [pc EXCEPT ![p] = IF killed[p] THEN "exit" ELSE "kernel"]
  /\ UNCHANGED <<lock, table, context, np, nextpid, cpuVars, history>>

(* The system call returns; trap looks at killed again. *)
SyscallReturn(c, p) ==
  /\ Runs(c, p) /\ pc[p] = "kernel"
  /\ pc' = [pc EXCEPT ![p] = ToUser(p)]
  /\ UNCHANGED <<lock, table, context, np, nextpid, cpuVars, history>>

(* trap on a fault in user space: the process is killed and exits. *)
UserFault(c, p) ==
  /\ Runs(c, p) /\ pc[p] = "user"
  /\ killed' = [killed EXCEPT ![p] = TRUE]
  /\ pc' = [pc EXCEPT ![p] = "exit"]
  /\ killedAs' = [killedAs EXCEPT ![p] = pid[p]]
  /\ UNCHANGED <<lock, state, pid, parent, chan, kstack, step, sizeStep,
                 context, np, nextpid, cpuVars, gaveUp>>

-----------------------------------------------------------------------------
(* fork.  The slot is claimed under the lock; everything after that is done
   without it. *)

(* allocproc, found: the slot q is p's, with a pid of its own. *)
Claim(p, q) ==
  /\ state' = [state EXCEPT ![q] = "EMBRYO"]
  /\ pid' = [pid EXCEPT ![q] = nextpid]
  /\ nextpid' = nextpid + 1
  /\ np' = [np EXCEPT ![p] = q]
  /\ pc' = [pc EXCEPT ![p] = "kstack"]

(* allocproc, its critical section. *)
allocproc(c, p) ==
  /\ Runs(c, p) /\ pc[p] = "kernel" /\ lock = NoCpu
  /\ nextpid <= MaxPid
  /\ LET free == {q \in Procs : state[q] = "UNUSED"}
     IN  \/ /\ free = {}
            /\ pc' = [pc EXCEPT ![p] = ToUser(p)]
            /\ UNCHANGED <<state, pid, nextpid, np>>
         \/ \E q \in First(free) : Claim(p, q)
  /\ UNCHANGED <<lock, parent, chan, killed, kstack, step, sizeStep, context,
                 cpuVars, history>>

(* allocproc, the rest: the kernel stack, the context and the stride. *)
AllocKstack(c, p, tickets) ==
  /\ Runs(c, p) /\ pc[p] = "kstack"
  /\ kstack' = [kstack EXCEPT ![np[p]] = TRUE]
  /\ context' = [context EXCEPT ![np[p]] = "forkret"]
  /\ sizeStep' = [sizeStep EXCEPT ![np[p]] = SizeStep(tickets)]
  /\ step' = [step EXCEPT ![np[p]] = 0]
  /\ pc' = [pc EXCEPT ![p] = "copy"]
  /\ UNCHANGED <<lock, state, pid, parent, chan, killed, np, nextpid, cpuVars,
                 history>>

(* allocproc or fork out of memory: kalloc found no page for the stack, or
   copyuvm none for the copy, and the slot is given up, its pid and its
   killed flag left as they are. *)
ForkFails(c, p) ==
  /\ MayFail
  /\ Runs(c, p) /\ pc[p] \in {"kstack", "copy"}
  /\ kstack' = [kstack EXCEPT ![np[p]] = FALSE]
  /\ state' = [state EXCEPT ![np[p]] = "UNUSED"]
  /\ np' = [np EXCEPT ![p] = 0]
  /\ pc' = [pc EXCEPT ![p] = ToUser(p)]
  /\ gaveUp' = gaveUp \cup {pid[np[p]]}
  /\ UNCHANGED <<lock, pid, parent, chan, killed, step, sizeStep, context,
                 nextpid, cpuVars, killedAs>>

(* fork, from copyuvm to the copy of the open files. *)
ForkCopy(c, p) ==
  /\ Runs(c, p) /\ pc[p] = "copy"
  /\ parent' = [parent EXCEPT ![np[p]] = p]
  /\ pc' = [pc EXCEPT ![p] = "run"]
  /\ UNCHANGED <<lock, state, pid, chan, killed, kstack, step, sizeStep,
                 context, np, nextpid, cpuVars, history>>

(* fork, its end: the child may be picked from here on. *)
ForkRun(c, p) ==
  /\ Runs(c, p) /\ pc[p] = "run"
  /\ state' = [state EXCEPT ![np[p]] = "RUNNABLE"]
  /\ np' = [np EXCEPT ![p] = 0]
  /\ pc' = [pc EXCEPT ![np[p]] = "user", ![p] = ToUser(p)]
  /\ UNCHANGED <<lock, pid, parent, chan, killed, kstack, step, sizeStep,
                 context, nextpid, cpuVars, history>>

-----------------------------------------------------------------------------
(* wait: one scan of the table with the lock held, by a caller that has just
   taken it or by one that has just been woken and switched to. *)
ZombiesOrNot(p) == Children(p)   \* mutant: the state is not tested
Zombies(p) == {q \in Children(p) : state[q] = "ZOMBIE"}

(* The first dead child is reaped and its slot freed. *)
WaitReapsStillKilled(p, q) ==   \* mutant: killed is not reset
  /\ q \in First(Zombies(p))
  /\ kstack' = [kstack EXCEPT ![q] = FALSE]
  /\ state' = [state EXCEPT ![q] = "UNUSED"]
  /\ pid' = [pid EXCEPT ![q] = 0]
  /\ parent' = [parent EXCEPT ![q] = 0]
  /\ chan' = [chan EXCEPT ![p] = 0]
  /\ pc' = [pc EXCEPT ![p] = ToUser(p)]
  /\ lock' = NoCpu
  /\ UNCHANGED <<killed, context>>
WaitReaps(p, q) ==
  /\ q \in First(Zombies(p))
  /\ kstack' = [kstack EXCEPT ![q] = FALSE]
  /\ state' = [state EXCEPT ![q] = "UNUSED"]
  /\ pid' = [pid EXCEPT ![q] = 0]
  /\ parent' = [parent EXCEPT ![q] = 0]
  /\ killed' = [killed EXCEPT ![q] = FALSE]
  /\ chan' = [chan EXCEPT ![p] = 0]
  /\ pc' = [pc EXCEPT ![p] = ToUser(p)]
  /\ lock' = NoCpu
  /\ UNCHANGED context

(* There is nothing to wait for, or the caller was killed. *)
WaitFails(p) ==
  /\ Zombies(p) = {}
  /\ Children(p) = {} \/ killed[p]
  /\ chan' = [chan EXCEPT ![p] = 0]
  /\ pc' = [pc EXCEPT ![p] = ToUser(p)]
  /\ lock' = NoCpu
  /\ UNCHANGED <<kstack, state, pid, parent, killed, context>>

(* sleep(proc, &ptable.lock): the lock is not given back before sched. *)
WaitSleeps(c, p) ==
  /\ Zombies(p) = {} /\ Children(p) # {} /\ ~killed[p]
  /\ chan' = [chan EXCEPT ![p] = p]
  /\ state' = [state EXCEPT ![p] = "SLEEPING"]
  /\ context' = [context EXCEPT ![p] = "wait"]
  /\ lock' = c
  /\ UNCHANGED <<kstack, pid, parent, killed, pc>>

WaitScan(c, p) ==
  /\ (\E q \in Procs : WaitReaps(p, q)) \/ WaitFails(p) \/ WaitSleeps(c, p)
  /\ UNCHANGED <<step, sizeStep, np, nextpid, cpuVars, history>>

wait(c, p) ==
  /\ Runs(c, p) /\ pc[p] = "kernel" /\ lock = NoCpu
  /\ WaitScan(c, p)

WaitAgain(c, p) ==
  /\ Resumed(c, p, "wait")
  /\ WaitScan(c, p)

-----------------------------------------------------------------------------
(* kill: the states once the slots of hit, if asleep, have been woken. *)
KillWakes(hit) ==
  [q \in Procs |-> IF q \in hit /\ state[q] = "SLEEPING" THEN "RUNNABLE" ELSE state[q]]

(* kill: the first slot that has the pid, whatever its state. *)
kill(c, p, k) ==
  /\ Runs(c, p) /\ pc[p] = "kernel" /\ lock = NoCpu
  /\ LET hit == First({q \in Procs : pid[q] = k})
     IN  /\ killed' = [q \in Procs |-> killed[q] \/ q \in hit]
         /\ state' = KillWakes(hit)
         /\ pc' = [pc EXCEPT ![p] = IF killed'[p] THEN "exit" ELSE "user"]
         /\ killedAs' = [q \in Procs |-> IF q \in hit THEN k ELSE killedAs[q]]
  /\ UNCHANGED <<lock, pid, parent, chan, kstack, step, sizeStep, context, np,
                 nextpid, cpuVars, gaveUp>>

(* sys_exit. *)
sys_exit(c, p) ==
  /\ Runs(c, p) /\ pc[p] = "kernel"
  /\ pc' = [pc EXCEPT ![p] = "exit"]
  /\ UNCHANGED <<lock, table, context, np, nextpid, cpuVars, history>>

(* exit: the parents once the children of p have been passed to init, and the
   channels that it wakes. *)
PassedToNobody(p) == parent   \* mutant: the children keep their parent
PassedToInit(p) == [q \in Procs |-> IF parent[q] = p THEN initproc ELSE parent[q]]

ExitWakesInit(p) ==   \* mutant: the parent is not told
  IF Zombies(p) # {} THEN {initproc} ELSE {}
ExitWakes(p) ==
  {parent[p]} \cup (IF Zombies(p) # {} THEN {initproc} ELSE {})

(* exit once the files are closed: wake the parent, hand the children to
   init, become a zombie.  The lock stays held until the scheduler runs. *)
exit(c, p) ==
  /\ Runs(c, p) /\ pc[p] = "exit" /\ p # initproc /\ lock = NoCpu
  /\ lock' = c
  /\ parent' = PassedToInit(p)
  /\ state' = [wakeup1(ExitWakes(p)) EXCEPT ![p] = "ZOMBIE"]
  /\ context' = [context EXCEPT ![p] = "exit"]
  /\ UNCHANGED <<pid, chan, killed, kstack, step, sizeStep, pc, np, nextpid,
                 cpuVars, history>>

(* exit called by init panics: the CPU stops with interrupts off. *)
InitExits(c) ==
  /\ Runs(c, initproc) /\ pc[initproc] = "exit"
  /\ halted' = halted \cup {c}
  /\ UNCHANGED <<lock, table, control, proc, history>>

-----------------------------------------------------------------------------
(* The steps of the scheduler and of the process on c, apart from the ones
   that only an environment asks for. *)
CpuStep(c) ==
  \/ SchedulerStride(c)
  \/ sched(c)
  \/ InitExits(c)
  \/ \E p \in Procs :
       \/ forkret(c, p) \/ InitlogReturn(c, p)
       \/ YieldReturn(c, p) \/ SleepReturn(c, p)
       \/ yield(c, p)
       \/ SyscallEntry(c, p) \/ SyscallReturn(c, p) \/ UserFault(c, p)
       \/ allocproc(c, p) \/ ForkFails(c, p) \/ ForkCopy(c, p) \/ ForkRun(c, p)
       \/ wait(c, p) \/ WaitAgain(c, p)
       \/ sys_exit(c, p) \/ exit(c, p)
       \/ \E ch \in Chans : sleep(c, p, ch)
       \/ \E t \in Tickets : AllocKstack(c, p, t)
       \/ \E k \in KillPids : kill(c, p, k)

Next == \E c \in CPUS : CpuStep(c) \/ \E ch \in Chans : wakeup(c, ch)

Spec == Init /\ [][Next]_vars

(* What is bound to happen on a CPU: the scheduler loops for ever, a process
   that has been switched to goes on, sched reaches the scheduler, and the
   timer interrupts whatever runs, which then yields or, if it was killed in
   user space, exits.  A system call need not end and a sleeper need not be
   woken. *)
CpuFairness(c) ==
  /\ WF_vars(SchedulerStride(c))
  /\ WF_vars(sched(c))
  /\ WF_vars(\E p \in Procs : \/ forkret(c, p) \/ YieldReturn(c, p)
                              \/ SleepReturn(c, p) \/ WaitAgain(c, p))
  /\ WF_vars(\E p \in Procs : \/ yield(c, p)
                              \/ killed[p] /\ SyscallEntry(c, p))

FairSpec == Spec /\ \A c \in CPUS : CpuFairness(c)
-----------------------------------------------------------------------------
(* What the table promises. *)

TypeOK ==
  /\ lock \in CPUS \cup {NoCpu}
  /\ state \in [Procs -> States]
  /\ pid \in [Procs -> Nat]
  /\ parent \in [Procs -> 0..NPROC]
  /\ chan \in [Procs -> (0..NPROC) \cup Chans]
  /\ killed \in [Procs -> BOOLEAN]
  /\ kstack \in [Procs -> BOOLEAN]
  /\ step \in [Procs -> Nat]
  /\ sizeStep \in [Procs -> 0..200]
  /\ context \in [Procs -> Contexts]
  /\ pc \in [Procs -> Points]
  /\ np \in [Procs -> 0..NPROC]
  /\ nextpid \in Nat
  /\ proc \in [CPUS -> 0..NPROC]
  /\ halted \subseteq CPUS
  /\ killedAs \in [Procs -> Nat]

(* No two CPUs ever execute on one kernel stack: a process that has marked
   itself RUNNABLE in yield (proc.c:376-379), SLEEPING or ZOMBIE is not picked,
   woken and picked, or reaped before it has left its stack in sched. *)
OneStackOneCpu ==
  \A c, d \in CPUS : proc[c] = proc[d] /\ proc[c] # 0 => c = d

(* The kernel stack and page table a CPU uses are allocated, and a slot owns
   a stack exactly while a process, dead or alive, is in it: wait never frees
   the stack a zombie is still running on (proc.c:243), and no failing fork
   leaks one (proc.c:55-57, 157-161). *)
StackAllocated ==
  /\ \A c \in CPUS : proc[c] # 0 => kstack[proc[c]]
  /\ \A p \in Procs : /\ state[p] = "UNUSED" => ~kstack[p]
                      /\ state[p] \notin {"UNUSED", "EMBRYO"} => kstack[p]

(* Every process but the first has a parent that can still wait for it: exit
   hands its children to init before it becomes a zombie (proc.c:209-219),
   also the ones that are being forked or that exit at the same time. *)
NoOrphans ==
  \A p \in Procs :
    p # initproc /\ state[p] \notin {"UNUSED", "EMBRYO"} =>
      /\ parent[p] \in Procs
      /\ state[parent[p]] \notin {"UNUSED", "EMBRYO", "ZOMBIE"}

(* A process asleep in wait has a child to wait for and none that is already
   dead: no exit is missed between wait's scan and its sleep, nor when a
   zombie changes parents (proc.c:206-216, 263). *)
NoLostExit ==
  \A p \in Procs :
    state[p] = "SLEEPING" /\ chan[p] = p =>
      /\ Children(p) # {}
      /\ \A q \in Children(p) : state[q] # "ZOMBIE"

(* No two slots in use have the same pid (kill and wait rely on it), although
   slots are reused and given up half way. *)
UniquePids ==
  \A p, q \in Procs :
    state[p] # "UNUSED" /\ state[q] # "UNUSED" /\ pid[p] = pid[q] => p = q

(* step is an int to which the scheduler adds sizeStep at each dispatch
   (proc.c:334): the cutoff of proc.c:319 keeps it below the cutoff plus one
   stride, at most 200, so it cannot overflow. *)
StepBound == \A p \in Procs : step[p] < StepLimit + sizeStep[p]

(* A process has killed set only if it faulted, kill named its pid, or kill
   named a pid that no process ever had: 0, or that of a fork that ran out of
   memory, either of which a free slot may carry (proc.c:55-58, 157-161, 471).
   A kill of one process never reaches another that comes to its slot later
   (proc.c:244-249). *)
KilledOnlyIfTargeted ==
  \A p \in Procs :
    state[p] # "UNUSED" /\ killed[p] => killedAs[p] \in {pid[p], 0} \cup gaveUp

(* What the comment on kill says: "Kill the process with the given pid."
   (proc.c:461). *)
KillsTheNamed ==
  \A p \in Procs : state[p] # "UNUSED" /\ killed[p] => killedAs[p] = pid[p]

-----------------------------------------------------------------------------
(* What the proofs of the above rest on. *)

(* A CPU that does not hold the lock is with a RUNNING process, every RUNNING
   process is with a CPU, and nobody is with a slot that is free or being
   filled. *)
CpuInv ==
  /\ \A c \in CPUS : proc[c] # 0 =>
       /\ lock # c => state[proc[c]] = "RUNNING"
       /\ state[proc[c]] \notin {"UNUSED", "EMBRYO"}
  /\ \A p \in Procs : state[p] = "RUNNING" => \E c \in CPUS : proc[c] = p

(* p will run from its context when it is next switched to, or has just been
   switched to. *)
Suspended(p) ==
  \/ state[p] \in {"SLEEPING", "RUNNABLE"}
  \/ state[p] = "RUNNING" /\ \E c \in CPUS : proc[c] = p /\ lock = c

ContextInv ==
  \A p \in Procs : Suspended(p) /\ context[p] = "wait" => pc[p] = "kernel"

(* A process in fork owns the slot it fills, alone. *)
ForkInv ==
  /\ \A p \in Procs : pc[p] \in InFork =>
       /\ state[p] \in {"RUNNING", "RUNNABLE"}
       /\ np[p] \in Procs
       /\ state[np[p]] = "EMBRYO"
       /\ pc[p] # "kstack" => kstack[np[p]] /\ context[np[p]] = "forkret"
  /\ \A p, q \in Procs : pc[p] \in InFork /\ pc[q] \in InFork /\ np[p] = np[q] => p = q

(* A slot that is free has no parent, one that is being filled none but the
   process that fills it; the first process never dies. *)
ParentInv ==
  /\ state[initproc] \notin {"UNUSED", "EMBRYO", "ZOMBIE"}
  /\ parent[initproc] = 0
  /\ \A p \in Procs :
       /\ parent[p] # p
       /\ state[p] = "UNUSED" => parent[p] = 0
       /\ pc[p] \in InFork => parent[np[p]] = IF pc[p] = "run" THEN p ELSE 0
       /\ state[p] = "EMBRYO" /\ parent[p] # 0 =>
            pc[parent[p]] = "run" /\ np[parent[p]] = p

(* Pids are given out once, also those left in a slot by a failed fork. *)
PidInv ==
  /\ nextpid > 0
  /\ \A p \in Procs :
       /\ pid[p] < nextpid
       /\ state[p] # "UNUSED" => pid[p] # 0
  /\ \A p, q \in Procs : pid[p] = pid[q] /\ pid[p] # 0 => p = q

(* A free slot has no pid but one that no process ever had; so has a kill that
   a slot keeps. *)
SlotInv ==
  \A p \in Procs :
    /\ state[p] = "UNUSED" => pid[p] \in {0} \cup gaveUp
    /\ killed[p] => killedAs[p] \in {pid[p], 0} \cup gaveUp
-----------------------------------------------------------------------------
(* What the comment on yield says, "Give up the CPU for one scheduling round."
   (proc.c:372): a process that yields runs again, unless the machine has
   panicked.  The scheduler does not keep it: it passes over a step that has
   reached the cutoff (proc.c:319-322). *)
YieldOneRound ==
  \A p \in Procs :
    (state[p] = "RUNNABLE" /\ context[p] = "yield") ~>
      (state[p] = "RUNNING" \/ halted # {})
=============================================================================

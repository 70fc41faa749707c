------------------------------- MODULE Clock --------------------------------
(***************************************************************************)
(* Spin locks, interrupts and the clock: acquire, release, pushcli and     *)
(* popcli (spinlock.c), the timer interrupt (trap.c), what sched, the      *)
(* scheduler, yield, sleep, wakeup and kill do to locks and interrupts     *)
(* (proc.c), sys_sleep, sys_uptime and sys_kill (sysproc.c).               *)
(*                                                                         *)
(* A process and the scheduler of a CPU each have a stack of what they     *)
(* still have to do, a sequence of steps <<operation, argument>>.  A call  *)
(* puts the steps of the function called in front, and so does an          *)
(* interrupt, on whichever stack the CPU is using.  With an empty stack a  *)
(* process is in user space, a scheduler at the top of its loop.           *)
(***************************************************************************)
EXTENDS Integers, Sequences, FiniteSets

CONSTANTS
  CPUs,
  Cpu0,     \* the CPU that counts the ticks
  Procs,
  UINT,     \* an unsigned int counts modulo UINT
  Naps,     \* arguments of sleep, ints
  None

ASSUME ClockAssumption ==
  /\ Cpu0 \in CPUs /\ None \notin CPUs \cup Procs /\ CPUs \cap Procs = {}
  /\ UINT \in Nat \ {0} /\ Naps \subseteq Int

Locks == {"tickslock", "ptable"}

VARIABLES
  IF_,      \* the interrupt flag of a CPU
  ncli,     \* cpu->ncli
  intena,   \* cpu->intena
  proc,     \* the process whose stack the CPU uses; None: the scheduler's
  locked,   \* lk->locked
  lcpu,     \* lk->cpu
  todo,     \* the steps left to a process or a scheduler
  state,    \* p->state
  killed,   \* p->killed
  ticks,
  ticks0, n,  \* locals of sys_sleep
  panic

cpuVars == <<IF_, ncli, intena, proc>>
lockVars == <<locked, lcpu>>
procVars == <<state, killed, ticks0, n>>
vars == <<cpuVars, lockVars, todo, procVars, ticks, panic>>

acquire(l) == << <<"pushcli", l>>, <<"xchg", l>> >>
release(l) == << <<"release", l>> >>
wakeup == acquire("ptable") \o << <<"wakeup1", None>> >> \o release("ptable")
yield == acquire("ptable") \o << <<"ready", None>>, <<"sched", None>> >> \o release("ptable")

\* mutant: the lock is released before ptable.lock is held
sleepGap ==
  release("tickslock") \o acquire("ptable") \o << <<"doze", None>>, <<"sched", None>> >>
    \o release("ptable") \o acquire("tickslock")
sleep ==
  acquire("ptable") \o release("tickslock") \o << <<"doze", None>>, <<"sched", None>> >>
    \o release("ptable") \o acquire("tickslock")

\* The first steps of a process, and a round of the scheduler's loop.
forkret == release("ptable") \o << <<"sysret", TRUE>> >>
round == acquire("ptable") \o << <<"pick", None>> >> \o release("ptable")

Init ==
  /\ IF_ = [c \in CPUs |-> FALSE] /\ intena = [c \in CPUs |-> FALSE]
  /\ ncli = [c \in CPUs |-> 0] /\ proc = [c \in CPUs |-> None]
  /\ locked = [l \in Locks |-> FALSE] /\ lcpu = [l \in Locks |-> None]
  /\ todo = [x \in CPUs \cup Procs |-> IF x \in CPUs THEN <<>> ELSE forkret]
  /\ state = [p \in Procs |-> "RUNNABLE"] /\ killed = [p \in Procs |-> FALSE]
  /\ ticks = 0
  /\ ticks0 = [p \in Procs |-> 0] /\ n = [p \in Procs |-> 0]
  /\ panic = "no"

-----------------------------------------------------------------------------
\* The stack CPU c uses, its next step, and what it has left afterwards.
Stack(c) == IF proc[c] = None THEN c ELSE proc[c]
At(c, op) == panic = "no" /\ todo[Stack(c)] # <<>> /\ Head(todo[Stack(c)])[1] = op
Arg(c) == Head(todo[Stack(c)])[2]
Then(c, steps) == todo' = [todo EXCEPT ![Stack(c)] = steps \o Tail(@)]

Panic(msg) == panic' = msg /\ UNCHANGED <<cpuVars, lockVars, todo, procVars, ticks>>

holding(c, l) == locked[l] /\ lcpu[l] = c

\* pushcli, and the first test of acquire.
Pushcli(c) ==
  /\ At(c, "pushcli")
  /\ IF holding(c, Arg(c)) THEN Panic("acquire")
     ELSE /\ IF_' = [IF_ EXCEPT ![c] = FALSE]
          /\ ncli' = [ncli EXCEPT ![c] = @ + 1]
          /\ intena' = IF ncli[c] = 0 THEN [intena EXCEPT ![c] = IF_[c]] ELSE intena
          /\ Then(c, <<>>)
          /\ UNCHANGED <<proc, lockVars, procVars, ticks, panic>>

\* The turn of acquire's loop that finds the lock free.
Xchg(c) ==
  /\ At(c, "xchg") /\ ~locked[Arg(c)]
  /\ locked' = [locked EXCEPT ![Arg(c)] = TRUE]
  /\ lcpu' = [lcpu EXCEPT ![Arg(c)] = c]
  /\ Then(c, <<>>)
  /\ UNCHANGED <<cpuVars, procVars, ticks, panic>>

\* mutant: the first popcli turns interrupts on
PopcliFirst(c) ==
  /\ ncli' = [ncli EXCEPT ![c] = @ - 1]
  /\ IF_' = [IF_ EXCEPT ![c] = intena[c]]

Popcli(c) ==
  /\ ncli' = [ncli EXCEPT ![c] = @ - 1]
  /\ IF_' = [IF_ EXCEPT ![c] = ncli[c] = 1 /\ intena[c]]

\* release: others see the lock free while popcli runs, with interrupts off.
Release(c) ==
  /\ At(c, "release")
  /\ IF ~holding(c, Arg(c)) \/ IF_[c] \/ ncli[c] = 0 THEN Panic("release or popcli")
     ELSE /\ locked' = [locked EXCEPT ![Arg(c)] = FALSE]
          /\ lcpu' = [lcpu EXCEPT ![Arg(c)] = None]
          /\ Popcli(c)
          /\ Then(c, <<>>)
          /\ UNCHANGED <<intena, proc, procVars, ticks, panic>>

-----------------------------------------------------------------------------
(* trap.                                                                   *)

\* The timer interrupts c: the handler's steps go in front, and at the end the
\* interrupt flag returns to what it was.
Timer(c) ==
  /\ panic = "no" /\ IF_[c]
  /\ todo' = [todo EXCEPT ![Stack(c)] =
        (IF c = Cpu0 THEN acquire("tickslock") \o << <<"tick", None>> >> \o wakeup
                            \o release("tickslock")
         ELSE <<>>) \o << <<"preempt", None>>, <<"iret", IF_[c]>> >> \o @]
  /\ IF_' = [IF_ EXCEPT ![c] = FALSE]
  /\ UNCHANGED <<ncli, intena, proc, lockVars, procVars, ticks, panic>>

Tick(c) ==
  /\ At(c, "tick")
  /\ ticks' = (ticks + 1) % UINT
  /\ Then(c, <<>>)
  /\ UNCHANGED <<cpuVars, lockVars, procVars, panic>>

Preempt(c) ==
  /\ At(c, "preempt")
  /\ Then(c, IF proc[c] # None /\ state[proc[c]] = "RUNNING" THEN yield ELSE <<>>)
  /\ UNCHANGED <<cpuVars, lockVars, procVars, ticks, panic>>

\* iret, from an interrupt or a system call; a process that has been killed
\* exits before it is in user space again, and another one takes its place.
Iret(c) ==
  /\ At(c, "iret") \/ At(c, "sysret")
  /\ IF_' = [IF_ EXCEPT ![c] = Arg(c)]
  /\ killed' = [p \in Procs |-> killed[p] /\ ~(p = proc[c] /\ Len(todo[p]) = 1)]
  /\ Then(c, <<>>)
  /\ UNCHANGED <<ncli, intena, proc, lockVars, state, ticks0, n, ticks, panic>>

-----------------------------------------------------------------------------
(* Processes and the scheduler.                                            *)

\* The scheduler starts a round of its loop.
Sti(c) ==
  /\ panic = "no" /\ proc[c] = None /\ todo[c] = <<>>
  /\ IF_' = [IF_ EXCEPT ![c] = TRUE]
  /\ todo' = [todo EXCEPT ![c] = round]
  /\ UNCHANGED <<ncli, intena, proc, lockVars, procVars, ticks, panic>>

\* The scheduler switches to a process that is RUNNABLE, if there is one.
Pick(c) ==
  /\ At(c, "pick")
  /\ Then(c, <<>>)
  /\ IF \E p \in Procs : state[p] = "RUNNABLE"
     THEN \E p \in Procs : /\ state[p] = "RUNNABLE"
                           /\ proc' = [proc EXCEPT ![c] = p]
                           /\ state' = [state EXCEPT ![p] = "RUNNING"]
     ELSE UNCHANGED <<proc, state>>
  /\ UNCHANGED <<IF_, ncli, intena, lockVars, killed, ticks0, n, ticks, panic>>

\* yield, sleep: the state before sched.
Ready(c) ==
  /\ At(c, "ready")
  /\ state' = [state EXCEPT ![proc[c]] = "RUNNABLE"]
  /\ Then(c, <<>>)
  /\ UNCHANGED <<cpuVars, lockVars, killed, ticks0, n, ticks, panic>>

Doze(c) ==
  /\ At(c, "doze")
  /\ state' = [state EXCEPT ![proc[c]] = "SLEEPING"]
  /\ Then(c, <<>>)
  /\ UNCHANGED <<cpuVars, lockVars, killed, ticks0, n, ticks, panic>>

\* mutant: cpu->intena is not saved
SchedForgets(c) ==
  /\ At(c, "sched")
  /\ Then(c, <<>>)
  /\ proc' = [proc EXCEPT ![c] = None]
  /\ UNCHANGED <<IF_, ncli, intena, lockVars, procVars, ticks, panic>>

\* sched, up to swtch to the scheduler; cpu->intena is set again on return.
Sched(c) ==
  /\ At(c, "sched")
  /\ IF \/ ~holding(c, "ptable") \/ ncli[c] # 1 \/ state[proc[c]] = "RUNNING" \/ IF_[c]
     THEN Panic("sched")
     ELSE /\ Then(c, << <<"intena", intena[c]>> >>)
          /\ proc' = [proc EXCEPT ![c] = None]
          /\ UNCHANGED <<IF_, ncli, intena, lockVars, procVars, ticks, panic>>

Intena(c) ==
  /\ At(c, "intena")
  /\ intena' = [intena EXCEPT ![c] = Arg(c)]
  /\ Then(c, <<>>)
  /\ UNCHANGED <<IF_, ncli, proc, lockVars, procVars, ticks, panic>>

Wakeup1(c) ==
  /\ At(c, "wakeup1")
  /\ state' = [p \in Procs |-> IF state[p] = "SLEEPING" THEN "RUNNABLE" ELSE state[p]]
  /\ Then(c, <<>>)
  /\ UNCHANGED <<cpuVars, lockVars, killed, ticks0, n, ticks, panic>>

KillStep(c) ==
  /\ At(c, "kill")
  /\ killed' = [killed EXCEPT ![Arg(c)] = TRUE]
  /\ state' = [state EXCEPT ![Arg(c)] = IF @ = "SLEEPING" THEN "RUNNABLE" ELSE @]
  /\ Then(c, <<>>)
  /\ UNCHANGED <<cpuVars, lockVars, ticks0, n, ticks, panic>>

-----------------------------------------------------------------------------
(* System calls of the process p on c.  The gate leaves interrupts on.     *)

Call(c, steps) ==
  /\ panic = "no" /\ proc[c] # None /\ todo[proc[c]] = <<>>
  /\ todo' = [todo EXCEPT ![proc[c]] = steps \o << <<"sysret", IF_[c]>> >>]

SysSleep(c) ==
  /\ Call(c, acquire("tickslock") \o << <<"ticks0", None>>, <<"nap", None>> >>
               \o release("tickslock"))
  /\ \E k \in Naps : n' = [n EXCEPT ![proc[c]] = k]
  /\ UNCHANGED <<cpuVars, lockVars, state, killed, ticks0, ticks, panic>>

SysUptime(c) ==
  /\ Call(c, acquire("tickslock") \o release("tickslock"))
  /\ UNCHANGED <<cpuVars, lockVars, procVars, ticks, panic>>

SysKill(c) ==
  /\ \E p \in Procs : Call(c, acquire("ptable") \o << <<"kill", p>> >> \o release("ptable"))
  /\ UNCHANGED <<cpuVars, lockVars, procVars, ticks, panic>>

Ticks0(c) ==
  /\ At(c, "ticks0")
  /\ ticks0' = [ticks0 EXCEPT ![proc[c]] = ticks]
  /\ Then(c, <<>>)
  /\ UNCHANGED <<cpuVars, lockVars, state, killed, n, ticks, panic>>

\* ticks - ticks0 < n, where n counts as unsigned.
Early(p) == (ticks - ticks0[p]) % UINT < n[p] % UINT

\* A turn of the loop of sys_sleep; its locals are forgotten afterwards.
Nap(c) ==
  LET more == Early(proc[c]) /\ ~killed[proc[c]]
  IN /\ At(c, "nap")
     /\ Then(c, IF more THEN sleep \o << <<"nap", None>> >> ELSE <<>>)
     /\ n' = [n EXCEPT ![proc[c]] = IF more THEN @ ELSE 0]
     /\ ticks0' = [ticks0 EXCEPT ![proc[c]] = IF more THEN @ ELSE 0]
     /\ UNCHANGED <<cpuVars, lockVars, state, killed, ticks, panic>>

Next ==
  \E c \in CPUs :
    \/ Pushcli(c) \/ Xchg(c) \/ Release(c)
    \/ Timer(c) \/ Tick(c) \/ Preempt(c) \/ Iret(c)
    \/ Sti(c) \/ Pick(c) \/ Ready(c) \/ Doze(c) \/ Sched(c) \/ Intena(c)
    \/ Wakeup1(c) \/ KillStep(c)
    \/ SysSleep(c) \/ SysUptime(c) \/ SysKill(c) \/ Ticks0(c) \/ Nap(c)

Spec == Init /\ [][Next]_vars

-----------------------------------------------------------------------------
(* Properties.                                                             *)

\* Every variable has its type.
TypeOK ==
  /\ IF_ \in [CPUs -> BOOLEAN] /\ intena \in [CPUs -> BOOLEAN]
  /\ ncli \in [CPUs -> 0 .. Cardinality(Locks)]
  /\ proc \in [CPUs -> Procs \cup {None}]
  /\ locked \in [Locks -> BOOLEAN] /\ lcpu \in [Locks -> CPUs \cup {None}]
  /\ state \in [Procs -> {"RUNNABLE", "RUNNING", "SLEEPING"}]
  /\ killed \in [Procs -> BOOLEAN]
  /\ ticks \in 0 .. UINT - 1 /\ ticks0 \in [Procs -> 0 .. UINT - 1]
  /\ n \in [Procs -> Naps \cup {0}]

\* The locks that what is left on a stack shows to be held.
Holds(x) ==
  {l \in Locks : \E i \in 1 .. Len(todo[x]) :
     /\ todo[x][i] = <<"release", l>>
     /\ \A j \in 1 .. i - 1 : todo[x][j] # <<"xchg", l>>}

\* The assertions of the code hold: no CPU acquires a lock it holds, releases
\* one it does not, enters sched with another lock than ptable.lock or with
\* interrupts on, or does one popcli too many (spinlock.c:29, 47, 111, 113,
\* proc.c:360-366).
NoPanic == panic = "no"

\* A lock that is taken is held by one CPU, the one lk->cpu names: the lock
\* passes from the scheduler to a process and back across swtch without being
\* free or held twice (proc.c:292-299, 328-340, 388).
HeldOnce ==
  \A l \in Locks : {c \in CPUs : l \in Holds(Stack(c))} = IF locked[l] THEN {lcpu[l]} ELSE {}

\* pushcli and popcli match (spinlock.c:92-94): ncli counts the locks held, a
\* lock that is being taken included; interrupts are off while it is not 0.
CliCounts ==
  \A c \in CPUs :
    /\ ncli[c] = Cardinality(Holds(Stack(c))) + (IF At(c, "xchg") THEN 1 ELSE 0)
    /\ ncli[c] > 0 => ~IF_[c]

\* The traps of some kinds that a stack has not returned from.
Frames(x, kinds) == {i \in 1 .. Len(todo[x]) : todo[x][i][1] \in kinds}

\* A process in a system call, or on its first way out of the kernel, can be
\* interrupted whenever it has no lock, on whichever CPU and after any number
\* of switches (proc.c:284, 315, 367-369).
KernelInterruptible ==
  \A c \in CPUs :
    ncli[c] = 0 /\ proc[c] # None /\ Frames(proc[c], {"iret"}) = {} => IF_[c]

\* A kernel stack has room for the frames of a system call and of one
\* interrupt: an interrupt's handler runs with interrupts off until iret, also
\* when it switched to another process in between (proc.c:367-369, trap.c:103).
StackBound == \A x \in CPUs \cup Procs : Cardinality(Frames(x, {"iret", "sysret"})) <= 2

\* No two CPUs wait for each other's lock.
NoEmbrace ==
  \A c, d \in CPUs :
    ~(At(c, "xchg") /\ At(d, "xchg") /\ Arg(c) \in Holds(Stack(d)) /\ Arg(d) \in Holds(Stack(c)))

\* The locks do what spinlock.c promises, under interrupts and across swtch:
\* one holder, no assertion that fails, a count of nested pushclis that
\* matches, no deadlock of two CPUs.
LockDiscipline == TypeOK /\ NoPanic /\ HeldOnce /\ CliCounts /\ NoEmbrace

\* Interrupts are on where they should be and off where they must be
\* (proc.c:284, 315, 367-369, trap.c:103): a process without locks can be
\* interrupted, and handlers do not nest on one stack.
InterruptDiscipline == KernelInterruptible /\ StackBound

\* No process sleeps past its time: it has to wait for a tick, or the handler
\* of the tick is on its way to wakeup (sysproc.c:66-75, trap.c:52-55).
NoLostTick ==
  \A p \in Procs :
    state[p] = "SLEEPING" =>
      Early(p) \/ \E c \in CPUs : <<"wakeup1", None>> \in {todo[Stack(c)][i] : i \in 1 .. Len(todo[Stack(c)])}
=============================================================================

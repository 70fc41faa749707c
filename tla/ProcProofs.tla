----------------------------- MODULE ProcProofs -----------------------------
(***************************************************************************)
(* Theorems about the process table, for every number of slots and CPUs:   *)
(* stacks and CPUs, pids, kill; parents and children; and that the stride  *)
(* branch of scheduler(), with everything else that touches the table,     *)
(* implements the abstract stride scheduler.                               *)
(***************************************************************************)
EXTENDS ProcStride, StrideLag, TLAPS

(* Whatever number of tickets allocproc is given, negative ones included, the
   stride it computes is one of 10..200 (proc.c:76-88). *)
LEMMA SizeStepRange == ASSUME NEW t \in Int PROVE SizeStep(t) \in 10..200
<1>1. CASE t = 0
  BY <1>1 DEF SizeStep
<1>2. CASE t # 0 /\ t <= 50
  BY <1>2 DEF SizeStep
<1>3. CASE t >= 1000
  BY <1>3 DEF SizeStep
<1>4. CASE t > 50 /\ t < 1000
  <2>1. SizeStep(t) = 10000 \div t
    BY <1>4 DEF SizeStep
  <2>2. 10000 \div t \in 10..200
    BY <1>4, SMTT(30)
  <2> QED BY <2>1, <2>2
<1> QED BY <1>1, <1>2, <1>3, <1>4

-----------------------------------------------------------------------------
(* Every variable keeps its type; in particular a stride is never above 200
   and a process pointer never leaves the table. *)
LEMMA TypeInit == Init => TypeOK
<1> SUFFICES ASSUME Init PROVE TypeOK
  OBVIOUS
<1>1. SizeStep(500) \in 10..200
  BY SizeStepRange
<1> QED
  BY <1>1, NPROCAssumption
  DEF Init, TypeOK, Procs, initproc, States, Contexts, Points

(* The values the actions write. *)
LEMMA Values ==
  /\ 0 \in 0..NPROC
  /\ \A p \in Procs : p \in 0..NPROC
  /\ initproc \in Procs
  /\ {"UNUSED", "EMBRYO", "SLEEPING", "RUNNABLE", "RUNNING", "ZOMBIE"} \subseteq States
  /\ {"forkret", "yield", "sleep", "wait", "exit"} \subseteq Contexts
  /\ {"user", "kernel", "kstack", "copy", "run", "exit"} \subseteq Points
BY NPROCAssumption DEF Procs, initproc, States, Contexts, Points

LEMMA TypeStep == TypeOK /\ [Next]_vars => TypeOK'
<1> SUFFICES ASSUME TypeOK, [Next]_vars PROVE TypeOK'
  OBVIOUS
<1> USE Values DEF TypeOK, history
<1>1. CASE UNCHANGED vars
  BY <1>1 DEF vars, table, control, cpuVars
<1>2. ASSUME NEW c \in CPUS, NEW ch \in Chans, wakeup(c, ch) PROVE TypeOK'
  BY <1>2 DEF wakeup, wakeup1, control, cpuVars
<1>3. ASSUME NEW c \in CPUS, CpuStep(c) PROVE TypeOK'
  <2>1. CASE SchedulerStride(c)
    <3>1. PICK p \in minP : /\ lock' = c
                            /\ proc' = [proc EXCEPT ![c] = p]
                            /\ step' = [step EXCEPT ![p] = @ + sizeStep[p]]
                            /\ state' = [state EXCEPT ![p] = "RUNNING"]
      BY <2>1 DEF SchedulerStride
    <3>2. p \in Procs
      BY DEF minP, Candidates
    <3>3. step[p] + sizeStep[p] \in Nat
      <4>1. step[p] \in Nat /\ sizeStep[p] \in 0..200
        BY <3>2
      <4> QED BY <4>1
    <3>4. /\ lock' \in CPUS \cup {NoCpu} /\ proc' \in [CPUS -> 0..NPROC]
          /\ step' \in [Procs -> Nat] /\ state' \in [Procs -> States]
      BY <3>1, <3>2, <3>3
    <3> QED BY <2>1, <3>4 DEF SchedulerStride, control
  <2>3. CASE sched(c)
    BY <2>3 DEF sched, table, control
  <2>4. CASE InitExits(c)
    BY <2>4 DEF InitExits, table, control
  <2>5. ASSUME NEW p \in Procs, forkret(c, p) PROVE TypeOK'
    BY <2>5 DEF forkret, table, control, cpuVars
  <2>18. ASSUME NEW p \in Procs, SleepReturn(c, p) PROVE TypeOK'
    BY <2>18 DEF SleepReturn, control, cpuVars
  <2>13. ASSUME NEW p \in Procs,
                \/ InitlogReturn(c, p) \/ YieldReturn(c, p)
                \/ SyscallEntry(c, p) \/ SyscallReturn(c, p) \/ sys_exit(c, p)
         PROVE  TypeOK'
    <3>1. pc' \in [Procs -> Points] /\ lock' \in CPUS \cup {NoCpu}
      BY <2>13
      DEF InitlogReturn, YieldReturn, SyscallEntry, SyscallReturn, sys_exit, ToUser
    <3>2. UNCHANGED <<table, context, np, nextpid, cpuVars, history>>
      BY <2>13 DEF InitlogReturn, YieldReturn, SyscallEntry, SyscallReturn, sys_exit
    <3> QED BY <3>1, <3>2 DEF table, cpuVars
  <2>15. ASSUME NEW p \in Procs, yield(c, p) PROVE TypeOK'
    BY <2>15 DEF yield, cpuVars
  <2>14. ASSUME NEW p \in Procs, UserFault(c, p) PROVE TypeOK'
    BY <2>14 DEF UserFault, cpuVars
  <2>6. ASSUME NEW p \in Procs, NEW ch \in Chans, sleep(c, p, ch) PROVE TypeOK'
    BY <2>6 DEF sleep, cpuVars
  <2>7. ASSUME NEW p \in Procs, allocproc(c, p) PROVE TypeOK'
    BY <2>7 DEF allocproc, Claim, First, ToUser, cpuVars
  <2>8. ASSUME NEW p \in Procs, NEW t \in Tickets, AllocKstack(c, p, t) PROVE TypeOK'
    <3>1. SizeStep(t) \in 0..200
      BY SizeStepRange, TicketAssumption
    <3> QED BY <2>8, <3>1 DEF AllocKstack, cpuVars
  <2>9. ASSUME NEW p \in Procs, ForkFails(c, p) PROVE TypeOK'
    BY <2>9 DEF ForkFails, ToUser, cpuVars
  <2>16. ASSUME NEW p \in Procs, ForkCopy(c, p) PROVE TypeOK'
    BY <2>16 DEF ForkCopy, cpuVars
  <2>17. ASSUME NEW p \in Procs, ForkRun(c, p) PROVE TypeOK'
    BY <2>17 DEF ForkRun, ToUser, cpuVars
  <2>10. ASSUME NEW p \in Procs, wait(c, p) \/ WaitAgain(c, p) PROVE TypeOK'
    <3>1. WaitScan(c, p)
      BY <2>10 DEF wait, WaitAgain
    <3>2. ToUser(p) \in Points
      BY DEF ToUser
    <3>3. ASSUME NEW q \in Procs, WaitReaps(p, q) PROVE TypeOK'
      BY <3>1, <3>2, <3>3 DEF WaitScan, WaitReaps, cpuVars
    <3>4. CASE WaitFails(p)
      BY <3>1, <3>2, <3>4 DEF WaitScan, WaitFails, cpuVars
    <3>5. CASE WaitSleeps(c, p)
      BY <3>1, <3>5 DEF WaitScan, WaitSleeps, cpuVars
    <3> QED BY <3>1, <3>3, <3>4, <3>5 DEF WaitScan
  <2>11. ASSUME NEW p \in Procs, NEW k \in KillPids, kill(c, p, k) PROVE TypeOK'
    <3>1. /\ killed' \in [Procs -> BOOLEAN]
          /\ state' \in [Procs -> States]
      BY <2>11 DEF kill, KillWakes
    <3>2. pc' \in [Procs -> Points] /\ killedAs' \in [Procs -> Nat]
      BY <2>11, PidAssumption DEF kill, KillWakes
    <3> QED BY <2>11, <3>1, <3>2 DEF kill, KillWakes, cpuVars
  <2>12. ASSUME NEW p \in Procs, exit(c, p) PROVE TypeOK'
    BY <2>12 DEF exit, PassedToInit, ExitWakes, Zombies, wakeup1, initproc, cpuVars
  <2> QED
    BY <1>3, <2>1, <2>3, <2>4, <2>5, <2>6, <2>7, <2>8, <2>9, <2>10, <2>11, <2>12,
       <2>13, <2>14, <2>15, <2>16, <2>17, <2>18
    DEF CpuStep
<1> QED BY <1>1, <1>2, <1>3 DEF Next

(* The fields of the process table keep their types through every operation of
   proc.c, for any tickets. *)
THEOREM TypeCorrect == Spec => []TypeOK
BY TypeInit, TypeStep, PTL DEF Spec

-----------------------------------------------------------------------------
(* Which CPU is where, and who owns a slot that is being filled. *)
CoreInv == OneStackOneCpu /\ CpuInv /\ ContextInv /\ ForkInv

(* A pointer into the table is null or a slot. *)
LEMMA Slots ==
  /\ 0 \notin Procs
  /\ \A i \in 0..NPROC : i # 0 => i \in Procs
BY NPROCAssumption DEF Procs

LEMMA CoreInit == Init => CoreInv
BY Slots, Values DEF Init, CoreInv, OneStackOneCpu, CpuInv, ContextInv, Suspended, ForkInv, InFork

LEMMA CoreStep == TypeOK /\ TypeOK' /\ CoreInv /\ [Next]_vars => CoreInv'
<1> SUFFICES ASSUME TypeOK, TypeOK', CoreInv, [Next]_vars PROVE CoreInv'
  OBVIOUS
<1> USE Slots, CpuAssumption DEF TypeOK, CoreInv
<1>1. CASE UNCHANGED vars
  BY <1>1 DEF vars, table, control, cpuVars, OneStackOneCpu, CpuInv, ContextInv, Suspended,
     ForkInv, InFork
<1>2. ASSUME NEW c \in CPUS, NEW ch \in Chans, wakeup(c, ch) PROVE CoreInv'
  <2>1. OneStackOneCpu'
    BY <1>2 DEF OneStackOneCpu, wakeup, wakeup1, control, cpuVars
  <2>2. CpuInv'
    BY <1>2 DEF CpuInv, wakeup, wakeup1, control, cpuVars
  <2>3. ContextInv'
    BY <1>2 DEF ContextInv, Suspended, wakeup, wakeup1, control, cpuVars
  <2>4. ForkInv'
    BY <1>2 DEF ForkInv, InFork, wakeup, wakeup1, control, cpuVars
  <2> QED BY <2>1, <2>2, <2>3, <2>4 DEF CoreInv
<1>3. ASSUME NEW c \in CPUS, CpuStep(c) PROVE CoreInv'
  <2>1. ASSUME SchedulerStride(c) PROVE CoreInv'
    <3>1. OneStackOneCpu'
      BY <2>1 DEF OneStackOneCpu, CpuInv, SchedulerStride, minP, Candidates, control
    <3>2. CpuInv'
      BY <2>1 DEF CpuInv, SchedulerStride, minP, Candidates, control
    <3>3. ContextInv'
      BY <2>1 DEF ContextInv, Suspended, SchedulerStride, minP, Candidates, control
    <3>4. ForkInv'
      BY <2>1 DEF ForkInv, InFork, SchedulerStride, minP, Candidates, control
    <3> QED BY <3>1, <3>2, <3>3, <3>4 DEF CoreInv
  <2>3. ASSUME sched(c) PROVE CoreInv'
    <3>1. OneStackOneCpu'
      BY <2>3 DEF OneStackOneCpu, sched, table, control
    <3>2. CpuInv'
      BY <2>3 DEF CpuInv, sched, table, control
    <3>3. ContextInv'
      BY <2>3 DEF ContextInv, Suspended, sched, table, control
    <3>4. ForkInv'
      BY <2>3 DEF ForkInv, InFork, sched, table, control
    <3> QED BY <3>1, <3>2, <3>3, <3>4 DEF CoreInv
  <2>4. ASSUME InitExits(c) PROVE CoreInv'
    <3>1. OneStackOneCpu'
      BY <2>4 DEF OneStackOneCpu, InitExits, table, control
    <3>2. CpuInv'
      BY <2>4 DEF CpuInv, InitExits, table, control
    <3>3. ContextInv'
      BY <2>4 DEF ContextInv, Suspended, InitExits, table, control
    <3>4. ForkInv'
      BY <2>4 DEF ForkInv, InFork, InitExits, table, control
    <3> QED BY <3>1, <3>2, <3>3, <3>4 DEF CoreInv
  <2>5. ASSUME NEW p \in Procs, forkret(c, p) PROVE CoreInv'
    <3>1. OneStackOneCpu'
      BY <2>5 DEF OneStackOneCpu, forkret, Resumed, table, control, cpuVars
    <3>2. CpuInv'
      BY <2>5 DEF CpuInv, forkret, Resumed, table, control, cpuVars
    <3>3. ContextInv'
      BY <2>5 DEF ContextInv, Suspended, forkret, Resumed, table, control, cpuVars
    <3>4. ForkInv'
      BY <2>5 DEF ForkInv, InFork, forkret, Resumed, table, control, cpuVars
    <3> QED BY <3>1, <3>2, <3>3, <3>4 DEF CoreInv
  <2>6. ASSUME NEW p \in Procs, InitlogReturn(c, p) PROVE CoreInv'
    <3>1. OneStackOneCpu'
      BY <2>6 DEF OneStackOneCpu, InitlogReturn, table, cpuVars
    <3>2. CpuInv'
      BY <2>6 DEF CpuInv, InitlogReturn, table, cpuVars
    <3>3. ContextInv'
      BY <2>6 DEF ContextInv, Suspended, InitlogReturn, table, cpuVars
    <3>4. ForkInv'
      BY <2>6 DEF ForkInv, InFork, InitlogReturn, table, cpuVars
    <3> QED BY <3>1, <3>2, <3>3, <3>4 DEF CoreInv
  <2>7. ASSUME NEW p \in Procs, YieldReturn(c, p) PROVE CoreInv'
    <3>1. OneStackOneCpu'
      BY <2>7 DEF OneStackOneCpu, YieldReturn, ToUser, Resumed, table, cpuVars
    <3>2. CpuInv'
      BY <2>7 DEF CpuInv, YieldReturn, ToUser, Resumed, table, cpuVars
    <3>3. ContextInv'
      BY <2>7 DEF ContextInv, Suspended, YieldReturn, ToUser, Resumed, table, cpuVars
    <3>4. ForkInv'
      BY <2>7 DEF ForkInv, InFork, YieldReturn, ToUser, Resumed, table, cpuVars
    <3> QED BY <3>1, <3>2, <3>3, <3>4 DEF CoreInv
  <2>8. ASSUME NEW p \in Procs, SleepReturn(c, p) PROVE CoreInv'
    <3>1. OneStackOneCpu'
      BY <2>8 DEF OneStackOneCpu, SleepReturn, Resumed, control, cpuVars
    <3>2. CpuInv'
      BY <2>8 DEF CpuInv, SleepReturn, Resumed, control, cpuVars
    <3>3. ContextInv'
      BY <2>8 DEF ContextInv, Suspended, SleepReturn, Resumed, control, cpuVars
    <3>4. ForkInv'
      BY <2>8 DEF ForkInv, InFork, SleepReturn, Resumed, control, cpuVars
    <3> QED BY <3>1, <3>2, <3>3, <3>4 DEF CoreInv
  <2>9. ASSUME NEW p \in Procs, yield(c, p) PROVE CoreInv'
    <3>a. proc[c] = p /\ lock # c /\ state[p] = "RUNNING"
      BY <2>9 DEF Runs, CpuInv, yield
    <3>1. OneStackOneCpu'
      BY <2>9, <3>a DEF OneStackOneCpu, yield, cpuVars
    <3>2. CpuInv'
      BY <2>9, <3>a DEF CpuInv, OneStackOneCpu, yield, cpuVars
    <3>3. ContextInv'
      BY <2>9, <3>a DEF ContextInv, Suspended, OneStackOneCpu, yield, cpuVars
    <3>4. ForkInv'
      BY <2>9, <3>a DEF ForkInv, InFork, yield, cpuVars
    <3> QED BY <3>1, <3>2, <3>3, <3>4 DEF CoreInv
  <2>10. ASSUME NEW p \in Procs, SyscallEntry(c, p) PROVE CoreInv'
    <3>a. proc[c] = p /\ lock # c /\ state[p] = "RUNNING"
      BY <2>10 DEF Runs, CpuInv, SyscallEntry
    <3>1. OneStackOneCpu'
      BY <2>10, <3>a DEF OneStackOneCpu, SyscallEntry, table, cpuVars
    <3>2. CpuInv'
      BY <2>10, <3>a DEF CpuInv, OneStackOneCpu, SyscallEntry, table, cpuVars
    <3>3. ContextInv'
      BY <2>10, <3>a DEF ContextInv, Suspended, OneStackOneCpu, SyscallEntry, table, cpuVars
    <3>4. ForkInv'
      BY <2>10, <3>a DEF ForkInv, InFork, SyscallEntry, table, cpuVars
    <3> QED BY <3>1, <3>2, <3>3, <3>4 DEF CoreInv
  <2>11. ASSUME NEW p \in Procs, SyscallReturn(c, p) PROVE CoreInv'
    <3>a. proc[c] = p /\ lock # c /\ state[p] = "RUNNING"
      BY <2>11 DEF Runs, CpuInv, SyscallReturn
    <3>1. OneStackOneCpu'
      BY <2>11, <3>a DEF OneStackOneCpu, SyscallReturn, ToUser, table, cpuVars
    <3>2. CpuInv'
      BY <2>11, <3>a DEF CpuInv, OneStackOneCpu, SyscallReturn, ToUser, table, cpuVars
    <3>3. ContextInv'
      BY <2>11, <3>a DEF ContextInv, Suspended, OneStackOneCpu, SyscallReturn, ToUser, table, cpuVars
    <3>4. ForkInv'
      BY <2>11, <3>a DEF ForkInv, InFork, SyscallReturn, ToUser, table, cpuVars
    <3> QED BY <3>1, <3>2, <3>3, <3>4 DEF CoreInv
  <2>12. ASSUME NEW p \in Procs, UserFault(c, p) PROVE CoreInv'
    <3>a. proc[c] = p /\ lock # c /\ state[p] = "RUNNING"
      BY <2>12 DEF Runs, CpuInv, UserFault
    <3>1. OneStackOneCpu'
      BY <2>12, <3>a DEF OneStackOneCpu, UserFault, cpuVars
    <3>2. CpuInv'
      BY <2>12, <3>a DEF CpuInv, OneStackOneCpu, UserFault, cpuVars
    <3>3. ContextInv'
      BY <2>12, <3>a DEF ContextInv, Suspended, OneStackOneCpu, UserFault, cpuVars
    <3>4. ForkInv'
      BY <2>12, <3>a DEF ForkInv, InFork, UserFault, cpuVars
    <3> QED BY <3>1, <3>2, <3>3, <3>4 DEF CoreInv
  <2>13. ASSUME NEW p \in Procs, sys_exit(c, p) PROVE CoreInv'
    <3>a. proc[c] = p /\ lock # c /\ state[p] = "RUNNING"
      BY <2>13 DEF Runs, CpuInv, sys_exit
    <3>1. OneStackOneCpu'
      BY <2>13, <3>a DEF OneStackOneCpu, sys_exit, table, cpuVars
    <3>2. CpuInv'
      BY <2>13, <3>a DEF CpuInv, OneStackOneCpu, sys_exit, table, cpuVars
    <3>3. ContextInv'
      BY <2>13, <3>a DEF ContextInv, Suspended, OneStackOneCpu, sys_exit, table, cpuVars
    <3>4. ForkInv'
      BY <2>13, <3>a DEF ForkInv, InFork, sys_exit, table, cpuVars
    <3> QED BY <3>1, <3>2, <3>3, <3>4 DEF CoreInv
  <2>14. ASSUME NEW p \in Procs, NEW ch \in Chans, sleep(c, p, ch) PROVE CoreInv'
    <3>a. proc[c] = p /\ lock # c /\ state[p] = "RUNNING"
      BY <2>14 DEF Runs, CpuInv, sleep
    <3>1. OneStackOneCpu'
      BY <2>14, <3>a DEF OneStackOneCpu, sleep, cpuVars
    <3>2. CpuInv'
      BY <2>14, <3>a DEF CpuInv, OneStackOneCpu, sleep, cpuVars
    <3>3. ContextInv'
      BY <2>14, <3>a DEF ContextInv, Suspended, OneStackOneCpu, sleep, cpuVars
    <3>4. ForkInv'
      BY <2>14, <3>a DEF ForkInv, InFork, sleep, cpuVars
    <3> QED BY <3>1, <3>2, <3>3, <3>4 DEF CoreInv
  <2>15. ASSUME NEW p \in Procs, allocproc(c, p) PROVE CoreInv'
    <3>a. proc[c] = p /\ lock # c /\ state[p] = "RUNNING"
      BY <2>15 DEF Runs, CpuInv, allocproc, Claim
    <3>1. OneStackOneCpu'
      BY <2>15, <3>a DEF OneStackOneCpu, allocproc, Claim, ToUser, First, cpuVars
    <3>2. CpuInv'
      BY <2>15, <3>a DEF CpuInv, OneStackOneCpu, allocproc, Claim, ToUser, First, cpuVars
    <3>3. ContextInv'
      BY <2>15, <3>a DEF ContextInv, Suspended, OneStackOneCpu, allocproc, Claim, ToUser, First, cpuVars
    <3>4. ForkInv'
      <4>1. CASE UNCHANGED <<state, np>> /\ pc' = [pc EXCEPT ![p] = ToUser(p)]
        BY <2>15, <3>a, <4>1 DEF ForkInv, InFork, allocproc, Claim, ToUser, cpuVars
      <4>2. ASSUME NEW q \in Procs, state[q] = "UNUSED",
                   state' = [state EXCEPT ![q] = "EMBRYO"], np' = [np EXCEPT ![p] = q],
                   pc' = [pc EXCEPT ![p] = "kstack"]
            PROVE  ForkInv'
        BY <2>15, <3>a, <4>2 DEF ForkInv, InFork, allocproc, Claim, cpuVars
      <4> QED BY <2>15, <4>1, <4>2 DEF allocproc, Claim, First
    <3> QED BY <3>1, <3>2, <3>3, <3>4 DEF CoreInv
  <2>16. ASSUME NEW p \in Procs, NEW t \in Tickets, AllocKstack(c, p, t) PROVE CoreInv'
    <3>a. proc[c] = p /\ lock # c /\ state[p] = "RUNNING" /\ state[np[p]] = "EMBRYO" /\ np[p] \in Procs
      BY <2>16 DEF Runs, CpuInv, AllocKstack, ForkInv, InFork
    <3>1. OneStackOneCpu'
      BY <2>16, <3>a DEF OneStackOneCpu, AllocKstack, cpuVars
    <3>2. CpuInv'
      BY <2>16, <3>a DEF CpuInv, OneStackOneCpu, AllocKstack, cpuVars
    <3>3. ContextInv'
      BY <2>16, <3>a DEF ContextInv, Suspended, OneStackOneCpu, AllocKstack, cpuVars
    <3>4. ForkInv'
      BY <2>16, <3>a DEF ForkInv, InFork, AllocKstack, cpuVars
    <3> QED BY <3>1, <3>2, <3>3, <3>4 DEF CoreInv
  <2>17. ASSUME NEW p \in Procs, ForkFails(c, p) PROVE CoreInv'
    <3>a. proc[c] = p /\ lock # c /\ state[p] = "RUNNING" /\ state[np[p]] = "EMBRYO" /\ np[p] \in Procs
      BY <2>17 DEF Runs, CpuInv, ForkFails, ForkInv, InFork
    <3>1. OneStackOneCpu'
      BY <2>17, <3>a DEF OneStackOneCpu, ForkFails, ToUser, cpuVars
    <3>2. CpuInv'
      BY <2>17, <3>a DEF CpuInv, OneStackOneCpu, ForkFails, ToUser, cpuVars
    <3>3. ContextInv'
      BY <2>17, <3>a DEF ContextInv, Suspended, OneStackOneCpu, ForkFails, ToUser, cpuVars
    <3>4. ForkInv'
      BY <2>17, <3>a DEF ForkInv, InFork, ForkFails, ToUser, cpuVars
    <3> QED BY <3>1, <3>2, <3>3, <3>4 DEF CoreInv
  <2>18. ASSUME NEW p \in Procs, ForkCopy(c, p) PROVE CoreInv'
    <3>a. proc[c] = p /\ lock # c /\ state[p] = "RUNNING" /\ state[np[p]] = "EMBRYO" /\ np[p] \in Procs
      BY <2>18 DEF Runs, CpuInv, ForkCopy, ForkInv, InFork
    <3>1. OneStackOneCpu'
      BY <2>18, <3>a DEF OneStackOneCpu, ForkCopy, cpuVars
    <3>2. CpuInv'
      BY <2>18, <3>a DEF CpuInv, OneStackOneCpu, ForkCopy, cpuVars
    <3>3. ContextInv'
      BY <2>18, <3>a DEF ContextInv, Suspended, OneStackOneCpu, ForkCopy, cpuVars
    <3>4. ForkInv'
      BY <2>18, <3>a DEF ForkInv, InFork, ForkCopy, cpuVars
    <3> QED BY <3>1, <3>2, <3>3, <3>4 DEF CoreInv
  <2>19. ASSUME NEW p \in Procs, ForkRun(c, p) PROVE CoreInv'
    <3>a. proc[c] = p /\ lock # c /\ state[p] = "RUNNING" /\ state[np[p]] = "EMBRYO" /\ np[p] \in Procs
      BY <2>19 DEF Runs, CpuInv, ForkRun, ForkInv, InFork
    <3>1. OneStackOneCpu'
      BY <2>19, <3>a DEF OneStackOneCpu, ForkRun, ToUser, cpuVars
    <3>2. CpuInv'
      BY <2>19, <3>a DEF CpuInv, OneStackOneCpu, ForkRun, ToUser, cpuVars
    <3>3. ContextInv'
      <4>1. context[np[p]] = "forkret"
        BY <2>19 DEF ForkRun, ForkInv, InFork
      <4> QED BY <2>19, <3>a, <4>1 DEF ContextInv, Suspended, OneStackOneCpu, ForkRun, ToUser, cpuVars
    <3>4. ForkInv'
      BY <2>19, <3>a DEF ForkInv, InFork, ForkRun, ToUser, cpuVars
    <3> QED BY <3>1, <3>2, <3>3, <3>4 DEF CoreInv
  <2>20. ASSUME NEW p \in Procs, wait(c, p) \/ WaitAgain(c, p) PROVE CoreInv'
    <3>1. WaitScan(c, p) /\ pc[p] = "kernel" /\ proc[c] = p /\ state[p] = "RUNNING"
      BY <2>20 DEF wait, WaitAgain, Runs, Resumed, CpuInv, ContextInv, Suspended
    <3>2. lock = NoCpu \/ lock = c
      BY <2>20 DEF wait, WaitAgain, Resumed
    <3>3. ASSUME NEW q \in Procs, WaitReaps(p, q) PROVE CoreInv'
      <4>0. state[q] = "ZOMBIE"
        BY <3>3 DEF WaitReaps, First, Zombies
      <4>1. OneStackOneCpu'
        BY <3>1, <3>2, <3>3, <4>0 DEF OneStackOneCpu, WaitScan, WaitReaps, ToUser, cpuVars
      <4>2. CpuInv'
        BY <3>1, <3>2, <3>3, <4>0 DEF CpuInv, OneStackOneCpu, WaitScan, WaitReaps, ToUser, cpuVars
      <4>3. ContextInv'
        BY <3>1, <3>2, <3>3, <4>0 DEF ContextInv, Suspended, WaitScan, WaitReaps, ToUser, cpuVars
      <4>4. ForkInv'
        BY <3>1, <3>2, <3>3, <4>0 DEF ForkInv, InFork, WaitScan, WaitReaps, ToUser, cpuVars
      <4> QED BY <4>1, <4>2, <4>3, <4>4
    <3>4. CASE WaitFails(p)
      <4>1. OneStackOneCpu'
        BY <3>1, <3>2, <3>4 DEF OneStackOneCpu, WaitScan, WaitFails, ToUser, cpuVars
      <4>2. CpuInv'
        BY <3>1, <3>2, <3>4 DEF CpuInv, OneStackOneCpu, WaitScan, WaitFails, ToUser, cpuVars
      <4>3. ContextInv'
        BY <3>1, <3>2, <3>4 DEF ContextInv, Suspended, WaitScan, WaitFails, ToUser, cpuVars
      <4>4. ForkInv'
        BY <3>1, <3>2, <3>4 DEF ForkInv, InFork, WaitScan, WaitFails, ToUser, cpuVars
      <4> QED BY <4>1, <4>2, <4>3, <4>4
    <3>5. CASE WaitSleeps(c, p)
      <4>1. OneStackOneCpu'
        BY <3>1, <3>2, <3>5 DEF OneStackOneCpu, WaitScan, WaitSleeps, ToUser, cpuVars
      <4>2. CpuInv'
        BY <3>1, <3>2, <3>5 DEF CpuInv, OneStackOneCpu, WaitScan, WaitSleeps, ToUser, cpuVars
      <4>3. ContextInv'
        BY <3>1, <3>2, <3>5 DEF ContextInv, Suspended, WaitScan, WaitSleeps, ToUser, cpuVars
      <4>4. ForkInv'
        BY <3>1, <3>2, <3>5 DEF ForkInv, InFork, WaitScan, WaitSleeps, ToUser, cpuVars
      <4> QED BY <4>1, <4>2, <4>3, <4>4
    <3> QED BY <3>1, <3>3, <3>4, <3>5 DEF WaitScan
  <2>21. ASSUME NEW p \in Procs, NEW k \in KillPids, kill(c, p, k) PROVE CoreInv'
    <3>a. proc[c] = p /\ lock # c /\ state[p] = "RUNNING"
      BY <2>21 DEF Runs, CpuInv, kill, KillWakes
    <3>1. OneStackOneCpu'
      BY <2>21, <3>a DEF OneStackOneCpu, kill, KillWakes, cpuVars
    <3>2. CpuInv'
      BY <2>21, <3>a DEF CpuInv, OneStackOneCpu, kill, KillWakes, cpuVars
    <3>3. ContextInv'
      BY <2>21, <3>a DEF ContextInv, Suspended, OneStackOneCpu, kill, KillWakes, cpuVars
    <3>4. ForkInv'
      BY <2>21, <3>a DEF ForkInv, InFork, kill, KillWakes, cpuVars
    <3> QED BY <3>1, <3>2, <3>3, <3>4 DEF CoreInv
  <2>22. ASSUME NEW p \in Procs, exit(c, p) PROVE CoreInv'
    <3>a. proc[c] = p /\ lock # c /\ state[p] = "RUNNING"
      BY <2>22 DEF Runs, CpuInv, exit, PassedToInit, ExitWakes, Zombies
    <3>1. OneStackOneCpu'
      BY <2>22, <3>a DEF OneStackOneCpu, exit, PassedToInit,
                             ExitWakes, Zombies, wakeup1, cpuVars
    <3>2. CpuInv'
      BY <2>22, <3>a DEF CpuInv, OneStackOneCpu, exit, PassedToInit,
                             ExitWakes, Zombies, wakeup1, cpuVars
    <3>3. ContextInv'
      BY <2>22, <3>a DEF ContextInv, Suspended, OneStackOneCpu, exit, PassedToInit,
                             ExitWakes, Zombies, wakeup1, cpuVars
    <3>4. ForkInv'
      BY <2>22, <3>a DEF ForkInv, InFork, exit, PassedToInit, ExitWakes, Zombies, wakeup1, cpuVars
    <3> QED BY <3>1, <3>2, <3>3, <3>4 DEF CoreInv
  <2> QED
    BY <1>3, <2>1, <2>3, <2>4, <2>5, <2>6, <2>7, <2>8, <2>9, <2>10, <2>11,
        <2>12, <2>13, <2>14, <2>15, <2>16, <2>17, <2>18, <2>19, <2>20, <2>21, <2>22
    DEF CpuStep
<1> QED BY <1>1, <1>2, <1>3 DEF Next

(* The core invariant holds in every behaviour. *)
LEMMA CoreCorrect == Spec => []CoreInv
BY CoreInit, CoreStep, TypeCorrect, PTL DEF Spec

(* No two CPUs ever run on one kernel stack: the lock is held from the moment
   a process marks itself RUNNABLE, SLEEPING or ZOMBIE until the scheduler's
   stack is in use (yield, sleep and exit up to sched). *)
THEOREM OneStackCorrect == Spec => []OneStackOneCpu
<1>1. CoreInv => OneStackOneCpu
  BY DEF CoreInv
<1> QED BY <1>1, CoreCorrect, PTL

-----------------------------------------------------------------------------
(* The steps that leave the slots and the CPUs' processes alone. *)
Quiet(c, p) ==
  \/ forkret(c, p) \/ InitlogReturn(c, p) \/ YieldReturn(c, p) \/ SleepReturn(c, p)
  \/ SyscallEntry(c, p) \/ SyscallReturn(c, p) \/ UserFault(c, p) \/ sys_exit(c, p)

LEMMA QuietSteps ==
  ASSUME NEW c \in CPUS, NEW p \in Procs, Quiet(c, p)
  PROVE  UNCHANGED <<state, pid, parent, kstack, step, sizeStep, context, np, nextpid, proc>>
<1>1. CASE forkret(c, p)
  BY <1>1 DEF forkret, table, control, cpuVars
<1>2. CASE InitlogReturn(c, p) \/ YieldReturn(c, p) \/ SyscallEntry(c, p)
  BY <1>2 DEF InitlogReturn, YieldReturn, SyscallEntry, table, cpuVars
<1>3. CASE SleepReturn(c, p)
  BY <1>3 DEF SleepReturn, control, cpuVars
<1>4. CASE SyscallReturn(c, p) \/ sys_exit(c, p)
  BY <1>4 DEF SyscallReturn, sys_exit, table, cpuVars
<1>5. CASE UserFault(c, p)
  BY <1>5 DEF UserFault, cpuVars
<1> QED BY <1>1, <1>2, <1>3, <1>4, <1>5 DEF Quiet

(* A process that runs is on its CPU and RUNNING, and one in fork owns the
   slot it fills. *)
LEMMA RunsFacts ==
  ASSUME TypeOK, CoreInv, NEW c \in CPUS, NEW p \in Procs, Runs(c, p)
  PROVE  /\ proc[c] = p /\ lock # c /\ state[p] = "RUNNING"
         /\ pc[p] \in InFork => np[p] \in Procs /\ state[np[p]] = "EMBRYO"
BY Slots DEF Runs, CoreInv, CpuInv, ForkInv

(* wait scans the table as a RUNNING process in a system call. *)
LEMMA WaitFacts ==
  ASSUME TypeOK, CoreInv, NEW c \in CPUS, NEW p \in Procs, wait(c, p) \/ WaitAgain(c, p)
  PROVE  /\ WaitScan(c, p) /\ proc[c] = p /\ state[p] = "RUNNING" /\ pc[p] = "kernel"
         /\ lock \in {c, NoCpu}
BY Slots DEF wait, WaitAgain, Runs, Resumed, CoreInv, CpuInv, ContextInv, Suspended

LEMMA StackStep ==
  TypeOK /\ TypeOK' /\ CoreInv /\ CoreInv' /\ StackAllocated /\ [Next]_vars => StackAllocated'
<1> SUFFICES ASSUME TypeOK, TypeOK', CoreInv, CoreInv', StackAllocated, [Next]_vars
             PROVE  StackAllocated'
  OBVIOUS
<1> USE Slots DEF TypeOK, StackAllocated
<1>1. CASE UNCHANGED vars
  BY <1>1 DEF vars, table, control, cpuVars
<1>2. ASSUME NEW c \in CPUS, NEW ch \in Chans, wakeup(c, ch) PROVE StackAllocated'
  BY <1>2 DEF wakeup, wakeup1, cpuVars
<1>3. ASSUME NEW c \in CPUS, CpuStep(c) PROVE StackAllocated'
  <2>1. CASE SchedulerStride(c)
    BY <2>1 DEF SchedulerStride, minP, Candidates
  <2>3. CASE sched(c)
    BY <2>3 DEF sched, table
  <2>4. CASE InitExits(c)
    BY <2>4 DEF InitExits, table
  <2>5. ASSUME NEW p \in Procs, Quiet(c, p) PROVE StackAllocated'
    BY <2>5, QuietSteps
  <2>6. ASSUME NEW p \in Procs, yield(c, p) PROVE StackAllocated'
    BY <2>6, RunsFacts DEF yield, cpuVars
  <2>7. ASSUME NEW p \in Procs, NEW ch \in Chans, sleep(c, p, ch) PROVE StackAllocated'
    BY <2>7, RunsFacts DEF sleep, cpuVars
  <2>8. ASSUME NEW p \in Procs, allocproc(c, p) PROVE StackAllocated'
    BY <2>8 DEF allocproc, Claim, First, cpuVars
  <2>9. ASSUME NEW p \in Procs, NEW t \in Tickets, AllocKstack(c, p, t) PROVE StackAllocated'
    <3>1. np[p] \in Procs /\ state[np[p]] = "EMBRYO"
      BY <2>9, RunsFacts DEF AllocKstack, InFork
    <3> QED BY <2>9, <3>1 DEF AllocKstack, cpuVars
  <2>10. ASSUME NEW p \in Procs, ForkFails(c, p) PROVE StackAllocated'
    <3>1. np[p] \in Procs /\ state[np[p]] = "EMBRYO"
      BY <2>10, RunsFacts DEF ForkFails, InFork
    <3>2. \A d \in CPUS : proc[d] # np[p]
      BY <3>1 DEF CoreInv, CpuInv
    <3> QED BY <2>10, <3>1, <3>2 DEF ForkFails, cpuVars
  <2>11. ASSUME NEW p \in Procs, ForkCopy(c, p) PROVE StackAllocated'
    BY <2>11 DEF ForkCopy, cpuVars
  <2>12. ASSUME NEW p \in Procs, ForkRun(c, p) PROVE StackAllocated'
    <3>1. np[p] \in Procs /\ kstack[np[p]]
      BY <2>12 DEF ForkRun, InFork, CoreInv, ForkInv
    <3> QED BY <2>12, <3>1 DEF ForkRun, cpuVars
  <2>13. ASSUME NEW p \in Procs, wait(c, p) \/ WaitAgain(c, p) PROVE StackAllocated'
    <3>0. /\ WaitScan(c, p) /\ proc[c] = p /\ state[p] = "RUNNING"
          /\ lock \in {c, NoCpu}
      BY <2>13, WaitFacts
    <3>1. ASSUME NEW q \in Procs, WaitReaps(p, q) PROVE StackAllocated'
      <4>1. state[q] = "ZOMBIE"
        BY <3>1 DEF WaitReaps, First, Zombies
      <4>2. \A d \in CPUS : proc[d] # q
        BY <3>0, <4>1, CpuAssumption DEF CoreInv, CpuInv
      <4>3. proc' = proc
        BY <3>0 DEF WaitScan, cpuVars
      <4> QED BY <3>1, <4>1, <4>2, <4>3 DEF WaitReaps
    <3>2. CASE WaitFails(p)
      BY <3>0, <3>2 DEF WaitScan, WaitFails, cpuVars
    <3>3. CASE WaitSleeps(c, p)
      BY <3>0, <3>3 DEF WaitScan, WaitSleeps, cpuVars
    <3> QED BY <3>0, <3>1, <3>2, <3>3 DEF WaitScan
  <2>14. ASSUME NEW p \in Procs, NEW k \in KillPids, kill(c, p, k) PROVE StackAllocated'
    BY <2>14 DEF kill, KillWakes, cpuVars
  <2>15. ASSUME NEW p \in Procs, exit(c, p) PROVE StackAllocated'
    BY <2>15, RunsFacts DEF exit, PassedToInit, ExitWakes, Zombies, wakeup1, cpuVars
  <2> QED
    BY <1>3, <2>1, <2>3, <2>4, <2>5, <2>6, <2>7, <2>8, <2>9, <2>10, <2>11, <2>12,
       <2>13, <2>14, <2>15
    DEF CpuStep, Quiet
<1> QED BY <1>1, <1>2, <1>3 DEF Next

(* Neither wait nor a failing fork frees a stack that a CPU uses, and none is
   left behind in a free slot. *)
THEOREM StackCorrect == Spec => []StackAllocated
<1>1. Init => StackAllocated
  <2> SUFFICES ASSUME Init, NEW p \in Procs
               PROVE  /\ state[p] = "UNUSED" => ~kstack[p]
                      /\ state[p] \notin {"UNUSED", "EMBRYO"} => kstack[p]
    BY DEF Init, StackAllocated
  <2>1. CASE p = initproc
    BY <2>1 DEF Init
  <2>2. CASE p # initproc
    BY <2>2 DEF Init
  <2> QED BY <2>1, <2>2
<1> QED BY <1>1, StackStep, TypeCorrect, CoreCorrect, PTL DEF Spec

-----------------------------------------------------------------------------
(* Which steps touch the pids, the kills and the free slots at all. *)
LEMMA OtherSteps ==
  ASSUME TypeOK, CoreInv, NEW c \in CPUS,
         \/ SchedulerStride(c) \/ sched(c) \/ InitExits(c)
         \/ \E p \in Procs :
              \/ forkret(c, p) \/ InitlogReturn(c, p) \/ YieldReturn(c, p)
              \/ SleepReturn(c, p) \/ yield(c, p) \/ SyscallEntry(c, p)
              \/ SyscallReturn(c, p) \/ sys_exit(c, p) \/ ForkCopy(c, p) \/ ForkRun(c, p)
              \/ exit(c, p)
              \/ \E ch \in Chans : sleep(c, p, ch)
              \/ \E t \in Tickets : AllocKstack(c, p, t)
  PROVE  /\ UNCHANGED <<pid, nextpid, killed, history>>
         /\ \A q \in Procs : (state'[q] = "UNUSED") <=> (state[q] = "UNUSED")
<1> USE DEF TypeOK
<1>1. CASE SchedulerStride(c)
  BY <1>1 DEF SchedulerStride, minP, Candidates, control
<1>3. CASE sched(c) \/ InitExits(c)
  BY <1>3 DEF sched, InitExits, table, control
<1>4. ASSUME NEW p \in Procs,
             \/ forkret(c, p) \/ InitlogReturn(c, p) \/ YieldReturn(c, p)
             \/ SleepReturn(c, p) \/ SyscallEntry(c, p)
             \/ SyscallReturn(c, p) \/ sys_exit(c, p)
      PROVE  UNCHANGED <<state, pid, nextpid, killed, history>>
  <2>1. UNCHANGED <<state, pid, nextpid>>
    BY <1>4, QuietSteps DEF Quiet
  <2>2. UNCHANGED <<killed, history>>
    BY <1>4 DEF forkret, InitlogReturn, YieldReturn, SleepReturn, SyscallEntry, SyscallReturn,
       sys_exit, table
  <2> QED BY <2>1, <2>2
<1>5. ASSUME NEW p \in Procs, yield(c, p)
      PROVE  /\ UNCHANGED <<pid, nextpid, killed, history>>
             /\ \A q \in Procs : (state'[q] = "UNUSED") <=> (state[q] = "UNUSED")
  BY <1>5, RunsFacts DEF yield
<1>6. ASSUME NEW p \in Procs, NEW ch \in Chans, sleep(c, p, ch)
      PROVE  /\ UNCHANGED <<pid, nextpid, killed, history>>
             /\ \A q \in Procs : (state'[q] = "UNUSED") <=> (state[q] = "UNUSED")
  BY <1>6, RunsFacts DEF sleep
<1>7. ASSUME NEW p \in Procs, ForkCopy(c, p) \/ \E t \in Tickets : AllocKstack(c, p, t)
      PROVE  UNCHANGED <<state, pid, nextpid, killed, history>>
  BY <1>7 DEF ForkCopy, AllocKstack
<1>8. ASSUME NEW p \in Procs, ForkRun(c, p)
      PROVE  /\ UNCHANGED <<pid, nextpid, killed, history>>
             /\ \A q \in Procs : (state'[q] = "UNUSED") <=> (state[q] = "UNUSED")
  <2>1. np[p] \in Procs /\ state[np[p]] = "EMBRYO"
    BY <1>8, RunsFacts DEF ForkRun, InFork
  <2> QED BY <1>8, <2>1 DEF ForkRun
<1>9. ASSUME NEW p \in Procs, exit(c, p)
      PROVE  /\ UNCHANGED <<pid, nextpid, killed, history>>
             /\ \A q \in Procs : (state'[q] = "UNUSED") <=> (state[q] = "UNUSED")
  BY <1>9, RunsFacts DEF exit, PassedToInit, ExitWakes, Zombies, wakeup1
<1> QED BY <1>1, <1>3, <1>4, <1>5, <1>6, <1>7, <1>8, <1>9

LEMMA PidStep == TypeOK /\ TypeOK' /\ CoreInv /\ PidInv /\ [Next]_vars => PidInv'
<1> SUFFICES ASSUME TypeOK, TypeOK', CoreInv, PidInv, [Next]_vars PROVE PidInv'
  OBVIOUS
<1> USE DEF TypeOK, PidInv
<1>1. CASE UNCHANGED vars
  BY <1>1 DEF vars, table, control
<1>2. ASSUME NEW c \in CPUS, NEW ch \in Chans, wakeup(c, ch) PROVE PidInv'
  BY <1>2 DEF wakeup, wakeup1, control
<1>3. ASSUME NEW c \in CPUS, CpuStep(c) PROVE PidInv'
  <2>1. CASE /\ UNCHANGED <<pid, nextpid>>
             /\ \A q \in Procs : (state'[q] = "UNUSED") <=> (state[q] = "UNUSED")
    BY <2>1
  <2>2. ASSUME NEW p \in Procs, UserFault(c, p) PROVE PidInv'
    BY <2>2 DEF UserFault
  <2>3. ASSUME NEW p \in Procs, allocproc(c, p) PROVE PidInv'
    <3>1. CASE UNCHANGED <<state, pid, nextpid>>
      BY <3>1
    <3>2. ASSUME NEW q \in Procs, state' = [state EXCEPT ![q] = "EMBRYO"],
                 pid' = [pid EXCEPT ![q] = nextpid], nextpid' = nextpid + 1
          PROVE  PidInv'
      BY <3>2
    <3> QED BY <2>3, <3>1, <3>2 DEF allocproc, Claim, First
  <2>4. ASSUME NEW p \in Procs, ForkFails(c, p) PROVE PidInv'
    BY <2>4 DEF ForkFails
  <2>5. ASSUME NEW p \in Procs, wait(c, p) \/ WaitAgain(c, p) PROVE PidInv'
    <3>0. WaitScan(c, p) /\ state[p] = "RUNNING" /\ nextpid' = nextpid
      BY <2>5, WaitFacts DEF WaitScan
    <3>1. ASSUME NEW q \in Procs, WaitReaps(p, q) PROVE PidInv'
      BY <3>0, <3>1 DEF WaitReaps
    <3>2. CASE WaitFails(p) \/ WaitSleeps(c, p)
      BY <3>0, <3>2 DEF WaitFails, WaitSleeps
    <3> QED BY <3>0, <3>1, <3>2 DEF WaitScan
  <2>6. ASSUME NEW p \in Procs, NEW k \in KillPids, kill(c, p, k) PROVE PidInv'
    BY <2>6 DEF kill, KillWakes
  <2> QED BY <1>3, <2>1, <2>2, <2>3, <2>4, <2>5, <2>6, OtherSteps DEF CpuStep
<1> QED BY <1>1, <1>2, <1>3 DEF Next

(* No two slots in use ever have the same pid. *)
THEOREM UniquePidsCorrect == Spec => []UniquePids
<1>1. Init => PidInv
  BY DEF Init, PidInv
<1>2. PidInv => UniquePids
  BY DEF PidInv, UniquePids
<1> QED BY <1>1, <1>2, PidStep, TypeCorrect, CoreCorrect, PTL DEF Spec

-----------------------------------------------------------------------------
LEMMA SlotStep == TypeOK /\ TypeOK' /\ CoreInv /\ SlotInv /\ [Next]_vars => SlotInv'
<1> SUFFICES ASSUME TypeOK, TypeOK', CoreInv, SlotInv, [Next]_vars PROVE SlotInv'
  OBVIOUS
<1> USE DEF TypeOK, SlotInv, history
<1>1. CASE UNCHANGED vars
  BY <1>1 DEF vars, table, control
<1>2. ASSUME NEW c \in CPUS, NEW ch \in Chans, wakeup(c, ch) PROVE SlotInv'
  BY <1>2 DEF wakeup, wakeup1, control
<1>3. ASSUME NEW c \in CPUS, CpuStep(c) PROVE SlotInv'
  <2>1. CASE /\ UNCHANGED <<pid, killed, history>>
             /\ \A q \in Procs : (state'[q] = "UNUSED") <=> (state[q] = "UNUSED")
    BY <2>1
  <2>2. ASSUME NEW p \in Procs, UserFault(c, p) PROVE SlotInv'
    BY <2>2 DEF UserFault
  <2>3. ASSUME NEW p \in Procs, allocproc(c, p) PROVE SlotInv'
    <3>0. UNCHANGED <<killed, killedAs, gaveUp>>
      BY <2>3 DEF allocproc, Claim
    <3>1. CASE UNCHANGED <<state, pid, nextpid>>
      BY <3>0, <3>1
    <3>2. ASSUME NEW q \in Procs, state[q] = "UNUSED",
                 state' = [state EXCEPT ![q] = "EMBRYO"], pid' = [pid EXCEPT ![q] = nextpid]
          PROVE  SlotInv'
      BY <3>0, <3>2
    <3> QED BY <2>3, <3>1, <3>2 DEF allocproc, Claim, First
  <2>4. ASSUME NEW p \in Procs, ForkFails(c, p) PROVE SlotInv'
    <3>1. np[p] \in Procs
      BY <2>4, RunsFacts DEF ForkFails, InFork
    <3> QED BY <2>4, <3>1 DEF ForkFails
  <2>5. ASSUME NEW p \in Procs, wait(c, p) \/ WaitAgain(c, p) PROVE SlotInv'
    <3>0. WaitScan(c, p) /\ state[p] = "RUNNING" /\ UNCHANGED <<killedAs, gaveUp>>
      BY <2>5, WaitFacts DEF WaitScan
    <3>1. ASSUME NEW q \in Procs, WaitReaps(p, q) PROVE SlotInv'
      BY <3>0, <3>1 DEF WaitReaps
    <3>2. CASE WaitFails(p) \/ WaitSleeps(c, p)
      BY <3>0, <3>2 DEF WaitFails, WaitSleeps
    <3> QED BY <3>0, <3>1, <3>2 DEF WaitScan
  <2>6. ASSUME NEW p \in Procs, NEW k \in KillPids, kill(c, p, k) PROVE SlotInv'
    <3>1. /\ UNCHANGED <<pid, gaveUp>>
          /\ \A q \in Procs : /\ \/ killed'[q] = killed[q] /\ killedAs'[q] = killedAs[q]
                                 \/ pid[q] = k /\ killedAs'[q] = k
                              /\ (state'[q] = "UNUSED") <=> (state[q] = "UNUSED")
      BY <2>6 DEF kill, KillWakes, First
    <3> QED BY <3>1
  <2> QED BY <1>3, <2>1, <2>2, <2>3, <2>4, <2>5, <2>6, OtherSteps DEF CpuStep
<1> QED BY <1>1, <1>2, <1>3 DEF Next

(* Whatever kill is called with, whatever forks run out of memory, and however
   slots are reused: a process is killed only by a fault, by its own pid, or by
   a pid that no process ever had (proc.c:461-482). *)
THEOREM KillCorrect == Spec => []KilledOnlyIfTargeted
<1>1. Init => SlotInv
  BY DEF Init, SlotInv
<1>2. SlotInv => KilledOnlyIfTargeted
  BY DEF SlotInv, KilledOnlyIfTargeted
<1> QED BY <1>1, <1>2, SlotStep, TypeCorrect, CoreCorrect, PTL DEF Spec

-----------------------------------------------------------------------------
(* Who may wait for whom, and that no exit is missed. *)
FamilyInv == ParentInv /\ NoOrphans /\ NoLostExit

LEMMA FamilyInit == Init => FamilyInv
<1> SUFFICES ASSUME Init PROVE FamilyInv
  OBVIOUS
<1>1. ParentInv
  BY Values, Slots DEF Init, ParentInv, InFork
<1>2. NoOrphans
  BY Values, Slots DEF Init, NoOrphans
<1>3. NoLostExit
  BY Values, Slots DEF Init, NoLostExit
<1> QED BY <1>1, <1>2, <1>3 DEF FamilyInv

(* A quiet step of p moves p from one point outside fork to another, and
   touches the channel of p alone. *)
LEMMA QuietPoints ==
  ASSUME TypeOK, CoreInv, NEW c \in CPUS, NEW p \in Procs, Quiet(c, p)
  PROVE  /\ state[p] = "RUNNING"
         /\ \A q \in Procs : q # p => pc'[q] = pc[q] /\ chan'[q] = chan[q]
         /\ pc'[p] = pc[p] \/ (pc[p] \notin InFork /\ pc'[p] \notin InFork)
<1> USE DEF TypeOK, InFork, ToUser
<1>1. CASE forkret(c, p)
  BY <1>1 DEF forkret, Resumed, control, table
<1>2. CASE YieldReturn(c, p)
  BY <1>2 DEF YieldReturn, Resumed, table
<1>3. CASE SleepReturn(c, p)
  BY <1>3 DEF SleepReturn, Resumed, control
<1>4. CASE InitlogReturn(c, p)
  BY <1>4, RunsFacts DEF InitlogReturn, table
<1>5. CASE SyscallEntry(c, p)
  BY <1>5, RunsFacts DEF SyscallEntry, table
<1>6. CASE SyscallReturn(c, p)
  BY <1>6, RunsFacts DEF SyscallReturn, table
<1>7. CASE UserFault(c, p)
  BY <1>7, RunsFacts DEF UserFault
<1>8. CASE sys_exit(c, p)
  BY <1>8, RunsFacts DEF sys_exit, table
<1> QED BY <1>1, <1>2, <1>3, <1>4, <1>5, <1>6, <1>7, <1>8 DEF Quiet

LEMMA FamilyStep ==
  TypeOK /\ TypeOK' /\ CoreInv /\ CoreInv' /\ FamilyInv /\ [Next]_vars => FamilyInv'
<1> SUFFICES ASSUME TypeOK, TypeOK', CoreInv, CoreInv', FamilyInv, [Next]_vars
             PROVE  FamilyInv'
  OBVIOUS
<1> USE Slots, Values DEF TypeOK, FamilyInv
<1>1. CASE UNCHANGED vars
  BY <1>1 DEF vars, table, control, cpuVars, ParentInv, NoOrphans, NoLostExit, Children
<1>2. ASSUME NEW c \in CPUS, NEW ch \in Chans, wakeup(c, ch) PROVE FamilyInv'
  <2> USE <1>2 DEF wakeup, wakeup1, control
  <2>1. ParentInv'
    BY DEF ParentInv
  <2>2. NoOrphans'
    BY DEF NoOrphans
  <2>3. NoLostExit'
    BY DEF NoLostExit, Children
  <2> QED BY <2>1, <2>2, <2>3
<1>3. ASSUME NEW c \in CPUS, CpuStep(c) PROVE FamilyInv'
  <2>1. CASE SchedulerStride(c)
    <3> USE <2>1 DEF SchedulerStride, minP, Candidates, control
    <3>1. ParentInv'
      BY DEF ParentInv
    <3>2. NoOrphans'
      BY DEF NoOrphans
    <3>3. NoLostExit'
      BY DEF NoLostExit, Children
    <3> QED BY <3>1, <3>2, <3>3
  <2>3. CASE sched(c) \/ InitExits(c)
    BY <2>3 DEF sched, InitExits, table, control, ParentInv, NoOrphans, NoLostExit, Children
  <2>4. ASSUME NEW p \in Procs, Quiet(c, p) PROVE FamilyInv'
    <3>1. UNCHANGED <<state, parent, np>>
      BY <2>4, QuietSteps
    <3>2. /\ state[p] = "RUNNING"
          /\ \A q \in Procs : q # p => pc'[q] = pc[q] /\ chan'[q] = chan[q]
          /\ pc'[p] = pc[p] \/ (pc[p] \notin InFork /\ pc'[p] \notin InFork)
      BY <2>4, QuietPoints
    <3>3. ParentInv'
      BY <3>1, <3>2 DEF ParentInv, InFork
    <3>4. NoOrphans'
      BY <3>1 DEF NoOrphans
    <3>5. NoLostExit'
      BY <3>1, <3>2 DEF NoLostExit, Children
    <3> QED BY <3>3, <3>4, <3>5
  <2>5. ASSUME NEW p \in Procs, yield(c, p) PROVE FamilyInv'
    <3>0. state[p] = "RUNNING"
      BY <2>5, RunsFacts DEF yield
    <3> USE <2>5, <3>0 DEF yield
    <3>1. ParentInv'
      BY DEF ParentInv
    <3>2. NoOrphans'
      BY DEF NoOrphans
    <3>3. NoLostExit'
      BY DEF NoLostExit, Children
    <3> QED BY <3>1, <3>2, <3>3
  <2>6. ASSUME NEW p \in Procs, NEW ch \in Chans, sleep(c, p, ch) PROVE FamilyInv'
    <3>0. state[p] = "RUNNING" /\ ch # p
      BY <2>6, RunsFacts, ChanAssumption DEF sleep
    <3> USE <2>6, <3>0 DEF sleep
    <3>1. ParentInv'
      BY DEF ParentInv
    <3>2. NoOrphans'
      BY DEF NoOrphans
    <3>3. NoLostExit'
      BY DEF NoLostExit, Children
    <3> QED BY <3>1, <3>2, <3>3
  <2>7. ASSUME NEW p \in Procs, allocproc(c, p) PROVE FamilyInv'
    <3>0. state[p] = "RUNNING" /\ pc[p] = "kernel"
      BY <2>7, RunsFacts DEF allocproc, Claim
    <3>1. CASE UNCHANGED state /\ np' = np /\ pc' = [pc EXCEPT ![p] = ToUser(p)]
      BY <2>7, <3>0, <3>1
      DEF allocproc, Claim, ToUser, ParentInv, InFork, NoOrphans, NoLostExit, Children
    <3>2. ASSUME NEW q \in Procs, state[q] = "UNUSED",
                 state' = [state EXCEPT ![q] = "EMBRYO"], np' = [np EXCEPT ![p] = q],
                 pc' = [pc EXCEPT ![p] = "kstack"]
          PROVE  FamilyInv'
      <4>0. UNCHANGED <<parent, chan>>
        BY <2>7 DEF allocproc, Claim
      <4>1. ParentInv'
        BY <3>0, <3>2, <4>0 DEF ParentInv, InFork
      <4>2. NoOrphans'
        BY <3>2, <4>0 DEF NoOrphans
      <4>3. NoLostExit'
        BY <3>2, <4>0 DEF NoLostExit, Children
      <4> QED BY <4>1, <4>2, <4>3
    <3> QED BY <2>7, <3>1, <3>2 DEF allocproc, Claim, First
  <2>8. ASSUME NEW p \in Procs, NEW t \in Tickets, AllocKstack(c, p, t) PROVE FamilyInv'
    BY <2>8 DEF AllocKstack, ParentInv, InFork, NoOrphans, NoLostExit, Children
  <2>9. ASSUME NEW p \in Procs, ForkFails(c, p) PROVE FamilyInv'
    <3>0. /\ state[p] = "RUNNING" /\ np[p] \in Procs /\ state[np[p]] = "EMBRYO"
          /\ pc[p] \in {"kstack", "copy"} /\ parent[np[p]] = 0 /\ pc'[p] \notin InFork
      BY <2>9, RunsFacts DEF ForkFails, InFork, ParentInv, ToUser
    <3>1. ParentInv'
      BY <2>9, <3>0 DEF ForkFails, ParentInv, InFork, CoreInv, ForkInv
    <3>2. NoOrphans'
      BY <2>9, <3>0 DEF ForkFails, NoOrphans
    <3>3. NoLostExit'
      BY <2>9, <3>0 DEF ForkFails, NoLostExit, Children
    <3> QED BY <3>1, <3>2, <3>3
  <2>10. ASSUME NEW p \in Procs, ForkCopy(c, p) PROVE FamilyInv'
    <3>0. /\ state[p] = "RUNNING" /\ np[p] \in Procs /\ state[np[p]] = "EMBRYO"
          /\ pc[p] = "copy" /\ parent[np[p]] = 0
      BY <2>10, RunsFacts DEF ForkCopy, InFork, ParentInv
    <3>1. ParentInv'
      BY <2>10, <3>0 DEF ForkCopy, ParentInv, InFork, CoreInv, ForkInv
    <3>2. NoOrphans'
      BY <2>10, <3>0 DEF ForkCopy, NoOrphans
    <3>3. NoLostExit'
      BY <2>10, <3>0 DEF ForkCopy, NoLostExit, Children
    <3> QED BY <3>1, <3>2, <3>3
  <2>11. ASSUME NEW p \in Procs, ForkRun(c, p) PROVE FamilyInv'
    <3>0. /\ state[p] = "RUNNING" /\ np[p] \in Procs /\ state[np[p]] = "EMBRYO"
          /\ pc[p] = "run" /\ parent[np[p]] = p /\ pc'[p] \notin InFork /\ pc[np[p]] \notin InFork
      BY <2>11, RunsFacts DEF ForkRun, InFork, ParentInv, ToUser, CoreInv, ForkInv
    <3>1. ParentInv'
      BY <2>11, <3>0 DEF ForkRun, ParentInv, InFork, CoreInv, ForkInv
    <3>2. NoOrphans'
      BY <2>11, <3>0 DEF ForkRun, NoOrphans
    <3>3. NoLostExit'
      BY <2>11, <3>0 DEF ForkRun, NoLostExit, Children
    <3> QED BY <3>1, <3>2, <3>3
  <2>12. ASSUME NEW p \in Procs, wait(c, p) \/ WaitAgain(c, p) PROVE FamilyInv'
    <3>0. WaitScan(c, p) /\ state[p] = "RUNNING" /\ pc[p] = "kernel" /\ np' = np
      BY <2>12, WaitFacts DEF WaitScan
    <3>1. ASSUME NEW q \in Procs, WaitReaps(p, q) PROVE FamilyInv'
      <4>0. state[q] = "ZOMBIE" /\ parent[q] = p /\ pc'[p] \notin InFork
        BY <3>1 DEF WaitReaps, First, Zombies, Children, ToUser, InFork
      <4>1. ParentInv'
        BY <3>0, <3>1, <4>0 DEF WaitReaps, ParentInv, InFork, CoreInv, ForkInv
      <4>2. NoOrphans'
        BY <3>0, <3>1, <4>0 DEF WaitReaps, NoOrphans
      <4>3. NoLostExit'
        BY <3>0, <3>1, <4>0 DEF WaitReaps, NoLostExit, Children
      <4> QED BY <4>1, <4>2, <4>3
    <3>2. CASE WaitFails(p)
      BY <3>0, <3>2
      DEF WaitFails, ToUser, ParentInv, InFork, NoOrphans, NoLostExit, Children
    <3>3. CASE WaitSleeps(c, p)
      <4>1. ParentInv'
        BY <3>0, <3>3 DEF WaitSleeps, ParentInv
      <4>2. NoOrphans'
        BY <3>0, <3>3 DEF WaitSleeps, NoOrphans
      <4>3. NoLostExit'
        BY <3>0, <3>3 DEF WaitSleeps, NoLostExit, Zombies, Children
      <4> QED BY <4>1, <4>2, <4>3
    <3> QED BY <3>0, <3>1, <3>2, <3>3 DEF WaitScan
  <2>13. ASSUME NEW p \in Procs, NEW k \in KillPids, kill(c, p, k) PROVE FamilyInv'
    <3>0. /\ state[p] = "RUNNING" /\ pc[p] = "kernel" /\ pc'[p] \notin InFork
          /\ \A q \in Procs : \/ state'[q] = state[q]
                              \/ state[q] = "SLEEPING" /\ state'[q] = "RUNNABLE"
          /\ \A q \in Procs : q # p => pc'[q] = pc[q]
          /\ UNCHANGED <<parent, chan, np>>
      BY <2>13, RunsFacts DEF kill, KillWakes, InFork
    <3>1. ParentInv'
      BY <3>0 DEF ParentInv, InFork
    <3>2. NoOrphans'
      BY <3>0 DEF NoOrphans
    <3>3. NoLostExit'
      BY <3>0 DEF NoLostExit, Children
    <3> QED BY <3>1, <3>2, <3>3
  <2>14. ASSUME NEW p \in Procs, exit(c, p) PROVE FamilyInv'
    <3>0. /\ state[p] = "RUNNING" /\ pc[p] = "exit" /\ p # initproc
          /\ UNCHANGED <<chan, pc, np>>
          /\ \A q \in Procs : parent'[q] = IF parent[q] = p THEN initproc ELSE parent[q]
      BY <2>14, RunsFacts DEF exit, PassedToInit, ExitWakes, Zombies
    <3>1. /\ state'[p] = "ZOMBIE"
          /\ \A q \in Procs : q # p => \/ state'[q] = state[q]
                                       \/ state[q] = "SLEEPING" /\ state'[q] = "RUNNABLE"
      BY <2>14 DEF exit, PassedToInit, ExitWakes, Zombies, wakeup1
    <3>2. \A q \in Procs : state'[q] = "SLEEPING" =>
            /\ chan[q] # parent[p]
            /\ (\E r \in Children(p) : state[r] = "ZOMBIE") => chan[q] # initproc
      BY <2>14 DEF exit, PassedToInit, ExitWakes, Zombies, wakeup1
    <3>3. ParentInv'
      <4>1. /\ initproc \in Procs /\ parent[initproc] = 0 /\ parent[p] # p
            /\ state[initproc] \notin {"UNUSED", "EMBRYO", "ZOMBIE"}
        BY Slots, Values DEF FamilyInv, ParentInv
      <4>2. /\ state'[initproc] \notin {"UNUSED", "EMBRYO", "ZOMBIE"}
            /\ parent'[initproc] = 0
        BY <3>0, <3>1, <4>1, Slots, Values
      <4>3. ASSUME NEW q \in Procs PROVE parent'[q] # q /\ (state'[q] = "UNUSED" => parent'[q] = 0)
        BY <3>0, <3>1, <4>1, Slots, Values DEF FamilyInv, ParentInv
      <4>4. ASSUME NEW q \in Procs, pc'[q] \in InFork
            PROVE  parent'[np'[q]] = IF pc'[q] = "run" THEN q ELSE 0
        <5>1. pc[q] \in InFork /\ q # p /\ np[q] \in Procs
          BY <3>0, <4>4 DEF InFork, CoreInv, ForkInv
        <5> QED BY <3>0, <5>1, Slots, Values DEF FamilyInv, ParentInv
      <4>5. ASSUME NEW q \in Procs, state'[q] = "EMBRYO", parent'[q] # 0
            PROVE  pc'[parent'[q]] = "run" /\ np'[parent'[q]] = q
        <5>1. state[q] = "EMBRYO" /\ parent[q] # 0 /\ parent[q] # p
          BY <3>0, <3>1, <4>5, Slots, Values DEF FamilyInv, ParentInv
        <5> QED BY <3>0, <5>1 DEF FamilyInv, ParentInv
      <4> QED BY <4>2, <4>3, <4>4, <4>5 DEF ParentInv
    <3>4. NoOrphans'
      BY <3>0, <3>1, <3>3 DEF NoOrphans, ParentInv
    <3>5. NoLostExit'
      <4> SUFFICES ASSUME NEW r \in Procs, state'[r] = "SLEEPING", chan'[r] = r
                   PROVE  /\ Children(r)' # {}
                          /\ \A q \in Children(r)' : state'[q] # "ZOMBIE"
        BY DEF NoLostExit
      <4>1. /\ r # p /\ state[r] = "SLEEPING" /\ chan[r] = r /\ r # parent[p]
            /\ r = initproc => \A q \in Children(p) : state[q] # "ZOMBIE"
        BY <3>0, <3>1, <3>2
      <4>2. Children(r) # {} /\ \A q \in Children(r) : state[q] # "ZOMBIE"
        BY <4>1 DEF NoLostExit
      <4>3. Children(r)' # {}
        BY <3>0, <4>1, <4>2 DEF Children
      <4>4. ASSUME NEW q \in Children(r)' PROVE state'[q] # "ZOMBIE"
        <5>1. q \in Procs /\ q # p /\ state[q] # "ZOMBIE"
          BY <3>0, <4>1, <4>2, <4>4 DEF Children, ParentInv
        <5> QED BY <3>1, <5>1
      <4> QED BY <4>3, <4>4
    <3> QED BY <3>3, <3>4, <3>5
  <2> QED
    BY <1>3, <2>1, <2>3, <2>4, <2>5, <2>6, <2>7, <2>8, <2>9, <2>10, <2>11, <2>12,
       <2>13, <2>14
    DEF CpuStep, Quiet
<1> QED BY <1>1, <1>2, <1>3 DEF Next

LEMMA FamilyCorrect == Spec => []FamilyInv
BY FamilyInit, FamilyStep, TypeCorrect, CoreCorrect, PTL DEF Spec

(* Whoever forks, exits, is killed or waits at the same time, every process
   but the first has a living parent. *)
THEOREM NoOrphansCorrect == Spec => []NoOrphans
<1>1. FamilyInv => NoOrphans
  BY DEF FamilyInv
<1> QED BY <1>1, FamilyCorrect, PTL

(* A process asleep in wait has a child and no dead one. *)
THEOREM NoLostExitCorrect == Spec => []NoLostExit
<1>1. FamilyInv => NoLostExit
  BY DEF FamilyInv
<1> QED BY <1>1, FamilyCorrect, PTL

-----------------------------------------------------------------------------
(* The process table and the abstract stride scheduler. *)
(* The cutoff keeps every step, an int in the code, below the cutoff plus one
   stride: it never overflows. *)
THEOREM StepBoundCorrect == Spec => []StepBound
<1>1. Init => StepBound
  BY LimitAssumption, SizeStepRange DEF Init, StepBound
<1>2. TypeOK /\ TypeOK' /\ CoreInv /\ StepBound /\ [Next]_vars => StepBound'
  <2> SUFFICES ASSUME TypeOK, TypeOK', CoreInv, StepBound, [Next]_vars PROVE StepBound'
    OBVIOUS
  <2> USE LimitAssumption DEF TypeOK, StepBound
  <2>1. CASE UNCHANGED <<step, sizeStep>>
    BY <2>1
  <2>2. ASSUME NEW c \in CPUS, SchedulerStride(c) PROVE StepBound'
    <3>1. PICK p \in minP : step' = [step EXCEPT ![p] = @ + sizeStep[p]] /\ sizeStep' = sizeStep
      BY <2>2 DEF SchedulerStride
    <3>2. p \in Procs /\ step[p] < StepLimit /\ sizeStep[p] \in 0..200 /\ step[p] \in Nat
      BY DEF minP, Candidates
    <3>3. step'[p] < StepLimit + sizeStep[p]
      BY <3>1, <3>2
    <3> QED BY <3>1, <3>2, <3>3
  <2>3. ASSUME NEW c \in CPUS, NEW p \in Procs, NEW t \in Tickets, AllocKstack(c, p, t)
        PROVE  StepBound'
    <3>1. SizeStep(t) \in 10..200
      BY SizeStepRange, TicketAssumption
    <3>2. /\ step' = [step EXCEPT ![np[p]] = 0]
          /\ sizeStep' = [sizeStep EXCEPT ![np[p]] = SizeStep(t)]
      BY <2>3 DEF AllocKstack
    <3> QED BY <3>1, <3>2
  <2>4. ASSUME NEW c \in CPUS, NEW p \in Procs, Quiet(c, p) PROVE UNCHANGED <<step, sizeStep>>
    BY <2>4, QuietSteps
  <2>5. ASSUME NEW c \in CPUS, NEW p \in Procs,
               \/ yield(c, p) \/ allocproc(c, p) \/ ForkFails(c, p) \/ ForkCopy(c, p)
               \/ ForkRun(c, p) \/ wait(c, p) \/ WaitAgain(c, p) \/ exit(c, p)
               \/ (\E ch \in Chans : sleep(c, p, ch)) \/ (\E k \in KillPids : kill(c, p, k))
        PROVE  UNCHANGED <<step, sizeStep>>
    BY <2>5
    DEF yield, allocproc, Claim, ForkFails, ForkCopy, ForkRun, wait, WaitAgain, WaitScan, exit,
         PassedToInit, ExitWakes, Zombies, sleep,
        kill, KillWakes
  <2>6. ASSUME NEW c \in CPUS,
               sched(c) \/ InitExits(c) \/ \E ch \in Chans : wakeup(c, ch)
        PROVE  UNCHANGED <<step, sizeStep>>
    BY <2>6 DEF sched, InitExits, wakeup, table
  <2>7. CASE UNCHANGED vars
    BY <2>7 DEF vars, table
  <2> QED BY <2>1, <2>2, <2>3, <2>4, <2>5, <2>6, <2>7 DEF Next, CpuStep, Quiet
<1> QED BY <1>1, <1>2, TypeCorrect, CoreCorrect, PTL DEF Spec

-----------------------------------------------------------------------------
(* A child has its stride before it is made RUNNABLE. *)
StrideSet ==
  \A p \in Procs : pc[p] \in {"copy", "run"} => sizeStep[np[p]] # 0

LEMMA StrideSetStep ==
  TypeOK /\ TypeOK' /\ CoreInv /\ CoreInv' /\ StrideSet /\ [Next]_vars => StrideSet'
<1> SUFFICES ASSUME TypeOK, TypeOK', CoreInv, CoreInv', StrideSet, [Next]_vars
             PROVE  StrideSet'
  OBVIOUS
<1> USE DEF TypeOK, StrideSet
<1>1. CASE UNCHANGED vars
  BY <1>1 DEF vars, table, control
<1>2. ASSUME NEW c \in CPUS,
             \/ SchedulerStride(c) \/ sched(c) \/ InitExits(c)
             \/ \E ch \in Chans : wakeup(c, ch)
      PROVE  StrideSet'
  BY <1>2 DEF SchedulerStride, sched, InitExits, wakeup, table, control
<1>3. ASSUME NEW c \in CPUS, NEW p \in Procs,
             \/ forkret(c, p) \/ yield(c, p) \/ (\E ch \in Chans : sleep(c, p, ch))
             \/ exit(c, p) \/ SleepReturn(c, p)
      PROVE  StrideSet'
  BY <1>3 DEF forkret, yield, sleep, exit, PassedToInit, ExitWakes, Zombies, SleepReturn, table, control
<1>4. ASSUME NEW c \in CPUS, NEW p \in Procs,
             \/ InitlogReturn(c, p) \/ YieldReturn(c, p) \/ SyscallEntry(c, p)
             \/ SyscallReturn(c, p) \/ sys_exit(c, p)
      PROVE  StrideSet'
  BY <1>4 DEF InitlogReturn, YieldReturn, SyscallEntry, SyscallReturn, sys_exit, ToUser, table
<1>5. ASSUME NEW c \in CPUS, NEW p \in Procs,
             UserFault(c, p) \/ \E k \in KillPids : kill(c, p, k)
      PROVE  StrideSet'
  BY <1>5 DEF UserFault, kill, KillWakes
<1>6. ASSUME NEW c \in CPUS, NEW p \in Procs, allocproc(c, p) PROVE StrideSet'
  <2>1. /\ sizeStep' = sizeStep /\ pc'[p] \notin {"copy", "run"}
        /\ \A q \in Procs : q # p => pc'[q] = pc[q] /\ np'[q] = np[q]
    <3>1. CASE pc' = [pc EXCEPT ![p] = ToUser(p)] /\ np' = np
      BY <1>6, <3>1 DEF allocproc, ToUser
    <3>2. ASSUME NEW q \in Procs, Claim(p, q)
          PROVE  /\ pc'[p] \notin {"copy", "run"}
                 /\ \A r \in Procs : r # p => pc'[r] = pc[r] /\ np'[r] = np[r]
      BY <3>2 DEF Claim
    <3> QED BY <1>6, <3>1, <3>2 DEF allocproc, First
  <2> QED BY <2>1 DEF StrideSet
<1>7. ASSUME NEW c \in CPUS, NEW p \in Procs, NEW t \in Tickets, AllocKstack(c, p, t)
      PROVE  StrideSet'
  <2>1. np[p] \in Procs
    BY <1>7 DEF AllocKstack, CoreInv, ForkInv, InFork
  <2>2. SizeStep(t) # 0
    <3>1. SizeStep(t) \in 10..200
      BY SizeStepRange, TicketAssumption
    <3> QED BY <3>1
  <2> QED BY <1>7, <2>1, <2>2 DEF AllocKstack
<1>8. ASSUME NEW c \in CPUS, NEW p \in Procs, ForkFails(c, p) \/ ForkCopy(c, p)
      PROVE  StrideSet'
  BY <1>8 DEF ForkFails, ForkCopy, ToUser
<1>9. ASSUME NEW c \in CPUS, NEW p \in Procs, ForkRun(c, p) PROVE StrideSet'
  BY <1>9 DEF ForkRun, ToUser
<1>10. ASSUME NEW c \in CPUS, NEW p \in Procs, wait(c, p) \/ WaitAgain(c, p)
       PROVE  StrideSet'
  <2>1. WaitScan(c, p)
    BY <1>10 DEF wait, WaitAgain
  <2> QED BY <2>1 DEF WaitScan, WaitReaps, WaitFails, WaitSleeps, ToUser
<1> QED BY <1>1, <1>2, <1>3, <1>4, <1>5, <1>6, <1>7, <1>8, <1>9, <1>10 DEF Next, CpuStep

-----------------------------------------------------------------------------
(* A step after which every process is as runnable as before, and that
   touches no step, is no step of the abstract scheduler. *)
LEMMA Stutter ==
  ASSUME UNCHANGED <<step, sizeStep>>,
         \A p \in Procs : StatusOf(state'[p]) = StatusOf(state[p])
  PROVE  UNCHANGED Sched!schedVars
BY DEF Sched!schedVars, Status

(* A step that only makes sleepers runnable wakes them. *)
LEMMA WakeStep ==
  ASSUME UNCHANGED <<step, sizeStep>>,
         \A p \in Procs : \/ state'[p] = state[p]
                          \/ state[p] = "SLEEPING" /\ state'[p] = "RUNNABLE"
  PROVE  Sched!SchedNext
<1> DEFINE S == {p \in Procs : state[p] = "SLEEPING" /\ state'[p] = "RUNNABLE"}
<1>1. S \in SUBSET Sched!Blocked
  BY DEF Sched!Blocked, Status, StatusOf
<1>2. Status' = Sched!Woken(Status, S)
  BY DEF Sched!Woken, Status, StatusOf
<1>3. Sched!Wake(S)
  BY <1>2 DEF Sched!Wake
<1> QED BY <1>1, <1>3 DEF Sched!SchedNext

LEMMA StrideInit == Init => Sched!SchedInit
<1> SUFFICES ASSUME Init PROVE Sched!SchedInit
  OBVIOUS
<1>1. SizeStep(500) \in 10..200
  BY SizeStepRange
<1>2. Status \in [Procs -> {"free", "ready"}]
  BY DEF Init, Status, StatusOf
<1>3. sizeStep \in [Procs -> {SizeStep(t) : t \in Tickets \cup {500}} \cup {0}]
  BY DEF Init
<1>4. \A p \in Procs : Status[p] = "ready" => sizeStep[p] # 0
  BY <1>1 DEF Init, Status, StatusOf
<1> QED BY <1>2, <1>3, <1>4 DEF Init, Sched!SchedInit

LEMMA StrideStep ==
  ASSUME TypeOK, TypeOK', CoreInv, StrideSet, [Next]_vars
  PROVE  [Sched!SchedNext]_(Sched!schedVars)
<1> USE Slots DEF TypeOK
<1>1. CASE UNCHANGED vars
  BY <1>1 DEF vars, table, Sched!schedVars, Status
<1>2. ASSUME NEW c \in CPUS, NEW ch \in Chans, wakeup(c, ch) PROVE Sched!SchedNext
  <2>1. /\ UNCHANGED <<step, sizeStep>>
        /\ \A p \in Procs : \/ state'[p] = state[p]
                            \/ state[p] = "SLEEPING" /\ state'[p] = "RUNNABLE"
    BY <1>2 DEF wakeup, wakeup1
  <2> QED BY <2>1, WakeStep
<1>3. ASSUME NEW c \in CPUS, CpuStep(c) PROVE [Sched!SchedNext]_(Sched!schedVars)
  <2>1. CASE SchedulerStride(c)
    <3>1. PICK p \in minP : /\ step' = [step EXCEPT ![p] = @ + sizeStep[p]]
                            /\ state' = [state EXCEPT ![p] = "RUNNING"]
      BY <2>1 DEF SchedulerStride
    <3>2. p \in Procs /\ state[p] = "RUNNABLE" /\ step[p] < StepLimit
      BY DEF minP, Candidates
    <3>3. \A q \in Procs : state[q] = "RUNNABLE" => step[p] <= step[q]
      <4> SUFFICES ASSUME NEW q \in Procs, state[q] = "RUNNABLE" PROVE step[p] <= step[q]
        OBVIOUS
      <4>1. step[p] \in Nat /\ step[q] \in Nat
        BY <3>2
      <4>2. CASE step[q] < StepLimit
        BY <4>1, <4>2 DEF minP, Candidates
      <4>3. CASE ~(step[q] < StepLimit)
        BY <3>2, <4>1, <4>3, LimitAssumption
      <4> QED BY <4>2, <4>3
    <3>4. OneCpu => \A q \in Procs : state[q] # "RUNNING"
      BY <2>1 DEF SchedulerStride, OneCpu, CoreInv, CpuInv
    <3>5. Status' = [Status EXCEPT ![p] = "running"] /\ sizeStep' = sizeStep
      BY <2>1, <3>1, <3>2 DEF Status, StatusOf, SchedulerStride
    <3>6. Sched!Dispatch(p)
      BY <3>1, <3>2, <3>3, <3>4, <3>5 DEF Sched!Dispatch, Sched!Smallest, Sched!Advanced, Status, StatusOf
    <3> QED BY <3>2, <3>6 DEF Sched!SchedNext
  <2>3. CASE sched(c) \/ InitExits(c)
    BY <2>3 DEF sched, InitExits, table, Sched!schedVars, Status
  <2>4. ASSUME NEW p \in Procs, Quiet(c, p) PROVE UNCHANGED Sched!schedVars
    BY <2>4, QuietSteps DEF Sched!schedVars, Status
  <2>5. ASSUME NEW p \in Procs, yield(c, p) PROVE Sched!SchedNext
    <3>1. state[p] = "RUNNING"
      BY <2>5, RunsFacts DEF yield
    <3>2. Sched!Preempt(p)
      BY <2>5, <3>1 DEF yield, Sched!Preempt, Status, StatusOf
    <3> QED BY <3>2 DEF Sched!SchedNext
  <2>6. ASSUME NEW p \in Procs, NEW ch \in Chans, sleep(c, p, ch) PROVE Sched!SchedNext
    <3>1. state[p] = "RUNNING"
      BY <2>6, RunsFacts DEF sleep
    <3>2. Sched!Block(p)
      BY <2>6, <3>1 DEF sleep, Sched!Block, Status, StatusOf
    <3> QED BY <3>2 DEF Sched!SchedNext
  <2>7. ASSUME NEW p \in Procs, allocproc(c, p) PROVE UNCHANGED Sched!schedVars
    <3>1. \A q \in Procs : StatusOf(state'[q]) = StatusOf(state[q])
      BY <2>7 DEF allocproc, Claim, First, StatusOf
    <3> QED BY <2>7, <3>1, Stutter DEF allocproc, Claim
  <2>8. ASSUME NEW p \in Procs, NEW t \in Tickets, AllocKstack(c, p, t) PROVE Sched!SchedNext
    <3>1. np[p] \in Procs /\ state[np[p]] = "EMBRYO"
      BY <2>8, RunsFacts DEF AllocKstack, InFork
    <3>2. Sched!Admit(np[p], SizeStep(t))
      BY <2>8, <3>1 DEF AllocKstack, Sched!Admit, Status, StatusOf
    <3> QED BY <3>1, <3>2 DEF Sched!SchedNext
  <2>9. ASSUME NEW p \in Procs, ForkFails(c, p) PROVE UNCHANGED Sched!schedVars
    <3>1. np[p] \in Procs /\ state[np[p]] = "EMBRYO"
      BY <2>9, RunsFacts DEF ForkFails, InFork
    <3>2. \A q \in Procs : StatusOf(state'[q]) = StatusOf(state[q])
      BY <2>9, <3>1 DEF ForkFails, StatusOf
    <3> QED BY <2>9, <3>2, Stutter DEF ForkFails
  <2>10. ASSUME NEW p \in Procs, ForkCopy(c, p) PROVE UNCHANGED Sched!schedVars
    BY <2>10 DEF ForkCopy, Sched!schedVars, Status
  <2>11. ASSUME NEW p \in Procs, ForkRun(c, p) PROVE Sched!SchedNext
    <3>1. np[p] \in Procs /\ state[np[p]] = "EMBRYO" /\ sizeStep[np[p]] # 0
      BY <2>11, RunsFacts DEF ForkRun, InFork, StrideSet
    <3>2. Sched!Start(np[p])
      BY <2>11, <3>1 DEF ForkRun, Sched!Start, Status, StatusOf
    <3> QED BY <3>1, <3>2 DEF Sched!SchedNext
  <2>12. ASSUME NEW p \in Procs, wait(c, p) \/ WaitAgain(c, p) PROVE [Sched!SchedNext]_(Sched!schedVars)
    <3>0. WaitScan(c, p) /\ state[p] = "RUNNING" /\ UNCHANGED <<step, sizeStep>>
      BY <2>12, WaitFacts DEF WaitScan
    <3>1. ASSUME NEW q \in Procs, WaitReaps(p, q) PROVE UNCHANGED Sched!schedVars
      <4>1. state[q] = "ZOMBIE"
        BY <3>1 DEF WaitReaps, First, Zombies
      <4>2. \A r \in Procs : StatusOf(state'[r]) = StatusOf(state[r])
        BY <3>1, <4>1 DEF WaitReaps, StatusOf
      <4> QED BY <3>0, <4>2, Stutter
    <3>2. CASE WaitFails(p)
      BY <3>0, <3>2 DEF WaitFails, Sched!schedVars, Status
    <3>3. CASE WaitSleeps(c, p)
      <4>1. Sched!Block(p)
        BY <3>0, <3>3 DEF WaitSleeps, Sched!Block, Status, StatusOf
      <4> QED BY <4>1 DEF Sched!SchedNext
    <3> QED BY <3>0, <3>1, <3>2, <3>3 DEF WaitScan
  <2>13. ASSUME NEW p \in Procs, NEW k \in KillPids, kill(c, p, k) PROVE Sched!SchedNext
    <3>1. /\ UNCHANGED <<step, sizeStep>>
          /\ \A q \in Procs : \/ state'[q] = state[q]
                              \/ state[q] = "SLEEPING" /\ state'[q] = "RUNNABLE"
      BY <2>13 DEF kill, KillWakes
    <3> QED BY <3>1, WakeStep
  <2>14. ASSUME NEW p \in Procs, exit(c, p) PROVE Sched!SchedNext
    <3> DEFINE S == {q \in Procs : state[q] = "SLEEPING" /\ state'[q] = "RUNNABLE"}
    <3>1. state[p] = "RUNNING"
      BY <2>14, RunsFacts DEF exit, PassedToInit, ExitWakes, Zombies
    <3>2. /\ UNCHANGED <<step, sizeStep>>
          /\ state'[p] = "ZOMBIE"
          /\ \A q \in Procs : q # p => \/ state'[q] = state[q]
                                       \/ state[q] = "SLEEPING" /\ state'[q] = "RUNNABLE"
      BY <2>14 DEF exit, PassedToInit, ExitWakes, Zombies, wakeup1
    <3>3. S \in SUBSET Sched!Blocked
      BY DEF Sched!Blocked, Status, StatusOf
    <3>4. Status' = [Sched!Woken(Status, S) EXCEPT ![p] = "free"]
      BY <3>1, <3>2 DEF Sched!Woken, Status, StatusOf
    <3>5. Sched!Exit(p, S)
      BY <3>1, <3>2, <3>4 DEF Sched!Exit, Status, StatusOf
    <3> QED BY <3>3, <3>5 DEF Sched!SchedNext
  <2> QED
    BY <1>3, <2>1, <2>3, <2>4, <2>5, <2>6, <2>7, <2>8, <2>9, <2>10, <2>11, <2>12,
       <2>13, <2>14
    DEF CpuStep, Quiet
<1> QED BY <1>1, <1>2, <1>3 DEF Next

(* Every behaviour of the table is a behaviour of the stride scheduler,
   whatever the number of CPUs and slots. *)
THEOREM StrideRefinement == Spec => ImplementsStride
<1>1. Init => StrideSet
  BY DEF Init, StrideSet
<1>2. TypeOK /\ TypeOK' /\ CoreInv /\ StrideSet /\ [Next]_vars => [Sched!SchedNext]_(Sched!schedVars)
  BY StrideStep
<1> QED
  BY <1>1, <1>2, StrideSetStep, StrideInit, TypeCorrect, CoreCorrect, PTL
  DEF Spec, ImplementsStride, Sched!SchedSpec

-----------------------------------------------------------------------------
(* What the stride scheduler that the table implements gives on one CPU. *)

LEMMA SchedTypeStep == SchedTypes /\ [SchedNext]_schedVars => SchedTypes'
<1> SUFFICES ASSUME SchedTypes, [SchedNext]_schedVars PROVE SchedTypes'
  OBVIOUS
<1> USE DEF SchedTypes
<1>0. /\ {"free", "ready", "running", "blocked"} \subseteq Statuses
      /\ Strides \subseteq 0..200
  BY StrideAssumption DEF Statuses
<1>1. CASE UNCHANGED schedVars
  BY <1>1 DEF schedVars
<1>2. ASSUME NEW p \in Clients, NEW z \in Strides, Admit(p, z) PROVE SchedTypes'
  BY <1>0, <1>2 DEF Admit
<1>3. ASSUME NEW p \in Clients, Start(p) \/ Preempt(p) \/ Block(p) PROVE SchedTypes'
  BY <1>0, <1>3 DEF Start, Preempt, Block
<1>4. ASSUME NEW p \in Clients, Dispatch(p) PROVE SchedTypes'
  <2>1. pass[p] + stride[p] \in Nat
    <3>1. pass[p] \in Nat /\ stride[p] \in 0..200
      OBVIOUS
    <3> QED BY <3>1
  <2> QED BY <1>0, <1>4, <2>1 DEF Dispatch, Smallest, Advanced
<1>5. ASSUME NEW p \in Clients, NEW S \in SUBSET Blocked, Exit(p, S) PROVE SchedTypes'
  BY <1>0, <1>5 DEF Exit, Woken
<1>6. ASSUME NEW S \in SUBSET Blocked, Wake(S) PROVE SchedTypes'
  BY <1>0, <1>6 DEF Wake, Woken
<1> QED BY <1>1, <1>2, <1>3, <1>4, <1>5, <1>6 DEF SchedNext

(* The step of a live process changes only when it is dispatched, and then
   only if on one CPU nobody runs and nobody ready is behind it. *)
LEMMA LiveSteps ==
  ASSUME SchedTypes, Uni, [SchedNext]_schedVars, NEW p \in Clients, Live(p), Live(p)'
  PROVE  /\ stride'[p] = stride[p]
         /\ \/ pass'[p] = pass[p]
            \/ /\ pass'[p] = pass[p] + stride[p]
               /\ \A q \in Clients : q # p => pass'[q] = pass[q]
               /\ \A q \in Clients : Live(q) => pass[p] <= pass[q]
<1> USE DEF SchedTypes, Live
<1>1. CASE UNCHANGED schedVars
  BY <1>1 DEF schedVars
<1>2. ASSUME NEW q \in Clients, NEW z \in Strides, Admit(q, z)
      PROVE  stride'[p] = stride[p] /\ pass'[p] = pass[p]
  BY <1>2 DEF Admit
<1>3. ASSUME NEW q \in Clients,
             \/ Start(q) \/ Preempt(q) \/ Block(q) \/ \E S \in SUBSET Blocked : Exit(q, S)
      PROVE  stride'[p] = stride[p] /\ pass'[p] = pass[p]
  BY <1>3 DEF Start, Preempt, Block, Exit
<1>4. ASSUME NEW S \in SUBSET Blocked, Wake(S)
      PROVE  stride'[p] = stride[p] /\ pass'[p] = pass[p]
  BY <1>4 DEF Wake
<1>5. ASSUME NEW q \in Clients, Dispatch(q)
      PROVE  /\ stride'[p] = stride[p]
             /\ p # q => pass'[p] = pass[p]
             /\ p = q => /\ pass'[p] = pass[p] + stride[p]
                         /\ \A r \in Clients : r # p => pass'[r] = pass[r]
                         /\ \A r \in Clients : Live(r) => pass[p] <= pass[r]
  BY <1>5 DEF Dispatch, Smallest, Advanced
<1> QED BY <1>1, <1>2, <1>3, <1>4, <1>5 DEF SchedNext

(* A step in which a process becomes live changes no pass. *)
LEMMA NewlyLive ==
  ASSUME SchedTypes, SchedNext, NEW p \in Clients, ~Live(p), Live(p)'
  PROVE  pass' = pass
<1> USE DEF SchedTypes, Live
<1>1. ASSUME NEW q \in Clients, NEW z \in Strides, Admit(q, z) PROVE FALSE
  BY <1>1 DEF Admit
<1>2. ASSUME NEW q \in Clients, Dispatch(q) PROVE FALSE
  BY <1>2 DEF Dispatch, Smallest, Advanced
<1> QED BY <1>1, <1>2 DEF SchedNext, Start, Preempt, Block, Exit, Wake

BaseType == base \in [Clients \X Clients -> Int]

LEMMA BaseStep == SchedTypes /\ BaseType /\ [LagNext]_lagVars => BaseType'
<1> SUFFICES ASSUME SchedTypes, BaseType, [LagNext]_lagVars PROVE BaseType'
  OBVIOUS
<1>1. CASE UNCHANGED lagVars
  BY <1>1 DEF lagVars, BaseType
<1>2. CASE LagNext
  <2>1. \A pq \in Clients \X Clients : base[pq] \in Int /\ pass[pq[1]] - pass[pq[2]] \in Int
    BY DEF SchedTypes, BaseType
  <2> QED BY <1>2, <2>1 DEF LagNext, BaseNext, BaseType
<1> QED BY <1>1, <1>2

LEMMA LagStep ==
  SchedTypes /\ SchedTypes' /\ BaseType /\ LagBound /\ [LagNext]_lagVars => LagBound'
<1> SUFFICES ASSUME SchedTypes, SchedTypes', BaseType, LagBound, [LagNext]_lagVars, Uni,
                    NEW p \in Clients, NEW q \in Clients, Live(p)', Live(q)'
             PROVE  \/ pass'[p] - pass'[q] <= stride'[p]
                    \/ pass'[p] - pass'[q] <= base'[<<p, q>>]
  BY UniAssumption DEF LagBound
<1>1. /\ pass[p] \in Nat /\ pass[q] \in Nat /\ stride[p] \in 0..200
      /\ pass'[p] \in Nat /\ pass'[q] \in Nat
      /\ stride[q] \in 0..200 /\ base[<<p, q>>] \in Int
  BY DEF SchedTypes, BaseType
<1>2. [SchedNext]_schedVars
  BY DEF LagNext, lagVars, schedVars
<1>3. CASE UNCHANGED lagVars
  BY <1>3 DEF lagVars, LagBound, Live
<1>4. CASE LagNext /\ Live(p) /\ Live(q)
  <2>1. base'[<<p, q>>] = base[<<p, q>>]
    BY <1>4 DEF LagNext, BaseNext, BothLive
  <2>2. \/ pass[p] - pass[q] <= stride[p]
        \/ pass[p] - pass[q] <= base[<<p, q>>]
    BY <1>4 DEF LagBound
  <2>3. /\ stride'[p] = stride[p]
        /\ \/ pass'[p] = pass[p]
           \/ pass'[p] = pass[p] + stride[p] /\ pass[p] <= pass[q] /\ (q # p => pass'[q] = pass[q])
    BY <1>2, <1>4, LiveSteps
  <2>4. pass'[q] = pass[q] \/ (pass'[q] = pass[q] + stride[q] /\ (p # q => pass'[p] = pass[p]))
    BY <1>2, <1>4, LiveSteps
  <2>5. CASE p = q
    BY <1>1, <2>3, <2>5
  <2>6. CASE p # q /\ pass'[p] = pass[p] /\ pass'[q] = pass[q]
    BY <2>1, <2>2, <2>3, <2>6
  <2>7. CASE p # q /\ pass'[p] = pass[p] + stride[p] /\ pass[p] <= pass[q] /\ pass'[q] = pass[q]
    BY <1>1, <2>3, <2>7
  <2>8. CASE p # q /\ pass'[p] = pass[p] /\ pass'[q] = pass[q] + stride[q]
    <3>1. pass'[p] - pass'[q] <= pass[p] - pass[q]
      BY <1>1, <2>8
    <3>2. CASE pass[p] - pass[q] <= stride[p]
      BY <1>1, <2>3, <3>1, <3>2
    <3>3. CASE pass[p] - pass[q] <= base[<<p, q>>]
      BY <1>1, <2>1, <2>8, <3>3
    <3> QED BY <2>2, <3>2, <3>3
  <2> QED BY <2>3, <2>4, <2>5, <2>6, <2>7, <2>8
<1>5. CASE LagNext /\ ~(Live(p) /\ Live(q))
  <2>1. pass' = pass
    BY <1>5, NewlyLive DEF LagNext
  <2>2. base'[<<p, q>>] = pass[p] - pass[q]
    BY <1>5 DEF LagNext, BaseNext, BothLive
  <2> QED BY <1>1, <2>1, <2>2
<1> QED BY <1>3, <1>4, <1>5

(* LagBound is kept by every step: on one CPU, two processes that both stay
   ready or running are never further apart than the stride of the one ahead
   or the distance they started with. *)
THEOREM LagCorrect == LagSpec => []LagBound
<1>1. LagInit => SchedTypes /\ BaseType /\ LagBound
  <2> SUFFICES ASSUME LagInit PROVE SchedTypes /\ BaseType /\ LagBound
    OBVIOUS
  <2>1. SchedTypes
    <3>1. Strides \cup {0} \subseteq 0..200
      BY StrideAssumption
    <3>2. stride \in [Clients -> 0..200]
      BY <3>1 DEF LagInit, BaseInit, SchedInit
    <3> QED BY <3>2 DEF LagInit, BaseInit, SchedInit, SchedTypes, Statuses
  <2>2. BaseType
    BY DEF LagInit, BaseInit, BaseType
  <2>3. LagBound
    BY DEF LagInit, BaseInit, SchedInit, LagBound
  <2> QED BY <2>1, <2>2, <2>3
<1>2. [LagNext]_lagVars => [SchedNext]_schedVars
  BY DEF LagNext, lagVars, schedVars
<1> QED BY <1>1, <1>2, SchedTypeStep, BaseStep, LagStep, PTL DEF LagSpec
=============================================================================

----------------------------- MODULE ProcStride -----------------------------
(***************************************************************************)
(* The process table with the scheduler of proc.c implements the           *)
(* abstract stride scheduler.                                              *)
(***************************************************************************)
EXTENDS Proc

(* A slot that is being filled, or whose process has exited, has no process
   that could run. *)
StatusOf(st) ==
  IF st = "SLEEPING" THEN "blocked"
  ELSE IF st = "RUNNABLE" THEN "ready"
  ELSE IF st = "RUNNING" THEN "running"
  ELSE "free"

Status == [p \in Procs |-> StatusOf(state[p])]

OneCpu == \A c, d \in CPUS : c = d

Sched == INSTANCE StrideSched WITH
  Clients <- Procs,
  Strides <- {SizeStep(t) : t \in Tickets \cup {500}},
  Cutoff <- StepLimit,
  Uni <- OneCpu,
  status <- Status,
  pass <- step,
  stride <- sizeStep

(* Every step of the table is a step of the stride scheduler or leaves it
   alone: whatever the CPUs, fork, exit, wait, kill and the interrupts do in
   between, the process picked has the smallest step of all the RUNNABLE ones
   at that moment, and no step is ever changed but by a dispatch of its
   process or by a fork that fills its slot (proc.c:86, 322-336). *)
ImplementsStride == Sched!SchedSpec
=============================================================================

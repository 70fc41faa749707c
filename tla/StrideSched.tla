----------------------------- MODULE StrideSched -----------------------------
(***************************************************************************)
(* What the stride scheduler of proc.c promises, without locks, CPUs or    *)
(* the process table: a process that is ready waits with its pass (step);  *)
(* the one dispatched is one of the smallest pass, whose pass then grows   *)
(* by its stride; a pass that has reached StepLimit is never dispatched.   *)
(* A process keeps its pass while it is blocked and starts again from 0    *)
(* only when its slot is filled anew.                                      *)
(***************************************************************************)
EXTENDS Integers

CONSTANTS
  Clients,      \* the slots
  Strides,    \* the strides a process may be given
  Cutoff,  \* proc.c: 5000000
  Uni         \* whether there is only one CPU

ASSUME StrideAssumption == Strides \subseteq 1..200
ASSUME CutoffAssumption == Cutoff \in Nat \ {0}
ASSUME UniAssumption == Uni \in BOOLEAN

VARIABLES
  status,   \* free (no process that could run), blocked, ready or running
  pass,     \* the pass
  stride    \* what a dispatch adds to the pass

schedVars == <<status, pass, stride>>

Statuses == {"free", "blocked", "ready", "running"}

(* Some of the processes have been started, with a pass of 0. *)
SchedInit ==
  /\ status \in [Clients -> {"free", "ready"}]
  /\ pass = [p \in Clients |-> 0]
  /\ stride \in [Clients -> Strides \cup {0}]
  /\ \A p \in Clients : status[p] = "ready" => stride[p] # 0

(* Wake the blocked processes of S. *)
Woken(st, S) == [p \in Clients |-> IF p \in S THEN "ready" ELSE st[p]]
Blocked == {p \in Clients : status[p] = "blocked"}

(* allocproc fills a slot. *)
Admit(p, z) ==
  /\ status[p] = "free"
  /\ pass' = [pass EXCEPT ![p] = 0]
  /\ stride' = [stride EXCEPT ![p] = z]
  /\ UNCHANGED status

(* fork lets the new process run. *)
Start(p) ==
  /\ status[p] = "free" /\ stride[p] # 0
  /\ status' = [status EXCEPT ![p] = "ready"]
  /\ UNCHANGED <<pass, stride>>

(* p has a smallest pass of all that are ready. *)
AnyPass(p) == TRUE   \* mutant: the pass is not compared
Smallest(p) == \A q \in Clients : status[q] = "ready" => pass[p] <= pass[q]

(* The passes after a dispatch of p. *)
NotAdvanced(p) == pass   \* mutant: the stride is not added
Advanced(p) == [pass EXCEPT ![p] = @ + stride[p]]

(* The scheduler picks p. *)
Dispatch(p) ==
  /\ status[p] = "ready" /\ pass[p] < Cutoff
  /\ Smallest(p)
  /\ Uni => \A q \in Clients : status[q] # "running"
  /\ status' = [status EXCEPT ![p] = "running"]
  /\ pass' = Advanced(p)
  /\ UNCHANGED stride

(* yield. *)
Preempt(p) ==
  /\ status[p] = "running"
  /\ status' = [status EXCEPT ![p] = "ready"]
  /\ UNCHANGED <<pass, stride>>

(* sleep. *)
Block(p) ==
  /\ status[p] = "running"
  /\ status' = [status EXCEPT ![p] = "blocked"]
  /\ UNCHANGED <<pass, stride>>

(* wakeup and kill. *)
Wake(S) ==
  /\ status' = Woken(status, S)
  /\ UNCHANGED <<pass, stride>>

(* exit, which may wake others. *)
Exit(p, S) ==
  /\ status[p] = "running"
  /\ status' = [Woken(status, S) EXCEPT ![p] = "free"]
  /\ UNCHANGED <<pass, stride>>

SchedNext ==
  \/ \E p \in Clients :
       \/ \E z \in Strides : Admit(p, z)
       \/ Start(p) \/ Dispatch(p) \/ Preempt(p) \/ Block(p)
       \/ \E S \in SUBSET Blocked : Exit(p, S)
  \/ \E S \in SUBSET Blocked : Wake(S)

SchedSpec == SchedInit /\ [][SchedNext]_schedVars

(* The scheduler loops for ever, and the timer ends every turn. *)
Fairness ==
  /\ WF_schedVars(\E p \in Clients : Dispatch(p))
  /\ \A p \in Clients : WF_schedVars(Preempt(p) \/ Block(p) \/ \E S \in SUBSET Blocked : Exit(p, S))
-----------------------------------------------------------------------------
SchedTypes ==
  /\ status \in [Clients -> Statuses]
  /\ pass \in [Clients -> Nat]
  /\ stride \in [Clients -> 0..200]

(* Once no new process is started any more, a ready process whose pass is
   below the cutoff is dispatched: nobody below it can be passed over for ever
   (proc.c:321-326), although others keep blocking and waking.  New processes,
   which start from a pass of 0 (proc.c:76-88), are what the condition is
   about. *)
NoStarvation ==
  (<>[][~\E p \in Clients : Start(p)]_schedVars) =>
    \A p \in Clients :
      (status[p] = "ready" /\ pass[p] < Cutoff) ~> (status[p] # "ready")
=============================================================================

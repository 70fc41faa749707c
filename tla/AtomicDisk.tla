----------------------------- MODULE AtomicDisk -----------------------------
(***************************************************************************)
(* What log.c promises to the file system: a disk on which a transaction   *)
(* happens as a whole or not at all, one transaction at a time, whenever   *)
(* the machine crashes.                                                    *)
(***************************************************************************)
CONSTANTS Procs, Blocks, Vals

VARIABLES
  durable,   \* the blocks as a reboot would find them
  view,      \* the blocks as the running system reads them
  inside,    \* the processes between begin_trans and the end of commit_trans
  committed  \* those of them whose transaction can no longer be lost

vars == <<durable, view, inside, committed>>

Init ==
  /\ durable \in [Blocks -> Vals]
  /\ view = durable
  /\ inside = {}
  /\ committed = {}

(* Only one system call can be in a transaction. *)
Begin(p) ==
  /\ inside = {}
  /\ inside' = {p}
  /\ UNCHANGED <<durable, view, committed>>

(* A block is changed in memory, by the process in the transaction, which has
   not been committed. *)
Write(p, b, v) ==
  /\ inside = {p} /\ committed = {}
  /\ view' = [view EXCEPT ![b] = v]
  /\ UNCHANGED <<durable, inside, committed>>

(* All the changes become durable at once, after the last of them, and once in
   a transaction. *)
Commit(p) ==
  /\ inside = {p} /\ committed = {}
  /\ durable' = view
  /\ committed' = {p}
  /\ UNCHANGED <<view, inside>>

(* A transaction does not end before it is durable. *)
End(p) ==
  /\ inside = {p} /\ committed = {p}
  /\ inside' = {}
  /\ committed' = {}
  /\ UNCHANGED <<durable, view>>

(* What was not committed is gone. *)
Crash ==
  /\ view' = durable
  /\ inside' = {}
  /\ committed' = {}
  /\ UNCHANGED durable

Next ==
  \/ Crash
  \/ \E p \in Procs : \/ Begin(p) \/ Commit(p) \/ End(p)
                      \/ \E b \in Blocks, v \in Vals : Write(p, b, v)

Spec == Init /\ [][Next]_vars
=============================================================================

---------------------------- MODULE SectorStore ----------------------------
(***************************************************************************)
(* What bio.c promises to the file system: for each sector one up-to-date  *)
(* copy that one process at a time may use, and a disk that never holds    *)
(* anything but copies its owner has let through.                          *)
(***************************************************************************)
CONSTANTS Procs, Sectors, Vals, None

VARIABLES
  view,      \* the contents of each sector as bread returns them
  durable,   \* the contents on the disk
  owner      \* who has each sector's buffer between bread and brelse

vars == <<view, durable, owner>>

Init ==
  /\ durable \in [Sectors -> Vals]
  /\ view = durable
  /\ owner = [s \in Sectors |-> None]

Acquire(p, s) ==
  /\ owner[s] = None
  /\ owner' = [owner EXCEPT ![s] = p]
  /\ UNCHANGED <<view, durable>>

Change(p, s, v) ==
  /\ owner[s] = p
  /\ view' = [view EXCEPT ![s] = v]
  /\ UNCHANGED <<durable, owner>>

Sync(p, s) ==
  /\ owner[s] = p
  /\ durable' = [durable EXCEPT ![s] = view[s]]
  /\ UNCHANGED <<view, owner>>

Release(p, s) ==
  /\ owner[s] = p
  /\ owner' = [owner EXCEPT ![s] = None]
  /\ UNCHANGED <<view, durable>>

Next ==
  \E p \in Procs, s \in Sectors :
    \/ Acquire(p, s) \/ Sync(p, s) \/ Release(p, s)
    \/ \E v \in Vals : Change(p, s, v)

Spec == Init /\ [][Next]_vars
=============================================================================

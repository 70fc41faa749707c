------------------------------ MODULE StrideLag ------------------------------
(***************************************************************************)
(* How far apart the passes of two processes that both want the CPU can    *)
(* be.  The history variable base records, for each pair, the difference   *)
(* of the passes at the moment the later of the two became ready.          *)
(***************************************************************************)
EXTENDS StrideSched

VARIABLE base

lagVars == <<status, pass, stride, base>>

Live(p) == status[p] \in {"ready", "running"}

BaseInit == base = [pq \in Clients \X Clients |-> 0]

LagInit ==
  /\ SchedInit
  /\ BaseInit

BothLive(pq) == Live(pq[1]) /\ Live(pq[2])

(* The comparison of two processes starts when both have become live. *)
BaseNext ==
  base' = [pq \in Clients \X Clients |->
             IF BothLive(pq)' /\ BothLive(pq) THEN base[pq]
             ELSE IF BothLive(pq)' THEN pass[pq[1]] - pass[pq[2]]
             ELSE 0]

LagNext == SchedNext /\ BaseNext

LagSpec == LagInit /\ [][LagNext]_lagVars
LagFairSpec == LagSpec /\ Fairness

(* On one CPU, while two processes both stay ready or running, the pass of
   one is never ahead of that of the other by more than its own stride or the
   distance they started with: dispatches are shared in proportion to the
   tickets (the report's claim for proc.c:308-348), up to one turn. *)
LagBound ==
  Uni =>
    \A p, q \in Clients :
      Live(p) /\ Live(q) =>
        \/ pass[p] - pass[q] <= stride[p]
        \/ pass[p] - pass[q] <= base[<<p, q>>]
=============================================================================

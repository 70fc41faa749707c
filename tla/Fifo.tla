-------------------------------- MODULE Fifo --------------------------------
(***************************************************************************)
(* What a pipe promises to the processes that share it: a bounded queue of *)
(* bytes with counted ends.  Bytes come out in the order they went in,     *)
(* each once; the end of the file is reported when nothing is left and     *)
(* nobody can write any more; what is unread is dropped only when both     *)
(* ends are gone.                                                          *)
(***************************************************************************)
EXTENDS Integers, Sequences

CONSTANTS
  Vals,   \* bytes
  Cap     \* how many fit

VARIABLES
  queue,     \* the bytes written and not yet read
  out,       \* the byte delivered last
  holders,   \* how many descriptors refer to each end
  eof        \* a read has reported the end of the file

vars == <<queue, out, holders, eof>>

Gone == \A e \in {"r", "w"} : holders[e] = 0

Init ==
  /\ queue = <<>>
  /\ out \in Vals
  /\ holders = [e \in {"r", "w"} |-> 0]
  /\ eof = FALSE

Create ==
  /\ Gone /\ queue = <<>>
  /\ holders' = [e \in {"r", "w"} |-> 1]
  /\ eof' = FALSE
  /\ UNCHANGED <<queue, out>>

(* Nobody can come to hold an end that nobody holds. *)
Share ==
  /\ ~Gone
  /\ \E E \in SUBSET {"r", "w"} :
       /\ \A e \in E : holders[e] > 0
       /\ holders' = [e \in {"r", "w"} |-> holders[e] + IF e \in E THEN 1 ELSE 0]
  /\ UNCHANGED <<queue, out, eof>>

Drop(e) ==
  /\ holders[e] > 0
  /\ holders' = [holders EXCEPT ![e] = @ - 1]
  /\ UNCHANGED <<queue, out, eof>>

Put(v) ==
  /\ holders["w"] > 0 /\ Len(queue) < Cap
  /\ queue' = Append(queue, v)
  /\ UNCHANGED <<out, holders, eof>>

Get ==
  /\ holders["r"] > 0 /\ queue # <<>>
  /\ out' = Head(queue)
  /\ queue' = Tail(queue)
  /\ UNCHANGED <<holders, eof>>

EndOfFile ==
  /\ holders["r"] > 0 /\ holders["w"] = 0 /\ queue = <<>>
  /\ eof' = TRUE
  /\ UNCHANGED <<queue, out, holders>>

Discard ==
  /\ Gone
  /\ queue' = <<>>
  /\ UNCHANGED <<out, holders, eof>>

Next ==
  \/ Create \/ Share \/ Get \/ EndOfFile \/ Discard
  \/ \E e \in {"r", "w"} : Drop(e)
  \/ \E v \in Vals : Put(v)

Spec == Init /\ [][Next]_vars
=============================================================================

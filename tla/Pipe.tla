-------------------------------- MODULE Pipe --------------------------------
(***************************************************************************)
(* A pipe (pipe.c) and the two struct file that refer to it (file.c): the  *)
(* ring of bytes, readers and writers that sleep on two channels and wake  *)
(* each other, the reference counts of the ends, closing, the release of   *)
(* the pipe's page, and processes that are killed at any moment.           *)
(*                                                                         *)
(* p->lock is explicit, and a process that holds it takes one step for     *)
(* each byte and each test, because kill takes another lock and may come   *)
(* between any two of them.  The page may be allocated again for a new     *)
(* pipe once it has been freed.  A process that holds no end stands for    *)
(* one that is not born yet, too.                                          *)
(***************************************************************************)
EXTENDS Integers, Sequences, FiniteSets

CONSTANTS
  Procs,      \* processes that may share the pipe
  Vals,       \* bytes
  PIPESIZE,   \* pipe.c:10: 512
  UINT,       \* the number of values of a uint: 2^32
  Counts,     \* the n of reads and writes
  None        \* nobody holds p->lock

ASSUME PipeAssumption ==
  /\ IsFiniteSet(Procs) /\ None \notin Procs
  /\ PIPESIZE \in Nat \ {0}
  /\ UINT \in Nat /\ UINT > PIPESIZE /\ UINT % PIPESIZE = 0
  /\ Counts \subseteq Nat

VARIABLES
  data, nread, nwrite, readopen, writeopen,   \* struct pipe
  lock,     \* p->lock: who holds it
  live,     \* the page is allocated to the pipe
  ref,      \* ref of the file of each end
  ofile,    \* the ends in each process's descriptor table
  killed,   \* proc->killed
  pc,       \* where each process is
  left,     \* n - i in pipewrite and piperead
  out,      \* the byte that piperead has stored last
  eof,      \* a piperead of this pipe has returned 0
  cut       \* a killed pipewrite has returned -1 from a full pipe

ring == <<data, nread, nwrite>>
files == <<readopen, writeopen, live, ref, ofile>>
vars == <<ring, files, lock, killed, pc, left, out, eof, cut>>

Ends == {"r", "w"}

(* user: not in the pipe's code.  wlock, rlock: in acquire, on entry or on
   return from sleep.  wtest, rtest: at the loop's condition.  wsleep, rsleep:
   past the test of killed, in sleep and holding p->lock until the process is
   SLEEPING.  wasleep, rasleep: asleep.  rcopy: in the copy loop, after the
   first byte.  rclose, wclose: in fileclose, past the release of
   ftable.lock. *)
WritePoints == {"wlock", "wtest", "wsleep", "wasleep"}
ReadPoints == {"rlock", "rtest", "rsleep", "rasleep", "rcopy"}
ClosePoints == {"rclose", "wclose"}
Points == {"user"} \cup WritePoints \cup ReadPoints \cup ClosePoints
Holding == {"wtest", "wsleep", "rtest", "rsleep", "rcopy"}

Init ==
  /\ data \in [0..(PIPESIZE - 1) -> Vals]
  /\ nread = 0 /\ nwrite = 0
  /\ readopen = FALSE /\ writeopen = FALSE
  /\ lock = None
  /\ live = FALSE
  /\ ref = [e \in Ends |-> 0]
  /\ ofile = [p \in Procs |-> {}]
  /\ killed = [p \in Procs |-> FALSE]
  /\ pc = [p \in Procs |-> "user"]
  /\ left = [p \in Procs |-> 0]
  /\ out \in Vals
  /\ eof = FALSE /\ cut = FALSE

Empty == nread = nwrite
FullSigned == nwrite >= nread + PIPESIZE   \* mutant: no wrap-around
Full == nwrite = (nread + PIPESIZE) % UINT

(* The points of the processes in pcs once those asleep on &p->nread, or on
   &p->nwrite, have been woken. *)
WakeReaders(pcs) ==
  [q \in Procs |-> IF pcs[q] = "rasleep" THEN "rlock" ELSE pcs[q]]
WakeWriters(pcs) ==
  [q \in Procs |-> IF pcs[q] = "wasleep" THEN "wlock" ELSE pcs[q]]

Goto(p, point) == [pc EXCEPT ![p] = point]
InUser(p) == pc[p] = "user" /\ ~killed[p]

-----------------------------------------------------------------------------
(* sys_pipe.  When it runs out of descriptors it closes both ends again, as
   fileclose does below. *)
pipealloc(p) ==
  /\ InUser(p) /\ ~live
  /\ live' = TRUE
  /\ readopen' = TRUE /\ writeopen' = TRUE
  /\ nread' = 0 /\ nwrite' = 0
  /\ ref' = [e \in Ends |-> 1]
  /\ ofile' = [ofile EXCEPT ![p] = Ends]
  /\ eof' = FALSE /\ cut' = FALSE
  /\ UNCHANGED <<data, lock, killed, pc, left, out>>

(* fork: the child gets every descriptor of its parent, and filedup counts
   them. *)
fork(p, c) ==
  /\ InUser(p) /\ InUser(c) /\ p # c /\ ofile[c] = {} /\ ofile[p] # {}
  /\ ofile' = [ofile EXCEPT ![c] = ofile[p]]
  /\ ref' = [e \in Ends |-> IF e \in ofile[p] THEN ref[e] + 1 ELSE ref[e]]
  /\ UNCHANGED <<ring, readopen, writeopen, live, lock, killed, pc, left, out, eof, cut>>

(* sys_close, and exit, which closes what is left: fileclose up to the release
   of ftable.lock.  Only the last reference goes on to pipeclose. *)
fileclose(p, e) ==
  /\ pc[p] = "user" /\ e \in ofile[p]
  /\ ofile' = [ofile EXCEPT ![p] = @ \ {e}]
  /\ ref' = [ref EXCEPT ![e] = @ - 1]
  /\ pc' = IF ref[e] > 1 THEN pc
           ELSE Goto(p, IF e = "w" THEN "wclose" ELSE "rclose")
  /\ UNCHANGED <<ring, readopen, writeopen, live, lock, killed, left, out, eof, cut>>

pipecloseSilent(p) ==   \* mutant: no wakeup
  /\ pc[p] \in ClosePoints /\ lock = None
  /\ IF pc[p] = "wclose" THEN writeopen' = FALSE /\ UNCHANGED readopen
                         ELSE readopen' = FALSE /\ UNCHANGED writeopen
  /\ pc' = Goto(p, "user")
  /\ live' = (readopen' \/ writeopen')
  /\ UNCHANGED <<ring, ref, ofile, lock, killed, left, out, eof, cut>>
pipecloseEither(p) ==   \* mutant: frees the page with either end
  /\ pc[p] \in ClosePoints /\ lock = None
  /\ IF pc[p] = "wclose"
     THEN /\ writeopen' = FALSE /\ UNCHANGED readopen
          /\ pc' = WakeReaders(Goto(p, "user"))
     ELSE /\ readopen' = FALSE /\ UNCHANGED writeopen
          /\ pc' = WakeWriters(Goto(p, "user"))
  /\ live' = FALSE
  /\ UNCHANGED <<ring, ref, ofile, lock, killed, left, out, eof, cut>>
pipeclose(p) ==
  /\ pc[p] \in ClosePoints /\ lock = None
  /\ IF pc[p] = "wclose"
     THEN /\ writeopen' = FALSE /\ UNCHANGED readopen
          /\ pc' = WakeReaders(Goto(p, "user"))
     ELSE /\ readopen' = FALSE /\ UNCHANGED writeopen
          /\ pc' = WakeWriters(Goto(p, "user"))
  /\ live' = (readopen' \/ writeopen')
  /\ UNCHANGED <<ring, ref, ofile, lock, killed, left, out, eof, cut>>

-----------------------------------------------------------------------------
(* Both calls begin with acquire(&p->lock), and sleep ends with it. *)
pipewrite(p, n) ==
  /\ InUser(p) /\ "w" \in ofile[p]
  /\ pc' = Goto(p, "wlock")
  /\ left' = [left EXCEPT ![p] = n]
  /\ UNCHANGED <<ring, files, lock, killed, out, eof, cut>>

piperead(p, n) ==
  /\ InUser(p) /\ "r" \in ofile[p]
  /\ pc' = Goto(p, "rlock")
  /\ left' = [left EXCEPT ![p] = n]
  /\ UNCHANGED <<ring, files, lock, killed, out, eof, cut>>

Acquire(p) ==
  /\ pc[p] \in {"wlock", "rlock"} /\ lock = None
  /\ lock' = p
  /\ pc' = Goto(p, IF pc[p] = "wlock" THEN "wtest" ELSE "rtest")
  /\ UNCHANGED <<ring, files, killed, left, out, eof, cut>>

(* release(&p->lock) and back to user space, with the points pcs. *)
Return(p, pcs) ==
  /\ lock' = None
  /\ pc' = [pcs EXCEPT ![p] = "user"]
  /\ left' = [left EXCEPT ![p] = 0]
  /\ UNCHANGED <<ring, files, killed, out>>

(* sleep: p is SLEEPING and p->lock is free in one step, because wakeup has to
   wait for ptable.lock. *)
Sleep(p, from, to) ==
  /\ pc[p] = from
  /\ lock' = None
  /\ pc' = Goto(p, to)
  /\ UNCHANGED <<ring, files, killed, left, out, eof, cut>>

-----------------------------------------------------------------------------
WriteByte(p, v) ==
  /\ pc[p] = "wtest" /\ left[p] > 0 /\ ~Full
  /\ data' = [data EXCEPT ![nwrite % PIPESIZE] = v]
  /\ nwrite' = (nwrite + 1) % UINT
  /\ left' = [left EXCEPT ![p] = @ - 1]
  /\ UNCHANGED <<nread, files, lock, killed, pc, out, eof, cut>>

(* The ring is full: give up, without a wakeup, or wake the readers and go to
   sleep. *)
WriteFull(p) ==
  /\ pc[p] = "wtest" /\ left[p] > 0 /\ Full
  /\ \/ /\ ~readopen \/ killed[p]
        /\ cut' = (cut \/ readopen)
        /\ Return(p, pc)
     \/ /\ readopen /\ ~killed[p]
        /\ pc' = WakeReaders(Goto(p, "wsleep"))
        /\ UNCHANGED <<ring, files, lock, killed, left, out, cut>>
  /\ UNCHANGED eof

WriteDone(p) ==
  /\ pc[p] = "wtest" /\ left[p] = 0
  /\ Return(p, WakeReaders(pc))
  /\ UNCHANGED <<eof, cut>>

-----------------------------------------------------------------------------
ReadEmpty(p) ==
  /\ pc[p] = "rtest" /\ Empty /\ writeopen
  /\ \/ killed[p] /\ Return(p, pc)
     \/ /\ ~killed[p]
        /\ pc' = Goto(p, "rsleep")
        /\ UNCHANGED <<ring, files, lock, killed, left, out>>
  /\ UNCHANGED <<eof, cut>>

ReadByte(p) ==
  /\ pc[p] \in {"rtest", "rcopy"} /\ left[p] > 0 /\ ~Empty
  /\ out' = data[nread % PIPESIZE]
  /\ nread' = (nread + 1) % UINT
  /\ left' = [left EXCEPT ![p] = @ - 1]
  /\ pc' = Goto(p, "rcopy")
  /\ UNCHANGED <<data, nwrite, files, lock, killed, eof, cut>>

(* The copy is over: n bytes, or no more of them.  Nothing was copied if the
   process has come here straight from the loop's condition. *)
ReadDoneHungry(p) ==   \* mutant: the loop's condition is not tested again
  /\ \/ pc[p] = "rcopy" /\ (left[p] = 0 \/ Empty)
     \/ pc[p] = "rtest" /\ Empty
  /\ Return(p, WakeWriters(pc))
  /\ eof' = (eof \/ pc[p] = "rtest")
  /\ UNCHANGED cut
ReadDoneSilent(p) ==   \* mutant: no wakeup
  /\ \/ pc[p] = "rcopy" /\ (left[p] = 0 \/ Empty)
     \/ pc[p] = "rtest" /\ Empty /\ ~writeopen
  /\ Return(p, pc)
  /\ eof' = (eof \/ pc[p] = "rtest")
  /\ UNCHANGED cut
ReadDone(p) ==
  /\ \/ pc[p] = "rcopy" /\ (left[p] = 0 \/ Empty)
     \/ pc[p] = "rtest" /\ Empty /\ ~writeopen
  /\ Return(p, WakeWriters(pc))
  /\ eof' = (eof \/ pc[p] = "rtest")
  /\ UNCHANGED cut

-----------------------------------------------------------------------------
(* kill wakes a process that is SLEEPING, also one killed before.  It takes
   ptable.lock only, so it may come while the process holds p->lock on its way
   into sleep. *)
kill(p) ==
  /\ killed' = [killed EXCEPT ![p] = TRUE]
  /\ pc' = Goto(p, CASE pc[p] = "rasleep" -> "rlock"
                     [] pc[p] = "wasleep" -> "wlock"
                     [] OTHER -> pc[p])
  /\ UNCHANGED <<ring, files, lock, left, out, eof, cut>>

(* A killed process leaves through exit, once it has closed its ends. *)
exit(p) ==
  /\ pc[p] = "user" /\ killed[p] /\ ofile[p] = {}
  /\ killed' = [killed EXCEPT ![p] = FALSE]
  /\ UNCHANGED <<ring, files, lock, pc, left, out, eof, cut>>

-----------------------------------------------------------------------------
Call(p) ==
  \/ \E n \in Counts : pipewrite(p, n)
  \/ \E n \in Counts \ {0} : piperead(p, n)

(* What p does in the kernel. *)
Step(p) ==
  \/ Acquire(p) \/ pipeclose(p)
  \/ WriteFull(p) \/ WriteDone(p) \/ Sleep(p, "wsleep", "wasleep")
  \/ ReadEmpty(p) \/ ReadByte(p) \/ ReadDone(p) \/ Sleep(p, "rsleep", "rasleep")
  \/ \E v \in Vals : WriteByte(p, v)

Next ==
  \E p \in Procs :
    \/ pipealloc(p) \/ Call(p) \/ Step(p) \/ kill(p) \/ exit(p)
    \/ \E c \in Procs : fork(p, c)
    \/ \E e \in Ends : fileclose(p, e)

Spec == Init /\ [][Next]_vars

(* A process in the kernel runs on: the scheduler gets to it, and a lock that
   stays free is taken.  Nothing says that a process ever calls or closes. *)
FairSpec == Spec /\ \A p \in Procs : WF_vars(Step(p))
-----------------------------------------------------------------------------
TypeOK ==
  /\ data \in [0..(PIPESIZE - 1) -> Vals]
  /\ nread \in 0..(UINT - 1) /\ nwrite \in 0..(UINT - 1)
  /\ readopen \in BOOLEAN /\ writeopen \in BOOLEAN
  /\ lock \in Procs \cup {None}
  /\ live \in BOOLEAN
  /\ ref \in [Ends -> Nat]
  /\ ofile \in [Procs -> SUBSET Ends]
  /\ killed \in [Procs -> BOOLEAN]
  /\ pc \in [Procs -> Points]
  /\ left \in [Procs -> Nat]
  /\ out \in Vals
  /\ eof \in BOOLEAN /\ cut \in BOOLEAN

(* Nobody sleeps on a condition that does not hold any more, whatever readers,
   writers, closers and kill do between a test and its sleep (pipe.c:90, 110):
   when the lock is free, a sleeping writer has a full pipe that can still be
   read, a sleeping reader an empty one that can still be written; a killed
   writer that found the pipe full is the one exception. *)
NoLostWakeup ==
  lock = None => \A p \in Procs :
    /\ pc[p] = "rasleep" => (Empty \/ cut) /\ writeopen
    /\ pc[p] = "wasleep" => Full /\ readopen

(* The loop that pipe.c:105 marks "pipe-empty" keeps a reader asleep only while
   the pipe is empty. *)
SleepsOnlyIfEmpty ==
  lock = None => \A p \in Procs : pc[p] = "rasleep" => Empty

(* No process uses the page once it has been freed, and the page is freed once
   nobody can use it: a process in the pipe's code or with an end of it in its
   table has a pipe that is allocated, and an allocated pipe has such a
   process (pipe.c:69-73, file.c:60-73). *)
PageOwned ==
  live <=> \E p \in Procs : ofile[p] # {} \/ pc[p] # "user"

(* Once a read has returned 0 the pipe stays empty and no process can write to
   it (pipe.c:105, 113). *)
EofIsFinal ==
  eof /\ live => Empty /\ ~writeopen /\ \A p \in Procs : "w" \notin ofile[p]

(* Who holds the lock, and who holds which end, at each point: a process reads
   or writes through a descriptor of its own, a file has as many references as
   descriptors, and only the process that dropped the last one is in
   pipeclose, once for each end. *)
LockInv == \A p \in Procs : pc[p] \in Holding <=> lock = p
CountInv == \A e \in Ends : ref[e] = Cardinality({p \in Procs : e \in ofile[p]})
PointInv ==
  \A p \in Procs :
    /\ pc[p] \in ReadPoints => "r" \in ofile[p]
    /\ pc[p] \in WritePoints => "w" \in ofile[p]
    /\ pc[p] = "rclose" =>
         readopen /\ ref["r"] = 0 /\ \A q \in Procs : pc[q] = "rclose" => q = p
    /\ pc[p] = "wclose" =>
         writeopen /\ ref["w"] = 0 /\ \A q \in Procs : pc[q] = "wclose" => q = p
OpenInv ==
  /\ readopen <=> (ref["r"] > 0 \/ \E p \in Procs : pc[p] = "rclose")
  /\ writeopen <=> (ref["w"] > 0 \/ \E p \in Procs : pc[p] = "wclose")
  /\ live <=> (readopen \/ writeopen)

(* Why no wakeup is lost: between the test and the sleep the condition stays,
   because the lock is held, and whoever ends the condition is still on its
   way to the wakeup. *)
WakeInv ==
  \A p \in Procs :
    /\ pc[p] = "rsleep" => Empty /\ writeopen
    /\ pc[p] = "wsleep" => Full /\ readopen
    /\ pc[p] = "rasleep" => ((Empty \/ cut) /\ writeopen) \/ \E q \in Procs : pc[q] = "wtest"
    /\ pc[p] = "wasleep" => (Full /\ readopen) \/ \E q \in Procs : pc[q] = "rcopy"

EofInv == eof /\ live => Empty /\ ~writeopen

(* The ring never holds more bytes than it has slots, however often the
   counters wrap. *)
Amount == (nwrite - nread) % UINT
RingInv == Amount <= PIPESIZE

(* The pipe is a bounded queue with counted ends.  What is queued is between
   nread and nwrite, the difference taken modulo 2^32. *)
Queue == [i \in 1..Amount |-> data[(nread + i - 1) % PIPESIZE]]
Abstract == INSTANCE Fifo WITH
  Cap <- PIPESIZE,
  queue <- IF live THEN Queue ELSE <<>>,
  holders <- ref
ImplementsFifo == Abstract!Spec

(* Unless calls keep coming, whose lock nothing hands out fairly, a reader of a
   pipe that nobody can write and a writer to one that nobody can read leave
   (pipe.c:64, 67: the close wakes them). *)
HangUp ==
  \/ []<><<\E p \in Procs : Call(p)>>_vars
  \/ \A p \in Procs :
       /\ (ref["w"] = 0 /\ pc[p] \in ReadPoints) ~> (pc[p] \notin ReadPoints)
       /\ (ref["r"] = 0 /\ pc[p] \in WritePoints) ~> (pc[p] \notin WritePoints)

(* A process that is killed in a pipe does not stay asleep there (proc.c:461
   "Kill the process with the given pid.", proc.c:473 "Wake process from sleep
   if necessary."). *)
KillTakesEffect ==
  \A p \in Procs : killed[p] ~> pc[p] \notin {"rasleep", "wasleep"}
=============================================================================

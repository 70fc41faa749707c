------------------------------ MODULE BufCache ------------------------------
(***************************************************************************)
(* The buffer cache (bio.c) on top of the IDE driver (ide.c): processes    *)
(* that want the same or different sectors, the replacement of buffers,    *)
(* the queue of requests, the drive and its interrupts.                    *)
(*                                                                         *)
(* bcache.lock and idelock protect different pieces of code, and a critical*)
(* section of either is one action.  Waiters in bget and the owner in iderw*)
(* all sleep on the buffer's address.  A member of Procs is one use of a   *)
(* buffer, from bread to brelse: a process that has two at once, as in     *)
(* log_write and install_trans, is two of them.                            *)
(***************************************************************************)
EXTENDS Integers, Sequences, FiniteSets

CONSTANTS
  Procs,     \* uses of buffers by processes
  Bufs,      \* bcache.buf, NBUF of them
  Sectors,   \* of the one drive
  Vals,      \* what a sector may contain
  Answers,   \* of the drive: done, and failed if it may fail
  None       \* no sector, no buffer, no owner

ASSUME BufAssumption ==
  /\ IsFiniteSet(Bufs) /\ Answers \in {{"done"}, {"done", "failed"}}
  /\ None \notin Procs \cup Bufs \cup Sectors

VARIABLES
  sector, busy, valid, dirty, data,   \* struct buf
  lru,        \* the list from bcache.head, most recently used first
  idequeue,   \* the requests, the active one first
  drive,      \* what the drive has been told to do
  irq,        \* the interrupt it has raised: none, done or failed
  disk,       \* the sectors on the disk
  want,       \* the sector that bread is called with
  buf,        \* the buffer a process waits for or owns
  pc,         \* where each process is
  panicked    \* bget has found no buffer

flags == <<sector, busy, valid, dirty>>
device == <<drive, irq, disk>>
vars == <<flags, data, lru, idequeue, device, want, buf, pc, panicked>>

(* user: owns no buffer.  loop: in bget's loop.  asleep: in its sleep.  got:
   bget has returned.  iderw: about to queue the request.  waits: asleep in
   iderw.  woken: at the condition of its loop.  holds: has what bread
   returns. *)
Points == {"user", "loop", "asleep", "got", "iderw", "waits", "woken", "holds"}
Owning == {"got", "iderw", "waits", "woken", "holds"}
Idle == [op |-> "none", sector |-> None, val |-> None]

(* binit links the buffers into one list; which comes first is a matter of
   their names. *)
Init ==
  /\ sector = [b \in Bufs |-> None]
  /\ busy = [b \in Bufs |-> FALSE]
  /\ valid = [b \in Bufs |-> FALSE]
  /\ dirty = [b \in Bufs |-> FALSE]
  /\ \E v \in Vals : data = [b \in Bufs |-> v]
  /\ lru \in {sq \in [1..Cardinality(Bufs) -> Bufs] :
                \A b \in Bufs : \E i \in DOMAIN sq : sq[i] = b}
  /\ idequeue = <<>>
  /\ drive = Idle
  /\ irq = "none"
  /\ disk \in [Sectors -> Vals]
  /\ want = [p \in Procs |-> None]
  /\ buf = [p \in Procs |-> None]
  /\ pc = [p \in Procs |-> "user"]
  /\ panicked = FALSE

Goto(p, point) == [pc EXCEPT ![p] = point]

(* The points of the processes in pcs once wakeup(b) has been called. *)
Wake(pcs, b) ==
  [q \in Procs |-> CASE buf[q] = b /\ pcs[q] = "asleep" -> "loop"
                     [] buf[q] = b /\ pcs[q] = "waits" -> "woken"
                     [] OTHER -> pcs[q]]

-----------------------------------------------------------------------------
bread(p, s) ==
  /\ pc[p] = "user"
  /\ want' = [want EXCEPT ![p] = s]
  /\ pc' = Goto(p, "loop")
  /\ UNCHANGED <<flags, data, lru, idequeue, device, buf, panicked>>

CachedValid(s) ==   \* mutant: a buffer that is being read is not found
  {i \in DOMAIN lru : sector[lru[i]] = s /\ valid[lru[i]]}
Cached(s) == {i \in DOMAIN lru : sector[lru[i]] = s}
SpareDirty == {i \in DOMAIN lru : ~busy[lru[i]]}   \* mutant: recycles pinned buffers
Spare == {i \in DOMAIN lru : ~busy[lru[i]] /\ ~dirty[lru[i]]}
(* The buffer that a search among the places I finds from either side. *)
First(b, I) == \E i \in I : lru[i] = b /\ \A j \in I : i <= j
Last(b, I) == \E i \in I : lru[i] = b /\ \A j \in I : i >= j

(* One pass of bget's loop: the sector is cached and free, *)
BgetHit(p, b) ==
  /\ pc[p] = "loop" /\ First(b, Cached(want[p])) /\ ~busy[b]
  /\ busy' = [busy EXCEPT ![b] = TRUE]
  /\ buf' = [buf EXCEPT ![p] = b]
  /\ pc' = Goto(p, "got")
  /\ UNCHANGED <<sector, valid, dirty, data, lru, idequeue, device, want, panicked>>

(* it is cached and in use, *)
BgetSleep(p, b) ==
  /\ pc[p] = "loop" /\ First(b, Cached(want[p])) /\ busy[b]
  /\ buf' = [buf EXCEPT ![p] = b]
  /\ pc' = Goto(p, "asleep")
  /\ UNCHANGED <<flags, data, lru, idequeue, device, want, panicked>>

(* it is not cached and a buffer is recycled, or there is none. *)
BgetRecycle(p, b) ==
  /\ pc[p] = "loop" /\ Cached(want[p]) = {} /\ Last(b, Spare)
  /\ sector' = [sector EXCEPT ![b] = want[p]]
  /\ busy' = [busy EXCEPT ![b] = TRUE]
  /\ valid' = [valid EXCEPT ![b] = FALSE]
  /\ dirty' = [dirty EXCEPT ![b] = FALSE]
  /\ buf' = [buf EXCEPT ![p] = b]
  /\ pc' = Goto(p, "got")
  /\ UNCHANGED <<data, lru, idequeue, device, want, panicked>>

NoBuffers(p) ==
  /\ pc[p] = "loop" /\ Cached(want[p]) = {} /\ Spare = {}
  /\ panicked' = TRUE
  /\ UNCHANGED <<flags, data, lru, idequeue, device, want, buf, pc>>

(* The rest of bread. *)
BreadReturn(p) ==
  /\ pc[p] = "got"
  /\ pc' = Goto(p, IF valid[buf[p]] THEN "holds" ELSE "iderw")
  /\ UNCHANGED <<flags, data, lru, idequeue, device, want, buf, panicked>>

(* The owner changes the contents and calls bwrite, or log_write, which only
   marks the buffer: the copy into the log's block is another use. *)
bwrite(p, v) ==
  /\ pc[p] = "holds"
  /\ data' = [data EXCEPT ![buf[p]] = v]
  /\ dirty' = [dirty EXCEPT ![buf[p]] = TRUE]
  /\ pc' = Goto(p, "iderw")
  /\ UNCHANGED <<sector, busy, valid, lru, idequeue, device, want, buf, panicked>>

log_write(p, v) ==
  /\ pc[p] = "holds"
  /\ data' = [data EXCEPT ![buf[p]] = v]
  /\ dirty' = [dirty EXCEPT ![buf[p]] = TRUE]
  /\ UNCHANGED <<sector, busy, valid, lru, idequeue, device, want, buf, pc, panicked>>

(* The list with b taken out of its place and put first. *)
MoveToFront(b) ==
  \E i \in DOMAIN lru :
    /\ lru[i] = b
    /\ lru' = [j \in DOMAIN lru |-> IF j = 1 THEN b ELSE IF j <= i THEN lru[j - 1] ELSE lru[j]]

brelseSilent(p) ==   \* mutant: no wakeup
  LET b == buf[p]
  IN  /\ pc[p] = "holds"
      /\ MoveToFront(b)
      /\ busy' = [busy EXCEPT ![b] = FALSE]
      /\ pc' = Goto(p, "user")
      /\ buf' = [buf EXCEPT ![p] = None]
      /\ want' = [want EXCEPT ![p] = None]
      /\ UNCHANGED <<sector, valid, dirty, data, idequeue, device, panicked>>
brelse(p) ==
  LET b == buf[p]
  IN  /\ pc[p] = "holds"
      /\ MoveToFront(b)
      /\ busy' = [busy EXCEPT ![b] = FALSE]
      /\ pc' = Wake(Goto(p, "user"), b)
      /\ buf' = [buf EXCEPT ![p] = None]
      /\ want' = [want EXCEPT ![p] = None]
      /\ UNCHANGED <<sector, valid, dirty, data, idequeue, device, panicked>>

-----------------------------------------------------------------------------
(* idestart gives the drive the sector and, for a write, the data. *)
idestart(b) ==
  drive' = IF dirty[b] THEN [op |-> "write", sector |-> sector[b], val |-> data[b]]
                       ELSE [op |-> "read", sector |-> sector[b], val |-> None]

(* iderw: the panics of a buffer that is not busy or needs nothing cannot be
   reached from bread and bwrite. *)
iderw(p) ==
  /\ pc[p] = "iderw"
  /\ idequeue' = Append(idequeue, buf[p])
  /\ IF idequeue = <<>> THEN idestart(buf[p]) ELSE UNCHANGED drive
  /\ pc' = Goto(p, "waits")
  /\ UNCHANGED <<flags, data, lru, irq, disk, want, buf, panicked>>

IderwWoken(p) ==
  /\ pc[p] = "woken"
  /\ pc' = Goto(p, IF valid[buf[p]] /\ ~dirty[buf[p]] THEN "holds" ELSE "waits")
  /\ UNCHANGED <<flags, data, lru, idequeue, device, want, buf, panicked>>

(* The drive carries out its command and raises an interrupt. *)
DriveDone ==
  /\ drive.op # "none" /\ irq = "none"
  /\ irq' \in Answers
  /\ disk' = IF drive.op = "write" /\ irq' = "done"
             THEN [disk EXCEPT ![drive.sector] = drive.val] ELSE disk
  /\ UNCHANGED <<flags, data, lru, idequeue, drive, want, buf, pc, panicked>>

ideintrStops ==   \* mutant: the next request is not started
  LET b == Head(idequeue)
  IN  /\ irq # "none" /\ idequeue # <<>>
      /\ idequeue' = Tail(idequeue)
      /\ data' = IF ~dirty[b] /\ irq = "done"
                 THEN [data EXCEPT ![b] = disk[drive.sector]] ELSE data
      /\ valid' = [valid EXCEPT ![b] = TRUE]
      /\ dirty' = [dirty EXCEPT ![b] = FALSE]
      /\ pc' = Wake(pc, b)
      /\ drive' = Idle
      /\ irq' = "none"
      /\ UNCHANGED <<sector, busy, lru, disk, want, buf, panicked>>
(* The interrupt names no request: it is taken to be the first one's.  A read
   that failed leaves the buffer as it was; only the flags say it is valid. *)
ideintr ==
  LET b == Head(idequeue)
      rest == Tail(idequeue)
  IN  /\ irq # "none" /\ idequeue # <<>>
      /\ idequeue' = rest
      /\ data' = IF ~dirty[b] /\ irq = "done"
                 THEN [data EXCEPT ![b] = disk[drive.sector]] ELSE data
      /\ valid' = [valid EXCEPT ![b] = TRUE]
      /\ dirty' = [dirty EXCEPT ![b] = FALSE]
      /\ pc' = Wake(pc, b)
      /\ IF rest # <<>> THEN idestart(Head(rest)) ELSE drive' = Idle
      /\ irq' = "none"
      /\ UNCHANGED <<sector, busy, lru, disk, want, buf, panicked>>

-----------------------------------------------------------------------------
Bget(p) ==
  \/ NoBuffers(p)
  \/ \E b \in Bufs : BgetHit(p, b) \/ BgetSleep(p, b) \/ BgetRecycle(p, b)

(* A machine that has panicked stands still. *)
Next ==
  /\ ~panicked
  /\ \/ DriveDone \/ ideintr
     \/ \E p \in Procs :
          \/ \E s \in Sectors : bread(p, s)
          \/ Bget(p) \/ BreadReturn(p) \/ brelse(p) \/ iderw(p) \/ IderwWoken(p)
          \/ \E v \in Vals : bwrite(p, v) \/ log_write(p, v)

Spec == Init /\ [][Next]_vars

(* The drive answers, its interrupt is taken, and a process in the kernel runs
   on.  Nothing says that an owner ever releases its buffer. *)
FairSpec ==
  /\ Spec
  /\ WF_vars(~panicked /\ DriveDone) /\ WF_vars(~panicked /\ ideintr)
  /\ \A p \in Procs :
       WF_vars(~panicked /\ (Bget(p) \/ BreadReturn(p) \/ iderw(p) \/ IderwWoken(p)))
-----------------------------------------------------------------------------
Fields ==
  /\ sector \in [Bufs -> Sectors \cup {None}]
  /\ busy \in [Bufs -> BOOLEAN] /\ valid \in [Bufs -> BOOLEAN] /\ dirty \in [Bufs -> BOOLEAN]
  /\ data \in [Bufs -> Vals]
  /\ lru \in Seq(Bufs)
  /\ idequeue \in Seq(Bufs)
  /\ drive \in [op : {"none", "read", "write"}, sector : Sectors \cup {None},
                val : Vals \cup {None}]
  /\ drive.op = "write" => drive.val \in Vals
  /\ irq \in {"none", "done", "failed"}
  /\ disk \in [Sectors -> Vals]
  /\ want \in [Procs -> Sectors \cup {None}]
  /\ buf \in [Procs -> Bufs \cup {None}]
  /\ pc \in [Procs -> Points]
  /\ panicked \in BOOLEAN

(* The types of the fields, and every buffer is in the list. *)
TypeOK == Fields /\ \A b \in Bufs : \E i \in DOMAIN lru : lru[i] = b

(* There is never a second copy of a sector, and a busy buffer has exactly one
   owner, although bget may sleep between the search and the use of what it
   found, and buffers are recycled meanwhile (bio.c:77-88). *)
OneCopyOneOwner ==
  /\ \A b, c \in Bufs : sector[b] = sector[c] /\ sector[b] # None => b = c
  /\ \A p \in Procs : pc[p] \in Owning => busy[buf[p]] /\ sector[buf[p]] = want[p]
  /\ \A p, q \in Procs : pc[p] \in Owning /\ pc[q] \in Owning /\ buf[p] = buf[q] => p = q
  /\ \A b \in Bufs : busy[b] => \E p \in Procs : pc[p] \in Owning /\ buf[p] = b

(* Nobody sleeps on a buffer that nothing will wake: in bget only while another
   process owns it, in iderw only while it is queued; and the drive works on
   the first request as long as there is one (ide.c:98, 115, 146, 151,
   bio.c:77). *)
NobodyForgotten ==
  /\ \A p \in Procs : pc[p] = "asleep" => busy[buf[p]] /\ sector[buf[p]] = want[p]
  /\ \A p \in Procs : pc[p] = "waits" <=>
       pc[p] \in Owning /\ \E i \in DOMAIN idequeue : idequeue[i] = buf[p]
  /\ drive.op # "none" <=> idequeue # <<>>
  /\ idequeue # <<>> => drive.sector = sector[Head(idequeue)]

(* bread returns the contents of the sector (bio.c:95 "Return a B_BUSY buf with
   the contents of the indicated disk sector."), up to what its earlier owners
   have not yet written back. *)
BreadReturnsSector ==
  \A p \in Procs : pc[p] = "holds" /\ ~dirty[buf[p]] => data[buf[p]] = disk[sector[buf[p]]]

(* The cache with its driver is a store with one lock for each sector. *)
Copies(s) == {b \in Bufs : sector[b] = s /\ valid[b]}
View ==
  [s \in Sectors |-> IF Copies(s) = {} THEN disk[s] ELSE data[CHOOSE b \in Copies(s) : TRUE]]
Owners(s) == {p \in Procs : pc[p] \in Owning /\ sector[buf[p]] = s}
Owner ==
  [s \in Sectors |-> IF Owners(s) = {} THEN None ELSE CHOOSE p \in Owners(s) : TRUE]
Store == INSTANCE SectorStore WITH view <- View, durable <- disk, owner <- Owner
ImplementsStore == Store!Spec

(* At each point of bread, bwrite and iderw: what the flags say, that the drive
   works on the first request, and that the buffers which could be recycled
   hold what the disk holds. *)
PointInv ==
  \A p \in Procs :
    /\ pc[p] # "user" => want[p] \in Sectors
    /\ pc[p] \in Owning \cup {"asleep"} => buf[p] \in Bufs
    /\ pc[p] \in {"iderw", "waits"} => ~valid[buf[p]] \/ dirty[buf[p]]
    /\ pc[p] = "woken" => valid[buf[p]] /\ ~dirty[buf[p]]
    /\ pc[p] = "holds" => valid[buf[p]]
QueueInv ==
  /\ \A i, j \in DOMAIN idequeue : idequeue[i] = idequeue[j] => i = j
  /\ \A i \in DOMAIN idequeue : \E p \in Procs : pc[p] = "waits" /\ buf[p] = idequeue[i]
  /\ irq # "none" => idequeue # <<>>
  /\ idequeue # <<>> => (drive.op = "write" <=> dirty[Head(idequeue)])
ListInv ==
  /\ \A b \in Bufs : \E i \in DOMAIN lru : lru[i] = b
  /\ \A b \in Bufs : dirty[b] => valid[b]
  /\ \A b \in Bufs : valid[b] => sector[b] \in Sectors
Coherent ==
  /\ \A b \in Bufs : valid[b] /\ ~dirty[b] => data[b] = disk[sector[b]]
  /\ drive.op = "write" => drive.val = data[Head(idequeue)]
  /\ drive.op = "write" /\ irq # "none" => disk[drive.sector] = drive.val
  /\ irq # "failed"

(* Every request is answered, in whatever order others are queued. *)
RequestsEnd ==
  \A p \in Procs : (pc[p] \in {"iderw", "waits"}) ~> (pc[p] = "holds" \/ panicked)
=============================================================================

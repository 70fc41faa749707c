-------------------------------- MODULE Log --------------------------------
(***************************************************************************)
(* The redo log of log.c: transactions, commit, installation, crashes at   *)
(* any point and recovery, also from a crash during recovery.              *)
(*                                                                         *)
(* The disk consists of the home blocks, the log's data blocks and the     *)
(* log's header block; bwrite of one sector is atomic.  Reads of a block   *)
(* go through the buffer cache: buf holds, for each home block, what bread *)
(* returns.  A buffer that is not B_DIRTY may be evicted by bget and read  *)
(* again from the disk at any moment.                                      *)
(***************************************************************************)
EXTENDS Integers, Sequences, Functions

CONSTANTS
  Callers,      \* processes that make file system calls
  HomeBlocks,     \* home blocks
  Vals,       \* what a block may contain
  LOGSIZE,    \* param.h: 10
  LogBlocks   \* log.size, the log's blocks on the disk, header included

ASSUME LogSizeAssumption == LOGSIZE \in Nat \ {0} /\ LogBlocks \in Nat \ {0}

VARIABLES
  home,     \* disk: the home blocks
  logblk,   \* disk: the data blocks of the log
  head,     \* disk: the sectors named by the header block, n of them
  lh,       \* log.lh, the header in memory
  buf,      \* the home blocks as read through the buffer cache
  dirty,    \* the home blocks whose buffer is B_DIRTY
  busy,     \* log.busy
  phase,    \* of the machine: recovering, up or panicked
  tail,     \* the loop variable of install_trans
  pc        \* where each process is

logDisk == <<home, logblk, head>>
logVars == <<logDisk, lh, buf, dirty, busy, phase, tail, pc>>

LogSlots == 1..LOGSIZE

(* boot: before read_head.  install, clear: in recover_from_log. *)
Phases == {"boot", "install", "clear", "up", "panic"}

(* idle: outside of a transaction.  asleep: in begin_trans's sleep.  retry:
   woken there.  trans: in the system call.  head, install, clear, release:
   in commit_trans. *)
Points == {"idle", "asleep", "retry", "trans", "head", "install", "clear", "release"}
InTrans == {"trans", "head", "install", "clear", "release"}

(* After the first write_head, or with nothing to write. *)
Committed == {"install", "clear", "release"}

(* The place of b in sq, a sequence that names it. *)
Place(sq, b) == CHOOSE i \in DOMAIN sq : sq[i] = b

(* The blocks h once the blocks l of a log have been copied over the sectors
   that sq names. *)
OverlayOf(h, l, sq) ==
  [b \in HomeBlocks |-> IF b \in Range(sq) THEN l[Place(sq, b)] ELSE h[b]]
Overlay(sq) == OverlayOf(home, logblk, sq)

(* mkfs has written an empty log. *)
LogInit ==
  /\ home \in [HomeBlocks -> Vals]
  /\ \E v \in Vals : logblk = [i \in LogSlots |-> v]
  /\ head = <<>>
  /\ lh = <<>>
  /\ buf = home
  /\ dirty = {}
  /\ busy = FALSE
  /\ phase = "boot"
  /\ tail = 1
  /\ pc = [p \in Callers |-> "idle"]

-----------------------------------------------------------------------------
(* begin_trans: one pass of its loop. *)
begin_trans(p) ==
  /\ phase = "up" /\ pc[p] \in {"idle", "retry"}
  /\ \/ /\ busy
        /\ pc' = [pc EXCEPT ![p] = "asleep"]
        /\ UNCHANGED busy
     \/ /\ ~busy
        /\ busy' = TRUE
        /\ pc' = [pc EXCEPT ![p] = "trans"]
  /\ UNCHANGED <<logDisk, lh, buf, dirty, phase, tail>>

(* The slot of the log for block b: its own if it was logged before in this
   transaction, the next free one otherwise. *)
SlotNew(b) == Len(lh) + 1   \* mutant: no absorption
SlotOf(b) ==
  IF b \in Range(lh) THEN Place(lh, b) ELSE Len(lh) + 1

LogIsFull == Len(lh) >= LOGSIZE \/ Len(lh) >= LogBlocks - 1

(* A block is changed in its buffer and passed to log_write, which appends it
   to the log on the disk and pins the buffer. *)
log_writeUnpinned(p, b, v) ==   \* mutant: the buffer is not marked B_DIRTY
  /\ phase = "up" /\ pc[p] = "trans" /\ ~LogIsFull
  /\ buf' = [buf EXCEPT ![b] = v]
  /\ logblk' = [logblk EXCEPT ![SlotOf(b)] = v]
  /\ lh' = IF b \in Range(lh) THEN lh ELSE Append(lh, b)
  /\ UNCHANGED <<home, head, dirty, busy, phase, tail, pc>>
log_write(p, b, v) ==
  /\ phase = "up" /\ pc[p] = "trans" /\ ~LogIsFull
  /\ buf' = [buf EXCEPT ![b] = v]
  /\ logblk' = [logblk EXCEPT ![SlotOf(b)] = v]
  /\ lh' = IF b \in Range(lh) THEN lh ELSE Append(lh, b)
  /\ dirty' = dirty \cup {b}
  /\ UNCHANGED <<home, head, busy, phase, tail, pc>>

(* panic("too big a transaction"), also if the block would be absorbed. *)
TooBig(p) ==
  /\ phase = "up" /\ pc[p] = "trans" /\ LogIsFull
  /\ phase' = "panic"
  /\ UNCHANGED <<logDisk, lh, buf, dirty, busy, tail, pc>>

-----------------------------------------------------------------------------
(* install_trans: one turn of its loop. *)
InstallBlock ==
  LET b == lh[tail]
  IN  /\ tail <= Len(lh)
      /\ home' = [home EXCEPT ![b] = logblk[tail]]
      /\ buf' = [buf EXCEPT ![b] = logblk[tail]]
      /\ dirty' = dirty \ {b}
      /\ tail' = tail + 1
      /\ UNCHANGED <<logblk, head, lh, busy>>

(* commit_trans: nothing to do for an empty transaction. *)
commit_trans(p) ==
  /\ phase = "up" /\ pc[p] = "trans"
  /\ pc' = [pc EXCEPT ![p] = IF Len(lh) > 0 THEN "head" ELSE "release"]
  /\ UNCHANGED <<logDisk, lh, buf, dirty, busy, phase, tail>>

(* The first write_head: the real commit. *)
WriteHead(p) ==
  /\ phase = "up" /\ pc[p] = "head"
  /\ head' = lh
  /\ tail' = 1
  /\ pc' = [pc EXCEPT ![p] = "install"]
  /\ UNCHANGED <<home, logblk, lh, buf, dirty, busy, phase>>

CommitInstall(p) ==
  /\ phase = "up" /\ pc[p] = "install"
  /\ \/ InstallBlock /\ UNCHANGED pc
     \/ /\ tail > Len(lh)
        /\ lh' = <<>>
        /\ pc' = [pc EXCEPT ![p] = "clear"]
        /\ UNCHANGED <<logDisk, buf, dirty, busy, tail>>
  /\ UNCHANGED phase

(* The second write_head. *)
ClearHead(p) ==
  /\ phase = "up" /\ pc[p] = "clear"
  /\ head' = lh
  /\ pc' = [pc EXCEPT ![p] = "release"]
  /\ UNCHANGED <<home, logblk, lh, buf, dirty, busy, phase, tail>>

(* The end of commit_trans: busy is cleared and the sleepers are woken. *)
ReleaseSilent(p) ==   \* mutant: no wakeup
  /\ phase = "up" /\ pc[p] = "release"
  /\ busy' = FALSE
  /\ pc' = [pc EXCEPT ![p] = "idle"]
  /\ UNCHANGED <<logDisk, lh, buf, dirty, phase, tail>>
Release(p) ==
  /\ phase = "up" /\ pc[p] = "release"
  /\ busy' = FALSE
  /\ pc' = [q \in Callers |-> IF q = p THEN "idle"
                             ELSE IF pc[q] = "asleep" THEN "retry" ELSE pc[q]]
  /\ UNCHANGED <<logDisk, lh, buf, dirty, phase, tail>>

-----------------------------------------------------------------------------
(* bget recycles the buffer of a block, which is read again later. *)
Evict(b) ==
  /\ phase = "up" /\ b \notin dirty
  /\ buf' = [buf EXCEPT ![b] = home[b]]
  /\ UNCHANGED <<logDisk, lh, dirty, busy, phase, tail, pc>>

(* Power fails, or the machine is reset: the memory is gone. *)
Crash ==
  /\ lh' = <<>>
  /\ buf' = home
  /\ dirty' = {}
  /\ busy' = FALSE
  /\ phase' = "boot"
  /\ tail' = 1
  /\ pc' = [p \in Callers |-> "idle"]
  /\ UNCHANGED logDisk

(* recover_from_log, called before any process makes a system call. *)
ReadHead ==
  /\ phase = "boot"
  /\ lh' = head
  /\ tail' = 1
  /\ phase' = "install"
  /\ UNCHANGED <<logDisk, buf, dirty, busy, pc>>

RecoverInstall ==
  /\ phase = "install"
  /\ \/ InstallBlock /\ UNCHANGED phase
     \/ /\ tail > Len(lh)
        /\ lh' = <<>>
        /\ phase' = "clear"
        /\ UNCHANGED <<logDisk, buf, dirty, busy, tail>>
  /\ UNCHANGED pc

RecoverClear ==
  /\ phase = "clear"
  /\ head' = lh
  /\ phase' = "up"
  /\ UNCHANGED <<home, logblk, lh, buf, dirty, busy, tail, pc>>

-----------------------------------------------------------------------------
CommitStep(p) == WriteHead(p) \/ CommitInstall(p) \/ ClearHead(p) \/ Release(p)
Recover == ReadHead \/ RecoverInstall \/ RecoverClear

LogNext ==
  \/ Crash \/ Recover
  \/ \E b \in HomeBlocks : Evict(b)
  \/ \E p \in Callers :
       \/ begin_trans(p) \/ commit_trans(p) \/ CommitStep(p) \/ TooBig(p)
       \/ \E b \in HomeBlocks, v \in Vals : log_write(p, b, v)

LogSpec == LogInit /\ [][LogNext]_logVars

(* A machine that is switched on runs, a process woken in begin_trans tries
   again, and a system call ends its transaction. *)
LogFairSpec ==
  /\ LogSpec
  /\ WF_logVars(Recover)
  /\ \A p \in Callers : /\ WF_logVars(commit_trans(p) \/ CommitStep(p))
                      /\ WF_logVars(pc[p] = "retry" /\ begin_trans(p))
-----------------------------------------------------------------------------
(* The header's array and the log's blocks on the disk hold that many. *)
Fits(sq) == Len(sq) <= LOGSIZE /\ Len(sq) <= LogBlocks - 1

LogTypeOK ==
  /\ home \in [HomeBlocks -> Vals]
  /\ logblk \in [LogSlots -> Vals]
  /\ head \in Seq(HomeBlocks) /\ Fits(head)
  /\ lh \in Seq(HomeBlocks) /\ Fits(lh)
  /\ buf \in [HomeBlocks -> Vals]
  /\ dirty \subseteq HomeBlocks
  /\ busy \in BOOLEAN
  /\ phase \in Phases
  /\ tail \in 1..(LOGSIZE + 1)
  /\ pc \in [Callers -> Points]

(* Nobody sleeps in begin_trans while the log is free, and the log is busy
   exactly while one process is in a transaction (log.c:124-149): no wakeup is
   lost between the test of busy and the sleep, none when several processes
   are woken at once and all but one go back to sleep. *)
NoLostTurn ==
  /\ (\E p \in Callers : pc[p] = "asleep") => busy
  /\ \A p \in Callers : pc[p] \in InTrans => busy /\ \A q \in Callers : pc[q] \in InTrans => p = q

(* Evicting a buffer that is not B_DIRTY never loses data: it holds what the
   disk holds (log.c:180 "prevent eviction"). *)
CleanBuffers ==
  phase = "up" => \A b \in HomeBlocks : b \notin dirty => buf[b] = home[b]

(* After recovery nothing of a transaction is left: when no transaction is
   active, the header on the disk is empty and every block is at home. *)
Quiescent ==
  phase = "up" /\ ~busy => head = <<>> /\ lh = <<>> /\ buf = home

(* The blocks already copied home by install_trans. *)
Installed == \A i \in DOMAIN lh : i < tail => home[lh[i]] = logblk[i]
Distinct(sq) == \A i, j \in DOMAIN sq : sq[i] = sq[j] => i = j

(* The state of the log at each point of a transaction and of recovery.  A
   running system reads the home blocks overlaid by what it has logged. *)
LogInv ==
  /\ Distinct(head) /\ Distinct(lh)
  /\ phase \notin {"up", "panic"} =>
       buf = home /\ dirty = {} /\ ~busy /\ \A p \in Callers : pc[p] = "idle"
  /\ phase = "install" => lh = head /\ Installed
  /\ phase = "clear" => lh = <<>> /\ Overlay(head) = home
  /\ phase = "up" =>
       /\ buf = Overlay(lh)
       /\ (\A p \in Callers : pc[p] \notin InTrans) => head = <<>> /\ lh = <<>> /\ dirty = {} /\ ~busy
       /\ \A p \in Callers :
            /\ pc[p] \in {"trans", "head"} => head = <<>> /\ dirty = Range(lh)
            /\ pc[p] = "install" =>
                 head = lh /\ Installed /\ dirty = {lh[i] : i \in {j \in DOMAIN lh : j >= tail}}
            /\ pc[p] = "clear" => lh = <<>> /\ dirty = {} /\ Overlay(head) = home
            /\ pc[p] = "release" => head = <<>> /\ lh = <<>> /\ dirty = {}

(* The log makes transactions atomic across crashes, also across a crash while
   it installs or recovers: it implements AtomicDisk.  What a reboot would
   find is the home blocks overlaid by what a committed header names
   (log.c:98-122): it changes once in a transaction, after its last log_write,
   and by all that was written (log.c:139). *)
Atomic == INSTANCE AtomicDisk WITH
  Procs <- Callers,
  Blocks <- HomeBlocks,
  Vals <- Vals,
  durable <- Overlay(head),
  view <- IF phase \in {"up", "panic"} THEN buf ELSE Overlay(head),
  inside <- {p \in Callers : pc[p] \in InTrans},
  committed <- {p \in Callers : pc[p] \in Committed}
ImplementsAtomicDisk == Atomic!Spec

(* If the machine stops crashing it comes up, unless a transaction is too big,
   and whoever sleeps in begin_trans is woken again. *)
Progress ==
  (<>[][~Crash]_logVars) =>
    /\ (phase = "boot") ~> (phase = "up")
    /\ \A p \in Callers : (pc[p] = "asleep") ~> (pc[p] # "asleep" \/ phase = "panic")
=============================================================================

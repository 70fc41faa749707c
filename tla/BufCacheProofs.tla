--------------------------- MODULE BufCacheProofs ---------------------------
(***************************************************************************)
(* The buffer cache and the IDE driver, for any number of processes,       *)
(* buffers and sectors, with a drive that may fail.                        *)
(***************************************************************************)
EXTENDS BufCache, SequenceTheorems, FiniteSetTheorems, TLAPS

CacheInv ==
  Fields /\ OneCopyOneOwner /\ NobodyForgotten /\ PointInv /\ QueueInv /\ ListInv

(* Every step of the system, by name. *)
LEMMA Steps ==
  ASSUME Next
  PROVE  \/ DriveDone \/ ideintr
         \/ \E p \in Procs :
              \/ \E s \in Sectors : bread(p, s)
              \/ \E b \in Bufs : BgetHit(p, b) \/ BgetSleep(p, b) \/ BgetRecycle(p, b)
              \/ NoBuffers(p) \/ BreadReturn(p) \/ brelse(p) \/ iderw(p) \/ IderwWoken(p)
              \/ \E v \in Vals : bwrite(p, v) \/ log_write(p, v)
BY DEF Next, Bget

(* The first request is for a sector of the disk. *)
LEMMA HeadFacts ==
  ASSUME CacheInv, idequeue # <<>>
  PROVE  /\ Head(idequeue) \in Bufs /\ Head(idequeue) = idequeue[1] /\ 1 \in DOMAIN idequeue
         /\ drive.sector \in Sectors /\ drive.sector = sector[Head(idequeue)]
<1>1. Head(idequeue) \in Bufs /\ Head(idequeue) = idequeue[1] /\ 1 \in DOMAIN idequeue
  BY DEF CacheInv, Fields
<1>2. PICK p \in Procs : pc[p] = "waits" /\ buf[p] = idequeue[1]
  BY <1>1 DEF CacheInv, QueueInv
<1>3. sector[buf[p]] \in Sectors
  BY <1>2 DEF CacheInv, OneCopyOneOwner, PointInv, Owning
<1> QED BY <1>1, <1>2, <1>3 DEF CacheInv, NobodyForgotten

LEMMA TypeStep == CacheInv /\ [Next]_vars => Fields'
<1> SUFFICES ASSUME CacheInv, [Next]_vars PROVE Fields'
  OBVIOUS
<1>0. Fields
  BY DEF CacheInv
<1> USE DEF Goto, Points
<1>1. CASE UNCHANGED vars
  BY <1>0, <1>1 DEF vars, flags, device, Fields
<1>2. ASSUME NEW p \in Procs, NEW s \in Sectors, bread(p, s) PROVE Fields'
  BY <1>0, <1>2 DEF bread, Fields, flags, device
<1>3. ASSUME NEW p \in Procs, NEW b \in Bufs, BgetHit(p, b) \/ BgetSleep(p, b) PROVE Fields'
  <2>1. CASE BgetHit(p, b)
    BY <1>0, <2>1 DEF BgetHit, Fields, flags, device
  <2>2. CASE BgetSleep(p, b)
    BY <1>0, <2>2 DEF BgetSleep, Fields, flags, device
  <2> QED BY <1>3, <2>1, <2>2
<1>4. ASSUME NEW p \in Procs, NEW b \in Bufs, BgetRecycle(p, b) PROVE Fields'
  BY <1>0, <1>4 DEF BgetRecycle, Fields, device
<1>5. ASSUME NEW p \in Procs, NoBuffers(p) \/ BreadReturn(p) \/ IderwWoken(p) PROVE Fields'
  BY <1>0, <1>5 DEF NoBuffers, BreadReturn, IderwWoken, Fields, flags, device
<1>6. ASSUME NEW p \in Procs, NEW v \in Vals, bwrite(p, v) \/ log_write(p, v) PROVE Fields'
  <2>1. data' \in [Bufs -> Vals]
    BY <1>0, <1>6 DEF bwrite, log_write, Fields
  <2>3. dirty' \in [Bufs -> BOOLEAN]
    BY <1>0, <1>6 DEF bwrite, log_write, Fields
  <2>2. pc' \in [Procs -> Points]
    BY <1>0, <1>6 DEF bwrite, log_write, Fields
  <2> QED BY <1>0, <1>6, <2>1, <2>2, <2>3 DEF bwrite, log_write, Fields, device
<1>7. ASSUME NEW p \in Procs, brelse(p) PROVE Fields'
  <2>1. buf[p] \in Bufs
    BY <1>7 DEF brelse, CacheInv, PointInv, Owning
  <2>2. lru' \in Seq(Bufs)
    <3>1. PICK i \in DOMAIN lru : lru' = [j \in DOMAIN lru |-> IF j = 1 THEN buf[p] ELSE
                                            IF j <= i THEN lru[j - 1] ELSE lru[j]]
      BY <1>7 DEF brelse, MoveToFront
    <3>2. \A j \in DOMAIN lru : lru'[j] \in Bufs
      BY <1>0, <2>1, <3>1 DEF Fields
    <3>3. Len(lru) \in Nat /\ DOMAIN lru = 1..Len(lru)
      BY <1>0 DEF Fields
    <3>4. lru' \in [1..Len(lru) -> Bufs]
      BY <3>1, <3>2, <3>3
    <3> QED BY <3>3, <3>4, SeqDef
  <2>3. pc' \in [Procs -> Points]
    BY <1>0, <1>7 DEF brelse, Wake, Fields
  <2> QED BY <1>0, <1>7, <2>2, <2>3 DEF brelse, Fields, device
<1>8. ASSUME NEW p \in Procs, iderw(p) PROVE Fields'
  <2>1. buf[p] \in Bufs
    BY <1>8 DEF iderw, CacheInv, PointInv, Owning
  <2>2. /\ drive' \in [op : {"none", "read", "write"}, sector : Sectors \cup {None},
                       val : Vals \cup {None}]
        /\ drive'.op = "write" => drive'.val \in Vals
    BY <1>0, <1>8, <2>1 DEF iderw, idestart, Fields
  <2> QED BY <1>0, <1>8, <2>1, <2>2 DEF iderw, Fields, flags
<1>9. CASE DriveDone
  <2>1. idequeue # <<>>
    BY <1>9 DEF DriveDone, CacheInv, NobodyForgotten
  <2>2. disk' \in [Sectors -> Vals]
    BY <1>0, <1>9, <2>1, HeadFacts DEF DriveDone, Fields
  <2> QED BY <1>0, <1>9, <2>2, BufAssumption DEF DriveDone, Fields, flags
<1>10. CASE ideintr
  <2>1. /\ Head(idequeue) \in Bufs /\ disk[drive.sector] \in Vals
        /\ Tail(idequeue) \in Seq(Bufs) /\ (Tail(idequeue) # <<>> => Head(Tail(idequeue)) \in Bufs)
    BY <1>0, <1>10, HeadFacts DEF ideintr, Fields
  <2>2. /\ drive' \in [op : {"none", "read", "write"}, sector : Sectors \cup {None},
                       val : Vals \cup {None}]
        /\ drive'.op = "write" => drive'.val \in Vals
    BY <1>0, <1>10, <2>1 DEF ideintr, idestart, Fields, Idle
  <2>3. pc' \in [Procs -> Points]
    BY <1>0, <1>10 DEF ideintr, Wake, Fields
  <2>4. data' \in [Bufs -> Vals] /\ valid' \in [Bufs -> BOOLEAN] /\ dirty' \in [Bufs -> BOOLEAN]
    BY <1>0, <1>10, <2>1 DEF ideintr, Fields
  <2> QED BY <1>0, <1>10, <2>1, <2>2, <2>3, <2>4 DEF ideintr, Fields
<1> QED BY <1>1, <1>2, <1>3, <1>4, <1>5, <1>6, <1>7, <1>8, <1>9, <1>10, Steps

-----------------------------------------------------------------------------
(* A buffer that is not busy belongs to nobody and is not queued. *)
LEMMA FreeFacts ==
  ASSUME CacheInv, NEW b \in Bufs, ~busy[b]
  PROVE  /\ \A q \in Procs : pc[q] \in Owning \cup {"asleep"} => buf[q] # b
         /\ \A i \in DOMAIN idequeue : idequeue[i] # b
BY DEF CacheInv, OneCopyOneOwner, NobodyForgotten, QueueInv, Owning

(* What bget finds, and what it recycles. *)
LEMMA FoundFacts ==
  ASSUME CacheInv, NEW p \in Procs, NEW b \in Bufs
  PROVE  /\ First(b, Cached(want[p])) => sector[b] = want[p]
         /\ Last(b, Spare) => ~busy[b] /\ ~dirty[b]
         /\ Cached(want[p]) = {} => \A c \in Bufs : sector[c] # want[p]
BY DEF First, Last, Cached, Spare, CacheInv, ListInv

LEMMA OwnStep == CacheInv /\ [Next]_vars => OneCopyOneOwner'
<1> SUFFICES ASSUME CacheInv, [Next]_vars PROVE OneCopyOneOwner'
  OBVIOUS
<1>0. Fields /\ OneCopyOneOwner /\ PointInv
  BY DEF CacheInv
<1> USE DEF Goto, Owning
<1>1. CASE UNCHANGED <<sector, busy, pc, buf, want>>
  BY <1>0, <1>1 DEF OneCopyOneOwner
<1>2. ASSUME NEW p \in Procs, NEW s \in Sectors, bread(p, s) PROVE OneCopyOneOwner'
  <2>1. /\ UNCHANGED <<sector, busy, buf>> /\ pc[p] = "user" /\ pc'[p] = "loop"
        /\ \A q \in Procs : q # p => pc'[q] = pc[q] /\ want'[q] = want[q]
    BY <1>0, <1>2 DEF bread, Fields, flags
  <2> QED BY <1>0, <2>1 DEF OneCopyOneOwner
<1>3. ASSUME NEW p \in Procs, NEW b \in Bufs, BgetHit(p, b) PROVE OneCopyOneOwner'
  <2>1. sector[b] = want[p] /\ \A q \in Procs : pc[q] \in Owning => buf[q] # b
    BY <1>3, FoundFacts, FreeFacts DEF BgetHit
  <2>2. /\ UNCHANGED <<sector, want>> /\ busy'[b] /\ buf'[p] = b /\ pc'[p] = "got"
        /\ \A c \in Bufs : c # b => busy'[c] = busy[c]
        /\ \A q \in Procs : q # p => pc'[q] = pc[q] /\ buf'[q] = buf[q]
    BY <1>0, <1>3 DEF BgetHit, Fields
  <2>3. pc[p] = "loop"
    BY <1>3 DEF BgetHit
  <2> QED BY <1>0, <2>1, <2>2, <2>3 DEF OneCopyOneOwner, PointInv
<1>4. ASSUME NEW p \in Procs, NEW b \in Bufs, BgetSleep(p, b) PROVE OneCopyOneOwner'
  <2>1. /\ UNCHANGED <<sector, busy, want>> /\ pc[p] = "loop" /\ pc'[p] = "asleep"
        /\ \A q \in Procs : q # p => pc'[q] = pc[q] /\ buf'[q] = buf[q]
    BY <1>0, <1>4 DEF BgetSleep, Fields, flags
  <2> QED BY <1>0, <2>1 DEF OneCopyOneOwner
<1>5. ASSUME NEW p \in Procs, NEW b \in Bufs, BgetRecycle(p, b) PROVE OneCopyOneOwner'
  <2>1. ~busy[b] /\ \A c \in Bufs : sector[c] # want[p]
    BY <1>5, FoundFacts DEF BgetRecycle
  <2>2. \A q \in Procs : pc[q] \in Owning => buf[q] # b
    BY <2>1, FreeFacts
  <2>3. /\ want' = want /\ busy'[b] /\ buf'[p] = b /\ pc'[p] = "got" /\ sector'[b] = want[p]
        /\ \A c \in Bufs : c # b => busy'[c] = busy[c] /\ sector'[c] = sector[c]
        /\ \A q \in Procs : q # p => pc'[q] = pc[q] /\ buf'[q] = buf[q]
    BY <1>0, <1>5 DEF BgetRecycle, Fields
  <2>4. pc[p] = "loop"
    BY <1>5 DEF BgetRecycle
  <2> QED BY <1>0, <2>1, <2>2, <2>3, <2>4 DEF OneCopyOneOwner, PointInv
<1>6. ASSUME NEW p \in Procs, BreadReturn(p) \/ iderw(p) \/ IderwWoken(p) PROVE OneCopyOneOwner'
  <2>1. /\ UNCHANGED <<sector, busy, buf, want>>
        /\ \A q \in Procs : pc'[q] \in Owning <=> pc[q] \in Owning
    BY <1>0, <1>6 DEF BreadReturn, iderw, IderwWoken, Fields, flags
  <2> QED BY <1>0, <2>1 DEF OneCopyOneOwner
<1>7. ASSUME NEW p \in Procs, NEW v \in Vals, bwrite(p, v) \/ log_write(p, v)
      PROVE  OneCopyOneOwner'
  <2>1. /\ UNCHANGED <<sector, busy, buf, want>>
        /\ \A q \in Procs : pc'[q] \in Owning <=> pc[q] \in Owning
    BY <1>0, <1>7 DEF bwrite, log_write, Fields
  <2> QED BY <1>0, <2>1 DEF OneCopyOneOwner
<1>8. ASSUME NEW p \in Procs, brelse(p) PROVE OneCopyOneOwner'
  <2>1. /\ sector' = sector /\ pc'[p] = "user" /\ ~busy'[buf[p]] /\ pc[p] = "holds"
        /\ \A c \in Bufs : c # buf[p] => busy'[c] = busy[c]
        /\ \A q \in Procs : q # p => buf'[q] = buf[q] /\ want'[q] = want[q]
        /\ \A q \in Procs : q # p => (pc'[q] \in Owning <=> pc[q] \in Owning)
    BY <1>0, <1>8 DEF brelse, Wake, Fields, PointInv
  <2> QED BY <1>0, <2>1 DEF OneCopyOneOwner, PointInv
<1>9. CASE ideintr
  <2>1. /\ UNCHANGED <<sector, busy, buf, want>>
        /\ \A q \in Procs : pc'[q] \in Owning <=> pc[q] \in Owning
    BY <1>0, <1>9 DEF ideintr, Wake, Fields
  <2> QED BY <1>0, <2>1 DEF OneCopyOneOwner
<1>10. (DriveDone \/ \E p \in Procs : NoBuffers(p)) => UNCHANGED <<sector, busy, pc, buf, want>>
  BY DEF DriveDone, NoBuffers, flags
<1> QED
  BY <1>1, <1>2, <1>3, <1>4, <1>5, <1>6, <1>7, <1>8, <1>9, <1>10, Steps DEF vars, flags

LEMMA PointStep == CacheInv /\ [Next]_vars => PointInv'
<1> SUFFICES ASSUME CacheInv, [Next]_vars PROVE PointInv'
  OBVIOUS
<1>0. Fields /\ OneCopyOneOwner /\ PointInv
  BY DEF CacheInv
<1> USE DEF Goto, Owning
<1>1. CASE UNCHANGED <<valid, dirty, pc, buf, want>>
  BY <1>0, <1>1 DEF PointInv
<1>2. ASSUME NEW p \in Procs, NEW s \in Sectors, bread(p, s) PROVE PointInv'
  <2>1. /\ UNCHANGED <<valid, dirty, buf>> /\ pc'[p] = "loop" /\ want'[p] = s
        /\ \A q \in Procs : q # p => pc'[q] = pc[q] /\ want'[q] = want[q]
    BY <1>0, <1>2 DEF bread, Fields, flags
  <2> QED BY <1>0, <2>1 DEF PointInv
<1>3. ASSUME NEW p \in Procs, NEW b \in Bufs, BgetHit(p, b) \/ BgetSleep(p, b) PROVE PointInv'
  <2>1. /\ UNCHANGED <<valid, dirty, want>> /\ pc[p] = "loop" /\ pc'[p] \in {"got", "asleep"}
        /\ buf'[p] = b
        /\ \A q \in Procs : q # p => pc'[q] = pc[q] /\ buf'[q] = buf[q]
    BY <1>0, <1>3 DEF BgetHit, BgetSleep, Fields, flags
  <2> QED BY <1>0, <2>1 DEF PointInv
<1>4. ASSUME NEW p \in Procs, NEW b \in Bufs, BgetRecycle(p, b) PROVE PointInv'
  <2>1. ~busy[b]
    BY <1>4, FoundFacts DEF BgetRecycle
  <2>2. \A q \in Procs : pc[q] \in Owning \cup {"asleep"} => buf[q] # b
    BY <2>1, FreeFacts
  <2>3. /\ want' = want /\ pc[p] = "loop" /\ pc'[p] = "got" /\ buf'[p] = b
        /\ \A c \in Bufs : c # b => valid'[c] = valid[c] /\ dirty'[c] = dirty[c]
        /\ \A q \in Procs : q # p => pc'[q] = pc[q] /\ buf'[q] = buf[q]
    BY <1>0, <1>4 DEF BgetRecycle, Fields
  <2> QED BY <1>0, <2>2, <2>3 DEF PointInv
<1>5. ASSUME NEW p \in Procs, BreadReturn(p) \/ iderw(p) \/ IderwWoken(p) PROVE PointInv'
  <2>1. /\ UNCHANGED <<valid, dirty, buf, want>>
        /\ \A q \in Procs : q # p => pc'[q] = pc[q]
        /\ \/ pc[p] = "got" /\ valid[buf[p]] /\ pc'[p] = "holds"
           \/ pc[p] = "got" /\ ~valid[buf[p]] /\ pc'[p] = "iderw"
           \/ pc[p] = "iderw" /\ pc'[p] = "waits"
           \/ pc[p] = "woken" /\ valid[buf[p]] /\ pc'[p] = "holds"
           \/ pc[p] = "woken" /\ ~(valid[buf[p]] /\ ~dirty[buf[p]]) /\ pc'[p] = "waits"
    BY <1>0, <1>5 DEF BreadReturn, iderw, IderwWoken, Fields, flags
  <2> QED BY <1>0, <2>1 DEF PointInv
<1>6. ASSUME NEW p \in Procs, NEW v \in Vals, bwrite(p, v) \/ log_write(p, v) PROVE PointInv'
  <2>1. /\ UNCHANGED <<valid, buf, want>> /\ pc[p] = "holds" /\ pc'[p] \in {"iderw", "holds"}
        /\ \A q \in Procs : q # p => pc'[q] = pc[q]
    BY <1>0, <1>6 DEF bwrite, log_write, Fields
  <2>2. buf[p] \in Bufs /\ dirty' = [dirty EXCEPT ![buf[p]] = TRUE]
    BY <1>0, <1>6 DEF bwrite, log_write, PointInv
  <2>3. dirty'[buf[p]] /\ \A c \in Bufs : c # buf[p] => dirty'[c] = dirty[c]
    BY <1>0, <2>2 DEF Fields
  <2>4. \A q \in Procs : q # p /\ pc[q] \in Owning => buf[q] # buf[p]
    BY <1>0, <2>1 DEF OneCopyOneOwner
  <2> QED BY <1>0, <2>1, <2>2, <2>3, <2>4 DEF PointInv
<1>7. ASSUME NEW p \in Procs, brelse(p) PROVE PointInv'
  <2>1. /\ UNCHANGED <<valid, dirty>> /\ pc'[p] = "user"
        /\ \A q \in Procs : q # p => buf'[q] = buf[q] /\ want'[q] = want[q]
    BY <1>0, <1>7 DEF brelse, Wake, Fields
  <2>2. \A q \in Procs : q # p => pc'[q] = pc[q] \/ (pc[q] = "asleep" /\ pc'[q] = "loop")
    <3> SUFFICES ASSUME NEW q \in Procs, q # p
                 PROVE  pc'[q] = pc[q] \/ (pc[q] = "asleep" /\ pc'[q] = "loop")
      OBVIOUS
    <3>1. pc[q] = "waits" => buf[q] # buf[p]
      BY <1>0, <1>7 DEF brelse, OneCopyOneOwner
    <3> QED BY <1>0, <1>7, <3>1 DEF brelse, Wake, Fields
  <2> QED BY <1>0, <2>1, <2>2 DEF PointInv
<1>8. CASE ideintr
  <2> DEFINE b == Head(idequeue)
  <2>1. b \in Bufs
    BY <1>8, HeadFacts DEF ideintr
  <2>2. /\ UNCHANGED <<buf, want>> /\ valid'[b] /\ ~dirty'[b]
        /\ \A c \in Bufs : c # b => valid'[c] = valid[c] /\ dirty'[c] = dirty[c]
    BY <1>0, <1>8, <2>1 DEF ideintr, Fields
  <2>3. \A q \in Procs : pc'[q] = IF buf[q] = b /\ pc[q] = "asleep" THEN "loop"
                                  ELSE IF buf[q] = b /\ pc[q] = "waits" THEN "woken" ELSE pc[q]
    BY <1>0, <1>8 DEF ideintr, Wake, Fields
  <2>4. \A q \in Procs : pc[q] \in Owning /\ buf[q] = b => pc[q] = "waits"
    BY <1>8, HeadFacts DEF ideintr, CacheInv, NobodyForgotten
  <2> HIDE DEF b
  <2> QED BY <1>0, <2>1, <2>2, <2>3, <2>4 DEF PointInv
<1>9. (DriveDone \/ \E p \in Procs : NoBuffers(p)) => UNCHANGED <<valid, dirty, pc, buf, want>>
  BY DEF DriveDone, NoBuffers, flags
<1> QED BY <1>1, <1>2, <1>3, <1>4, <1>5, <1>6, <1>7, <1>8, <1>9, Steps DEF vars, flags

LEMMA ListStep == CacheInv /\ [Next]_vars => ListInv'
<1> SUFFICES ASSUME CacheInv, [Next]_vars PROVE ListInv'
  OBVIOUS
<1>0. Fields /\ PointInv /\ ListInv
  BY DEF CacheInv
<1> USE DEF Owning
<1>1. CASE UNCHANGED <<lru, valid, dirty, sector>>
  BY <1>0, <1>1 DEF ListInv
<1>2. ASSUME NEW p \in Procs, NEW b \in Bufs, BgetRecycle(p, b) PROVE ListInv'
  <2>1. /\ lru' = lru /\ ~valid'[b] /\ ~dirty'[b]
        /\ \A c \in Bufs : c # b => valid'[c] = valid[c] /\ dirty'[c] = dirty[c] /\ sector'[c] = sector[c]
    BY <1>0, <1>2 DEF BgetRecycle, Fields
  <2> QED BY <1>0, <2>1 DEF ListInv
<1>3. ASSUME NEW p \in Procs, NEW v \in Vals, bwrite(p, v) \/ log_write(p, v) PROVE ListInv'
  <2>1. /\ UNCHANGED <<lru, valid, sector>> /\ pc[p] = "holds"
        /\ dirty' = [dirty EXCEPT ![buf[p]] = TRUE]
    BY <1>3 DEF bwrite, log_write
  <2>2. valid[buf[p]] /\ \A c \in Bufs : c # buf[p] => dirty'[c] = dirty[c]
    BY <1>0, <2>1 DEF PointInv, Fields
  <2> QED BY <1>0, <2>1, <2>2 DEF ListInv
<1>4. ASSUME NEW p \in Procs, brelse(p) PROVE ListInv'
  <2>1. PICK i \in DOMAIN lru :
          lru[i] = buf[p] /\ lru' = [j \in DOMAIN lru |-> IF j = 1 THEN buf[p] ELSE
                                                     IF j <= i THEN lru[j - 1] ELSE lru[j]]
    BY <1>4 DEF brelse, MoveToFront
  <2>2. DOMAIN lru = 1..Len(lru) /\ Len(lru) \in Nat
    BY <1>0 DEF Fields
  <2>3. ASSUME NEW b \in Bufs PROVE \E j \in DOMAIN lru' : lru'[j] = b
    <3>1. PICK j \in DOMAIN lru : lru[j] = b
      BY <1>0 DEF ListInv
    <3>2. CASE j < i
      <4>1. j + 1 \in DOMAIN lru' /\ lru'[j + 1] = lru[j]
        BY <2>1, <2>2, <3>2
      <4> QED BY <3>1, <4>1
    <3>3. CASE j = i
      <4>1. 1 \in DOMAIN lru' /\ lru'[1] = lru[j]
        BY <2>1, <2>2, <3>3
      <4> QED BY <3>1, <4>1
    <3>4. CASE j > i
      <4>1. j \in DOMAIN lru' /\ lru'[j] = lru[j]
        BY <2>1, <2>2, <3>4
      <4> QED BY <3>1, <4>1
    <3> QED BY <2>2, <3>2, <3>3, <3>4
  <2>4. UNCHANGED <<valid, dirty, sector>>
    BY <1>4 DEF brelse
  <2> QED BY <1>0, <2>3, <2>4 DEF ListInv
<1>5. CASE ideintr
  <2> DEFINE b == Head(idequeue)
  <2>1. b \in Bufs /\ sector[b] \in Sectors
    BY <1>5, HeadFacts DEF ideintr
  <2>2. /\ UNCHANGED <<lru, sector>> /\ valid'[b] /\ ~dirty'[b]
        /\ \A c \in Bufs : c # b => valid'[c] = valid[c] /\ dirty'[c] = dirty[c]
    BY <1>0, <1>5, <2>1 DEF ideintr, Fields
  <2> HIDE DEF b
  <2> QED BY <1>0, <2>1, <2>2 DEF ListInv
<1>6. ASSUME NEW p \in Procs,
             \/ \E s \in Sectors : bread(p, s)
             \/ \E b \in Bufs : BgetHit(p, b) \/ BgetSleep(p, b)
             \/ NoBuffers(p) \/ BreadReturn(p) \/ iderw(p) \/ IderwWoken(p) \/ DriveDone
      PROVE  UNCHANGED <<lru, valid, dirty, sector>>
  BY <1>6 DEF bread, BgetHit, BgetSleep, NoBuffers, BreadReturn, iderw, IderwWoken, DriveDone, flags
<1>7. DriveDone => UNCHANGED <<lru, valid, dirty, sector>>
  BY DEF DriveDone, flags
<1> QED BY <1>1, <1>2, <1>3, <1>4, <1>5, <1>6, <1>7, Steps DEF vars, flags

-----------------------------------------------------------------------------
AsleepInv == \A p \in Procs : pc[p] = "asleep" => busy[buf[p]] /\ sector[buf[p]] = want[p]

LEMMA AsleepStep == CacheInv /\ [Next]_vars => AsleepInv'
<1> SUFFICES ASSUME CacheInv, [Next]_vars PROVE AsleepInv'
  OBVIOUS
<1>0. Fields /\ OneCopyOneOwner /\ PointInv /\ AsleepInv
  BY DEF CacheInv, NobodyForgotten, AsleepInv
<1> USE DEF Goto, Owning
<1>1. CASE /\ UNCHANGED <<busy, sector, buf>>
           /\ \A q \in Procs : pc'[q] = "asleep" => pc[q] = "asleep" /\ want'[q] = want[q]
  BY <1>0, <1>1 DEF AsleepInv
<1>2. ASSUME NEW p \in Procs, NEW b \in Bufs, BgetHit(p, b) \/ BgetSleep(p, b) PROVE AsleepInv'
  <2>1. /\ UNCHANGED <<sector, want>> /\ buf'[p] = b
        /\ pc'[p] = "asleep" => busy[b]
        /\ \A c \in Bufs : busy[c] => busy'[c]
        /\ \A q \in Procs : q # p => pc'[q] = pc[q] /\ buf'[q] = buf[q]
    BY <1>0, <1>2 DEF BgetHit, BgetSleep, Fields, flags
  <2>2. sector[b] = want[p]
    BY <1>2, FoundFacts DEF BgetHit, BgetSleep
  <2> QED BY <1>0, <2>1, <2>2 DEF AsleepInv, PointInv
<1>3. ASSUME NEW p \in Procs, NEW b \in Bufs, BgetRecycle(p, b) PROVE AsleepInv'
  <2>1. ~busy[b]
    BY <1>3, FoundFacts DEF BgetRecycle
  <2>2. /\ want' = want /\ pc'[p] = "got"
        /\ \A c \in Bufs : c # b => busy'[c] = busy[c] /\ sector'[c] = sector[c]
        /\ \A q \in Procs : q # p => pc'[q] = pc[q] /\ buf'[q] = buf[q]
    BY <1>0, <1>3 DEF BgetRecycle, Fields
  <2> QED BY <1>0, <2>1, <2>2 DEF AsleepInv, PointInv
<1>4. ASSUME NEW p \in Procs, brelse(p) PROVE AsleepInv'
  <2>1. /\ sector' = sector /\ pc'[p] = "user"
        /\ \A c \in Bufs : c # buf[p] => busy'[c] = busy[c]
        /\ \A q \in Procs : q # p => buf'[q] = buf[q] /\ want'[q] = want[q]
        /\ \A q \in Procs : pc'[q] = "asleep" => pc[q] = "asleep" /\ buf[q] # buf[p]
    BY <1>0, <1>4 DEF brelse, Wake, Fields
  <2> QED BY <1>0, <2>1 DEF AsleepInv, PointInv
<1>5. ASSUME NEW p \in Procs,
             \/ \E s \in Sectors : bread(p, s)
             \/ NoBuffers(p) \/ BreadReturn(p) \/ iderw(p) \/ IderwWoken(p)
             \/ \E v \in Vals : bwrite(p, v) \/ log_write(p, v)
      PROVE  /\ UNCHANGED <<busy, sector, buf>>
             /\ \A q \in Procs : pc'[q] = "asleep" => pc[q] = "asleep" /\ want'[q] = want[q]
  BY <1>0, <1>5 DEF bread, NoBuffers, BreadReturn, iderw, IderwWoken, bwrite, log_write, flags, Fields
<1>6. CASE DriveDone \/ ideintr
  <2>1. UNCHANGED <<busy, sector, buf, want>>
    BY <1>6 DEF DriveDone, ideintr, flags
  <2>2. \A q \in Procs : pc'[q] = "asleep" => pc[q] = "asleep"
    BY <1>0, <1>6 DEF DriveDone, ideintr, Wake, Fields
  <2> QED BY <1>1, <2>1, <2>2
<1> QED BY <1>1, <1>2, <1>3, <1>4, <1>5, <1>6, Steps DEF vars, flags

-----------------------------------------------------------------------------
(* The queue of requests with its waiters, and the drive. *)
Waiters ==
  /\ \A p \in Procs : pc[p] = "waits" <=>
       pc[p] \in Owning /\ \E i \in DOMAIN idequeue : idequeue[i] = buf[p]
  /\ \A i, j \in DOMAIN idequeue : idequeue[i] = idequeue[j] => i = j
  /\ \A i \in DOMAIN idequeue : \E p \in Procs : pc[p] = "waits" /\ buf[p] = idequeue[i]
Driven ==
  /\ drive.op # "none" <=> idequeue # <<>>
  /\ irq # "none" => idequeue # <<>>
  /\ idequeue # <<>> => /\ drive.sector = sector[Head(idequeue)]
                        /\ drive.op = "write" <=> dirty[Head(idequeue)]

LEMMA QueueParts == NobodyForgotten /\ QueueInv <=> AsleepInv /\ Waiters /\ Driven
BY DEF NobodyForgotten, QueueInv, AsleepInv, Waiters, Driven

LEMMA QueuedNext ==
  ASSUME CacheInv, NEW p \in Procs, iderw(p)
  PROVE  /\ buf[p] \in Bufs /\ \A i \in DOMAIN idequeue : idequeue[i] # buf[p]
         /\ \A q \in Procs : q # p /\ pc[q] \in Owning => buf[q] # buf[p]
BY DEF iderw, CacheInv, PointInv, NobodyForgotten, OneCopyOneOwner, Owning

LEMMA WaitersStep == CacheInv /\ [Next]_vars => Waiters'
<1> SUFFICES ASSUME CacheInv, [Next]_vars PROVE Waiters'
  OBVIOUS
<1>0. Fields /\ OneCopyOneOwner /\ PointInv /\ Waiters
  BY QueueParts DEF CacheInv
<1> USE DEF Goto
<1>1. ASSUME idequeue' = idequeue,
             \A q \in Procs : /\ pc'[q] = "waits" <=> pc[q] = "waits"
                              /\ pc[q] = "waits" => buf'[q] = buf[q]
                              /\ pc'[q] \in Owning /\ pc'[q] # "waits" =>
                                   \A i \in DOMAIN idequeue : idequeue[i] # buf'[q]
      PROVE  Waiters'
  BY <1>0, <1>1 DEF Waiters, Owning
<1>2. ASSUME NEW p \in Procs, NEW b \in Bufs,
             BgetHit(p, b) \/ BgetSleep(p, b) \/ BgetRecycle(p, b)
      PROVE  Waiters'
  <2>1. /\ idequeue' = idequeue /\ pc[p] = "loop" /\ buf'[p] = b
        /\ pc'[p] = "asleep" \/ (pc'[p] = "got" /\ ~busy[b])
        /\ \A q \in Procs : q # p => pc'[q] = pc[q] /\ buf'[q] = buf[q]
    BY <1>0, <1>2, FoundFacts DEF BgetHit, BgetSleep, BgetRecycle, Fields
  <2>2. ~busy[b] => \A i \in DOMAIN idequeue : idequeue[i] # b
    BY FreeFacts
  <2> QED BY <1>0, <1>1, <2>1, <2>2 DEF Waiters, Owning
<1>3. ASSUME NEW p \in Procs, brelse(p) PROVE Waiters'
  <2>1. idequeue' = idequeue /\ pc[p] = "holds" /\ pc'[p] = "user"
        /\ \A q \in Procs : q # p => buf'[q] = buf[q]
    BY <1>0, <1>3 DEF brelse, Wake, Fields
  <2>2. \A q \in Procs : q # p => pc'[q] = pc[q] \/ (pc[q] = "asleep" /\ pc'[q] = "loop")
    <3> SUFFICES ASSUME NEW q \in Procs, q # p
                 PROVE  pc'[q] = pc[q] \/ (pc[q] = "asleep" /\ pc'[q] = "loop")
      OBVIOUS
    <3>1. pc[q] = "waits" => buf[q] # buf[p]
      BY <1>0, <1>3 DEF brelse, OneCopyOneOwner, Owning
    <3> QED BY <1>0, <1>3, <3>1 DEF brelse, Wake, Fields
  <2> QED BY <1>0, <1>1, <2>1, <2>2 DEF Waiters, Owning
<1>4. ASSUME NEW p \in Procs, BreadReturn(p) \/ IderwWoken(p) PROVE Waiters'
  <2>1. /\ UNCHANGED <<idequeue, buf>> /\ pc[p] \in {"got", "woken"} /\ pc'[p] \in {"holds", "iderw"}
        /\ \A q \in Procs : q # p => pc'[q] = pc[q]
    BY <1>0, <1>4 DEF BreadReturn, IderwWoken, Fields, PointInv
  <2> QED BY <1>0, <1>1, <2>1 DEF Waiters, Owning
<1>5. ASSUME NEW p \in Procs, NEW v \in Vals, bwrite(p, v) \/ log_write(p, v) PROVE Waiters'
  <2>1. /\ UNCHANGED <<idequeue, buf>> /\ pc[p] = "holds" /\ pc'[p] \in {"holds", "iderw"}
        /\ \A q \in Procs : q # p => pc'[q] = pc[q]
    BY <1>0, <1>5 DEF bwrite, log_write, Fields
  <2> QED BY <1>0, <1>1, <2>1 DEF Waiters, Owning
<1>6. ASSUME NEW p \in Procs, NEW s \in Sectors, bread(p, s) PROVE Waiters'
  <2>1. /\ UNCHANGED <<idequeue, buf>> /\ pc[p] = "user" /\ pc'[p] = "loop"
        /\ \A q \in Procs : q # p => pc'[q] = pc[q]
    BY <1>0, <1>6 DEF bread, Fields
  <2> QED BY <1>0, <1>1, <2>1 DEF Waiters, Owning
<1>7. ASSUME NEW p \in Procs, iderw(p) PROVE Waiters'
  <2>1. /\ buf' = buf /\ pc[p] = "iderw" /\ pc'[p] = "waits"
        /\ \A q \in Procs : q # p => pc'[q] = pc[q]
        /\ idequeue' = Append(idequeue, buf[p])
    BY <1>0, <1>7 DEF iderw, Fields
  <2>2. /\ Len(idequeue) \in Nat /\ DOMAIN idequeue = 1..Len(idequeue)
        /\ DOMAIN idequeue' = 1..(Len(idequeue) + 1)
        /\ idequeue'[Len(idequeue) + 1] = buf[p]
        /\ \A i \in DOMAIN idequeue : idequeue'[i] = idequeue[i]
    BY <1>0, <1>7, <2>1, QueuedNext DEF Fields
  <2>3. \A i \in DOMAIN idequeue' : i \in DOMAIN idequeue \/ i = Len(idequeue) + 1
    BY <2>2
  <2>4. DOMAIN idequeue \subseteq DOMAIN idequeue' /\ Len(idequeue) + 1 \in DOMAIN idequeue'
    BY <2>2
  <2>5. \A q \in Procs : pc'[q] = "waits" <=>
          pc'[q] \in Owning /\ \E i \in DOMAIN idequeue' : idequeue'[i] = buf'[q]
    BY <1>0, <1>7, <2>1, <2>2, <2>3, <2>4, QueuedNext DEF Waiters, Owning
  <2>6. \A i, j \in DOMAIN idequeue' : idequeue'[i] = idequeue'[j] => i = j
    BY <1>0, <1>7, <2>2, <2>3, QueuedNext DEF Waiters
  <2>7. \A i \in DOMAIN idequeue' : \E q \in Procs : pc'[q] = "waits" /\ buf'[q] = idequeue'[i]
    BY <1>0, <2>1, <2>2, <2>3 DEF Waiters
  <2> QED BY <2>5, <2>6, <2>7 DEF Waiters
<1>8. CASE ideintr
  <2> DEFINE b == Head(idequeue)
  <2>1. /\ buf' = buf /\ idequeue' = Tail(idequeue)
        /\ \A q \in Procs : pc'[q] = IF buf[q] = b /\ pc[q] = "asleep" THEN "loop"
                                     ELSE IF buf[q] = b /\ pc[q] = "waits" THEN "woken" ELSE pc[q]
    BY <1>0, <1>8 DEF ideintr, Wake, Fields
  <2>2. /\ Len(idequeue) \in Nat /\ DOMAIN idequeue = 1..Len(idequeue)
        /\ DOMAIN idequeue' = 1..(Len(idequeue) - 1)
        /\ b = idequeue[1] /\ 1 \in DOMAIN idequeue
        /\ \A i \in DOMAIN idequeue' : idequeue'[i] = idequeue[i + 1]
    BY <1>0, <1>8, <2>1 DEF ideintr, Fields
  <2> HIDE DEF b
  <2>3. \A i \in DOMAIN idequeue' : i + 1 \in DOMAIN idequeue /\ i + 1 # 1
    BY <2>2
  <2>4. \A i \in DOMAIN idequeue : i # 1 => i - 1 \in DOMAIN idequeue' /\ idequeue'[i - 1] = idequeue[i]
    BY <2>2
  <2>5. \A i \in DOMAIN idequeue' : idequeue'[i] # b
    BY <1>0, <2>2, <2>3 DEF Waiters
  <2>6. \A q \in Procs : pc'[q] = "waits" <=>
          pc'[q] \in Owning /\ \E i \in DOMAIN idequeue' : idequeue'[i] = buf'[q]
    <3> SUFFICES ASSUME NEW q \in Procs
                 PROVE  pc'[q] = "waits" <=>
                          pc'[q] \in Owning /\ \E i \in DOMAIN idequeue' : idequeue'[i] = buf'[q]
      OBVIOUS
    <3>1. ASSUME pc'[q] = "waits" PROVE \E i \in DOMAIN idequeue' : idequeue'[i] = buf'[q]
      <4>1. pc[q] = "waits" /\ buf[q] # b
        BY <2>1, <3>1
      <4>2. PICK i \in DOMAIN idequeue : idequeue[i] = buf[q]
        BY <1>0, <4>1 DEF Waiters
      <4>3. i # 1
        BY <2>2, <4>1, <4>2
      <4> QED BY <2>1, <2>4, <4>2, <4>3
    <3>2. ASSUME pc'[q] \in Owning, NEW i \in DOMAIN idequeue', idequeue'[i] = buf'[q]
          PROVE  pc'[q] = "waits"
      <4>1. buf[q] # b /\ pc'[q] = pc[q]
        BY <2>1, <2>5, <3>2
      <4>2. i + 1 \in DOMAIN idequeue /\ idequeue[i + 1] = buf[q]
        BY <2>1, <2>2, <2>3, <3>2
      <4> QED BY <1>0, <3>2, <4>1, <4>2 DEF Waiters
    <3> QED BY <3>1, <3>2 DEF Owning
  <2>7. \A i, j \in DOMAIN idequeue' : idequeue'[i] = idequeue'[j] => i = j
    BY <1>0, <2>2, <2>3 DEF Waiters
  <2>8. \A i \in DOMAIN idequeue' : \E q \in Procs : pc'[q] = "waits" /\ buf'[q] = idequeue'[i]
    BY <1>0, <2>1, <2>2, <2>3, <2>5 DEF Waiters
  <2> QED BY <2>6, <2>7, <2>8 DEF Waiters
<1>9. (DriveDone \/ UNCHANGED vars \/ \E p \in Procs : NoBuffers(p)) => UNCHANGED <<idequeue, pc, buf>>
  BY DEF DriveDone, NoBuffers, vars
<1>10. CASE UNCHANGED <<idequeue, pc, buf>>
  BY <1>0, <1>1, <1>10 DEF Waiters
<1> QED BY <1>2, <1>3, <1>4, <1>5, <1>6, <1>7, <1>8, <1>9, <1>10, Steps

LEMMA DrivenStep == CacheInv /\ [Next]_vars => Driven'
<1> SUFFICES ASSUME CacheInv, [Next]_vars PROVE Driven'
  OBVIOUS
<1>0. Fields /\ OneCopyOneOwner /\ PointInv /\ Driven /\ Waiters
  BY QueueParts DEF CacheInv
<1>h. idequeue # <<>> => Head(idequeue) \in Bufs /\ Head(idequeue) = idequeue[1] /\ 1 \in DOMAIN idequeue
  BY <1>0 DEF Fields
<1>1. CASE UNCHANGED <<idequeue, drive, irq, sector, dirty>>
  BY <1>0, <1>1 DEF Driven
<1>2. ASSUME NEW p \in Procs, NEW b \in Bufs, BgetRecycle(p, b) PROVE Driven'
  <2>1. ~busy[b]
    BY <1>2, FoundFacts DEF BgetRecycle
  <2>2. idequeue # <<>> => Head(idequeue) # b
    BY <1>h, <2>1, FreeFacts
  <2>3. /\ UNCHANGED <<idequeue, drive, irq>>
        /\ \A c \in Bufs : c # b => sector'[c] = sector[c] /\ dirty'[c] = dirty[c]
    BY <1>0, <1>2 DEF BgetRecycle, Fields, device
  <2> QED BY <1>0, <1>h, <2>2, <2>3 DEF Driven
<1>3. ASSUME NEW p \in Procs, NEW v \in Vals, bwrite(p, v) \/ log_write(p, v) PROVE Driven'
  <2>1. /\ UNCHANGED <<idequeue, drive, irq, sector>> /\ pc[p] = "holds"
        /\ dirty' = [dirty EXCEPT ![buf[p]] = TRUE]
    BY <1>3 DEF bwrite, log_write, device
  <2>2. idequeue # <<>> => Head(idequeue) # buf[p]
    BY <1>0, <1>h, <2>1 DEF Waiters, Owning
  <2>3. \A c \in Bufs : c # buf[p] => dirty'[c] = dirty[c]
    BY <1>0, <2>1 DEF Fields
  <2> QED BY <1>0, <1>h, <2>1, <2>2, <2>3 DEF Driven
<1>4. ASSUME NEW p \in Procs, iderw(p) PROVE Driven'
  <2>1. /\ UNCHANGED <<irq, sector, dirty>> /\ idequeue' = Append(idequeue, buf[p])
        /\ buf[p] \in Bufs
    BY <1>4, QueuedNext DEF iderw, flags
  <2>2. /\ idequeue' # <<>>
        /\ Head(idequeue') = IF idequeue = <<>> THEN buf[p] ELSE Head(idequeue)
    BY <1>0, <2>1 DEF Fields
  <2>3. CASE idequeue = <<>>
    <3>1. /\ drive'.op = IF dirty[buf[p]] THEN "write" ELSE "read"
          /\ drive'.sector = sector[buf[p]]
      BY <1>4, <2>3 DEF iderw, idestart
    <3> QED BY <1>0, <2>1, <2>2, <2>3, <3>1 DEF Driven
  <2>4. CASE idequeue # <<>>
    <3>1. drive' = drive
      BY <1>4, <2>4 DEF iderw
    <3> QED BY <1>0, <2>1, <2>2, <2>4, <3>1 DEF Driven
  <2> QED BY <2>3, <2>4
<1>5. CASE DriveDone
  <2>1. UNCHANGED <<idequeue, drive, sector, dirty>> /\ idequeue # <<>>
    BY <1>0, <1>5, BufAssumption DEF DriveDone, Driven, flags
  <2> QED BY <1>0, <2>1 DEF Driven
<1>6. CASE ideintr
  <2> DEFINE b == Head(idequeue)
             rest == Tail(idequeue)
  <2>1. /\ idequeue' = rest /\ irq' = "none" /\ sector' = sector /\ b \in Bufs
        /\ \A c \in Bufs : c # b => dirty'[c] = dirty[c]
    BY <1>0, <1>6, <1>h DEF ideintr, Fields
  <2>2. CASE rest = <<>>
    <3>1. drive'.op = "none"
      BY <1>6, <2>2 DEF ideintr, Idle
    <3> QED BY <2>1, <2>2, <3>1 DEF Driven
  <2>3. CASE rest # <<>>
    <3>1. Head(rest) \in Bufs /\ Head(rest) = idequeue[2] /\ 2 \in DOMAIN idequeue
      BY <1>0, <1>6, <2>3 DEF ideintr, Fields
    <3>2. Head(rest) # b
      BY <1>0, <1>6, <1>h, <3>1 DEF Waiters, ideintr
    <3>3. /\ drive'.op = IF dirty[Head(rest)] THEN "write" ELSE "read"
          /\ drive'.sector = sector[Head(rest)]
      BY <1>6, <2>3 DEF ideintr, idestart
    <3> HIDE DEF rest, b
    <3> QED BY <2>1, <2>3, <3>1, <3>2, <3>3 DEF Driven
  <2> QED BY <2>2, <2>3
<1>7. ASSUME NEW p \in Procs,
             \/ \E s \in Sectors : bread(p, s)
             \/ \E b \in Bufs : BgetHit(p, b) \/ BgetSleep(p, b)
             \/ NoBuffers(p) \/ BreadReturn(p) \/ IderwWoken(p) \/ brelse(p)
      PROVE  UNCHANGED <<idequeue, drive, irq, sector, dirty>>
  BY <1>7 DEF bread, BgetHit, BgetSleep, NoBuffers, BreadReturn, IderwWoken, brelse, flags, device
<1> QED BY <1>1, <1>2, <1>3, <1>4, <1>5, <1>6, <1>7, Steps DEF vars, flags, device

-----------------------------------------------------------------------------
LEMMA InitInv == Init => CacheInv
<1> SUFFICES ASSUME Init PROVE CacheInv
  OBVIOUS
<1>1. lru \in Seq(Bufs)
  <2>1. Cardinality(Bufs) \in Nat
    BY BufAssumption, FS_CardinalityType
  <2>2. lru \in [1..Cardinality(Bufs) -> Bufs]
    BY DEF Init
  <2> QED BY <2>1, <2>2, SeqDef
<1>2. Fields
  <2>1. data \in [Bufs -> Vals]
    BY DEF Init
  <2>2. /\ drive \in [op : {"none", "read", "write"}, sector : Sectors \cup {None},
                      val : Vals \cup {None}]
        /\ drive.op # "write"
    BY DEF Init, Idle
  <2>3. /\ sector \in [Bufs -> Sectors \cup {None}] /\ idequeue \in Seq(Bufs)
        /\ busy \in [Bufs -> BOOLEAN] /\ valid \in [Bufs -> BOOLEAN] /\ dirty \in [Bufs -> BOOLEAN]
        /\ want \in [Procs -> Sectors \cup {None}] /\ buf \in [Procs -> Bufs \cup {None}]
        /\ pc \in [Procs -> Points]
    BY DEF Init, Points
  <2> QED BY <1>1, <2>1, <2>2, <2>3 DEF Init, Fields
<1>3. OneCopyOneOwner /\ PointInv
  BY DEF Init, OneCopyOneOwner, PointInv, Owning
<1>4. NobodyForgotten /\ QueueInv
  BY DEF Init, NobodyForgotten, QueueInv, Owning, Idle
<1>5. ListInv
  BY DEF Init, ListInv
<1> QED BY <1>2, <1>3, <1>4, <1>5 DEF CacheInv

(* The invariant of the buffer cache and its driver. *)
THEOREM Invariance == Spec => []CacheInv
<1>1. CacheInv /\ [Next]_vars => CacheInv'
  <2> SUFFICES ASSUME CacheInv, [Next]_vars PROVE CacheInv'
    OBVIOUS
  <2>1. Fields' /\ OneCopyOneOwner' /\ PointInv' /\ ListInv'
    BY TypeStep, OwnStep, PointStep, ListStep
  <2>2. AsleepInv' /\ Waiters' /\ Driven'
    BY AsleepStep, WaitersStep, DrivenStep
  <2>3. NobodyForgotten' /\ QueueInv'
    BY <2>2 DEF NobodyForgotten, QueueInv, AsleepInv, Waiters, Driven
  <2> QED BY <2>1, <2>3 DEF CacheInv
<1> QED BY InitInv, <1>1, PTL DEF Spec

(* The fields have their types, and brelse loses no buffer from the list
   (bio.c:127-132). *)
THEOREM TypeCorrect == Spec => []TypeOK
<1>1. CacheInv => TypeOK
  BY DEF CacheInv, TypeOK, ListInv
<1> QED BY <1>1, Invariance, PTL

(* A sector has one buffer and a busy buffer one owner (bio.c:61-93). *)
THEOREM OneCopyCorrect == Spec => []OneCopyOneOwner
BY Invariance, PTL DEF CacheInv

(* Nobody sleeps on a buffer that nothing will wake, and the drive always works
   on the first request, also when it fails (ide.c:90-155). *)
THEOREM NobodyForgottenCorrect == Spec => []NobodyForgotten
BY Invariance, PTL DEF CacheInv

-----------------------------------------------------------------------------
(* With a drive that does not fail the buffers agree with the disk. *)
LEMMA CoherentStep ==
  ASSUME Answers = {"done"}, CacheInv, Coherent, [Next]_vars
  PROVE  Coherent'
<1>0. Fields /\ OneCopyOneOwner /\ PointInv /\ Driven /\ Waiters /\ ListInv
  BY QueueParts DEF CacheInv
<1>h. idequeue # <<>> => Head(idequeue) \in Bufs /\ Head(idequeue) = idequeue[1] /\ 1 \in DOMAIN idequeue
  BY <1>0 DEF Fields
<1>1. CASE UNCHANGED <<idequeue, drive, irq, disk, sector, valid, dirty, data>>
  BY <1>1 DEF Coherent
<1>2. ASSUME NEW p \in Procs, NEW b \in Bufs, BgetRecycle(p, b) PROVE Coherent'
  <2>1. /\ UNCHANGED <<idequeue, drive, irq, disk, data>> /\ ~valid'[b]
        /\ \A c \in Bufs : c # b => sector'[c] = sector[c] /\ dirty'[c] = dirty[c] /\ valid'[c] = valid[c]
    BY <1>0, <1>2 DEF BgetRecycle, Fields, device
  <2> QED BY <2>1 DEF Coherent
<1>3. ASSUME NEW p \in Procs, NEW v \in Vals, bwrite(p, v) \/ log_write(p, v) PROVE Coherent'
  <2>1. /\ UNCHANGED <<idequeue, drive, irq, disk, sector, valid>> /\ pc[p] = "holds"
        /\ dirty' = [dirty EXCEPT ![buf[p]] = TRUE] /\ data' = [data EXCEPT ![buf[p]] = v]
    BY <1>3 DEF bwrite, log_write, device
  <2>2. idequeue # <<>> => Head(idequeue) # buf[p]
    BY <1>0, <1>h, <2>1 DEF Waiters, Owning
  <2>3. /\ \A c \in Bufs : c # buf[p] => dirty'[c] = dirty[c] /\ data'[c] = data[c]
        /\ buf[p] \in Bufs => dirty'[buf[p]]
    BY <1>0, <2>1 DEF Fields
  <2> QED BY <1>0, <1>h, <2>1, <2>2, <2>3 DEF Driven, Coherent
<1>4. ASSUME NEW p \in Procs, iderw(p) PROVE Coherent'
  <2>1. /\ UNCHANGED <<irq, disk, sector, valid, dirty, data>> /\ idequeue' = Append(idequeue, buf[p])
        /\ buf[p] \in Bufs
    BY <1>4, QueuedNext DEF iderw, flags
  <2>2. Head(idequeue') = IF idequeue = <<>> THEN buf[p] ELSE Head(idequeue)
    BY <1>0, <2>1 DEF Fields
  <2>3. CASE idequeue = <<>>
    <3>1. irq = "none" /\ (drive'.op = "write" => drive'.val = data[buf[p]])
      BY <1>0, <1>4, <2>3 DEF iderw, idestart, Driven
    <3> QED BY <2>1, <2>2, <2>3, <3>1 DEF Coherent
  <2>4. CASE idequeue # <<>>
    <3>1. drive' = drive
      BY <1>4, <2>4 DEF iderw
    <3> QED BY <2>1, <2>2, <2>4, <3>1 DEF Coherent
  <2> QED BY <2>3, <2>4
<1>5. CASE DriveDone
  <2>1. UNCHANGED <<idequeue, drive, sector, valid, dirty, data>> /\ idequeue # <<>> /\ irq' = "done"
    BY <1>0, <1>5 DEF DriveDone, Driven, flags
  <2>2. drive.sector \in Sectors /\ drive.sector = sector[Head(idequeue)]
    BY <2>1, HeadFacts
  <2>3. CASE drive.op = "write"
    <3>1. disk'[drive.sector] = drive.val /\ \A s \in Sectors : s # drive.sector => disk'[s] = disk[s]
      BY <1>0, <1>5, <2>1, <2>2, <2>3 DEF DriveDone, Fields
    <3>2. \A b \in Bufs : valid[b] /\ ~dirty[b] => sector[b] # drive.sector /\ sector[b] \in Sectors
      <4>1. dirty[Head(idequeue)] /\ Head(idequeue) \in Bufs
        BY <1>0, <1>h, <2>1, <2>3 DEF Driven
      <4>2. sector[Head(idequeue)] # None
        BY <2>2, BufAssumption
      <4>3. \A b \in Bufs : sector[b] = sector[Head(idequeue)] => b = Head(idequeue)
        BY <1>0, <4>1, <4>2 DEF OneCopyOneOwner
      <4> QED BY <1>0, <2>2, <4>1, <4>3 DEF ListInv
    <3> QED BY <2>1, <3>1, <3>2 DEF Coherent
  <2>4. CASE drive.op # "write"
    <3>1. disk' = disk
      BY <1>5, <2>4 DEF DriveDone
    <3> QED BY <2>1, <2>4, <3>1 DEF Coherent
  <2> QED BY <2>3, <2>4
<1>6. CASE ideintr
  <2> DEFINE b == Head(idequeue)
             rest == Tail(idequeue)
  <2>1. /\ idequeue' = rest /\ irq' = "none" /\ UNCHANGED <<sector, disk>> /\ irq = "done"
        /\ b \in Bufs /\ valid'[b] /\ ~dirty'[b]
        /\ \A c \in Bufs : c # b => dirty'[c] = dirty[c] /\ valid'[c] = valid[c] /\ data'[c] = data[c]
    BY <1>0, <1>6, <1>h DEF ideintr, Fields, Coherent
  <2>2. drive.sector = sector[b]
    BY <1>6, HeadFacts DEF ideintr
  <2>3. data'[b] = disk[sector[b]]
    <3>1. CASE dirty[b]
      <4>1. drive.op = "write"
        BY <1>0, <1>6, <3>1 DEF ideintr, Driven
      <4> QED BY <1>6, <2>1, <2>2, <3>1, <4>1 DEF ideintr, Coherent
    <3>2. CASE ~dirty[b]
      BY <1>0, <1>6, <2>1, <2>2, <3>2 DEF ideintr, Fields
    <3> QED BY <3>1, <3>2
  <2>4. drive'.op = "write" => drive'.val = data'[Head(rest)]
    <3>1. CASE rest = <<>>
      BY <1>6, <3>1 DEF ideintr, Idle
    <3>2. CASE rest # <<>>
      <4>1. Head(rest) \in Bufs /\ Head(rest) = idequeue[2] /\ 2 \in DOMAIN idequeue
        BY <1>0, <1>6, <3>2 DEF ideintr, Fields
      <4>2. Head(rest) # b
        BY <1>0, <1>6, <1>h, <4>1 DEF Waiters, ideintr
      <4>3. drive'.op = "write" => drive'.val = data[Head(rest)]
        BY <1>6, <3>2 DEF ideintr, idestart
      <4> QED BY <2>1, <4>1, <4>2, <4>3
    <3> QED BY <3>1, <3>2
  <2> HIDE DEF b, rest
  <2> QED BY <2>1, <2>3, <2>4 DEF Coherent
<1>7. ASSUME NEW p \in Procs,
             \/ \E s \in Sectors : bread(p, s)
             \/ \E b \in Bufs : BgetHit(p, b) \/ BgetSleep(p, b)
             \/ NoBuffers(p) \/ BreadReturn(p) \/ IderwWoken(p) \/ brelse(p)
      PROVE  UNCHANGED <<idequeue, drive, irq, disk, sector, valid, dirty, data>>
  BY <1>7 DEF bread, BgetHit, BgetSleep, NoBuffers, BreadReturn, IderwWoken, brelse, flags, device
<1> QED BY <1>1, <1>2, <1>3, <1>4, <1>5, <1>6, <1>7, Steps DEF vars, flags, device

LEMMA CoherentInit == Init => Coherent
BY DEF Init, Coherent, Idle

THEOREM CoherentCorrect == ASSUME Answers = {"done"} PROVE Spec => []Coherent
<1>1. CacheInv /\ Coherent /\ [Next]_vars => Coherent'
  BY CoherentStep
<1> QED BY CoherentInit, <1>1, Invariance, PTL DEF Spec

(* bread returns what the sector holds, for a drive that does not fail
   (bio.c:95-105). *)
THEOREM BreadCorrect == ASSUME Answers = {"done"} PROVE Spec => []BreadReturnsSector
<1>1. CacheInv /\ Coherent => BreadReturnsSector
  BY DEF CacheInv, PointInv, Coherent, BreadReturnsSector, Owning
<1> QED BY <1>1, Invariance, CoherentCorrect, PTL
-----------------------------------------------------------------------------
(* A sector has at most one valid copy and one owner, so that the refinement
   mapping's choices are no choices. *)
ViewFacts ==
  /\ View \in [Sectors -> Vals]
  /\ \A b \in Bufs : valid[b] => View[sector[b]] = data[b]
  /\ \A s \in Sectors : (\A b \in Bufs : valid[b] => sector[b] # s) => View[s] = disk[s]
OwnerFacts ==
  /\ Owner \in [Sectors -> Procs \cup {None}]
  /\ \A p \in Procs : pc[p] \in Owning => Owner[sector[buf[p]]] = p
  /\ \A s \in Sectors :
       (\A p \in Procs : pc[p] \in Owning => sector[buf[p]] # s) => Owner[s] = None

LEMMA ViewLemma == CacheInv => ViewFacts
<1> SUFFICES ASSUME CacheInv PROVE ViewFacts
  OBVIOUS
<1>0. Fields /\ OneCopyOneOwner /\ ListInv
  BY DEF CacheInv
<1>1. ASSUME NEW s \in Sectors, NEW b \in Copies(s) PROVE View[s] = data[b]
  <2> DEFINE c == CHOOSE x \in Copies(s) : TRUE
  <2>1. c \in Copies(s) /\ Copies(s) # {}
    BY <1>1, Zenon
  <2>2. View[s] = data[c]
    BY <2>1, Zenon DEF View
  <2> HIDE DEF c
  <2>3. s # None
    BY BufAssumption
  <2>4. c = b
    BY <1>0, <1>1, <2>1, <2>3 DEF Copies, OneCopyOneOwner
  <2> QED BY <2>2, <2>4
<1>2. ASSUME NEW s \in Sectors, Copies(s) = {} PROVE View[s] = disk[s]
  BY <1>2 DEF View
<1>3. ASSUME NEW s \in Sectors PROVE View[s] \in Vals
  <2>1. CASE Copies(s) = {}
    BY <1>0, <1>2, <2>1 DEF Fields
  <2>2. CASE Copies(s) # {}
    <3>1. PICK b \in Copies(s) : TRUE
      BY <2>2
    <3>2. b \in Bufs /\ View[s] = data[b]
      BY <1>1, <3>1 DEF Copies
    <3> QED BY <1>0, <3>2 DEF Fields
  <2> QED BY <2>1, <2>2
<1>5. View \in [Sectors -> Vals]
  <2> DEFINE f(s) == IF Copies(s) = {} THEN disk[s] ELSE data[CHOOSE b \in Copies(s) : TRUE]
  <2>1. View = [s \in Sectors |-> f(s)]
    BY DEF View
  <2> HIDE DEF f
  <2>2. \A s \in Sectors : f(s) \in Vals
    BY <1>3, <2>1
  <2> QED BY <2>1, <2>2
<1>6. \A b \in Bufs : valid[b] => View[sector[b]] = data[b]
  BY <1>0, <1>1 DEF Copies, ListInv
<1>7. \A s \in Sectors : (\A b \in Bufs : valid[b] => sector[b] # s) => View[s] = disk[s]
  BY <1>2 DEF Copies
<1> QED BY <1>5, <1>6, <1>7 DEF ViewFacts

LEMMA OwnerLemma == CacheInv => OwnerFacts
<1> SUFFICES ASSUME CacheInv PROVE OwnerFacts
  OBVIOUS
<1>0. Fields /\ OneCopyOneOwner /\ PointInv
  BY DEF CacheInv
<1>s. \A p \in Procs : pc[p] \in Owning => buf[p] \in Bufs /\ sector[buf[p]] \in Sectors
  BY <1>0 DEF PointInv, OneCopyOneOwner, Owning
<1>1. ASSUME NEW s \in Sectors, NEW p \in Owners(s) PROVE Owner[s] = p
  <2> DEFINE q == CHOOSE x \in Owners(s) : TRUE
  <2>1. q \in Owners(s) /\ Owners(s) # {}
    BY <1>1, Zenon
  <2>2. Owner[s] = q
    BY <2>1, Zenon DEF Owner
  <2> HIDE DEF q
  <2>3. /\ p \in Procs /\ pc[p] \in Owning /\ sector[buf[p]] = s
        /\ q \in Procs /\ pc[q] \in Owning /\ sector[buf[q]] = s
    BY <1>1, <2>1 DEF Owners
  <2>4. buf[p] = buf[q]
    BY <1>0, <1>s, <2>3, BufAssumption DEF OneCopyOneOwner
  <2>5. p = q
    BY <1>0, <2>3, <2>4 DEF OneCopyOneOwner
  <2> QED BY <2>2, <2>5
<1>2. ASSUME NEW s \in Sectors, Owners(s) = {} PROVE Owner[s] = None
  BY <1>2 DEF Owner
<1>3. ASSUME NEW s \in Sectors PROVE Owner[s] \in Procs \cup {None}
  <2>1. CASE Owners(s) = {}
    BY <1>2, <2>1
  <2>2. CASE Owners(s) # {}
    <3>1. PICK p \in Owners(s) : TRUE
      BY <2>2
    <3> QED BY <1>1, <3>1 DEF Owners
  <2> QED BY <2>1, <2>2
<1>5. Owner \in [Sectors -> Procs \cup {None}]
  <2> DEFINE f(s) == IF Owners(s) = {} THEN None ELSE CHOOSE p \in Owners(s) : TRUE
  <2>1. Owner = [s \in Sectors |-> f(s)]
    BY DEF Owner
  <2> HIDE DEF f
  <2>2. \A s \in Sectors : f(s) \in Procs \cup {None}
    BY <1>3, <2>1
  <2> QED BY <2>1, <2>2
<1>6. \A p \in Procs : pc[p] \in Owning => Owner[sector[buf[p]]] = p
  BY <1>s, <1>1 DEF Owners
<1>7. \A s \in Sectors :
        (\A p \in Procs : pc[p] \in Owning => sector[buf[p]] # s) => Owner[s] = None
  BY <1>2 DEF Owners
<1> QED BY <1>5, <1>6, <1>7 DEF OwnerFacts

(* An owner's buffer is a buffer of a sector. *)
LEMMA OwnsSector ==
  CacheInv => \A p \in Procs :
    pc[p] \in Owning => buf[p] \in Bufs /\ sector[buf[p]] \in Sectors
BY DEF CacheInv, PointInv, OneCopyOneOwner, Owning

(* Steps that keep who owns which buffer, and steps that keep the copies. *)
LEMMA OwnerSame ==
  ASSUME CacheInv, OwnerFacts, OwnerFacts', UNCHANGED <<sector, buf>>,
         \A q \in Procs : pc'[q] \in Owning <=> pc[q] \in Owning
  PROVE  Owner' = Owner
<1>1. ASSUME NEW s \in Sectors PROVE Owner'[s] = Owner[s]
  <2>1. CASE \A p \in Procs : pc[p] \in Owning => sector[buf[p]] # s
    BY <2>1 DEF OwnerFacts
  <2>2. ASSUME NEW p \in Procs, pc[p] \in Owning, sector[buf[p]] = s PROVE Owner'[s] = Owner[s]
    BY <2>2 DEF OwnerFacts
  <2> QED BY <2>1, <2>2
<1>2. Owner \in [Sectors -> Procs \cup {None}] /\ Owner' \in [Sectors -> Procs \cup {None}]
  BY DEF OwnerFacts
<1> QED BY <1>1, <1>2

LEMMA ViewSame ==
  ASSUME CacheInv, ViewFacts, ViewFacts', UNCHANGED <<sector, valid, data, disk>>
  PROVE  View' = View
<1>1. ASSUME NEW s \in Sectors PROVE View'[s] = View[s]
  <2>1. CASE \A b \in Bufs : valid[b] => sector[b] # s
    BY <2>1 DEF ViewFacts
  <2>2. ASSUME NEW b \in Bufs, valid[b], sector[b] = s PROVE View'[s] = View[s]
    BY <2>2 DEF ViewFacts
  <2> QED BY <2>1, <2>2
<1>2. View \in [Sectors -> Vals] /\ View' \in [Sectors -> Vals]
  BY DEF ViewFacts
<1> QED BY <1>1, <1>2
(* Every step of the cache and the drive is a step of the store or leaves it
   alone. *)
LEMMA StoreStep ==
  ASSUME Answers = {"done"}, CacheInv, Coherent, ViewFacts, OwnerFacts, ViewFacts', OwnerFacts', [Next]_vars
  PROVE  [Store!Next]_Store!vars
<1>0. /\ Fields /\ OneCopyOneOwner /\ PointInv /\ ListInv
      /\ \A p \in Procs : pc[p] \in Owning => buf[p] \in Bufs /\ sector[buf[p]] \in Sectors
  BY OwnsSector DEF CacheInv
<1>v. View \in [Sectors -> Vals] /\ View' \in [Sectors -> Vals]
  BY DEF ViewFacts
<1>o. Owner \in [Sectors -> Procs \cup {None}] /\ Owner' \in [Sectors -> Procs \cup {None}]
  BY DEF OwnerFacts
<1>t. UNCHANGED <<View, disk, Owner>> => [Store!Next]_Store!vars
  BY DEF Store!vars
<1>1. CASE /\ UNCHANGED <<sector, valid, data, disk, buf>>
           /\ \A q \in Procs : pc'[q] \in Owning <=> pc[q] \in Owning
  BY <1>1, <1>t, OwnerSame, ViewSame
<1>2. ASSUME NEW p \in Procs, NEW b \in Bufs, pc[p] = "loop", ~busy[b], sector'[b] = want[p],
             buf'[p] = b, pc'[p] \in Owning, View' = View, disk' = disk,
             \A c \in Bufs : sector[c] = want[p] => c = b,
             \A c \in Bufs : c # b => sector'[c] = sector[c],
             \A q \in Procs : q # p => pc'[q] = pc[q] /\ buf'[q] = buf[q]
      PROVE  [Store!Next]_Store!vars
  <2>1. want[p] \in Sectors /\ pc[p] \notin Owning
    BY <1>0, <1>2 DEF PointInv, Owning
  <2>2. \A q \in Procs : pc[q] \in Owning => buf[q] # b
    BY <1>2, FreeFacts
  <2>3. Owner[want[p]] = None
    BY <1>0, <1>2, <2>1, <2>2 DEF OwnerFacts
  <2>4. Owner'[want[p]] = p
    BY <1>2 DEF OwnerFacts
  <2>5. ASSUME NEW s \in Sectors, s # want[p] PROVE Owner'[s] = Owner[s]
    <3>1. CASE \A q \in Procs : pc[q] \in Owning => sector[buf[q]] # s
      <4>1. \A q \in Procs : pc'[q] \in Owning => sector'[buf'[q]] # s
        BY <1>0, <1>2, <2>1, <2>2, <2>5, <3>1
      <4> QED BY <3>1, <4>1 DEF OwnerFacts
    <3>2. ASSUME NEW q \in Procs, pc[q] \in Owning, sector[buf[q]] = s PROVE Owner'[s] = Owner[s]
      <4>1. q # p /\ buf[q] # b /\ buf[q] \in Bufs
        BY <1>0, <2>1, <2>2, <3>2
      <4>2. pc'[q] \in Owning /\ sector'[buf'[q]] = s
        BY <1>2, <3>2, <4>1
      <4> QED BY <3>2, <4>2 DEF OwnerFacts
    <3> QED BY <3>1, <3>2
  <2>6. Owner' = [Owner EXCEPT ![want[p]] = p]
    BY <1>o, <2>1, <2>4, <2>5
  <2> QED BY <1>2, <2>1, <2>3, <2>6 DEF Store!Acquire, Store!Next
<1>3. ASSUME NEW p \in Procs, NEW b \in Bufs, BgetHit(p, b) PROVE [Store!Next]_Store!vars
  <2>1. sector[b] = want[p] /\ sector[b] # None
    BY <1>0, <1>3, FoundFacts, BufAssumption DEF BgetHit, PointInv
  <2>2. \A c \in Bufs : sector[c] = want[p] => c = b
    BY <1>0, <2>1 DEF OneCopyOneOwner
  <2>3. /\ UNCHANGED <<sector, valid, data, disk>> /\ pc[p] = "loop" /\ ~busy[b] /\ buf'[p] = b
        /\ pc'[p] = "got" /\ \A q \in Procs : q # p => pc'[q] = pc[q] /\ buf'[q] = buf[q]
    BY <1>0, <1>3 DEF BgetHit, Goto, Fields, device
  <2>4. View' = View
    BY <2>3, ViewSame
  <2> QED BY <1>2, <2>1, <2>2, <2>3, <2>4 DEF Owning
<1>4. ASSUME NEW p \in Procs, NEW b \in Bufs, BgetRecycle(p, b) PROVE [Store!Next]_Store!vars
  <2>1. ~busy[b] /\ ~dirty[b] /\ \A c \in Bufs : sector[c] # want[p]
    BY <1>4, FoundFacts DEF BgetRecycle
  <2>2. /\ UNCHANGED <<data, disk>> /\ pc[p] = "loop" /\ sector'[b] = want[p] /\ ~valid'[b]
        /\ buf'[p] = b /\ pc'[p] = "got"
        /\ \A c \in Bufs : c # b => sector'[c] = sector[c] /\ valid'[c] = valid[c]
        /\ \A q \in Procs : q # p => pc'[q] = pc[q] /\ buf'[q] = buf[q]
    BY <1>0, <1>4 DEF BgetRecycle, Goto, Fields, device
  <2>3. ASSUME NEW s \in Sectors PROVE View'[s] = View[s]
    <3>1. CASE \A c \in Bufs : valid[c] => sector[c] # s
      <4>1. \A c \in Bufs : valid'[c] => sector'[c] # s
        BY <2>2, <3>1
      <4> QED BY <2>2, <3>1, <4>1 DEF ViewFacts
    <3>2. CASE valid[b] /\ sector[b] = s
      <4>1. \A c \in Bufs : c # b => sector[c] # s
        BY <1>0, <3>2, BufAssumption DEF OneCopyOneOwner
      <4>2. \A c \in Bufs : valid'[c] => sector'[c] # s
        BY <2>2, <4>1
      <4>3. View[s] = data[b] /\ data[b] = disk[s]
        BY <2>1, <3>2 DEF ViewFacts, Coherent
      <4> QED BY <2>2, <4>2, <4>3 DEF ViewFacts
    <3>3. ASSUME NEW c \in Bufs, c # b, valid[c], sector[c] = s PROVE View'[s] = View[s]
      BY <2>2, <3>3 DEF ViewFacts
    <3> QED BY <3>1, <3>2, <3>3
  <2>4. View' = View
    BY <1>v, <2>3
  <2> QED BY <1>2, <2>1, <2>2, <2>4 DEF Owning
<1>5. ASSUME NEW p \in Procs, NEW v \in Vals, bwrite(p, v) \/ log_write(p, v)
      PROVE  [Store!Next]_Store!vars
  <2> DEFINE s == sector[buf[p]]
  <2>1. /\ UNCHANGED <<sector, valid, disk, buf>> /\ pc[p] = "holds"
        /\ data' = [data EXCEPT ![buf[p]] = v]
        /\ \A q \in Procs : pc'[q] \in Owning <=> pc[q] \in Owning
    BY <1>0, <1>5 DEF bwrite, log_write, Goto, Fields, Owning, device
  <2>2. buf[p] \in Bufs /\ s \in Sectors /\ Owner[s] = p /\ valid[buf[p]]
    BY <1>0, <2>1 DEF OwnerFacts, PointInv, Owning
  <2>3. Owner' = Owner
    BY <2>1, OwnerSame
  <2>4. View'[s] = v
    BY <1>0, <2>1, <2>2 DEF ViewFacts, Fields
  <2>5. ASSUME NEW r \in Sectors, r # s PROVE View'[r] = View[r]
    <3>1. CASE \A c \in Bufs : valid[c] => sector[c] # r
      BY <2>1, <3>1 DEF ViewFacts
    <3>2. ASSUME NEW c \in Bufs, valid[c], sector[c] = r PROVE View'[r] = View[r]
      <4>1. c # buf[p]
        BY <2>5, <3>2
      <4>2. data'[c] = data[c]
        BY <1>0, <2>1, <4>1 DEF Fields
      <4> QED BY <2>1, <3>2, <4>2 DEF ViewFacts
    <3> QED BY <3>1, <3>2
  <2> HIDE DEF s
  <2>6. View' = [View EXCEPT ![s] = v]
    BY <1>v, <2>2, <2>4, <2>5
  <2> QED BY <2>1, <2>2, <2>3, <2>6 DEF Store!Change, Store!Next
<1>6. ASSUME NEW p \in Procs, brelse(p) PROVE [Store!Next]_Store!vars
  <2> DEFINE s == sector[buf[p]]
  <2>1. /\ UNCHANGED <<sector, valid, data, disk>> /\ pc[p] = "holds" /\ pc'[p] = "user"
        /\ \A q \in Procs : q # p => buf'[q] = buf[q] /\ (pc'[q] \in Owning <=> pc[q] \in Owning)
    BY <1>0, <1>6 DEF brelse, Wake, Goto, Fields, Owning, device
  <2>2. s \in Sectors /\ Owner[s] = p /\ pc[p] \in Owning /\ pc'[p] \notin Owning
    BY <1>0, <2>1 DEF OwnerFacts, Owning
  <2>3. View' = View
    BY <2>1, ViewSame
  <2>4. \A q \in Procs : pc'[q] \in Owning => q # p /\ sector'[buf'[q]] = sector[buf[q]]
    BY <2>1, <2>2
  <2>5. Owner'[s] = None
    <3>1. \A q \in Procs : pc'[q] \in Owning => sector'[buf'[q]] # s
      BY <2>1, <2>2, <2>4 DEF OwnerFacts
    <3> QED BY <2>2, <3>1 DEF OwnerFacts
  <2>6. ASSUME NEW r \in Sectors, r # s PROVE Owner'[r] = Owner[r]
    <3>1. CASE \A q \in Procs : pc[q] \in Owning => sector[buf[q]] # r
      <4>1. \A q \in Procs : pc'[q] \in Owning => sector'[buf'[q]] # r
        BY <2>1, <2>4, <3>1
      <4> QED BY <3>1, <4>1 DEF OwnerFacts
    <3>2. ASSUME NEW q \in Procs, pc[q] \in Owning, sector[buf[q]] = r PROVE Owner'[r] = Owner[r]
      <4>1. pc'[q] \in Owning /\ sector'[buf'[q]] = r
        BY <2>1, <2>6, <3>2
      <4> QED BY <3>2, <4>1 DEF OwnerFacts
    <3> QED BY <3>1, <3>2
  <2> HIDE DEF s
  <2>7. Owner' = [Owner EXCEPT ![s] = None]
    BY <1>o, <2>2, <2>5, <2>6
  <2> QED BY <2>1, <2>2, <2>3, <2>7 DEF Store!Release, Store!Next
<1>7. CASE DriveDone
  <2>1. /\ UNCHANGED <<sector, valid, dirty, data, buf, pc>> /\ idequeue # <<>>
        /\ disk' = IF drive.op = "write" THEN [disk EXCEPT ![drive.sector] = drive.val] ELSE disk
    BY <1>7 DEF DriveDone, flags, CacheInv, NobodyForgotten
  <2>2. Owner' = Owner
    BY <2>1, OwnerSame
  <2>3. CASE drive.op = "write"
    <3> DEFINE b == Head(idequeue)
               s == drive.sector
    <3>1. b \in Bufs /\ s \in Sectors /\ s = sector[b] /\ b = idequeue[1] /\ 1 \in DOMAIN idequeue
      BY <2>1, HeadFacts
    <3>2. PICK p \in Procs : pc[p] = "waits" /\ buf[p] = b
      BY <3>1 DEF CacheInv, QueueInv
    <3>3. Owner[s] = p
      BY <3>1, <3>2 DEF OwnerFacts, Owning
    <3>4. valid[b] /\ View[s] = data[b] /\ drive.val = data[b]
      BY <1>0, <2>1, <2>3, <3>1 DEF CacheInv, QueueInv, ListInv, ViewFacts, Coherent
    <3> HIDE DEF b, s
    <3>5. disk' = [disk EXCEPT ![s] = View[s]]
      BY <2>1, <2>3, <3>4 DEF s
    <3>6. ASSUME NEW r \in Sectors PROVE View'[r] = View[r]
      <4>1. CASE \A c \in Bufs : valid[c] => sector[c] # r
        <5>1. r # s
          BY <3>1, <3>4, <4>1
        <5>2. disk'[r] = disk[r]
          BY <1>0, <3>5, <5>1 DEF Fields
        <5> QED BY <2>1, <4>1, <5>2 DEF ViewFacts
      <4>2. ASSUME NEW c \in Bufs, valid[c], sector[c] = r PROVE View'[r] = View[r]
        BY <2>1, <4>2 DEF ViewFacts
      <4> QED BY <4>1, <4>2
    <3>7. View' = View
      BY <1>v, <3>6
    <3> QED BY <2>2, <3>1, <3>3, <3>5, <3>7 DEF Store!Sync, Store!Next
  <2>4. CASE drive.op # "write"
    BY <1>t, <2>1, <2>2, <2>4, ViewSame
  <2> QED BY <2>3, <2>4
<1>8. CASE ideintr
  <2> DEFINE b == Head(idequeue)
  <2>1. /\ b \in Bufs /\ drive.sector = sector[b] /\ sector[b] \in Sectors
        /\ b = idequeue[1] /\ 1 \in DOMAIN idequeue
    BY <1>8, HeadFacts DEF ideintr
  <2>2. PICK p \in Procs : pc[p] = "waits" /\ buf[p] = b
    BY <2>1 DEF CacheInv, QueueInv
  <2>3. /\ UNCHANGED <<sector, disk, buf>> /\ valid'[b] /\ irq = "done"
        /\ data'[b] = IF dirty[b] THEN data[b] ELSE disk[sector[b]]
        /\ \A c \in Bufs : c # b => valid'[c] = valid[c] /\ data'[c] = data[c]
        /\ \A q \in Procs : pc'[q] \in Owning <=> pc[q] \in Owning
    BY <1>0, <1>8, <2>1 DEF ideintr, Wake, Fields, Owning, Coherent
  <2>4. dirty[b] => valid[b]
    BY <1>0, <2>1 DEF ListInv
  <2>5. ~dirty[b] => ~valid[b]
    BY <1>0, <2>2 DEF PointInv
  <2> HIDE DEF b
  <2>6. \A c \in Bufs : c # b => sector[c] # sector[b]
    BY <1>0, <2>1, BufAssumption DEF OneCopyOneOwner
  <2>7. ASSUME NEW s \in Sectors PROVE View'[s] = View[s]
    <3>1. CASE s = sector[b]
      <4>1. View'[s] = data'[b]
        BY <2>1, <2>3, <3>1 DEF ViewFacts
      <4>2. CASE dirty[b]
        BY <2>1, <2>3, <2>4, <3>1, <4>1, <4>2 DEF ViewFacts
      <4>3. CASE ~dirty[b]
        <5>1. \A c \in Bufs : valid[c] => sector[c] # s
          BY <2>5, <2>6, <3>1, <4>3
        <5> QED BY <2>3, <3>1, <4>1, <4>3, <5>1 DEF ViewFacts
      <4> QED BY <4>2, <4>3
    <3>2. CASE s # sector[b]
      <4>1. CASE \A c \in Bufs : valid[c] => sector[c] # s
        <5>1. \A c \in Bufs : valid'[c] => sector'[c] # s
          BY <2>3, <3>2, <4>1
        <5> QED BY <2>3, <4>1, <5>1 DEF ViewFacts
      <4>2. ASSUME NEW c \in Bufs, valid[c], sector[c] = s PROVE View'[s] = View[s]
        BY <2>3, <3>2, <4>2 DEF ViewFacts
      <4> QED BY <4>1, <4>2
    <3> QED BY <3>1, <3>2
  <2>8. View' = View
    BY <1>v, <2>7
  <2>9. Owner' = Owner
    BY <2>3, OwnerSame
  <2> QED BY <1>t, <2>3, <2>8, <2>9
<1>9. ASSUME NEW p \in Procs, NEW b \in Bufs, BgetSleep(p, b) PROVE [Store!Next]_Store!vars
  <2>1. /\ UNCHANGED <<sector, valid, data, disk>> /\ pc[p] = "loop" /\ pc'[p] = "asleep"
        /\ \A q \in Procs : q # p => pc'[q] = pc[q] /\ buf'[q] = buf[q]
    BY <1>0, <1>9 DEF BgetSleep, Goto, Fields, flags, device
  <2>2. \A q \in Procs : /\ pc'[q] \in Owning <=> pc[q] \in Owning
                         /\ pc[q] \in Owning => buf'[q] = buf[q]
    BY <2>1 DEF Owning
  <2>3. ASSUME NEW s \in Sectors PROVE Owner'[s] = Owner[s]
    <3>1. CASE \A q \in Procs : pc[q] \in Owning => sector[buf[q]] # s
      <4>1. \A q \in Procs : pc'[q] \in Owning => sector'[buf'[q]] # s
        BY <2>1, <2>2, <3>1
      <4> QED BY <3>1, <4>1 DEF OwnerFacts
    <3>2. ASSUME NEW q \in Procs, pc[q] \in Owning, sector[buf[q]] = s PROVE Owner'[s] = Owner[s]
      <4>1. pc'[q] \in Owning /\ sector'[buf'[q]] = s
        BY <2>1, <2>2, <3>2
      <4> QED BY <3>2, <4>1 DEF OwnerFacts
    <3> QED BY <3>1, <3>2
  <2>4. Owner' = Owner
    BY <1>o, <2>3
  <2> QED BY <1>t, <2>1, <2>4, ViewSame
<1>10. ASSUME NEW p \in Procs,
              \/ \E s \in Sectors : bread(p, s)
              \/ NoBuffers(p) \/ BreadReturn(p) \/ iderw(p) \/ IderwWoken(p) \/ UNCHANGED vars
       PROVE  [Store!Next]_Store!vars
  <2>1. /\ UNCHANGED <<sector, valid, data, disk, buf>>
        /\ \A q \in Procs : pc'[q] \in Owning <=> pc[q] \in Owning
    BY <1>0, <1>10 DEF bread, NoBuffers, BreadReturn, iderw, IderwWoken, Goto, Fields, Owning,
                       flags, device, vars
  <2> QED BY <1>1, <2>1
<1>11. CASE UNCHANGED vars
  BY <1>1, <1>11 DEF vars, flags, device
<1> QED
  BY <1>3, <1>4, <1>5, <1>6, <1>7, <1>8, <1>9, <1>10, <1>11, Steps

LEMMA StoreInit == Init /\ CacheInv => Store!Init
<1> SUFFICES ASSUME Init, CacheInv PROVE Store!Init
  OBVIOUS
<1>1. ViewFacts /\ OwnerFacts
  BY ViewLemma, OwnerLemma
<1>2. /\ \A b \in Bufs : ~valid[b]
      /\ \A p \in Procs : pc[p] \notin Owning
      /\ disk \in [Sectors -> Vals]
  BY DEF Init, Owning
<1>3. \A s \in Sectors : View[s] = disk[s] /\ Owner[s] = None
  BY <1>1, <1>2 DEF ViewFacts, OwnerFacts
<1>4. View = disk
  BY <1>1, <1>2, <1>3 DEF ViewFacts
<1>5. Owner = [s \in Sectors |-> None]
  BY <1>1, <1>3 DEF OwnerFacts
<1> QED BY <1>2, <1>4, <1>5 DEF Store!Init

(* With a drive that does not fail, the cache and the driver implement a store
   with one lock and one current value for each sector, whatever is recycled,
   pinned and queued meanwhile (bio.c, ide.c). *)
THEOREM StoreRefinement == ASSUME Answers = {"done"} PROVE Spec => ImplementsStore
<1>1. /\ CacheInv /\ Coherent /\ ViewFacts /\ OwnerFacts /\ ViewFacts' /\ OwnerFacts' /\ [Next]_vars
      => [Store!Next]_Store!vars
  BY StoreStep
<1> QED
  BY <1>1, StoreInit, Invariance, CoherentCorrect, ViewLemma, OwnerLemma, PTL
     DEF Spec, ImplementsStore, Store!Spec
=============================================================================

----------------------------- MODULE PipeProofs -----------------------------
(***************************************************************************)
(* Pipes lose no wakeup and their page is freed exactly when the last user *)
(* leaves, for any number of processes, any size of the ring and any width *)
(* of its counters.                                                        *)
(***************************************************************************)
EXTENDS Pipe, FiniteSetTheorems, SequenceTheorems, TLAPS

(* The counters wrap around within a uint, the index within the ring. *)
LEMMA Wrap ==
  ASSUME NEW n \in Int
  PROVE  n % UINT \in 0..(UINT - 1) /\ n % PIPESIZE \in 0..(PIPESIZE - 1)
BY PipeAssumption

(* A descriptor that is in a table is counted. *)
LEMMA Held ==
  ASSUME TypeOK, CountInv, NEW e \in Ends
  PROVE  ref[e] > 0 <=> \E p \in Procs : e \in ofile[p]
<1> DEFINE S == {p \in Procs : e \in ofile[p]}
<1>1. IsFiniteSet(S)
  BY FS_Subset, PipeAssumption
<1>2. Cardinality(S) \in Nat /\ (Cardinality(S) = 0 <=> S = {})
  BY <1>1, FS_EmptySet, FS_CardinalityType
<1>3. ref[e] = Cardinality(S)
  BY DEF CountInv
<1> QED BY <1>2, <1>3

LEMMA TypeStep == TypeOK /\ CountInv /\ [Next]_vars => TypeOK'
<1> SUFFICES ASSUME TypeOK, CountInv, [Next]_vars PROVE TypeOK'
  OBVIOUS
<1> USE DEF TypeOK
<1>0. UINT \in Nat /\ 0 \in 0..(UINT - 1) /\ Counts \subseteq Nat
  BY PipeAssumption
<1>1. CASE UNCHANGED vars
  BY <1>1 DEF vars, ring, files
<1>2. CASE Next
  <2>0. PICK p \in Procs :
          \/ pipealloc(p) \/ Call(p) \/ Step(p) \/ kill(p) \/ exit(p)
          \/ \E c \in Procs : fork(p, c)
          \/ \E e \in Ends : fileclose(p, e)
    BY <1>2 DEF Next
  <2> USE DEF Points, WritePoints, ReadPoints, ClosePoints, Goto, InUser
  <2>1. CASE pipealloc(p)
    BY <2>1, <1>0 DEF pipealloc, Ends
  <2>2. ASSUME NEW n \in Counts, pipewrite(p, n) PROVE TypeOK'
    BY <2>2, <1>0 DEF pipewrite, ring, files
  <2>3. ASSUME NEW n \in Counts, piperead(p, n) PROVE TypeOK'
    BY <2>3, <1>0 DEF piperead, ring, files
  <2>4. CASE Acquire(p)
    BY <2>4 DEF Acquire, ring, files
  <2>5. CASE pipeclose(p)
    BY <2>5 DEF pipeclose, ring, WakeReaders, WakeWriters
  <2>6. CASE WriteFull(p)
    <3>1. CASE Return(p, pc)
      BY <2>6, <3>1, <1>0 DEF WriteFull, Return, ring, files
    <3>2. CASE ~Return(p, pc)
      BY <2>6, <3>2 DEF WriteFull, ring, files, WakeReaders
    <3> QED BY <3>1, <3>2
  <2>7. CASE WriteDone(p)
    BY <2>7, <1>0 DEF WriteDone, Return, ring, files, WakeReaders
  <2>8. CASE Sleep(p, "wsleep", "wasleep") \/ Sleep(p, "rsleep", "rasleep")
    BY <2>8 DEF Sleep, ring, files
  <2>9. CASE ReadEmpty(p)
    <3>1. CASE Return(p, pc)
      BY <2>9, <3>1, <1>0 DEF ReadEmpty, Return, ring, files
    <3>2. CASE ~Return(p, pc)
      BY <2>9, <3>2 DEF ReadEmpty, ring, files
    <3> QED BY <3>1, <3>2
  <2>10. CASE ReadByte(p)
    <3>1. out' \in Vals /\ nread' \in 0..(UINT - 1)
      BY <2>10, Wrap DEF ReadByte
    <3>2. left' \in [Procs -> Nat] /\ pc' \in [Procs -> Points]
      BY <2>10, <1>0 DEF ReadByte
    <3> QED BY <2>10, <3>1, <3>2 DEF ReadByte, files
  <2>11. CASE ReadDone(p)
    BY <2>11, <1>0 DEF ReadDone, Return, ring, files, WakeWriters
  <2>12. ASSUME NEW v \in Vals, WriteByte(p, v) PROVE TypeOK'
    <3>1. nwrite' \in 0..(UINT - 1)
      BY <2>12, Wrap DEF WriteByte
    <3>2. left' \in [Procs -> Nat]
      BY <2>12, <1>0 DEF WriteByte
    <3>3. data' \in [0..(PIPESIZE - 1) -> Vals]
      BY <2>12 DEF WriteByte
    <3> QED BY <2>12, <3>1, <3>2, <3>3 DEF WriteByte, files
  <2>13. CASE kill(p)
    BY <2>13 DEF kill, ring, files
  <2>14. CASE exit(p)
    BY <2>14 DEF exit, ring, files
  <2>15. ASSUME NEW c \in Procs, fork(p, c) PROVE TypeOK'
    BY <2>15 DEF fork, ring
  <2>16. ASSUME NEW e \in Ends, fileclose(p, e) PROVE TypeOK'
    <3>1. ref[e] > 0
      BY <2>16, Held DEF fileclose
    <3> QED BY <2>16, <3>1 DEF fileclose, ring
  <2> QED
    BY <2>0, <2>1, <2>2, <2>3, <2>4, <2>5, <2>6, <2>7, <2>8, <2>9, <2>10, <2>11,
       <2>12, <2>13, <2>14, <2>15, <2>16 DEF Call, Step
<1> QED BY <1>1, <1>2

-----------------------------------------------------------------------------
EndsInv == CountInv /\ PointInv /\ OpenInv

(* The steps that take, pass on or give up a descriptor, and all the others. *)
LEMMA CountStep == TypeOK /\ EndsInv /\ [Next]_vars => CountInv'
<1> SUFFICES ASSUME TypeOK, EndsInv, [Next]_vars, NEW e \in Ends
             PROVE  ref'[e] = Cardinality({p \in Procs : e \in ofile'[p]})
  BY DEF CountInv
<1> DEFINE S == {p \in Procs : e \in ofile[p]}
           T == {p \in Procs : e \in ofile'[p]}
<1>0. IsFiniteSet(S) /\ Cardinality(S) \in Nat /\ ref[e] = Cardinality(S)
  BY FS_Subset, FS_CardinalityType, PipeAssumption DEF EndsInv, CountInv
<1>1. CASE UNCHANGED <<ref, ofile>>
  BY <1>0, <1>1
<1>2. ASSUME NEW p \in Procs, pipealloc(p) PROVE ref'[e] = Cardinality(T)
  <2>1. \A q \in Procs : ofile[q] = {}
    <3>1. \A x \in Ends : ~(ref[x] > 0)
      BY <1>2 DEF pipealloc, EndsInv, OpenInv, Ends
    <3> QED BY <3>1, Held DEF TypeOK, EndsInv
  <2>2. T = {p}
    BY <1>2, <2>1 DEF pipealloc, TypeOK
  <2> QED BY <1>2, <2>2, FS_Singleton DEF pipealloc
<1>3. ASSUME NEW p \in Procs, NEW c \in Procs, fork(p, c) PROVE ref'[e] = Cardinality(T)
  <2>1. CASE e \in ofile[p]
    <3>1. T = S \cup {c} /\ c \notin S
      BY <1>3, <2>1 DEF fork, TypeOK
    <3>2. Cardinality(T) = Cardinality(S) + 1
      BY <1>0, <3>1, FS_AddElement
    <3>3. ref'[e] = ref[e] + 1
      BY <1>3, <2>1 DEF fork
    <3> QED BY <1>0, <3>2, <3>3
  <2>2. CASE e \notin ofile[p]
    <3>1. T = S
      BY <1>3, <2>2 DEF fork, TypeOK
    <3> QED BY <1>0, <1>3, <2>2, <3>1 DEF fork
  <2> QED BY <2>1, <2>2
<1>4. ASSUME NEW p \in Procs, NEW x \in Ends, fileclose(p, x) PROVE ref'[e] = Cardinality(T)
  <2>1. CASE e = x
    <3>1. T = S \ {p} /\ p \in S
      BY <1>4, <2>1 DEF fileclose, TypeOK
    <3>2. Cardinality(T) = Cardinality(S) - 1
      BY <1>0, <3>1, FS_RemoveElement
    <3>3. ref'[e] = ref[e] - 1
      BY <1>4, <2>1 DEF fileclose, TypeOK
    <3> QED BY <1>0, <3>2, <3>3
  <2>2. CASE e # x
    <3>1. T = S
      BY <1>4, <2>2 DEF fileclose, TypeOK
    <3> QED BY <1>0, <1>4, <2>2, <3>1 DEF fileclose, TypeOK
  <2> QED BY <2>1, <2>2
<1>5. [Next]_vars => \/ UNCHANGED <<ref, ofile>>
                    \/ \E p \in Procs : \/ pipealloc(p)
                                        \/ \E c \in Procs : fork(p, c)
                                        \/ \E x \in Ends : fileclose(p, x)
  BY DEF Next, vars, Call, Step, pipewrite, piperead, Acquire, pipeclose, WriteFull, WriteDone,
         Sleep, ReadEmpty, ReadByte, ReadDone, WriteByte, kill, exit, Return, files
<1> QED BY <1>1, <1>2, <1>3, <1>4, <1>5

(* wakeup only moves processes that are asleep; the one that returns is back in
   user space. *)
Moved(q) ==
  \/ pc'[q] = pc[q]
  \/ pc[q] = "rasleep" /\ pc'[q] = "rlock"
  \/ pc[q] = "wasleep" /\ pc'[q] = "wlock"

LEMMA ReturnFacts ==
  ASSUME TypeOK, NEW p \in Procs,
         Return(p, pc) \/ Return(p, WakeReaders(pc)) \/ Return(p, WakeWriters(pc))
  PROVE  /\ pc'[p] = "user" /\ lock' = None
         /\ \A q \in Procs : q # p => Moved(q)
BY DEF Return, WakeReaders, WakeWriters, TypeOK, Moved

LEMMA LockStep == TypeOK /\ LockInv /\ [Next]_vars => LockInv'
<1> SUFFICES ASSUME TypeOK, LockInv, [Next]_vars PROVE LockInv'
  OBVIOUS
<1> USE PipeAssumption DEF TypeOK, LockInv, Holding, Goto, InUser
<1>1. CASE UNCHANGED <<pc, lock>>
  BY <1>1
<1>2. ASSUME NEW p \in Procs, Call(p) \/ kill(p) PROVE LockInv'
  BY <1>2 DEF Call, pipewrite, piperead, kill
<1>3. ASSUME NEW p \in Procs, Acquire(p) PROVE LockInv'
  BY <1>3 DEF Acquire
<1>4. ASSUME NEW p \in Procs, pipeclose(p) PROVE LockInv'
  BY <1>4 DEF pipeclose, ClosePoints, WakeReaders, WakeWriters
<1>5. ASSUME NEW p \in Procs, pc[p] \in Holding,
             Return(p, pc) \/ Return(p, WakeReaders(pc)) \/ Return(p, WakeWriters(pc))
      PROVE  LockInv'
  <2>1. lock = p
    BY <1>5
  <2> QED BY <1>5, <2>1, ReturnFacts DEF Moved
<1>6. ASSUME NEW p \in Procs, Sleep(p, "wsleep", "wasleep") \/ Sleep(p, "rsleep", "rasleep")
      PROVE  LockInv'
  BY <1>6 DEF Sleep
<1>7. ASSUME NEW p \in Procs, WriteFull(p) \/ ReadEmpty(p) \/ ReadByte(p),
             ~Return(p, pc)
      PROVE  LockInv'
  BY <1>7 DEF WriteFull, ReadEmpty, ReadByte, WakeReaders
<1>8. ASSUME NEW p \in Procs, NEW e \in Ends, fileclose(p, e) PROVE LockInv'
  BY <1>8 DEF fileclose
<1>9. \A p \in Procs :
        \/ pipealloc(p) \/ exit(p) \/ (\E c \in Procs : fork(p, c)) \/ (\E v \in Vals : WriteByte(p, v))
        => UNCHANGED <<pc, lock>>
  BY DEF pipealloc, exit, fork, WriteByte
<1>10. ASSUME NEW p \in Procs,
              WriteFull(p) \/ WriteDone(p) \/ ReadEmpty(p) \/ ReadByte(p) \/ ReadDone(p)
       PROVE  LockInv'
  <2>1. pc[p] \in Holding
    BY <1>10 DEF WriteFull, WriteDone, ReadEmpty, ReadByte, ReadDone
  <2>2. WriteDone(p) \/ ReadDone(p) => Return(p, WakeReaders(pc)) \/ Return(p, WakeWriters(pc))
    BY DEF WriteDone, ReadDone
  <2> QED BY <1>5, <1>7, <1>10, <2>1, <2>2
<1> QED BY <1>1, <1>2, <1>3, <1>4, <1>6, <1>8, <1>9, <1>10 DEF Next, Step, vars

-----------------------------------------------------------------------------
(* A step that leaves the files alone, moves nobody into or out of pipeclose
   and nobody into the ring's code without a descriptor. *)
Quiet ==
  /\ UNCHANGED files
  /\ \A q \in Procs :
       /\ pc'[q] \in ReadPoints => pc[q] \in ReadPoints \/ "r" \in ofile[q]
       /\ pc'[q] \in WritePoints => pc[q] \in WritePoints \/ "w" \in ofile[q]
       /\ pc'[q] = "rclose" <=> pc[q] = "rclose"
       /\ pc'[q] = "wclose" <=> pc[q] = "wclose"

LEMMA QuietEnds == PointInv /\ OpenInv /\ Quiet => PointInv' /\ OpenInv'
BY DEF PointInv, OpenInv, Quiet, files

LEMMA QuietSteps ==
  ASSUME TypeOK, NEW p \in Procs,
         \/ Call(p) \/ kill(p) \/ exit(p) \/ (Step(p) /\ ~pipeclose(p))
  PROVE  Quiet
<1> USE DEF TypeOK, Goto, InUser, Quiet, ReadPoints, WritePoints
<1>1. CASE Call(p) \/ kill(p) \/ exit(p)
  BY <1>1 DEF Call, pipewrite, piperead, kill, exit
<1>2. ASSUME pc[p] \in Holding,
             Return(p, pc) \/ Return(p, WakeReaders(pc)) \/ Return(p, WakeWriters(pc))
      PROVE  Quiet
  <2>1. UNCHANGED files
    BY <1>2 DEF Return
  <2> QED BY <1>2, <2>1, ReturnFacts DEF Moved, Holding
<1>3. CASE (WriteFull(p) \/ ReadEmpty(p)) /\ ~Return(p, pc)
  BY <1>3 DEF WriteFull, ReadEmpty, WakeReaders
<1>4. CASE Acquire(p) \/ ReadByte(p) \/ Sleep(p, "wsleep", "wasleep") \/ Sleep(p, "rsleep", "rasleep")
  BY <1>4 DEF Acquire, ReadByte, Sleep
<1>5. CASE WriteDone(p) \/ ReadDone(p)
  BY <1>2, <1>5 DEF WriteDone, ReadDone, Holding
<1>6. CASE \E v \in Vals : WriteByte(p, v)
  BY <1>6 DEF WriteByte
<1>7. CASE WriteFull(p) \/ ReadEmpty(p)
  BY <1>2, <1>3, <1>7 DEF WriteFull, ReadEmpty, Holding
<1> QED BY <1>1, <1>4, <1>5, <1>6, <1>7 DEF Step

LEMMA EndsStep == TypeOK /\ EndsInv /\ [Next]_vars => EndsInv'
<1> SUFFICES ASSUME TypeOK, EndsInv, [Next]_vars PROVE EndsInv'
  OBVIOUS
<1>0. CountInv' /\ CountInv /\ PointInv /\ OpenInv
  BY CountStep DEF EndsInv
<1>1. \A e \in Ends : ref[e] \in Nat /\ (ref[e] > 0 <=> \E p \in Procs : e \in ofile[p])
  BY <1>0, Held DEF TypeOK
<1> USE DEF Ends
<1>2. CASE UNCHANGED vars
  BY <1>0, <1>2, QuietEnds DEF vars, Quiet, EndsInv
<1>3. ASSUME NEW p \in Procs, pipealloc(p) PROVE PointInv' /\ OpenInv'
  <2>1. /\ \A e \in Ends : ~(ref[e] > 0)
        /\ \A q \in Procs : pc[q] # "rclose" /\ pc[q] # "wclose"
    BY <1>0, <1>3 DEF pipealloc, OpenInv
  <2>2. \A q \in Procs : ofile[q] = {}
    BY <1>1, <2>1 DEF TypeOK
  <2>3. \A q \in Procs : pc[q] \notin ReadPoints /\ pc[q] \notin WritePoints
    BY <1>0, <2>2 DEF PointInv
  <2> QED BY <1>3, <2>1, <2>3 DEF pipealloc, PointInv, OpenInv
<1>4. ASSUME NEW p \in Procs, NEW c \in Procs, fork(p, c) PROVE PointInv' /\ OpenInv'
  <2>1. \A e \in Ends : (ref'[e] > 0 <=> ref[e] > 0) /\ (ref[e] = 0 => ref'[e] = 0)
    BY <1>1, <1>4 DEF fork
  <2>2. \A q \in Procs : ofile[q] \subseteq ofile'[q]
    BY <1>4 DEF fork, TypeOK
  <2> QED BY <1>0, <1>4, <2>1, <2>2 DEF fork, PointInv, OpenInv
<1>5. ASSUME NEW p \in Procs, NEW e \in Ends, fileclose(p, e) PROVE PointInv' /\ OpenInv'
  <2>1. ref[e] > 0 /\ ref'[e] = ref[e] - 1 /\ \A x \in Ends : x # e => ref'[x] = ref[x]
    BY <1>1, <1>5 DEF fileclose, TypeOK
  <2>2. /\ e = "r" => readopen /\ \A q \in Procs : pc[q] # "rclose"
        /\ e = "w" => writeopen /\ \A q \in Procs : pc[q] # "wclose"
    BY <1>0, <2>1 DEF OpenInv, PointInv
  <2>3. \A q \in Procs : q # p => ofile'[q] = ofile[q] /\ pc'[q] = pc[q]
    BY <1>5 DEF fileclose, Goto, TypeOK
  <2>4. CASE ref[e] > 1
    <3>1. pc' = pc /\ ref'[e] > 0
      BY <1>1, <1>5, <2>1, <2>4 DEF fileclose
    <3> QED BY <1>0, <1>1, <1>5, <2>1, <2>2, <2>3, <3>1
            DEF fileclose, PointInv, OpenInv, ReadPoints, WritePoints
  <2>5. CASE ~(ref[e] > 1)
    <3>1. ref'[e] = 0
      BY <1>1, <2>1, <2>5
    <3>2. pc'[p] = IF e = "w" THEN "wclose" ELSE "rclose"
      BY <1>5, <2>5 DEF fileclose, Goto, TypeOK
    <3> QED BY <1>0, <1>5, <2>1, <2>2, <2>3, <3>1, <3>2
            DEF fileclose, PointInv, OpenInv, ReadPoints, WritePoints
  <2> QED BY <2>4, <2>5
<1>6. ASSUME NEW p \in Procs, pipeclose(p) PROVE PointInv' /\ OpenInv'
  <2>1. /\ pc[p] \in {"rclose", "wclose"} /\ pc'[p] = "user"
        /\ \A q \in Procs : q # p => Moved(q)
    BY <1>6 DEF pipeclose, ClosePoints, WakeReaders, WakeWriters, Goto, TypeOK, Moved
  <2>2. CASE pc[p] = "rclose"
    <3>1. /\ readopen' = FALSE /\ writeopen' = writeopen /\ UNCHANGED <<ref, ofile>>
          /\ live' <=> writeopen
      BY <1>6, <2>2 DEF pipeclose, TypeOK
    <3>2. /\ \A q \in Procs : pc'[q] # "rclose"
          /\ \A q \in Procs : pc'[q] = "wclose" <=> pc[q] = "wclose"
          /\ ~(ref["r"] > 0)
      BY <1>0, <2>1, <2>2 DEF PointInv, Moved
    <3>3. PointInv'
      BY <1>0, <2>1, <3>1, <3>2 DEF PointInv, Moved, ReadPoints, WritePoints
    <3>4. OpenInv'
      BY <1>0, <3>1, <3>2 DEF OpenInv
    <3> QED BY <3>3, <3>4
  <2>3. CASE pc[p] = "wclose"
    <3>1. /\ writeopen' = FALSE /\ readopen' = readopen /\ UNCHANGED <<ref, ofile>>
          /\ live' <=> readopen
      BY <1>6, <2>3 DEF pipeclose, TypeOK
    <3>2. /\ \A q \in Procs : pc'[q] # "wclose"
          /\ \A q \in Procs : pc'[q] = "rclose" <=> pc[q] = "rclose"
          /\ ~(ref["w"] > 0)
      BY <1>0, <2>1, <2>3 DEF PointInv, Moved
    <3>3. PointInv'
      BY <1>0, <2>1, <3>1, <3>2 DEF PointInv, Moved, ReadPoints, WritePoints
    <3>4. OpenInv'
      BY <1>0, <3>1, <3>2 DEF OpenInv
    <3> QED BY <3>3, <3>4
  <2> QED BY <2>1, <2>2, <2>3
<1>7. ASSUME NEW p \in Procs, Call(p) \/ kill(p) \/ exit(p) \/ (Step(p) /\ ~pipeclose(p))
      PROVE  PointInv' /\ OpenInv'
  BY <1>0, <1>7, QuietSteps, QuietEnds
<1> QED BY <1>0, <1>2, <1>3, <1>4, <1>5, <1>6, <1>7 DEF Next, EndsInv

-----------------------------------------------------------------------------
(* One process at a time is between acquire and release. *)
LEMMA OneHolder ==
  ASSUME LockInv, NEW p \in Procs, NEW q \in Procs, pc[p] \in Holding, pc[q] \in Holding
  PROVE  p = q
BY DEF LockInv

LEMMA WakeStep == TypeOK /\ LockInv /\ EndsInv /\ WakeInv /\ [Next]_vars => WakeInv'
<1> SUFFICES ASSUME TypeOK, LockInv, EndsInv, WakeInv, [Next]_vars PROVE WakeInv'
  OBVIOUS
<1> USE DEF Goto, InUser, Moved
<1>0. /\ PointInv /\ OpenInv
      /\ \A p \in Procs : ("w" \in ofile[p] => writeopen) /\ ("r" \in ofile[p] => readopen)
  BY Held DEF EndsInv, OpenInv, Ends
<1>a. ASSUME NEW p \in Procs, pc[p] \in Holding
      PROVE  \A q \in Procs : pc[q] \in Holding => q = p
  BY <1>a, OneHolder
<1>1. CASE UNCHANGED <<nread, nwrite, readopen, writeopen, pc, cut>>
  BY <1>1 DEF WakeInv, Empty, Full
<1>2. ASSUME NEW p \in Procs, Call(p) \/ kill(p) PROVE WakeInv'
  <2>1. UNCHANGED <<nread, nwrite, readopen, writeopen, cut>>
    BY <1>2 DEF Call, pipewrite, piperead, kill, ring, files
  <2>2. /\ \A q \in Procs : pc'[q] \in {"rsleep", "wsleep", "rasleep", "wasleep"} => pc'[q] = pc[q]
        /\ \A q \in Procs : pc[q] \in {"wtest", "rcopy"} => pc'[q] = pc[q]
    BY <1>2 DEF Call, pipewrite, piperead, kill, TypeOK
  <2> QED BY <2>1, <2>2 DEF WakeInv, Empty, Full
<1>3. ASSUME NEW p \in Procs, Acquire(p) PROVE WakeInv'
  <2>1. UNCHANGED <<nread, nwrite, readopen, writeopen, cut>>
    BY <1>3 DEF Acquire, ring, files
  <2>2. /\ \A q \in Procs : pc'[q] \in {"rsleep", "wsleep", "rasleep", "wasleep"} => pc'[q] = pc[q]
        /\ \A q \in Procs : pc[q] \in {"wtest", "rcopy"} => pc'[q] = pc[q]
    BY <1>3 DEF Acquire, TypeOK
  <2> QED BY <2>1, <2>2 DEF WakeInv, Empty, Full
<1>4. ASSUME NEW p \in Procs, pipeclose(p) PROVE WakeInv'
  <2>1. \A q \in Procs : pc[q] \notin Holding
    BY <1>4, PipeAssumption DEF pipeclose, LockInv
  <2>2. pc'[p] = "user" /\ \A q \in Procs : q # p => Moved(q)
    BY <1>4 DEF pipeclose, WakeReaders, WakeWriters, TypeOK
  <2>3. UNCHANGED <<nread, nwrite, cut>>
    BY <1>4 DEF pipeclose, ring
  <2>4. CASE pc[p] = "wclose"
    <3>1. readopen' = readopen /\ \A q \in Procs : pc'[q] # "rasleep"
      BY <1>4, <2>4 DEF pipeclose, WakeReaders, TypeOK
    <3> QED BY <2>1, <2>2, <2>3, <3>1 DEF WakeInv, Empty, Full, Holding
  <2>5. CASE pc[p] # "wclose"
    <3>1. writeopen' = writeopen /\ \A q \in Procs : pc'[q] # "wasleep"
      BY <1>4, <2>5 DEF pipeclose, WakeWriters, TypeOK
    <3> QED BY <2>1, <2>2, <2>3, <3>1 DEF WakeInv, Empty, Full, Holding
  <2> QED BY <2>4, <2>5
<1>5. ASSUME NEW p \in Procs, WriteFull(p) PROVE WakeInv'
  <2>1. \A q \in Procs : pc[q] \in Holding => q = p
    BY <1>5, <1>a DEF WriteFull, Holding
  <2>2. pc[p] = "wtest" /\ Full /\ UNCHANGED <<nread, nwrite, readopen, writeopen>>
    BY <1>5 DEF WriteFull, Return, ring, files
  <2>3. writeopen
    BY <1>0, <2>2 DEF PointInv, WritePoints
  <2>4. CASE Return(p, pc)
    <3>1. pc'[p] = "user" /\ \A q \in Procs : q # p => pc'[q] = pc[q]
      BY <2>4 DEF Return, TypeOK
    <3>2. CASE readopen
      <4>1. cut' = TRUE
        BY <1>5, <3>1, <3>2 DEF WriteFull, WakeReaders, TypeOK
      <4> QED BY <2>1, <2>2, <2>3, <3>1, <4>1 DEF WakeInv, Empty, Full, Holding
    <3>3. CASE ~readopen
      <4>1. \A q \in Procs : pc[q] # "rasleep"
        BY <1>0, <3>3 DEF PointInv, ReadPoints
      <4> QED BY <2>1, <2>2, <3>1, <3>3, <4>1 DEF WakeInv, Empty, Full, Holding
    <3> QED BY <3>2, <3>3
  <2>5. CASE ~Return(p, pc)
    <3>1. /\ readopen /\ pc'[p] = "wsleep"
          /\ \A q \in Procs : q # p => Moved(q) /\ pc'[q] # "rasleep"
      BY <1>5, <2>5 DEF WriteFull, WakeReaders, TypeOK
    <3> QED BY <2>1, <2>2, <3>1 DEF WakeInv, Empty, Full, Holding
  <2> QED BY <2>4, <2>5
<1>6. ASSUME NEW p \in Procs, WriteDone(p) PROVE WakeInv'
  <2>1. \A q \in Procs : pc[q] \in Holding => q = p
    BY <1>6, <1>a DEF WriteDone, Holding
  <2>2. pc[p] = "wtest" /\ UNCHANGED <<nread, nwrite, readopen, writeopen, cut>>
    BY <1>6 DEF WriteDone, Return, ring, files
  <2>3. pc'[p] = "user" /\ \A q \in Procs : q # p => Moved(q) /\ pc'[q] # "rasleep"
    BY <1>6 DEF WriteDone, Return, WakeReaders, TypeOK
  <2> QED BY <2>1, <2>2, <2>3 DEF WakeInv, Empty, Full, Holding
<1>7. ASSUME NEW p \in Procs, Sleep(p, "wsleep", "wasleep") \/ Sleep(p, "rsleep", "rasleep")
      PROVE  WakeInv'
  <2>1. UNCHANGED <<nread, nwrite, readopen, writeopen, cut>>
    BY <1>7 DEF Sleep, ring, files
  <2>2. /\ \/ pc[p] = "wsleep" /\ pc'[p] = "wasleep"
           \/ pc[p] = "rsleep" /\ pc'[p] = "rasleep"
        /\ \A q \in Procs : q # p => pc'[q] = pc[q]
    BY <1>7 DEF Sleep, TypeOK
  <2> QED BY <2>1, <2>2 DEF WakeInv, Empty, Full
<1>8. ASSUME NEW p \in Procs, ReadEmpty(p) PROVE WakeInv'
  <2>1. UNCHANGED <<nread, nwrite, readopen, writeopen, cut>> /\ pc[p] = "rtest"
    BY <1>8 DEF ReadEmpty, Return, ring, files
  <2>2. /\ pc'[p] = "user" \/ (pc'[p] = "rsleep" /\ Empty /\ writeopen)
        /\ \A q \in Procs : q # p => pc'[q] = pc[q]
    BY <1>8 DEF ReadEmpty, Return, TypeOK
  <2> QED BY <2>1, <2>2 DEF WakeInv, Empty, Full
<1>9. ASSUME NEW p \in Procs, ReadByte(p) PROVE WakeInv'
  <2>1. \A q \in Procs : pc[q] \in Holding => q = p
    BY <1>9, <1>a DEF ReadByte, Holding
  <2>2. /\ ~Empty /\ pc[p] \in {"rtest", "rcopy"} /\ pc'[p] = "rcopy"
        /\ UNCHANGED <<readopen, writeopen, cut>>
        /\ \A q \in Procs : q # p => pc'[q] = pc[q]
    BY <1>9 DEF ReadByte, files, TypeOK
  <2> QED BY <2>1, <2>2 DEF WakeInv, Holding
<1>10. ASSUME NEW p \in Procs, ReadDone(p) PROVE WakeInv'
  <2>1. \A q \in Procs : pc[q] \in Holding => q = p
    BY <1>10, <1>a DEF ReadDone, Holding
  <2>2. pc[p] \in {"rtest", "rcopy"} /\ UNCHANGED <<nread, nwrite, readopen, writeopen, cut>>
    BY <1>10 DEF ReadDone, Return, ring, files
  <2>3. pc'[p] = "user" /\ \A q \in Procs : q # p => Moved(q) /\ pc'[q] # "wasleep"
    BY <1>10 DEF ReadDone, Return, WakeWriters, TypeOK
  <2> QED BY <2>1, <2>2, <2>3 DEF WakeInv, Empty, Full, Holding
<1>11. ASSUME NEW p \in Procs, NEW v \in Vals, WriteByte(p, v) PROVE WakeInv'
  <2>1. \A q \in Procs : pc[q] \in Holding => q = p
    BY <1>11, <1>a DEF WriteByte, Holding
  <2>2. pc[p] = "wtest" /\ ~Full /\ UNCHANGED <<readopen, writeopen, cut, pc>>
    BY <1>11 DEF WriteByte, files
  <2> QED BY <2>1, <2>2 DEF WakeInv, Holding
<1>12. ASSUME NEW p \in Procs, pipealloc(p) PROVE WakeInv'
  <2>1. \A q \in Procs : ofile[q] = {}
    <3>1. \A e \in Ends : ~(ref[e] > 0)
      BY <1>0, <1>12 DEF pipealloc, OpenInv, Ends
    <3> QED BY <3>1, Held DEF EndsInv, TypeOK
  <2> QED BY <1>0, <1>12, <2>1 DEF pipealloc, PointInv, ReadPoints, WritePoints, WakeInv
<1>13. ASSUME NEW p \in Procs, NEW e \in Ends, fileclose(p, e) PROVE WakeInv'
  <2>1. UNCHANGED <<nread, nwrite, readopen, writeopen, cut>>
    BY <1>13 DEF fileclose, ring
  <2>2. /\ \A q \in Procs : pc'[q] \in {"rsleep", "wsleep", "rasleep", "wasleep"} => pc'[q] = pc[q]
        /\ \A q \in Procs : pc[q] \in {"wtest", "rcopy"} => pc'[q] = pc[q]
    BY <1>13 DEF fileclose, TypeOK
  <2> QED BY <2>1, <2>2 DEF WakeInv, Empty, Full
<1>14. \A p \in Procs : exit(p) \/ (\E c \in Procs : fork(p, c))
         => UNCHANGED <<nread, nwrite, readopen, writeopen, pc, cut>>
  BY DEF exit, fork, ring, files
<1> QED
  BY <1>1, <1>2, <1>3, <1>4, <1>5, <1>6, <1>7, <1>8, <1>9, <1>10, <1>11, <1>12, <1>13, <1>14
  DEF Next, Step, vars, ring, files

-----------------------------------------------------------------------------
(* Once the end of the file has been reported nobody is left who could write. *)
LEMMA EofStep == TypeOK /\ EndsInv /\ EofInv /\ [Next]_vars => EofInv'
<1> SUFFICES ASSUME TypeOK, EndsInv, EofInv, [Next]_vars PROVE EofInv'
  OBVIOUS
<1>0. /\ PointInv /\ OpenInv
      /\ \A p \in Procs : ("w" \in ofile[p] => writeopen) /\ ("r" \in ofile[p] => readopen)
  BY Held DEF EndsInv, OpenInv, Ends
<1>1. CASE UNCHANGED <<nread, nwrite, writeopen, live, eof>>
  BY <1>1 DEF EofInv, Empty
<1>2. ASSUME NEW p \in Procs, pipealloc(p) PROVE EofInv'
  BY <1>2 DEF pipealloc, EofInv
<1>3. ASSUME NEW p \in Procs, pipeclose(p) PROVE EofInv'
  <2>1. writeopen' => writeopen
    BY <1>3 DEF pipeclose
  <2>2. live
    BY <1>0, <1>3 DEF pipeclose, ClosePoints, PointInv, OpenInv
  <2> QED BY <1>3, <2>1, <2>2 DEF pipeclose, EofInv, Empty, ring
<1>4. ASSUME NEW p \in Procs, NEW v \in Vals, WriteByte(p, v) PROVE EofInv'
  <2>1. writeopen /\ live
    BY <1>0, <1>4 DEF WriteByte, PointInv, WritePoints, OpenInv
  <2> QED BY <1>4, <2>1 DEF WriteByte, EofInv, files
<1>5. ASSUME NEW p \in Procs, ReadByte(p) PROVE EofInv'
  <2>1. live
    BY <1>0, <1>5 DEF ReadByte, PointInv, ReadPoints, OpenInv
  <2> QED BY <1>5, <2>1 DEF ReadByte, EofInv, files
<1>6. ASSUME NEW p \in Procs, ReadDone(p) PROVE EofInv'
  <2>1. CASE pc[p] = "rcopy"
    BY <1>6, <2>1 DEF ReadDone, Return, EofInv, Empty, ring, files, TypeOK
  <2>2. CASE pc[p] # "rcopy"
    BY <1>6, <2>2 DEF ReadDone, Return, EofInv, Empty, ring, files
  <2> QED BY <2>1, <2>2
<1>7. ASSUME NEW p \in Procs,
             \/ Call(p) \/ kill(p) \/ exit(p) \/ Acquire(p) \/ WriteFull(p) \/ WriteDone(p)
             \/ ReadEmpty(p) \/ Sleep(p, "wsleep", "wasleep") \/ Sleep(p, "rsleep", "rasleep")
             \/ \E c \in Procs : fork(p, c)
             \/ \E e \in Ends : fileclose(p, e)
      PROVE  UNCHANGED <<nread, nwrite, writeopen, live, eof>>
  BY <1>7 DEF Call, pipewrite, piperead, kill, exit, Acquire, WriteFull, WriteDone, ReadEmpty,
              Sleep, fork, fileclose, Return, ring, files
<1> QED
  BY <1>1, <1>2, <1>3, <1>4, <1>5, <1>6, <1>7 DEF Next, Step, vars, ring, files

-----------------------------------------------------------------------------
PipeInv == TypeOK /\ LockInv /\ EndsInv /\ WakeInv /\ EofInv

LEMMA InitInv == Init => PipeInv
<1> SUFFICES ASSUME Init PROVE PipeInv
  OBVIOUS
<1>1. TypeOK
  <2>1. 0 \in 0..(UINT - 1)
    BY PipeAssumption
  <2> QED BY <2>1 DEF Init, TypeOK, Points
<1>2. LockInv
  BY PipeAssumption DEF Init, LockInv, Holding
<1>3. CountInv
  <2> SUFFICES ASSUME NEW e \in Ends PROVE ref[e] = Cardinality({p \in Procs : e \in ofile[p]})
    BY DEF CountInv
  <2>1. {p \in Procs : e \in ofile[p]} = {}
    BY DEF Init
  <2> QED BY <2>1, FS_EmptySet DEF Init
<1>4. PointInv /\ OpenInv
  BY DEF Init, PointInv, OpenInv, ReadPoints, WritePoints, Ends
<1>5. WakeInv /\ EofInv
  BY DEF Init, WakeInv, EofInv
<1> QED BY <1>1, <1>2, <1>3, <1>4, <1>5 DEF PipeInv, EndsInv

(* The invariant of pipes. *)
THEOREM Invariance == Spec => []PipeInv
<1>1. PipeInv /\ [Next]_vars => PipeInv'
  BY TypeStep, LockStep, EndsStep, WakeStep, EofStep DEF PipeInv, EndsInv
<1> QED BY InitInv, <1>1, PTL DEF Spec

(* The variables keep their types; in particular no file has a negative number
   of references. *)
THEOREM TypeCorrect == Spec => []TypeOK
BY Invariance, PTL DEF PipeInv

(* No reader and no writer misses its wakeup (pipe.c:78-120), but for the
   readers that a killed writer passes over. *)
THEOREM NoLostWakeupCorrect == Spec => []NoLostWakeup
<1>1. PipeInv => NoLostWakeup
  <2> SUFFICES ASSUME PipeInv, lock = None PROVE NoLostWakeup
    BY DEF NoLostWakeup
  <2>1. \A p \in Procs : pc[p] # "wtest" /\ pc[p] # "rcopy"
    BY PipeAssumption DEF PipeInv, LockInv, Holding
  <2> QED BY <2>1 DEF PipeInv, WakeInv, NoLostWakeup
<1> QED BY Invariance, <1>1, PTL

(* The page is allocated exactly while some process can use it: no use after
   free, no second free and no leak (pipe.c:58-74, file.c:54-79). *)
THEOREM PageOwnedCorrect == Spec => []PageOwned
<1>1. PipeInv => PageOwned
  <2> SUFFICES ASSUME PipeInv PROVE PageOwned
    OBVIOUS
  <2>1. \A e \in Ends : ref[e] > 0 <=> \E p \in Procs : e \in ofile[p]
    BY Held DEF PipeInv, EndsInv
  <2>2. PointInv /\ OpenInv /\ ofile \in [Procs -> SUBSET Ends] /\ pc \in [Procs -> Points]
    BY DEF PipeInv, EndsInv, TypeOK
  <2>3. ASSUME live PROVE \E p \in Procs : ofile[p] # {} \/ pc[p] # "user"
    BY <2>1, <2>2, <2>3 DEF OpenInv, Ends
  <2>4. ASSUME NEW p \in Procs, ofile[p] # {} PROVE live
    BY <2>1, <2>2, <2>4 DEF OpenInv, Ends
  <2>5. ASSUME NEW p \in Procs, pc[p] # "user" PROVE live
    <3>1. CASE pc[p] \in ReadPoints \cup WritePoints
      BY <2>2, <2>4, <3>1 DEF PointInv
    <3>2. CASE pc[p] \in ClosePoints
      BY <2>2, <3>2 DEF PointInv, OpenInv, ClosePoints
    <3> QED BY <2>2, <2>5, <3>1, <3>2 DEF Points
  <2> QED BY <2>3, <2>4, <2>5 DEF PageOwned
<1> QED BY Invariance, <1>1, PTL

(* The end of the file is final (pipe.c:105, 113). *)
THEOREM EofIsFinalCorrect == Spec => []EofIsFinal
<1>1. PipeInv => EofIsFinal
  <2> SUFFICES ASSUME PipeInv, eof, live PROVE EofIsFinal
    BY DEF EofIsFinal
  <2>1. Empty /\ ~writeopen
    BY DEF PipeInv, EofInv
  <2>2. \A p \in Procs : "w" \notin ofile[p]
    BY <2>1, Held DEF PipeInv, EndsInv, OpenInv, Ends
  <2> QED BY <2>1, <2>2 DEF EofIsFinal
<1> QED BY Invariance, <1>1, PTL

-----------------------------------------------------------------------------
(* The ring and its counters: remainders are unique, so a counter that wraps
   goes on in the ring where it was, and two positions less than a ring apart
   are two slots. *)
LEMMA DivMod ==
  ASSUME NEW a \in Int, NEW P \in Nat \ {0}
  PROVE  /\ a % P \in 0..(P - 1) /\ a \div P \in Int
         /\ a = P * (a \div P) + (a % P)
OBVIOUS

LEMMA NoMultiple ==
  ASSUME NEW P \in Nat \ {0}, NEW d \in Int, 0 < P * d, P * d < P
  PROVE  FALSE
<1>1. CASE d <= 0
  BY <1>1
<1>2. CASE d >= 1
  BY <1>2
<1> QED BY <1>1, <1>2

LEMMA ModUnique ==
  ASSUME NEW P \in Nat \ {0}, NEW a \in Int, NEW q \in Int, NEW s \in 0..(P - 1),
         a = P * q + s
  PROVE  a % P = s
<1> DEFINE c == a \div P
           t == a % P
<1>1. c \in Int /\ t \in 0..(P - 1) /\ a = P * c + t
  BY DivMod
<1> HIDE DEF c, t
<1> DEFINE d == q - c
           f == c - q
<1>2. d \in Int /\ f \in Int /\ P * d = t - s /\ P * f = s - t
  <2>1. P * q - P * c = P * (q - c) /\ P * c - P * q = P * (c - q)
    BY <1>1
  <2> QED BY <1>1, <2>1
<1> HIDE DEF d, f
<1>3. ASSUME t > s PROVE FALSE
  <2>1. 0 < P * d /\ P * d < P
    BY <1>1, <1>2, <1>3
  <2> QED BY <1>2, <2>1, NoMultiple
<1>4. ASSUME t < s PROVE FALSE
  <2>1. 0 < P * f /\ P * f < P
    BY <1>1, <1>2, <1>4
  <2> QED BY <1>2, <2>1, NoMultiple
<1>5. t = s
  BY <1>1, <1>3, <1>4
<1> QED BY <1>5 DEF t

LEMMA ModSmall ==
  ASSUME NEW P \in Nat \ {0}, NEW s \in 0..(P - 1)
  PROVE  s % P = s
<1>1. s = P * 0 + s /\ 0 \in Int /\ s \in Int
  OBVIOUS
<1> QED BY <1>1, ModUnique

LEMMA ModShift ==
  ASSUME NEW P \in Nat \ {0}, NEW a \in Int, NEW U \in Int, U % P = 0
  PROVE  (a - U) % P = a % P
<1> DEFINE q == a \div P
           k == U \div P
           s == a % P
           d == a - U
<1>1. q \in Int /\ s \in 0..(P - 1) /\ a = P * q + s
  BY DivMod
<1>2. k \in Int /\ U = P * k + 0
  BY DivMod
<1>3. d \in Int /\ d = a - U
  OBVIOUS
<1> HIDE DEF q, k, s, d
<1>4. d = P * (q - k) + s
  <2>1. P * q - P * k = P * (q - k)
    BY <1>1, <1>2
  <2> QED BY <1>1, <1>2, <1>3, <2>1
<1>5. d % P = s
  BY <1>1, <1>2, <1>3, <1>4, ModUnique
<1> QED BY <1>5 DEF s, d

LEMMA ModWrap ==
  ASSUME NEW P \in Nat \ {0}, NEW a \in Int
  PROVE  (a - P) % P = a % P
<1>1. P = P * 1 + 0 /\ P \in Int /\ 0 \in 0..(P - 1) /\ 1 \in Int
  OBVIOUS
<1>2. P % P = 0
  BY <1>1, ModUnique
<1> DEFINE U == P
<1>3. U \in Int /\ U % P = 0
  BY <1>1, <1>2
<1> HIDE DEF U
<1>4. (a - U) % P = a % P
  BY <1>3, ModShift
<1> QED BY <1>4 DEF U

LEMMA ModDistinct ==
  ASSUME NEW P \in Nat \ {0}, NEW a \in Int, NEW b \in Int, a < b, b < a + P
  PROVE  a % P # b % P
<1> SUFFICES ASSUME a % P = b % P PROVE FALSE
  OBVIOUS
<1> DEFINE c == a \div P
           d == b \div P
           s == a % P
<1>1. c \in Int /\ d \in Int /\ s \in Int /\ a = P * c + s /\ b = P * d + s
  BY DivMod
<1> HIDE DEF c, d, s
<1>2. P * (d - c) = b - a
  <2>1. P * d - P * c = P * (d - c)
    BY <1>1
  <2> QED BY <1>1, <2>1
<1> QED BY <1>1, <1>2, NoMultiple

LEMMA Sizes ==
  /\ PIPESIZE \in Nat \ {0} /\ UINT \in Nat \ {0} /\ PIPESIZE < UINT
  /\ UINT % PIPESIZE = 0 /\ 0 \in 0..(UINT - 1)
BY PipeAssumption

(* The arithmetic of a uint. *)
LEMMA Uint ==
  ASSUME NEW x \in 0..(UINT - 1), NEW y \in 0..(UINT - 1), NEW k \in 0..(UINT - 1)
  PROVE  /\ (x - y) % UINT = IF x >= y THEN x - y ELSE x - y + UINT
         /\ (x + k) % UINT = IF x + k < UINT THEN x + k ELSE x + k - UINT
<1> USE Sizes
<1>1. CASE x >= y
  BY <1>1, ModSmall
<1>2. ASSUME x < y PROVE (x - y) % UINT = x - y + UINT
  <2> DEFINE d == x - y + UINT
  <2>1. d \in 0..(UINT - 1) /\ d \in Int /\ d - UINT = x - y
    BY <1>2
  <2> HIDE DEF d
  <2>2. d % UINT = d
    BY <2>1, ModSmall
  <2>3. (d - UINT) % UINT = d % UINT
    BY <2>1, ModWrap
  <2> QED BY <2>1, <2>2, <2>3 DEF d
<1>3. CASE x + k < UINT
  BY <1>3, ModSmall
<1>4. ASSUME x + k >= UINT PROVE (x + k) % UINT = x + k - UINT
  <2> DEFINE d == x + k
  <2>1. d - UINT \in 0..(UINT - 1) /\ d \in Int
    BY <1>4
  <2> HIDE DEF d
  <2>2. (d - UINT) % UINT = d - UINT
    BY <2>1, ModSmall
  <2>3. (d - UINT) % UINT = d % UINT
    BY <2>1, ModWrap
  <2> QED BY <2>2, <2>3 DEF d
<1> QED BY <1>1, <1>2, <1>3, <1>4

-----------------------------------------------------------------------------
(* k bytes of the ring b, from position x on, as a sequence. *)
Run(b, x, k) == [i \in 1..k |-> b[(x + i - 1) % PIPESIZE]]
Rings == [0..(PIPESIZE - 1) -> Vals]

LEMMA Slot ==
  ASSUME NEW a \in Int
  PROVE  a % PIPESIZE \in 0..(PIPESIZE - 1) /\ (a - UINT) % PIPESIZE = a % PIPESIZE
<1>1. UINT \in Int /\ UINT % PIPESIZE = 0 /\ PIPESIZE \in Nat \ {0}
  BY Sizes
<1>2. a % PIPESIZE \in 0..(PIPESIZE - 1)
  BY <1>1, DivMod
<1>3. (a - UINT) % PIPESIZE = a % PIPESIZE
  BY <1>1, ModShift
<1> QED BY <1>2, <1>3

LEMMA RunIsSeq ==
  ASSUME NEW b \in Rings, NEW x \in Int, NEW k \in Nat
  PROVE  /\ Run(b, x, k) \in Seq(Vals) /\ Len(Run(b, x, k)) = k
         /\ \A i \in 1..k : Run(b, x, k)[i] = b[(x + i - 1) % PIPESIZE]
<1>1. \A i \in 1..k : b[(x + i - 1) % PIPESIZE] \in Vals
  <2> TAKE i \in 1..k
  <2>1. x + i - 1 \in Int
    OBVIOUS
  <2>2. (x + i - 1) % PIPESIZE \in 0..(PIPESIZE - 1)
    BY <2>1, Slot
  <2> QED BY <2>2 DEF Rings
<1>2. Run(b, x, k) \in [1..k -> Vals]
  BY <1>1 DEF Run
<1>3. Run(b, x, k) \in Seq(Vals) /\ Len(Run(b, x, k)) = k
  BY <1>2
<1>4. \A i \in 1..k : Run(b, x, k)[i] = b[(x + i - 1) % PIPESIZE]
  BY DEF Run
<1> QED BY <1>3, <1>4

LEMMA RunEmpty ==
  ASSUME NEW b \in Rings, NEW x \in Int
  PROVE  Run(b, x, 0) = <<>>
<1>1. Run(b, x, 0) \in Seq(Vals) /\ Len(Run(b, x, 0)) = 0
  BY RunIsSeq
<1> QED BY <1>1, EmptySeq

LEMMA RunWrap ==
  ASSUME NEW b, NEW x \in Int, NEW k \in Nat
  PROVE  Run(b, x - UINT, k) = Run(b, x, k)
<1>1. ASSUME NEW i \in 1..k PROVE (x - UINT + i - 1) % PIPESIZE = (x + i - 1) % PIPESIZE
  <2> DEFINE a == x + i - 1
  <2>1. a \in Int /\ x - UINT + i - 1 = a - UINT
    BY Sizes
  <2> HIDE DEF a
  <2>2. (a - UINT) % PIPESIZE = a % PIPESIZE
    BY <2>1, Slot
  <2> QED BY <2>1, <2>2 DEF a
<1> QED BY <1>1 DEF Run

(* b2 is b with v in the slot of position x. *)
PutAt(b2, b, x, v) ==
  /\ b2 \in Rings /\ b2[x % PIPESIZE] = v
  /\ \A i \in 0..(PIPESIZE - 1) : i # x % PIPESIZE => b2[i] = b[i]

(* A byte is put behind k others. *)
LEMMA RunPut ==
  ASSUME NEW b \in Rings, NEW x \in Int, NEW k \in 0..(PIPESIZE - 1), NEW v \in Vals,
         NEW b2, PutAt(b2, b, x + k, v)
  PROVE  Run(b2, x, k + 1) = Append(Run(b, x, k), v)
<1> USE Sizes
<1> DEFINE s == Run(b, x, k)
           t == Run(b2, x, k + 1)
<1>0. k \in Nat /\ k + 1 \in Nat
  OBVIOUS
<1>1. b2 \in Rings /\ b2[(x + k) % PIPESIZE] = v
  BY DEF PutAt
<1>2. s \in Seq(Vals) /\ Len(s) = k /\ \A i \in 1..k : s[i] = b[(x + i - 1) % PIPESIZE]
  BY <1>0, RunIsSeq
<1>3. /\ t \in Seq(Vals) /\ Len(t) = k + 1
      /\ \A i \in 1..(k + 1) : t[i] = b2[(x + i - 1) % PIPESIZE]
  BY <1>0, <1>1, RunIsSeq
<1> HIDE DEF s, t
<1>4. /\ Append(s, v) \in Seq(Vals) /\ Len(Append(s, v)) = k + 1
      /\ \A i \in 1..k : Append(s, v)[i] = s[i]
      /\ Append(s, v)[k + 1] = v
  BY <1>2, AppendProperties
<1>5. ASSUME NEW i \in 1..(k + 1) PROVE Append(s, v)[i] = t[i]
  <2>1. CASE i = k + 1
    <3>1. x + i - 1 = x + k
      BY <2>1
    <3> QED BY <2>1, <3>1, <1>1, <1>3, <1>4
  <2>2. CASE i # k + 1
    <3> DEFINE a == x + i - 1
               c == x + k
    <3>1. i \in 1..k /\ a \in Int /\ c \in Int /\ a < c /\ c < a + PIPESIZE
      BY <2>2
    <3> HIDE DEF a, c
    <3>2. a % PIPESIZE # c % PIPESIZE /\ a % PIPESIZE \in 0..(PIPESIZE - 1)
      BY <3>1, ModDistinct, Slot
    <3>3. b2[a % PIPESIZE] = b[a % PIPESIZE]
      BY <3>2 DEF PutAt, c
    <3> QED BY <3>1, <3>3, <1>2, <1>3, <1>4 DEF a
  <2> QED BY <2>1, <2>2
<1>6. t = Append(s, v)
  BY <1>3, <1>4, <1>5, SeqEqual
<1> QED BY <1>6 DEF s, t

(* The first one is taken. *)
LEMMA RunTake ==
  ASSUME NEW b \in Rings, NEW x \in Int, NEW k \in Nat \ {0}
  PROVE  /\ Run(b, x, k) # <<>> /\ Head(Run(b, x, k)) = b[x % PIPESIZE]
         /\ Tail(Run(b, x, k)) = Run(b, x + 1, k - 1)
<1> DEFINE s == Run(b, x, k)
           t == Run(b, x + 1, k - 1)
<1>1. s \in Seq(Vals) /\ Len(s) = k /\ \A i \in 1..k : s[i] = b[(x + i - 1) % PIPESIZE]
  BY RunIsSeq
<1>2. /\ t \in Seq(Vals) /\ Len(t) = k - 1
      /\ \A i \in 1..(k - 1) : t[i] = b[(x + 1 + i - 1) % PIPESIZE]
  <2>1. k - 1 \in Nat /\ x + 1 \in Int
    OBVIOUS
  <2> QED BY <2>1, RunIsSeq
<1> HIDE DEF s, t
<1>3. s # <<>>
  BY <1>1, EmptySeq
<1>4. Head(s) = b[x % PIPESIZE]
  <2>1. Head(s) = s[1] /\ x + 1 - 1 = x /\ 1 \in 1..k
    BY <1>1, <1>3
  <2> QED BY <2>1, <1>1
<1>5. /\ Tail(s) \in Seq(Vals) /\ Len(Tail(s)) = k - 1
      /\ \A i \in 1..(k - 1) : Tail(s)[i] = s[i + 1]
  BY <1>1, <1>3, HeadTailProperties
<1>6. ASSUME NEW i \in 1..(k - 1) PROVE Tail(s)[i] = t[i]
  <2>1. i + 1 \in 1..k /\ x + (i + 1) - 1 = x + 1 + i - 1
    OBVIOUS
  <2> QED BY <2>1, <1>1, <1>2, <1>5
<1>7. Tail(s) = t
  BY <1>2, <1>5, <1>6, SeqEqual
<1> QED BY <1>3, <1>4, <1>7 DEF s, t

-----------------------------------------------------------------------------
(* How many bytes there are, and what a write and a read do to the number. *)
LEMMA Amounts ==
  ASSUME TypeOK
  PROVE  /\ Amount \in 0..(UINT - 1) /\ (Empty <=> Amount = 0)
         /\ (Full <=> Amount = PIPESIZE)
         /\ nread + Amount = nwrite \/ nread + Amount - UINT = nwrite
         /\ (nwrite' = (nwrite + 1) % UINT /\ nread' = nread /\ Amount < PIPESIZE
              => Amount' = Amount + 1)
         /\ (nread' = (nread + 1) % UINT /\ nwrite' = nwrite /\ Amount > 0
              => Amount' = Amount - 1 /\ nread' \in {nread + 1, (nread + 1) - UINT})
<1> USE Sizes
<1>0. nread \in 0..(UINT - 1) /\ nwrite \in 0..(UINT - 1) /\ 1 \in 0..(UINT - 1)
      /\ PIPESIZE \in 0..(UINT - 1)
  BY DEF TypeOK
<1>1. Amount = IF nwrite >= nread THEN nwrite - nread ELSE nwrite - nread + UINT
  BY <1>0, Uint DEF Amount
<1>2. Amount \in 0..(UINT - 1) /\ (Empty <=> Amount = 0)
      /\ (nread + Amount = nwrite \/ nread + Amount - UINT = nwrite)
  BY <1>0, <1>1 DEF Empty
<1>3. Full <=> Amount = PIPESIZE
  <2>1. (nread + PIPESIZE) % UINT
          = IF nread + PIPESIZE < UINT THEN nread + PIPESIZE ELSE nread + PIPESIZE - UINT
    BY <1>0, Uint
  <2> QED BY <1>0, <1>1, <2>1 DEF Full
<1>4. ASSUME nwrite' = (nwrite + 1) % UINT, nread' = nread, Amount < PIPESIZE
      PROVE  Amount' = Amount + 1
  <2>1. nwrite' = IF nwrite + 1 < UINT THEN nwrite + 1 ELSE nwrite + 1 - UINT
    BY <1>0, <1>4, Uint
  <2>2. nwrite' \in 0..(UINT - 1)
    BY <1>0, <2>1
  <2>3. Amount' = IF nwrite' >= nread THEN nwrite' - nread ELSE nwrite' - nread + UINT
    BY <1>0, <1>4, <2>2, Uint DEF Amount
  <2> QED BY <1>0, <1>1, <1>4, <2>1, <2>3
<1>5. ASSUME nread' = (nread + 1) % UINT, nwrite' = nwrite, Amount > 0
      PROVE  Amount' = Amount - 1 /\ nread' \in {nread + 1, (nread + 1) - UINT}
  <2>1. nread' = IF nread + 1 < UINT THEN nread + 1 ELSE nread + 1 - UINT
    BY <1>0, <1>5, Uint
  <2>2. nread' \in 0..(UINT - 1)
    BY <1>0, <2>1
  <2>3. Amount' = IF nwrite >= nread' THEN nwrite - nread' ELSE nwrite - nread' + UINT
    BY <1>0, <1>5, <2>2, Uint DEF Amount
  <2> QED BY <1>0, <1>1, <1>5, <2>1, <2>3
<1> QED BY <1>2, <1>3, <1>4, <1>5

(* The steps that touch neither the ring nor a count, nor report anything. *)
Still == UNCHANGED <<ring, ref, live, out, eof>>

LEMMA StillSteps ==
  ASSUME NEW p \in Procs,
         \/ Call(p) \/ kill(p) \/ exit(p) \/ Acquire(p)
         \/ WriteFull(p) \/ WriteDone(p) \/ ReadEmpty(p)
         \/ Sleep(p, "wsleep", "wasleep") \/ Sleep(p, "rsleep", "rasleep")
  PROVE  Still
BY DEF Still, Call, pipewrite, piperead, kill, exit, Acquire, WriteFull, WriteDone, ReadEmpty,
       Sleep, Return, ring, files

LEMMA RingStep == TypeOK /\ RingInv /\ [Next]_vars => RingInv'
<1> SUFFICES ASSUME TypeOK, RingInv, [Next]_vars PROVE RingInv'
  OBVIOUS
<1> USE Sizes
<1>1. CASE UNCHANGED <<nread, nwrite>>
  BY <1>1 DEF RingInv, Amount
<1>2. ASSUME NEW p \in Procs, pipealloc(p) PROVE RingInv'
  <2>1. nread' = 0 /\ nwrite' = 0
    BY <1>2 DEF pipealloc
  <2>2. (0 - 0) % UINT = 0
    BY Uint
  <2> QED BY <2>1, <2>2 DEF RingInv, Amount
<1>3. ASSUME NEW p \in Procs, NEW v \in Vals, WriteByte(p, v) PROVE RingInv'
  <2>1. Amount \in 0..(UINT - 1) /\ Amount < PIPESIZE
    BY <1>3, Amounts DEF RingInv, WriteByte
  <2>2. Amount' = Amount + 1
    BY <1>3, <2>1, Amounts DEF WriteByte
  <2> QED BY <2>1, <2>2 DEF RingInv
<1>4. ASSUME NEW p \in Procs, ReadByte(p) PROVE RingInv'
  <2>1. Amount \in 0..(UINT - 1) /\ Amount > 0
    BY <1>4, Amounts DEF ReadByte
  <2>2. Amount' = Amount - 1
    BY <1>4, <2>1, Amounts DEF ReadByte
  <2> QED BY <2>1, <2>2 DEF RingInv
<1>5. ASSUME NEW p \in Procs, pipeclose(p) \/ ReadDone(p) \/ (\E c \in Procs : fork(p, c))
               \/ (\E e \in Ends : fileclose(p, e))
      PROVE  UNCHANGED <<nread, nwrite>>
  BY <1>5 DEF pipeclose, ReadDone, Return, fork, fileclose, ring
<1>6. UNCHANGED vars => UNCHANGED <<nread, nwrite>>
  BY DEF vars, ring
<1>7. Still => UNCHANGED <<nread, nwrite>>
  BY DEF Still, ring
<1> QED BY <1>1, <1>2, <1>3, <1>4, <1>5, <1>6, <1>7, StillSteps DEF Next, Step

-----------------------------------------------------------------------------
(* The queue of a state. *)
Shown == IF live THEN Queue ELSE <<>>

LEMMA Mapped ==
  ASSUME TypeOK, RingInv
  PROVE  /\ data \in Rings /\ nread \in Int /\ Amount \in 0..PIPESIZE /\ Amount \in Nat
         /\ Queue = Run(data, nread, Amount)
         /\ Queue \in Seq(Vals) /\ Len(Queue) = Amount /\ (Queue = <<>> <=> Empty)
<1> USE Sizes
<1>1. data \in Rings /\ nread \in Int /\ Amount \in 0..PIPESIZE /\ Amount \in Nat
  BY Amounts DEF TypeOK, RingInv, Rings
<1>2. Queue = Run(data, nread, Amount)
  BY DEF Queue, Run
<1>3. Queue \in Seq(Vals) /\ Len(Queue) = Amount
  BY <1>1, <1>2, RunIsSeq
<1>4. Queue = <<>> <=> Amount = 0
  BY <1>3, EmptySeq
<1> QED BY <1>1, <1>2, <1>3, <1>4, Amounts

LEMMA FifoPut ==
  ASSUME PipeInv, RingInv, NEW p \in Procs, NEW v \in Vals, WriteByte(p, v)
  PROVE  Abstract!Put(v)
<1> USE Sizes
<1>0. TypeOK /\ CountInv /\ PointInv /\ OpenInv
  BY DEF PipeInv, EndsInv
<1>1. ref["w"] > 0 /\ live /\ live' = live
  <2>1. "w" \in ofile[p]
    BY <1>0 DEF WriteByte, PointInv, WritePoints
  <2>2. ref["w"] > 0
    BY <1>0, <2>1, Held DEF Ends
  <2> QED BY <1>0, <2>2 DEF OpenInv, WriteByte, files
<1>2. Amount \in 0..(PIPESIZE - 1) /\ Amount \in 0..(UINT - 1)
  BY <1>0, Amounts DEF RingInv, WriteByte
<1>3. Amount' = Amount + 1
  BY <1>0, <1>2, Amounts DEF WriteByte
<1>4. PutAt(data', data, nread + Amount, v)
  <2> DEFINE a == nread + Amount
  <2>1. a \in Int /\ nwrite \in Int /\ (a = nwrite \/ a - UINT = nwrite)
    BY <1>0, <1>2, Amounts DEF TypeOK
  <2> HIDE DEF a
  <2>2. a % PIPESIZE = nwrite % PIPESIZE /\ nwrite % PIPESIZE \in 0..(PIPESIZE - 1)
    BY <2>1, Slot
  <2>3. data' = [data EXCEPT ![nwrite % PIPESIZE] = v] /\ data \in Rings
    BY <1>0 DEF WriteByte, TypeOK, Rings
  <2>4. PutAt(data', data, a, v)
    BY <2>2, <2>3 DEF PutAt, Rings
  <2> QED BY <2>4 DEF a
<1>5. data \in Rings /\ nread \in Int /\ nread' = nread
  BY <1>0, Mapped DEF WriteByte
<1>6. Run(data', nread, Amount + 1) = Append(Run(data, nread, Amount), v)
  <2> DEFINE k == Amount
             b == data'
  <2>1. k \in 0..(PIPESIZE - 1) /\ PutAt(b, data, nread + k, v)
    BY <1>2, <1>4
  <2> HIDE DEF k, b
  <2>2. Run(b, nread, k + 1) = Append(Run(data, nread, k), v)
    BY <1>5, <2>1, RunPut
  <2> QED BY <2>2 DEF k, b
<1>7. Queue' = Append(Queue, v)
  <2>1. Queue' = Run(data', nread, Amount + 1)
    BY <1>3, <1>5 DEF Queue, Run
  <2> QED BY <1>0, <1>6, <2>1, Mapped
<1>8. Len(Queue) < PIPESIZE
  BY <1>0, <1>2, Mapped
<1> QED BY <1>1, <1>7, <1>8 DEF Abstract!Put, WriteByte, files

LEMMA FifoGet ==
  ASSUME PipeInv, RingInv, NEW p \in Procs, ReadByte(p)
  PROVE  Abstract!Get
<1> USE Sizes
<1>0. TypeOK /\ CountInv /\ PointInv /\ OpenInv
  BY DEF PipeInv, EndsInv
<1>1. ref["r"] > 0 /\ live /\ live' = live
  <2>1. "r" \in ofile[p]
    BY <1>0 DEF ReadByte, PointInv, ReadPoints
  <2>2. ref["r"] > 0
    BY <1>0, <2>1, Held DEF Ends
  <2> QED BY <1>0, <2>2 DEF OpenInv, ReadByte, files
<1>2. Amount \in Nat \ {0} /\ data \in Rings /\ nread \in Int
  BY <1>0, Mapped, Amounts DEF ReadByte
<1>3. Amount' = Amount - 1 /\ nread' \in {nread + 1, (nread + 1) - UINT} /\ data' = data
  BY <1>0, <1>2, Amounts DEF ReadByte
<1>4. Queue' = Run(data, nread + 1, Amount - 1)
  <2>1. Queue' = Run(data, nread', Amount - 1)
    BY <1>3 DEF Queue, Run
  <2>2. Amount - 1 \in Nat /\ nread + 1 \in Int
    BY <1>2
  <2>3. Run(data, (nread + 1) - UINT, Amount - 1) = Run(data, nread + 1, Amount - 1)
    BY <2>2, RunWrap
  <2> QED BY <1>3, <2>1, <2>3
<1>5. Queue # <<>> /\ Head(Queue) = data[nread % PIPESIZE] /\ Tail(Queue) = Queue'
  <2>1. Queue = Run(data, nread, Amount)
    BY <1>0, Mapped
  <2> DEFINE k == Amount
  <2>2. k \in Nat \ {0}
    BY <1>2
  <2> HIDE DEF k
  <2>3. /\ Run(data, nread, k) # <<>> /\ Head(Run(data, nread, k)) = data[nread % PIPESIZE]
        /\ Tail(Run(data, nread, k)) = Run(data, nread + 1, k - 1)
    BY <1>2, <2>2, RunTake
  <2> QED BY <1>4, <2>1, <2>3 DEF k
<1> QED BY <1>1, <1>5 DEF Abstract!Get, ReadByte, files

(* The steps that count descriptors. *)
LEMMA FifoEnds ==
  ASSUME PipeInv, RingInv, PipeInv', NEW p \in Procs,
         \/ pipealloc(p) \/ pipeclose(p)
         \/ (\E c \in Procs : fork(p, c)) \/ (\E e \in Ends : fileclose(p, e))
  PROVE  [Abstract!Next]_(Abstract!vars)
<1> USE Sizes
<1>0. TypeOK /\ CountInv /\ PointInv /\ OpenInv /\ OpenInv'
  BY DEF PipeInv, EndsInv
<1>1. CASE pipealloc(p)
  <2>1. ref["r"] = 0 /\ ref["w"] = 0
    BY <1>0, <1>1 DEF pipealloc, OpenInv, TypeOK, Ends
  <2>2. Queue' = <<>>
    <3>1. nread' = 0 /\ nwrite' = 0 /\ data' = data /\ (0 - 0) % UINT = 0
      BY <1>1, Uint DEF pipealloc
    <3>2. Queue' = Run(data, 0, 0)
      BY <3>1 DEF Queue, Run, Amount
    <3> QED BY <1>0, <3>2, Mapped, RunEmpty
  <2>3. Abstract!Create
    BY <1>1, <2>1, <2>2 DEF pipealloc, Abstract!Create, Abstract!Gone, Ends
  <2> QED BY <2>3 DEF Abstract!Next
<1>2. ASSUME NEW c \in Procs, fork(p, c) PROVE [Abstract!Next]_(Abstract!vars)
  <2>1. ofile[p] \subseteq {"r", "w"} /\ ofile[p] # {}
        /\ \A e \in ofile[p] : ref[e] > 0
    BY <1>0, <1>2, Held DEF fork, TypeOK, Ends
  <2>2. ref' = [e \in {"r", "w"} |-> ref[e] + IF e \in ofile[p] THEN 1 ELSE 0]
    BY <1>0, <1>2 DEF fork, TypeOK, Ends
  <2>3. Shown' = Shown /\ UNCHANGED <<out, eof>>
    BY <1>2 DEF fork, Shown, Queue, Amount, ring
  <2>4. Abstract!Share
    BY <2>1, <2>2, <2>3 DEF Abstract!Share, Abstract!Gone, Shown
  <2> QED BY <2>4 DEF Abstract!Next
<1>3. ASSUME NEW e \in Ends, fileclose(p, e) PROVE [Abstract!Next]_(Abstract!vars)
  <2>1. ref[e] > 0 /\ ref' = [ref EXCEPT ![e] = @ - 1]
    BY <1>0, <1>3, Held DEF fileclose
  <2>2. Shown' = Shown /\ UNCHANGED <<out, eof>>
    BY <1>3 DEF fileclose, Shown, Queue, Amount, ring
  <2>3. Abstract!Drop(e)
    BY <2>1, <2>2 DEF Abstract!Drop, Shown
  <2> QED BY <2>3 DEF Abstract!Next, Ends
<1>4. CASE pipeclose(p)
  <2>1. live /\ UNCHANGED <<ring, ref, out, eof>>
    BY <1>0, <1>4 DEF pipeclose, PointInv, OpenInv, ClosePoints
  <2>2. Queue' = Queue
    BY <2>1 DEF ring, Queue, Amount
  <2>3. CASE live'
    BY <2>1, <2>2, <2>3 DEF Abstract!vars
  <2>4. CASE ~live'
    <3>1. ref["r"] = 0 /\ ref["w"] = 0
      BY <1>0, <2>1, <2>4 DEF OpenInv, TypeOK, Ends
    <3>2. Abstract!Discard
      BY <2>1, <2>4, <3>1 DEF Abstract!Discard, Abstract!Gone
    <3> QED BY <3>2 DEF Abstract!Next
  <2> QED BY <2>3, <2>4
<1> QED BY <1>1, <1>2, <1>3, <1>4

LEMMA FifoStep ==
  PipeInv /\ PipeInv' /\ RingInv /\ [Next]_vars => [Abstract!Next]_(Abstract!vars)
<1> SUFFICES ASSUME PipeInv, PipeInv', RingInv, [Next]_vars
             PROVE  [Abstract!Next]_(Abstract!vars)
  OBVIOUS
<1>0. TypeOK /\ CountInv /\ PointInv /\ OpenInv
  BY DEF PipeInv, EndsInv
<1>1. CASE Still
  BY <1>1 DEF Still, Abstract!vars, ring, Queue, Amount
<1>2. ASSUME NEW p \in Procs, ReadDone(p) PROVE [Abstract!Next]_(Abstract!vars)
  <2>1. UNCHANGED <<ring, ref, live, out>>
    BY <1>2 DEF ReadDone, Return, files
  <2>2. Shown' = Shown
    BY <2>1 DEF Shown, Queue, Amount, ring
  <2>3. CASE pc[p] # "rtest"
    <3>1. eof' = eof
      BY <1>0, <1>2, <2>3 DEF ReadDone, TypeOK
    <3> QED BY <2>1, <2>2, <3>1 DEF Abstract!vars, Shown
  <2>4. CASE pc[p] = "rtest"
    <3>1. Empty /\ ~writeopen /\ eof' = TRUE
      BY <1>0, <1>2, <2>4 DEF ReadDone
    <3>2. ref["r"] > 0
      BY <1>0, <2>4, Held DEF PointInv, ReadPoints, Ends
    <3>3. ref["w"] = 0
      BY <1>0, <3>1 DEF OpenInv, TypeOK, Ends
    <3>4. Shown = <<>>
      BY <1>0, <3>1, Mapped DEF Shown
    <3>5. Abstract!EndOfFile
      BY <2>1, <2>2, <3>1, <3>2, <3>3, <3>4 DEF Abstract!EndOfFile, Shown
    <3> QED BY <3>5 DEF Abstract!Next
  <2> QED BY <2>3, <2>4
<1>3. UNCHANGED vars => Still
  BY DEF vars, Still, files
<1>4. ASSUME NEW p \in Procs, NEW v \in Vals, WriteByte(p, v)
      PROVE  [Abstract!Next]_(Abstract!vars)
  BY <1>4, FifoPut DEF Abstract!Next
<1>5. ASSUME NEW p \in Procs, ReadByte(p) PROVE [Abstract!Next]_(Abstract!vars)
  BY <1>5, FifoGet DEF Abstract!Next
<1> QED BY <1>1, <1>2, <1>3, <1>4, <1>5, StillSteps, FifoEnds DEF Next, Step

(* The ring, its locks and its wrapping counters implement a bounded queue with
   counted ends: bytes come out once and in order, nothing is lost while an
   end is open, and the end of the file is reported only when nothing is left
   and nobody can write (pipe.c:22-120, file.c:54-79). *)
THEOREM FifoRefinement == Spec => ImplementsFifo
<1>1. Init => RingInv
  <2>1. (0 - 0) % UINT = 0 /\ 0 <= PIPESIZE
    BY Sizes, Uint
  <2> QED BY <2>1 DEF Init, RingInv, Amount
<1>2. Init => Abstract!Init
  BY DEF Init, Abstract!Init, Ends
<1>3. PipeInv /\ RingInv /\ [Next]_vars => RingInv'
  BY RingStep DEF PipeInv
<1> QED
  BY <1>1, <1>2, <1>3, Invariance, FifoStep, PTL
  DEF Spec, ImplementsFifo, Abstract!Spec
=============================================================================

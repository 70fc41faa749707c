------------------------------ MODULE FileData ------------------------------
(***************************************************************************)
(* The contents of files on disk (fs.c: balloc, bfree, bmap, itrunc,       *)
(* readi, writei) and filewrite (file.c), one call at a time: module Fs    *)
(* has the locks.  A file has NDIRECT blocks, then an indirect block that  *)
(* lists the others.  A block is an array of cells; a cell holds a byte,   *)
(* or a block number in an indirect block, 0 for none.                     *)
(***************************************************************************)
EXTENDS Integers, Sequences, FiniteSets

CONSTANTS
  Inums,    \* the files
  NDIRECT, BSIZE, LOGSIZE,
  NBUF,     \* buffers in the cache
  DataBlocks,  \* the blocks that mkfs leaves free, 1 and up
  BytesOf(_),  \* the bytes that are written to a file
  Counts       \* the lengths of the writes

NINDIRECT == BSIZE
MAXFILE == NDIRECT + NINDIRECT

ASSUME FileDataAssumption ==
  NDIRECT \in Nat \ {0} /\ BSIZE \in Nat \ {0} /\ LOGSIZE \in Nat /\ NBUF \in Nat
  /\ 0 \notin DataBlocks

VARIABLES
  fs,       \* inodes, blocks, the bitmap, and the blocks in the log
  written,  \* what was written to each file, byte by byte
  peak,     \* the most blocks that a transaction of the last call logged
  last      \* the last write: its length, where it ends, and its result

dataVars == <<fs, written, peak, last>>

\* Sectors in the log: a data block, the bitmap, the block of the inodes.
\* mkfs makes a disk with one bitmap block.
Bitmap == 0
Iblock == -1
log_write(f, sectors) == [f EXCEPT !.log = @ \cup sectors]

Zeroes == [c \in 0 .. BSIZE - 1 |-> 0]

DataInit ==
  /\ fs = [addrs |-> [i \in Inums |-> [k \in 0 .. NDIRECT |-> 0]], size |-> [i \in Inums |-> 0],
           data |-> [b \in DataBlocks |-> Zeroes], used |-> {}, log |-> {}]
  /\ written = [i \in Inums |-> <<>>]
  /\ peak = 0
  /\ last = [n |-> 0, end |-> 0, ret |-> 0]

Room(f) == DataBlocks \ f.used
\* The first free block, zeroed.
balloc(f) ==
  LET b == CHOOSE c \in Room(f) : \A d \in Room(f) : c <= d
  IN [at |-> b, f |-> log_write([f EXCEPT !.used = @ \cup {b}, !.data[b] = Zeroes], {Bitmap, b})]

bfree(f, blocks) == log_write([f EXCEPT !.used = @ \ blocks], {Bitmap})

\* Slot k of the inode, with a block in it.
Slot(f, i, k) ==
  IF f.addrs[i][k] # 0 THEN [at |-> f.addrs[i][k], f |-> f]
  ELSE LET new == balloc(f) IN [new EXCEPT !.f.addrs[i][k] = new.at]

\* mutant: the indirect block does not learn of a new block
bmapForgets(f, i, bn) ==
  IF bn < NDIRECT THEN Slot(f, i, bn)
  ELSE LET ind == Slot(f, i, NDIRECT)
           addr == ind.f.data[ind.at][bn - NDIRECT]
       IN IF addr # 0 THEN [at |-> addr, f |-> ind.f] ELSE balloc(ind.f)

\* Block bn of the file; it is allocated if there is none.
bmap(f, i, bn) ==
  IF bn < NDIRECT THEN Slot(f, i, bn)
  ELSE LET ind == Slot(f, i, NDIRECT)
           addr == ind.f.data[ind.at][bn - NDIRECT]
           new == balloc(ind.f)
       IN IF addr # 0 THEN [at |-> addr, f |-> ind.f]
          ELSE [at |-> new.at,
                f |-> log_write([new.f EXCEPT !.data[ind.at][bn - NDIRECT] = new.at], {ind.at})]

Listed(f, i) ==
  IF f.addrs[i][NDIRECT] = 0 THEN {}
  ELSE {f.data[f.addrs[i][NDIRECT]][k] : k \in 0 .. NINDIRECT - 1} \ {0}
Slots(f, i, n) == {f.addrs[i][k] : k \in 0 .. n} \ {0}

itrunc(f, i) ==
  log_write([bfree(f, Slots(f, i, NDIRECT) \cup Listed(f, i)) EXCEPT
               !.addrs[i] = [k \in 0 .. NDIRECT |-> 0], !.size[i] = 0], {Iblock})

\* The loops of readi and writei: as much as the block has room for.
In(off) == off % BSIZE
Least(a, b) == IF a < b THEN a ELSE b
Span(off, n) == Least(n, BSIZE - In(off))

RECURSIVE readi(_, _, _, _), Writes(_, _, _, _)
readi(f, i, off, n0) ==
  LET n == Least(n0, f.size[i] - off)
      m == Span(off, n)
      b == bmap(f, i, off \div BSIZE)
      rest == readi(b.f, i, off + m, n - m)
  IN IF n = 0 THEN [bytes |-> <<>>, f |-> f]
     ELSE [rest EXCEPT !.bytes = [k \in 1 .. m |-> b.f.data[b.at][In(off) + (k - 1)]] \o @]

Writes(f, i, off, src) ==
  LET m == Span(off, Len(src))
      b == bmap(f, i, off \div BSIZE)
      cells == [c \in 0 .. BSIZE - 1 |->
                  IF c \in In(off) .. (In(off) + m) - 1
                  THEN src[(c - In(off)) + 1] ELSE b.f.data[b.at][c]]
  IN IF src = <<>> THEN f
     ELSE Writes(log_write([b.f EXCEPT !.data[b.at] = cells], {b.at}), i, off + m,
                 SubSeq(src, m + 1, Len(src)))

\* The blocks the file still needs for a write, the indirect block included.
Needs(f, i, end) ==
  LET has == Cardinality(Slots(f, i, NDIRECT - 1) \cup Listed(f, i))
      blocks == (end + BSIZE - 1) \div BSIZE
  IN (IF blocks > has THEN blocks - has ELSE 0)
       + (IF blocks > NDIRECT /\ f.addrs[i][NDIRECT] = 0 THEN 1 ELSE 0)

\* The largest size of a file, in bytes.
Capacity == MAXFILE * BSIZE

\* writei returns -1: past the end, or the file would become too large.
Refused(f, i, off, n) == off > f.size[i] \/ off + n > Capacity

\* A write that is refused changes nothing.  The size changes, and the inode is
\* written, only if the file grows.
writei(f, i, off, src) ==
  LET end == off + Len(src)
      f1 == Writes(f, i, off, src)
  IN IF Refused(f, i, off, Len(src)) THEN f
     ELSE IF end > f.size[i] THEN log_write([f1 EXCEPT !.size[i] = end], {Iblock}) ELSE f1

\* The most that filewrite gives to one transaction.
MaxWrite == ((LOGSIZE - 1 - 1 - 2) \div 2) * BSIZE

\* mutant: the loop goes on after a part that failed
RECURSIVE filewriteGoesOn(_, _, _, _)
filewriteGoesOn(f, i, off, src) ==
  LET n1 == Least(Len(src), MaxWrite)
      f1 == writei([f EXCEPT !.log = {}], i, off, SubSeq(src, 1, n1))
      rest == filewriteGoesOn([f1 EXCEPT !.log = {}], i,
                              IF Refused(f, i, off, n1) THEN off ELSE off + n1,
                              SubSeq(src, n1 + 1, Len(src)))
      here == Cardinality(f1.log)
  IN IF src = <<>> THEN [f |-> f, peak |-> 0, ok |-> TRUE]
     ELSE [rest EXCEPT !.peak = IF here > @ THEN here ELSE @]

\* The loop of filewrite: one transaction for each part, with an empty log, up
\* to the first that fails; the largest of them, and whether all were written.
RECURSIVE filewrite(_, _, _, _)
filewrite(f, i, off, src) ==
  LET n1 == Least(Len(src), MaxWrite)
      f1 == writei([f EXCEPT !.log = {}], i, off, SubSeq(src, 1, n1))
      rest == filewrite([f1 EXCEPT !.log = {}], i, off + n1, SubSeq(src, n1 + 1, Len(src)))
      here == Cardinality(f1.log)
  IN IF src = <<>> THEN [f |-> f, peak |-> 0, ok |-> TRUE]
     ELSE IF Refused(f, i, off, n1) THEN [f |-> f, peak |-> 0, ok |-> FALSE]
     ELSE [rest EXCEPT !.peak = IF here > @ THEN here ELSE @]

\* How much of a write of n bytes at off should get into the file: all of it
\* if there is room, else the whole parts that end within the capacity.
Kept(off, n) ==
  IF off + n <= Capacity THEN n ELSE ((Capacity - off) \div MaxWrite) * MaxWrite

\* A write anywhere in the file or at its end.  One that is too large keeps its
\* first parts and returns -1; without free blocks balloc panics, and the
\* system stops.
Filewrite(i, off, src) ==
  LET end == off + Kept(off, Len(src))
  IN /\ off <= fs.size[i]
     /\ Needs(fs, i, end) <= Cardinality(Room(fs))
     /\ \E w \in {filewrite(fs, i, off, src)} :
          /\ fs' = w.f /\ peak' = w.peak
          /\ last' = [n |-> Len(src), end |-> off + Len(src),
                      ret |-> IF w.ok THEN Len(src) ELSE -1]
     /\ written' = [written EXCEPT ![i] =
          [k \in 1 .. (IF end > Len(@) THEN end ELSE Len(@)) |->
             IF k \in off + 1 .. end THEN src[k - off] ELSE @[k]]]

\* iput of the last reference to a removed file.
Itrunc(i) ==
  /\ fs.size[i] > 0
  /\ LET f == itrunc([fs EXCEPT !.log = {}], i)
     IN fs' = [f EXCEPT !.log = {}] /\ peak' = Cardinality(f.log)
  /\ written' = [written EXCEPT ![i] = <<>>]
  /\ last' = [n |-> 0, end |-> 0, ret |-> 0]

DataNext ==
  \E i \in Inums :
    \/ \E off \in 0 .. fs.size[i], n \in Counts, v \in BytesOf(i) :
         Filewrite(i, off, [k \in 1 .. n |-> v])
    \/ Itrunc(i)

-----------------------------------------------------------------------------
(* Properties.                                                             *)

\* A file reads as what was written to it, across blocks, in the indirect
\* ones too, whatever was written to or freed from the others; and to read it
\* allocates nothing, which would be a write outside of a transaction
\* (fs.c:356-384, 446-457, 474-491).
ReadsWritten ==
  \A i \in Inums : readi(fs, i, 0, Capacity) = [bytes |-> written[i], f |-> fs]

\* A block is in one place of one file, and a block in no file is free
\* (fs.c:398-415).
Held(i) == Slots(fs, i, NDIRECT) \cup Listed(fs, i)
BlocksCounted ==
  /\ fs.used = UNION {Held(i) : i \in Inums}
  /\ \A i, j \in Inums : i # j => Held(i) \cap Held(j) = {}
  /\ \A i \in Inums :
       Cardinality(Held(i)) =
         Cardinality({k \in 0 .. NDIRECT : fs.addrs[i][k] # 0})
           + (IF fs.addrs[i][NDIRECT] = 0 THEN 0
              ELSE Cardinality({k \in 0 .. NINDIRECT - 1 : fs.data[fs.addrs[i][NDIRECT]][k] # 0}))

\* filewrite never gives a transaction more than the log holds, which keeps a
\* sector for its header: log_write would panic (file.c:126-137, log.c:164).
LogFits == peak <= LOGSIZE - 1

\* The sectors of a transaction stay in the cache until it is installed, and
\* leave a buffer for a block of the log: bget would panic (log.c:174-180,
\* bio.c:82-92).
BuffersSuffice == peak + 1 <= NBUF

\* A write says that it is done exactly if all of it fits in the file
\* (file.c:146-152).
ResultTells == last.ret = IF last.end <= Capacity THEN last.n ELSE -1

\* The data of files (fs.c:356-491, file.c:114-155): what was written is read,
\* the first parts of a write that is too large included; every block has one
\* place; each transaction fits in the log and in the cache; and a write
\* returns whether it is done.
DataInv == ReadsWritten /\ BlocksCounted /\ LogFits /\ BuffersSuffice /\ ResultTells
=============================================================================

\* Parts without shared state, one at a time.  All but the keyboard come to
\* an end.
SPECIFICATION Spec
CONSTANTS
  Units = {1, 2, 3}
  Chunk = 4
  Limit = 13
  DIRSIZ = 2
  UINT = 256
  Words = {"a", "f"}
  MAXARGS = 3
  Inums = {1, 2}
  NDIRECT = 1
  BSIZE = 2
  LOGSIZE = 6
  NBUF = 6
  DataBlocks = {1, 2, 3, 4}
  BytesOf <- MCBytesOf
  Counts = {1, 4}
  Keys <- MCKeys
  Ahead = 3
  TextLength = 4
INVARIANTS HeapInv LineInv DataInv Computed
PROPERTY LineEnds
CHECK_DEADLOCK FALSE

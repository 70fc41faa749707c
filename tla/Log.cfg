\* Three processes, three blocks, a log of two data blocks, crashes anywhere.
SPECIFICATION LogFairSpec
CONSTANTS
  Callers = {p1, p2, p3}
  HomeBlocks = {b1, b2, b3}
  Vals = {v0, v1}
  LOGSIZE = 3
  LogBlocks = 3
INVARIANTS NoLostTurn CleanBuffers
PROPERTIES ImplementsAtomicDisk Progress

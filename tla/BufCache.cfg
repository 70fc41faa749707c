\* Two users of two buffers and three sectors, on a drive that does not fail.
SPECIFICATION FairSpec
CONSTANTS
  Procs = {p1, p2}
  Bufs = {b1, b2}
  Sectors = {s1, s2, s3}
  Vals = {v1, v2}
  Answers = {"done"}
  None = None
INVARIANTS OneCopyOneOwner NobodyForgotten
PROPERTIES ImplementsStore RequestsEnd
\* The machine stops when bget panics.
CHECK_DEADLOCK FALSE

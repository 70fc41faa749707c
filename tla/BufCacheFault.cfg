SPECIFICATION Spec
CONSTANTS
  Procs = {p1, p2}
  Bufs = {b1, b2}
  Sectors = {s1, s2, s3}
  Vals = {v1, v2}
  Answers = {"done", "failed"}
  None = None
INVARIANT BreadReturnsSector
CHECK_DEADLOCK FALSE

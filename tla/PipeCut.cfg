SPECIFICATION Spec
CONSTANTS
  Procs = {p1, p2}
  Vals = {v1}
  PIPESIZE = 2
  UINT = 4
  Counts = {1, 3}
  None = None
INVARIANT SleepsOnlyIfEmpty

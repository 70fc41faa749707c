\* Two processes, three calls that may overlap, on a small tree.
SPECIFICATION MCSpec
CONSTANTS
  Procs = {p1, p2}
  InitProc = p1
  NINODE = 4
  NINODES = 4
  NBLOCKS = 3
  MAXFILE = 1
  Names <- MCNames
  NFILE = 1
  NOFILE = 2
  Requests <- MCRequests
  MaxCalls = 3
  None = None
INVARIANT KernelUp

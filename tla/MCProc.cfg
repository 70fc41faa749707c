\* The stride scheduler, the one the source selects, on two CPUs, with memory
\* failures in fork: slots are given up half way and reused.
SPECIFICATION Spec
CONSTANTS
  NPROC = 3
  CPUS = {c1, c2}
  NoCpu = NoCpu
  Chans = {ch}
  Tickets = {300}
  StepLimit = 60
  MayFail = TRUE
  KillPids = {0, 2}
  MaxPid = 3
SYMMETRY Symmetry
\* Every CPU may have panicked.
CHECK_DEADLOCK FALSE
INVARIANTS
  OneStackOneCpu
  StackAllocated
  NoOrphans
  NoLostExit
  KilledOnlyIfTargeted
PROPERTY ImplementsStride

\* One CPU, kill called with pid 0 while a slot is free.
SPECIFICATION Spec
CONSTANTS
  NPROC = 3
  CPUS = {c1}
  NoCpu = NoCpu
  Chans = {ch}
  Tickets = {500}
  StepLimit = 60
  MayFail = FALSE
  KillPids = {0}
  MaxPid = 3
CHECK_DEADLOCK FALSE
INVARIANTS
  KillsTheNamed

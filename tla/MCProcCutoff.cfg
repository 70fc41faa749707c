\* One CPU: who yields at the cutoff never runs again.
SPECIFICATION FairSpec
CONSTANTS
  NPROC = 3
  CPUS = {c1}
  NoCpu = NoCpu
  Chans = {ch}
  Tickets = {500}
  StepLimit = 60
  MayFail = FALSE
  KillPids = {2}
  MaxPid = 3
CHECK_DEADLOCK FALSE
PROPERTIES
  YieldOneRound

SPECIFICATION FairSpec
CONSTANTS
  Procs = {p1, p2}
  Vals = {v1, v2}
  PIPESIZE = 2
  UINT = 4
  Counts = {1, 3}
  None = None
INVARIANTS NoLostWakeup PageOwned EofIsFinal
PROPERTIES ImplementsFifo HangUp

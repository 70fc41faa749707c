\* Two CPUs and two processes; a time counts modulo three.
SPECIFICATION Spec
CONSTANTS
  CPUs = {c0, c1}
  Cpu0 = c0
  Procs = {p1, p2}
  UINT = 3
  Naps <- MCNaps
  None = None
SYMMETRY Symmetry
INVARIANTS LockDiscipline InterruptDiscipline NoLostTick

\* Three processes compete for fourteen pages; a page has two units, a table
\* maps two pages, and an image ends below its fifth page.
SPECIFICATION Spec
CONSTANTS
  Procs = {p1, p2, p3}
  InitProc = p1
  g1 = g1 g2 = g2 g3 = g3 g4 = g4 g5 = g5
  Pages = {g1, g2, g3, g4, g5, g6, g7, g8, g9, g10, g11, g12, g13, g14}
  Boot <- MCBoot
  PGSIZE = 2
  NPTENTRIES = 2
  KERNBASE = 10
  UINT = 32
  Headers <- MCHeaders
  ArgSizes = {1, 3}
  Increments <- MCIncrements
  None = None
VIEW Shape
INVARIANTS OneUse NoLoss ImageWhole

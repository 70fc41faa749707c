\* Three processes on one CPU, strides of 1000 and of 500 tickets.
SPECIFICATION LagFairSpec
CONSTANTS
  Clients = {p1, p2, p3}
  Strides = {10, 20}
  Cutoff = 40
  Uni = TRUE
INVARIANT LagBound
PROPERTY NoStarvation

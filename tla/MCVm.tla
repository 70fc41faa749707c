-------------------------------- MODULE MCVm --------------------------------
(* Vm for TLC: the constants a configuration file cannot write.            *)
EXTENDS Vm, FiniteSets

CONSTANTS g1, g2, g3, g4, g5

MCIncrements == {-4, -1, 3}

Segment(vaddr, memsz, filesz) == [vaddr |-> vaddr, memsz |-> memsz, filesz |-> filesz]
\* Segments of one page and up to the third, which exec may meet in either order;
\* one that does not fit, one that is refused, an address that is not aligned,
\* and ends that wrap: the pages are in no table, in a table, and the kernel's.
MCHeaders ==
  {Segment(0, 1, 1), Segment(2, 3, 1), Segment(2, 8, 1), Segment(0, 1, 2), Segment(1, 0, 0),
   Segment(4, 29, 1), Segment(2, 31, 1), Segment(12, 21, 1)}

MCBoot ==
  [r \in BootRoles |-> CASE r = Kstack -> g1
                         [] r = At("cur", <<"dir", 0>>) -> g2
                         [] r = At("cur", <<"kpt", 0>>) -> g3
                         [] r = Tab("cur", 0) -> g4
                         [] OTHER -> g5]

\* Which page is which matters to OneUse alone.
Shape ==
  <<[p \in Procs |-> {r \in Roles : ptr[p][r] # None}], Cardinality(free), OneUse,
    sz, state, job, short, panic>>
=============================================================================

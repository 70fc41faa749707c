-------------------------------- MODULE MCFs --------------------------------
(* Two processes on a disk with a root directory, the directory /a and the  *)
(* file /a/b; the first process starts in / or in /a.                       *)
EXTENDS Fs, TLC

MCNames == {".", "..", "a", "b"}

Root == [abs |-> TRUE, elems |-> <<>>]
A    == [abs |-> TRUE, elems |-> <<"a">>]
AB   == [abs |-> TRUE, elems |-> <<"a", "b">>]
B    == [abs |-> TRUE, elems |-> <<"b">>]
Dot  == [abs |-> FALSE, elems |-> <<".">>]

MCRequests ==
  [call : {"open"}, path : {A}, mode : {"O_RDONLY", "O_RDWR"}]
    \cup [call : {"open"}, path : {AB}, mode : {"O_RDWR"}]
    \cup [call : {"create"}, path : {AB, B}, mode : {"O_WRONLY"}]
    \cup [call : {"mkdir"}, path : {B, Root}] \cup [call : {"mknod"}, path : {B}]
    \cup [call : {"link"}, path : {AB}, new : {B}] \cup [call : {"link"}, path : {A}, new : {B}]
    \cup [call : {"unlink"}, path : {A, AB, B, Dot}]
    \cup [call : {"chdir"}, path : {Root, A, AB}]
    \cup [call : {"exec"}, path : {AB}]

\* Reached from Init by mkdir("/a"), fork, open("/a/b", O_CREATE), close and
\* chdir.
MCInit ==
  /\ din = << [type |-> "T_DIR", nlink |-> 2, addrs |-> <<1>>],
              [type |-> "T_DIR", nlink |-> 1, addrs |-> <<2>>],
              [type |-> "T_FILE", nlink |-> 1, addrs |-> <<>>] >>
  /\ ents = << [n \in Names |-> CASE n \in Dots -> 1 [] n = "a" -> 2 [] OTHER -> 0],
               [n \in Names |-> CASE n = "." -> 2 [] n = ".." -> 1 [] n = "b" -> 3 [] OTHER -> 0],
               NoEnts >>
  /\ used = {1, 2}
  /\ \E home \in {1, 2} :
       /\ icache = [s \in Slots |->
                      IF s = 1 THEN Copy(din[1]) @@
                                    [inum |-> 1, ref |-> IF home = 1 THEN 2 ELSE 1,
                                     busy |-> None, valid |-> TRUE]
                      ELSE IF s = home THEN Copy(din[2]) @@
                                    [inum |-> 2, ref |-> 1, busy |-> None, valid |-> TRUE]
                      ELSE Unused]
       /\ reg = [p \in Procs |-> [NoReg EXCEPT !.cwd = IF p = InitProc THEN home ELSE 1]]
  /\ trans = None
  /\ file = [f \in 1 .. NFILE |-> NoFile]
  /\ ofile = [p \in Procs |-> [fd \in 1 .. NOFILE |-> None]]
  /\ todo = [p \in Procs |-> <<>>]
  /\ calls = 0
  /\ panic = "no"

MCSpec == MCInit /\ [][Next]_vars
=============================================================================

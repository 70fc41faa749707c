--------------------------------- MODULE Fs ---------------------------------
(***************************************************************************)
(* Inodes, blocks, directories and path names (fs.c), the file table       *)
(* (file.c) and the file system calls (sysfile.c), on top of a log that    *)
(* admits one transaction at a time (Log.tla models it).                   *)
(*                                                                         *)
(* A process carries the rest of its system call in todo, a sequence of    *)
(* steps <<operation, register>>.  Every step is the work of the code      *)
(* under one lock (icache.lock, ftable.lock, the inode's I_BUSY flag or a  *)
(* buffer): the code can be interleaved with others between any two        *)
(* steps.  A jump of the code replaces the rest of the sequence.           *)
(*                                                                         *)
(* Path names are sequences of elements.  A directory holds its entries as *)
(* a function of the names (0: no entry); it fits in one block.  Files are *)
(* read and written a block at a time.                                     *)
(***************************************************************************)
EXTENDS Integers, Sequences, FiniteSets

CONSTANTS
  Procs,      \* processes
  InitProc,   \* the first of them
  NINODE,     \* entries of the inode cache
  NINODES,    \* sb.ninodes: inodes 1 .. NINODES - 1 can be used
  NBLOCKS,    \* data blocks of the disk
  MAXFILE,    \* blocks of the largest file
  Names,      \* names of directory entries, "." and ".." among them
  NFILE,      \* entries of the file table
  NOFILE,     \* descriptors of a process
  Requests,   \* calls with a path name, and their arguments
  MaxCalls,   \* bound on the calls of a behaviour
  None

ROOTINO == 1
Slots   == 1 .. NINODE
Inums   == 1 .. NINODES - 1
Blocks  == 1 .. NBLOCKS
Dots    == {".", ".."}
Types   == {"T_FILE", "T_DIR", "T_DEV"}
Modes   == {"O_RDONLY", "O_WRONLY", "O_RDWR"}
Paths   == [abs : BOOLEAN, elems : Seq(Names)]

\* At least the root directory exists, and it owns a block.
ASSUME FsAssumption ==
  /\ IsFiniteSet(Procs) /\ InitProc \in Procs /\ None \notin Procs /\ None \notin Nat
  /\ NINODE \in Nat \ {0} /\ NINODES \in Nat \ {0, 1} /\ NBLOCKS \in Nat \ {0}
  /\ MAXFILE \in Nat /\ NFILE \in Nat /\ NOFILE \in Nat /\ MaxCalls \in Nat
  /\ Dots \subseteq Names
  /\ \A q \in Requests :
       /\ q.path \in Paths
       /\ q.call = "link" => q.new \in Paths
       /\ q.call \in {"open", "create"} => q.mode \in Modes

VARIABLES
  din,     \* dinodes on the disk, as the buffer cache shows them
  ents,    \* entries of the directories
  used,    \* blocks marked in the bitmap
  icache,  \* the inode cache
  trans,   \* log.busy: the process in a transaction
  file,    \* the file table
  ofile,   \* descriptors: ofile[p][fd] is a file or None
  reg,     \* inode pointers and arguments a process holds
  todo,    \* what is left of its system call
  calls,   \* calls made so far, at most MaxCalls
  panic    \* the message of the panic that stopped the machine

disk == <<din, ents, used>>
vars == <<din, ents, used, icache, trans, file, ofile, reg, todo, calls, panic>>

\* struct dinode and its copy in struct inode; addrs in the order of the file.
Free    == [type |-> "none", nlink |-> 0, addrs |-> <<>>]
Copy(e) == [type |-> e.type, nlink |-> e.nlink, addrs |-> e.addrs]
NoEnts  == [n \in Names |-> 0]
NoFile  == [ref |-> 0, ip |-> None, off |-> 0, mode |-> "none"]
Unused  == [inum |-> 0, ref |-> 0, busy |-> None, valid |-> FALSE,
            type |-> "none", nlink |-> 0, addrs |-> <<>>]

\* Pointers to inodes: while a path is walked, of a call, of a file that is
\* being closed, and the current directory.
Ptrs  == {"w", "ip", "dp", "ff", "cwd"}
NoReg == [w |-> None, ip |-> None, dp |-> None, ff |-> None, cwd |-> None,
          path |-> None, new |-> None, parent |-> FALSE, name |-> ".",
          kind |-> "none", mode |-> "none", fp |-> None, fip |-> None, err |-> <<>>]

\* mkfs leaves a root directory; the first process has it as its directory.
Init ==
  /\ din = [i \in Inums |-> IF i = ROOTINO
                            THEN [type |-> "T_DIR", nlink |-> 1, addrs |-> <<1>>]
                            ELSE Free]
  /\ ents = [i \in Inums |-> IF i = ROOTINO
                             THEN [n \in Names |-> IF n \in Dots THEN ROOTINO ELSE 0]
                             ELSE NoEnts]
  /\ used = {1}
  /\ icache = [s \in Slots |-> IF s = 1
                               THEN [Unused EXCEPT !.inum = ROOTINO, !.ref = 1]
                               ELSE Unused]
  /\ reg = [p \in Procs |-> IF p = InitProc THEN [NoReg EXCEPT !.cwd = 1] ELSE NoReg]
  /\ trans = None
  /\ file = [f \in 1 .. NFILE |-> NoFile]
  /\ ofile = [p \in Procs |-> [fd \in 1 .. NOFILE |-> None]]
  /\ todo = [p \in Procs |-> <<>>]
  /\ calls = 0
  /\ panic = "no"

-----------------------------------------------------------------------------
(* The machinery of the steps.                                             *)

At(p, op) == panic = "no" /\ todo[p] # <<>> /\ Head(todo[p])[1] = op
Reg(p)    == Head(todo[p])[2]
Rest(p)   == Tail(todo[p])
Min(S)    == CHOOSE x \in S : \A y \in S : x <= y

\* The call goes on with registers r and the steps of code; a call that has
\* returned leaves the current directory only.
Do(p, r, code) ==
  /\ todo' = [todo EXCEPT ![p] = code]
  /\ reg' = [reg EXCEPT ![p] = IF code = <<>> THEN [NoReg EXCEPT !.cwd = r.cwd] ELSE r]

Goto(p, code) == Do(p, reg[p], code)
Proceed(p)    == Goto(p, Rest(p))

Panic(msg) ==
  /\ panic' = msg
  /\ UNCHANGED <<disk, icache, trans, file, ofile, reg, todo>>

\* iunlockput(x)
UnlockPut(x) == <<<<"iunlock", x>>, <<"iput", x>>>>

-----------------------------------------------------------------------------
(* Inode cache.                                                            *)

Cached(inum) == {s \in Slots : icache[s].ref > 0 /\ icache[s].inum = inum}
Empty        == {s \in Slots : icache[s].ref = 0}

\* iget: the entry of inum, or the first one that is free.
IgetSlot(inum) == IF Cached(inum) # {} THEN Min(Cached(inum)) ELSE Min(Empty)
IgetPanics(inum) == Cached(inum) = {} /\ Empty = {}

\* iget and idup: one reference more, or a new entry.
Iget(inum) ==
  LET e == icache[IgetSlot(inum)]
  IN [icache EXCEPT ![IgetSlot(inum)] =
        IF e.ref > 0 THEN [e EXCEPT !.ref = e.ref + 1]
        ELSE [Unused EXCEPT !.inum = inum, !.ref = 1]]
Idup(s) == [icache EXCEPT ![s].ref = @ + 1]

\* ilock sleeps while another has the inode; the first to lock an entry reads
\* the dinode.
Ilock(p) ==
  /\ At(p, "ilock")
  /\ LET s == reg[p][Reg(p)]
         e == icache[s]
         d == IF e.valid THEN Copy(e) ELSE din[e.inum]
     IN \/ e.ref < 1 /\ Panic("ilock")
        \/ e.ref >= 1 /\ e.busy = None /\ d.type = "none" /\ Panic("ilock: no type")
        \/ /\ e.ref >= 1 /\ e.busy = None /\ d.type # "none"
           /\ icache' = [icache EXCEPT ![s] =
                [@ EXCEPT !.busy = p, !.valid = TRUE, !.type = d.type,
                          !.nlink = d.nlink, !.addrs = d.addrs]]
           /\ Proceed(p)
           /\ UNCHANGED <<disk, trans, file, ofile, panic>>

Iunlock(p) ==
  /\ At(p, "iunlock")
  /\ LET s == reg[p][Reg(p)]
     IN IF icache[s].busy = None \/ icache[s].ref < 1 THEN Panic("iunlock")
        ELSE /\ icache' = [icache EXCEPT ![s].busy = None]
             /\ Proceed(p)
             /\ UNCHANGED <<disk, trans, file, ofile, panic>>

\* mutant: iput forgets the reference it drops
IputLeaks(p) ==
  /\ At(p, "iput")
  /\ Do(p, [reg[p] EXCEPT ![Reg(p)] = None], Rest(p))
  /\ UNCHANGED <<disk, icache, trans, file, ofile, panic>>

\* mutant: the other references are not looked at
IputFreesAny(e) == e.valid /\ e.nlink = 0

\* The last reference to an inode without links.
IputFrees(e) == e.ref = 1 /\ e.valid /\ e.nlink = 0

\* iput: to free the inode takes three more steps, without icache.lock.
Iput(p) ==
  /\ At(p, "iput")
  /\ LET x == Reg(p)
         s == reg[p][x]
         e == icache[s]
     IN \/ /\ IputFrees(e) /\ e.busy # None
           /\ Panic("iput busy")
        \/ /\ IputFrees(e) /\ e.busy = None
           /\ icache' = [icache EXCEPT ![s].busy = p]
           /\ Goto(p, <<<<"itrunc", x>>, <<"ifree", x>>, <<"iputend", x>>>> \o Rest(p))
           /\ UNCHANGED <<disk, trans, file, ofile, panic>>
        \/ /\ ~ IputFrees(e)
           /\ icache' = [icache EXCEPT ![s].ref = @ - 1]
           /\ Do(p, [reg[p] EXCEPT ![x] = None], Rest(p))
           /\ UNCHANGED <<disk, trans, file, ofile, panic>>

\* itrunc: bfree every block, then iupdate.  A directory loses its entries
\* with its block.
Itrunc(p) ==
  /\ At(p, "itrunc") /\ trans # None
  /\ LET s  == reg[p][Reg(p)]
         bs == {icache[s].addrs[k] : k \in DOMAIN icache[s].addrs}
     IN IF ~ bs \subseteq used THEN Panic("freeing free block")
        ELSE /\ used' = used \ bs
             /\ icache' = [icache EXCEPT ![s].addrs = <<>>]
             /\ din' = [din EXCEPT ![icache[s].inum] = [Copy(icache[s]) EXCEPT !.addrs = <<>>]]
             /\ ents' = [ents EXCEPT ![icache[s].inum] = NoEnts]
             /\ Proceed(p)
             /\ UNCHANGED <<trans, file, ofile, panic>>

\* ip->type = 0; iupdate(ip)
Ifree(p) ==
  /\ At(p, "ifree") /\ trans # None
  /\ LET s == reg[p][Reg(p)]
     IN /\ icache' = [icache EXCEPT ![s].type = "none"]
        /\ din' = [din EXCEPT ![icache[s].inum] = [Copy(icache[s]) EXCEPT !.type = "none"]]
  /\ Proceed(p)
  /\ UNCHANGED <<ents, used, trans, file, ofile, panic>>

\* icache.lock again: ip->flags = 0, wakeup, ip->ref--.
IputEnd(p) ==
  /\ At(p, "iputend")
  /\ LET s == reg[p][Reg(p)]
     IN icache' = [icache EXCEPT ![s] = [icache[s] EXCEPT !.ref = icache[s].ref - 1,
                                                           !.busy = None, !.valid = FALSE]]
  /\ Do(p, [reg[p] EXCEPT ![Reg(p)] = None], Rest(p))
  /\ UNCHANGED <<disk, trans, file, ofile, panic>>

\* log_write outside of any transaction.  Inside another process's
\* transaction the write goes through.
StrayWrite(p) ==
  /\ At(p, "itrunc") \/ At(p, "ifree")
  /\ trans = None
  /\ Panic("write outside of trans")

-----------------------------------------------------------------------------
(* The log: begin_trans waits for log.busy (Log.tla).                      *)

Begin(p) ==
  /\ At(p, "begin") /\ trans = None
  /\ trans' = p
  /\ Proceed(p)
  /\ UNCHANGED <<disk, icache, file, ofile, panic>>

Commit(p) ==
  /\ At(p, "commit")
  /\ trans' = None
  /\ Proceed(p)
  /\ UNCHANGED <<disk, icache, file, ofile, panic>>

-----------------------------------------------------------------------------
(* Path names.                                                             *)

\* The head of namex's loop (skipelem) with the inode of register w: lock it
\* for the next element, or return it.  (nameiparent never gets to the end.)
\* The result of namex goes to register y.
Walk(r, y, rest) ==
  IF r.path.elems # <<>>
  THEN [r    |-> [r EXCEPT !.name = Head(r.path.elems), !.path.elems = Tail(@)],
        code |-> <<<<"ilock", "w">>, <<"element", y>>>> \o rest]
  ELSE IF r.parent THEN [r |-> r, code |-> <<<<"iput", "w">>>> \o r.err]
  ELSE [r |-> [r EXCEPT !.ip = r.w, !.w = None], code |-> rest]

\* namex starts from the root or from the current directory.
Namex(p) ==
  /\ At(p, "namex")
  /\ LET r == reg[p]
     IN IF ~ r.path.abs
        THEN /\ icache' = Idup(r.cwd)
             /\ LET next == Walk([r EXCEPT !.w = r.cwd], Reg(p), Rest(p)) IN Do(p, next.r, next.code)
             /\ UNCHANGED <<disk, trans, file, ofile, panic>>
        ELSE IF IgetPanics(ROOTINO) THEN Panic("iget: no inodes")
        ELSE /\ icache' = Iget(ROOTINO)
             /\ LET next == Walk([r EXCEPT !.w = IgetSlot(ROOTINO)], Reg(p), Rest(p))
                IN Do(p, next.r, next.code)
             /\ UNCHANGED <<disk, trans, file, ofile, panic>>

\* The body of namex's loop, with ip locked: stop one level early, fail, or
\* dirlookup the next inode before ip is unlocked and put (from register ff).
Element(p) ==
  /\ At(p, "element")
  /\ LET r    == reg[p]
         e    == icache[r.w]
         inum == ents[e.inum][r.name]
         last == r.parent /\ r.path.elems = <<>>
     IN \/ /\ e.type # "T_DIR" \/ (inum = 0 /\ ~last)
           /\ Goto(p, UnlockPut("w") \o r.err)
           /\ UNCHANGED <<disk, icache, trans, file, ofile, panic>>
        \/ /\ e.type = "T_DIR" /\ last
           /\ icache' = [icache EXCEPT ![r.w].busy = None]
           /\ Do(p, [r EXCEPT !.dp = r.w, !.w = None], Rest(p))
           /\ UNCHANGED <<disk, trans, file, ofile, panic>>
        \/ /\ e.type = "T_DIR" /\ ~last /\ inum # 0
           /\ IF IgetPanics(inum) THEN Panic("iget: no inodes")
              ELSE /\ icache' = Iget(inum)
                   /\ LET next == Walk([r EXCEPT !.w = IgetSlot(inum), !.ff = r.w], Reg(p), Rest(p))
                      IN Do(p, next.r, UnlockPut("ff") \o next.code)
                   /\ UNCHANGED <<disk, trans, file, ofile, panic>>

-----------------------------------------------------------------------------
(* Blocks and directories.                                                 *)

\* balloc: the first free block
NextBlock == Min(Blocks \ used)

IsDirEmpty(i) == \A n \in Names \ Dots : ents[i][n] = 0

-----------------------------------------------------------------------------
(* create                                                                  *)

\* With dp locked: an inode of that name, or a new one from ialloc (the first
\* whose type on the disk is 0).  The rest of create follows it.
CreateLookup(p) ==
  /\ At(p, "create")
  /\ LET r     == reg[p]
         inum  == ents[icache[r.dp].inum][r.name]
         frees == {i \in Inums : din[i].type = "none"}
     IN \/ /\ inum # 0
           /\ IF IgetPanics(inum) THEN Panic("iget: no inodes")
              ELSE /\ icache' = Iget(inum)
                   /\ Do(p, [r EXCEPT !.ip = IgetSlot(inum)], UnlockPut("dp")
                         \o <<<<"ilock", "ip">>, <<"exists", "ip">>>> \o Rest(p))
                   /\ UNCHANGED <<disk, trans, file, ofile, panic>>
        \/ /\ inum = 0
           /\ IF frees = {} THEN Panic("ialloc: no inodes")
              ELSE IF IgetPanics(Min(frees)) THEN Panic("iget: no inodes")
              ELSE /\ din' = [din EXCEPT ![Min(frees)] = [Free EXCEPT !.type = r.kind]]
                   /\ icache' = Iget(Min(frees))
                   /\ Do(p, [r EXCEPT !.ip = IgetSlot(Min(frees))],
                         <<<<"ilock", "ip">>, <<"mknode", "ip">>>> \o UnlockPut("dp") \o Rest(p))
                   /\ UNCHANGED <<ents, used, trans, file, ofile, panic>>

\* Only open of an existing file gets it, locked; else create returns 0.
CreateExists(p) ==
  /\ At(p, "exists")
  /\ IF reg[p].kind = "T_FILE" /\ icache[reg[p].ip].type = "T_FILE"
     THEN Proceed(p)
     ELSE Goto(p, UnlockPut("ip") \o reg[p].err)
  /\ UNCHANGED <<disk, icache, trans, file, ofile, panic>>

\* The new inode, its dots and its entry in dp.
CreateNode(p) ==
  /\ At(p, "mknode")
  /\ LET r   == reg[p]
         d   == icache[r.dp].inum
         i   == icache[r.ip].inum
         dir == r.kind = "T_DIR"
         ic  == [icache EXCEPT ![r.ip].nlink = 1,
                               ![r.ip].addrs = IF dir THEN <<NextBlock>> ELSE icache[r.ip].addrs,
                               ![r.dp].nlink = IF dir THEN @ + 1 ELSE @]
     IN IF dir /\ used = Blocks THEN Panic("balloc: out of blocks")
        ELSE /\ icache' = ic
             /\ din' = [din EXCEPT ![i] = Copy(ic[r.ip]), ![d] = Copy(ic[r.dp])]
             /\ used' = IF dir THEN used \cup {NextBlock} ELSE used
             /\ ents' = [ents EXCEPT
                   ![i] = IF dir THEN [NoEnts EXCEPT !["."] = i, ![".."] = d] ELSE @,
                   ![d][r.name] = i]
             /\ Proceed(p)
             /\ UNCHANGED <<trans, file, ofile, panic>>

-----------------------------------------------------------------------------
(* link and unlink                                                         *)

\* mutant: the inode is not locked again
LinkBadUnlocked == <<<<"drop", "ip">>, <<"iput", "ip">>, <<"commit", "ip">>>>

\* bad: of sys_link
LinkBad == <<<<"ilock", "ip">>, <<"drop", "ip">>>> \o UnlockPut("ip") \o <<<<"commit", "ip">>>>

\* The links of the locked inode of register x change by one, and iupdate.
SetLinks(p, x, n) ==
  LET s == reg[p][x]
  IN /\ icache' = [icache EXCEPT ![s].nlink = n]
     /\ din' = [din EXCEPT ![icache[s].inum] = [Copy(icache[s]) EXCEPT !.nlink = n]]

\* Not a directory: one link more, before the directory is looked up.
LinkBump(p) ==
  /\ At(p, "bump")
  /\ LET e == icache[reg[p].ip]
     IN IF e.type = "T_DIR"
        THEN /\ Goto(p, UnlockPut("ip") \o <<<<"commit", "ip">>>>)
             /\ UNCHANGED <<disk, icache>>
        ELSE /\ SetLinks(p, "ip", e.nlink + 1)
             /\ Do(p, [reg[p] EXCEPT !.path = reg[p].new, !.parent = TRUE, !.err = LinkBad],
                   Rest(p))
             /\ UNCHANGED <<ents, used>>
  /\ UNCHANGED <<trans, file, ofile, panic>>

\* ip->nlink--; iupdate(ip): at the end of sys_unlink, and when sys_link fails.
DropLink(p) ==
  /\ At(p, "drop")
  /\ SetLinks(p, "ip", icache[reg[p].ip].nlink - 1)
  /\ Proceed(p)
  /\ UNCHANGED <<ents, used, trans, file, ofile, panic>>

\* dirlink(dp, name, ip->inum) fails if the name exists.
LinkEntry(p) ==
  /\ At(p, "entry")
  /\ LET r == reg[p]
         d == icache[r.dp].inum
     IN IF ents[d][r.name] # 0
        THEN Goto(p, UnlockPut("dp") \o r.err) /\ ents' = ents
        ELSE Proceed(p) /\ ents' = [ents EXCEPT ![d][r.name] = icache[r.ip].inum]
  /\ UNCHANGED <<din, used, icache, trans, file, ofile, panic>>

\* bad: of sys_unlink
UnlinkBad == UnlockPut("dp") \o <<<<"commit", "dp">>>>

UnlinkLookup(p) ==
  /\ At(p, "lookup")
  /\ LET r    == reg[p]
         inum == ents[icache[r.dp].inum][r.name]
     IN IF r.name \in Dots \/ inum = 0
        THEN Goto(p, UnlinkBad) /\ UNCHANGED <<disk, icache, trans, file, ofile, panic>>
        ELSE IF IgetPanics(inum) THEN Panic("iget: no inodes")
        ELSE /\ icache' = Iget(inum)
             /\ Do(p, [r EXCEPT !.ip = IgetSlot(inum)], Rest(p))
             /\ UNCHANGED <<disk, trans, file, ofile, panic>>

\* mutant: a directory is removed with what is in it
UnlinkEntryAny(p) ==
  /\ At(p, "remove")
  /\ LET r == reg[p]
         d == icache[r.dp].inum
     IN /\ ents' = [ents EXCEPT ![d][r.name] = 0]
        /\ IF icache[r.ip].type = "T_DIR" THEN SetLinks(p, "dp", icache[r.dp].nlink - 1)
           ELSE UNCHANGED <<icache, din>>
  /\ Proceed(p)
  /\ UNCHANGED <<used, trans, file, ofile, panic>>

\* Both inodes locked: the entry goes, unless it is a directory in use.
UnlinkEntry(p) ==
  /\ At(p, "remove")
  /\ LET r == reg[p]
         d == icache[r.dp].inum
         e == icache[r.ip]
     IN IF e.nlink < 1 THEN Panic("unlink: nlink < 1")
        ELSE IF e.type = "T_DIR" /\ ~ IsDirEmpty(e.inum)
        THEN /\ Goto(p, UnlockPut("ip") \o UnlinkBad)
             /\ UNCHANGED <<disk, icache, trans, file, ofile, panic>>
        ELSE /\ ents' = [ents EXCEPT ![d][r.name] = 0]
             /\ IF e.type = "T_DIR" THEN SetLinks(p, "dp", icache[r.dp].nlink - 1)
                ELSE UNCHANGED <<icache, din>>
             /\ Proceed(p)
             /\ UNCHANGED <<used, trans, file, ofile, panic>>

-----------------------------------------------------------------------------
(* The file table.                                                         *)

FreeFiles   == {f \in DOMAIN file : file[f].ref = 0}
FreeFds(p)  == {fd \in 1 .. NOFILE : ofile[p][fd] = None}

\* The end of sys_open, with ip locked: filealloc and fdalloc.  The reference
\* of ip passes to the file.
Open(p) ==
  /\ At(p, "open")
  /\ LET r    == reg[p]
         bad  == icache[r.ip].type = "T_DIR" /\ r.mode # "O_RDONLY"
         fail == FreeFiles = {} \/ FreeFds(p) = {}
     IN IF bad \/ fail
        THEN Goto(p, UnlockPut("ip") \o Rest(p)) /\ UNCHANGED <<icache, file, ofile>>
        ELSE /\ file' = [file EXCEPT ![Min(FreeFiles)] =
                           [ref |-> 1, ip |-> r.ip, off |-> 0, mode |-> r.mode]]
             /\ ofile' = [ofile EXCEPT ![p][Min(FreeFds(p))] = Min(FreeFiles)]
             /\ icache' = [icache EXCEPT ![r.ip].busy = None]      \* iunlock(ip)
             /\ Do(p, [r EXCEPT !.ip = None], Rest(p))
  /\ UNCHANGED <<disk, trans, panic>>

\* The last close of a file puts its inode, in a transaction of its own.
Fileclose(p) ==
  /\ At(p, "fileclose")
  /\ LET fd == Reg(p)
         f  == ofile[p][fd]
     IN IF file[f].ref < 1 THEN Panic("fileclose")
        ELSE /\ ofile' = [ofile EXCEPT ![p][fd] = None]
             /\ IF file[f].ref > 1
                THEN /\ file' = [file EXCEPT ![f].ref = @ - 1]
                     /\ Proceed(p)
                ELSE /\ file' = [file EXCEPT ![f] = NoFile]
                     /\ Do(p, [reg[p] EXCEPT !.ff = file[f].ip],
                           <<<<"begin", "ff">>, <<"iput", "ff">>, <<"commit", "ff">>>> \o Rest(p))
             /\ UNCHANGED <<disk, icache, trans, panic>>

\* readi of fileread, with the inode locked.  A device lets go of the inode
\* while it waits (consoleread).
Readi(p) ==
  /\ At(p, "readi")
  /\ LET f == reg[p].fp
         e == icache[reg[p].fip]
     IN IF e.type = "T_DEV"
        THEN /\ Goto(p, <<<<"iunlock", "fip">>, <<"ilock", "fip">>>> \o Rest(p))
             /\ file' = file
        ELSE /\ file' = [file EXCEPT ![f].off = IF @ < Len(e.addrs) THEN @ + 1 ELSE @]
             /\ Proceed(p)
  /\ UNCHANGED <<disk, icache, trans, ofile, panic>>

\* writei of a block in filewrite: bmap takes a block at the end of the file,
\* and the size that changed is written by iupdate.
Writei(p) ==
  /\ At(p, "writei")
  /\ LET f == reg[p].fp
         s == reg[p].fip
         e == icache[s]
     IN IF e.type = "T_DEV"
        THEN /\ Goto(p, <<<<"iunlock", "fip">>, <<"ilock", "fip">>>> \o Rest(p))
             /\ UNCHANGED <<disk, icache, trans, file, ofile, panic>>
        ELSE IF file[f].off >= MAXFILE
        THEN Proceed(p) /\ UNCHANGED <<disk, icache, trans, file, ofile, panic>>
        ELSE IF file[f].off < Len(e.addrs)
        THEN /\ file' = [file EXCEPT ![f].off = @ + 1]
             /\ Proceed(p)
             /\ UNCHANGED <<disk, icache, trans, ofile, panic>>
        ELSE IF used = Blocks THEN Panic("balloc: out of blocks")
        ELSE /\ used' = used \cup {NextBlock}
             /\ icache' = [icache EXCEPT ![s].addrs = Append(@, NextBlock)]
             /\ din' = [din EXCEPT ![e.inum] = [Copy(e) EXCEPT !.addrs = Append(@, NextBlock)]]
             /\ file' = [file EXCEPT ![f].off = @ + 1]
             /\ Proceed(p)
             /\ UNCHANGED <<ents, trans, ofile, panic>>

-----------------------------------------------------------------------------
(* The system calls.                                                       *)

\* The process is alive and not in a call.
Ready(p) ==
  /\ panic = "no" /\ todo[p] = <<>> /\ reg[p].cwd # None
  /\ calls < MaxCalls
  /\ calls' = calls + 1

\* A process makes a call; code is what it does.
Start(p, r, code) ==
  /\ Ready(p)
  /\ Do(p, r, code)
  /\ UNCHANGED <<disk, icache, trans, file, ofile, panic>>

Args(p, path)   == [NoReg EXCEPT !.cwd = reg[p].cwd, !.path = path]
Parent(p, path) == [Args(p, path) EXCEPT !.parent = TRUE]

\* create(path, kind) with its transaction begun.
CreateCode == <<<<"begin", "dp">>, <<"namex", "dp">>, <<"ilock", "dp">>, <<"create", "ip">>>>

SysOpen(p) ==
  \E q \in Requests :
    \/ /\ q.call = "open"
       /\ Start(p, [Args(p, q.path) EXCEPT !.mode = q.mode],
                <<<<"namex", "ip">>, <<"ilock", "ip">>, <<"open", "ip">>>>)
    \/ /\ q.call = "create"
       /\ Start(p, [Parent(p, q.path) EXCEPT !.mode = q.mode, !.kind = "T_FILE",
                                             !.err = <<<<"commit", "ip">>>>],
                CreateCode \o <<<<"commit", "ip">>, <<"open", "ip">>>>)

\* sys_mkdir and sys_mknod
SysMkdir(p) ==
  \E q \in Requests :
    /\ q.call \in {"mkdir", "mknod"}
    /\ Start(p, [Parent(p, q.path) EXCEPT
                   !.kind = IF q.call = "mkdir" THEN "T_DIR" ELSE "T_DEV",
                   !.err = <<<<"commit", "ip">>>>],
             CreateCode \o UnlockPut("ip") \o <<<<"commit", "ip">>>>)

SysLink(p) ==
  \E q \in Requests :
    /\ q.call = "link"
    /\ Start(p, [Args(p, q.path) EXCEPT !.new = q.new],
             <<<<"namex", "ip">>, <<"begin", "ip">>, <<"ilock", "ip">>, <<"bump", "ip">>,
               <<"iunlock", "ip">>>>
             \o <<<<"namex", "dp">>, <<"ilock", "dp">>, <<"entry", "dp">>>> \o UnlockPut("dp")
             \o <<<<"iput", "ip">>, <<"commit", "ip">>>>)

SysUnlink(p) ==
  \E q \in Requests :
    /\ q.call = "unlink"
    /\ Start(p, Parent(p, q.path),
             <<<<"namex", "dp">>, <<"begin", "dp">>, <<"ilock", "dp">>, <<"lookup", "ip">>>>
             \o <<<<"ilock", "ip">>, <<"remove", "ip">>>> \o UnlockPut("dp")
             \o <<<<"drop", "ip">>>> \o UnlockPut("ip") \o <<<<"commit", "ip">>>>)

SysChdir(p) ==
  \E q \in Requests :
    /\ q.call = "chdir"
    /\ Start(p, Args(p, q.path), <<<<"namex", "ip">>, <<"ilock", "ip">>, <<"chdir", "ip">>>>)

\* The old directory is put outside of a transaction.
Chdir(p) ==
  /\ At(p, "chdir")
  /\ IF icache[reg[p].ip].type # "T_DIR"
     THEN Goto(p, UnlockPut("ip") \o Rest(p))
     ELSE Goto(p, <<<<"iunlock", "ip">>, <<"iput", "cwd">>, <<"setcwd", "ip">>>> \o Rest(p))
  /\ UNCHANGED <<disk, icache, trans, file, ofile, panic>>

SetCwd(p) ==
  /\ At(p, "setcwd")
  /\ Do(p, [reg[p] EXCEPT !.cwd = reg[p].ip, !.ip = None], Rest(p))
  /\ UNCHANGED <<disk, icache, trans, file, ofile, panic>>

\* exec reads the program with its inode locked, and puts it (Vm.tla has the rest).
Exec(p) ==
  \E q \in Requests :
    /\ q.call = "exec"
    /\ Start(p, Args(p, q.path), <<<<"namex", "ip">>, <<"ilock", "ip">>>> \o UnlockPut("ip"))

SysClose(p) ==
  \E fd \in (1 .. NOFILE) \ FreeFds(p) : Start(p, Args(p, None), <<<<"fileclose", fd>>>>)

SysDup(p) ==
  /\ Ready(p)
  /\ \E fd \in (1 .. NOFILE) \ FreeFds(p) :
       /\ FreeFds(p) # {}
       /\ file[ofile[p][fd]].ref >= 1        \* filedup
       /\ file' = [file EXCEPT ![ofile[p][fd]].ref = @ + 1]
       /\ ofile' = [ofile EXCEPT ![p][Min(FreeFds(p))] = ofile[p][fd]]
  /\ UNCHANGED <<disk, icache, trans, reg, todo, panic>>

\* sys_read, sys_write and sys_fstat of a file: the inode is locked through
\* the file's reference.
Access(p, fd, code) ==
  Start(p, [Args(p, None) EXCEPT !.fp = ofile[p][fd], !.fip = file[ofile[p][fd]].ip], code)

SysRead(p) ==
  \E fd \in (1 .. NOFILE) \ FreeFds(p) :
    /\ file[ofile[p][fd]].mode # "O_WRONLY"
    /\ Access(p, fd, <<<<"ilock", "fip">>, <<"readi", "fip">>, <<"iunlock", "fip">>>>)

SysWrite(p) ==
  \E fd \in (1 .. NOFILE) \ FreeFds(p) :
    /\ file[ofile[p][fd]].mode # "O_RDONLY"
    /\ Access(p, fd, <<<<"begin", "fip">>, <<"ilock", "fip">>, <<"writei", "fip">>,
                       <<"iunlock", "fip">>, <<"commit", "fip">>>>)

SysFstat(p) ==
  \E fd \in (1 .. NOFILE) \ FreeFds(p) :
    Access(p, fd, <<<<"ilock", "fip">>, <<"iunlock", "fip">>>>)

\* fork: the child gets the parent's files and current directory.
Fork(p, q) ==
  /\ Ready(p)
  /\ reg[q].cwd = None /\ todo[q] = <<>>
  /\ ofile' = [ofile EXCEPT ![q] = ofile[p]]
  /\ file' = [f \in DOMAIN file |-> [file[f] EXCEPT
                 !.ref = @ + Cardinality({fd \in 1 .. NOFILE : ofile[p][fd] = f})]]
  /\ icache' = Idup(reg[p].cwd)
  /\ reg' = [reg EXCEPT ![q].cwd = reg[p].cwd]
  /\ UNCHANGED <<disk, trans, todo, panic>>

\* exit: close every file, then put the current directory, outside of a
\* transaction.  (init does not exit.)
Exit(p) ==
  /\ p # InitProc
  /\ Start(p, Args(p, None), <<<<"closeall", "ip">>, <<"iput", "cwd">>>>)

CloseAll(p) ==
  /\ At(p, "closeall")
  /\ LET open == (1 .. NOFILE) \ FreeFds(p)
     IN Goto(p, IF open = {} THEN Rest(p)
                ELSE <<<<"fileclose", Min(open)>>>> \o todo[p])
  /\ UNCHANGED <<disk, icache, trans, file, ofile, panic>>

\* The machine stays where it panicked, or the bound is reached.
Halt ==
  /\ panic # "no" \/ (calls = MaxCalls /\ \A p \in Procs : todo[p] = <<>>)
  /\ UNCHANGED vars

Step(p) ==
  \/ Ilock(p) \/ Iunlock(p) \/ Iput(p) \/ Itrunc(p) \/ Ifree(p) \/ IputEnd(p)
  \/ StrayWrite(p) \/ Begin(p) \/ Commit(p)
  \/ Namex(p) \/ Element(p)
  \/ CreateLookup(p) \/ CreateExists(p) \/ CreateNode(p)
  \/ LinkBump(p) \/ LinkEntry(p) \/ DropLink(p) \/ UnlinkLookup(p) \/ UnlinkEntry(p)
  \/ Open(p) \/ Fileclose(p) \/ CloseAll(p) \/ Readi(p) \/ Writei(p)
  \/ Chdir(p) \/ SetCwd(p)

SysCall(p) ==
  \/ SysOpen(p) \/ SysMkdir(p) \/ SysLink(p) \/ SysUnlink(p) \/ SysChdir(p) \/ Exec(p)
  \/ SysClose(p) \/ SysDup(p) \/ SysRead(p) \/ SysWrite(p) \/ SysFstat(p)
  \/ Exit(p) \/ \E q \in Procs : Fork(p, q)

Next == Halt \/ \E p \in Procs : (Step(p) /\ calls' = calls) \/ SysCall(p)
Spec == Init /\ [][Next]_vars

-----------------------------------------------------------------------------
(* Properties.                                                             *)

\* Every variable has its type.
TypeOK ==
  /\ \A i \in Inums : din[i].type \in Types \cup {"none"} /\ din[i].nlink \in Int
  /\ ents \in [Inums -> [Names -> 0 .. NINODES - 1]]
  /\ used \subseteq Blocks
  /\ \A s \in Slots : icache[s].ref \in Nat /\ icache[s].busy \in Procs \cup {None}
  /\ trans \in Procs \cup {None}
  /\ ofile \in [Procs -> [1 .. NOFILE -> (1 .. NFILE) \cup {None}]]
  /\ \A p \in Procs, x \in Ptrs : reg[p][x] \in Slots \cup {None}

\* iget (fs.c:222): an inode has one entry in the cache, whoever looks it up
\* and whenever it is freed and allocated again.
OneEntry ==
  \A s, t \in Slots :
    icache[s].ref > 0 /\ icache[t].ref > 0 /\ icache[s].inum = icache[t].inum => s = t

\* Holders of slot s: pointers of processes, and open files.
Holders(s) ==
  Cardinality({px \in Procs \X Ptrs : reg[px[1]][px[2]] = s})
    + Cardinality({f \in DOMAIN file : file[f].ref > 0 /\ file[f].ip = s})

\* "ip->ref tracks the number of in-memory pointers to the entry" (fs.c:123):
\* through every error path, race with iput and inherited descriptor.
RefsCounted == \A s \in Slots : icache[s].ref = Holders(s)

\* A file's count is the number of descriptors that name it (file.c:26-79,
\* sysfile.c:36-101, proc.c:170).
FilesCounted ==
  \A f \in DOMAIN file :
    file[f].ref = Cardinality({pf \in Procs \X (1 .. NOFILE) : ofile[pf[1]][pf[2]] = f})

\* No call returns with an inode locked or a transaction open (the return
\* paths of sysfile.c): whoever waits for a lock waits for a process inside a
\* call.
CleanReturn ==
  \A p \in Procs : todo[p] = <<>> =>
    trans # p /\ \A s \in Slots : icache[s].busy # p

\* A valid entry that nobody has locked agrees with the disk (iupdate after
\* every change, fs.c:129-139).
Coherent ==
  \A s \in Slots :
    LET e == icache[s]
    IN e.ref > 0 /\ e.valid /\ e.busy = None => Copy(e) = din[e.inum]

\* The caches in memory are exact: the counts of the two tables, one entry for
\* an inode, the copies of the dinodes, and the locks given back (fs.c:123-139,
\* 222-248, file.c:26-79, the return paths of sysfile.c).
CacheExact == TypeOK /\ OneEntry /\ RefsCounted /\ FilesCounted /\ CleanReturn /\ Coherent

\* "file system code may only examine and modify the information in an inode
\* and its content if it has first locked the inode" (fs.c:135): no step changes
\* a valid entry, or the entries of a directory, that is not locked.
LockedChange ==
  [][\A s \in Slots : icache[s].ref > 0 /\ icache[s].valid /\ icache[s].busy = None =>
       \/ ~ icache'[s].valid
       \/ Copy(icache'[s]) = Copy(icache[s]) /\ ents'[icache[s].inum] = ents[icache[s].inum]]_vars

\* The links of inode i: entries other than "." of directories in the tree.
Links(i) == {dn \in Inums \X (Names \ {"."}) :
               /\ din[dn[1]].type = "T_DIR" /\ din[dn[1]].nlink > 0
               /\ ents[dn[1]][dn[2]] = i}

\* "Number of links to inode in file system" (fs.h:31): between transactions
\* the count of an inode is the number of its entries, and a free inode has
\* none.
LinksCounted ==
  trans = None /\ panic = "no" =>
    \A i \in Inums : /\ din[i].nlink >= 0
                     /\ IF din[i].type = "none" THEN Links(i) = {}
                        ELSE din[i].nlink = Cardinality(Links(i))

\* balloc and bfree (fs.c:52-95): the bitmap marks the blocks of the inodes,
\* each of one inode, once, while nobody truncates.
BlocksOwned ==
  /\ \A i, j \in Inums : \A k \in DOMAIN din[i].addrs, l \in DOMAIN din[j].addrs :
       din[i].addrs[k] = din[j].addrs[l] => i = j /\ k = l
  /\ used = UNION {{din[i].addrs[k] : k \in DOMAIN din[i].addrs} : i \in Inums}

\* What the disk says of itself is true (fs.h:31, fs.c:52-95): link counts and
\* the bitmap.
DiskExact == LinksCounted /\ BlocksOwned

\* Panics for lack of room.
Exhausted == {"iget: no inodes", "ialloc: no inodes", "balloc: out of blocks"}

\* No step runs into one of the panics of fs.c, file.c and sysfile.c, but for
\* lack of room, and for a write outside of a transaction (see KernelUp).
NoPanic == panic \in {"no", "write outside of trans"} \cup Exhausted

\* log_write (log.c) panics with "write outside of trans": it is only to be
\* called in a transaction.
KernelUp == panic \in {"no"} \cup Exhausted
=============================================================================

---------------------------- MODULE FileSystem ----------------------------
(***************************************************************************)
(* The file system of kernel/fs.c, the file table of kernel/file.c and the *)
(* system calls of kernel/sysfile.c, over an image made by mkfs/mkfs.c.    *)
(*                                                                         *)
(* A process runs from one lock of an inode to the next in one step.  An   *)
(* iput waits in "puts" until the process gets to it and frees an inode in *)
(* two steps, between which ialloc can see the inode free already.  Blocks *)
(* hold BSIZE cells: a directory entry, an address or a value of a file.   *)
(* Of the log this module keeps what Log is proved to provide: "dur" is    *)
(* what a reboot would bring back.                                         *)
(***************************************************************************)
EXTENDS Integers, Sequences, FiniteSets, FiniteSetsExt, SequencesExt

CONSTANTS
  Proc,       \* processes; the first one is running, others are forked
  First,
  NINODES,    \* inodes of the image
  NINODE,     \* entries of the inode table
  NBLOCKS,    \* data blocks of the image
  BSIZE,      \* cells of a block
  NDIRECT, NINDIRECT,
  NFILE, NOFILE,
  MaxChunk,   \* cells filewrite writes in one transaction
  Calls,      \* the system calls processes make
  MaxCalls,   \* how many of them, all together
  Crashes     \* may the machine reboot?

VARIABLES
  fs,         \* disk and inode table
  dur,        \* the disk after a reboot
  ftable,     \* open files
  proc,       \* what each process is doing, its files and directory
  active,     \* processes between begin_op and end_op
  calls       \* system calls made

vars == <<fs, dur, ftable, proc, active, calls>>

None == "none"
Inum == 1..NINODES
ROOTINO == 1
FreeCell == <<"", 0>>
ZeroBlock == [c \in 1..BSIZE |-> FreeCell]
NoAddrs == [n \in 0..NDIRECT |-> 0]
FreeInode == [type |-> 0, nlink |-> 0, size |-> 0, addrs |-> NoAddrs]
T_DIR == 1
T_FILE == 2
T_DEVICE == 3
T_BADDEVICE == 4  \* T_DEVICE with a major number out of range

Panic(S, what) == [S EXCEPT !.panic = IF @ = None THEN what ELSE @]

-----------------------------------------------------------------------------
\* Blocks and inodes (fs.c).  The operators take and return what fs holds.

\* balloc: the lowest free block, zeroed; 0 when there is none.
Balloc(S) ==
  LET free == 1..NBLOCKS \ S.used
      b == Min(free)
  IN  IF free = {} THEN [s |-> S, addr |-> 0]
      ELSE [s |-> [S EXCEPT !.used = @ \cup {b}, !.blk[b] = ZeroBlock], addr |-> b]

Bfree(S, b) ==
  IF b \notin S.used THEN Panic(S, "freeing free block") ELSE [S EXCEPT !.used = @ \ {b}]

\* iget, and idup.
Iget(S, i) ==
  IF S.itab[i].ref > 0 THEN [S EXCEPT !.itab[i].ref = @ + 1]
  ELSE IF Cardinality({j \in Inum : S.itab[j].ref > 0}) = NINODE
         THEN Panic(S, "iget: no inodes")
         ELSE [S EXCEPT !.itab[i].ref = 1, !.itab[i].valid = FALSE]

\* ilock by p, when the lock is free.
Ilock(S, i, p) ==
  LET d == IF S.itab[i].valid THEN S.itab[i].d ELSE S.dinode[i]
      T == [S EXCEPT !.itab[i] = [@ EXCEPT !.lock = p, !.valid = TRUE, !.d = d]]
  IN  IF d.type = 0 /\ ~S.itab[i].valid THEN Panic(T, "ilock: no type") ELSE T

Iunlock(S, i) == [S EXCEPT !.itab[i].lock = None]

Iupdate(S, i) == [S EXCEPT !.dinode[i] = S.itab[i].d]

\* ialloc: the lowest free inode, referenced but not locked.
FreeInodes(S) == {i \in Inum : S.dinode[i].type = 0}

Ialloc(S, type) ==
  LET i == Min(FreeInodes(S))
  IN  Iget([S EXCEPT !.dinode[i] = [FreeInode EXCEPT !.type = type]], i)

\* The address of block bn of an inode, 0 if it has none.
Addr(S, d, bn) ==
  IF bn < NDIRECT THEN d.addrs[bn]
  ELSE IF d.addrs[NDIRECT] = 0 THEN 0
  ELSE S.blk[d.addrs[NDIRECT]][bn - NDIRECT + 1][2]

\* bmap for a block that is not there yet: the block r goes into slot n of the
\* inode, or behind the indirect block.
InSlot(r, i, n) == [r EXCEPT !.s.itab[i].d.addrs[n] = r.addr]

Behind(r, ind, bn) ==
  IF r.addr = 0 THEN r ELSE [r EXCEPT !.s.blk[ind][bn - NDIRECT + 1] = <<"", r.addr>>]

BmapIndirect(r, bn) == IF r.addr = 0 THEN r ELSE Behind(Balloc(r.s), r.addr, bn)

BmapAlloc(S, i, bn) ==
  LET ind == S.itab[i].d.addrs[NDIRECT]
  IN  IF bn < NDIRECT THEN InSlot(Balloc(S), i, bn)
      ELSE IF ind # 0 THEN Behind(Balloc(S), ind, bn)
      ELSE BmapIndirect(InSlot(Balloc(S), i, NDIRECT), bn)

Bmap(S, i, bn) ==
  LET a == Addr(S, S.itab[i].d, bn)
  IN  IF a # 0 THEN [s |-> S, addr |-> a] ELSE BmapAlloc(S, i, bn)

\* The blocks of an inode, indirect block and blocks behind it included.
BlocksOf(S, d) ==
  ({d.addrs[n] : n \in 0..NDIRECT}
   \cup {Addr(S, d, bn) : bn \in 0..(NDIRECT + NINDIRECT - 1)}) \ {0}

\* Fault: the indirect block itself is forgotten.
ItruncNoIndirect(S, i) ==
  LET d == S.itab[i].d
      T == FoldSet(LAMBDA b, R : Bfree(R, b), S, BlocksOf(S, d) \ {d.addrs[NDIRECT]})
  IN  Iupdate([T EXCEPT !.itab[i].d = [@ EXCEPT !.size = 0, !.addrs = NoAddrs]], i)

Itrunc(S, i) ==
  LET T == FoldSet(LAMBDA b, R : Bfree(R, b), S, BlocksOf(S, S.itab[i].d))
  IN  Iupdate([T EXCEPT !.itab[i].d = [@ EXCEPT !.size = 0, !.addrs = NoAddrs]], i)

\* readi of one cell.
Cell(S, d, off) ==
  LET a == Addr(S, d, off \div BSIZE)
  IN  IF a = 0 THEN FreeCell ELSE S.blk[a][(off % BSIZE) + 1]

\* A cell of a user's buffer that either_copyin cannot read.
BadCell == <<"", -1>>

\* The loop of writei, which ends when there is no block for a cell, or when the
\* part of the buffer that goes to the block cannot be copied: the block that
\* bmap may just have added stays.
WriteCell(r, w, cell, copied) ==
  IF r.addr = 0 \/ ~copied THEN [s |-> r.s, off |-> w.off, stop |-> TRUE]
  ELSE [s |-> [r.s EXCEPT !.blk[r.addr][(w.off % BSIZE) + 1] = cell],
        off |-> w.off + 1, stop |-> FALSE]

WriteLoop(S, i, off, cells) ==
  LET copied(bn) == \A k \in DOMAIN cells :
                      (off + k - 1) \div BSIZE = bn => cells[k] # BadCell
  IN  FoldLeft(LAMBDA w, c : IF w.stop THEN w
                             ELSE WriteCell(Bmap(w.s, i, w.off \div BSIZE), w, c,
                                            copied(w.off \div BSIZE)),
               [s |-> S, off |-> off, stop |-> FALSE], cells)

\* The end of writei.
Written(w, i, off, n) ==
  [s |-> Iupdate([w.s EXCEPT !.itab[i].d.size = Max({@, w.off})], i), n |-> w.off - off]

\* writei: n is the number of cells written, -1 if it refused.
Writei(S, i, off, cells) ==
  IF off > S.itab[i].d.size \/ off + Len(cells) > (NDIRECT + NINDIRECT) * BSIZE
    THEN [s |-> S, n |-> -1]
    ELSE Written(WriteLoop(S, i, off, cells), i, off, Len(cells))

\* dirlookup: the offset of the entry, -1 if there is none.
Dirlookup(S, dp, name) ==
  LET d == S.itab[dp].d
      offs == {o \in 0..(d.size - 1) : Cell(S, d, o)[2] # 0 /\ Cell(S, d, o)[1] = name}
  IN  IF offs = {} THEN -1 ELSE Min(offs)

EntryAt(S, dp, off) == Cell(S, S.itab[dp].d, off)[2]

\* dirlink: "puts" is what dirlookup referenced and iput has to drop.
Entered(w) == [s |-> w.s, ok |-> w.n = 1, puts |-> <<>>]

Dirlink(S, dp, name, inum) ==
  LET d == S.itab[dp].d
      old == Dirlookup(S, dp, name)
      empty == {o \in 0..(d.size - 1) : Cell(S, d, o)[2] = 0}
  IN  IF old >= 0
        THEN [s |-> Iget(S, EntryAt(S, dp, old)), ok |-> FALSE, puts |-> <<EntryAt(S, dp, old)>>]
        ELSE Entered(Writei(S, dp, Min(empty \cup {d.size}), <<<<name, inum>>>>))

IsDirEmpty(S, dp) ==
  \A o \in 2..(S.itab[dp].d.size - 1) : Cell(S, S.itab[dp].d, o)[2] = 0

-----------------------------------------------------------------------------

Disk(S) == [dinode |-> S.dinode, used |-> S.used, blk |-> S.blk]

\* The image mkfs makes: the root directory with "." and "..", its size
\* rounded up to a block.
Image ==
  [dinode |-> [i \in Inum |-> IF i = ROOTINO
                 THEN [type |-> T_DIR, nlink |-> 1, size |-> BSIZE,
                       addrs |-> [NoAddrs EXCEPT ![0] = 1]]
                 ELSE FreeInode],
   used |-> {1},
   blk |-> [b \in 1..NBLOCKS |-> IF b = 1
              THEN [ZeroBlock EXCEPT ![1] = <<".", ROOTINO>>, ![2] = <<"..", ROOTINO>>]
              ELSE ZeroBlock]]

\* A booted kernel on a disk, with the first process in the root directory.
Booted(disk) ==
  [dinode |-> disk.dinode, used |-> disk.used, blk |-> disk.blk,
   itab |-> [i \in Inum |-> [ref |-> IF i = ROOTINO THEN 1 ELSE 0, valid |-> FALSE,
                             lock |-> None, d |-> FreeInode]],
   panic |-> None]

NoCall == [kind |-> None]

ClosedFile == [ref |-> 0, type |-> None, ip |-> 0, off |-> 0, writable |-> FALSE]

\* pc is "unborn", "idle" or the place in a system call; el is what is left
\* of the path, ip, dp and n are locals, puts are the iputs still to do, and
\* freeing says that the first of them has come to freeing the inode.
NewProc(l) ==
  [pc |-> l, call |-> NoCall, el |-> <<>>, ip |-> 0, dp |-> 0, n |-> 0,
   puts |-> <<>>, freeing |-> FALSE,
   cwd |-> ROOTINO, ofile |-> [fd \in 1..NOFILE |-> 0]]

Init ==
  /\ dur = Image
  /\ fs = Booted(Image)
  /\ ftable = [f \in 1..NFILE |-> ClosedFile]
  /\ proc = [p \in Proc |-> NewProc(IF p = First THEN "idle" ELSE "unborn")]
  /\ active = 0
  /\ calls = 0

-----------------------------------------------------------------------------
\* Steps of a process.

At(p, l) == fs.panic = None /\ proc[p].pc = l /\ proc[p].puts = <<>>

Kind(p) == proc[p].call.kind

\* p goes to l after giving up the inodes in "puts".
Goto(p, l, puts) == [proc[p] EXCEPT !.pc = l, !.puts = puts]

Become(p, q) == proc' = [proc EXCEPT ![p] = q]

LockFree(i) == fs.itab[i].lock = None

\* The value of "path" in a call: "/" first if it is absolute.
WalkFrom(S, p, path, q) ==
  LET abs == path # <<>> /\ Head(path) = "/"
      ip == IF abs THEN ROOTINO ELSE proc[p].cwd
  IN  /\ fs' = Iget(S, ip)
      /\ Become(p, [q EXCEPT !.pc = "walk", !.ip = ip, !.el = IF abs THEN Tail(path) ELSE path])

\* sys_open, sys_mkdir, sys_mknod, sys_link, sys_unlink, sys_chdir: begin_op
\* and the first lines of namex.
BeginPathCall(p, c) ==
  /\ At(p, "idle")
  /\ c.kind \in {"open", "create", "mkdir", "mknod", "baddev", "link", "unlink", "chdir"}
  /\ WalkFrom(fs, p, c.path, [proc[p] EXCEPT !.call = c])
  /\ active' = active + 1
  /\ calls' = calls + 1
  /\ UNCHANGED <<dur, ftable>>

\* Does this walk stop at the parent of the last element?
ToParent(p) ==
  \/ Kind(p) \in {"create", "mkdir", "mknod", "baddev", "unlink"}
  \/ Kind(p) = "link2"

\* A turn of the loop in namex, or its end.
Walk(p) ==
  LET P == proc[p]
      T == Ilock(fs, P.ip, p)
      off == Dirlookup(T, P.ip, Head(P.el))
      next == EntryAt(T, P.ip, off)
  IN  /\ At(p, "walk")
      /\ IF P.el = <<>>
           THEN /\ Become(p, IF ToParent(p) THEN Goto(p, "lost", <<P.ip>>)
                             ELSE Goto(p, "got", <<>>))
                /\ UNCHANGED fs
           ELSE /\ LockFree(P.ip)
                /\ IF T.itab[P.ip].d.type # T_DIR
                     THEN fs' = T /\ Become(p, Goto(p, "lost", <<P.ip>>))
                     ELSE IF ToParent(p) /\ Len(P.el) = 1
                     THEN /\ fs' = Iunlock(T, P.ip)
                          /\ Become(p, [Goto(p, "got", <<>>) EXCEPT !.dp = P.ip])
                     ELSE IF off < 0
                     THEN fs' = T /\ Become(p, Goto(p, "lost", <<P.ip>>))
                     ELSE /\ fs' = Iget(T, next)
                          /\ Become(p, [Goto(p, "walk", <<P.ip>>) EXCEPT
                                         !.ip = next, !.el = Tail(@)])
      /\ UNCHANGED <<dur, ftable, active, calls>>

\* namex returned 0, and there is nothing to undo.
Lost(p) ==
  /\ At(p, "lost")
  /\ Kind(p) # "link2"
  /\ Become(p, Goto(p, "end", <<>>))
  /\ UNCHANGED <<fs, dur, ftable, active, calls>>

\* iunlockput, up to iput.
Unlock(p) ==
  LET i == Head(proc[p].puts)
  IN  /\ fs.panic = None
      /\ proc[p].puts # <<>> /\ ~proc[p].freeing
      /\ fs.itab[i].lock = p
      /\ fs' = Iunlock(fs, i)
      /\ UNCHANGED <<dur, ftable, proc, active, calls>>

\* iput where it frees nothing.
MustFree(i) == fs.itab[i].ref = 1 /\ fs.itab[i].valid /\ fs.itab[i].d.nlink = 0

Iput(p) ==
  LET P == proc[p]
      i == Head(P.puts)
  IN  /\ fs.panic = None
      /\ P.puts # <<>> /\ ~P.freeing
      /\ fs.itab[i].lock # p
      /\ ~MustFree(i)
      /\ fs' = [fs EXCEPT !.itab[i].ref = @ - 1]
      /\ Become(p, [P EXCEPT !.puts = Tail(@)])
      /\ UNCHANGED <<dur, ftable, active, calls>>

\* iput of the last reference to an inode without links: up to iupdate, with
\* itable.lock held while it waits for the inode's lock.
IputFree(p) ==
  LET P == proc[p]
      i == Head(P.puts)
      T == Itrunc([fs EXCEPT !.itab[i].lock = p], i)
  IN  /\ fs.panic = None
      /\ P.puts # <<>> /\ ~P.freeing
      /\ fs.itab[i].lock # p
      /\ MustFree(i)
      /\ fs' = IF LockFree(i) THEN Iupdate([T EXCEPT !.itab[i].d.type = 0], i)
               ELSE Panic(fs, "iput waits holding itable.lock")
      /\ Become(p, [P EXCEPT !.freeing = TRUE])
      /\ UNCHANGED <<dur, ftable, active, calls>>

\* The rest of iput.
IputDone(p) ==
  LET i == Head(proc[p].puts)
  IN  /\ fs.panic = None
      /\ proc[p].freeing
      /\ fs' = [fs EXCEPT !.itab[i] = [@ EXCEPT !.valid = FALSE, !.lock = None, !.ref = @ - 1]]
      /\ Become(p, [proc[p] EXCEPT !.puts = Tail(@), !.freeing = FALSE])
      /\ UNCHANGED <<dur, ftable, active, calls>>

\* end_op: the last one commits.
EndOp(p) ==
  LET P == proc[p]
      next == CASE Kind(p) = "write" /\ P.n > 0 -> "write"
                [] Kind(p) = "exit" -> IF P.cwd = 0 THEN "unborn" ELSE "exit"
                [] OTHER -> "idle"
  IN  /\ At(p, "end")
      /\ active' = active - 1
      /\ dur' = IF active = 1 THEN Disk(fs) ELSE dur
      /\ Become(p, IF next \in {"write", "exit"} THEN Goto(p, next, <<>>)
                   ELSE IF next = "unborn" THEN NewProc("unborn")
                   ELSE [NewProc("idle") EXCEPT !.cwd = P.cwd, !.ofile = P.ofile])
      /\ UNCHANGED <<fs, ftable, calls>>

\* sys_open with the inode locked; "puts" is what create still has to drop.
OpenFile(p, S, ip, puts) ==
  LET type == S.itab[ip].d.type
      files == {f \in 1..NFILE : ftable[f].ref = 0}
      fds == {fd \in 1..NOFILE : proc[p].ofile[fd] = 0}
      T == IF proc[p].call.trunc /\ type = T_FILE THEN Itrunc(S, ip) ELSE S
  IN  IF type = T_BADDEVICE \/ files = {} \/ fds = {}
        THEN /\ fs' = S
             /\ Become(p, Goto(p, "end", puts \o <<ip>>))
             /\ UNCHANGED ftable
        ELSE /\ fs' = Iunlock(T, ip)
             /\ ftable' = [ftable EXCEPT ![Min(files)] =
                  [ref |-> 1, type |-> IF type = T_DEVICE THEN "device" ELSE "inode",
                   ip |-> ip, off |-> 0, writable |-> proc[p].call.write]]
             /\ Become(p, [Goto(p, "end", puts) EXCEPT !.ofile[Min(fds)] = Min(files)])

\* sys_open without O_CREATE.
OpenOld(p) ==
  LET ip == proc[p].ip
      T == Ilock(fs, ip, p)
  IN  /\ At(p, "got") /\ Kind(p) = "open"
      /\ LockFree(ip)
      /\ IF T.itab[ip].d.type = T_DIR /\ (proc[p].call.write \/ proc[p].call.trunc)
           THEN fs' = T /\ Become(p, Goto(p, "end", <<ip>>)) /\ UNCHANGED ftable
           ELSE OpenFile(p, T, ip, <<>>)
      /\ UNCHANGED <<dur, active, calls>>

Creating == {"create", "mkdir", "mknod", "baddev"}

NewType(k) ==
  CASE k = "create" -> T_FILE [] k = "mkdir" -> T_DIR
    [] k = "mknod" -> T_DEVICE [] k = "baddev" -> T_BADDEVICE

\* Fault: dp stays locked while the inode found is locked.
FoundHolds(p, S, dp, old) ==
  /\ fs' = Iget(S, old)
  /\ Become(p, [Goto(p, "oldlock", <<>>) EXCEPT !.ip = old])

\* create: the name is there, and dp is given up before the inode is locked.
Found(p, S, dp, old) ==
  /\ fs' = Iget(S, old)
  /\ Become(p, [Goto(p, "oldlock", <<dp>>) EXCEPT !.ip = old])

\* create with dp locked: up to the ilock of the inode found or allocated.
CreateIn(p) ==
  LET P == proc[p]
      T == Ilock(fs, P.dp, p)
      off == Dirlookup(T, P.dp, Head(P.el))
  IN  /\ At(p, "got") /\ Kind(p) \in Creating
      /\ LockFree(P.dp)
      /\ IF off >= 0 THEN Found(p, T, P.dp, EntryAt(T, P.dp, off))
         ELSE IF FreeInodes(T) = {}
         THEN fs' = T /\ Become(p, Goto(p, "end", <<P.dp>>))
         ELSE /\ fs' = Ialloc(T, NewType(Kind(p)))
              /\ Become(p, [Goto(p, "newlock", <<>>) EXCEPT !.ip = Min(FreeInodes(T))])
      /\ UNCHANGED <<dur, ftable, active, calls>>

\* create of a name that exists.
CreateOld(p) ==
  LET ip == proc[p].ip
      T == Ilock(fs, ip, p)
  IN  /\ At(p, "oldlock")
      /\ LockFree(ip)
      /\ IF Kind(p) = "create" /\ T.itab[ip].d.type # T_DIR
           THEN OpenFile(p, T, ip, <<>>)
           ELSE fs' = T /\ Become(p, Goto(p, "end", <<ip>>)) /\ UNCHANGED ftable
      /\ UNCHANGED <<dur, active, calls>>

\* The links of a new inode: . and .. for a directory, and its name.
ThenLink(r, dp, name, inum) == IF r.ok THEN Dirlink(r.s, dp, name, inum) ELSE r

Linked(S, dp, ip, name, isdir) ==
  ThenLink(IF isdir THEN ThenLink(Dirlink(S, ip, ".", ip), ip, "..", dp)
           ELSE [s |-> S, ok |-> TRUE, puts |-> <<>>],
           dp, name, ip)

SetLinks(S, i, k) == Iupdate([S EXCEPT !.itab[i].d.nlink = k], i)

AddLinks(S, i, k) == Iupdate([S EXCEPT !.itab[i].d.nlink = @ + k], i)

\* "fail:" in create.
Undo(S, ip) == SetLinks(S, ip, 0)

\* create of a new inode, and what the caller does with it.
CreateEnd(p, r, dp, ip) ==
  IF ~r.ok
    THEN /\ fs' = Undo(r.s, ip)
         /\ Become(p, Goto(p, "end", r.puts \o <<ip, dp>>))
         /\ UNCHANGED ftable
    ELSE IF Kind(p) = "create" THEN OpenFile(p, r.s, ip, <<dp>>)
    ELSE /\ fs' = IF Kind(p) = "mkdir" THEN AddLinks(r.s, dp, 1) ELSE r.s
         /\ Become(p, Goto(p, "end", <<dp, ip>>))
         /\ UNCHANGED ftable

CreateNew(p) ==
  LET dp == proc[p].dp
      ip == proc[p].ip
  IN  /\ At(p, "newlock")
      /\ LockFree(ip)
      /\ CreateEnd(p, Linked(SetLinks(Ilock(fs, ip, p), ip, 1), dp, ip, Head(proc[p].el),
                             Kind(p) = "mkdir"), dp, ip)
      /\ UNCHANGED <<dur, active, calls>>

\* sys_unlink with dp locked, up to the ilock of the inode.
UnlinkIn(p) ==
  LET P == proc[p]
      T == Ilock(fs, P.dp, p)
      off == Dirlookup(T, P.dp, Head(P.el))
      ip == EntryAt(T, P.dp, off)
  IN  /\ At(p, "got") /\ Kind(p) = "unlink"
      /\ LockFree(P.dp)
      /\ IF Head(P.el) \in {".", ".."} \/ off < 0
           THEN fs' = T /\ Become(p, Goto(p, "end", <<P.dp>>))
           ELSE /\ fs' = Iget(T, ip)
                /\ Become(p, [Goto(p, "victim", <<>>) EXCEPT !.ip = ip, !.n = off])
      /\ UNCHANGED <<dur, ftable, active, calls>>

Removable(S, ip) == S.itab[ip].d.type # T_DIR \/ IsDirEmpty(S, ip)

\* The rest of sys_unlink, with T holding both locks; w wrote the empty entry.
Removed(T, w, dp, ip) ==
  LET U == AddLinks(IF T.itab[ip].d.type = T_DIR THEN AddLinks(w.s, dp, -1) ELSE w.s, ip, -1)
  IN  IF w.n = 1 THEN U ELSE Panic(U, "unlink: writei")

UnlinkVictim(p) ==
  LET P == proc[p]
      T == Ilock(fs, P.ip, p)
  IN  /\ At(p, "victim")
      /\ LockFree(P.ip)
      /\ IF T.itab[P.ip].d.nlink < 1
           THEN fs' = Panic(T, "unlink: nlink < 1") /\ UNCHANGED proc
           ELSE IF ~Removable(T, P.ip)
           THEN fs' = T /\ Become(p, Goto(p, "end", <<P.ip, P.dp>>))
           ELSE /\ fs' = Removed(T, Writei(T, P.dp, P.n, <<FreeCell>>), P.dp, P.ip)
                /\ Become(p, Goto(p, "end", <<P.dp, P.ip>>))
      /\ UNCHANGED <<dur, ftable, active, calls>>

\* sys_link: count the link, then look for the directory.  n keeps the inode.
LinkOld(p) ==
  LET P == proc[p]
      T == Ilock(fs, P.ip, p)
  IN  /\ At(p, "got") /\ Kind(p) = "link"
      /\ LockFree(P.ip)
      /\ IF T.itab[P.ip].d.type = T_DIR
           THEN fs' = T /\ Become(p, Goto(p, "end", <<P.ip>>))
           ELSE WalkFrom(Iunlock(AddLinks(T, P.ip, 1), P.ip), p, P.call.new,
                         [P EXCEPT !.n = P.ip, !.call.kind = "link2"])
      /\ UNCHANGED <<dur, ftable, active, calls>>

\* sys_link: enter the name.
LinkNew(p) ==
  LET P == proc[p]
      r == Dirlink(Ilock(fs, P.dp, p), P.dp, Head(P.el), P.n)
  IN  /\ At(p, "got") /\ Kind(p) = "link2"
      /\ LockFree(P.dp)
      /\ fs' = r.s
      /\ Become(p, IF r.ok THEN Goto(p, "end", <<P.dp, P.n>>)
                   ELSE Goto(p, "lost", r.puts \o <<P.dp>>))
      /\ UNCHANGED <<dur, ftable, active, calls>>

\* Fault: the link that was counted is not taken back.
LinkBadForgets(p) ==
  LET P == proc[p]
  IN  /\ At(p, "lost") /\ Kind(p) = "link2"
      /\ LockFree(P.n)
      /\ Become(p, Goto(p, "end", <<P.n>>))
      /\ UNCHANGED <<fs, dur, ftable, active, calls>>

\* "bad:" in sys_link.
LinkBad(p) ==
  LET P == proc[p]
  IN  /\ At(p, "lost") /\ Kind(p) = "link2"
      /\ LockFree(P.n)
      /\ fs' = AddLinks(Ilock(fs, P.n, p), P.n, -1)
      /\ Become(p, Goto(p, "end", <<P.n>>))
      /\ UNCHANGED <<dur, ftable, active, calls>>

\* sys_chdir
Chdir(p) ==
  LET P == proc[p]
      T == Ilock(fs, P.ip, p)
  IN  /\ At(p, "got") /\ Kind(p) = "chdir"
      /\ LockFree(P.ip)
      /\ fs' = Iunlock(T, P.ip)
      /\ Become(p, IF T.itab[P.ip].d.type # T_DIR THEN Goto(p, "end", <<P.ip>>)
                   ELSE [Goto(p, "end", <<P.cwd>>) EXCEPT !.cwd = P.ip])
      /\ UNCHANGED <<dur, ftable, active, calls>>

-----------------------------------------------------------------------------
\* Open files (file.c) and what fork and exit do with them.

FileOf(p, fd) == ftable[proc[p].ofile[fd]]

IsOpen(p, fd) == proc[p].ofile[fd] # 0

\* sys_read of a file: readi returns at most what is left, never more, and -1
\* when either_copyout fails.
Read(p, c) ==
  LET f == proc[p].ofile[c.fd]
      T == Ilock(fs, ftable[f].ip, p)
      left == T.itab[ftable[f].ip].d.size - ftable[f].off
  IN  /\ At(p, "idle") /\ c.kind = "read"
      /\ IsOpen(p, c.fd) /\ ftable[f].type = "inode"
      /\ LockFree(ftable[f].ip)
      /\ fs' = Iunlock(T, ftable[f].ip)
      /\ \E n \in {0, Max({0, Min({c.n, left})})} :
           ftable' = [ftable EXCEPT ![f].off = @ + n]
      /\ calls' = calls + 1
      /\ UNCHANGED <<dur, proc, active>>

\* sys_fstat: ilock, which may read the inode, and iunlock.
Fstat(p, c) ==
  LET ip == FileOf(p, c.fd).ip
  IN  /\ At(p, "idle") /\ c.kind = "fstat"
      /\ IsOpen(p, c.fd)
      /\ LockFree(ip)
      /\ fs' = Iunlock(Ilock(fs, ip, p), ip)
      /\ calls' = calls + 1
      /\ UNCHANGED <<dur, ftable, proc, active>>

\* sys_write: filewrite goes on in chunks, each in its own transaction.
Write(p, c) ==
  /\ At(p, "idle") /\ c.kind = "write"
  /\ IsOpen(p, c.fd) /\ FileOf(p, c.fd).writable /\ FileOf(p, c.fd).type = "inode"
  /\ Become(p, [Goto(p, "write", <<>>) EXCEPT !.call = c, !.n = c.n])
  /\ calls' = calls + 1
  /\ UNCHANGED <<fs, dur, ftable, active>>

WriteBegin(p) ==
  /\ At(p, "write")
  /\ Become(p, Goto(p, "wlock", <<>>))
  /\ active' = active + 1
  /\ UNCHANGED <<fs, dur, ftable, calls>>

\* One turn of the loop in filewrite; a short write ends it.  The buffer may
\* be bad from some cell on.
WriteChunk(p) ==
  LET P == proc[p]
      f == P.ofile[P.call.fd]
      ip == ftable[f].ip
      n1 == Min({P.n, MaxChunk})
  IN  /\ At(p, "wlock")
      /\ LockFree(ip)
      /\ \E good \in 0..n1 :
           LET cells == [k \in 1..n1 |-> IF k <= good THEN <<"", 9>> ELSE BadCell]
               w == Writei(Ilock(fs, ip, p), ip, ftable[f].off, cells)
           IN  /\ fs' = Iunlock(w.s, ip)
               /\ ftable' = [ftable EXCEPT ![f].off = @ + Max({0, w.n})]
               /\ Become(p, [Goto(p, "end", <<>>) EXCEPT !.n = IF w.n = n1 THEN @ - n1 ELSE 0])
      /\ UNCHANGED <<dur, active, calls>>

\* sys_dup
Dup(p, c) ==
  LET f == proc[p].ofile[c.fd]
      fds == {fd \in 1..NOFILE : ~IsOpen(p, fd)}
  IN  /\ At(p, "idle") /\ c.kind = "dup"
      /\ IsOpen(p, c.fd) /\ fds # {}
      /\ ftable' = [ftable EXCEPT ![f].ref = @ + 1]
      /\ proc' = [proc EXCEPT ![p].ofile[Min(fds)] = f]
      /\ calls' = calls + 1
      /\ UNCHANGED <<fs, dur, active>>

\* Fault: the inode is given up with every descriptor.
FilecloseEager(p, fd, q, l) ==
  LET f == proc[p].ofile[fd]
  IN  /\ ftable' = [ftable EXCEPT ![f] = IF @.ref > 1 THEN [@ EXCEPT !.ref = @ - 1]
                                         ELSE ClosedFile]
      /\ active' = active + 1
      /\ Become(p, [q EXCEPT !.ofile[fd] = 0, !.pc = "end", !.puts = <<ftable[f].ip>>])

\* fileclose: the last reference gives up the inode in a transaction.
Fileclose(p, fd, q, l) ==
  LET f == proc[p].ofile[fd]
      last == ftable[f].ref = 1
  IN  /\ ftable' = [ftable EXCEPT ![f] = IF last THEN ClosedFile ELSE [@ EXCEPT !.ref = @ - 1]]
      /\ active' = IF last THEN active + 1 ELSE active
      /\ Become(p, IF last
           THEN [q EXCEPT !.ofile[fd] = 0, !.pc = "end", !.puts = <<ftable[f].ip>>]
           ELSE [q EXCEPT !.ofile[fd] = 0, !.pc = l])

\* sys_close
Close(p, c) ==
  /\ At(p, "idle") /\ c.kind = "close"
  /\ IsOpen(p, c.fd)
  /\ Fileclose(p, c.fd, proc[p], "idle")
  /\ calls' = calls + 1
  /\ UNCHANGED <<fs, dur>>

\* fork: the child shares the open files and the directory.
Fork(p, c) ==
  LET shared(f) == Cardinality({fd \in 1..NOFILE : proc[p].ofile[fd] = f})
  IN  /\ At(p, "idle") /\ c.kind = "fork"
      /\ \E q \in Proc :
           /\ proc[q].pc = "unborn"
           /\ proc' = [proc EXCEPT ![q] = [NewProc("idle") EXCEPT !.cwd = proc[p].cwd,
                                                                 !.ofile = proc[p].ofile]]
      /\ ftable' = [f \in 1..NFILE |-> [ftable[f] EXCEPT !.ref = @ + shared(f)]]
      /\ fs' = Iget(fs, proc[p].cwd)
      /\ calls' = calls + 1
      /\ UNCHANGED <<dur, active>>

\* exit: close every file, then give up the directory.
Exit(p, c) ==
  /\ At(p, "idle") /\ c.kind = "exit" /\ p # First
  /\ Become(p, [Goto(p, "exit", <<>>) EXCEPT !.call = c])
  /\ calls' = calls + 1
  /\ UNCHANGED <<fs, dur, ftable, active>>

ExitStep(p) ==
  LET open == {fd \in 1..NOFILE : IsOpen(p, fd)}
  IN  /\ At(p, "exit")
      /\ IF open # {} THEN Fileclose(p, Min(open), proc[p], "exit")
         ELSE /\ active' = active + 1
              /\ Become(p, [Goto(p, "end", <<proc[p].cwd>>) EXCEPT !.cwd = 0])
              /\ UNCHANGED ftable
      /\ UNCHANGED <<fs, dur, calls>>

-----------------------------------------------------------------------------

\* The machine reboots.
Crash ==
  /\ Crashes
  /\ fs' = Booted(dur)
  /\ ftable' = [f \in 1..NFILE |-> ClosedFile]
  /\ proc' = [p \in Proc |-> NewProc(IF p = First THEN "idle" ELSE "unborn")]
  /\ active' = 0
  /\ UNCHANGED <<dur, calls>>

Begin(p) ==
  /\ calls < MaxCalls
  /\ \E c \in Calls :
       \/ BeginPathCall(p, c)
       \/ Read(p, c)
       \/ Fstat(p, c)
       \/ Write(p, c)
       \/ Dup(p, c)
       \/ Close(p, c)
       \/ Fork(p, c)
       \/ Exit(p, c)

\* What a process does inside a system call.
Step(p) ==
  \/ Walk(p)
  \/ Lost(p)
  \/ Unlock(p)
  \/ Iput(p)
  \/ IputFree(p)
  \/ IputDone(p)
  \/ EndOp(p)
  \/ OpenOld(p)
  \/ CreateIn(p)
  \/ CreateOld(p)
  \/ CreateNew(p)
  \/ UnlinkIn(p)
  \/ UnlinkVictim(p)
  \/ LinkOld(p)
  \/ LinkNew(p)
  \/ LinkBad(p)
  \/ Chdir(p)
  \/ WriteBegin(p)
  \/ WriteChunk(p)
  \/ ExitStep(p)

Next == (\E p \in Proc : Begin(p) \/ Step(p)) \/ Crash

Spec == Init /\ [][Next]_vars

-----------------------------------------------------------------------------

TypeOK ==
  /\ fs.used \subseteq 1..NBLOCKS
  /\ \A i \in Inum :
       /\ fs.itab[i].ref \in Nat
       /\ fs.itab[i].lock \in Proc \cup {None}
       /\ fs.dinode[i].nlink \in Nat
       /\ fs.dinode[i].size \in 0..((NDIRECT + NINDIRECT) * BSIZE)
  /\ \A f \in 1..NFILE : ftable[f].ref \in Nat /\ ftable[f].off \in Nat
  /\ active \in 0..Cardinality(Proc)

\* No panic of fs.c: no block freed twice, no free inode opened, no inode
\* unlinked once too often, and iput never waits for a lock while it holds
\* itable.lock ("ip->ref == 1 means no other process can have ip locked").
NoPanic == fs.panic = None

\* Directory entries (inode, name, target) of a disk.
Entries(D) ==
  UNION {{<<i, Cell(D, D.dinode[i], o)[1], Cell(D, D.dinode[i], o)[2]>> :
            o \in {o \in 0..(D.dinode[i].size - 1) : Cell(D, D.dinode[i], o)[2] # 0}} :
         i \in {i \in Inum : D.dinode[i].type = T_DIR /\ D.dinode[i].nlink > 0}}

\* A block is marked used exactly if one inode has it, and then in one place:
\* allocation, truncation and a cut-off write never leak or share a block.
BlocksExact ==
  LET slots(d) == {n \in 0..NDIRECT : d.addrs[n] # 0}
      behind(d) == {bn \in NDIRECT..(NDIRECT + NINDIRECT - 1) : Addr(dur, d, bn) # 0}
  IN  /\ \A i, j \in Inum :
           i # j => BlocksOf(dur, dur.dinode[i]) \cap BlocksOf(dur, dur.dinode[j]) = {}
      /\ dur.used = UNION {BlocksOf(dur, dur.dinode[i]) : i \in Inum}
      /\ \A i \in Inum : Cardinality(BlocksOf(dur, dur.dinode[i])) =
           Cardinality(slots(dur.dinode[i])) + Cardinality(behind(dur.dinode[i]))

\* nlink is the number of names of an inode, plus, for a directory, the number
\* of directories in it, and every name is of an allocated inode (fs.h: "Number
\* of links to inode in file system").
LinksExact ==
  \A i \in Inum :
    LET names == {e \in Entries(dur) : e[3] = i /\ e[2] # "." /\ e[1] # i}
    IN  /\ dur.dinode[i].nlink = Cardinality(names) + (IF i = ROOTINO THEN 1 ELSE 0)
        /\ names # {} => dur.dinode[i].type # 0

\* A directory that can be reached has . and .. naming itself and a directory
\* that names it.
TreeExact ==
  \A i \in Inum : (dur.dinode[i].type = T_DIR /\ dur.dinode[i].nlink > 0) =>
    /\ <<i, ".", i>> \in Entries(dur)
    /\ \E e \in Entries(dur) :
         e[1] = i /\ e[2] = ".." /\ (i # ROOTINO => \E g \in Entries(dur) :
           g[1] = e[3] /\ g[3] = i /\ g[2] \notin {".", ".."})

\* Every cell below the size of a file has a block, so that reading, which is
\* done outside transactions, never makes bmap allocate one.
NoHoles ==
  \A i \in Inum : \A o \in 0..(dur.dinode[i].size - 1) :
    Addr(dur, dur.dinode[i], o \div BSIZE) # 0

\* References process p holds besides its files and directory.
Held(p) ==
  LET P == proc[p]
      two == P.pc \in {"newlock", "victim"}
      kept == Kind(p) = "link2" /\ P.pc \in {"walk", "got", "lost"}
  IN  P.puts
      \o (IF P.pc \in {"walk", "oldlock"} \/ two \/ (P.pc = "got" /\ ~ToParent(p))
         THEN <<P.ip>> ELSE <<>>)
      \o (IF two \/ (P.pc = "got" /\ ToParent(p)) THEN <<P.dp>> ELSE <<>>)
      \o (IF kept THEN <<P.n>> ELSE <<>>)

\* The reference count of an inode is the number of open files, current
\* directories and system calls that have it: nothing is freed under a user
\* and nothing stays referenced for ever.
RefsExact ==
  NoPanic => \A i \in Inum :
    fs.itab[i].ref =
      Cardinality({f \in 1..NFILE : ftable[f].ref > 0 /\ ftable[f].ip = i})
      + Cardinality({p \in Proc : proc[p].pc # "unborn" /\ proc[p].cwd = i})
      + Cardinality({<<p, k>> \in Proc \X (1..6) : k <= Len(Held(p)) /\ Held(p)[k] = i})

\* An inode nobody has locked is on the disk as it is in memory: iupdate
\* follows every change ("must be called after every change to an ip->xxx
\* field that lives on disk").
Synced ==
  \A i \in Inum : (fs.itab[i].ref > 0 /\ fs.itab[i].valid /\ LockFree(i)) =>
    fs.itab[i].d = fs.dinode[i]

\* Without reboots, an inode without links is in use: the last iput frees it.
OrphansFreed ==
  \A i \in Inum : (fs.dinode[i].type # 0 /\ fs.dinode[i].nlink = 0) => fs.itab[i].ref > 0

\* The inode whose lock p wants next, 0 if none.
Wants(p) ==
  LET P == proc[p]
  IN  IF P.puts # <<>> THEN 0
      ELSE CASE P.pc = "walk" /\ P.el # <<>> -> P.ip
             [] P.pc \in {"oldlock", "newlock", "victim"} -> P.ip
             [] P.pc = "got" -> IF ToParent(p) THEN P.dp ELSE P.ip
             [] P.pc = "lost" /\ Kind(p) = "link2" -> P.n
             [] P.pc = "wlock" -> FileOf(p, P.call.fd).ip
             [] OTHER -> 0

\* No processes wait for inode locks in a circle, nor one for itself.
NoWaitCycle ==
  \A S \in SUBSET Proc \ {{}} :
    \E p \in S : Wants(p) = 0 \/ fs.itab[Wants(p)].lock \notin S

=============================================================================

------------------------------ MODULE MCFiles ------------------------------
(***************************************************************************)
(* Instances of FileSystem, chosen in the initial state.  Trees: one       *)
(* process, directories, a disk that fills up, reboots.  Shared: two       *)
(* processes sharing open files.  Moving: two processes whose paths cross. *)
(***************************************************************************)
EXTENDS Integers

VARIABLES chosen, fs, dur, ftable, proc, active, calls

vars == <<chosen, fs, dur, ftable, proc, active, calls>>

a == <<"/", "a">>
b == <<"/", "b">>
ab == <<"/", "a", "b">>

Opening(kind, path, write, trunc) ==
  [kind |-> kind, path |-> path, write |-> write, trunc |-> trunc]
On(kind, path) == [kind |-> kind, path |-> path]
Link(path, new) == [kind |-> "link", path |-> path, new |-> new]
Io(kind, fd, n) == [kind |-> kind, fd |-> fd, n |-> n]

Trees == INSTANCE FileSystem WITH
  Proc <- {"p1", "p2"}, First <- "p1", NINODES <- 3, NINODE <- 3, NBLOCKS <- 4, BSIZE <- 3,
  NDIRECT <- 1, NINDIRECT <- 2, NFILE <- 2, NOFILE <- 2, MaxChunk <- 2,
  Crashes <- TRUE, MaxCalls <- 5,
  Calls <- {Opening("create", a, TRUE, FALSE), Opening("create", ab, TRUE, FALSE),
            Opening("open", a, TRUE, TRUE), On("mkdir", a), On("mkdir", b), On("mkdir", ab),
            On("unlink", a), On("unlink", ab), Link(a, b), Link(ab, b),
            Io("write", 1, 3), Io("write", 1, 5), Io("read", 1, 2), Io("close", 1, 0)}

Shared == INSTANCE FileSystem WITH
  Proc <- {"p1", "p2"}, First <- "p1", NINODES <- 3, NINODE <- 3, NBLOCKS <- 4, BSIZE <- 3,
  NDIRECT <- 1, NINDIRECT <- 2, NFILE <- 2, NOFILE <- 2, MaxChunk <- 2,
  Crashes <- FALSE, MaxCalls <- 5,
  Calls <- {Opening("create", a, TRUE, TRUE), On("unlink", a), Link(a, b),
            Io("write", 1, 3), Io("close", 1, 0), Io("dup", 1, 0),
            On("fork", <<>>), On("exit", <<>>)}

Moving == INSTANCE FileSystem WITH
  Proc <- {"p1", "p2"}, First <- "p1", NINODES <- 3, NINODE <- 3, NBLOCKS <- 4, BSIZE <- 3,
  NDIRECT <- 1, NINDIRECT <- 2, NFILE <- 2, NOFILE <- 2, MaxChunk <- 2,
  Crashes <- FALSE, MaxCalls <- 4,
  Calls <- {On("mkdir", a), On("unlink", a), On("chdir", a), On("fork", <<>>),
            On("mknod", b), On("baddev", b), Opening("open", b, FALSE, FALSE), Io("fstat", 1, 0),
            Opening("create", <<"/", "a", "..">>, TRUE, FALSE),
            Opening("open", <<"..">>, FALSE, FALSE)}

Init ==
  \/ chosen = "trees" /\ Trees!Init
  \/ chosen = "shared" /\ Shared!Init
  \/ chosen = "moving" /\ Moving!Init

Next ==
  \/ chosen = "trees" /\ Trees!Next /\ UNCHANGED chosen
  \/ chosen = "shared" /\ Shared!Next /\ UNCHANGED chosen
  \/ chosen = "moving" /\ Moving!Next /\ UNCHANGED chosen

Spec == Init /\ [][Next]_vars

\* The instances have the same constants but for Calls, MaxCalls and Crashes,
\* which the invariants below do not mention.

\* No panic of fs.c: no block is freed twice, no free inode locked, no inode
\* unlinked once too often, and iput finds the lock of a dying inode free.
NoPanic == Trees!NoPanic

\* Blocks on the disk are marked used exactly while one inode has them, once;
\* no cell below the size of a file lacks its block; an unlocked inode is on
\* the disk as in memory (balloc, bfree, bmap, itrunc, writei, iupdate, and
\* log.c for reboots).
DiskExact == Trees!BlocksExact /\ Trees!NoHoles /\ Trees!Synced

\* nlink counts the names of an inode on the disk, the directories form a
\* tree, and without reboots no inode without a name outlives its users
\* (create, sys_link, sys_unlink, isdirempty, and what they undo when a step
\* fails; iput).
NamesExact ==
  /\ Trees!LinksExact /\ Trees!TreeExact
  /\ chosen = "trees" \/ Trees!OrphansFreed

\* Inodes in memory are referenced by exactly those who use them (iget, iput,
\* filedup, fileclose, fork, exit).
RefsExact == Trees!TypeOK /\ Trees!RefsExact

\* Processes never wait for inode locks in a circle (namex, create, sys_unlink).
NoWaitCycle == Trees!NoWaitCycle

=============================================================================

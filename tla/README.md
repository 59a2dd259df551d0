# Verification of the RAID system

TLA+ models, TLC runs and TLAPS proofs for an xv6-riscv kernel with software
RAID. Paths are relative to the repository; `PROJECT.json` maps every
definition to the lines it models and lists the hazards the properties cover.

## The system and its parts

A program calls `init_raid`, `read_raid`, `write_raid`, `disk_fail_raid`,
`disk_repaired_raid`, `info_raid` and `destroy_raid` (`kernel/sysraid.c`).
`kernel/raid.c` keeps the metadata (`struct raid`, one page in memory and a copy
in row 0 of every disk) and dispatches on the RAID type. `kernel/raid_rw.c` has
the data path of each type, `fetch()` and `writeback()`. Disks are accessed by
`read_block`/`write_block` of `kernel/virtio_disk.c`, which move 1024 bytes
(`BSIZE`) through one transfer buffer per disk, while the RAID layer thinks in
blocks of 512 (`BLOCKSIZE`). The driver sleeps until the device interrupts.

Around this is xv6. The file system (`fs.c`, `sysfile.c`, `file.c`) changes
blocks inside transactions of the log (`log.c`), which goes through the buffer
cache (`bio.c`) to the driver. Everything that waits uses `sleep` and `wakeup`
of `proc.c`. Pipes, console, memory and exec complete the kernel; the shell,
grep and malloc are user programs.

| part | modules | proofs |
|---|---|---|
| block addresses | RaidLayout, RaidScan | RaidParityInv |
| RAID0 | RaidStriped | |
| RAID1, RAID0+1 | RaidMirror, RaidRecord | RaidMirrorProofs |
| RAID4, RAID5 | RaidParity; BlockStore (what an array promises) | RaidParityInv, RaidParityProofs |
| metadata | RaidMeta, RaidRecord | RaidMetaProofs |
| virtio driver | VirtioDisk | VirtioProofs |
| buffer cache, log | BufferedLog, Log; AtomicStore (what the log promises) | LogProofs |
| file system, files | FileSystem | |
| processes, scheduler, spin locks, clock | Processes | |
| pipes | Pipe | PipeCalls, PipeProofs |
| console, UART | Console | |
| memory, exec | Memory | |
| user programs | Malloc, Grep, Shell | |

## Modules and the code

Every module has one action per operation or per stretch of code between two
points where others can intervene. Definitions marked "Fault" are faulty variants
of the definition that follows them, kept to show that each property can fail;
the specifications do not use them.

* **RaidLayout**: the address arithmetic. Disks are 1..DISKS; parity disks,
  indices 0..DISKS-1 in the code, are disk numbers here.
* **RaidScan**: a client that visits every block number below `max_blocks`, like
  the loop of `user/javni_test.c`.
* **RaidParity**: `cache()`, `raid_tocache_recovery()`,
  `raid_write_updateparity_cache()` and the four functions of RAID4/5. A block is
  the set of its 1-bits, so exclusive or is symmetric difference. A row has halves
  `lo` and `hi` because 1024 bytes move through slots 512 bytes apart: reading a
  row also fills the next slot, writing one also stores it. A write is two
  actions, `WriteParity` and `WriteData`, with a reboot possible between them.
  `shadow` (values a read may return) and `torn` (stripes with a cut-off write)
  are ghosts. **BlockStore** is a single disk; `ActsAsOneDisk` is the refinement.
* **RaidRecord**: what `init_raid`, `disk_fail_raid` and `disk_repaired_raid` make
  of `struct raid`, including stores that miss their array (`copy_disks[-1]`).
* **RaidMeta**: those calls over the copies in memory and on the disks, one disk
  write per step, with reboots in between.
* **RaidMirror**: reads and the two writes of RAID1 (RAID0+1 has the same code).
  A missing disk is -1; its state is read from `disk_state[-2]`, which is
  `num_dead_disks`.
* **RaidStriped**: RAID0 with the caller's buffer and the memory behind it.
  `write_raid0` tests the disk numbered like the row; past the array the outcome
  is nondeterministic.
* **VirtioDisk**: processes, descriptors, both rings, the device (external), the
  interrupt handler. `vdisk_lock` is held except in `sleep`, so the code between
  two sleeps is one action.
* **BufferedLog**: `bget`, `bread`, `bwrite`, `brelse`, `bpin`, `bunpin`, the LRU
  list and the sleep locks, under `begin_op`, `log_write`, `end_op`, `commit` and
  recovery. It refines **Log** (`CacheTransparent`), in which the cache is only
  the content `bread` would deliver, and Log refines **AtomicStore**
  (`CallsAreAtomic`): what a reboot brings back is the state of a moment at which
  no call was active.
* **FileSystem**: bitmap, inodes, directories, paths, file table and the system
  calls over them, from the image `mkfs` makes. A process runs from one inode lock
  to the next in one step; the log is AtomicStore's promise (`dur`). A user's
  buffer may be bad from some cell on: `writei` stops at that block, which `bmap`
  may just have added beyond the size.
* **Processes**: process table, spin locks with their holders, the scheduler of
  each CPU, fork, exit, wait, kill, sleep, wakeup, yield, the clock and
  `sys_sleep`; `user/init.c` is the first process.
* **Pipe**: a pipeline of the shell and two programs over one pipe: `sys_pipe`,
  descriptors and reference counts, `pipewrite`, `piperead`, `pipeclose`. A
  `sys_pipe` whose `fdalloc` or `copyout` fails closes its two files one by one
  (`undo0`, `undo1`). With `CopyFails` the programs' buffers may be bad: `piperead`
  then returns what it has, and 0, which the program takes for the end of the
  file, when the first byte cannot be copied. `sent` and `taken` are ghosts: the
  bytes put into the ring and taken out.
* **Console**: line editing, readers, writers, the echo, the transmit ring, with
  wrapping indices, interrupts and two CPUs.
* **Memory**: pages, page tables, `kalloc`, `kfree`, growing, shrinking, fork,
  exec, exit and wait with every failing path when memory runs out.
* **Malloc**, **Grep**, **Shell**: `umalloc.c` turn by turn of its loops; the
  matcher and the read loop of `grep.c` against a reference matcher; the main loop
  and `runcmd` of `sh.c` on command trees.

## Runs

Several runs hold more than one component. The initial state chooses one
(`chosen`), only it moves, and each property is about the component it names.
MCKernel extends Pipe, MCRaidArrays RaidMirror, MCRaid4 and MCRaid5 RaidParity,
and MCLog Log: those components are the module itself, the others are instances.

| run | properties | what it shows |
|---|---|---|
| raid5 | TypeOK, ReadsCorrect, ActsAsOneDisk | RAID5 whose disks only fail: reads are right with one dead disk, and the array implements a single disk |
| | RebootKeepsMetadataFrom1 | while disks 1 and 2 live, a reboot inside `writeback` yields the metadata before or after the call |
| raid4 | CrashContained, HealthyReads | a reboot between parity and data write harms only that stripe, and only with a dead disk |
| | RepairedReads | repairs without a rebuild and writes to dead disks never harm disks that did not fail |
| raid_arrays | HealthyReads, MirrorsAgree, NoWildDisk, SurvivorServes | RAID1 with repairs and reboots: disks that never failed read right and agree, disk -1 is not addressed, a column with a primary is served |
| | Placement | every block of every type has a place of its own that is neither metadata nor parity; RAID0 reads back acknowledged writes |
| | MetadataExact | dead disks are counted; every live disk of a mirrored array has one place |
| virtio | DescriptorsAccounted, EachRequestOnce, ReturnsWhenDone | no descriptor, request or completion is lost or doubled, no call returns early |
| | RequestReturns, DescWaiterWoken | every submitted request returns, waiters for descriptors are woken |
| log | NoPanic, RefcntExact, CallsAreAtomic, CacheTransparent | log over buffer cache with reboots, readers, and more callers than the log admits |
| files | NoPanic, DiskExact, NamesExact, RefsExact, NoWaitCycle | calls of two processes on a disk that fills up, with reboots: bitmap, links, tree and reference counts agree, inode locks are never awaited in a circle |
| kernel | Fifo, SleepersInformed | bytes of a pipe come out as they went in; nobody sleeps on a pipe that is ready for it |
| | NoLostWakeup | the same of wait, sleep and the console |
| | SchedulerExact | one CPU per kernel stack, `sched` with one lock, no circle of spinning CPUs, every process has a living parent and is reaped once |
| | StreamsExact | end of file in a pipe (read into a good buffer) and on the console, order of output |
| | OwnersExact | pages, page tables and memory contents, the page of a pipe also when `sys_pipe` or `fork` fails, descriptors of killed processes |
| | ProgramsExact | malloc's heap, grep's output, the wiring and order of the shell's programs |
| progress | SleepersWake, SleepEnds, PipelineEnds, ConsoleFlows | begin_op returns, sys_sleep returns although the clock wraps, a pipeline ends, lines are read and output is sent |
| processes | OrphansReaped, KilledExits | orphans are reaped by init; a killed process without children exits |

Three runs end in a counterexample against a comment in the source (quoted under
"findings" in `PROJECT.json`):

| run | what the code does |
|---|---|
| raid5_write_dead | a cached write to a dead disk takes a stale slot for the old value and spoils the parity |
| raid_meta_reboot | `fetch` asks about the wrong disk and forgets a failure |
| files_removed | a file created in a directory that was just removed keeps its link count and inode for ever |

### Disagreements without a run of their own

TLC also finds these when a module is run with the constants shown (the other
constants as in the run that contains it):

| module, constants, property | what the code does |
|---|---|
| RaidScan, FitsOnDisk | block numbers below `max_blocks` lie behind the end of the disk |
| RaidParity, RAID5, `Repairs = TRUE`, ReadsCorrect | after a repair the cache serves a slot left over from another stripe |
| RaidParity, RAID5, `FreshDisks = FALSE`, ReadsCorrect | on disks with old content the parity is never initialised |
| RaidParity, RAID5, `Repairs = TRUE`, HealthyReads | the stale second half of a repaired parity row covers a healthy disk's slot |
| RaidMeta, `Reinit = TRUE`, `MaxDead = 3`, NumDeadExact | `init_raid` resets the counter of dead disks, not their states |
| RaidMeta, `DISKS = 5`, `MaxDead = 3`, SlotsExact | the reserve disk replaces a healthy copy |
| RaidMirror, `Rows = 2`, `Crashes = FALSE`, ReadsCorrect | a repaired mirror serves its old content |
| RaidMirror, `Rows = 2`, `MaxDead = 2`, no repairs or reboots, NoWildDisk | with both disks of a column dead, disk -1 is read |
| RaidStriped, DeadWriteRefused | `write_raid0` tests the wrong disk |
| RaidStriped, BufferBounds | a read overwrites memory behind the caller's buffer |
| VirtioDisk, two processes, `Killable = {p1}`, ReturnsWhenDone | a killed process goes on before its request is done; `bread` then marks the buffer valid (bio.c:100) |
| VirtioDisk, two processes, `Shared = TRUE`, ReturnsWhenDone | processes sharing a transfer buffer wake on each other's completion |
| BufferedLog, two processes, `LOGSIZE = SIZE = 4`, `MAXOPBLOCKS = MaxWrites = 2`, blocks 11..14, `NBUF = 8`, NoPanic | `begin_op` reserves LOGSIZE blocks, `log_write` refuses the one that would fill `log.size - 1` |
| Pipe, `CopyFails = TRUE`, EofIsEnd | `piperead` whose `copyout` fails on the first byte drops the byte and returns 0, the end of the file, with bytes left and writers alive |
| Pipe, `Killable = {"left"}`, SleepersInformed | a writer killed inside `pipewrite` returns without waking the reader |
| Console, two writers, `OneCpu = FALSE`, WritesInOrder | `uartputc_sync` and `uartstart` both find the transmitter idle |

Read from the code while modelling, and left out of the inputs or described
where they matter: `..` of a removed current directory ends in the panic
"ilock: no type"; inodes without a name leak when a reboot comes before the last
close; `kill(0)` marks an unused slot; a kill between the test and the sleep of
`wait` is seen only when a child exits; `morecore` cuts a huge size to an int; grep stops at a line that does not
fit its buffer and drops a last line without newline; of several redirections of
one descriptor the first wins; a failing fork in the shell's main loop ends the
shell; `fetch()` does not test what `kalloc` returns and loses a page per call.

### Bounds

* RAID4/5: 3 disks (the least with a data pair), 2 stripes (so that the cache is
  replaced and the RAID5 parity moves), 1 bit (exclusive or works bit by bit).
  raid4 lets disks 1 and 3 fail (1 with repairs) to stay short; with all three
  failing it had no violation in 4.8 million states.
* RAID1: 4 disks, two columns, `MaxDead = 1`: with two dead, disk -1 is addressed.
  RAID0: 3 rows and three blocks. RaidScan: disks of 8192 bytes, all five types.
* Metadata: 4 disks and at most 2 dead without reboots; 3 disks with reboots.
  `UintMod` stands for 2^32.
* virtio: 8 descriptors serve two requests, three processes compete; `IdxMod`
  stands for 2^16 and is small so that the counters wrap.
* Log: two processes, two blocks, 3 buffers with reboots; three processes and a
  log of 4 blocks for waiting in `begin_op`.
* Files: 3 inodes, 4 data blocks of 3 cells, one direct and two indirect
  addresses, so that every table and the disk run full; `MaxCalls` 4 or 5.
* Processes: 3 slots, two CPUs, 4 process identifiers. Pipe: a ring of 2 with
  counters modulo 4, 5 bytes in calls of 3, kills of the reader, early exit, with
  failing copies and without. Console: rings of 2, 4 keys. Memory: 15 pages for three
  processes, 20 for two. Malloc: 14 units in three calls of `sbrk` with a gap.
  Grep: a buffer of 4, files up to 4 characters. Shell: two lines out of a few.

Deadlock is checked in the RAID, virtio and log runs. In the others the
system really may stop: the calls or processes of an instance are used up, or,
in the driver with kills, the kernel has panicked.

### Fairness

Weak fairness of runnable processes (the scheduler goes round the process
table), of the device and its interrupt, of the UART and its handler. On the
locks of Processes it is strong: a CPU spinning on a lock that is released again
and again gets it in the end, a runnable process is picked in the end, and the
clock ticks. Nobody is obliged to make a system call, except init and the
programs of a pipeline. Safety runs assume nothing.

## Proofs

TLAPS proves the following for every value of the constants, under the
assumptions named. Eight modules hold theorems.

| theorem | states | assumes |
|---|---|---|
| Raid4/5Placement, Raid4/5Injective | a block is on a disk other than its parity disk, no two share a place | |
| Raid0Places, MirrorPlaces | a block is on a disk (in a column) behind the metadata row, no two share a place | |
| TypeCorrect | []TypeOK of RaidParity | |
| SurvivesOneDisk | []ReadsCorrect | FailOnly, no reboots |
| CrashContainment | []CrashContained | FailOnly |
| ImplementsOneDisk | RaidParity implements BlockStore | FailOnly, no reboots |
| HealthyDisksRead | []HealthyReads of RaidParity | NoStaleParity |
| MirrorHealthyReads | []HealthyReads of RaidMirror | Even |
| MirrorsStayEqual | []MirrorsAgree | Even |
| SurvivorsServe | []SurvivorServes | Even |
| NoWildAccess | []NoWildDisk | Even, `MaxDead <= 1` |
| RebootsKeepMetadata | []RebootKeepsMetadataFrom1 | Usual |
| DeadDisksCounted | []NumDeadExact | Usual, `Reinit = FALSE` |
| NoDescriptorLost | []DescriptorsAccounted | |
| EveryRequestOnce | []EachRequestOnce | Exclusive |
| NoEarlyReturn | []ReturnsWhenDone | Exclusive |
| LogIsAtomic | Log implements AtomicStore | LogAssumption |
| BytesInOrder | []Fifo | Sized |
| PageFreedOnce | []FreedWhenUnused | Sized |
| WakeupsSuffice | []SleepersInformed | Sized, the writer is not killed |
| EndOfFile | []EofIsEnd | Sized, reads of at least one byte, `CopyFails = FALSE` |

The assumptions:

* `FailOnly`: no repairs, no writes to blocks on dead disks, zeroed disks.
  `NoStaleParity`: RAID4, or no repairs. The Disagreements show that none can be
  dropped.
* `Even`: an even number of disks, any number of rows. `Usual`: the module's
  assumptions on its constants; a second `init_raid` is allowed for
  RebootsKeepMetadata, and not for DeadDisksCounted, where it is false.
* `Exclusive`: nobody is killed and no two processes share a buffer.
* `Sized`: the ring is not empty and its size divides the modulus of the counters
  (512 and 2^32 in the code). Without it a wrap would move the bytes.

The model of RAID4/5 gives every cache slot, and the one behind the last, a place
in the metadata page. That is so in the code for at most 6 disks
(512 * (DISKS + 2) <= 4096); beyond that the theorems do not describe it.

### The arguments

* **RaidParityInv, RaidParityProofs.** `TypeInv` adds that `num_dead_disks` is
  the number of dead disks, without which the counter could leave its range.
  `ReadsCorrect` does not say what is on the disks that the next miss will read;
  `ParityInv` does. A stripe with no cut-off write is `Consistent`: the exclusive
  or of its row is zero while no disk is dead, each block's content, recovered
  where its disk is dead, is a value it may have, the half behind the parity is
  the next disk's content, and cached slots of live disks are their rows. A stripe
  with a cut-off write is `Readable` while no disk is dead. Between the two writes
  `Pending` describes the half-finished stripe. The refinement maps the disk to
  what reads would return (`OneValue`); each action is a step of BlockStore or
  none. HealthyReads rests on `HealthyInv`, which follows only the disks that
  never failed, and the half row behind a live parity.
* **RaidMirrorProofs.** `MirrorInv`: the places of the record are well formed
  (`WellPlaced`: every live disk has one place, no dead disk has one; an even
  number of disks leaves no reserve), the counter is
  exact, never-failed disks of a column hold a value their block may have
  (`Kept`), and between the two writes the primary has the new value (`Halfway`).
  `WellPlaced` is what the four theorems need and none states: most of the proof
  is that `disk_fail_raid` and `disk_repaired_raid` keep it, store by store.
  NoWildAccess adds that with one dead disk an empty place makes the counter 1,
  which `disk_state[-2]` reads as DEAD.
* **RaidMetaProofs.** `RebootInv`: while disks 1 and 2 live, what `fetch` brings
  back between calls is the metadata in memory, and inside a call disk 1, written
  first, has the new one.
  `CountInv`: the count is exact in memory and on every disk, so whatever copy a
  reboot takes is sound.
* **VirtioProofs.** `DescInv` counts descriptors per request. `RingInv` says where
  a request is (avail ring, device, used ring), that its entry leads back to its
  process and its chain, and that no ring overtakes itself when the counters wrap,
  which rests on three descriptors per request (`UsedRoom`, `AvailRoom`).
* **LogProofs.** `LogInv`: what the header, the log blocks and the home blocks
  together bring back is, at every write of commit and of recovery, the state
  before or after the transaction.
* **PipeCalls, PipeProofs.** `PipeInv` has four parts: `Types`; `Stream` (the
  counters count the bytes put in and taken out modulo `UintMod`, and the cells in
  between hold them); `Refs` (each end is open exactly while someone holds or is
  closing it, the reference counts are sums over the processes or, in a failing
  `sys_pipe`, the files still to close (`ToClose`), the last one to let go is
  alone); and `Inside` (who has the lock and who may sleep). `Sleepers`
  adds why each sleeper sleeps, `Ending` what a reader knows when it sees the end.
  PipeCalls has the calls, PipeProofs opening and closing and the theorems.

TLC checked the inductive invariants before they were proved: `ParityInv` on 1.8
and 1.6 million states (3 disks, 2 stripes, both types, with reboots),
`MirrorInv` on 17556 and 112746 (4 disks), `PipeInv` and `Sleepers` on
3460 and 6668 with failing copies, with `Ending` on 1730 and 3273 without.

**A limit of the results on reboots.** `Crash` in RaidParity and RaidMirror is
enabled only while disks 1 and 2 live, where `fetch` restores the metadata. RebootsKeepMetadata justifies it and
raid_meta_reboot shows that otherwise a dead disk may be forgotten. Nothing is said
of an array that has forgotten a failure.

### Only model-checked

* Liveness (virtio, progress, processes): outside the prover's reach.
* RepairedReads: it is HealthyReads at other constants, which HealthyDisksRead
  covers.
* RebootKeepsMetadataFrom1 and MetadataExact are checked on instances of RaidMeta
  inside a run; RebootsKeepMetadata and DeadDisksCounted prove the first and the
  counting part of the second. SlotsExact is not proved for RaidMeta; it fails for
  5 disks (see Disagreements). For RAID1 `WellPlaced` is the part that holds.
* BufferedLog (NoPanic, RefcntExact, CacheTransparent): its proof would be about
  the order of a list that is kept as a sequence, for which the provers lack
  induction. NoPanic is false in general (see Disagreements).
* FileSystem, Processes, Console, Memory, Shell: no inductive invariant is
  written down yet. Malloc and Grep are about lists and a recursive matcher, which
  need induction over data.
* Placement and RAID0: that acknowledged writes of RAID0 read back (ReadBack), and
  the walk over the whole array; the places themselves are proved for all five
  types.

## Not modelled

* Two processes inside the RAID calls at once (`raid.h` lists concurrent access as
  future work), except inside the driver. The stripe cache across a second
  `init_raid`. Device errors (the driver panics), failing `kalloc` in the RAID
  layer, the fetching of system call arguments.
* FileSystem: files are opened read-only or read-write; exec's use of `namei` and
  `readi` is not part of it. When `either_copyin` fails, the bytes of the pages
  before the bad one stay in the block's buffer, which is not logged; the model
  leaves the block as it was.
* Memory: the free list is a set; `sbrk` never goes below 0; one argument page;
  a failing `copyout` in `wait` is left out.
* Processes: of `wakeup(initproc)` only the turn at init is a step; init's fork
  succeeds. Memory is sequentially consistent.
* Console: a failing `copyout` in `consoleread`; ^P, which only prints.
* Malloc: huge requests. Grep: NUL characters. Shell: the parser and `cd`.
* `ramdisk.c` (not linked), start-up code, the kernel's own page table, ELF
  decoding, register saving, formatting, string routines.

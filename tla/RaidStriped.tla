---------------------------- MODULE RaidStriped ----------------------------
(***************************************************************************)
(* RAID0: read_raid0 and write_raid0 of kernel/raid_rw.c, and the memory   *)
(* of the calling program.                                                 *)
(*                                                                         *)
(* The program owns a buffer of block_size = BLOCKSIZE bytes; read_block   *)
(* and write_block move BSIZE = 2 * BLOCKSIZE bytes from where it starts.  *)
(* A row of a disk therefore has two halves: lo is the block, hi what lay  *)
(* behind the buffer when the block was written.                           *)
(***************************************************************************)
EXTENDS RaidLayout

CONSTANTS
  Rows,   \* rows 1..Rows of every disk hold blocks
  Block,  \* the blocks the client uses
  Value,  \* contents of a block
  Fresh   \* content of a block of a new disk image, and of fresh memory

\* What the constants have to satisfy.
StripedAssumption ==
  /\ Rows \in Nat
  /\ Block \subseteq 0..(DISKS * Rows - 1)
  /\ Fresh \in Value

VARIABLES
  disk_state,  \* raid_metadata->disk_state
  platter,     \* platter[d][r]: row r of disk d
  buf,         \* the program's buffer
  behind,      \* the memory behind the buffer
  last,        \* the last call: operation, block, returned 0?
  shadow,      \* ghost: the value last written to each block
  own          \* ghost: what the program itself last put behind the buffer

vars == <<disk_state, platter, buf, behind, last, shadow, own>>

Live(d) == disk_state[d] # "DEAD"

Init ==
  /\ disk_state = [d \in Disk |-> "ALIVE"]
  /\ platter = [d \in Disk |-> [r \in 1..Rows |-> [lo |-> Fresh, hi |-> Fresh]]]
  /\ buf = Fresh
  /\ behind = Fresh
  /\ last = [op |-> "none", blk |-> 0, ok |-> TRUE]
  /\ shadow = [b \in Block |-> Fresh]
  /\ own = Fresh

\* The program uses its own memory.
Store(v) ==
  /\ behind' = v
  /\ own' = v
  /\ UNCHANGED <<disk_state, platter, buf, last, shadow>>

\* read_raid0
Read(b) ==
  LET d == Raid0Disk(b)  row == platter[d][Raid0Row(b)]
  IN  /\ last' = [op |-> "read", blk |-> b, ok |-> Live(d)]
      /\ IF Live(d) THEN buf' = row.lo /\ behind' = row.hi
                    ELSE UNCHANGED <<buf, behind>>
      /\ UNCHANGED <<disk_state, platter, shadow, own>>

\* The test of write_raid0, disk_state[blkn-1] == DEAD after blkn has become
\* the row: the state of the disk with the row's number and, for rows past
\* the last disk, of whatever follows the array in struct raid.
SaysDead(r) == IF r \in Disk THEN {~Live(r)} ELSE BOOLEAN

\* write_raid0 of a buffer that holds v
Write(b, v) ==
  LET d == Raid0Disk(b)  r == Raid0Row(b)
  IN  /\ buf' = v
      /\ \E dead \in SaysDead(r) :
           /\ last' = [op |-> "write", blk |-> b, ok |-> ~dead]
           /\ IF dead THEN UNCHANGED <<platter, shadow>>
              ELSE /\ platter' = [platter EXCEPT ![d][r] = [lo |-> v, hi |-> behind]]
                   /\ shadow' = [shadow EXCEPT ![b] = v]
      /\ UNCHANGED <<disk_state, behind, own>>

\* disk_fail_raid, disk_repaired_raid
DiskFailRaid(d) ==
  /\ Live(d)
  /\ disk_state' = [disk_state EXCEPT ![d] = "DEAD"]
  /\ last' = [last EXCEPT !.op = "none"]
  /\ UNCHANGED <<platter, buf, behind, shadow, own>>

DiskRepairedRaid(d) ==
  /\ ~Live(d)
  /\ disk_state' = [disk_state EXCEPT ![d] = "REPAIRED"]
  /\ last' = [last EXCEPT !.op = "none"]
  /\ UNCHANGED <<platter, buf, behind, shadow, own>>

Next ==
  \/ \E v \in Value : Store(v)
  \/ \E b \in Block : Read(b)
  \/ \E b \in Block, v \in Value : Write(b, v)
  \/ \E d \in Disk : DiskFailRaid(d) \/ DiskRepairedRaid(d)

Spec == Init /\ [][Next]_vars

-----------------------------------------------------------------------------

TypeOK ==
  /\ disk_state \in [Disk -> {"ALIVE", "DEAD", "REPAIRED"}]
  /\ platter \in [Disk -> [1..Rows -> [lo : Value, hi : Value]]]
  /\ {buf, behind, own} \subseteq Value
  /\ last \in [op : {"none", "read", "write"}, blk : Block \cup {0}, ok : BOOLEAN]
  /\ shadow \in [Block -> Value]

\* A read that returns 0 leaves in the buffer what the last acknowledged
\* write of the block put there, across failures, repairs and refused writes
\* (read_raid0, write_raid0).
ReadBack ==
  last.op = "read" /\ last.ok => buf = shadow[last.blk]

\* A write to a dead disk is refused (the comment in write_raid0: "if disk is
\* dead, return error code").  The code does not satisfy it, and no run checks
\* it: the test is indexed by the row.
DeadWriteRefused ==
  last.op = "write" /\ last.ok => Live(Raid0Disk(last.blk))

\* A read fills the buffer of block_size bytes, the size info_raid reports,
\* and changes nothing behind it (read_raid0, read_block): the memory there
\* is as the program left it.  The code does not satisfy it, and no run checks
\* it.
BufferBounds == behind = own

=============================================================================

------------------------------ MODULE RaidScan ------------------------------
(***************************************************************************)
(* A client that walks the whole array, block 0 to block max_blocks - 1,   *)
(* as main of user/javni_test.c does.  Each state is one request           *)
(* read_raid/write_raid accepts; the invariants are about where the        *)
(* address arithmetic of RaidLayout sends it.                              *)
(***************************************************************************)
EXTENDS RaidLayout

CONSTANTS
  DISK_SIZE,  \* bytes per disk image
  BLOCKSIZE,  \* bytes of a RAID block, 512 in raid.h
  BSIZE       \* bytes moved by one read_block/write_block, 1024 in fs.h

\* What the constants have to satisfy.
SizeAssumption ==
  /\ BLOCKSIZE \in Nat \ {0}
  /\ BSIZE \in Nat \ {0}
  /\ DISK_SIZE \in Nat
  /\ DISK_SIZE >= 2 * BLOCKSIZE

VARIABLES type, blkn

vars == <<type, blkn>>

\* RAID4 decrements num_of_disks only after max_blocks has been computed.
max_blocks(t) ==
  (IF t \in Mirrored THEN DISKS \div 2 ELSE DISKS)
    * ((DISK_SIZE \div BLOCKSIZE) - 1)

\* The disk (for the mirrored types, the column) and the row of a block.
DiskOf(t, b) ==
  CASE t = "RAID0"    -> Raid0Disk(b)
    [] t \in Mirrored -> MirrorColumn(b)
    [] t = "RAID4"    -> Raid4Disk(b)
    [] t = "RAID5"    -> Raid5Disk(b)

RowOf(t, b) ==
  CASE t = "RAID0"    -> Raid0Row(b)
    [] t \in Mirrored -> MirrorRow(b)
    [] OTHER          -> ParityStripe(b)

\* The disk with the parity of a row of a parity array.
ParityOf(t, row) == IF t = "RAID4" THEN Raid4Parity ELSE Raid5Parity(row)

\* write_block and read_block address the disk in sectors of 512 bytes and
\* move BSIZE bytes: block b of a disk is the bytes b*BSIZE .. (b+1)*BSIZE-1.
LastByte(row) == (row + 1) * BSIZE - 1

Init == type \in RaidType /\ blkn = 0

\* for (i = 0; i < blocks; i++) write_raid(i, blk)
NextBlock ==
  /\ blkn + 1 < max_blocks(type)
  /\ blkn' = blkn + 1
  /\ UNCHANGED type

\* init_raid(t) starts another array on the same disks.
Restart ==
  /\ blkn + 1 = max_blocks(type)
  /\ type' \in RaidType
  /\ blkn' = 0

Next == NextBlock \/ Restart

Spec == Init /\ [][Next]_vars

-----------------------------------------------------------------------------

TypeOK == type \in RaidType /\ blkn \in 0..(max_blocks(type) - 1)

\* No block of a request shares its place on the disks with another block
\* of the array, so a write never destroys a second logical block
\* (read_raid* and write_raid*, raid_rw.c).
NoAliasing ==
  \A b \in 0..(max_blocks(type) - 1) \ {blkn} :
    <<DiskOf(type, b), RowOf(type, b)>> # <<DiskOf(type, blkn), RowOf(type, blkn)>>

\* A request never lands on the metadata in row 0, on a disk outside the
\* array or, for the parity types, on the parity block of its own stripe.
DataPlacement ==
  /\ RowOf(type, blkn) >= 1
  /\ DiskOf(type, blkn) \in 1..(IF type \in Mirrored THEN DISKS \div 2 ELSE DISKS)
  /\ type \in {"RAID4", "RAID5"} =>
       DiskOf(type, blkn) # ParityOf(type, RowOf(type, blkn))

\* Every block number below max_blocks, which info_raid reports to clients,
\* is inside the disk (init_raid, raid.c:22, keeps one block per disk for
\* the metadata).  The code does not satisfy it, and no run checks it.
FitsOnDisk == LastByte(RowOf(type, blkn)) < DISK_SIZE

=============================================================================

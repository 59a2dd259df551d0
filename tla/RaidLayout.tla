----------------------------- MODULE RaidLayout -----------------------------
(***************************************************************************)
(* Where a logical block of the array lives: the address arithmetic of     *)
(* kernel/raid_rw.c, used by every read and write of the array.            *)
(*                                                                         *)
(* Disks are numbered 1..DISKS, as in write_block(diskn, ...).  The code   *)
(* keeps parity disks as indices 0..DISKS-1; here they are disk numbers.   *)
(* Row 0 of every disk holds the metadata.                                 *)
(***************************************************************************)
EXTENDS Integers

CONSTANT DISKS  \* number of RAID disks (make DISKS=...)

ASSUME DisksAssumption == DISKS \in Nat /\ DISKS >= 2

RaidType == {"RAID0", "RAID1", "RAID0_1", "RAID4", "RAID5"}

Mirrored == {"RAID1", "RAID0_1"}

Disk == 1..DISKS

Column == 1..(DISKS \div 2)

-----------------------------------------------------------------------------
(* The number of data disks (columns, for the mirrored types) that         *)
(* init_raid stores in the metadata.                                       *)

num_of_disks(type) ==
  CASE type \in Mirrored -> DISKS \div 2
    [] type = "RAID4"    -> DISKS - 1
    [] OTHER             -> DISKS

-----------------------------------------------------------------------------
(* RAID0: block blkn is row Raid0Row(blkn) of disk Raid0Disk(blkn). *)

Raid0Disk(blkn) == (blkn % DISKS) + 1

Raid0Row(blkn) == (blkn \div DISKS) + 1

(* RAID1 and RAID0+1: a column is a primary disk and its copy. *)

MirrorColumn(blkn) == (blkn % (DISKS \div 2)) + 1

MirrorRow(blkn) == (blkn \div (DISKS \div 2)) + 1

(* RAID4: the last disk holds the parity of every stripe. *)

Raid4Disk(blkn) == (blkn % (DISKS - 1)) + 1

ParityStripe(blkn) == (blkn \div (DISKS - 1)) + 1

Raid4Parity == DISKS

(* RAID5: the parity rotates from the last disk towards the first. *)

Raid5Parity(stripe) == DISKS - ((stripe - 1) % DISKS)

\* Fault: the first block of a stripe is not put past the parity disk.
Raid5DiskAtParity(blkn) ==
  ((Raid5Parity(ParityStripe(blkn)) - 1 + (blkn % (DISKS - 1))) % DISKS) + 1

Raid5Disk(blkn) ==
  ((Raid5Parity(ParityStripe(blkn)) + (blkn % (DISKS - 1))) % DISKS) + 1

=============================================================================

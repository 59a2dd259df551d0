---------------------------- MODULE MCRaidArrays ----------------------------
(***************************************************************************)
(* The arrays without parity, the walk over the blocks of any array, and   *)
(* the metadata of any array: init_raid chooses a type, and from then on   *)
(* read_raid and write_raid of kernel/raid.c lead to the functions of that *)
(* type.  The mirrored array is RaidMirror itself, which this module       *)
(* extends; the other modules are instances with variables of their own.   *)
(* What is not chosen stays in its initial state or holds 0.               *)
(***************************************************************************)
EXTENDS RaidMirror

VARIABLES
  chosen,                                        \* what init_raid set up
  type, blkn,                                    \* of RaidScan
  states0, rows0, buf, behind, last, shadow0, own,  \* of RaidStriped
  raid_metadata, row0, loop, next, recent        \* of RaidMeta

mirrorVars == vars
scanVars == <<type, blkn>>
stripedVars == <<states0, rows0, buf, behind, last, shadow0, own>>
metaVars == <<raid_metadata, row0, loop, next, recent>>
allVars == <<chosen, mirrorVars, scanVars, stripedVars, metaVars>>

Scan == INSTANCE RaidScan WITH
          DISK_SIZE <- 8192, BLOCKSIZE <- 512, BSIZE <- 1024

Striped == INSTANCE RaidStriped WITH
             Rows <- 3, Block <- {0, 4, 5}, Value <- {0, 1}, Fresh <- 0,
             disk_state <- states0, platter <- rows0, shadow <- shadow0

\* The metadata calls, for all types and without reboots.
Meta == INSTANCE RaidMeta WITH
          Types <- {"RAID0", "RAID1", "RAID0_1", "RAID4", "RAID5"},
          Reinit <- FALSE, Crashes <- FALSE, MaxDead <- 2, pc <- loop

ASSUME ArraysAssumption ==
  /\ MirrorAssumption /\ UintAssumption
  /\ Scan!SizeAssumption /\ Striped!StripedAssumption /\ Meta!MetaAssumption

NoScan == type = 0 /\ blkn = 0
NoStriped == /\ states0 = 0 /\ rows0 = 0 /\ buf = 0 /\ behind = 0 /\ last = 0
             /\ shadow0 = 0 /\ own = 0
NoMeta == raid_metadata = 0 /\ row0 = 0 /\ loop = 0 /\ next = 0 /\ recent = 0

MCInit ==
  /\ Init
  /\ \/ chosen = "RAID1" /\ NoScan /\ NoStriped /\ NoMeta
     \/ chosen = "any" /\ Scan!Init /\ NoStriped /\ NoMeta
     \/ chosen = "RAID0" /\ Striped!Init /\ NoScan /\ NoMeta
     \/ chosen = "metadata" /\ Meta!Init /\ NoScan /\ NoStriped

MirrorNext ==
  /\ chosen = "RAID1" /\ Next
  /\ UNCHANGED <<chosen, scanVars, stripedVars, metaVars>>

ScanNext ==
  /\ chosen = "any" /\ Scan!Next
  /\ UNCHANGED <<chosen, mirrorVars, stripedVars, metaVars>>

StripedNext ==
  /\ chosen = "RAID0" /\ Striped!Next
  /\ UNCHANGED <<chosen, mirrorVars, scanVars, metaVars>>

MetaNext ==
  /\ chosen = "metadata" /\ Meta!Next
  /\ UNCHANGED <<chosen, mirrorVars, scanVars, stripedVars>>

MCNext == MirrorNext \/ ScanNext \/ StripedNext \/ MetaNext

MCSpec == MCInit /\ [][MCNext]_allVars

-----------------------------------------------------------------------------

\* Every block number of every type has a place of its own, which holds
\* neither metadata nor parity, and a RAID0 array reads back what write_raid0
\* acknowledged (raid_rw.c: the address arithmetic of read_raid0 to
\* write_raid5).
Placement ==
  /\ chosen = "any" => Scan!TypeOK /\ Scan!NoAliasing /\ Scan!DataPlacement
  /\ chosen = "RAID0" => Striped!TypeOK /\ Striped!ReadBack

\* The metadata calls of raid.c count the dead disks exactly and give every
\* live disk of a mirrored array one place.
MetadataExact ==
  chosen = "metadata" => Meta!TypeOK /\ Meta!NumDeadExact /\ Meta!SlotsExact

=============================================================================

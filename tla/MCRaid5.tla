------------------------------ MODULE MCRaid5 ------------------------------
(***************************************************************************)
(* A RAID5 array whose disks only fail, which is RaidParity itself, and    *)
(* reboots in the middle of calls that change the metadata; the initial    *)
(* state chooses.                                                          *)
(***************************************************************************)
EXTENDS RaidParity

VARIABLES
  chosen,
  raid_metadata, row0, loop, next, recent                     \* of RaidMeta

metaVars == <<raid_metadata, row0, loop, next, recent>>

Rebooting == INSTANCE RaidMeta WITH
  UintMod <- 256, Types <- {"RAID5"}, Reinit <- FALSE, MaxDead <- 3, pc <- loop

ASSUME MetadataAssumption == Rebooting!UintAssumption /\ Rebooting!MetaAssumption

MCInit ==
  /\ chosen \in {"requests", "metadata"}
  /\ Init /\ Rebooting!Init

MCNext ==
  \/ chosen = "requests" /\ Next /\ UNCHANGED <<chosen, metaVars>>
  \/ chosen = "metadata" /\ Rebooting!Next /\ UNCHANGED <<chosen, vars>>

MCSpec == MCInit /\ [][MCNext]_<<chosen, vars, metaVars>>

\* While disks 1 and 2 live, a reboot inside writeback() yields the metadata
\* from before or after the call (raid.c: fetch, writeback).
RebootKeepsMetadataFrom1 ==
  chosen = "metadata" => Rebooting!TypeOK /\ Rebooting!RebootKeepsMetadataFrom1

=============================================================================

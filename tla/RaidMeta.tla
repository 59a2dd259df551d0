------------------------------ MODULE RaidMeta ------------------------------
(***************************************************************************)
(* The RAID metadata of kernel/raid.c: the copy in memory (raid_metadata), *)
(* the copy in row 0 of every disk, and the system calls that change them: *)
(* init_raid, disk_fail_raid, disk_repaired_raid, info_raid, destroy_raid. *)
(*                                                                         *)
(* A call computes the new metadata in memory and then writes it to one    *)
(* disk after the other; every write sleeps, and the machine may reboot    *)
(* between two of them.  One process calls at a time.                      *)
(***************************************************************************)
EXTENDS RaidRecord, FiniteSets

CONSTANTS
  Types,    \* RAID types that clients ask init_raid for
  Reinit,   \* do clients call init_raid on an array that exists?
  Crashes,  \* does the machine reboot?
  MaxDead   \* bound: disks that are dead at the same time

\* What the constants have to satisfy.
MetaAssumption ==
  /\ Types \subseteq RaidType
  /\ Reinit \in BOOLEAN
  /\ Crashes \in BOOLEAN
  /\ MaxDead \in Nat

VARIABLES
  raid_metadata,  \* the metadata in memory; Zero also stands for a null
                  \* pointer, which every call treats like an empty page
  row0,           \* row0[d]: the metadata in row 0 of disk d
  pc,             \* "idle", or the loop that is writing row 0 of the disks
  next,           \* the disk that loop writes next
  recent          \* ghost: the metadata before and after the last call

vars == <<raid_metadata, row0, pc, next, recent>>

-----------------------------------------------------------------------------
(* fetch(): row 0 of the disks is read in order until a copy does not call *)
(* a disk dead; the copy on disk i is asked about disk_state[i], which is  *)
(* the state of disk i+1.                                                  *)

Fetched ==
  row0[First({i \in Disk : i = DISKS \/ Live(row0[i], i + 1)})]

\* The metadata a call works on: what is in memory or else on the disks.
Loaded ==
  IF raid_metadata.raid_initialized THEN raid_metadata ELSE Fetched

-----------------------------------------------------------------------------

Init ==
  /\ raid_metadata = Zero
  /\ row0 = [d \in Disk |-> Zero]
  /\ pc = "idle"
  /\ next = 1
  /\ recent = {Zero}

\* Fault: the loop starts at the second disk.
SaveFromSecond(loop, old, new) ==
  /\ pc = "idle"
  /\ raid_metadata' = new
  /\ pc' = loop
  /\ next' = 2
  /\ recent' = {old, new}
  /\ UNCHANGED row0

\* The new metadata is in memory and a loop starts to write it to the disks.
Save(loop, old, new) ==
  /\ pc = "idle"
  /\ raid_metadata' = new
  /\ pc' = loop
  /\ next' = 1
  /\ recent' = {old, new}
  /\ UNCHANGED row0

\* init_raid(t): the loop at its end writes every disk, dead or not.
InitRaid(t) ==
  /\ Reinit \/ ~Loaded.raid_initialized
  /\ Save("init", Loaded, Initialized(Loaded, t))

DiskFailRaid(d) ==
  /\ raid_metadata.raid_initialized
  /\ Live(raid_metadata, d)
  /\ raid_metadata.num_dead_disks < MaxDead
  /\ Save("writeback", raid_metadata, Failed(raid_metadata, d))

DiskRepairedRaid(d) ==
  /\ raid_metadata.raid_initialized
  /\ ~Live(raid_metadata, d)
  /\ Save("writeback", raid_metadata, Repaired(raid_metadata, d))

\* destroy_raid looks at disk 1 only when nothing is in memory, clears the
\* page, and writes it to all disks (none is dead on a cleared page).
DestroyRaid ==
  LET m == IF raid_metadata.raid_initialized THEN raid_metadata ELSE row0[1]
  IN  /\ m.raid_initialized
      /\ Save("writeback", m, Zero)

\* info_raid, and the fetch() in it
InfoRaid ==
  /\ pc = "idle"
  /\ raid_metadata' = Loaded
  /\ UNCHANGED <<row0, pc, next, recent>>

\* One turn of the loop of writeback() or of init_raid.
SaveDisk ==
  /\ pc # "idle"
  /\ row0' = IF pc = "init" \/ Live(raid_metadata, next)
               THEN [row0 EXCEPT ![next] = raid_metadata] ELSE row0
  /\ IF next = DISKS THEN next' = 1 /\ pc' = "idle" /\ recent' = {raid_metadata}
                     ELSE next' = next + 1 /\ UNCHANGED <<pc, recent>>
  /\ UNCHANGED raid_metadata

\* The machine reboots: only the disks remain.
Crash ==
  /\ Crashes
  /\ raid_metadata' = Zero
  /\ pc' = "idle"
  /\ next' = 1
  /\ UNCHANGED <<row0, recent>>

Next ==
  \/ \E t \in Types : InitRaid(t)
  \/ \E d \in Disk : DiskFailRaid(d) \/ DiskRepairedRaid(d)
  \/ DestroyRaid
  \/ InfoRaid
  \/ SaveDisk
  \/ Crash

Spec == Init /\ [][Next]_vars

-----------------------------------------------------------------------------

TypeOK ==
  /\ raid_metadata \in Metadata
  /\ row0 \in [Disk -> Metadata]
  /\ pc \in {"idle", "init", "writeback"}
  /\ next \in Disk
  /\ recent \subseteq Metadata

\* num_dead_disks is the number of disks marked dead, in memory and in every
\* copy on the disks; read_raid4/5 and write_raid4/5 decide by the counter
\* whether the array can still be served.
CountExact(m) ==
  m.num_dead_disks = Cardinality({d \in Disk : ~Live(m, d)})

NumDeadExact == \A m \in {raid_metadata} \cup {row0[d] : d \in Disk} : CountExact(m)

\* A mirrored array uses every live disk in exactly one place (primary, copy
\* or reserve) and a dead disk in none: disk_fail_raid takes a disk out of
\* its column, disk_repaired_raid gives it a free place.
PlacesOf(m, d) ==
  {<<"data", c>> : c \in Places(m.data_disks, d)}
    \cup {<<"copy", c>> : c \in Places(m.copy_disks, d)}
    \cup (IF m.reserve_disk = d THEN {<<"reserve", 0>>} ELSE {})

PlacedOnce(m) ==
  m.raid_initialized /\ m.type \in Mirrored =>
    \A d \in Disk :
      IF Live(m, d) THEN \E x \in PlacesOf(m, d) : PlacesOf(m, d) = {x}
                    ELSE PlacesOf(m, d) = {}

SlotsExact == PlacedOnce(raid_metadata)

\* After a reboot fetch() brings back the metadata as the last call left it,
\* or as it was before a call the reboot cut off: a failed disk stays failed.
RebootKeepsMetadata == Fetched \in recent

\* That holds as long as neither disk 1 nor disk 2 is dead: the copy on disk
\* 1 is then the one fetch() takes, and writeback() writes it first.
RebootKeepsMetadataFrom1 ==
  (\A m \in recent : Live(m, 1) /\ Live(m, 2)) => RebootKeepsMetadata

=============================================================================

----------------------------- MODULE RaidParity -----------------------------
(***************************************************************************)
(* RAID4 and RAID5: the data path of kernel/raid_rw.c, from an array that  *)
(* init_raid has just set up.                                              *)
(*                                                                         *)
(* A block is the set of its bits that are 1, so the exclusive or of two   *)
(* blocks is their symmetric difference.  read_block and write_block move  *)
(* BSIZE = 2 * BLOCKSIZE bytes, so a row of a disk holds two halves: lo is *)
(* the block the RAID layer means, hi is whatever followed it in memory.   *)
(* The cache slots are BLOCKSIZE apart: reading a row into slot d also     *)
(* overwrites slot d+1, and writing slot d also stores slot d+1.  Slot     *)
(* DISKS+1 is the part of the metadata page behind the last slot.          *)
(*                                                                         *)
(* One client calls the array at a time (raid.h:4 leaves concurrent access *)
(* as future work); disks fail, are repaired, and the machine reboots      *)
(* between any two disk writes.  A row of zeros is a new disk image; other *)
(* contents are those of disks an earlier array used, whose row 0          *)
(* destroy_raid has cleared.                                               *)
(***************************************************************************)
EXTENDS RaidLayout, FiniteSets

CONSTANTS
  Type,       \* "RAID4" or "RAID5"
  Stripes,    \* the client uses stripes 1..Stripes
  Bits,       \* bit positions of a block
  Failable,   \* disks that disk_fail_raid may be called on
  Repairs,    \* is disk_repaired_raid called?
  WriteDead,  \* do clients write blocks whose disk is dead?
  Crashes,    \* does the machine reboot?
  FreshDisks  \* are the disk images all zero when the array is created?

ASSUME ParityAssumption ==
  /\ Type \in {"RAID4", "RAID5"}
  /\ Stripes \in Nat
  /\ Failable \subseteq Disk
  /\ {Repairs, WriteDead, Crashes, FreshDisks} \subseteq BOOLEAN

VARIABLES
  disk_state,      \* raid_metadata->disk_state
  num_dead_disks,  \* raid_metadata->num_dead_disks
  cache,           \* raid_metadata->cache: stripe, parity disk, slots
  platter,         \* platter[d][s]: row s of disk d
  pc,              \* "idle", or "data" between the two writes of a request
  req,             \* block and value of the request that is in progress
  shadow,          \* ghost: values a read of each block may return
  torn             \* ghost: stripes on which a reboot cut off a write

vars == <<disk_state, num_dead_disks, cache, platter, pc, req, shadow, torn>>

Block == 0..(Stripes * (DISKS - 1) - 1)

Stripe == 1..Stripes

Word == SUBSET Bits

Slot == 1..(DISKS + 1)

NoStripe == 0       \* the code's cache.stripe = -1

max_dead_disks == 2

Xor(a, b) == (a \ b) \cup (b \ a)

\* The exclusive or of the blocks f[j], j \in S: the bits set an odd number
\* of times.
XorOver(f, S) ==
  {k \in Bits : Cardinality({j \in S : k \in f[j]}) % 2 = 1}

DataDisk(b) == IF Type = "RAID4" THEN Raid4Disk(b) ELSE Raid5Disk(b)

Parity(s) == IF Type = "RAID4" THEN Raid4Parity ELSE Raid5Parity(s)

Looped == 1..num_of_disks(Type)  \* the disks the loops of the code visit

Live(d) == disk_state[d] # "DEAD"

-----------------------------------------------------------------------------
(* The cache. *)

\* Fault: the disks are read last to first.
LoadedBackwards(s) ==
  [d \in Slot |->
     IF d - 1 \in Looped /\ Live(d - 1) THEN platter[d - 1][s].hi
     ELSE IF d \in Disk /\ Live(d) THEN platter[d][s].lo
     ELSE cache.slot[d]]

\* cache(): the live disks are read in order, each into its slot and over
\* the next one, then the parity disk again.
Loaded(s) ==
  LET p    == Parity(s)
      loop == [d \in Slot |->
                 IF d \in Looped /\ Live(d) THEN platter[d][s].lo
                 ELSE IF d - 1 \in Looped /\ Live(d - 1) THEN platter[d - 1][s].hi
                 ELSE cache.slot[d]]
  IN  IF Live(p)
        THEN [loop EXCEPT ![p] = platter[p][s].lo, ![p + 1] = platter[p][s].hi]
        ELSE loop

\* raid_tocache_recovery(): the slot becomes the exclusive or of the others.
Recovered(slot, d, p) ==
  LET others == (Looped \cup (IF Type = "RAID4" THEN {p} ELSE {})) \ {d}
  IN  [slot EXCEPT ![d] = XorOver(slot, others)]

Hit(b) == cache.stripe = ParityStripe(b)

\* The slots after a miss on block b: the stripe is loaded and the block
\* recovered when its disk is dead.
Missed(b) ==
  LET d == DataDisk(b)  s == ParityStripe(b)
  IN  IF Live(d) THEN Loaded(s) ELSE Recovered(Loaded(s), d, Parity(s))

\* Fault: a hit is not asked whether the disk is dead.
ReadSlotsTrusted(b) == IF Hit(b) THEN cache.slot ELSE Missed(b)

\* The slots out of which read_raid4/read_raid5 copies block b ...
ReadSlots(b) ==
  LET d == DataDisk(b)
  IN  CASE Hit(b) /\ Live(d)  -> cache.slot
        [] Hit(b) /\ ~Live(d) -> Recovered(cache.slot, d, cache.parity)
        [] OTHER              -> Missed(b)

\* ... and those on which write_raid4/write_raid5 updates the parity: a hit
\* takes them as they are.
WriteSlots(b) == IF Hit(b) THEN cache.slot ELSE Missed(b)

ReadValue(b) == ReadSlots(b)[DataDisk(b)]

\* Fault: the old value stays in the parity ...
UpdatedKeepsOld(slot, d, p, v) ==
  [slot EXCEPT ![p] = Xor(slot[p], v), ![d] = v]

\* raid_write_updateparity_cache(): take the old value out of the parity,
\* store the new one, put it into the parity.
Updated(slot, d, p, v) ==
  [slot EXCEPT ![p] = Xor(Xor(slot[p], slot[d]), v), ![d] = v]

\* write_block(d, s, slot d) unless d is dead.
Flushed(slot, d, s) ==
  IF Live(d)
    THEN [platter EXCEPT ![d][s] = [lo |-> slot[d], hi |-> slot[d + 1]]]
    ELSE platter

-----------------------------------------------------------------------------

Row == [lo : Word, hi : Word]

ZeroRow == [lo |-> {}, hi |-> {}]

NoRequest == [blk |-> 0, val |-> {}]

Init ==
  /\ disk_state = [d \in Disk |-> "ALIVE"]
  /\ num_dead_disks = 0
  /\ cache = [stripe |-> NoStripe, parity |-> NoStripe,
              slot |-> [d \in Slot |-> {}]]
  /\ IF FreshDisks
       THEN /\ platter = [d \in Disk |-> [s \in Stripe |-> ZeroRow]]
            /\ shadow = [b \in Block |-> {{}}]
       ELSE /\ platter \in [Disk -> [Stripe -> Row]]
            /\ shadow = [b \in Block |-> Word]
  /\ pc = "idle"
  /\ req = NoRequest
  /\ torn = {}

Serving == pc = "idle" /\ num_dead_disks < max_dead_disks

\* read_raid4, read_raid5 returning 0
Read(b) ==
  /\ Serving
  /\ cache' = [stripe |-> ParityStripe(b), parity |-> Parity(ParityStripe(b)),
               slot |-> ReadSlots(b)]
  /\ UNCHANGED <<disk_state, num_dead_disks, platter, pc, req, shadow, torn>>

\* write_raid4, write_raid5 up to and including the write of the parity
WriteParity(b, v) ==
  LET s == ParityStripe(b)
      p == Parity(s)
      slot == Updated(WriteSlots(b), DataDisk(b), p, v)
  IN  /\ Serving
      /\ WriteDead \/ Live(DataDisk(b))
      /\ cache' = [stripe |-> s, parity |-> p, slot |-> slot]
      /\ platter' = Flushed(slot, p, s)
      /\ pc' = "data"
      /\ req' = [blk |-> b, val |-> v]
      /\ UNCHANGED <<disk_state, num_dead_disks, shadow, torn>>

\* ... and the write of the data, after which the call returns 0
WriteData ==
  /\ pc = "data"
  /\ platter' = Flushed(cache.slot, DataDisk(req.blk), cache.stripe)
  /\ pc' = "idle"
  /\ shadow' = [shadow EXCEPT ![req.blk] = {req.val}]
  /\ req' = NoRequest
  /\ UNCHANGED <<disk_state, num_dead_disks, cache, torn>>

\* The early return -1 of a read or a write when too many disks are dead
Refuse ==
  /\ pc = "idle"
  /\ num_dead_disks >= max_dead_disks
  /\ UNCHANGED vars

\* Fault: a disk that is dead already is counted again.
FailAgain(d) ==
  /\ pc = "idle"
  /\ d \in Failable
  /\ disk_state' = [disk_state EXCEPT ![d] = "DEAD"]
  /\ num_dead_disks' = num_dead_disks + 1
  /\ UNCHANGED <<cache, platter, pc, req, shadow, torn>>

\* disk_fail_raid: for RAID4 and RAID5 only the metadata changes.
Fail(d) ==
  /\ pc = "idle"
  /\ d \in Failable
  /\ Live(d)
  /\ disk_state' = [disk_state EXCEPT ![d] = "DEAD"]
  /\ num_dead_disks' = num_dead_disks + 1
  /\ UNCHANGED <<cache, platter, pc, req, shadow, torn>>

\* disk_repaired_raid: the disk is back with the content it had.
Repair(d) ==
  /\ pc = "idle"
  /\ Repairs
  /\ ~Live(d)
  /\ disk_state' = [disk_state EXCEPT ![d] = "REPAIRED"]
  /\ num_dead_disks' = num_dead_disks - 1
  /\ UNCHANGED <<cache, platter, pc, req, shadow, torn>>

\* fetch() after a reboot brings back the metadata as it was: it takes the copy
\* on disk 1, and does so only if that calls disk 2 live (RaidMeta,
\* RebootKeepsMetadataFrom1).
MetadataSurvives == Live(1) /\ Live(2)

\* Fault: fetch() does not invalidate the cache.
CrashKeepsStripe ==
  /\ Crashes
  /\ MetadataSurvives
  /\ cache' = [cache EXCEPT !.slot = [d \in Slot |-> {}]]
  /\ pc' = "idle"
  /\ req' = NoRequest
  /\ UNCHANGED <<disk_state, num_dead_disks, platter, shadow, torn>>

\* A reboot, and fetch() by the next call: the metadata page is new, its
\* first slot filled from behind the metadata on disk.  The request that was
\* in progress may or may not have happened.  Reboots on which fetch() forgets
\* a dead disk are left to RaidMeta.
Crash ==
  /\ Crashes
  /\ MetadataSurvives
  /\ \E w \in Word :
       cache' = [stripe |-> NoStripe, parity |-> NoStripe,
                 slot |-> [d \in Slot |-> IF d = 1 THEN w ELSE {}]]
  /\ IF pc = "data"
       THEN /\ shadow' = [shadow EXCEPT ![req.blk] = @ \cup {req.val}]
            /\ torn' = torn \cup {cache.stripe}
       ELSE UNCHANGED <<shadow, torn>>
  /\ pc' = "idle"
  /\ req' = NoRequest
  /\ UNCHANGED <<disk_state, num_dead_disks, platter>>

Next ==
  \/ \E b \in Block : Read(b)
  \/ \E b \in Block, v \in Word : WriteParity(b, v)
  \/ WriteData
  \/ Refuse
  \/ \E d \in Disk : Fail(d) \/ Repair(d)
  \/ Crash

Spec == Init /\ [][Next]_vars

-----------------------------------------------------------------------------

TypeOK ==
  /\ disk_state \in [Disk -> {"ALIVE", "DEAD", "REPAIRED"}]
  /\ num_dead_disks \in 0..DISKS
  /\ cache \in [stripe : 0..Stripes, parity : 0..DISKS, slot : [Slot -> Word]]
  /\ platter \in [Disk -> [Stripe -> Row]]
  /\ pc \in {"idle", "data"}
  /\ req \in [blk : Block \cup {0}, val : Word]
  /\ shadow \in [Block -> SUBSET Word]
  /\ torn \subseteq Stripe

\* A read that returns 0 delivers the value last written to the block, with
\* one dead disk as with none; the stripe cache, the halves that spill over
\* and the recovery make no difference (read_raid4, read_raid5,
\* raid_tocache_recovery).
ReadsCorrect ==
  Serving => \A b \in Block : ReadValue(b) \in shadow[b]

\* A reboot between the parity write and the data write of
\* raid_write_updateparity_cache costs nothing while all disks live: the
\* block reads as its old or its new value.  When a disk dies later, only the
\* stripe that was being written can be recovered wrong.  (Reboots are those
\* on which fetch() restores the metadata, MetadataSurvives.)
CrashContained ==
  Serving => \A b \in Block :
    \/ ReadValue(b) \in shadow[b]
    \/ num_dead_disks > 0 /\ ParityStripe(b) \in torn

\* The data of a disk that never failed is read back as it was written,
\* whatever happens to the other disks: failures, repairs without a rebuild,
\* writes to dead disks (cache() and the hit path of read_raid4/read_raid5).
HealthyReads ==
  Serving => \A b \in Block :
    disk_state[DataDisk(b)] = "ALIVE" => ReadValue(b) \in shadow[b]

\* The array as one copy of its blocks: {w} is a block that reads as w, {} one
\* that cannot be read.
Store == INSTANCE BlockStore WITH
  Value <- {{w} : w \in Word}, Fresh <- {{}}, Lost <- {},
  store <- [b \in Block |->
              IF num_dead_disks < max_dead_disks THEN {ReadValue(b)} ELSE {}]

\* Reads and writes of a RAID4/RAID5 array with at most one dead disk behave
\* as those of a single disk: a write changes what one block reads as and
\* nothing else does (write_raid4, write_raid5, disk_fail_raid).
ActsAsOneDisk == Store!Spec

=============================================================================

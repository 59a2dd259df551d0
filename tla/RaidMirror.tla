----------------------------- MODULE RaidMirror -----------------------------
(***************************************************************************)
(* RAID1 and RAID0+1 (whose code is the same): read_raid1, write_raid1,    *)
(* read_raid01 and write_raid01 of kernel/raid_rw.c, over the columns that *)
(* disk_fail_raid and disk_repaired_raid maintain.                         *)
(*                                                                         *)
(* A column that has lost a disk holds -1.  The code looks up its state in *)
(* disk_state[-2], which by the layout of struct raid is num_dead_disks;   *)
(* DEAD is 1.  Unless exactly one disk is dead it therefore goes on to     *)
(* read_block(-1, ...) or write_block(-1, ...), whose buffer pointer is    *)
(* whatever lies in front of transfer_buffer[].                            *)
(***************************************************************************)
EXTENDS RaidRecord

CONSTANTS
  Rows,     \* the client uses rows 1..Rows of every disk
  Value,    \* contents of a block
  Fresh,    \* content of a block of a new disk image
  MaxDead,  \* bound: disks that are dead at the same time
  Repairs,  \* is disk_repaired_raid called?
  Crashes   \* does the machine reboot?

\* What the constants have to satisfy.
MirrorAssumption ==
  /\ Rows \in Nat
  /\ Fresh \in Value
  /\ MaxDead \in Nat
  /\ {Repairs, Crashes} \subseteq BOOLEAN

VARIABLES
  md,       \* raid_metadata
  platter,  \* platter[d][r]: row r of disk d
  pc,       \* "idle", "copy" between the two writes of a request, or "wild"
            \* once disk -1 was accessed
  req,      \* block and value of the request that is in progress
  shadow    \* ghost: values a read of each block may return

vars == <<md, platter, pc, req, shadow>>

Block == 0..((DISKS \div 2) * Rows - 1)

Primary(b) == md.data_disks[MirrorColumn(b)]

Copy(b) == md.copy_disks[MirrorColumn(b)]

\* Fault: the word in front of disk_state is never DEAD.
DeadNeverMissing(ref) == ref # None /\ ~Live(md, ref)

\* disk_state[ref-1] == DEAD
Dead(ref) == IF ref = None THEN md.num_dead_disks = 1 ELSE ~Live(md, ref)

\* The disk read_raid1 reads block b from; 0 when it returns -1.
Source(b) ==
  CASE ~Dead(Primary(b))                -> Primary(b)
    [] Dead(Primary(b)) /\ ~Dead(Copy(b)) -> Copy(b)
    [] OTHER                            -> 0

ReadValue(b) == platter[Source(b)][MirrorRow(b)]

Readable(b) == Source(b) \in Disk

-----------------------------------------------------------------------------

NoRequest == [blk |-> 0, val |-> Fresh]

Init ==
  /\ md = Initialized(Zero, "RAID1")
  /\ platter = [d \in Disk |-> [r \in 1..Rows |-> Fresh]]
  /\ pc = "idle"
  /\ req = NoRequest
  /\ shadow = [b \in Block |-> {Fresh}]

\* read_raid1, read_raid01: the state changes only if disk -1 is read.
Read(b) ==
  /\ pc = "idle"
  /\ pc' = IF Source(b) = None THEN "wild" ELSE "idle"
  /\ UNCHANGED <<md, platter, req, shadow>>

\* write_raid1, write_raid01: the primary unless it is dead ...
WritePrimary(b, v) ==
  /\ pc = "idle"
  /\ ~Dead(Primary(b)) \/ ~Dead(Copy(b))
  /\ IF Dead(Primary(b)) THEN platter' = platter /\ pc' = "copy"
     ELSE IF Primary(b) = None THEN platter' = platter /\ pc' = "wild"
     ELSE /\ platter' = [platter EXCEPT ![Primary(b)][MirrorRow(b)] = v]
          /\ pc' = "copy"
  /\ req' = [blk |-> b, val |-> v]
  /\ UNCHANGED <<md, shadow>>

\* Fault: the copy is written only in place of the primary.
WriteCopyInstead ==
  LET b == req.blk
  IN  /\ pc = "copy"
      /\ platter' = IF Dead(Primary(b)) /\ Copy(b) \in Disk
                      THEN [platter EXCEPT ![Copy(b)][MirrorRow(b)] = req.val]
                      ELSE platter
      /\ shadow' = [shadow EXCEPT ![b] = {req.val}]
      /\ req' = NoRequest
      /\ pc' = "idle"
      /\ UNCHANGED md

\* ... then the copy, and the call returns 0.
WriteCopy ==
  LET b == req.blk
  IN  /\ pc = "copy"
      /\ IF ~Dead(Copy(b)) /\ Copy(b) = None
           THEN pc' = "wild" /\ UNCHANGED <<platter, req, shadow>>
           ELSE /\ platter' = IF Dead(Copy(b)) THEN platter
                   ELSE [platter EXCEPT ![Copy(b)][MirrorRow(b)] = req.val]
                /\ shadow' = [shadow EXCEPT ![b] = {req.val}]
                /\ req' = NoRequest
                /\ pc' = "idle"
      /\ UNCHANGED md

DiskFailRaid(d) ==
  /\ pc = "idle"
  /\ Live(md, d)
  /\ md.num_dead_disks < MaxDead
  /\ md' = Failed(md, d)
  /\ UNCHANGED <<platter, pc, req, shadow>>

\* The repaired disk takes its place with the content it had: nothing is
\* copied to it.
DiskRepairedRaid(d) ==
  /\ pc = "idle"
  /\ Repairs
  /\ ~Live(md, d)
  /\ md' = Repaired(md, d)
  /\ UNCHANGED <<platter, pc, req, shadow>>

\* A reboot in a state from which fetch() brings back the metadata (disks 1
\* and 2 live: RaidMeta, RebootKeepsMetadataFrom1); a request in progress may
\* or may not have happened.
Crash ==
  /\ Crashes
  /\ Live(md, 1) /\ Live(md, 2)
  /\ pc \in {"idle", "copy"}
  /\ shadow' = IF pc = "copy" THEN [shadow EXCEPT ![req.blk] = @ \cup {req.val}]
                              ELSE shadow
  /\ pc' = "idle"
  /\ req' = NoRequest
  /\ UNCHANGED <<md, platter>>

Next ==
  \/ \E b \in Block : Read(b)
  \/ \E b \in Block, v \in Value : WritePrimary(b, v)
  \/ WriteCopy
  \/ \E d \in Disk : DiskFailRaid(d) \/ DiskRepairedRaid(d)
  \/ Crash

Spec == Init /\ [][Next]_vars

-----------------------------------------------------------------------------

TypeOK ==
  /\ md \in Metadata
  /\ platter \in [Disk -> [1..Rows -> Value]]
  /\ pc \in {"idle", "copy", "wild"}
  /\ req \in [blk : Block \cup {0}, val : Value]
  /\ shadow \in [Block -> SUBSET Value]

\* A read that returns 0 delivers the value last written (after a reboot in
\* the middle of a write: the old or the new one), from the primary or from
\* the copy that has taken its place (read_raid1, disk_fail_raid).  With
\* repairs the code does not satisfy it, and no run checks it: a repaired disk
\* has its old content.
ReadsCorrect ==
  pc = "idle" => \A b \in Block : Readable(b) => ReadValue(b) \in shadow[b]

\* What does hold: a read served by a disk that never failed is right,
\* whatever failures, repairs and reboots do to the rest of the array.
HealthyReads ==
  pc = "idle" => \A b \in Block :
    Readable(b) /\ md.disk_state[Source(b)] = "ALIVE" => ReadValue(b) \in shadow[b]

\* The array never addresses disk -1: a missing copy or primary is skipped
\* (the tests of disk_state in read_raid1 and write_raid1).
NoWildDisk == pc # "wild"

\* A block whose column still has a primary can be read: when a primary fails
\* disk_fail_raid makes its copy the primary, and none is left behind dead.
SurvivorServes ==
  pc = "idle" => \A b \in Block : Primary(b) # None => Readable(b)

\* Two disks of a column neither of which ever failed hold the same data,
\* except for a block whose write is in progress or was cut off by a reboot:
\* failures and repairs elsewhere never redirect a write.
MirrorsAgree ==
  \A b \in Block :
    LET p == Primary(b)  c == Copy(b)  r == MirrorRow(b)
    IN  /\ {p, c} \subseteq Disk
        /\ md.disk_state[p] = "ALIVE" /\ md.disk_state[c] = "ALIVE"
        => \/ platter[p][r] = platter[c][r]
           \/ pc # "idle" /\ req.blk = b
           \/ Crashes /\ {platter[p][r], platter[c][r]} \subseteq shadow[b]

=============================================================================

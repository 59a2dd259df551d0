----------------------------- MODULE RaidRecord -----------------------------
(***************************************************************************)
(* struct raid of kernel/raid.h and what init_raid, disk_fail_raid and     *)
(* disk_repaired_raid of kernel/raid.c make of it, as functions from the   *)
(* old record to the new one.                                              *)
(***************************************************************************)
EXTENDS RaidLayout

CONSTANT UintMod  \* number of values of the uint counters, 2^32 in the code

\* The counters can count the disks.
UintAssumption == UintMod \in Nat /\ UintMod > DISKS

None == -1  \* "no such disk" in data_disks, copy_disks and reserve_disk
Used == 0   \* the reserve disk has been put to use

DiskRef == {None, Used} \cup Disk

DiskState == {"ALIVE", "DEAD", "REPAIRED"}

\* struct raid.  The sizes are in RaidScan; the stripe cache, which fetch()
\* invalidates, is in RaidParity.
Metadata ==
  [raid_initialized : BOOLEAN,
   type             : RaidType,
   num_dead_disks   : 0..(UintMod - 1),
   disk_state       : [Disk -> DiskState],
   data_disks       : [Column -> DiskRef],
   copy_disks       : [Column -> DiskRef],
   reserve_disk     : DiskRef]

\* A page of zeros, read as a struct raid.
Zero ==
  [raid_initialized |-> FALSE,
   type             |-> "RAID0",
   num_dead_disks   |-> 0,
   disk_state       |-> [d \in Disk |-> "ALIVE"],
   data_disks       |-> [c \in Column |-> Used],
   copy_disks       |-> [c \in Column |-> Used],
   reserve_disk     |-> Used]

Live(m, d) == m.disk_state[d] # "DEAD"

Places(f, x) == {c \in Column : f[c] = x}

First(S) == CHOOSE c \in S : \A e \in S : c <= e
Last(S)  == CHOOSE c \in S : \A e \in S : c >= e

\* init_raid: disk_state is left as it was, and so are the fields a type
\* does not use.
Initialized(m, t) ==
  LET base == [m EXCEPT !.raid_initialized = TRUE, !.type = t,
                        !.num_dead_disks = 0, !.reserve_disk = None]
  IN  IF t \in Mirrored
        THEN [base EXCEPT
                !.reserve_disk = IF DISKS % 2 = 0 THEN None ELSE DISKS,
                !.data_disks = [c \in Column |-> c],
                !.copy_disks = [c \in Column |-> c + DISKS \div 2]]
        ELSE base

\* disk_fail_raid on a mirrored array with an unused reserve disk.  The
\* column of a copy is taken to be DISKS-diskn+1; one past the last column,
\* the store hits reserve_disk, which is cleared next.
ReservePutIn(m, d) ==
  LET c == DISKS - d + 1
      n == [m EXCEPT !.reserve_disk = Used]
  IN  IF d <= num_of_disks(m.type)
        THEN [n EXCEPT !.data_disks[d] = m.copy_disks[d],
                       !.copy_disks[d] = m.reserve_disk]
        ELSE IF c \in Column THEN [n EXCEPT !.copy_disks[c] = m.reserve_disk] ELSE n

\* Fault: the promoted copy also stays the copy ...
TakenOutTwice(m, d) ==
  LET c == Last(Places(m.data_disks, d) \cup Places(m.copy_disks, d))
  IN  [m EXCEPT !.data_disks[c] = m.copy_disks[c]]

\* ... it is not promoted ...
TakenOutUnpromoted(m, d) ==
  LET c == Last(Places(m.data_disks, d) \cup Places(m.copy_disks, d))
  IN  [m EXCEPT !.copy_disks[c] = None]

\* disk_fail_raid on a mirrored array without one.  For a disk in no column
\* the code stores to copy_disks[-1], the last entry of data_disks.
TakenOut(m, d) ==
  LET primary == Places(m.data_disks, d)
      copy    == Places(m.copy_disks, d)
      c       == Last(primary)
  IN  IF primary # {}
        THEN [m EXCEPT !.data_disks[c] = m.copy_disks[c], !.copy_disks[c] = None]
        ELSE IF copy # {} THEN [m EXCEPT !.copy_disks[Last(copy)] = None]
        ELSE [m EXCEPT !.data_disks[DISKS \div 2] = None]

Failed(m, d) ==
  LET n == [m EXCEPT !.disk_state[d] = "DEAD",
                     !.num_dead_disks = (@ + 1) % UintMod]
  IN  IF m.type \notin Mirrored THEN n
      ELSE IF m.reserve_disk \notin {None, Used} THEN ReservePutIn(n, d)
      ELSE TakenOut(n, d)

\* disk_repaired_raid: the disk goes to the first column without a primary,
\* else to the first without a copy, else it becomes the reserve.
Repaired(m, d) ==
  LET n == [m EXCEPT !.disk_state[d] = "REPAIRED",
                     !.num_dead_disks = (@ - 1) % UintMod]
      noData == Places(m.data_disks, None)
      noCopy == Places(m.copy_disks, None)
  IN  IF m.type \notin Mirrored THEN n
      ELSE IF noData # {} THEN [n EXCEPT !.data_disks[First(noData)] = d]
      ELSE IF noCopy # {} THEN [n EXCEPT !.copy_disks[First(noCopy)] = d]
      ELSE [n EXCEPT !.reserve_disk = d]

=============================================================================

--------------------------- MODULE RaidMetaProofs ---------------------------
(***************************************************************************)
(* The RAID metadata for every number of disks, every set of types and     *)
(* every bound on dead disks, with reboots at any point: the counter of    *)
(* dead disks is exact, and while disks 1 and 2 live a reboot brings back  *)
(* the metadata from before or after the call it cut off.                  *)
(***************************************************************************)
EXTENDS RaidMeta, FiniteSetTheorems, WellFoundedInduction, TLAPS

\* What is assumed of the constants.
Usual == UintAssumption /\ MetaAssumption

LEMMA DisksFinite ==
  IsFiniteSet(Disk) /\ Cardinality(Disk) = DISKS
  <1>1. IsFiniteSet(1..DISKS) /\ Cardinality(1..DISKS) = IF 1 > DISKS THEN 0 ELSE DISKS - 1 + 1
    BY FS_Interval, DisksAssumption
  <1> QED BY <1>1, DisksAssumption DEF Disk

LEMMA FirstDisk == 1 \in Disk /\ DISKS \in Disk /\ Disk \subseteq Nat
  BY DisksAssumption DEF Disk

LEMMA Columns ==
  /\ Column \subseteq Nat
  /\ \A c \in Column : c \in Disk /\ c + DISKS \div 2 \in Disk
  BY DisksAssumption DEF Column, Disk

\* First yields the least element.
LEMMA FirstOf ==
  ASSUME NEW S \in SUBSET Nat, S # {}
  PROVE  First(S) \in S /\ \A y \in S : First(S) <= y
  <1> DEFINE R == {ss \in Nat \X Nat : ss[1] < ss[2]}
  <1>1. IsWellFoundedOn(R, Nat)
    BY NatLessThanWellFounded DEF OpToRel
  <1> HIDE DEF R
  <1>2. PICK x \in S : \A y \in S : ~ (<<y, x>> \in R)
    BY <1>1, WFMin
  <1>3. ASSUME NEW y \in S PROVE x <= y
    <2>1. x \in Nat /\ y \in Nat
      OBVIOUS
    <2>2. y < x => <<y, x>> \in R
      BY <2>1 DEF R
    <2> QED BY <1>2, <2>1, <2>2
  <1> QED BY <1>3 DEF First

\* Last yields an element of a set of columns.
LEMMA LastOf ==
  ASSUME NEW S \in SUBSET Column, S # {}
  PROVE  Last(S) \in S
  <1> DEFINE n == DISKS \div 2
             T == {k \in Nat : \E c \in S : k = n - c}
  <1>1. n \in Nat /\ \A c \in S : c \in Nat /\ c <= n
    BY DisksAssumption DEF Column
  <1> HIDE DEF n
  <1>2. T \in SUBSET Nat /\ T # {}
    <2>1. PICK c \in S : TRUE
      OBVIOUS
    <2>2. n - c \in T
      BY <1>1
    <2> QED BY <2>2
  <1>3. PICK k \in T : \A y \in T : k <= y
    BY <1>2, FirstOf
  <1>4. PICK c \in S : k = n - c
    OBVIOUS
  <1>5. ASSUME NEW e \in S PROVE c >= e
    <2>1. n - e \in T
      BY <1>1
    <2> QED BY <1>1, <1>3, <1>4, <2>1
  <1> QED BY <1>5 DEF Last

-----------------------------------------------------------------------------
(* The functions of RaidRecord. *)

LEMMA ZeroType ==
  ASSUME Usual
  PROVE  Zero \in Metadata
  <1>1. 0 \in 0..(UintMod - 1)
    BY DisksAssumption DEF Usual, UintAssumption
  <1> QED BY <1>1 DEF Zero, Metadata, RaidType, DiskState, DiskRef, Used

LEMMA InitializedFields ==
  ASSUME Usual, NEW m \in Metadata, NEW t \in RaidType
  PROVE  LET f == Initialized(m, t)
         IN  /\ f \in Metadata
             /\ f.raid_initialized
             /\ f.num_dead_disks = 0
             /\ f.disk_state = m.disk_state
  <1> DEFINE base == [m EXCEPT !.raid_initialized = TRUE, !.type = t,
                               !.num_dead_disks = 0, !.reserve_disk = None]
             r == IF DISKS % 2 = 0 THEN None ELSE DISKS
             x == [c \in Column |-> c]
             y == [c \in Column |-> c + DISKS \div 2]
  <1>1. 0 \in 0..(UintMod - 1)
    BY DisksAssumption DEF Usual, UintAssumption
  <1>2. /\ base \in Metadata
        /\ base.raid_initialized
        /\ base.num_dead_disks = 0
        /\ base.disk_state = m.disk_state
    BY <1>1 DEF Metadata, DiskRef
  <1>3. r \in DiskRef
    BY FirstDisk DEF DiskRef
  <1>4. x \in [Column -> DiskRef] /\ y \in [Column -> DiskRef]
    BY Columns DEF DiskRef
  <1>5. Initialized(m, t) =
          IF t \in Mirrored
            THEN [base EXCEPT !.reserve_disk = r, !.data_disks = x, !.copy_disks = y]
            ELSE base
    BY DEF Initialized
  <1> HIDE DEF base, r, x, y
  <1> QED BY <1>2, <1>3, <1>4, <1>5 DEF Metadata

\* A disk failure changes the state of the disk and the counter, besides the
\* columns.
LEMMA FailedFields ==
  ASSUME Usual, NEW m \in Metadata, NEW d \in Disk
  PROVE  LET f == Failed(m, d)
         IN  /\ f \in Metadata
             /\ f.raid_initialized = m.raid_initialized
             /\ f.disk_state = [m.disk_state EXCEPT ![d] = "DEAD"]
             /\ f.num_dead_disks = (m.num_dead_disks + 1) % UintMod
  <1> DEFINE g == [m EXCEPT !.disk_state[d] = "DEAD",
                            !.num_dead_disks = (m.num_dead_disks + 1) % UintMod]
             Same(f) == /\ f \in Metadata
                        /\ f.raid_initialized = g.raid_initialized
                        /\ f.disk_state = g.disk_state
                        /\ f.num_dead_disks = g.num_dead_disks
  <1>1. (m.num_dead_disks + 1) % UintMod \in 0..(UintMod - 1)
    BY DisksAssumption DEF Usual, UintAssumption, Metadata
  <1>2. /\ g \in Metadata
        /\ g.raid_initialized = m.raid_initialized
        /\ g.disk_state = [m.disk_state EXCEPT ![d] = "DEAD"]
        /\ g.num_dead_disks = (m.num_dead_disks + 1) % UintMod
        /\ g.type = m.type /\ g.reserve_disk = m.reserve_disk
    BY <1>1 DEF Metadata, DiskState
  <1>3. Failed(m, d) = IF m.type \notin Mirrored THEN g
                       ELSE IF m.reserve_disk \notin {None, Used} THEN ReservePutIn(g, d)
                       ELSE TakenOut(g, d)
    BY DEF Failed
  <1> HIDE DEF g
  <1>4. None \in DiskRef /\ Used \in DiskRef /\ g.reserve_disk \in DiskRef
    BY <1>2 DEF DiskRef, Metadata
  <1>5. ASSUME m.type \in Mirrored PROVE Same(ReservePutIn(g, d))
    <2> DEFINE c == DISKS - d + 1
               n == [g EXCEPT !.reserve_disk = Used]
    <2>1. n \in Metadata /\ Same(n)
      BY <1>2, <1>4 DEF Metadata
    <2>2. num_of_disks(g.type) = DISKS \div 2
      BY <1>2, <1>5 DEF num_of_disks, Mirrored
    <2>3. ReservePutIn(g, d) =
            IF d <= DISKS \div 2
              THEN [n EXCEPT !.data_disks[d] = g.copy_disks[d], !.copy_disks[d] = g.reserve_disk]
              ELSE IF c \in Column THEN [n EXCEPT !.copy_disks[c] = g.reserve_disk] ELSE n
      BY <2>2 DEF ReservePutIn
    <2> HIDE DEF n, c
    <2>4. CASE d <= DISKS \div 2
      <3>1. d \in Column
        BY <2>4, DisksAssumption DEF Disk, Column
      <3>2. g.copy_disks[d] \in DiskRef
        BY <1>2, <3>1 DEF Metadata
      <3> DEFINE k == [n EXCEPT !.data_disks[d] = g.copy_disks[d]]
      <3>3. Same(k)
        BY <2>1, <3>1, <3>2 DEF Metadata
      <3>4. ReservePutIn(g, d) = [k EXCEPT !.copy_disks[d] = g.reserve_disk]
        BY <2>1, <2>3, <2>4 DEF Metadata
      <3> HIDE DEF k
      <3> QED BY <1>4, <3>1, <3>3, <3>4 DEF Metadata
    <2>5. CASE ~(d <= DISKS \div 2)
      BY <1>4, <2>1, <2>3, <2>5 DEF Metadata
    <2> QED BY <2>4, <2>5
  <1>6. Same(TakenOut(g, d))
    <2> DEFINE primary == Places(g.data_disks, d)
               copy == Places(g.copy_disks, d)
               c == Last(primary)
               e == Last(copy)
               h == DISKS \div 2
    <2>1. primary \in SUBSET Column /\ copy \in SUBSET Column
      BY DEF Places
    <2>2. TakenOut(g, d) =
            IF primary # {}
              THEN [g EXCEPT !.data_disks[c] = g.copy_disks[c], !.copy_disks[c] = None]
              ELSE IF copy # {} THEN [g EXCEPT !.copy_disks[e] = None]
              ELSE [g EXCEPT !.data_disks[h] = None]
      BY DEF TakenOut
    <2>3. primary # {} => c \in Column /\ g.copy_disks[c] \in DiskRef
      BY <1>2, <2>1, LastOf DEF Metadata
    <2>4. copy # {} => e \in Column
      BY <2>1, LastOf
    <2>5. h \in Column
      BY DisksAssumption DEF Column
    <2> HIDE DEF primary, copy, c, e, h
    <2>6. CASE primary # {}
      <3> DEFINE k == [g EXCEPT !.data_disks[c] = g.copy_disks[c]]
      <3>1. Same(k)
        BY <1>2, <2>3, <2>6 DEF Metadata
      <3>2. TakenOut(g, d) = [k EXCEPT !.copy_disks[c] = None]
        BY <1>2, <2>2, <2>6 DEF Metadata
      <3> HIDE DEF k
      <3> QED BY <1>4, <2>3, <2>6, <3>1, <3>2 DEF Metadata
    <2>7. CASE primary = {} /\ copy # {}
      BY <1>2, <1>4, <2>2, <2>4, <2>7 DEF Metadata
    <2>8. CASE primary = {} /\ copy = {}
      BY <1>2, <1>4, <2>2, <2>5, <2>8 DEF Metadata
    <2> QED BY <2>6, <2>7, <2>8
  <1> QED BY <1>2, <1>3, <1>5, <1>6

\* A repair changes the state of the disk and the counter, besides the
\* columns.
LEMMA RepairedFields ==
  ASSUME Usual, NEW m \in Metadata, NEW d \in Disk
  PROVE  LET f == Repaired(m, d)
         IN  /\ f \in Metadata
             /\ f.raid_initialized = m.raid_initialized
             /\ f.disk_state = [m.disk_state EXCEPT ![d] = "REPAIRED"]
             /\ f.num_dead_disks = (m.num_dead_disks - 1) % UintMod
  <1> DEFINE g == [m EXCEPT !.disk_state[d] = "REPAIRED",
                            !.num_dead_disks = (m.num_dead_disks - 1) % UintMod]
             noData == Places(m.data_disks, None)
             noCopy == Places(m.copy_disks, None)
             c == First(noData)
             e == First(noCopy)
  <1>1. (m.num_dead_disks - 1) % UintMod \in 0..(UintMod - 1)
    BY DisksAssumption DEF Usual, UintAssumption, Metadata
  <1>2. /\ g \in Metadata
        /\ g.raid_initialized = m.raid_initialized
        /\ g.disk_state = [m.disk_state EXCEPT ![d] = "REPAIRED"]
        /\ g.num_dead_disks = (m.num_dead_disks - 1) % UintMod
    BY <1>1 DEF Metadata, DiskState
  <1>3. Repaired(m, d) = IF m.type \notin Mirrored THEN g
                         ELSE IF noData # {} THEN [g EXCEPT !.data_disks[c] = d]
                         ELSE IF noCopy # {} THEN [g EXCEPT !.copy_disks[e] = d]
                         ELSE [g EXCEPT !.reserve_disk = d]
    BY DEF Repaired
  <1>4. d \in DiskRef
    BY DEF DiskRef
  <1>5. noData \subseteq Column /\ noCopy \subseteq Column
    BY DEF Places
  <1>6. noData # {} => c \in Column
    BY <1>5, Columns, FirstOf
  <1>7. noCopy # {} => e \in Column
    BY <1>5, Columns, FirstOf
  <1> HIDE DEF g, noData, noCopy, c, e
  <1>8. CASE m.type \notin Mirrored
    BY <1>2, <1>3, <1>8
  <1>9. CASE m.type \in Mirrored /\ noData # {}
    BY <1>2, <1>3, <1>4, <1>6, <1>9 DEF Metadata
  <1>10. CASE m.type \in Mirrored /\ noData = {} /\ noCopy # {}
    BY <1>2, <1>3, <1>4, <1>7, <1>10 DEF Metadata
  <1>11. CASE m.type \in Mirrored /\ noData = {} /\ noCopy = {}
    BY <1>2, <1>3, <1>4, <1>11 DEF Metadata
  <1> QED BY <1>8, <1>9, <1>10, <1>11

-----------------------------------------------------------------------------
(* Types. *)

\* fetch() takes one of the copies on the disks, the first if that calls disk
\* 2 live.
LEMMA CopyTaken ==
  ASSUME NEW r
  PROVE  LET S == {i \in Disk : i = DISKS \/ Live(r[i], i + 1)}
         IN  First(S) \in Disk /\ (Live(r[1], 2) => First(S) = 1)
  <1> DEFINE S == {i \in Disk : i = DISKS \/ Live(r[i], i + 1)}
  <1>1. S \in SUBSET Nat /\ S # {} /\ S \subseteq Disk
    BY FirstDisk
  <1>2. First(S) \in S /\ \A y \in S : First(S) <= y
    BY <1>1, FirstOf
  <1>3. First(S) \in Disk
    BY <1>1, <1>2
  <1>4. ASSUME Live(r[1], 2) PROVE First(S) = 1
    <2>1. 1 \in S
      BY <1>4, FirstDisk
    <2> HIDE DEF S
    <2>2. First(S) <= 1
      BY <1>2, <2>1
    <2> QED BY <1>3, <2>2, DisksAssumption DEF Disk
  <1> QED BY <1>3, <1>4

LEMMA FetchedCopy ==
  /\ \E d \in Disk : Fetched = row0[d]
  /\ Live(row0[1], 2) => Fetched = row0[1]
  BY CopyTaken DEF Fetched

LEMMA FetchedCopyNext ==
  Live(row0'[1], 2) => Fetched' = row0'[1]
  BY CopyTaken DEF Fetched

LEMMA LoadedType ==
  ASSUME TypeOK
  PROVE  Fetched \in Metadata /\ Loaded \in Metadata
  BY FetchedCopy DEF TypeOK, Loaded

LEMMA InitType ==
  ASSUME Usual, Init
  PROVE  TypeOK
  BY ZeroType, FirstDisk DEF Init, TypeOK

LEMMA SaveType ==
  ASSUME TypeOK, NEW loop \in {"init", "writeback"}, NEW old \in Metadata, NEW new \in Metadata,
         Save(loop, old, new)
  PROVE  TypeOK'
  BY FirstDisk DEF TypeOK, Save

\* Every call that changes the metadata is a Save of old and new metadata.
LEMMA CallSaves ==
  ASSUME Usual, TypeOK,
         \/ \E t \in Types : InitRaid(t)
         \/ \E d \in Disk : DiskFailRaid(d) \/ DiskRepairedRaid(d)
         \/ DestroyRaid
  PROVE  \E loop \in {"init", "writeback"}, old, new \in Metadata :
           /\ Save(loop, old, new)
           /\ \/ old = raid_metadata /\ raid_metadata.raid_initialized
              \/ ~raid_metadata.raid_initialized /\ old \in {Fetched, row0[1]}
  <1>1. /\ raid_metadata \in Metadata /\ Fetched \in Metadata /\ row0[1] \in Metadata
        /\ Loaded \in Metadata /\ Zero \in Metadata
    BY LoadedType, ZeroType, FirstDisk DEF TypeOK
  <1>2. \/ Loaded = raid_metadata /\ raid_metadata.raid_initialized
        \/ Loaded = Fetched /\ ~raid_metadata.raid_initialized
    BY DEF Loaded
  <1>3. ASSUME NEW t \in Types, InitRaid(t) 
        PROVE  Save("init", Loaded, Initialized(Loaded, t)) /\ Initialized(Loaded, t) \in Metadata
    BY <1>1, <1>3, InitializedFields DEF InitRaid, Usual, MetaAssumption
  <1>4. ASSUME NEW d \in Disk, DiskFailRaid(d)
        PROVE  /\ raid_metadata.raid_initialized
               /\ Save("writeback", raid_metadata, Failed(raid_metadata, d))
               /\ Failed(raid_metadata, d) \in Metadata
    BY <1>1, <1>4, FailedFields DEF DiskFailRaid
  <1>5. ASSUME NEW d \in Disk, DiskRepairedRaid(d)
        PROVE  /\ raid_metadata.raid_initialized
               /\ Save("writeback", raid_metadata, Repaired(raid_metadata, d))
               /\ Repaired(raid_metadata, d) \in Metadata
    BY <1>1, <1>5, RepairedFields DEF DiskRepairedRaid
  <1>6. ASSUME DestroyRaid
        PROVE  \/ raid_metadata.raid_initialized /\ Save("writeback", raid_metadata, Zero)
               \/ ~raid_metadata.raid_initialized /\ Save("writeback", row0[1], Zero)
    BY <1>6 DEF DestroyRaid
  <1>7. CASE \E t \in Types : InitRaid(t)
    BY <1>1, <1>2, <1>3, <1>7
  <1>8. CASE \E d \in Disk : DiskFailRaid(d) \/ DiskRepairedRaid(d)
    BY <1>1, <1>4, <1>5, <1>8
  <1>9. CASE DestroyRaid
    BY <1>1, <1>6, <1>9
  <1> QED BY <1>7, <1>8, <1>9

LEMMA SaveDiskType ==
  ASSUME TypeOK, SaveDisk
  PROVE  TypeOK'
  <1>1. next = DISKS \/ next + 1 \in Disk
    BY DisksAssumption DEF TypeOK, Disk
  <1>2. row0' \in [Disk -> Metadata]
    BY DEF TypeOK, SaveDisk
  <1> QED BY <1>1, <1>2, FirstDisk DEF TypeOK, SaveDisk

LEMMA NextType ==
  ASSUME Usual, TypeOK, [Next]_vars
  PROVE  TypeOK'
  <1>1. CASE \/ \E t \in Types : InitRaid(t)
             \/ \E d \in Disk : DiskFailRaid(d) \/ DiskRepairedRaid(d)
             \/ DestroyRaid
    BY <1>1, CallSaves, SaveType
  <1>2. CASE InfoRaid
    BY <1>2, LoadedType DEF InfoRaid, TypeOK
  <1>3. CASE SaveDisk
    BY <1>3, SaveDiskType
  <1>4. CASE Crash
    BY <1>4, ZeroType, FirstDisk DEF Crash, TypeOK
  <1>5. CASE UNCHANGED vars
    BY <1>5 DEF vars, TypeOK
  <1> QED BY <1>1, <1>2, <1>3, <1>4, <1>5 DEF Next

-----------------------------------------------------------------------------
(* Reboots. *)

BothLive(m) == Live(m, 1) /\ Live(m, 2)

\* Between calls the metadata in memory are those fetch() would bring back,
\* and within a call those the loop has written to disk 1 first.
RebootInv ==
  /\ TypeOK
  /\ RebootKeepsMetadataFrom1
  /\ pc = "idle" /\ raid_metadata.raid_initialized /\ BothLive(raid_metadata)
       => Fetched = raid_metadata
  /\ pc # "idle" =>
       /\ raid_metadata \in recent
       /\ next # 1 /\ Live(raid_metadata, 1) => row0[1] = raid_metadata

LEMMA InitReboot ==
  ASSUME Usual, Init
  PROVE  RebootInv
  <1>1. TypeOK
    BY InitType
  <1>2. PICK d \in Disk : Fetched = row0[d]
    BY <1>1, FetchedCopy DEF TypeOK
  <1>3. Fetched = Zero /\ raid_metadata = Zero /\ recent = {Zero} /\ pc = "idle"
    BY <1>2 DEF Init
  <1> QED BY <1>1, <1>3 DEF RebootInv, RebootKeepsMetadataFrom1, RebootKeepsMetadata

\* A call starts from what fetch() would bring back.
LEMMA SaveReboot ==
  ASSUME RebootInv, NEW loop \in {"init", "writeback"}, NEW old \in Metadata, NEW new \in Metadata,
         Save(loop, old, new),
         \/ old = raid_metadata /\ raid_metadata.raid_initialized
         \/ ~raid_metadata.raid_initialized /\ old \in {Fetched, row0[1]}
  PROVE  RebootInv'
  <1>1. TypeOK'
    BY SaveType DEF RebootInv
  <1>2. Fetched' = Fetched
    BY DEF Fetched, Save
  <1>3. BothLive(old) => Fetched = old
    BY FetchedCopy DEF RebootInv, TypeOK, Save, BothLive
  <1>4. /\ pc' # "idle" /\ next' = 1 /\ raid_metadata' = new
        /\ recent' = {old, new}
    BY DEF Save
  <1>5. RebootKeepsMetadataFrom1'
    BY <1>2, <1>3, <1>4 DEF RebootKeepsMetadataFrom1, RebootKeepsMetadata, BothLive
  <1> QED BY <1>1, <1>4, <1>5 DEF RebootInv

\* The loop writes disk 1 first, and fetch() takes what it finds there.
LEMMA SaveDiskReboot ==
  ASSUME RebootInv, SaveDisk
  PROVE  RebootInv'
  <1> USE DEF RebootInv
  <1>1. TypeOK /\ TypeOK'
    BY SaveDiskType
  <1>2. raid_metadata' = raid_metadata /\ raid_metadata \in recent /\ raid_metadata \in recent'
    BY DEF SaveDisk
  <1>3. Live(raid_metadata, 1) => row0'[1] = raid_metadata
    <2>1. CASE next = 1
      BY <1>1, <2>1, FirstDisk DEF SaveDisk, TypeOK
    <2>2. CASE next # 1
      BY <1>1, <2>2, FirstDisk DEF SaveDisk, TypeOK
    <2> QED BY <2>1, <2>2
  <1>4. BothLive(raid_metadata) => Fetched' = raid_metadata
    BY <1>3, FetchedCopyNext DEF BothLive
  <1>5. RebootKeepsMetadataFrom1'
    BY <1>2, <1>4 DEF RebootKeepsMetadataFrom1, RebootKeepsMetadata, BothLive
  <1> QED BY <1>1, <1>2, <1>3, <1>4, <1>5

LEMMA NextReboot ==
  ASSUME Usual, RebootInv, [Next]_vars
  PROVE  RebootInv'
  <1>1. TypeOK /\ TypeOK'
    BY NextType DEF RebootInv
  <1>2. CASE \/ \E t \in Types : InitRaid(t)
             \/ \E d \in Disk : DiskFailRaid(d) \/ DiskRepairedRaid(d)
             \/ DestroyRaid
    BY <1>1, <1>2, CallSaves, SaveReboot
  <1>3. CASE InfoRaid
    <2>1. Fetched' = Fetched
      BY <1>3 DEF Fetched, InfoRaid
    <2>2. raid_metadata' = raid_metadata \/ raid_metadata' = Fetched
      BY <1>3 DEF InfoRaid, Loaded
    <2> QED BY <1>1, <1>3, <2>1, <2>2
            DEF InfoRaid, RebootInv, RebootKeepsMetadataFrom1, RebootKeepsMetadata
  <1>4. CASE SaveDisk
    BY <1>4, SaveDiskReboot
  <1>5. CASE Crash
    <2>1. Fetched' = Fetched
      BY <1>5 DEF Fetched, Crash
    <2>2. ~Zero.raid_initialized
      BY DEF Zero
    <2> QED BY <1>1, <1>5, <2>1, <2>2
            DEF Crash, RebootInv, RebootKeepsMetadataFrom1, RebootKeepsMetadata
  <1>6. CASE UNCHANGED vars
    <2>1. Fetched' = Fetched
      BY <1>6 DEF Fetched, vars
    <2> QED BY <1>1, <1>6, <2>1
            DEF vars, RebootInv, RebootKeepsMetadataFrom1, RebootKeepsMetadata
  <1> QED BY <1>2, <1>3, <1>4, <1>5, <1>6 DEF Next

\* A reboot at any point of init_raid, disk_fail_raid, disk_repaired_raid or
\* destroy_raid yields the metadata from before or after the call, as long as
\* disks 1 and 2 live in both: for any number of disks, any types, and calls
\* of init_raid on an array that exists.
THEOREM RebootsKeepMetadata ==
  ASSUME Usual
  PROVE  Spec => []RebootKeepsMetadataFrom1
  <1>1. Init => RebootInv
    BY InitReboot
  <1>2. RebootInv /\ [Next]_vars => RebootInv'
    BY NextReboot
  <1>3. RebootInv => RebootKeepsMetadataFrom1
    BY DEF RebootInv
  <1> QED BY <1>1, <1>2, <1>3, PTL DEF Spec

-----------------------------------------------------------------------------
(* The number of dead disks. *)

DeadDisks(m) == {d \in Disk : ~Live(m, d)}

\* The counter is exact, and metadata without an array are a page of zeros.
Sound(m) == CountExact(m) /\ (~m.raid_initialized => m = Zero)

CountInv ==
  /\ TypeOK
  /\ Sound(raid_metadata)
  /\ \A d \in Disk : Sound(row0[d])

LEMMA ZeroSound == Sound(Zero) /\ DeadDisks(Zero) = {}
  <1>1. DeadDisks(Zero) = {}
    BY DEF DeadDisks, Live, Zero
  <1> QED BY <1>1, FS_EmptySet DEF Sound, CountExact, DeadDisks, Zero

LEMMA DeadFinite ==
  ASSUME NEW m
  PROVE  /\ IsFiniteSet(DeadDisks(m))
         /\ Cardinality(DeadDisks(m)) \in Nat
         /\ Cardinality(DeadDisks(m)) <= DISKS
  <1>1. DeadDisks(m) \subseteq Disk
    BY DEF DeadDisks
  <1> QED BY <1>1, DisksFinite, FS_Subset, FS_CardinalityType

LEMMA InitializedSound ==
  ASSUME Usual, NEW t \in RaidType
  PROVE  Sound(Initialized(Zero, t))
  <1> DEFINE f == Initialized(Zero, t)
  <1>1. f.raid_initialized /\ f.num_dead_disks = 0 /\ f.disk_state = Zero.disk_state
    BY ZeroType, InitializedFields
  <1> HIDE DEF f
  <1>2. DeadDisks(f) = {}
    BY <1>1, ZeroSound DEF DeadDisks, Live
  <1>3. Sound(f)
    BY <1>1, <1>2, FS_EmptySet DEF Sound, CountExact, DeadDisks
  <1> QED BY <1>3 DEF f

LEMMA FailedSound ==
  ASSUME Usual, NEW m \in Metadata, Sound(m), m.raid_initialized, NEW d \in Disk, Live(m, d)
  PROVE  Sound(Failed(m, d))
  <1> DEFINE f == Failed(m, d)
  <1>1. /\ f.raid_initialized
        /\ f.disk_state = [m.disk_state EXCEPT ![d] = "DEAD"]
        /\ f.num_dead_disks = (m.num_dead_disks + 1) % UintMod
    BY FailedFields
  <1> HIDE DEF f
  <1>2. DeadDisks(f) = DeadDisks(m) \cup {d} /\ d \notin DeadDisks(m)
    BY <1>1 DEF DeadDisks, Live, Metadata
  <1>3. Cardinality(DeadDisks(f)) = Cardinality(DeadDisks(m)) + 1
    BY <1>2, DeadFinite, FS_AddElement
  <1>4. m.num_dead_disks = Cardinality(DeadDisks(m))
    BY DEF Sound, CountExact, DeadDisks
  <1>5. f.num_dead_disks = Cardinality(DeadDisks(f))
    BY <1>1, <1>3, <1>4, DeadFinite, DisksAssumption DEF Usual, UintAssumption
  <1>6. Sound(f)
    BY <1>1, <1>5 DEF Sound, CountExact, DeadDisks
  <1> QED BY <1>6 DEF f

LEMMA RepairedSound ==
  ASSUME Usual, NEW m \in Metadata, Sound(m), m.raid_initialized, NEW d \in Disk, ~Live(m, d)
  PROVE  Sound(Repaired(m, d))
  <1> DEFINE f == Repaired(m, d)
  <1>1. /\ f.raid_initialized
        /\ f.disk_state = [m.disk_state EXCEPT ![d] = "REPAIRED"]
        /\ f.num_dead_disks = (m.num_dead_disks - 1) % UintMod
    BY RepairedFields
  <1> HIDE DEF f
  <1>2. DeadDisks(f) = DeadDisks(m) \ {d} /\ d \in DeadDisks(m)
    BY <1>1 DEF DeadDisks, Live, Metadata
  <1>3. Cardinality(DeadDisks(f)) = Cardinality(DeadDisks(m)) - 1
    BY <1>2, DeadFinite, FS_RemoveElement
  <1>4. m.num_dead_disks = Cardinality(DeadDisks(m))
    BY DEF Sound, CountExact, DeadDisks
  <1>5. f.num_dead_disks = Cardinality(DeadDisks(f))
    BY <1>1, <1>3, <1>4, DeadFinite, DisksAssumption DEF Usual, UintAssumption
  <1>6. Sound(f)
    BY <1>1, <1>5 DEF Sound, CountExact, DeadDisks
  <1> QED BY <1>6 DEF f

LEMMA NextCount ==
  ASSUME Usual, Reinit = FALSE, CountInv, [Next]_vars
  PROVE  CountInv'
  <1>1. TypeOK /\ TypeOK'
    BY NextType DEF CountInv
  <1>2. Sound(raid_metadata) /\ raid_metadata \in Metadata /\ \A d \in Disk : Sound(row0[d])
    BY <1>1 DEF CountInv, TypeOK
  <1>3. Sound(Loaded)
    BY <1>1, <1>2, FetchedCopy DEF Loaded, TypeOK
  <1>4. ASSUME NEW m \in Metadata, Sound(m), raid_metadata' = m, UNCHANGED row0 PROVE CountInv'
    BY <1>1, <1>2, <1>4 DEF CountInv
  <1>5. ASSUME NEW t \in Types, InitRaid(t) PROVE CountInv'
    <2>1. Loaded = Zero /\ t \in RaidType
      BY <1>3, <1>5 DEF InitRaid, Sound, Usual, MetaAssumption
    <2>2. raid_metadata' = Initialized(Zero, t) /\ UNCHANGED row0
      BY <1>5, <2>1 DEF InitRaid, Save
    <2>3. Initialized(Zero, t) \in Metadata
      BY <2>1, ZeroType, InitializedFields
    <2> QED BY <1>4, <2>1, <2>2, <2>3, InitializedSound
  <1>6. ASSUME NEW d \in Disk, DiskFailRaid(d) PROVE CountInv'
    <2>1. raid_metadata' = Failed(raid_metadata, d) /\ UNCHANGED row0
          /\ raid_metadata.raid_initialized /\ Live(raid_metadata, d)
      BY <1>6 DEF DiskFailRaid, Save
    <2> QED BY <1>2, <1>4, <2>1, FailedFields, FailedSound
  <1>7. ASSUME NEW d \in Disk, DiskRepairedRaid(d) PROVE CountInv'
    <2>1. raid_metadata' = Repaired(raid_metadata, d) /\ UNCHANGED row0
          /\ raid_metadata.raid_initialized /\ ~Live(raid_metadata, d)
      BY <1>7 DEF DiskRepairedRaid, Save
    <2> QED BY <1>2, <1>4, <2>1, RepairedFields, RepairedSound
  <1>8. CASE DestroyRaid
    BY <1>4, <1>8, ZeroType, ZeroSound DEF DestroyRaid, Save
  <1>9. CASE InfoRaid
    BY <1>1, <1>3, <1>4, <1>9, LoadedType DEF InfoRaid
  <1>10. CASE SaveDisk
    <2>1. \A d \in Disk : row0'[d] \in {row0[d], raid_metadata}
      BY <1>1, <1>10 DEF SaveDisk, TypeOK
    <2>2. raid_metadata' = raid_metadata
      BY <1>10 DEF SaveDisk
    <2> QED BY <1>1, <1>2, <2>1, <2>2 DEF CountInv
  <1>11. CASE Crash
    BY <1>4, <1>11, ZeroType, ZeroSound DEF Crash
  <1>12. CASE UNCHANGED vars
    BY <1>1, <1>2, <1>12 DEF vars, CountInv
  <1> QED BY <1>5, <1>6, <1>7, <1>8, <1>9, <1>10, <1>11, <1>12 DEF Next

\* The counter by which read_raid4/5 and write_raid4/5 decide whether the array
\* can be served is exact in memory and on every disk, whatever disks fail, are
\* repaired and reboots cut off, as long as init_raid is not called on an array
\* that exists: it resets the counter and leaves the states of the disks.
THEOREM DeadDisksCounted ==
  ASSUME Usual, Reinit = FALSE
  PROVE  Spec => []NumDeadExact
  <1>1. Init => CountInv
    BY InitType, ZeroSound DEF Init, CountInv
  <1>2. CountInv /\ [Next]_vars => CountInv'
    BY NextCount
  <1>3. CountInv => NumDeadExact
    BY DEF CountInv, NumDeadExact, Sound
  <1> QED BY <1>1, <1>2, <1>3, PTL DEF Spec

=============================================================================

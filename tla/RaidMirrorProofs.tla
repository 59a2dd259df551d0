-------------------------- MODULE RaidMirrorProofs --------------------------
(***************************************************************************)
(* The mirrored array for any even number of disks, any number of rows and *)
(* any values: disk_fail_raid and disk_repaired_raid keep every live disk  *)
(* in one place of one column, and a disk that never failed holds what was *)
(* written to its column.                                                  *)
(***************************************************************************)
EXTENDS RaidMirror, FiniteSetTheorems, WellFoundedInduction, TLAPS

\* An even number of disks: init_raid leaves none over as a reserve.
Even == DISKS % 2 = 0 /\ MirrorAssumption /\ UintAssumption

Half == DISKS \div 2

\* Division with remainder.
LEMMA DivMod ==
  ASSUME NEW a \in Int, NEW n \in Nat \ {0}
  PROVE  /\ a % n \in 0..(n - 1)
         /\ a \div n \in Int
         /\ a = n * (a \div n) + (a % n)
  OBVIOUS

\* The order of products with a positive factor.
LEMMA ProductOrder ==
  ASSUME NEW n \in Nat \ {0}, NEW x \in Int, NEW y \in Int, x <= y
  PROVE  n * x <= n * y
  OBVIOUS

LEMMA Halves ==
  ASSUME Even
  PROVE  Half \in Nat \ {0} /\ DISKS = 2 * Half /\ Column = 1..Half /\ Disk = 1..(2 * Half)
  BY DisksAssumption DEF Even, Half, Column, Disk

LEMMA FirstOf ==
  ASSUME NEW S \in SUBSET Nat, S # {}
  PROVE  First(S) \in S
  <1> DEFINE R == {ss \in Nat \X Nat : ss[1] < ss[2]}
  <1>1. IsWellFoundedOn(R, Nat)
    BY NatLessThanWellFounded DEF OpToRel
  <1> HIDE DEF R
  <1>2. PICK x \in S : \A y \in S : ~ (<<y, x>> \in R)
    BY <1>1, WFMin, ZenonT(30)
  <1>3. ASSUME NEW y \in S PROVE x <= y
    <2>1. x \in Nat /\ y \in Nat
      OBVIOUS
    <2>2. y < x => <<y, x>> \in R
      BY <2>1 DEF R
    <2> QED BY <1>2, <2>1, <2>2
  <1> QED BY <1>3, ZenonT(30) DEF First

LEMMA LastOf ==
  ASSUME NEW c \in Nat
  PROVE  Last({c}) = c
  BY DEF Last

-----------------------------------------------------------------------------
(* The columns. *)

\* Disk x is in column c.
Holds(m, c, x) == m.data_disks[c] = x \/ m.copy_disks[c] = x

\* Every live disk has one place, no dead disk has one, and there is no
\* reserve.
WellPlaced(m) ==
  /\ m \in Metadata
  /\ m.type = "RAID1" /\ m.reserve_disk = None
  /\ m.data_disks \in [Column -> Disk \cup {None}]
  /\ m.copy_disks \in [Column -> Disk \cup {None}]
  /\ \A d \in Disk : Live(m, d) <=> \E c \in Column : Holds(m, c, d)
  /\ \A c, e \in Column : m.data_disks[c] = m.data_disks[e] /\ c # e => m.data_disks[c] = None
  /\ \A c, e \in Column : m.copy_disks[c] = m.copy_disks[e] /\ c # e => m.copy_disks[c] = None
  /\ \A c, e \in Column : m.data_disks[c] = m.copy_disks[e] => m.data_disks[c] = None

Hole(m) == \E c \in Column : Holds(m, c, None)

\* The places of the array, numbered as the disks are.
At(m) == [k \in Disk |-> IF k <= Half THEN m.data_disks[k] ELSE m.copy_disks[k - Half]]

LEMMA AtPlaces ==
  ASSUME Even, NEW m, WellPlaced(m)
  PROVE  /\ At(m) \in [Disk -> Disk \cup {None}]
         /\ \A j, k \in Disk : At(m)[j] = At(m)[k] /\ j # k => At(m)[j] = None
         /\ \A x : (\E k \in Disk : At(m)[k] = x) <=> (\E c \in Column : Holds(m, c, x))
  <1>1. Half \in Nat \ {0} /\ Column = 1..Half /\ Disk = 1..(2 * Half)
    BY Halves
  <1>2. \A k \in Disk : IF k <= Half THEN k \in Column ELSE k - Half \in Column
    BY <1>1
  <1>3. \A k \in Disk : At(m)[k] = IF k <= Half THEN m.data_disks[k] ELSE m.copy_disks[k - Half]
    BY DEF At
  <1>4. At(m) \in [Disk -> Disk \cup {None}]
    BY <1>2 DEF At, WellPlaced
  <1>5. ASSUME NEW j \in Disk, NEW k \in Disk, At(m)[j] = At(m)[k], j # k
        PROVE  At(m)[j] = None
    <2>1. CASE j <= Half /\ k <= Half
      BY <1>2, <1>3, <1>5, <2>1 DEF WellPlaced
    <2>2. CASE ~(j <= Half) /\ ~(k <= Half)
      <3>1. j - Half # k - Half
        BY <1>1, <1>5
      <3> QED BY <1>2, <1>3, <1>5, <2>2, <3>1 DEF WellPlaced
    <2>3. CASE j <= Half /\ ~(k <= Half)
      BY <1>2, <1>3, <1>5, <2>3 DEF WellPlaced
    <2>4. CASE ~(j <= Half) /\ k <= Half
      BY <1>2, <1>3, <1>5, <2>4 DEF WellPlaced
    <2> QED BY <2>1, <2>2, <2>3, <2>4
  <1>6. ASSUME NEW x PROVE (\E k \in Disk : At(m)[k] = x) <=> (\E c \in Column : Holds(m, c, x))
    <2>1. ASSUME NEW k \in Disk, At(m)[k] = x PROVE \E c \in Column : Holds(m, c, x)
      BY <1>2, <1>3, <2>1 DEF Holds
    <2>2. ASSUME NEW c \in Column, Holds(m, c, x) PROVE \E k \in Disk : At(m)[k] = x
      <3>1. c \in Disk /\ c <= Half /\ c + Half \in Disk /\ ~(c + Half <= Half) /\ (c + Half) - Half = c
        BY <1>1
      <3> QED BY <1>3, <2>2, <3>1 DEF Holds
    <2> QED BY <2>1, <2>2
  <1> QED BY <1>4, <1>5, <1>6

LEMMA DisksFinite ==
  IsFiniteSet(Disk) /\ Cardinality(Disk) = DISKS
  <1>1. IsFiniteSet(1..DISKS) /\ Cardinality(1..DISKS) = IF 1 > DISKS THEN 0 ELSE DISKS - 1 + 1
    BY FS_Interval, DisksAssumption
  <1> QED BY <1>1, DisksAssumption DEF Disk

\* There are as many places as disks: a place is empty exactly when a disk is
\* dead, so a repaired disk finds one.
LEMMA HoleIffDead ==
  ASSUME Even, NEW m, WellPlaced(m)
  PROVE  Hole(m) <=> \E d \in Disk : ~Live(m, d)
  <1> DEFINE f == At(m)
  <1>1. /\ f \in [Disk -> Disk \cup {None}]
        /\ \A j, k \in Disk : f[j] = f[k] /\ j # k => f[j] = None
        /\ \A x : (\E k \in Disk : f[k] = x) <=> (\E c \in Column : Holds(m, c, x))
    BY AtPlaces
  <1>2. None \notin Disk
    BY DEF None, Disk
  <1>3. \A d \in Disk : Live(m, d) <=> \E k \in Disk : f[k] = d
    BY <1>1 DEF WellPlaced
  <1>4. Hole(m) <=> \E k \in Disk : f[k] = None
    BY <1>1 DEF Hole
  <1> HIDE DEF f
  <1>5. ASSUME ~Hole(m), NEW d \in Disk PROVE Live(m, d)
    <2>1. f \in Injection(Disk, Disk)
      BY <1>1, <1>4, <1>5 DEF Injection, IsInjective
    <2>2. f \in Surjection(Disk, Disk)
      BY <2>1, DisksFinite, FS_Injection
    <2> QED BY <1>3, <2>2 DEF Surjection
  <1>6. ASSUME \A d \in Disk : Live(m, d) PROVE ~Hole(m)
    <2> DEFINE g == [d \in Disk |-> CHOOSE k \in Disk : f[k] = d]
    <2>1. \A d \in Disk : g[d] \in Disk /\ f[g[d]] = d
      BY <1>3, <1>6
    <2>2. g \in [Disk -> Disk]
      BY <2>1
    <2> HIDE DEF g
    <2>3. g \in Injection(Disk, Disk)
      BY <2>1, <2>2 DEF Injection, IsInjective
    <2>4. g \in Surjection(Disk, Disk)
      BY <2>3, DisksFinite, FS_Injection
    <2>5. \A k \in Disk : \E d \in Disk : g[d] = k
      BY <2>4 DEF Surjection
    <2> QED BY <1>2, <1>4, <2>1, <2>5
  <1> QED BY <1>5, <1>6

-----------------------------------------------------------------------------
(* disk_fail_raid and disk_repaired_raid. *)

\* num_dead_disks counts the dead disks.
DeadDisks(m) == {d \in Disk : ~Live(m, d)}

Counted(m) == m.num_dead_disks = Cardinality(DeadDisks(m))

LEMMA FailedFields ==
  ASSUME Even, NEW m, WellPlaced(m), NEW d \in Disk, Live(m, d)
  PROVE  LET f == Failed(m, d)
         IN  /\ f \in Metadata
             /\ f.type = "RAID1" /\ f.reserve_disk = None
             /\ f.disk_state = [m.disk_state EXCEPT ![d] = "DEAD"]
             /\ f.num_dead_disks = (m.num_dead_disks + 1) % UintMod
             /\ \E c \in Column :
                  /\ Holds(m, c, d)
                  /\ f.copy_disks = [m.copy_disks EXCEPT ![c] = None]
                  /\ \/ m.data_disks[c] = d /\ f.data_disks = [m.data_disks EXCEPT ![c] = m.copy_disks[c]]
                     \/ m.copy_disks[c] = d /\ f.data_disks = m.data_disks
  <1> DEFINE f == Failed(m, d)
  <1> DEFINE g == [m EXCEPT !.disk_state[d] = "DEAD",
                            !.num_dead_disks = (m.num_dead_disks + 1) % UintMod]
  <1>1. PICK c \in Column : Holds(m, c, d)
    BY DEF WellPlaced
  <1>2. c \in Nat /\ d # None
    BY Halves DEF Disk, None
  <1>3. m \in Metadata /\ m.type = "RAID1" /\ m.reserve_disk = None
    BY DEF WellPlaced
  <1>4. (m.num_dead_disks + 1) % UintMod \in 0..(UintMod - 1)
    BY <1>3 DEF Even, UintAssumption, Metadata
  <1>5. /\ g \in Metadata
        /\ g.type = "RAID1" /\ g.reserve_disk = None
        /\ g.disk_state = [m.disk_state EXCEPT ![d] = "DEAD"]
        /\ g.num_dead_disks = (m.num_dead_disks + 1) % UintMod
        /\ g.data_disks = m.data_disks /\ g.copy_disks = m.copy_disks
    BY <1>3, <1>4, ZenonT(30) DEF Metadata, DiskState
  <1>6. f = TakenOut(g, d)
    BY <1>3 DEF Failed, Mirrored
  <1> HIDE DEF g, f
  <1>7. CASE m.data_disks[c] = d
    <2>1. Places(g.data_disks, d) = {c}
      BY <1>2, <1>5, <1>7, ZenonT(30) DEF Places, WellPlaced
    <2>2. f = [g EXCEPT !.data_disks[c] = g.copy_disks[c], !.copy_disks[c] = None]
      BY <1>2, <1>6, <2>1, LastOf, ZenonT(30) DEF TakenOut
    <2>3. g.copy_disks[c] \in DiskRef /\ None \in DiskRef
      BY <1>5 DEF Metadata, DiskRef
    <2>4. /\ f \in Metadata
          /\ f.type = "RAID1" /\ f.reserve_disk = None
          /\ f.disk_state = g.disk_state /\ f.num_dead_disks = g.num_dead_disks
          /\ f.data_disks = [g.data_disks EXCEPT ![c] = g.copy_disks[c]]
          /\ f.copy_disks = [g.copy_disks EXCEPT ![c] = None]
      BY <1>5, <2>2, <2>3, ZenonT(30) DEF Metadata
    <2> QED BY <1>1, <1>5, <1>7, <2>4, ZenonT(30) DEF f
  <1>8. CASE m.data_disks[c] # d
    <2>1. m.copy_disks[c] = d
      BY <1>1, <1>8 DEF Holds
    <2>2. Places(g.data_disks, d) = {}
      BY <1>2, <1>5, <2>1 DEF Places, WellPlaced
    <2>3. Places(g.copy_disks, d) = {c}
      BY <1>2, <1>5, <2>1, ZenonT(30) DEF Places, WellPlaced
    <2>4. f = [g EXCEPT !.copy_disks[c] = None]
      BY <1>2, <1>6, <2>2, <2>3, LastOf DEF TakenOut
    <2>5. None \in DiskRef
      BY DEF DiskRef
    <2>6. /\ f \in Metadata
          /\ f.type = "RAID1" /\ f.reserve_disk = None
          /\ f.disk_state = g.disk_state /\ f.num_dead_disks = g.num_dead_disks
          /\ f.data_disks = g.data_disks
          /\ f.copy_disks = [g.copy_disks EXCEPT ![c] = None]
      BY <1>5, <2>4, <2>5 DEF Metadata
    <2> QED BY <1>1, <1>5, <2>1, <2>6, ZenonT(30) DEF f
  <1> QED BY <1>7, <1>8, ZenonT(30)

\* A failure takes the disk out of its column and moves no other disk to
\* another column.
LEMMA FailedPlaced ==
  ASSUME Even, NEW m, WellPlaced(m), NEW d \in Disk, Live(m, d)
  PROVE  LET f == Failed(m, d)
         IN  /\ WellPlaced(f)
             /\ \A c \in Column, x \in Disk : Holds(f, c, x) <=> Holds(m, c, x) /\ x # d
  <1> DEFINE f == Failed(m, d)
  <1>1. /\ f \in Metadata
        /\ f.type = "RAID1" /\ f.reserve_disk = None
        /\ f.disk_state = [m.disk_state EXCEPT ![d] = "DEAD"]
    BY FailedFields
  <1>2. PICK c \in Column :
          /\ Holds(m, c, d)
          /\ f.copy_disks = [m.copy_disks EXCEPT ![c] = None]
          /\ \/ m.data_disks[c] = d /\ f.data_disks = [m.data_disks EXCEPT ![c] = m.copy_disks[c]]
             \/ m.copy_disks[c] = d /\ f.data_disks = m.data_disks
    BY FailedFields, ZenonT(30)
  <1> HIDE DEF f
  <1>3. None \notin Disk
    BY DEF None, Disk
  <1>4. /\ m \in Metadata
        /\ m.data_disks \in [Column -> Disk \cup {None}]
        /\ m.copy_disks \in [Column -> Disk \cup {None}]
        /\ \A a, e \in Column : m.data_disks[a] = m.data_disks[e] /\ a # e => m.data_disks[a] = None
        /\ \A a, e \in Column : m.copy_disks[a] = m.copy_disks[e] /\ a # e => m.copy_disks[a] = None
        /\ \A a, e \in Column : m.data_disks[a] = m.copy_disks[e] => m.data_disks[a] = None
    BY DEF WellPlaced
  <1>5. /\ f.data_disks \in [Column -> Disk \cup {None}]
        /\ f.copy_disks \in [Column -> Disk \cup {None}]
        /\ \A a \in Column : f.copy_disks[a] = IF a = c THEN None ELSE m.copy_disks[a]
        /\ \/ /\ m.data_disks[c] = d
              /\ \A a \in Column : f.data_disks[a] = IF a = c THEN m.copy_disks[c] ELSE m.data_disks[a]
           \/ /\ m.copy_disks[c] = d
              /\ \A a \in Column : f.data_disks[a] = m.data_disks[a]
    BY <1>2, <1>4
  <1>6. ASSUME NEW a \in Column, NEW x \in Disk
        PROVE  Holds(f, a, x) <=> Holds(m, a, x) /\ x # d
    BY <1>3, <1>4, <1>5 DEF Holds
  <1>7. ASSUME NEW x \in Disk
        PROVE  Live(f, x) <=> Live(m, x) /\ x # d
    BY <1>1, <1>4 DEF Live, Metadata
  <1>8. \A x \in Disk : Live(f, x) <=> \E a \in Column : Holds(f, a, x)
    BY <1>6, <1>7 DEF WellPlaced
  <1>9. \A a, e \in Column : f.data_disks[a] = f.data_disks[e] /\ a # e => f.data_disks[a] = None
    BY <1>3, <1>4, <1>5
  <1>10. \A a, e \in Column : f.copy_disks[a] = f.copy_disks[e] /\ a # e => f.copy_disks[a] = None
    BY <1>3, <1>4, <1>5
  <1>11. \A a, e \in Column : f.data_disks[a] = f.copy_disks[e] => f.data_disks[a] = None
    BY <1>3, <1>4, <1>5
  <1>12. WellPlaced(f)
    BY <1>1, <1>5, <1>8, <1>9, <1>10, <1>11 DEF WellPlaced
  <1> QED BY <1>6, <1>12 DEF f

LEMMA FailedCounted ==
  ASSUME Even, NEW m, WellPlaced(m), Counted(m), NEW d \in Disk, Live(m, d)
  PROVE  Counted(Failed(m, d)) /\ Failed(m, d).num_dead_disks = m.num_dead_disks + 1
  <1> DEFINE f == Failed(m, d)
  <1>1. /\ f.disk_state = [m.disk_state EXCEPT ![d] = "DEAD"]
        /\ f.num_dead_disks = (m.num_dead_disks + 1) % UintMod
    BY FailedFields
  <1> HIDE DEF f
  <1>2. m \in Metadata
    BY DEF WellPlaced
  <1>3. DeadDisks(f) = DeadDisks(m) \cup {d} /\ d \notin DeadDisks(m)
    BY <1>1, <1>2 DEF DeadDisks, Live, Metadata
  <1>4. DeadDisks(m) \subseteq Disk /\ DeadDisks(f) \subseteq Disk
    BY DEF DeadDisks
  <1>5. IsFiniteSet(DeadDisks(m))
    BY <1>4, DisksFinite, FS_Subset
  <1>6. Cardinality(DeadDisks(f)) <= DISKS
    BY <1>4, DisksFinite, FS_Subset
  <1>7. Cardinality(DeadDisks(f)) = Cardinality(DeadDisks(m)) + 1
    BY <1>3, <1>5, FS_AddElement, ZenonT(30)
  <1>8. Cardinality(DeadDisks(m)) \in Nat
    BY <1>5, FS_CardinalityType
  <1>9. f.num_dead_disks = m.num_dead_disks + 1
    BY <1>1, <1>6, <1>7, <1>8, DisksAssumption DEF Counted, Even, UintAssumption
  <1> QED BY <1>7, <1>9 DEF Counted, f

LEMMA RepairedFields ==
  ASSUME Even, NEW m, WellPlaced(m), NEW d \in Disk, ~Live(m, d)
  PROVE  LET f == Repaired(m, d)
         IN  /\ f \in Metadata
             /\ f.type = "RAID1" /\ f.reserve_disk = None
             /\ f.disk_state = [m.disk_state EXCEPT ![d] = "REPAIRED"]
             /\ f.num_dead_disks = (m.num_dead_disks - 1) % UintMod
             /\ \E c \in Column :
                  \/ /\ m.data_disks[c] = None
                     /\ f.data_disks = [m.data_disks EXCEPT ![c] = d]
                     /\ f.copy_disks = m.copy_disks
                  \/ /\ m.copy_disks[c] = None
                     /\ f.copy_disks = [m.copy_disks EXCEPT ![c] = d]
                     /\ f.data_disks = m.data_disks
  <1> DEFINE f == Repaired(m, d)
  <1> DEFINE g == [m EXCEPT !.disk_state[d] = "REPAIRED",
                            !.num_dead_disks = (m.num_dead_disks - 1) % UintMod]
  <1> DEFINE noData == Places(m.data_disks, None)
  <1> DEFINE noCopy == Places(m.copy_disks, None)
  <1>1. noData \subseteq Column /\ noCopy \subseteq Column /\ Column \subseteq Nat
    BY Halves DEF Places
  <1>2. noData # {} \/ noCopy # {}
    BY HoleIffDead DEF Hole, Holds, Places
  <1>3. m \in Metadata /\ m.type = "RAID1" /\ m.reserve_disk = None
    BY DEF WellPlaced
  <1>4. (m.num_dead_disks - 1) % UintMod \in 0..(UintMod - 1)
    BY <1>3, DisksAssumption DEF Even, UintAssumption, Metadata
  <1>5. /\ g \in Metadata
        /\ g.type = "RAID1" /\ g.reserve_disk = None
        /\ g.disk_state = [m.disk_state EXCEPT ![d] = "REPAIRED"]
        /\ g.num_dead_disks = (m.num_dead_disks - 1) % UintMod
        /\ g.data_disks = m.data_disks /\ g.copy_disks = m.copy_disks
    BY <1>3, <1>4, ZenonT(30) DEF Metadata, DiskState
  <1>6. f = IF noData # {} THEN [g EXCEPT !.data_disks[First(noData)] = d]
            ELSE IF noCopy # {} THEN [g EXCEPT !.copy_disks[First(noCopy)] = d]
            ELSE [g EXCEPT !.reserve_disk = d]
    BY <1>3 DEF Repaired, Mirrored
  <1>7. d \in DiskRef
    BY DEF DiskRef
  <1>8. CASE noData # {}
    <2>1. PICK c \in noData : c = First(noData)
      BY <1>1, <1>8, FirstOf
    <2>2. c \in Column /\ m.data_disks[c] = None
      BY DEF Places
    <2> HIDE DEF g, f, noData, noCopy
    <2>3. f = [g EXCEPT !.data_disks[c] = d]
      BY <1>6, <1>8, <2>1
    <2>4. /\ f \in Metadata
          /\ f.type = "RAID1" /\ f.reserve_disk = None
          /\ f.disk_state = g.disk_state /\ f.num_dead_disks = g.num_dead_disks
          /\ f.data_disks = [g.data_disks EXCEPT ![c] = d]
          /\ f.copy_disks = g.copy_disks
      BY <1>5, <1>7, <2>2, <2>3 DEF Metadata
    <2> QED BY <1>5, <2>2, <2>4 DEF f
  <1>9. CASE noData = {}
    <2>1. PICK c \in noCopy : c = First(noCopy)
      BY <1>1, <1>2, <1>9, FirstOf
    <2>2. c \in Column /\ m.copy_disks[c] = None
      BY DEF Places
    <2> HIDE DEF g, f, noData, noCopy
    <2>3. f = [g EXCEPT !.copy_disks[c] = d]
      BY <1>2, <1>6, <1>9, <2>1
    <2>4. /\ f \in Metadata
          /\ f.type = "RAID1" /\ f.reserve_disk = None
          /\ f.disk_state = g.disk_state /\ f.num_dead_disks = g.num_dead_disks
          /\ f.copy_disks = [g.copy_disks EXCEPT ![c] = d]
          /\ f.data_disks = g.data_disks
      BY <1>5, <1>7, <2>2, <2>3 DEF Metadata
    <2> QED BY <1>5, <2>2, <2>4 DEF f
  <1> QED BY <1>8, <1>9, ZenonT(30)

\* A repair fills an empty place with the disk and moves no other disk.
LEMMA RepairedPlaced ==
  ASSUME Even, NEW m, WellPlaced(m), NEW d \in Disk, ~Live(m, d)
  PROVE  LET f == Repaired(m, d)
         IN  /\ WellPlaced(f)
             /\ \A c \in Column, x \in Disk : x # d => (Holds(f, c, x) <=> Holds(m, c, x))
  <1> DEFINE f == Repaired(m, d)
  <1>1. /\ f \in Metadata
        /\ f.type = "RAID1" /\ f.reserve_disk = None
        /\ f.disk_state = [m.disk_state EXCEPT ![d] = "REPAIRED"]
    BY RepairedFields, ZenonT(30)
  <1>2. PICK c \in Column :
          \/ /\ m.data_disks[c] = None
             /\ f.data_disks = [m.data_disks EXCEPT ![c] = d]
             /\ f.copy_disks = m.copy_disks
          \/ /\ m.copy_disks[c] = None
             /\ f.copy_disks = [m.copy_disks EXCEPT ![c] = d]
             /\ f.data_disks = m.data_disks
    BY RepairedFields, ZenonT(30)
  <1> HIDE DEF f
  <1>3. None \notin Disk
    BY DEF None, Disk
  <1>4. /\ m \in Metadata
        /\ m.data_disks \in [Column -> Disk \cup {None}]
        /\ m.copy_disks \in [Column -> Disk \cup {None}]
        /\ \A a, e \in Column : m.data_disks[a] = m.data_disks[e] /\ a # e => m.data_disks[a] = None
        /\ \A a, e \in Column : m.copy_disks[a] = m.copy_disks[e] /\ a # e => m.copy_disks[a] = None
        /\ \A a, e \in Column : m.data_disks[a] = m.copy_disks[e] => m.data_disks[a] = None
        /\ \A a \in Column : m.data_disks[a] # d /\ m.copy_disks[a] # d
    BY DEF WellPlaced, Holds
  <1>5. /\ f.data_disks \in [Column -> Disk \cup {None}]
        /\ f.copy_disks \in [Column -> Disk \cup {None}]
        /\ \/ /\ m.data_disks[c] = None
              /\ \A a \in Column : f.data_disks[a] = IF a = c THEN d ELSE m.data_disks[a]
              /\ \A a \in Column : f.copy_disks[a] = m.copy_disks[a]
           \/ /\ m.copy_disks[c] = None
              /\ \A a \in Column : f.copy_disks[a] = IF a = c THEN d ELSE m.copy_disks[a]
              /\ \A a \in Column : f.data_disks[a] = m.data_disks[a]
    BY <1>2, <1>4
  <1>6. ASSUME NEW a \in Column, NEW x \in Disk
        PROVE  Holds(f, a, x) <=> Holds(m, a, x) \/ (x = d /\ a = c)
    BY <1>3, <1>4, <1>5 DEF Holds
  <1>7. ASSUME NEW x \in Disk
        PROVE  Live(f, x) <=> Live(m, x) \/ x = d
    BY <1>1, <1>4 DEF Live, Metadata
  <1>8. \A x \in Disk : Live(f, x) <=> \E a \in Column : Holds(f, a, x)
    BY <1>6, <1>7 DEF WellPlaced
  <1>9. \A a, e \in Column : f.data_disks[a] = f.data_disks[e] /\ a # e => f.data_disks[a] = None
    BY <1>3, <1>4, <1>5
  <1>10. \A a, e \in Column : f.copy_disks[a] = f.copy_disks[e] /\ a # e => f.copy_disks[a] = None
    BY <1>3, <1>4, <1>5
  <1>11. \A a, e \in Column : f.data_disks[a] = f.copy_disks[e] => f.data_disks[a] = None
    BY <1>3, <1>4, <1>5
  <1>12. WellPlaced(f)
    BY <1>1, <1>5, <1>8, <1>9, <1>10, <1>11 DEF WellPlaced
  <1> QED BY <1>6, <1>12 DEF f

LEMMA RepairedCounted ==
  ASSUME Even, NEW m, WellPlaced(m), Counted(m), NEW d \in Disk, ~Live(m, d)
  PROVE  /\ Counted(Repaired(m, d))
         /\ m.num_dead_disks \in Nat /\ Repaired(m, d).num_dead_disks = m.num_dead_disks - 1
  <1> DEFINE f == Repaired(m, d)
  <1>1. /\ f.disk_state = [m.disk_state EXCEPT ![d] = "REPAIRED"]
        /\ f.num_dead_disks = (m.num_dead_disks - 1) % UintMod
    BY RepairedFields
  <1> HIDE DEF f
  <1>2. m \in Metadata
    BY DEF WellPlaced
  <1>3. DeadDisks(f) = DeadDisks(m) \ {d} /\ d \in DeadDisks(m)
    BY <1>1, <1>2 DEF DeadDisks, Live, Metadata
  <1>4. DeadDisks(m) \subseteq Disk
    BY DEF DeadDisks
  <1>5. IsFiniteSet(DeadDisks(m)) /\ Cardinality(DeadDisks(m)) <= DISKS
    BY <1>4, DisksFinite, FS_Subset
  <1>6. IsFiniteSet(DeadDisks(f)) /\ Cardinality(DeadDisks(f)) = Cardinality(DeadDisks(m)) - 1
    BY <1>3, <1>5, FS_RemoveElement
  <1>7. Cardinality(DeadDisks(m)) \in Nat /\ Cardinality(DeadDisks(f)) \in Nat
    BY <1>5, <1>6, FS_CardinalityType
  <1>8. f.num_dead_disks = m.num_dead_disks - 1
    BY <1>1, <1>5, <1>6, <1>7, DisksAssumption DEF Counted, Even, UintAssumption
  <1> QED BY <1>6, <1>7, <1>8 DEF Counted, f

-----------------------------------------------------------------------------
(* The inductive invariant. *)

\* A disk that never failed holds what may be read of every block of its
\* column, or the value of the write in progress.
Kept ==
  \A b \in Block, x \in Disk :
    Holds(md, MirrorColumn(b), x) /\ md.disk_state[x] = "ALIVE" =>
      \/ platter[x][MirrorRow(b)] \in shadow[b]
      \/ pc = "copy" /\ req.blk = b /\ platter[x][MirrorRow(b)] = req.val

\* Between its two writes a request has put its value on the primary.
Halfway ==
  LET b == req.blk
  IN  b \in Block /\ (Primary(b) \in Disk => platter[Primary(b)][MirrorRow(b)] = req.val)

MirrorInv ==
  /\ TypeOK
  /\ WellPlaced(md) /\ Counted(md) /\ md.num_dead_disks <= MaxDead
  /\ pc # "wild" => Kept
  /\ pc = "copy" => Halfway
  /\ MirrorsAgree

\* A block lies in a column and a row, and two blocks never share both.
LEMMA BlockPlace ==
  ASSUME Even
  PROVE  /\ \A b \in Block : MirrorColumn(b) \in Column /\ MirrorRow(b) \in 1..Rows
         /\ \A a, b \in Block :
              MirrorColumn(a) = MirrorColumn(b) /\ MirrorRow(a) = MirrorRow(b) => a = b
  <1>1. Half \in Nat \ {0} /\ Column = 1..Half /\ Rows \in Nat
    BY Halves DEF Even, MirrorAssumption
  <1>2. Block = 0..(Half * Rows - 1)
    BY DEF Block, Half
  <1>3. \A b : MirrorColumn(b) = (b % Half) + 1 /\ MirrorRow(b) = (b \div Half) + 1
    BY DEF MirrorColumn, MirrorRow, Half
  <1>4. ASSUME NEW b \in Block
        PROVE  /\ b % Half \in 0..(Half - 1) /\ b \div Half \in 0..(Rows - 1)
               /\ b = Half * (b \div Half) + (b % Half)
    <2>1. Half * Rows \in Int
      BY <1>1
    <2>2. b \in Int /\ 0 <= b /\ b < Half * Rows
      BY <1>2, <2>1
    <2> DEFINE q == b \div Half
    <2>3. b % Half \in 0..(Half - 1) /\ q \in Int /\ b = Half * q + (b % Half)
      BY <1>1, <2>2, DivMod, ZenonT(30)
    <2> HIDE DEF q
    <2>4. ASSUME q < 0 PROVE FALSE
      <3>1. Half * (q + 1) <= Half * 0
        BY <1>1, <2>3, <2>4, ProductOrder
      <3>2. Half * (q + 1) = Half * q + Half /\ Half * 0 = 0
        BY <1>1, <2>3
      <3> QED BY <1>1, <2>2, <2>3, <3>1, <3>2
    <2>5. ASSUME q >= Rows PROVE FALSE
      <3>1. Half * Rows <= Half * q
        BY <1>1, <2>3, <2>5, ProductOrder
      <3> QED BY <1>1, <2>1, <2>2, <2>3, <3>1
    <2>6. q \in 0..(Rows - 1)
      BY <1>1, <2>3, <2>4, <2>5
    <2> QED BY <2>3, <2>6 DEF q
  <1>5. ASSUME NEW b \in Block PROVE MirrorColumn(b) \in Column /\ MirrorRow(b) \in 1..Rows
    <2>1. \A h \in 0..(Half - 1), q \in 0..(Rows - 1) : h + 1 \in 1..Half /\ q + 1 \in 1..Rows
      BY <1>1
    <2>2. MirrorColumn(b) \in 1..Half /\ MirrorRow(b) \in 1..Rows
      BY <1>3, <1>4, <2>1
    <2> QED BY <1>1, <2>2
  <1>6. ASSUME NEW a \in Block, NEW b \in Block,
               MirrorColumn(a) = MirrorColumn(b), MirrorRow(a) = MirrorRow(b)
        PROVE  a = b
    <2>1. a % Half = b % Half /\ a \div Half = b \div Half
      BY <1>1, <1>3, <1>4, <1>6, SMTT(30)
    <2> QED BY <1>4, <2>1
  <1> QED BY <1>5, <1>6

\* The disks of a column are live, no other column has them, and only a
\* missing one is -1.
LEMMA InColumn ==
  ASSUME Even, WellPlaced(md)
  PROVE  /\ \A b \in Block : /\ Primary(b) \in Disk \cup {None} /\ Copy(b) \in Disk \cup {None}
                             /\ Primary(b) \in Disk => ~Dead(Primary(b))
                             /\ Copy(b) \in Disk => ~Dead(Copy(b))
                             /\ Primary(b) = Copy(b) => Primary(b) = None
         /\ \A b \in Block, x \in Disk :
              Holds(md, MirrorColumn(b), x) <=> x = Primary(b) \/ x = Copy(b)
         /\ \A a, b \in Block, x \in Disk :
              Holds(md, MirrorColumn(a), x) /\ Holds(md, MirrorColumn(b), x)
                => MirrorColumn(a) = MirrorColumn(b)
  <1>1. None \notin Disk
    BY DEF None, Disk
  <1>2. \A b \in Block : MirrorColumn(b) \in Column
    BY BlockPlace
  <1>3. ASSUME NEW b \in Block
        PROVE  /\ Primary(b) \in Disk \cup {None} /\ Copy(b) \in Disk \cup {None}
               /\ Primary(b) = Copy(b) => Primary(b) = None
               /\ \A x \in Disk : Holds(md, MirrorColumn(b), x) <=> x = Primary(b) \/ x = Copy(b)
    BY <1>2 DEF WellPlaced, Primary, Copy, Holds
  <1>4. ASSUME NEW b \in Block, NEW x \in Disk, x = Primary(b) \/ x = Copy(b) PROVE ~Dead(x)
    BY <1>1, <1>2, <1>3, <1>4 DEF WellPlaced, Dead
  <1>5. ASSUME NEW a \in Column, NEW c \in Column, NEW x \in Disk, Holds(md, a, x), Holds(md, c, x)
        PROVE  a = c
    BY <1>1, <1>5 DEF WellPlaced, Holds
  <1> QED BY <1>2, <1>3, <1>4, <1>5

\* A write to one disk of block a's column leaves every other block alone.
LEMMA OtherBlocks ==
  ASSUME Even, WellPlaced(md), TypeOK,
         NEW a \in Block, NEW y \in Disk, Holds(md, MirrorColumn(a), y), NEW v \in Value,
         platter' = [platter EXCEPT ![y][MirrorRow(a)] = v]
  PROVE  /\ platter' \in [Disk -> [1..Rows -> Value]]
         /\ platter'[y][MirrorRow(a)] = v
         /\ \A x \in Disk : x # y => platter'[x] = platter[x]
         /\ \A b \in Block, x \in Disk :
              b # a /\ Holds(md, MirrorColumn(b), x)
                => platter'[x][MirrorRow(b)] = platter[x][MirrorRow(b)]
  <1>1. \A b \in Block : MirrorRow(b) \in 1..Rows
    BY BlockPlace
  <1>2. platter \in [Disk -> [1..Rows -> Value]]
    BY DEF TypeOK
  <1>3. /\ platter' \in [Disk -> [1..Rows -> Value]]
        /\ \A x \in Disk, r \in 1..Rows :
             platter'[x][r] = IF x = y /\ r = MirrorRow(a) THEN v ELSE platter[x][r]
        /\ \A x \in Disk : x # y => platter'[x] = platter[x]
    BY <1>1, <1>2, ZenonT(30)
  <1>4. ASSUME NEW b \in Block, NEW x \in Disk, b # a, Holds(md, MirrorColumn(b), x)
        PROVE  ~(x = y /\ MirrorRow(b) = MirrorRow(a))
    BY <1>4, InColumn, BlockPlace
  <1> QED BY <1>1, <1>3, <1>4

-----------------------------------------------------------------------------
(* One step per action. *)

LEMMA InitMirror ==
  ASSUME Even, Init
  PROVE  MirrorInv
  <1>1. Half \in Nat \ {0} /\ DISKS = 2 * Half /\ Column = 1..Half /\ Disk = 1..(2 * Half)
    BY Halves
  <1>2. DISKS % 2 = 0 /\ DISKS \div 2 = Half
    BY DEF Even, Half
  <1>3. md = [raid_initialized |-> TRUE, type |-> "RAID1", num_dead_disks |-> 0,
              disk_state |-> [d \in Disk |-> "ALIVE"],
              data_disks |-> [c \in Column |-> c],
              copy_disks |-> [c \in Column |-> c + Half],
              reserve_disk |-> None]
    BY <1>2, ZenonT(30) DEF Init, Initialized, Zero, Mirrored
  <1>4. \A c \in Column : c \in Disk /\ c + Half \in Disk /\ c \in DiskRef /\ c + Half \in DiskRef
    BY <1>1 DEF DiskRef
  <1>5. 0 \in 0..(UintMod - 1)
    BY DisksAssumption DEF Even, UintAssumption
  <1>6. md \in Metadata
    BY <1>3, <1>4, <1>5 DEF Metadata, RaidType, DiskState, DiskRef
  <1>7. \A d \in Disk : Live(md, d)
    BY <1>3 DEF Live
  <1>8. \A d \in Disk : \E c \in Column : Holds(md, c, d)
    <2>1. ASSUME NEW d \in Disk PROVE \E c \in Column : d = c \/ d = c + Half
      <3>1. CASE d <= Half
        BY <1>1, <3>1
      <3>2. CASE ~(d <= Half)
        <4>1. d - Half \in Column /\ d = (d - Half) + Half
          BY <1>1, <3>2
        <4> QED BY <4>1
      <3> QED BY <3>1, <3>2
    <2> QED BY <1>3, <2>1 DEF Holds
  <1>9. WellPlaced(md)
    <2>1. \A c, e \in Column : (c + Half = e + Half => c = e) /\ c # e + Half
      BY <1>1
    <2> QED BY <1>3, <1>4, <1>6, <1>7, <1>8, <2>1, ZenonT(30) DEF WellPlaced
  <1>10. Counted(md) /\ md.num_dead_disks = 0
    <2>1. DeadDisks(md) = {}
      BY <1>7 DEF DeadDisks
    <2> QED BY <1>3, <2>1, FS_EmptySet, ZenonT(30) DEF Counted
  <1>11. \A b \in Block : MirrorRow(b) \in 1..Rows
    BY BlockPlace
  <1>12. TypeOK
    BY <1>6 DEF TypeOK, Init, NoRequest, Even, MirrorAssumption
  <1>13. \A b \in Block, x \in Disk : platter[x][MirrorRow(b)] = Fresh /\ shadow[b] = {Fresh}
    BY <1>11 DEF Init
  <1>14. Kept
    BY <1>13 DEF Kept
  <1>15. MirrorsAgree
    BY <1>13 DEF MirrorsAgree
  <1> QED
    BY <1>9, <1>10, <1>12, <1>14, <1>15 DEF MirrorInv, Init, Even, MirrorAssumption

LEMMA ReadStep ==
  ASSUME Even, MirrorInv, NEW b \in Block, Read(b)
  PROVE  MirrorInv'
  <1>1. UNCHANGED <<md, platter, req, shadow>> /\ pc = "idle" /\ pc' \in {"idle", "wild"}
    BY DEF Read
  <1>2. TypeOK'
    BY <1>1 DEF MirrorInv, TypeOK
  <1>3. (WellPlaced(md) /\ Counted(md) /\ md.num_dead_disks <= MaxDead)'
    BY <1>1 DEF MirrorInv
  <1>4. Kept'
    BY <1>1 DEF MirrorInv, Kept
  <1>5. MirrorsAgree'
    BY <1>1 DEF MirrorInv, MirrorsAgree, Primary, Copy
  <1> QED BY <1>1, <1>2, <1>3, <1>4, <1>5 DEF MirrorInv

LEMMA WritePrimaryStep ==
  ASSUME Even, MirrorInv, NEW a \in Block, NEW v \in Value, WritePrimary(a, v)
  PROVE  MirrorInv'
  <1>1. /\ UNCHANGED <<md, shadow>> /\ pc = "idle" /\ pc' \in {"copy", "wild"}
        /\ req' = [blk |-> a, val |-> v]
    BY DEF WritePrimary
  <1>2. TypeOK /\ WellPlaced(md) /\ Kept /\ MirrorsAgree
    BY <1>1 DEF MirrorInv
  <1>3. /\ platter' \in [Disk -> [1..Rows -> Value]]
        /\ pc' = "copy" /\ Primary(a) \in Disk => platter'[Primary(a)][MirrorRow(a)] = v
        /\ \A x \in Disk : platter'[x][MirrorRow(a)] \in {platter[x][MirrorRow(a)], v}
        /\ \A b \in Block, x \in Disk :
             b # a /\ Holds(md, MirrorColumn(b), x)
               => platter'[x][MirrorRow(b)] = platter[x][MirrorRow(b)]
    <2>1. CASE platter' = platter /\ (pc' = "copy" => Primary(a) \notin Disk)
      BY <1>2, <2>1 DEF TypeOK
    <2>2. CASE Primary(a) \in Disk /\ platter' = [platter EXCEPT ![Primary(a)][MirrorRow(a)] = v]
      <3>1. Holds(md, MirrorColumn(a), Primary(a))
        BY DEF Holds, Primary
      <3> DEFINE y == Primary(a)
      <3>2. /\ platter' \in [Disk -> [1..Rows -> Value]]
            /\ platter'[y][MirrorRow(a)] = v
            /\ \A x \in Disk : x # y => platter'[x] = platter[x]
            /\ \A b \in Block, x \in Disk :
                 b # a /\ Holds(md, MirrorColumn(b), x)
                   => platter'[x][MirrorRow(b)] = platter[x][MirrorRow(b)]
        <4> HIDE DEF y
        <4> QED BY <1>2, <2>2, <3>1, OtherBlocks, ZenonT(30) DEF y
      <3> QED BY <2>2, <3>2
    <2> QED BY <1>2, <2>1, <2>2, InColumn DEF WritePrimary
  <1>4. TypeOK'
    BY <1>1, <1>2, <1>3 DEF TypeOK
  <1>5. (WellPlaced(md) /\ Counted(md) /\ md.num_dead_disks <= MaxDead)'
    BY <1>1 DEF MirrorInv
  <1>6. pc' = "copy" => Kept'
    BY <1>1, <1>2, <1>3 DEF Kept
  <1>7. pc' = "copy" => Halfway'
    BY <1>1, <1>3 DEF Halfway, Primary
  <1>8. MirrorsAgree'
    <2>1. \A b \in Block : Primary(b)' = Primary(b) /\ Copy(b)' = Copy(b)
      BY <1>1 DEF Primary, Copy
    <2>2. ASSUME NEW b \in Block, b # a, {Primary(b), Copy(b)} \subseteq Disk
          PROVE  /\ platter'[Primary(b)][MirrorRow(b)] = platter[Primary(b)][MirrorRow(b)]
                 /\ platter'[Copy(b)][MirrorRow(b)] = platter[Copy(b)][MirrorRow(b)]
      BY <1>2, <1>3, <2>2, InColumn
    <2> QED BY <1>1, <1>2, <2>1, <2>2 DEF MirrorsAgree
  <1> QED BY <1>1, <1>4, <1>5, <1>6, <1>7, <1>8 DEF MirrorInv

LEMMA WriteCopyStep ==
  ASSUME Even, MirrorInv, WriteCopy
  PROVE  MirrorInv'
  <1>1. /\ UNCHANGED md /\ pc = "copy" /\ pc' \in {"idle", "wild"}
        /\ TypeOK /\ WellPlaced(md) /\ Kept /\ Halfway /\ MirrorsAgree
    BY DEF WriteCopy, MirrorInv
  <1>2. PICK a \in Block : a = req.blk
    BY <1>1 DEF Halfway
  <1>3. PICK v \in Value : v = req.val
    BY <1>1 DEF TypeOK
  <1>4. (WellPlaced(md) /\ Counted(md) /\ md.num_dead_disks <= MaxDead)'
    BY <1>1 DEF MirrorInv
  <1>5. \A b \in Block : Primary(b)' = Primary(b) /\ Copy(b)' = Copy(b)
    BY <1>1 DEF Primary, Copy
  <1>6. CASE pc' = "wild" /\ UNCHANGED <<platter, req, shadow>>
    <2>1. TypeOK'
      BY <1>1, <1>6 DEF TypeOK
    <2>2. MirrorsAgree'
      BY <1>1, <1>5, <1>6 DEF MirrorsAgree
    <2> QED BY <1>4, <1>6, <2>1, <2>2 DEF MirrorInv
  <1>7. CASE /\ platter' = IF Dead(Copy(a)) THEN platter
                           ELSE [platter EXCEPT ![Copy(a)][MirrorRow(a)] = v]
             /\ shadow' = [shadow EXCEPT ![a] = {v}]
             /\ req' = NoRequest
             /\ pc' = "idle"
             /\ Dead(Copy(a)) \/ Copy(a) # None
    <2>1. /\ platter' \in [Disk -> [1..Rows -> Value]]
          /\ \A x \in Disk : Holds(md, MirrorColumn(a), x) => platter'[x][MirrorRow(a)] = v
          /\ \A b \in Block, x \in Disk :
               b # a /\ Holds(md, MirrorColumn(b), x)
                 => platter'[x][MirrorRow(b)] = platter[x][MirrorRow(b)]
      <3>1. Primary(a) \in Disk => platter[Primary(a)][MirrorRow(a)] = v
        BY <1>1, <1>2, <1>3 DEF Halfway
      <3>2. CASE Dead(Copy(a))
        <4>1. Copy(a) \notin Disk
          BY <1>1, <3>2, InColumn
        <4>2. \A x \in Disk : Holds(md, MirrorColumn(a), x) => x = Primary(a)
          BY <1>1, <4>1, InColumn
        <4> QED BY <1>1, <1>7, <3>1, <3>2, <4>2 DEF TypeOK
      <3>3. CASE ~Dead(Copy(a))
        <4> DEFINE y == Copy(a)
        <4>1. y \in Disk /\ Holds(md, MirrorColumn(a), y)
          BY <1>1, <1>7, <3>3, InColumn
        <4>2. platter' = [platter EXCEPT ![y][MirrorRow(a)] = v]
          BY <1>7, <3>3
        <4>3. \A x \in Disk : Holds(md, MirrorColumn(a), x) => x = Primary(a) \/ x = y
          BY <1>1, InColumn
        <4> HIDE DEF y
        <4>4. /\ platter' \in [Disk -> [1..Rows -> Value]]
              /\ platter'[y][MirrorRow(a)] = v
              /\ \A x \in Disk : x # y => platter'[x] = platter[x]
              /\ \A b \in Block, x \in Disk :
                   b # a /\ Holds(md, MirrorColumn(b), x)
                     => platter'[x][MirrorRow(b)] = platter[x][MirrorRow(b)]
          BY <1>1, <4>1, <4>2, OtherBlocks, ZenonT(30)
        <4> QED BY <3>1, <4>3, <4>4
      <3> QED BY <3>2, <3>3
    <2>2. shadow' \in [Block -> SUBSET Value] /\ shadow'[a] = {v}
          /\ \A b \in Block : b # a => shadow'[b] = shadow[b]
      BY <1>1, <1>7 DEF TypeOK
    <2>3. TypeOK'
      BY <1>1, <1>7, <2>1, <2>2 DEF TypeOK, NoRequest, Even, MirrorAssumption
    <2>4. Kept'
      <3>1. ASSUME NEW b \in Block, NEW x \in Disk, Holds(md, MirrorColumn(b), x),
                   md.disk_state[x] = "ALIVE"
            PROVE  platter'[x][MirrorRow(b)] \in shadow'[b]
        <4>1. CASE b = a
          BY <2>1, <2>2, <3>1, <4>1
        <4>2. CASE b # a
          <5>1. platter[x][MirrorRow(b)] \in shadow[b]
            BY <1>2, <3>1, <1>1, <4>2 DEF Kept
          <5> QED BY <2>1, <2>2, <3>1, <4>2, <5>1
        <4> QED BY <4>1, <4>2
      <3> QED BY <1>1, <3>1 DEF Kept
    <2>5. MirrorsAgree'
      <3>1. ASSUME NEW b \in Block, {Primary(b), Copy(b)} \subseteq Disk, b # a
            PROVE  /\ platter'[Primary(b)][MirrorRow(b)] = platter[Primary(b)][MirrorRow(b)]
                   /\ platter'[Copy(b)][MirrorRow(b)] = platter[Copy(b)][MirrorRow(b)]
        BY <1>1, <2>1, <3>1, InColumn
      <3>2. ASSUME {Primary(a), Copy(a)} \subseteq Disk
            PROVE  platter'[Primary(a)][MirrorRow(a)] = platter'[Copy(a)][MirrorRow(a)]
        BY <1>1, <2>1, <3>2, InColumn
      <3>3. ASSUME NEW b \in Block, b # a, {Primary(b), Copy(b)} \subseteq Disk,
                   md.disk_state[Primary(b)] = "ALIVE", md.disk_state[Copy(b)] = "ALIVE"
            PROVE  \/ platter'[Primary(b)][MirrorRow(b)] = platter'[Copy(b)][MirrorRow(b)]
                   \/ /\ Crashes
                      /\ {platter'[Primary(b)][MirrorRow(b)], platter'[Copy(b)][MirrorRow(b)]}
                           \subseteq shadow'[b]
        <4>1. \/ platter[Primary(b)][MirrorRow(b)] = platter[Copy(b)][MirrorRow(b)]
              \/ /\ Crashes
                 /\ {platter[Primary(b)][MirrorRow(b)], platter[Copy(b)][MirrorRow(b)]}
                      \subseteq shadow[b]
          BY <1>1, <1>2, <3>3 DEF MirrorsAgree
        <4> QED BY <2>2, <3>1, <3>3, <4>1
      <3> QED BY <1>1, <1>5, <3>2, <3>3 DEF MirrorsAgree
    <2> QED BY <1>4, <1>7, <2>3, <2>4, <2>5 DEF MirrorInv
  <1> QED BY <1>2, <1>3, <1>6, <1>7 DEF WriteCopy

\* Failures and repairs: whoever is in a column and never failed was in it.
LEMMA SameColumn ==
  ASSUME Even, MirrorInv, pc = "idle", UNCHANGED <<platter, pc, req, shadow>>,
         WellPlaced(md)', Counted(md)', (md.num_dead_disks <= MaxDead)',
         \A c \in Column, x \in Disk :
           Holds(md', c, x) /\ md'.disk_state[x] = "ALIVE"
             => Holds(md, c, x) /\ md.disk_state[x] = "ALIVE"
  PROVE  MirrorInv'
  <1>1. TypeOK'
    BY DEF MirrorInv, TypeOK, WellPlaced
  <1>2. \A b \in Block : MirrorColumn(b) \in Column
    BY BlockPlace
  <1>3. Kept'
    BY <1>2 DEF MirrorInv, Kept
  <1>4. MirrorsAgree'
    <2> SUFFICES ASSUME NEW b \in Block, NEW p \in Disk, NEW c \in Disk,
                        p = Primary(b)', c = Copy(b)',
                        md'.disk_state[p] = "ALIVE", md'.disk_state[c] = "ALIVE"
                 PROVE  \/ platter[p][MirrorRow(b)] = platter[c][MirrorRow(b)]
                        \/ Crashes /\ {platter[p][MirrorRow(b)], platter[c][MirrorRow(b)]} \subseteq shadow[b]
      BY DEF MirrorsAgree
    <2>1. Holds(md', MirrorColumn(b), p) /\ Holds(md', MirrorColumn(b), c)
      BY DEF Holds, Primary, Copy
    <2>2. p # c
      BY <1>2, SMTT(30) DEF WellPlaced, Primary, Copy, None, Disk
    <2>3. /\ Holds(md, MirrorColumn(b), p) /\ md.disk_state[p] = "ALIVE"
          /\ Holds(md, MirrorColumn(b), c) /\ md.disk_state[c] = "ALIVE"
      BY <1>2, <2>1
    <2>4. (p = Primary(b) /\ c = Copy(b)) \/ (c = Primary(b) /\ p = Copy(b))
      BY <2>2, <2>3 DEF Holds, Primary, Copy
    <2> QED BY <2>3, <2>4 DEF MirrorInv, MirrorsAgree
  <1> QED BY <1>1, <1>3, <1>4 DEF MirrorInv

LEMMA DiskFailStep ==
  ASSUME Even, MirrorInv, NEW d \in Disk, DiskFailRaid(d)
  PROVE  MirrorInv'
  <1>1. /\ UNCHANGED <<platter, pc, req, shadow>> /\ pc = "idle"
        /\ md' = Failed(md, d) /\ Live(md, d) /\ md.num_dead_disks < MaxDead
    BY DEF DiskFailRaid
  <1>2. WellPlaced(md) /\ Counted(md) /\ MaxDead \in Nat /\ md.num_dead_disks \in Nat
    BY DEF MirrorInv, Even, MirrorAssumption, TypeOK, Metadata
  <1>3. /\ WellPlaced(Failed(md, d)) /\ Counted(Failed(md, d))
        /\ \A c \in Column, x \in Disk : Holds(Failed(md, d), c, x) <=> Holds(md, c, x) /\ x # d
        /\ Failed(md, d).num_dead_disks = md.num_dead_disks + 1
        /\ Failed(md, d).disk_state = [md.disk_state EXCEPT ![d] = "DEAD"]
    BY <1>1, <1>2, FailedPlaced, FailedCounted, FailedFields, ZenonT(30)
  <1>4. WellPlaced(md)' /\ Counted(md)'
    BY <1>1, <1>3
  <1>5. (md.num_dead_disks <= MaxDead)'
    BY <1>1, <1>2, <1>3
  <1>6. \A c \in Column, x \in Disk :
           Holds(md', c, x) /\ md'.disk_state[x] = "ALIVE"
             => Holds(md, c, x) /\ md.disk_state[x] = "ALIVE"
    BY <1>1, <1>2, <1>3 DEF WellPlaced, Metadata
  <1> QED BY <1>1, <1>4, <1>5, <1>6, SameColumn

LEMMA DiskRepairedStep ==
  ASSUME Even, MirrorInv, NEW d \in Disk, DiskRepairedRaid(d)
  PROVE  MirrorInv'
  <1>1. /\ UNCHANGED <<platter, pc, req, shadow>> /\ pc = "idle"
        /\ md' = Repaired(md, d) /\ ~Live(md, d)
    BY DEF DiskRepairedRaid
  <1>2. WellPlaced(md) /\ Counted(md) /\ MaxDead \in Nat /\ md.num_dead_disks <= MaxDead
    BY DEF MirrorInv, Even, MirrorAssumption
  <1>3. /\ WellPlaced(Repaired(md, d)) /\ Counted(Repaired(md, d))
        /\ \A c \in Column, x \in Disk : x # d => (Holds(Repaired(md, d), c, x) <=> Holds(md, c, x))
        /\ md.num_dead_disks \in Nat /\ Repaired(md, d).num_dead_disks = md.num_dead_disks - 1
        /\ Repaired(md, d).disk_state = [md.disk_state EXCEPT ![d] = "REPAIRED"]
    BY <1>1, <1>2, RepairedPlaced, RepairedCounted, RepairedFields
  <1>4. WellPlaced(md)' /\ Counted(md)'
    BY <1>1, <1>3
  <1>5. (md.num_dead_disks <= MaxDead)'
    BY <1>1, <1>2, <1>3
  <1>6. \A c \in Column, x \in Disk :
           Holds(md', c, x) /\ md'.disk_state[x] = "ALIVE"
             => Holds(md, c, x) /\ md.disk_state[x] = "ALIVE"
    BY <1>1, <1>2, <1>3 DEF WellPlaced, Metadata
  <1> QED BY <1>1, <1>4, <1>5, <1>6, SameColumn

LEMMA CrashStep ==
  ASSUME Even, MirrorInv, Crash
  PROVE  MirrorInv'
  <1>1. /\ UNCHANGED <<md, platter>> /\ pc \in {"idle", "copy"} /\ pc' = "idle"
        /\ req' = NoRequest /\ Crashes
        /\ TypeOK /\ Kept /\ MirrorsAgree /\ WellPlaced(md)
    BY DEF Crash, MirrorInv
  <1>2. pc = "copy" => req.blk \in Block /\ req.val \in Value
    BY <1>1 DEF MirrorInv, Halfway, TypeOK
  <1>3. /\ shadow' \in [Block -> SUBSET Value]
        /\ \A b \in Block : shadow[b] \subseteq shadow'[b]
        /\ pc = "copy" => req.val \in shadow'[req.blk]
    <2>1. CASE pc = "copy"
      <3>1. shadow' = [shadow EXCEPT ![req.blk] = shadow[req.blk] \cup {req.val}]
        BY <2>1 DEF Crash
      <3> QED BY <1>1, <1>2, <2>1, <3>1 DEF TypeOK
    <2>2. CASE pc = "idle"
      BY <1>1, <2>2 DEF TypeOK, Crash
    <2> QED BY <1>1, <2>1, <2>2
  <1>4. TypeOK'
    BY <1>1, <1>3 DEF TypeOK, NoRequest, Even, MirrorAssumption
  <1>5. (WellPlaced(md) /\ Counted(md) /\ md.num_dead_disks <= MaxDead)'
    BY <1>1 DEF MirrorInv
  <1>6. \A b \in Block, x \in Disk :
          Holds(md, MirrorColumn(b), x) /\ md.disk_state[x] = "ALIVE"
            => platter[x][MirrorRow(b)] \in shadow'[b]
    BY <1>1, <1>3 DEF Kept
  <1>7. Kept'
    BY <1>1, <1>6 DEF Kept
  <1>8. MirrorsAgree'
    <2>1. \A b \in Block : Primary(b)' = Primary(b) /\ Copy(b)' = Copy(b)
      BY <1>1 DEF Primary, Copy
    <2>2. ASSUME NEW b \in Block, {Primary(b), Copy(b)} \subseteq Disk,
                 md.disk_state[Primary(b)] = "ALIVE", md.disk_state[Copy(b)] = "ALIVE"
          PROVE  {platter[Primary(b)][MirrorRow(b)], platter[Copy(b)][MirrorRow(b)]} \subseteq shadow'[b]
      <3>1. /\ Holds(md, MirrorColumn(b), Primary(b))
            /\ Holds(md, MirrorColumn(b), Copy(b))
        BY <1>1, <2>2, InColumn
      <3> QED BY <1>6, <2>2, <3>1
    <2> QED BY <1>1, <2>1, <2>2 DEF MirrorsAgree
  <1> QED BY <1>1, <1>4, <1>5, <1>7, <1>8 DEF MirrorInv

LEMMA MirrorInvariant ==
  ASSUME Even
  PROVE  Spec => []MirrorInv
  <1>1. Init => MirrorInv
    BY InitMirror
  <1>2. MirrorInv /\ [Next]_vars => MirrorInv'
    <2> SUFFICES ASSUME MirrorInv, [Next]_vars PROVE MirrorInv'
      OBVIOUS
    <2>1. CASE UNCHANGED vars
      <3>1. UNCHANGED <<md, platter, pc, req, shadow>>
        BY <2>1 DEF vars
      <3>2. TypeOK' /\ Kept' = Kept /\ Halfway' = Halfway /\ MirrorsAgree'
        BY <3>1, ZenonT(30) DEF MirrorInv, TypeOK, Kept, Halfway, MirrorsAgree, Primary, Copy
      <3> QED BY <3>1, <3>2 DEF MirrorInv
    <2> QED BY <2>1, ReadStep, WritePrimaryStep, WriteCopyStep, DiskFailStep,
               DiskRepairedStep, CrashStep DEF Next
  <1> QED BY <1>1, <1>2, PTL DEF Spec

-----------------------------------------------------------------------------
(* The theorems. *)

\* A read that a never-failed disk serves returns what was last written, for
\* any number of failures, repairs and reboots (read_raid1, disk_fail_raid,
\* disk_repaired_raid).
THEOREM MirrorHealthyReads ==
  ASSUME Even
  PROVE  Spec => []HealthyReads
  <1>1. MirrorInv => HealthyReads
    <2> SUFFICES ASSUME MirrorInv, pc = "idle", NEW b \in Block, Readable(b),
                        md.disk_state[Source(b)] = "ALIVE"
                 PROVE  ReadValue(b) \in shadow[b]
      BY DEF HealthyReads
    <2>1. Source(b) \in Disk
      BY DEF Readable
    <2>2. Source(b) \in {Primary(b), Copy(b), 0} /\ 0 \notin Disk
      BY DEF Source, Disk
    <2>3. Holds(md, MirrorColumn(b), Source(b))
      BY <2>1, <2>2 DEF Holds, Primary, Copy
    <2> QED BY <2>1, <2>3 DEF MirrorInv, Kept, ReadValue
  <1> QED BY <1>1, MirrorInvariant, PTL

\* Two disks of a column that never failed hold the same data outside a write
\* in progress or cut off by a reboot (write_raid1).
THEOREM MirrorsStayEqual ==
  ASSUME Even
  PROVE  Spec => []MirrorsAgree
  <1>1. MirrorInv => MirrorsAgree
    BY DEF MirrorInv
  <1> QED BY <1>1, MirrorInvariant, PTL

\* A column with a primary can be read (the promotion in disk_fail_raid).
THEOREM SurvivorsServe ==
  ASSUME Even
  PROVE  Spec => []SurvivorServes
  <1>1. MirrorInv => SurvivorServes
    <2> SUFFICES ASSUME MirrorInv, NEW b \in Block, Primary(b) # None PROVE Readable(b)
      BY DEF SurvivorServes
    <2>1. Primary(b) \in Disk /\ ~Dead(Primary(b))
      BY InColumn DEF MirrorInv
    <2> QED BY <2>1 DEF Readable, Source
  <1> QED BY <1>1, MirrorInvariant, PTL

\* While at most one disk is dead at a time, disk -1 is never addressed: the
\* count of dead disks, which is what disk_state[-2] reads, is then 1 whenever
\* a place is empty (read_raid1, write_raid1).
THEOREM NoWildAccess ==
  ASSUME Even, MaxDead <= 1
  PROVE  Spec => []NoWildDisk
  <1>1. MirrorInv => Dead(None) \/ ~Hole(md)
    <2> SUFFICES ASSUME MirrorInv, Hole(md) PROVE md.num_dead_disks = 1
      BY DEF Dead
    <2>1. DeadDisks(md) # {}
      BY HoleIffDead DEF MirrorInv, DeadDisks
    <2>2. IsFiniteSet(DeadDisks(md))
      BY DisksFinite, FS_Subset DEF DeadDisks
    <2>3. Cardinality(DeadDisks(md)) # 0 /\ Cardinality(DeadDisks(md)) \in Nat
      BY <2>1, <2>2, FS_EmptySet, FS_CardinalityType
    <2> QED BY <2>3 DEF MirrorInv, Counted, Even, MirrorAssumption
  <1>2. MirrorInv => \A b \in Block :
          (Primary(b) = None => Dead(Primary(b))) /\ (Copy(b) = None => Dead(Copy(b)))
    <2>1. \A b \in Block : MirrorColumn(b) \in Column
      BY BlockPlace
    <2> QED BY <1>1, <2>1 DEF Hole, Holds, Primary, Copy
  <1>3. Init => NoWildDisk
    BY DEF Init, NoWildDisk
  <1>4. MirrorInv /\ NoWildDisk /\ [Next]_vars => NoWildDisk'
    <2> SUFFICES ASSUME MirrorInv, NoWildDisk, [Next]_vars PROVE NoWildDisk'
      OBVIOUS
    <2>1. ASSUME NEW b \in Block, Read(b) PROVE NoWildDisk'
      <3>1. Source(b) # None
        BY <1>2 DEF Source, None
      <3> QED BY <2>1, <3>1 DEF Read, NoWildDisk
    <2>2. ASSUME NEW b \in Block, NEW v \in Value, WritePrimary(b, v) PROVE NoWildDisk'
      BY <1>2, <2>2 DEF WritePrimary, NoWildDisk
    <2>3. ASSUME WriteCopy PROVE NoWildDisk'
      <3>1. req.blk \in Block
        BY <2>3 DEF MirrorInv, Halfway, WriteCopy
      <3> QED BY <1>2, <2>3, <3>1 DEF WriteCopy, NoWildDisk
    <2>4. ASSUME NEW d \in Disk, DiskFailRaid(d) \/ DiskRepairedRaid(d) PROVE NoWildDisk'
      BY <2>4 DEF DiskFailRaid, DiskRepairedRaid, NoWildDisk
    <2>5. ASSUME Crash PROVE NoWildDisk'
      BY <2>5 DEF Crash, NoWildDisk
    <2>6. CASE UNCHANGED vars
      BY <2>6 DEF vars, NoWildDisk
    <2> QED BY <2>1, <2>2, <2>3, <2>4, <2>5, <2>6 DEF Next
  <1> QED BY <1>3, <1>4, MirrorInvariant, PTL DEF Spec

=============================================================================

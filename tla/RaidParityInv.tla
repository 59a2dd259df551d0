--------------------------- MODULE RaidParityInv ----------------------------
(***************************************************************************)
(* The address arithmetic of RaidLayout, the exclusive or of blocks, the   *)
(* type correctness of RaidParity and its inductive invariant, for every   *)
(* number of disks, stripes and bits: no two blocks share a place, and     *)
(* data never lies on the parity block of its stripe.                      *)
(***************************************************************************)
EXTENDS RaidParity, FiniteSetTheorems, TLAPS

-----------------------------------------------------------------------------
(* Places of blocks. *)

\* Division with remainder.
LEMMA DivMod ==
  ASSUME NEW a \in Int, NEW n \in Nat \ {0}
  PROVE  /\ a % n \in 0..(n - 1)
         /\ a \div n \in Int
         /\ a = n * (a \div n) + (a % n)
  OBVIOUS

\* The order of products with a positive factor.
LEMMA ProductOrder ==
  ASSUME NEW n \in Nat \ {0}, NEW x \in Int, NEW y \in Int, x <= y
  PROVE  n * x <= n * y
  OBVIOUS

\* Quotient and remainder are determined by the equation.
LEMMA DivModUnique ==
  ASSUME NEW n \in Nat \ {0}, NEW a \in Int, NEW q \in Int, NEW r \in 0..(n - 1),
         a = n * q + r
  PROVE  a \div n = q /\ a % n = r
  <1> DEFINE p == a \div n
             s == a % n
  <1>1. p \in Int /\ s \in 0..(n - 1) /\ a = n * p + s
    BY DivMod
  <1> HIDE DEF p, s
  <1>2. ASSUME p < q PROVE FALSE
    <2>1. n * (p + 1) <= n * q
      BY <1>1, <1>2, ProductOrder
    <2>2. n * (p + 1) = n * p + n
      BY <1>1
    <2> QED BY <1>1, <2>1, <2>2
  <1>3. ASSUME q < p PROVE FALSE
    <2>1. n * (q + 1) <= n * p
      BY <1>1, <1>3, ProductOrder
    <2>2. n * (q + 1) = n * q + n
      OBVIOUS
    <2> QED BY <1>1, <2>1, <2>2
  <1>4. p = q
    BY <1>1, <1>2, <1>3
  <1>5. s = r
    BY <1>1, <1>4
  <1> QED BY <1>4, <1>5 DEF p, s

\* The remainder of something that goes round at most once.
LEMMA ModOnce ==
  ASSUME NEW n \in Nat \ {0}, NEW a \in 0..(2 * n - 1)
  PROVE  a % n = IF a < n THEN a ELSE a - n
  <1>1. CASE a < n
    <2>1. a = n * 0 + a
      OBVIOUS
    <2> QED BY <1>1, <2>1, DivModUnique
  <1>2. CASE a >= n
    <2>1. a = n * 1 + (a - n)
      OBVIOUS
    <2> QED BY <1>2, <2>1, DivModUnique
  <1> QED BY <1>1, <1>2

\* Quotients of natural numbers are natural numbers.
LEMMA QuotientNatural ==
  ASSUME NEW b \in Nat, NEW n \in Nat \ {0}
  PROVE  b \div n \in Nat
  <1>1. b \div n \in Int /\ b % n \in 0..(n - 1) /\ b = n * (b \div n) + (b % n)
    BY DivMod
  <1>2. ASSUME b \div n < 0 PROVE FALSE
    <2>1. b \div n <= -1
      BY <1>1, <1>2
    <2>2. n * (b \div n) <= n * (-1)
      BY <1>1, <2>1, ProductOrder
    <2>3. n * (-1) = -n
      OBVIOUS
    <2> QED BY <1>1, <2>2, <2>3
  <1> QED BY <1>1, <1>2

\* Quotient and remainder determine a number.
LEMMA QuotientAndRemainder ==
  ASSUME NEW b \in Nat, NEW c \in Nat, NEW n \in Nat \ {0},
         (b \div n) + 1 = (c \div n) + 1, b % n = c % n
  PROVE  b = c
  <1>1. b = n * (b \div n) + (b % n) /\ c = n * (c \div n) + (c % n)
    BY DivMod
  <1>2. b \div n \in Int /\ c \div n \in Int
    BY DivMod
  <1>3. b \div n = c \div n
    BY <1>2
  <1> QED BY <1>1, <1>3

\* Rows of data start behind the metadata.
LEMMA StripePositive ==
  ASSUME NEW b \in Nat
  PROVE  ParityStripe(b) \in Nat \ {0}
  <1> DEFINE q == b \div (DISKS - 1)
  <1>1. q \in Nat
    BY DisksAssumption, QuotientNatural
  <1> HIDE DEF q
  <1>2. q + 1 \in Nat \ {0}
    BY <1>1
  <1> QED BY <1>2 DEF ParityStripe, q

LEMMA Raid5ParityRange ==
  ASSUME NEW s \in Nat \ {0}
  PROVE  Raid5Parity(s) \in Disk
  BY DisksAssumption, DivMod DEF Raid5Parity, Disk

\* The data disk of a RAID5 block, without the outer remainder.
LEMMA Raid5DiskCases ==
  ASSUME NEW b \in Nat,
         NEW p, p = Raid5Parity(ParityStripe(b)),
         NEW k, k = b % (DISKS - 1)
  PROVE  /\ p \in 1..DISKS
         /\ k \in 0..(DISKS - 2)
         /\ p + k < DISKS => Raid5Disk(b) = p + k + 1
         /\ p + k >= DISKS => Raid5Disk(b) = p + k - DISKS + 1
  <1>1. p \in 1..DISKS
    BY StripePositive, Raid5ParityRange DEF Disk
  <1>2. k \in 0..(DISKS - 2)
    BY DisksAssumption, DivMod
  <1> DEFINE a == p + k
  <1>3. a \in 0..(2 * DISKS - 1) /\ DISKS \in Nat \ {0}
    BY <1>1, <1>2, DisksAssumption
  <1>4. Raid5Disk(b) = (a % DISKS) + 1
    BY DEF Raid5Disk
  <1> HIDE DEF a
  <1>5. a % DISKS = IF a < DISKS THEN a ELSE a - DISKS
    BY <1>3, ModOnce, ZenonT(30)
  <1>6. /\ a < DISKS => Raid5Disk(b) = a + 1
        /\ a >= DISKS => Raid5Disk(b) = a - DISKS + 1
    BY <1>3, <1>4, <1>5
  <1> QED BY <1>1, <1>2, <1>6, DisksAssumption DEF a

\* RAID5 data is on a disk of the array and never on the disk with the
\* parity of its stripe (read_raid5, write_raid5).
THEOREM Raid5Placement ==
  ASSUME NEW b \in Nat
  PROVE  /\ Raid5Disk(b) \in Disk
         /\ Raid5Disk(b) # Raid5Parity(ParityStripe(b))
  <1> DEFINE p == Raid5Parity(ParityStripe(b))
             k == b % (DISKS - 1)
  <1>1. /\ p \in 1..DISKS
        /\ k \in 0..(DISKS - 2)
        /\ p + k < DISKS => Raid5Disk(b) = p + k + 1
        /\ p + k >= DISKS => Raid5Disk(b) = p + k - DISKS + 1
    BY Raid5DiskCases
  <1> HIDE DEF p, k
  <1>2. Raid5Disk(b) \in Disk /\ Raid5Disk(b) # p
    BY <1>1, DisksAssumption DEF Disk
  <1> QED BY <1>2 DEF p

\* RAID4 data is on a disk of the array other than the parity disk.
THEOREM Raid4Placement ==
  ASSUME NEW b \in Nat
  PROVE  Raid4Disk(b) \in Disk /\ Raid4Disk(b) # Raid4Parity
  BY DisksAssumption, DivMod DEF Raid4Disk, Raid4Parity, Disk

\* A block number is determined by its stripe and its place in the stripe.
LEMMA StripeOffsetInjective ==
  ASSUME NEW b \in Nat, NEW c \in Nat,
         ParityStripe(b) = ParityStripe(c),
         b % (DISKS - 1) = c % (DISKS - 1)
  PROVE  b = c
  <1> DEFINE n == DISKS - 1
  <1>1. n \in Nat \ {0}
    BY DisksAssumption
  <1>2. (b \div n) + 1 = (c \div n) + 1 /\ b % n = c % n
    BY DEF ParityStripe
  <1> HIDE DEF n
  <1> QED BY <1>1, <1>2, QuotientAndRemainder

\* No two blocks of a RAID5 array have the same place (write_raid5).
THEOREM Raid5Injective ==
  ASSUME NEW b \in Nat, NEW c \in Nat,
         ParityStripe(b) = ParityStripe(c), Raid5Disk(b) = Raid5Disk(c)
  PROVE  b = c
  <1> DEFINE p == Raid5Parity(ParityStripe(b))
             k == b % (DISKS - 1)
             l == c % (DISKS - 1)
  <1>1. /\ p \in 1..DISKS
        /\ k \in 0..(DISKS - 2)
        /\ p + k < DISKS => Raid5Disk(b) = p + k + 1
        /\ p + k >= DISKS => Raid5Disk(b) = p + k - DISKS + 1
    BY Raid5DiskCases
  <1>2. /\ l \in 0..(DISKS - 2)
        /\ p + l < DISKS => Raid5Disk(c) = p + l + 1
        /\ p + l >= DISKS => Raid5Disk(c) = p + l - DISKS + 1
    BY Raid5DiskCases
  <1> HIDE DEF p, k, l
  <1>3. k = l
    BY <1>1, <1>2, DisksAssumption
  <1> QED BY <1>3, StripeOffsetInjective DEF k, l

\* No two blocks of a RAID4 array have the same place (write_raid4).
THEOREM Raid4Injective ==
  ASSUME NEW b \in Nat, NEW c \in Nat,
         ParityStripe(b) = ParityStripe(c), Raid4Disk(b) = Raid4Disk(c)
  PROVE  b = c
  <1>1. b % (DISKS - 1) \in Int /\ c % (DISKS - 1) \in Int
    BY DisksAssumption, DivMod
  <1>2. b % (DISKS - 1) = c % (DISKS - 1)
    BY <1>1 DEF Raid4Disk
  <1> QED BY <1>2, StripeOffsetInjective

\* Every block of a RAID0 array is on a disk of the array, behind the metadata,
\* and no two blocks have the same place (read_raid0, write_raid0).
THEOREM Raid0Places ==
  ASSUME NEW b \in Nat, NEW c \in Nat
  PROVE  /\ Raid0Disk(b) \in Disk /\ Raid0Row(b) \in Nat \ {0}
         /\ Raid0Disk(b) = Raid0Disk(c) /\ Raid0Row(b) = Raid0Row(c) => b = c
  <1>1. DISKS \in Nat \ {0}
    BY DisksAssumption
  <1>2. /\ b % DISKS \in 0..(DISKS - 1) /\ c % DISKS \in 0..(DISKS - 1)
        /\ b \div DISKS \in Nat
    <2>1. b % DISKS \in 0..(DISKS - 1) /\ c % DISKS \in 0..(DISKS - 1)
      BY <1>1, DivMod
    <2> QED BY <1>1, <2>1, QuotientNatural
  <1>3. Raid0Disk(b) \in Disk /\ Raid0Row(b) \in Nat \ {0}
    BY <1>1, <1>2 DEF Raid0Disk, Raid0Row, Disk
  <1>4. ASSUME Raid0Disk(b) = Raid0Disk(c), Raid0Row(b) = Raid0Row(c) PROVE b = c
    <2>1. b % DISKS = c % DISKS
      BY <1>2, <1>4 DEF Raid0Disk
    <2>2. (b \div DISKS) + 1 = (c \div DISKS) + 1
      BY <1>4 DEF Raid0Row
    <2> QED BY <1>1, <2>1, <2>2, QuotientAndRemainder
  <1> QED BY <1>3, <1>4

\* The same of the columns of RAID1 and RAID0+1, also for an odd number of
\* disks, of which the last is no part of a column (read_raid1, write_raid1).
THEOREM MirrorPlaces ==
  ASSUME NEW b \in Nat, NEW c \in Nat
  PROVE  /\ MirrorColumn(b) \in Column /\ MirrorRow(b) \in Nat \ {0}
         /\ MirrorColumn(b) = MirrorColumn(c) /\ MirrorRow(b) = MirrorRow(c) => b = c
  <1> DEFINE n == DISKS \div 2
  <1>1. n \in Nat \ {0}
    BY DisksAssumption
  <1>2. /\ MirrorColumn(b) = (b % n) + 1 /\ MirrorColumn(c) = (c % n) + 1
        /\ MirrorRow(b) = (b \div n) + 1 /\ MirrorRow(c) = (c \div n) + 1
        /\ Column = 1..n
    BY DEF MirrorColumn, MirrorRow, Column
  <1> HIDE DEF n
  <1>3. b % n \in 0..(n - 1) /\ c % n \in 0..(n - 1) /\ b \div n \in Nat
    <2>1. b % n \in 0..(n - 1) /\ c % n \in 0..(n - 1)
      BY <1>1, DivMod
    <2> QED BY <1>1, <2>1, QuotientNatural
  <1>4. MirrorColumn(b) \in Column /\ MirrorRow(b) \in Nat \ {0}
    BY <1>1, <1>2, <1>3
  <1>5. ASSUME MirrorColumn(b) = MirrorColumn(c), MirrorRow(b) = MirrorRow(c) PROVE b = c
    <2>1. b % n = c % n /\ (b \div n) + 1 = (c \div n) + 1
      BY <1>2, <1>3, <1>5
    <2> QED BY <1>1, <2>1, QuotientAndRemainder
  <1> QED BY <1>4, <1>5

-----------------------------------------------------------------------------
(* The exclusive or of many blocks. *)

LEMMA DiskFinite ==
  ASSUME NEW T \in SUBSET Disk
  PROVE  IsFiniteSet(T)
  <1>1. IsFiniteSet(Disk)
    BY FS_Interval, DisksAssumption DEF Disk
  <1> QED BY <1>1, FS_Subset

\* One block more flips the bits it has.
LEMMA XorSplit ==
  ASSUME NEW f, NEW T \in SUBSET Disk, NEW d \in T, NEW k \in Bits
  PROVE  IF k \in f[d] THEN k \in XorOver(f, T) <=> k \notin XorOver(f, T \ {d})
                       ELSE k \in XorOver(f, T) <=> k \in XorOver(f, T \ {d})
  <1> DEFINE A == {j \in T \ {d} : k \in f[j]}
             B == {j \in T : k \in f[j]}
  <1>1. IsFiniteSet(A) /\ Cardinality(A) \in Nat
    <2>1. A \in SUBSET Disk
      OBVIOUS
    <2> QED BY <2>1, DiskFinite, FS_CardinalityType
  <1>2. /\ k \in XorOver(f, T) <=> Cardinality(B) % 2 = 1
        /\ k \in XorOver(f, T \ {d}) <=> Cardinality(A) % 2 = 1
    BY DEF XorOver
  <1>3. CASE k \in f[d]
    <2>1. B = A \cup {d} /\ d \notin A
      BY <1>3
    <2> HIDE DEF A, B
    <2>2. Cardinality(B) = Cardinality(A) + 1
      BY <1>1, <2>1, FS_AddElement, ZenonT(30)
    <2>3. Cardinality(B) % 2 = 1 <=> ~(Cardinality(A) % 2 = 1)
      BY <1>1, <2>2
    <2> QED BY <1>2, <1>3, <2>3
  <1>4. CASE k \notin f[d]
    <2>1. A = B
      BY <1>4
    <2> HIDE DEF A, B
    <2> QED BY <1>2, <1>4, <2>1
  <1> QED BY <1>3, <1>4

LEMMA XorBits ==
  ASSUME NEW f, NEW T
  PROVE  XorOver(f, T) \in Word
  BY DEF XorOver, Word

LEMMA XorSame ==
  ASSUME NEW f, NEW g, NEW T, \A j \in T : f[j] = g[j]
  PROVE  XorOver(f, T) = XorOver(g, T)
  <1>1. ASSUME NEW k \in Bits
        PROVE  {j \in T : k \in f[j]} = {j \in T : k \in g[j]}
    OBVIOUS
  <1> QED BY <1>1, ZenonT(30) DEF XorOver

\* raid_tocache_recovery: if all blocks together give zero, the others give
\* the missing one.
LEMMA XorRecover ==
  ASSUME NEW f, NEW T \in SUBSET Disk, NEW d \in T,
         f[d] \in Word, XorOver(f, T) = {}
  PROVE  XorOver(f, T \ {d}) = f[d]
  <1>1. ASSUME NEW k \in Bits
        PROVE  k \in XorOver(f, T \ {d}) <=> k \in f[d]
    BY XorSplit
  <1>2. XorOver(f, T \ {d}) \in Word
    BY XorBits
  <1> QED BY <1>1, <1>2 DEF Word

\* raid_write_updateparity_cache: the new parity makes up for the new data.
LEMMA XorUpdate ==
  ASSUME NEW f, NEW g, NEW T \in SUBSET Disk, NEW p \in T, NEW d \in T, p # d,
         NEW v \in Word,
         g[d] = v, g[p] = Xor(Xor(f[p], f[d]), v),
         \A j \in T \ {p, d} : g[j] = f[j]
  PROVE  XorOver(g, T) = XorOver(f, T)
  <1>1. ASSUME NEW k \in Bits
        PROVE  k \in XorOver(g, T) <=> k \in XorOver(f, T)
    <2> DEFINE U == T \ {p}
    <2>1. XorOver(f, U \ {d}) = XorOver(g, U \ {d})
      BY XorSame
    <2>2. U \in SUBSET Disk /\ d \in U
      OBVIOUS
    <2>3. /\ IF k \in f[d] THEN k \in XorOver(f, U) <=> k \notin XorOver(f, U \ {d})
                           ELSE k \in XorOver(f, U) <=> k \in XorOver(f, U \ {d})
          /\ IF k \in g[d] THEN k \in XorOver(g, U) <=> k \notin XorOver(g, U \ {d})
                           ELSE k \in XorOver(g, U) <=> k \in XorOver(g, U \ {d})
      <3> HIDE DEF U
      <3> QED BY <2>2, XorSplit
    <2>4. /\ IF k \in f[p] THEN k \in XorOver(f, T) <=> k \notin XorOver(f, U)
                           ELSE k \in XorOver(f, T) <=> k \in XorOver(f, U)
          /\ IF k \in g[p] THEN k \in XorOver(g, T) <=> k \notin XorOver(g, U)
                           ELSE k \in XorOver(g, T) <=> k \in XorOver(g, U)
      BY XorSplit
    <2>5. k \in g[p] <=> ((k \in f[p]) # (k \in f[d])) # (k \in v)
      BY DEF Xor
    <2> HIDE DEF U
    <2> QED BY <2>1, <2>3, <2>4, <2>5
  <1>2. XorOver(f, T) \in Word /\ XorOver(g, T) \in Word
    BY XorBits
  <1> QED BY <1>1, <1>2 DEF Word

-----------------------------------------------------------------------------
(* Where the blocks are, for both types. *)

LEMMA ParityRange ==
  ASSUME NEW s \in Stripe
  PROVE  Parity(s) \in Disk
  <1>1. s \in Nat \ {0}
    BY ParityAssumption DEF Stripe
  <1>2. Raid4Parity \in Disk
    BY DisksAssumption DEF Raid4Parity, Disk
  <1> QED BY <1>1, <1>2, Raid5ParityRange DEF Parity

LEMMA StripeBound ==
  ASSUME NEW b \in Block
  PROVE  ParityStripe(b) <= Stripes
  <1> DEFINE n == DISKS - 1
             q == b \div n
  <1>1. n \in Nat \ {0} /\ Stripes \in Nat
    BY DisksAssumption, ParityAssumption
  <1>2. b \in Nat /\ b < n * Stripes
    BY <1>1 DEF Block
  <1> HIDE DEF n
  <1>3. q \in Int /\ b % n \in 0..(n - 1) /\ b = n * q + (b % n)
    BY <1>1, <1>2, DivMod
  <1> HIDE DEF q
  <1>4. SUFFICES ASSUME Stripes <= q PROVE FALSE
    BY <1>1, <1>3 DEF ParityStripe, q, n
  <1>5. n * Stripes <= n * q
    BY <1>1, <1>3, <1>4, ProductOrder
  <1>6. n * q \in Int /\ n * Stripes \in Int
    BY <1>1, <1>3
  <1> QED BY <1>1, <1>2, <1>3, <1>5, <1>6

LEMMA BlockPlace ==
  ASSUME NEW b \in Block
  PROVE  /\ b \in Nat
         /\ ParityStripe(b) \in Stripe
         /\ DataDisk(b) \in Disk
         /\ Parity(ParityStripe(b)) \in Disk
         /\ DataDisk(b) # Parity(ParityStripe(b))
  <1>1. b \in Nat
    BY DEF Block
  <1>2. ParityStripe(b) \in Stripe
    BY <1>1, StripePositive, StripeBound, ParityAssumption DEF Stripe
  <1>3. Parity(ParityStripe(b)) \in Disk
    BY <1>2, ParityRange
  <1> QED BY <1>1, <1>2, <1>3, Raid4Placement, Raid5Placement DEF DataDisk, Parity

LEMMA BlockInjective ==
  ASSUME NEW b \in Block, NEW c \in Block,
         ParityStripe(b) = ParityStripe(c), DataDisk(b) = DataDisk(c)
  PROVE  b = c
  BY BlockPlace, Raid4Injective, Raid5Injective DEF DataDisk

LEMMA SlotOfDisk ==
  ASSUME NEW d \in Disk
  PROVE  d \in Slot /\ d + 1 \in Slot
  BY DisksAssumption DEF Disk, Slot

\* The disks the loops visit, and the parity disk, are all disks.
LEMMA LoopedDisks ==
  /\ Type = "RAID4" => Looped = 1..(DISKS - 1)
  /\ Type = "RAID5" => Looped = Disk
  BY DEF Looped, num_of_disks, Mirrored, Disk

LEMMA OtherDisks ==
  ASSUME NEW s \in Stripe, NEW d
  PROVE  (Looped \cup (IF Type = "RAID4" THEN {Parity(s)} ELSE {})) \ {d} = Disk \ {d}
  <1>1. CASE Type = "RAID4"
    BY <1>1, LoopedDisks, DisksAssumption DEF Parity, Raid4Parity, Disk
  <1>2. CASE Type = "RAID5"
    BY <1>2, LoopedDisks
  <1> QED BY <1>1, <1>2, ParityAssumption

-----------------------------------------------------------------------------
(* Type correctness. *)

LEMMA LoadedType ==
  ASSUME TypeOK, NEW s \in Stripe
  PROVE  Loaded(s) \in [Slot -> Word]
  <1>1. Looped \subseteq Disk
    BY LoopedDisks, ParityAssumption, DisksAssumption DEF Disk
  <1>2. \A d \in Disk : platter[d][s].lo \in Word /\ platter[d][s].hi \in Word
    BY DEF TypeOK, Row
  <1>3. cache.slot \in [Slot -> Word]
    BY DEF TypeOK
  <1> QED BY <1>1, <1>2, <1>3, ParityRange, SlotOfDisk, ZenonT(30) DEF Loaded

LEMMA RecoveredType ==
  ASSUME NEW slot \in [Slot -> Word], NEW d, NEW p
  PROVE  Recovered(slot, d, p) \in [Slot -> Word]
  BY XorBits, ZenonT(30) DEF Recovered

LEMMA SlotsType ==
  ASSUME TypeOK, NEW b \in Block
  PROVE  ReadSlots(b) \in [Slot -> Word] /\ WriteSlots(b) \in [Slot -> Word]
  <1>1. Missed(b) \in [Slot -> Word]
    BY BlockPlace, LoadedType, RecoveredType DEF Missed
  <1>2. cache.slot \in [Slot -> Word]
    BY DEF TypeOK
  <1> QED BY <1>1, <1>2, RecoveredType DEF ReadSlots, WriteSlots

LEMMA UpdatedType ==
  ASSUME NEW slot \in [Slot -> Word], NEW d \in Slot, NEW p \in Slot, NEW v \in Word
  PROVE  Updated(slot, d, p, v) \in [Slot -> Word]
  <1>1. Xor(Xor(slot[p], slot[d]), v) \in Word
    BY DEF Xor, Word
  <1> QED BY <1>1 DEF Updated

LEMMA FlushedType ==
  ASSUME TypeOK, NEW slot \in [Slot -> Word], NEW d \in Disk, NEW s \in Stripe
  PROVE  Flushed(slot, d, s) \in [Disk -> [Stripe -> Row]]
  <1>1. slot[d] \in Word /\ slot[d + 1] \in Word
    BY SlotOfDisk
  <1>2. [lo |-> slot[d], hi |-> slot[d + 1]] \in Row
    BY <1>1 DEF Row
  <1> QED BY <1>2 DEF Flushed, TypeOK


DeadDisks == {d \in Disk : ~Live(d)}

TypeInv ==
  /\ TypeOK
  /\ num_dead_disks = Cardinality(DeadDisks)
  /\ pc = "data" => req.blk \in Block /\ cache.stripe = ParityStripe(req.blk)

LEMMA DiskCount ==
  ASSUME NEW T \in SUBSET Disk
  PROVE  IsFiniteSet(T) /\ Cardinality(T) \in 0..DISKS
  <1>1. IsFiniteSet(Disk) /\ Cardinality(Disk) = DISKS
    BY FS_Interval, DisksAssumption DEF Disk
  <1>2. IsFiniteSet(T) /\ Cardinality(T) <= Cardinality(Disk)
    BY <1>1, FS_Subset
  <1>3. Cardinality(T) \in Nat
    BY <1>2, FS_CardinalityType
  <1> QED BY <1>1, <1>2, <1>3, DisksAssumption

LEMMA TypeInvInit ==
  Init => TypeInv
  <1> SUFFICES ASSUME Init PROVE TypeInv
    OBVIOUS
  <1>1. ZeroRow \in Row /\ {} \in Word
    BY DEF ZeroRow, Row, Word
  <1>2. platter \in [Disk -> [Stripe -> Row]]
    BY <1>1 DEF Init
  <1>3. shadow \in [Block -> SUBSET Word]
    BY <1>1, ZenonT(30) DEF Init
  <1>4. DeadDisks = {}
    BY DEF Init, DeadDisks, Live
  <1>5. num_dead_disks = Cardinality(DeadDisks)
    BY <1>4, FS_EmptySet DEF Init
  <1>6. cache \in [stripe : 0..Stripes, parity : 0..DISKS, slot : [Slot -> Word]]
    BY <1>1, ParityAssumption, DisksAssumption DEF Init, NoStripe
  <1>7. req \in [blk : Block \cup {0}, val : Word]
    BY <1>1 DEF Init, NoRequest
  <1>8. num_dead_disks \in 0..DISKS
    BY DisksAssumption DEF Init
  <1>9. pc = "idle" /\ torn = {} /\ disk_state \in [Disk -> {"ALIVE", "DEAD", "REPAIRED"}]
    BY DEF Init
  <1> QED BY <1>2, <1>3, <1>5, <1>6, <1>7, <1>8, <1>9 DEF TypeInv, TypeOK

\* What the cache becomes after a read or a write of block b.
LEMMA CacheType ==
  ASSUME NEW b \in Block, NEW slot \in [Slot -> Word]
  PROVE  [stripe |-> ParityStripe(b), parity |-> Parity(ParityStripe(b)), slot |-> slot]
           \in [stripe : 0..Stripes, parity : 0..DISKS, slot : [Slot -> Word]]
  <1>1. ParityStripe(b) \in 0..Stripes
    BY BlockPlace, ParityAssumption DEF Stripe
  <1>2. Parity(ParityStripe(b)) \in 0..DISKS
    BY BlockPlace, DisksAssumption DEF Disk
  <1> QED BY <1>1, <1>2

LEMMA TypeInvNext ==
  TypeInv /\ [Next]_vars => TypeInv'
  <1> SUFFICES ASSUME TypeInv, [Next]_vars PROVE TypeInv'
    OBVIOUS
  <1>0. TypeOK
    BY DEF TypeInv
  <1>1. ASSUME NEW b \in Block, Read(b) PROVE TypeInv'
    <2>1. cache' \in [stripe : 0..Stripes, parity : 0..DISKS, slot : [Slot -> Word]]
      BY <1>0, <1>1, SlotsType, CacheType DEF Read
    <2>2. pc' # "data" /\ DeadDisks' = DeadDisks
      BY <1>1 DEF Read, Serving, DeadDisks, Live
    <2> QED BY <1>1, <2>1, <2>2 DEF Read, TypeInv, TypeOK
  <1>2. ASSUME NEW b \in Block, NEW v \in Word, WriteParity(b, v) PROVE TypeInv'
    <2> DEFINE s == ParityStripe(b)
               p == Parity(s)
               slot == Updated(WriteSlots(b), DataDisk(b), p, v)
    <2>1. slot \in [Slot -> Word]
      BY <1>0, SlotsType, UpdatedType, BlockPlace, SlotOfDisk, ZenonT(30)
    <2>2. /\ cache' = [stripe |-> s, parity |-> p, slot |-> slot]
          /\ platter' = Flushed(slot, p, s)
          /\ pc' = "data" /\ req' = [blk |-> b, val |-> v]
          /\ UNCHANGED <<disk_state, num_dead_disks, shadow, torn>>
      BY <1>2 DEF WriteParity
    <2>3. s \in Stripe /\ p \in Disk
      BY BlockPlace
    <2> HIDE DEF slot
    <2>4. platter' \in [Disk -> [Stripe -> Row]]
      BY <1>0, <2>1, <2>2, <2>3, FlushedType
    <2>5. cache' \in [stripe : 0..Stripes, parity : 0..DISKS, slot : [Slot -> Word]]
      BY <2>1, <2>2, CacheType
    <2>6. DeadDisks' = DeadDisks
      BY <2>2 DEF DeadDisks, Live
    <2> QED BY <2>2, <2>4, <2>5, <2>6 DEF TypeInv, TypeOK
  <1>3. CASE WriteData
    <2>1. req.blk \in Block /\ cache.stripe = ParityStripe(req.blk)
      BY <1>3 DEF TypeInv, WriteData
    <2>2. cache.slot \in [Slot -> Word] /\ req.val \in Word
      BY <1>0 DEF TypeOK
    <2>3. platter' \in [Disk -> [Stripe -> Row]]
      BY <1>0, <1>3, <2>1, <2>2, BlockPlace, FlushedType DEF WriteData
    <2>4. shadow' \in [Block -> SUBSET Word]
      BY <1>0, <1>3, <2>1, <2>2 DEF WriteData, TypeOK
    <2>5. DeadDisks' = DeadDisks /\ pc' = "idle"
      BY <1>3 DEF WriteData, DeadDisks, Live
    <2>6. req' \in [blk : Block \cup {0}, val : Word]
      BY <1>3 DEF WriteData, NoRequest, Word
    <2> QED BY <1>3, <2>3, <2>4, <2>5, <2>6 DEF WriteData, TypeInv, TypeOK
  <1>4. ASSUME NEW d \in Disk, Fail(d) PROVE TypeInv'
    <2>1. DeadDisks' = DeadDisks \cup {d} /\ d \notin DeadDisks
      BY <1>0, <1>4 DEF Fail, DeadDisks, Live, TypeOK
    <2>2. DeadDisks \in SUBSET Disk /\ DeadDisks' \in SUBSET Disk
      BY <2>1 DEF DeadDisks
    <2>3. Cardinality(DeadDisks') = Cardinality(DeadDisks) + 1
      BY <2>1, <2>2, DiskCount, FS_AddElement
    <2>4. num_dead_disks' = Cardinality(DeadDisks')
      BY <1>4, <2>3 DEF Fail, TypeInv
    <2>5. num_dead_disks' \in 0..DISKS
      BY <2>2, <2>4, DiskCount
    <2> QED BY <1>4, <2>4, <2>5 DEF Fail, TypeInv, TypeOK
  <1>5. ASSUME NEW d \in Disk, Repair(d) PROVE TypeInv'
    <2>1. DeadDisks' = DeadDisks \ {d} /\ d \in DeadDisks
      BY <1>0, <1>5 DEF Repair, DeadDisks, Live, TypeOK
    <2>2. DeadDisks \in SUBSET Disk /\ DeadDisks' \in SUBSET Disk
      BY <2>1 DEF DeadDisks
    <2>3. Cardinality(DeadDisks') = Cardinality(DeadDisks) - 1
      BY <2>1, <2>2, DiskCount, FS_RemoveElement
    <2>4. num_dead_disks' = Cardinality(DeadDisks')
      BY <1>5, <2>3 DEF Repair, TypeInv
    <2>5. num_dead_disks' \in 0..DISKS
      BY <2>2, <2>4, DiskCount
    <2> QED BY <1>5, <2>4, <2>5 DEF Repair, TypeInv, TypeOK
  <1>6. CASE Crash
    <2>1. cache' \in [stripe : 0..Stripes, parity : 0..DISKS, slot : [Slot -> Word]]
      BY <1>6, ParityAssumption, DisksAssumption DEF Crash, NoStripe, Word
    <2>2. req' \in [blk : Block \cup {0}, val : Word]
      BY <1>6 DEF Crash, NoRequest, Word
    <2>3. shadow' \in [Block -> SUBSET Word] /\ torn' \subseteq Stripe
      <3>1. CASE pc = "data"
        <4>1. req.blk \in Block /\ cache.stripe \in Stripe /\ req.val \in Word
          BY <1>0, <3>1, BlockPlace DEF TypeInv, TypeOK
        <4> QED BY <1>0, <1>6, <3>1, <4>1 DEF Crash, TypeOK
      <3>2. CASE pc # "data"
        BY <1>0, <1>6, <3>2 DEF Crash, TypeOK
      <3> QED BY <3>1, <3>2
    <2>4. DeadDisks' = DeadDisks
      BY <1>6 DEF Crash, DeadDisks, Live
    <2> QED BY <1>6, <2>1, <2>2, <2>3, <2>4 DEF Crash, TypeInv, TypeOK
  <1>7. CASE UNCHANGED vars
    BY <1>7 DEF vars, TypeInv, TypeOK, DeadDisks, Live
  <1> QED BY <1>1, <1>2, <1>3, <1>4, <1>5, <1>6, <1>7 DEF Next, Refuse

\* RaidParity's state stays well typed whatever is read, written, failed,
\* repaired or rebooted, and num_dead_disks never leaves 0..DISKS: disk_fail_raid
\* and disk_repaired_raid keep it equal to the number of dead disks.
THEOREM TypeCorrect ==
  Spec => []TypeOK
  <1>1. TypeInv => TypeOK
    BY DEF TypeInv
  <1> QED BY <1>1, TypeInvInit, TypeInvNext, PTL DEF Spec

-----------------------------------------------------------------------------
(* The inductive invariant. *)

\* Row s of disk d once the request in progress is finished.
Content(d, s) ==
  IF pc = "data" /\ s = cache.stripe /\ d = DataDisk(req.blk)
    THEN req.val
    ELSE platter[d][s].lo

Image(s) == [d \in Disk |-> Content(d, s)]

\* ... and what the array makes of it when disk d is dead.
Effective(d, s) ==
  IF Live(d) THEN Content(d, s) ELSE XorOver(Image(s), Disk \ {d})

Settled(b) == ~(pc = "data" /\ b = req.blk)

\* The disk whose slot the second half of the parity row falls into.
AfterParity(s) == Parity(s) + 1

\* A stripe whose parity is that of its data.
Consistent(s) ==
  /\ num_dead_disks = 0 => XorOver(Image(s), Disk) = {}
  /\ \A b \in Block : ParityStripe(b) = s /\ Settled(b) =>
       Effective(DataDisk(b), s) \in shadow[b]
  /\ Live(Parity(s)) /\ AfterParity(s) \in Disk /\ Live(AfterParity(s)) =>
       platter[Parity(s)][s].hi = Content(AfterParity(s), s)
  /\ cache.stripe = s => \A d \in Disk : Live(d) => cache.slot[d] = Content(d, s)

\* What a stripe still has after a reboot cut off a write to it, as long as no
\* disk is dead.
Readable(s) ==
  \A b \in Block : ParityStripe(b) = s /\ Settled(b) =>
    /\ DataDisk(b) # AfterParity(s) => platter[DataDisk(b)][s].lo \in shadow[b]
    /\ DataDisk(b) = AfterParity(s) => platter[Parity(s)][s].hi \in shadow[b]
    /\ cache.stripe = s => cache.slot[DataDisk(b)] \in shadow[b]

\* Between the write of the parity and the write of the data.
Pending ==
  LET d == DataDisk(req.blk)  s == cache.stripe
  IN  /\ Live(d)
      /\ cache.slot[d] = req.val
      /\ num_dead_disks = 0 =>
           /\ d # AfterParity(s) => platter[d][s].lo \in shadow[req.blk]
           /\ d = AfterParity(s) => platter[Parity(s)][s].hi = req.val

ParityInv ==
  /\ TypeInv
  /\ cache.stripe # NoStripe => cache.parity = Parity(cache.stripe)
  /\ pc = "data" => num_dead_disks < max_dead_disks /\ Pending
  /\ num_dead_disks < max_dead_disks => \A s \in Stripe :
       /\ s \notin torn => Consistent(s)
       /\ s \in torn /\ num_dead_disks = 0 => Readable(s)


-----------------------------------------------------------------------------
(* What is in the slots. *)

LEMMA OneDead ==
  ASSUME TypeInv, num_dead_disks < max_dead_disks,
         NEW d \in Disk, NEW e \in Disk, ~Live(d), ~Live(e)
  PROVE  d = e /\ num_dead_disks = 1
  <1>1. DeadDisks \in SUBSET Disk /\ d \in DeadDisks /\ e \in DeadDisks
    BY DEF DeadDisks
  <1>2. IsFiniteSet(DeadDisks) /\ num_dead_disks = Cardinality(DeadDisks)
        /\ num_dead_disks \in Nat
    BY <1>1, DiskCount DEF TypeInv
  <1>3. /\ IsFiniteSet(DeadDisks \ {d})
        /\ Cardinality(DeadDisks \ {d}) = num_dead_disks - 1
    BY <1>1, <1>2, FS_RemoveElement
  <1>4. Cardinality(DeadDisks \ {d}) \in Nat
    BY <1>3, FS_CardinalityType
  <1>5. num_dead_disks = 1 /\ Cardinality(DeadDisks \ {d}) = 0
    BY <1>2, <1>3, <1>4 DEF max_dead_disks
  <1>6. DeadDisks \ {d} = {}
    BY <1>3, <1>5, FS_EmptySet
  <1> QED BY <1>1, <1>5, <1>6

LEMMA NoneDead ==
  ASSUME TypeInv, num_dead_disks = 0, NEW d \in Disk
  PROVE  Live(d)
  BY OneDead DEF max_dead_disks

\* cache() leaves in the slot of a live disk its own row, except that the disk
\* after a live parity disk gets what was behind the parity.
LEMMA LoadedAt ==
  ASSUME TypeOK, NEW s \in Stripe, NEW e \in Disk, Live(e)
  PROVE  /\ e = AfterParity(s) /\ Live(Parity(s)) =>
              Loaded(s)[e] = platter[Parity(s)][s].hi
         /\ ~(e = AfterParity(s) /\ Live(Parity(s))) =>
              Loaded(s)[e] = platter[e][s].lo
  <1> DEFINE p == Parity(s)
             loop == [d \in Slot |->
                 IF d \in Looped /\ Live(d) THEN platter[d][s].lo
                 ELSE IF d - 1 \in Looped /\ Live(d - 1) THEN platter[d - 1][s].hi
                 ELSE cache.slot[d]]
  <1>1. p \in Disk /\ e \in Slot /\ p \in Slot /\ p + 1 \in Slot
    BY ParityRange, SlotOfDisk
  <1>2. e \in Looped \/ e = p
    BY LoopedDisks, ParityAssumption, DisksAssumption DEF Parity, Raid4Parity, Disk
  <1>3. e # p => loop[e] = platter[e][s].lo
    BY <1>1, <1>2
  <1>4. Loaded(s) = IF Live(p)
          THEN [loop EXCEPT ![p] = platter[p][s].lo, ![p + 1] = platter[p][s].hi]
          ELSE loop
    BY DEF Loaded
  <1>5. p # p + 1
    BY <1>1, DisksAssumption DEF Disk
  <1>6. CASE Live(p)
    <2> DEFINE V == {loop[d] : d \in Slot}
    <2>0. loop \in [Slot -> V]
      OBVIOUS
    <2> HIDE DEF loop, V
    <2>1. /\ e = p + 1 => Loaded(s)[e] = platter[p][s].hi
          /\ e = p => Loaded(s)[e] = platter[p][s].lo
          /\ e # p /\ e # p + 1 => Loaded(s)[e] = loop[e]
      BY <1>1, <1>4, <1>5, <1>6, <2>0
    <2> QED BY <1>3, <1>6, <2>1 DEF AfterParity
  <1>7. CASE ~Live(p)
    <2>1. e # p
      BY <1>7
    <2> QED BY <1>3, <1>4, <1>7, <2>1
  <1> QED BY <1>6, <1>7

LEMMA RecoveredAt ==
  ASSUME NEW slot \in [Slot -> Word], NEW s \in Stripe, NEW d \in Disk
  PROVE  /\ \A e \in Slot \ {d} : Recovered(slot, d, Parity(s))[e] = slot[e]
         /\ Recovered(slot, d, Parity(s))[d] = XorOver(slot, Disk \ {d})
  <1>1. Recovered(slot, d, Parity(s)) = [slot EXCEPT ![d] = XorOver(slot, Disk \ {d})]
    BY OtherDisks, ZenonT(30) DEF Recovered
  <1> QED BY <1>1, SlotOfDisk

\* The slots of the live disks hold their rows.
Faithful(slot, s) == \A d \in Disk : Live(d) => slot[d] = Content(d, s)

\* Outside the stripe of a write in progress.
LEMMA StillContent ==
  ASSUME NEW d, NEW s, pc # "data" \/ cache.stripe # s
  PROVE  Content(d, s) = platter[d][s].lo
  BY DEF Content

LEMMA LoadedFaithful ==
  ASSUME TypeInv, NEW s \in Stripe, pc # "data" \/ cache.stripe # s, Consistent(s)
  PROVE  Faithful(Loaded(s), s)
  <1> SUFFICES ASSUME NEW d \in Disk, Live(d)
               PROVE  Loaded(s)[d] = Content(d, s)
    BY DEF Faithful
  <1>1. CASE d = AfterParity(s) /\ Live(Parity(s))
    <2>1. platter[Parity(s)][s].hi = Content(d, s)
      BY <1>1 DEF Consistent
    <2> QED BY <1>1, <2>1, LoadedAt DEF TypeInv
  <1>2. CASE ~(d = AfterParity(s) /\ Live(Parity(s)))
    BY <1>2, LoadedAt, StillContent DEF TypeInv
  <1> QED BY <1>1, <1>2

\* A slot recovered from faithful slots: the other disks are alive.
LEMMA RecoveredFaithful ==
  ASSUME TypeInv, num_dead_disks < max_dead_disks, NEW s \in Stripe,
         NEW slot \in [Slot -> Word], Faithful(slot, s),
         NEW d \in Disk, ~Live(d)
  PROVE  /\ Faithful(Recovered(slot, d, Parity(s)), s)
         /\ Recovered(slot, d, Parity(s))[d] = Effective(d, s)
  <1>1. \A e \in Disk \ {d} : Live(e) /\ slot[e] = Image(s)[e]
    BY OneDead DEF Faithful, Image
  <1>2. XorOver(slot, Disk \ {d}) = XorOver(Image(s), Disk \ {d})
    BY <1>1, XorSame
  <1>3. ASSUME NEW e \in Disk, Live(e) PROVE Recovered(slot, d, Parity(s))[e] = slot[e]
    <2>1. e # d
      BY <1>3
    <2>2. e \in Slot \ {d}
      BY <2>1, SlotOfDisk
    <2> QED BY <2>2, RecoveredAt, ZenonT(30)
  <1> QED BY <1>2, <1>3, RecoveredAt DEF Faithful, Effective

\* Reading or writing block b of a consistent stripe starts from faithful
\* slots, and a read gives what the array makes of the block.
LEMMA SlotsFaithful ==
  ASSUME ParityInv, num_dead_disks < max_dead_disks,
         NEW b \in Block, NEW s, s = ParityStripe(b), s \notin torn
  PROVE  /\ Faithful(ReadSlots(b), s)
         /\ Faithful(WriteSlots(b), s)
         /\ ReadValue(b) = Effective(DataDisk(b), s)
  <1> DEFINE d == DataDisk(b)
  <1>1. s \in Stripe /\ d \in Disk /\ s # NoStripe
    BY BlockPlace DEF Stripe, NoStripe
  <1>2. TypeInv /\ TypeOK /\ Consistent(s)
    BY <1>1 DEF ParityInv, TypeInv
  <1>5. CASE Hit(b)
    <2>1. Faithful(cache.slot, s) /\ cache.slot \in [Slot -> Word]
          /\ cache.parity = Parity(s)
      BY <1>1, <1>2, <1>5 DEF Hit, Consistent, Faithful, ParityInv, TypeOK
    <2>2. CASE Live(d)
      <3>1. ReadSlots(b) = cache.slot
        BY <1>5, <2>2 DEF ReadSlots
      <3>2. cache.slot[d] = Effective(d, s)
        BY <1>1, <2>1, <2>2 DEF Faithful, Effective
      <3> QED BY <1>5, <2>1, <3>1, <3>2 DEF WriteSlots, ReadValue
    <2>3. CASE ~Live(d)
      <3>1. ReadSlots(b) = Recovered(cache.slot, d, Parity(s))
        BY <1>5, <2>1, <2>3 DEF ReadSlots
      <3>2. /\ Faithful(ReadSlots(b), s)
            /\ ReadSlots(b)[d] = Effective(d, s)
        BY <1>1, <1>2, <2>1, <2>3, <3>1, RecoveredFaithful
      <3> QED BY <1>5, <2>1, <3>2 DEF WriteSlots, ReadValue
    <2> QED BY <2>2, <2>3
  <1>6. CASE ~Hit(b)
    <2>1. ReadSlots(b) = Missed(b) /\ WriteSlots(b) = Missed(b)
      BY <1>6 DEF ReadSlots, WriteSlots
    <2>2. Faithful(Loaded(s), s) /\ Loaded(s) \in [Slot -> Word]
      BY <1>1, <1>2, <1>6, LoadedFaithful, LoadedType DEF Hit
    <2>3. Faithful(Missed(b), s) /\ Missed(b)[d] = Effective(d, s)
      <3>1. CASE Live(d)
        BY <1>1, <2>2, <3>1 DEF Missed, Faithful, Effective
      <3>2. CASE ~Live(d)
        BY <1>1, <1>2, <2>2, <3>2, RecoveredFaithful DEF Missed
      <3> QED BY <3>1, <3>2
    <2> QED BY <2>1, <2>3 DEF ReadValue
  <1> QED BY <1>5, <1>6

\* With all disks alive no slot is recovered; the slots hold readable values
\* even on a stripe that a reboot left half written.
LEMMA SlotsReadable ==
  ASSUME ParityInv, Serving, num_dead_disks = 0,
         NEW b \in Block, NEW s, s = ParityStripe(b), s \in torn,
         NEW c \in Block, ParityStripe(c) = s
  PROVE  /\ ReadSlots(b) = WriteSlots(b)
         /\ WriteSlots(b)[DataDisk(c)] \in shadow[c]
  <1>1. s \in Stripe /\ DataDisk(b) \in Disk /\ DataDisk(c) \in Disk
    BY BlockPlace
  <1>2. TypeInv /\ TypeOK /\ Readable(s) /\ Settled(c)
    BY <1>1 DEF ParityInv, TypeInv, Serving, Settled
  <1>3. Live(DataDisk(b)) /\ Live(DataDisk(c)) /\ Live(Parity(s))
    BY <1>1, <1>2, NoneDead, ParityRange
  <1>4. Loaded(s)[DataDisk(c)] \in shadow[c]
    BY <1>1, <1>2, <1>3, LoadedAt DEF Readable
  <1>5. Hit(b) => cache.slot[DataDisk(c)] \in shadow[c]
    BY <1>2 DEF Hit, Readable
  <1>6. CASE Hit(b)
    BY <1>3, <1>5, <1>6 DEF ReadSlots, WriteSlots
  <1>7. CASE ~Hit(b)
    <2>1. ReadSlots(b) = Missed(b) /\ WriteSlots(b) = Missed(b)
      BY <1>7 DEF ReadSlots, WriteSlots
    <2> QED BY <1>3, <1>4, <2>1 DEF Missed
  <1> QED BY <1>6, <1>7

LEMMA InvContained ==
  ParityInv => CrashContained
  <1> SUFFICES ASSUME ParityInv, Serving, NEW b \in Block,
                      ~(num_dead_disks > 0 /\ ParityStripe(b) \in torn)
               PROVE  ReadValue(b) \in shadow[b]
    BY DEF CrashContained
  <1> DEFINE s == ParityStripe(b)
  <1>1. s \in Stripe /\ num_dead_disks < max_dead_disks /\ num_dead_disks \in 0..DISKS
    BY BlockPlace DEF Serving, ParityInv, TypeInv, TypeOK
  <1>2. CASE s \notin torn
    <2>1. Consistent(s) /\ Settled(b)
      BY <1>1, <1>2 DEF ParityInv, Serving, Settled
    <2> QED BY <1>1, <1>2, <2>1, SlotsFaithful DEF Consistent
  <1>3. CASE s \in torn
    <2>1. num_dead_disks = 0
      BY <1>1, <1>3, DisksAssumption
    <2> QED BY <1>3, <2>1, SlotsReadable DEF ReadValue
  <1> QED BY <1>2, <1>3

=============================================================================

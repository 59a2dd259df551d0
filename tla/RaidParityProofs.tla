-------------------------- MODULE RaidParityProofs --------------------------
(***************************************************************************)
(* RAID4 and RAID5 survive the death of one disk, for every number of      *)
(* disks, stripes and bits: ParityInv is inductive.  With at most one dead *)
(* disk the array implements one disk, and disks that never failed read    *)
(* right whatever happens to the others.                                   *)
(***************************************************************************)
EXTENDS RaidParityInv

-----------------------------------------------------------------------------
(* The invariant is inductive, one action at a time. *)

LEMMA InvInit ==
  ASSUME Init, FreshDisks
  PROVE  ParityInv
  <1>1. TypeInv /\ pc = "idle" /\ cache.stripe = NoStripe /\ torn = {}
    BY TypeInvInit DEF Init
  <1>2. ASSUME NEW s \in Stripe PROVE Consistent(s)
    <2>1. \A d \in Disk : platter[d][s] = ZeroRow /\ Content(d, s) = {} /\ Live(d)
      <3>1. \A d \in Disk : platter[d][s] = ZeroRow /\ Live(d)
        BY DEF Init, Live
      <3>2. \A d \in Disk : Content(d, s) = {}
        BY <1>1, <3>1 DEF Content, ZeroRow
      <3> QED BY <3>1, <3>2
    <2>2. XorOver(Image(s), Disk) = {}
      <3>1. ASSUME NEW k \in Bits PROVE {d \in Disk : k \in Image(s)[d]} = {}
        BY <2>1 DEF Image
      <3>2. Cardinality({}) % 2 # 1
        BY FS_EmptySet
      <3> QED BY <3>1, <3>2 DEF XorOver
    <2>3. \A b \in Block : ParityStripe(b) = s =>
            Effective(DataDisk(b), s) \in shadow[b]
      BY <2>1, BlockPlace DEF Effective, Init
    <2>4. Parity(s) \in Disk
      BY ParityRange
    <2>5. cache.stripe # s
      BY <1>1, ParityAssumption DEF Stripe, NoStripe
    <2> QED BY <2>1, <2>2, <2>3, <2>4, <2>5 DEF Consistent, ZeroRow
  <1> QED BY <1>1, <1>2 DEF ParityInv

LEMMA InvRead ==
  ASSUME ParityInv, TypeInv', NEW b \in Block, Read(b)
  PROVE  ParityInv'
  <1> DEFINE s0 == ParityStripe(b)
  <1>1. /\ Serving /\ pc = "idle" /\ pc' = "idle"
        /\ cache' = [stripe |-> s0, parity |-> Parity(s0), slot |-> ReadSlots(b)]
        /\ UNCHANGED <<disk_state, num_dead_disks, platter, pc, req, shadow, torn>>
    BY DEF Read, Serving
  <1>2. \A d, s : Content(d, s)' = Content(d, s)
    BY <1>1 DEF Content
  <1>3. \A d, s : Effective(d, s)' = Effective(d, s) /\ Image(s)' = Image(s)
    BY <1>1, <1>2 DEF Effective, Image, Live
  <1>4. \A c : Settled(c) /\ Settled(c)'
    BY <1>1 DEF Settled
  <1>5. ASSUME NEW s \in Stripe, s \notin torn, num_dead_disks < max_dead_disks
        PROVE  Consistent(s)'
    <2>1. Consistent(s)
      BY <1>5 DEF ParityInv
    <2>2. s = s0 => \A d \in Disk : Live(d) => ReadSlots(b)[d] = Content(d, s)
      BY <1>1, <1>5, SlotsFaithful DEF Faithful
    <2> QED BY <1>1, <1>2, <1>3, <1>4, <2>1, <2>2 DEF Consistent, Live
  <1>6. ASSUME NEW s \in Stripe, s \in torn, num_dead_disks = 0
        PROVE  Readable(s)'
    <2>1. Readable(s)
      BY <1>6 DEF ParityInv, max_dead_disks
    <2>2. s = s0 => \A c \in Block : ParityStripe(c) = s =>
                      ReadSlots(b)[DataDisk(c)] \in shadow[c]
      BY <1>1, <1>6, SlotsReadable
    <2> QED BY <1>1, <1>4, <2>1, <2>2 DEF Readable
  <1> QED BY <1>1, <1>5, <1>6 DEF ParityInv

LEMMA InvWriteData ==
  ASSUME ParityInv, TypeInv', WriteData
  PROVE  ParityInv'
  <1> DEFINE b0 == req.blk
             d0 == DataDisk(req.blk)
             s0 == cache.stripe
  <1>1. /\ TypeInv /\ TypeOK /\ b0 \in Block /\ s0 = ParityStripe(b0)
        /\ s0 \in Stripe /\ d0 \in Disk /\ d0 # Parity(s0)
        /\ num_dead_disks < max_dead_disks /\ Pending
    BY BlockPlace DEF ParityInv, TypeInv, WriteData
  <1>2. Live(d0) /\ cache.slot[d0] = req.val
    BY <1>1 DEF Pending
  <1>3. /\ pc = "data" /\ pc' = "idle"
        /\ platter' = [platter EXCEPT ![d0][s0] =
                         [lo |-> req.val, hi |-> cache.slot[d0 + 1]]]
        /\ shadow' = [shadow EXCEPT ![b0] = {req.val}]
        /\ UNCHANGED <<disk_state, num_dead_disks, cache, torn>>
    BY <1>2 DEF WriteData, Flushed
  <1>4. \A d \in Disk, s \in Stripe :
          platter'[d][s] = IF d = d0 /\ s = s0
                             THEN [lo |-> req.val, hi |-> cache.slot[d0 + 1]]
                             ELSE platter[d][s]
    BY <1>1, <1>3 DEF TypeOK
  <1>5. \A d \in Disk, s \in Stripe :
          Content(d, s)' = Content(d, s) /\ Content(d, s)' = platter'[d][s].lo
    BY <1>1, <1>3, <1>4 DEF Content
  <1>6. \A d \in Disk, s \in Stripe :
          Effective(d, s)' = Effective(d, s) /\ Image(s)' = Image(s)
    BY <1>3, <1>5 DEF Effective, Image, Live
  <1>7. \A c \in Block : /\ c # b0 => Settled(c) /\ shadow'[c] = shadow[c]
                         /\ c = b0 => shadow'[c] = {req.val}
    BY <1>1, <1>3 DEF Settled, TypeOK
  <1>8. \A c \in Block : ParityStripe(c) = s0 /\ c # b0 => DataDisk(c) # d0
    BY <1>1, BlockInjective
  <1>9. ASSUME NEW s \in Stripe, s \notin torn PROVE Consistent(s)'
    <2>1. Consistent(s) /\ Parity(s) \in Disk
      BY <1>1, <1>9, ParityRange DEF ParityInv
    <2>2. Effective(d0, s0) = req.val
      BY <1>2, <1>3 DEF Effective, Content
    <2>3. \A c \in Block : ParityStripe(c) = s => Effective(DataDisk(c), s)' \in shadow'[c]
      BY <1>1, <1>6, <1>7, <2>1, <2>2, BlockPlace DEF Consistent
    <2>4. platter'[Parity(s)][s] = platter[Parity(s)][s]
      BY <1>1, <1>4, <2>1
    <2> QED BY <1>3, <1>5, <1>6, <2>1, <2>3, <2>4 DEF Consistent, Live, AfterParity
  <1>10. ASSUME NEW s \in Stripe, s \in torn, num_dead_disks = 0
         PROVE  Readable(s)'
    <2>1. Readable(s) /\ Parity(s) \in Disk
      BY <1>1, <1>10, ParityRange DEF ParityInv
    <2>2. platter'[Parity(s)][s] = platter[Parity(s)][s]
      BY <1>1, <1>4, <2>1
    <2>3. ASSUME NEW c \in Block, ParityStripe(c) = s
          PROVE  /\ DataDisk(c) # AfterParity(s) => platter'[DataDisk(c)][s].lo \in shadow'[c]
                 /\ DataDisk(c) = AfterParity(s) => platter'[Parity(s)][s].hi \in shadow'[c]
                 /\ cache'.stripe = s => cache'.slot[DataDisk(c)] \in shadow'[c]
      <3>1. CASE c = b0
        BY <1>1, <1>2, <1>3, <1>4, <1>7, <1>10, <2>2, <2>3, <3>1 DEF Pending
      <3>2. CASE c # b0
        <4>1. platter'[DataDisk(c)][s] = platter[DataDisk(c)][s]
          BY <1>4, <1>8, <2>3, <3>2, BlockPlace
        <4> QED BY <1>3, <1>7, <2>1, <2>2, <2>3, <3>2, <4>1 DEF Readable
      <3> QED BY <3>1, <3>2
    <2> QED BY <2>3 DEF Readable, AfterParity
  <1> QED BY <1>3, <1>9, <1>10 DEF ParityInv


\* The values of an image are blocks.
LEMMA ContentType ==
  ASSUME TypeOK, NEW d \in Disk, NEW s \in Stripe
  PROVE  Content(d, s) \in Word /\ Image(s)[d] = Content(d, s)
  BY DEF Content, Image, TypeOK, Row

LEMMA InvFail ==
  ASSUME ParityInv, TypeInv', NEW x \in Disk, Fail(x)
  PROVE  ParityInv'
  <1>1. /\ TypeInv /\ TypeOK /\ pc = "idle" /\ pc' = "idle" /\ Live(x)
        /\ num_dead_disks' = num_dead_disks + 1 /\ num_dead_disks \in Nat
        /\ UNCHANGED <<cache, platter, pc, req, shadow, torn>>
    BY DEF Fail, ParityInv, TypeInv, TypeOK
  <1>2. \A d \in Disk : Live(d)' <=> Live(d) /\ d # x
    BY <1>1 DEF Fail, Live, TypeOK
  <1>3. \A d, s : Content(d, s)' = Content(d, s) /\ Image(s)' = Image(s)
    BY <1>1 DEF Content, Image
  <1>4. \A c : Settled(c)
    BY <1>1 DEF Settled
  <1>5. ASSUME NEW s \in Stripe, s \notin torn, num_dead_disks' < max_dead_disks
        PROVE  Consistent(s)'
    <2>1. num_dead_disks = 0 /\ num_dead_disks' # 0
      BY <1>1, <1>5 DEF max_dead_disks
    <2>2. Consistent(s) /\ XorOver(Image(s), Disk) = {}
      <3>1. num_dead_disks < max_dead_disks
        BY <2>1 DEF max_dead_disks
      <3>2. Consistent(s)
        BY <1>5, <3>1 DEF ParityInv
      <3> QED BY <2>1, <3>2 DEF Consistent
    <2>3. \A d \in Disk : Live(d)
      BY <1>1, <2>1, NoneDead
    <2>4. XorOver(Image(s), Disk \ {x}) = Content(x, s)
      BY <1>1, <2>2, ContentType, XorRecover
    <2>5. \A d \in Disk : Effective(d, s)' = Effective(d, s)
      <3>1. TAKE d \in Disk
      <3>2. CASE d = x
        BY <1>2, <1>3, <2>3, <2>4, <3>2 DEF Effective
      <3>3. CASE d # x
        BY <1>2, <1>3, <2>3, <3>3 DEF Effective
      <3> QED BY <3>2, <3>3
    <2>6. Parity(s) \in Disk
      BY ParityRange
    <2> QED BY <1>1, <1>2, <1>3, <1>4, <2>1, <2>2, <2>5, <2>6, BlockPlace
            DEF Consistent, AfterParity
  <1>6. num_dead_disks' # 0
    BY <1>1
  <1> QED BY <1>1, <1>5, <1>6 DEF ParityInv

LEMMA InvCrash ==
  ASSUME ParityInv, TypeInv', Crash
  PROVE  ParityInv'
  <1>1. /\ TypeInv /\ TypeOK /\ cache'.stripe = NoStripe /\ pc' = "idle"
        /\ UNCHANGED <<disk_state, num_dead_disks, platter>>
    BY DEF Crash, ParityInv, TypeInv
  <1>2. \A s \in Stripe : cache'.stripe # s
    BY <1>1, ParityAssumption DEF Stripe, NoStripe
  <1>3. \A d, s : /\ Content(d, s)' = platter[d][s].lo
                  /\ (pc = "data" => s # cache.stripe) => Content(d, s)' = Content(d, s)
    BY <1>1 DEF Content
  <1>4. CASE pc # "data"
    <2>1. UNCHANGED <<shadow, torn>>
      BY <1>4 DEF Crash
    <2>2. \A d, s : Content(d, s)' = Content(d, s)
      BY <1>3, <1>4
    <2>3. \A d, s : Effective(d, s)' = Effective(d, s) /\ Image(s)' = Image(s)
      BY <1>1, <2>2 DEF Effective, Image, Live
    <2>4. \A c : Settled(c)
      BY <1>4 DEF Settled
    <2>5. \A s \in Stripe : Consistent(s) => Consistent(s)'
      BY <1>1, <1>2, <2>1, <2>2, <2>3, <2>4 DEF Consistent, Live, AfterParity
    <2>6. \A s \in Stripe : Readable(s) => Readable(s)'
      BY <1>1, <1>2, <2>1, <2>4 DEF Readable, AfterParity
    <2> QED BY <1>1, <2>1, <2>5, <2>6 DEF ParityInv
  <1>5. CASE pc = "data"
    <2> DEFINE b0 == req.blk
               s0 == cache.stripe
    <2>1. /\ torn' = torn \cup {s0}
          /\ shadow' = [shadow EXCEPT ![b0] = @ \cup {req.val}]
      BY <1>5 DEF Crash
    <2>2. /\ b0 \in Block /\ s0 = ParityStripe(b0) /\ s0 \in Stripe /\ Pending
          /\ num_dead_disks < max_dead_disks
      BY <1>5, BlockPlace DEF ParityInv, TypeInv
    <2>3. \A c \in Block : /\ c # b0 => shadow'[c] = shadow[c] /\ Settled(c)
                           /\ shadow[c] \subseteq shadow'[c]
                           /\ c = b0 => req.val \in shadow'[c]
      BY <1>1, <2>1, <2>2 DEF TypeOK, Settled
    <2>4. ASSUME NEW s \in Stripe, s \notin torn' PROVE Consistent(s)'
      <3>1. s # s0 /\ Consistent(s)
        BY <2>1, <2>2, <2>4 DEF ParityInv
      <3>2. \A d : Content(d, s)' = Content(d, s)
        BY <1>3, <3>1
      <3>3. \A d : Effective(d, s)' = Effective(d, s) /\ Image(s)' = Image(s)
        BY <1>1, <3>2 DEF Effective, Image, Live
      <3>4. \A c \in Block : ParityStripe(c) = s => c # b0
        BY <2>2, <3>1
      <3> QED BY <1>1, <1>2, <2>3, <3>1, <3>2, <3>3, <3>4 DEF Consistent, Live, AfterParity
    <2>5. ASSUME NEW s \in Stripe, s \in torn', num_dead_disks = 0 PROVE Readable(s)'
      <3>1. ASSUME NEW c \in Block, ParityStripe(c) = s
            PROVE  /\ DataDisk(c) # AfterParity(s) => platter[DataDisk(c)][s].lo \in shadow'[c]
                   /\ DataDisk(c) = AfterParity(s) => platter[Parity(s)][s].hi \in shadow'[c]
        <4>1. CASE c = b0
          BY <2>2, <2>3, <2>5, <3>1, <4>1 DEF Pending
        <4>2. CASE c # b0 /\ s \in torn
          <5>1. Readable(s)
            BY <2>2, <2>5, <4>2 DEF ParityInv
          <5> QED BY <2>3, <3>1, <4>2, <5>1 DEF Readable
        <4>3. CASE c # b0 /\ s \notin torn
          <5>1. Consistent(s) /\ s = s0 /\ Parity(s) \in Disk /\ DataDisk(c) \in Disk
            BY <2>1, <2>2, <2>5, <4>3, ParityRange, BlockPlace DEF ParityInv
          <5>2. Live(Parity(s)) /\ Live(DataDisk(c))
            BY <1>1, <2>5, <5>1, NoneDead
          <5>3. DataDisk(c) # DataDisk(b0)
            BY <2>2, <3>1, <4>3, <5>1, BlockInjective
          <5>4. Content(DataDisk(c), s) = platter[DataDisk(c)][s].lo
            BY <5>3 DEF Content
          <5>5. Content(DataDisk(c), s) \in shadow[c]
            BY <2>3, <3>1, <4>3, <5>1, <5>2, ZenonT(30) DEF Consistent, Effective
          <5> QED BY <2>3, <5>1, <5>2, <5>4, <5>5 DEF Consistent
        <4> QED BY <4>1, <4>2, <4>3
      <3> QED BY <1>1, <1>2, <3>1 DEF Readable, AfterParity
    <2> QED BY <1>1, <2>4, <2>5 DEF ParityInv
  <1> QED BY <1>4, <1>5


LEMMA InvWriteParity ==
  ASSUME ParityInv, TypeInv', ~WriteDead,
         NEW b \in Block, NEW v \in Word, WriteParity(b, v)
  PROVE  ParityInv'
  <1> DEFINE d0 == DataDisk(b)
             s0 == ParityStripe(b)
             p0 == Parity(s0)
             old == WriteSlots(b)
             new == Updated(old, d0, p0, v)
  <1>1. /\ TypeInv /\ TypeOK /\ Serving /\ pc = "idle"
        /\ num_dead_disks < max_dead_disks /\ num_dead_disks \in Nat
        /\ s0 \in Stripe /\ d0 \in Disk /\ p0 \in Disk /\ d0 # p0
        /\ d0 \in Slot /\ p0 \in Slot /\ old \in [Slot -> Word]
    <2>1. TypeInv /\ TypeOK
      BY DEF ParityInv, TypeInv
    <2>2. Serving /\ pc = "idle" /\ num_dead_disks < max_dead_disks
      BY DEF WriteParity, Serving
    <2>3. num_dead_disks \in Nat
      BY <2>1, DisksAssumption DEF TypeOK
    <2>4. s0 \in Stripe /\ d0 \in Disk /\ p0 \in Disk /\ d0 # p0
      BY BlockPlace
    <2>5. d0 \in Slot /\ p0 \in Slot
      BY <2>4, SlotOfDisk
    <2>6. old \in [Slot -> Word]
      BY <2>1, SlotsType
    <2> QED BY <2>1, <2>2, <2>3, <2>4, <2>5, <2>6
  <1>2. /\ Live(d0)
        /\ cache' = [stripe |-> s0, parity |-> p0, slot |-> new]
        /\ platter' = Flushed(new, p0, s0)
        /\ pc' = "data" /\ req' = [blk |-> b, val |-> v]
        /\ UNCHANGED <<disk_state, num_dead_disks, shadow, torn>>
    BY DEF WriteParity
  <1>3. /\ new[d0] = v
        /\ new[p0] = Xor(Xor(old[p0], old[d0]), v)
        /\ \A e \in Slot \ {d0, p0} : new[e] = old[e]
    BY <1>1 DEF Updated
  <1>4. \A e \in Disk, s \in Stripe :
          /\ ~(e = p0 /\ s = s0) => platter'[e][s] = platter[e][s]
          /\ Live(p0) => platter'[p0][s0] = [lo |-> new[p0], hi |-> new[p0 + 1]]
          /\ ~Live(p0) => platter' = platter
    <2> HIDE DEF new, p0, s0
    <2> QED BY <1>1, <1>2 DEF Flushed, TypeOK
  <1> HIDE DEF old, new, d0, s0, p0
  <1>0. s0 \in Stripe /\ d0 \in Disk /\ p0 \in Disk /\ d0 # p0
    BY <1>1
  <1>14. ASSUME Live(p0)
         PROVE  platter'[p0][s0].lo = new[p0] /\ platter'[p0][s0].hi = new[p0 + 1]
    <2>1. platter'[p0][s0] = [lo |-> new[p0], hi |-> new[p0 + 1]]
      BY ONLY <1>0, <1>4, <1>14
    <2> QED BY ONLY <2>1
  <1>5. \A e \in Disk, s \in Stripe :
          /\ Content(e, s) = platter[e][s].lo
          /\ Content(e, s)' = IF s = s0 /\ e = d0 THEN v ELSE platter'[e][s].lo
    BY <1>1, <1>2 DEF Content, d0
  <1>6. \A c \in Block : (Settled(c)' <=> c # b) /\ Settled(c)
    BY <1>1, <1>2 DEF Settled
  <1>7. \A e \in Disk : Live(e)' = Live(e)
    BY <1>2 DEF Live
  <1>8. \A c \in Block : c # b /\ ParityStripe(c) = s0 =>
          DataDisk(c) \in Disk /\ DataDisk(c) # d0 /\ DataDisk(c) # p0
    BY BlockInjective, BlockPlace DEF d0, s0, p0
  \* The other stripes are as they were.
  <1>9. ASSUME NEW s \in Stripe, s # s0, s \notin torn PROVE Consistent(s)'
    <2>1. Consistent(s) /\ Parity(s) \in Disk
      BY <1>1, <1>9, ParityRange DEF ParityInv
    <2>2. \A e \in Disk : platter'[e][s] = platter[e][s] /\ Content(e, s)' = Content(e, s)
      BY <1>4, <1>5, <1>9
    <2>3. Image(s)' = Image(s)
      BY <2>2 DEF Image
    <2>4. \A e \in Disk : Effective(e, s)' = Effective(e, s)
      BY <1>7, <2>2, <2>3 DEF Effective
    <2> QED BY <1>2, <1>6, <1>7, <1>9, <2>1, <2>2, <2>3, <2>4, BlockPlace
            DEF Consistent, AfterParity
  <1>10. ASSUME NEW s \in Stripe, s # s0, s \in torn, num_dead_disks = 0
         PROVE  Readable(s)'
    <2>1. Readable(s) /\ Parity(s) \in Disk
      BY <1>1, <1>10, ParityRange DEF ParityInv
    <2>2. \A e \in Disk : platter'[e][s] = platter[e][s]
      BY <1>4, <1>10
    <2> QED BY <1>2, <1>6, <1>10, <2>1, <2>2, BlockPlace DEF Readable, AfterParity
  \* The stripe that is written, consistent before.
  <1>11. ASSUME s0 \notin torn
         PROVE  /\ Consistent(s0)'
                /\ platter'[d0][s0].lo \in shadow[b]
    <2>1. Consistent(s0) /\ Faithful(old, s0)
      BY <1>1, <1>11, SlotsFaithful DEF ParityInv, old, s0
    <2>2. \A e \in Disk : Live(e) => new[e] = Content(e, s0)'
      <3>1. SUFFICES ASSUME NEW e \in Disk, Live(e) PROVE new[e] = Content(e, s0)'
        OBVIOUS
      <3>2. Content(e, s0)' = IF e = d0 THEN v ELSE platter'[e][s0].lo
        BY <1>0, <1>5
      <3>3. CASE e = d0
        BY <1>3, <3>2, <3>3
      <3>4. CASE e = p0
        <4>1. platter'[p0][s0].lo = new[p0]
          BY <1>14, <3>1, <3>4
        <4> QED BY <1>0, <3>2, <3>4, <4>1
      <3>5. CASE e # d0 /\ e # p0
        <4>1. new[e] = old[e] /\ old[e] = Content(e, s0)
          BY <1>3, <2>1, <3>1, <3>5, SlotOfDisk DEF Faithful
        <4>2. Content(e, s0) = platter[e][s0].lo /\ platter'[e][s0] = platter[e][s0]
          BY <1>0, <1>4, <1>5, <3>5
        <4> QED BY <3>2, <3>5, <4>1, <4>2
      <3> QED BY <3>3, <3>4, <3>5
    <2>3. \A e \in Disk \ {d0, p0} : Content(e, s0)' = Content(e, s0)
      <3>1. TAKE e \in Disk \ {d0, p0}
      <3>2. platter'[e][s0] = platter[e][s0]
        BY <1>0, <1>4
      <3>3. Content(e, s0) = platter[e][s0].lo /\ Content(e, s0)' = platter'[e][s0].lo
        BY <1>0, <1>5
      <3> QED BY <3>2, <3>3
    <2>4. \A e \in Disk : Image(s0)'[e] = Content(e, s0)' /\ Image(s0)[e] = Content(e, s0)
      BY DEF Image
    <2>5. ASSUME NEW T \in SUBSET Disk, d0 \in T, p0 \in T, Live(p0)
          PROVE  XorOver(Image(s0)', T) = XorOver(Image(s0), T)
      <3>1. old[d0] = Content(d0, s0) /\ old[p0] = Content(p0, s0)
        BY <1>1, <1>2, <2>1, <2>5 DEF Faithful
      <3>2. /\ Content(d0, s0)' = v
            /\ Content(p0, s0)' = Xor(Xor(Content(p0, s0), Content(d0, s0)), v)
        BY <1>1, <1>2, <1>3, <2>2, <2>5, <3>1
      <3> DEFINE f == Image(s0)
                 g == Image(s0)'
      <3>3. /\ g[d0] = v /\ g[p0] = Xor(Xor(f[p0], f[d0]), v)
            /\ \A j \in T \ {p0, d0} : g[j] = f[j]
        BY <1>1, <2>3, <2>4, <3>2
      <3> HIDE DEF f, g
      <3>4. XorOver(g, T) = XorOver(f, T)
        BY <1>1, <2>5, <3>3, XorUpdate
      <3> QED BY <3>4 DEF f, g
    <2>6. num_dead_disks = 0 => XorOver(Image(s0)', Disk) = {}
      BY <1>1, <2>1, <2>5, NoneDead DEF Consistent
    <2>7. ASSUME NEW c \in Block, ParityStripe(c) = s0, c # b
          PROVE  Effective(DataDisk(c), s0)' \in shadow[c]
      <3> DEFINE e == DataDisk(c)
      <3>1. e \in Disk /\ e # d0 /\ e # p0
        BY <1>8, <2>7
      <3>2. Effective(e, s0) \in shadow[c]
        BY <1>6, <2>1, <2>7 DEF Consistent
      <3>3. Effective(e, s0)' = Effective(e, s0)
        <4> HIDE DEF e
        <4>1. CASE Live(e)
          BY <1>7, <2>3, <3>1, <4>1 DEF Effective
        <4>2. CASE ~Live(e)
          <5>1. Live(p0)
            BY <1>1, <3>1, <4>2, OneDead
          <5>2. XorOver(Image(s0)', Disk \ {e}) = XorOver(Image(s0), Disk \ {e})
            BY <1>1, <2>5, <3>1, <5>1
          <5> QED BY <1>7, <3>1, <4>2, <5>2 DEF Effective
        <4> QED BY <4>1, <4>2
      <3> QED BY <3>2, <3>3
    <2>8. Live(p0) /\ AfterParity(s0) \in Disk /\ Live(AfterParity(s0)) =>
            platter'[p0][s0].hi = Content(AfterParity(s0), s0)'
      <3>1. AfterParity(s0) = p0 + 1
        BY DEF AfterParity, p0
      <3>2. Live(p0) => platter'[p0][s0].hi = new[p0 + 1]
        BY <1>14
      <3> QED BY <2>2, <3>1, <3>2
    <2>9. Consistent(s0)'
      <3>1. cache'.slot = new
        BY <1>2
      <3> QED BY <1>1, <1>2, <1>6, <1>7, <2>2, <2>6, <2>7, <2>8, <3>1, ZenonT(30)
              DEF Consistent, AfterParity, p0
    <2>10. platter'[d0][s0].lo \in shadow[b]
      <3>1. Effective(d0, s0) \in shadow[b]
        BY <1>6, <2>1 DEF Consistent, d0, s0
      <3>2. Effective(d0, s0) = Content(d0, s0)
        BY <1>2 DEF Effective
      <3>3. Content(d0, s0) = platter[d0][s0].lo
        BY <1>0, <1>5
      <3>4. platter'[d0][s0] = platter[d0][s0]
        BY <1>0, <1>4
      <3> QED BY <3>1, <3>2, <3>3, <3>4
    <2> QED BY <2>9, <2>10
  \* ... and half written before.
  <1>12. ASSUME s0 \in torn, num_dead_disks = 0
         PROVE  /\ Readable(s0)'
                /\ d0 # AfterParity(s0) => platter'[d0][s0].lo \in shadow[b]
    <2>1. Readable(s0)
      BY <1>1, <1>12 DEF ParityInv
    <2>2. \A c \in Block : ParityStripe(c) = s0 => old[DataDisk(c)] \in shadow[c]
      BY <1>1, <1>12, SlotsReadable DEF old, s0
    <2>3. Live(p0)
      BY <1>1, <1>12, NoneDead
    <2>4. ASSUME NEW c \in Block, ParityStripe(c) = s0, c # b
          PROVE  /\ new[DataDisk(c)] \in shadow[c]
                 /\ platter'[DataDisk(c)][s0] = platter[DataDisk(c)][s0]
      BY <1>1, <1>3, <1>4, <1>8, <2>2, <2>4, SlotOfDisk
    <2>5. platter'[p0][s0].hi = new[AfterParity(s0)]
      BY <1>1, <1>4, <2>3 DEF AfterParity, p0
    <2>6. Readable(s0)'
      <3>1. cache'.slot = new
        BY <1>2
      <3> QED BY <1>2, <1>6, <2>1, <2>4, <2>5, <3>1, ZenonT(30) DEF Readable, AfterParity, p0
    <2>7. d0 # AfterParity(s0) => platter'[d0][s0].lo \in shadow[b]
      BY <1>1, <1>4, <1>6, <2>1 DEF Readable, d0, s0
    <2> QED BY <2>6, <2>7
  <1>13. Pending'
    <2>1. /\ req'.blk = b /\ cache'.stripe = s0 /\ cache'.slot[d0] = req'.val
          /\ num_dead_disks' = num_dead_disks /\ Live(d0)'
      BY <1>1, <1>2, <1>3, <1>7
    <2>2. ASSUME num_dead_disks = 0
          PROVE  /\ d0 # AfterParity(s0) => platter'[d0][s0].lo \in shadow'[b]
                 /\ d0 = AfterParity(s0) => platter'[p0][s0].hi = v
      <3>1. Live(p0)
        BY <1>1, <2>2, NoneDead
      <3>2. d0 # AfterParity(s0) => platter'[d0][s0].lo \in shadow[b]
        BY <1>11, <1>12, <2>2
      <3>3. AfterParity(s0) = p0 + 1
        BY DEF AfterParity, p0
      <3>4. platter'[p0][s0].hi = new[p0 + 1]
        BY <1>14, <3>1
      <3> QED BY <1>2, <1>3, <3>2, <3>3, <3>4
    <2> QED BY <1>2, <2>1, <2>2 DEF Pending, AfterParity, d0, p0
  <1> QED BY <1>1, <1>2, <1>9, <1>10, <1>11, <1>12, <1>13 DEF ParityInv, p0

-----------------------------------------------------------------------------
(* The theorems. *)

\* The disks are not repaired, blocks on a dead disk are not written, and the
\* array was created on zeroed disks.
FailOnly == ~Repairs /\ ~WriteDead /\ FreshDisks

LEMMA InvNext ==
  ASSUME FailOnly
  PROVE  ParityInv /\ [Next]_vars => ParityInv'
  <1> SUFFICES ASSUME ParityInv, [Next]_vars PROVE ParityInv'
    OBVIOUS
  <1>1. TypeInv'
    BY TypeInvNext DEF ParityInv
  <1>2. CASE UNCHANGED vars
    <2>1. UNCHANGED <<disk_state, num_dead_disks, cache, platter, pc, req, shadow, torn>>
      BY <1>2 DEF vars
    <2>2. /\ \A d, s : Content(d, s)' = Content(d, s)
          /\ \A d : Live(d)' = Live(d)
          /\ \A c : Settled(c)' = Settled(c)
      BY <2>1 DEF Content, Live, Settled
    <2>3. \A d, s : Effective(d, s)' = Effective(d, s) /\ Image(s)' = Image(s)
      BY <2>2 DEF Effective, Image
    <2>4. \A s : Consistent(s) => Consistent(s)'
      BY <2>1, <2>2, <2>3 DEF Consistent, AfterParity
    <2>5. \A s : Readable(s) => Readable(s)'
      BY <2>1, <2>2 DEF Readable, AfterParity
    <2>6. Pending => Pending'
      BY <2>1, <2>2 DEF Pending, AfterParity
    <2> QED BY <1>1, <2>1, <2>4, <2>5, <2>6 DEF ParityInv
  <1>3. ~WriteDead /\ \A d \in Disk : ~Repair(d)
    BY DEF FailOnly, Repair
  <1> QED BY <1>1, <1>2, <1>3, InvRead, InvWriteParity, InvWriteData, InvFail, InvCrash
          DEF Next, Refuse

\* A reboot between the two disk writes of write_raid4/write_raid5 costs
\* nothing while all disks live, and after a later disk failure it can only
\* have spoiled the stripe that was being written: for any number of disks,
\* stripes and bits, as long as disks only fail and the reboots are those after
\* which fetch() restores the metadata (MetadataSurvives).
THEOREM CrashContainment ==
  ASSUME FailOnly
  PROVE  Spec => []CrashContained
  <1>1. Init => ParityInv
    BY InvInit DEF FailOnly
  <1> QED BY <1>1, InvNext, InvContained, PTL DEF Spec

\* Without reboots no stripe is ever torn ...
LEMMA NoTear ==
  ASSUME ~Crashes
  PROVE  Spec => [](torn = {})
  <1>1. Init => torn = {}
    BY DEF Init
  <1>2. torn = {} /\ [Next]_vars => (torn = {})'
    BY ZenonT(30) DEF Next, vars, Read, WriteParity, WriteData, Refuse, Fail, Repair, Crash
  <1> QED BY <1>1, <1>2, PTL DEF Spec

\* ... so every read that read_raid4/read_raid5 answers with 0 delivers the
\* value last written, with one dead disk as with none.
THEOREM SurvivesOneDisk ==
  ASSUME FailOnly, ~Crashes
  PROVE  Spec => []ReadsCorrect
  <1>1. CrashContained /\ torn = {} => ReadsCorrect
    BY DEF CrashContained, ReadsCorrect
  <1> QED BY <1>1, CrashContainment, NoTear, PTL

-----------------------------------------------------------------------------
(* The array implements BlockStore. *)

\* What block b holds for the client: a write takes effect with the write of
\* its parity, when the new value is in the cache.
Meaning(b) == IF pc = "data" /\ b = req.blk THEN {req.val} ELSE shadow[b]

\* Without reboots every block has one value.
OneValue ==
  /\ torn = {}
  /\ \A b \in Block : \E w \in Word : shadow[b] = {w}

LEMMA OneValueInit ==
  ASSUME FreshDisks
  PROVE  Init => OneValue
  BY ZenonT(30) DEF Init, OneValue, Word

LEMMA OneValueNext ==
  ASSUME ~Crashes
  PROVE  TypeInv /\ OneValue /\ [Next]_vars => OneValue'
  <1> SUFFICES ASSUME TypeInv, OneValue, [Next]_vars PROVE OneValue'
    OBVIOUS
  <1>1. CASE WriteData
    <2>1. req.blk \in Block /\ req.val \in Word /\ shadow \in [Block -> SUBSET Word]
      BY <1>1 DEF WriteData, TypeInv, TypeOK
    <2>2. torn' = torn /\ shadow' = [shadow EXCEPT ![req.blk] = {req.val}]
      BY <1>1 DEF WriteData
    <2>3. \A b \in Block : shadow'[b] = shadow[b] \/ shadow'[b] = {req.val}
      BY <2>1, <2>2
    <2> QED BY <2>1, <2>2, <2>3 DEF OneValue
  <1>2. CASE ~WriteData
    <2>1. UNCHANGED <<shadow, torn>>
      BY <1>2 DEF Next, vars, Read, WriteParity, Refuse, Fail, Repair, Crash
    <2> QED BY <2>1 DEF OneValue
  <1> QED BY <1>1, <1>2

\* In every state, also between the two writes of a request, a read would
\* return what the block means.
LEMMA ReadsMeaning ==
  ASSUME ParityInv, OneValue, num_dead_disks < max_dead_disks, NEW b \in Block
  PROVE  {ReadValue(b)} = Meaning(b)
  <1> DEFINE s == ParityStripe(b)
             d == DataDisk(b)
  <1>1. s \in Stripe /\ s \notin torn
    BY BlockPlace DEF OneValue
  <1>2. ReadValue(b) = Effective(d, s) /\ Consistent(s)
    BY <1>1, SlotsFaithful DEF ParityInv
  <1>3. CASE pc = "data" /\ b = req.blk
    <2>1. Live(d) /\ cache.stripe = s
      BY <1>3 DEF ParityInv, Pending, TypeInv
    <2>2. Effective(d, s) = req.val
      BY <1>3, <2>1 DEF Effective, Content
    <2> QED BY <1>2, <1>3, <2>2 DEF Meaning
  <1>4. CASE ~(pc = "data" /\ b = req.blk)
    <2>1. Effective(d, s) \in shadow[b]
      BY <1>2, <1>4 DEF Consistent, Settled
    <2>2. PICK w \in Word : shadow[b] = {w}
      BY DEF OneValue
    <2> QED BY <1>2, <1>4, <2>1, <2>2 DEF Meaning
  <1> QED BY <1>3, <1>4

StoreMap ==
  [b \in Block |-> IF num_dead_disks < max_dead_disks THEN {ReadValue(b)} ELSE {}]

Seen ==
  [b \in Block |-> IF num_dead_disks < max_dead_disks THEN Meaning(b) ELSE {}]

LEMMA StoreIsSeen ==
  ParityInv /\ OneValue => StoreMap = Seen
  BY ReadsMeaning DEF StoreMap, Seen

LEMMA MeaningType ==
  ASSUME TypeInv, OneValue, NEW b \in Block
  PROVE  \E w \in Word : Meaning(b) = {w}
  BY DEF OneValue, Meaning, TypeInv, TypeOK

LEMMA RefinesInit ==
  ASSUME FailOnly, Init
  PROVE  StoreMap = [b \in Block |-> {{}}]
  <1>1. ParityInv /\ OneValue
    BY InvInit, OneValueInit DEF FailOnly
  <1>2. \A b \in Block : Meaning(b) = {{}}
    BY DEF Init, Meaning, FailOnly
  <1>3. num_dead_disks < max_dead_disks
    BY DEF Init, max_dead_disks
  <1> QED BY <1>1, <1>2, <1>3, StoreIsSeen DEF Seen

\* The steps of the array: a write of the parity writes the block, the
\* failure of a second disk loses the blocks, and nothing else is seen.
LEMMA RefinesNext ==
  ASSUME FailOnly, ~Crashes, TypeInv, OneValue, [Next]_vars
  PROVE  \/ Seen' = Seen
         \/ Seen' = [b \in Block |-> {}]
         \/ \E b \in Block, w \in Word : Seen[b] # {} /\ Seen' = [Seen EXCEPT ![b] = {w}]
  <1>1. ASSUME NEW b \in Block, Read(b) PROVE Seen' = Seen
    <2>1. \A c : Meaning(c)' = Meaning(c)
      BY <1>1 DEF Read, Meaning
    <2> QED BY <1>1, <2>1 DEF Read, Seen, max_dead_disks
  <1>2. ASSUME NEW b \in Block, NEW w \in Word, WriteParity(b, w)
        PROVE  Seen[b] # {} /\ Seen' = [Seen EXCEPT ![b] = {w}]
    <2>1. /\ num_dead_disks < max_dead_disks /\ pc = "idle" /\ pc' = "data"
          /\ req' = [blk |-> b, val |-> w]
          /\ UNCHANGED <<num_dead_disks, shadow>>
      BY <1>2 DEF WriteParity, Serving
    <2>2. \A c \in Block : Meaning(c)' = IF c = b THEN {w} ELSE Meaning(c)
      BY <2>1 DEF Meaning
    <2>3. Meaning(b) # {}
      BY MeaningType
    <2> QED BY <2>1, <2>2, <2>3, ZenonT(30) DEF Seen, max_dead_disks
  <1>3. ASSUME WriteData PROVE Seen' = Seen
    <2>1. /\ pc = "data" /\ pc' = "idle" /\ UNCHANGED num_dead_disks
          /\ shadow' = [shadow EXCEPT ![req.blk] = {req.val}]
          /\ shadow \in [Block -> SUBSET Word] /\ req.blk \in Block
      BY <1>3 DEF WriteData, TypeInv, TypeOK
    <2>2. \A c \in Block : Meaning(c)' = Meaning(c)
      BY <2>1 DEF Meaning
    <2> QED BY <2>1, <2>2 DEF Seen, max_dead_disks
  <1>4. ASSUME NEW x \in Disk, Fail(x) PROVE Seen' = Seen \/ Seen' = [b \in Block |-> {}]
    <2>1. num_dead_disks \in Nat /\ num_dead_disks' = num_dead_disks + 1
      BY <1>4 DEF Fail, TypeInv, TypeOK
    <2>2. \A c : Meaning(c)' = Meaning(c)
      BY <1>4 DEF Fail, Meaning
    <2> QED BY <2>1, <2>2 DEF Seen, max_dead_disks
  <1>5. ASSUME UNCHANGED vars PROVE Seen' = Seen
    <2>1. \A c : Meaning(c)' = Meaning(c)
      BY <1>5 DEF vars, Meaning
    <2> QED BY <1>5, <2>1 DEF vars, Seen, max_dead_disks
  <1> QED BY <1>1, <1>2, <1>3, <1>4, <1>5 DEF Next, Refuse, Repair, Crash, FailOnly

\* RAID4 and RAID5 implement a single disk for any number of disks, stripes
\* and bits, as long as disks only fail, dead disks are not written and the
\* machine does not reboot: a write changes what one block reads as, at its
\* parity write, and nothing else does until a second disk fails (write_raid4,
\* write_raid5, disk_fail_raid).
THEOREM ImplementsOneDisk ==
  ASSUME FailOnly, ~Crashes
  PROVE  Spec => ActsAsOneDisk
  <1> DEFINE Inv == ParityInv /\ OneValue
  <1>1. Init => Inv
    BY InvInit, OneValueInit DEF FailOnly
  <1>2. Inv /\ [Next]_vars => Inv'
    BY InvNext, OneValueNext DEF ParityInv
  <1>3. Init => Store!Init
    BY RefinesInit DEF Store!Init, StoreMap
  <1>4. Inv => StoreMap = Seen
    BY StoreIsSeen
  <1>5. Inv /\ StoreMap = Seen /\ (StoreMap = Seen)' /\ [Next]_vars
          => [Store!Next]_StoreMap
    <2> SUFFICES ASSUME Inv, StoreMap = Seen, StoreMap' = Seen', [Next]_vars
                 PROVE  Store!Next \/ StoreMap' = StoreMap
      OBVIOUS
    <2>1. CASE Seen' = [b \in Block |-> {}]
      BY <2>1 DEF Store!Next, Store!Lose, StoreMap
    <2>2. ASSUME NEW b \in Block, NEW w \in Word,
                 Seen[b] # {}, Seen' = [Seen EXCEPT ![b] = {w}]
          PROVE  Store!Next
      <3>1. Store!Write(b, {w})
        BY <2>2 DEF Store!Write, StoreMap
      <3> QED BY <3>1 DEF Store!Next
    <2> QED BY <2>1, <2>2, RefinesNext DEF ParityInv
  <1> HIDE DEF Inv
  <1> QED BY <1>1, <1>2, <1>3, <1>4, <1>5, PTL DEF Spec, ActsAsOneDisk, Store!Spec, StoreMap

-----------------------------------------------------------------------------
(* The data of disks that never failed. *)

Whole(d) == disk_state[d] = "ALIVE"

\* What is kept for a block of a disk that never failed: its row, the half row
\* behind the parity that cache() puts over its slot, and its slot.
Kept(b) ==
  LET d == DataDisk(b)  s == ParityStripe(b)  p == Parity(s)
  IN  /\ platter[d][s].lo \in shadow[b]
      /\ d = AfterParity(s) /\ Live(p) => platter[p][s].hi \in Meaning(b)
      /\ cache.stripe = s => cache.slot[d] \in Meaning(b)

HealthyInv ==
  /\ TypeInv
  /\ \A b \in Block : Whole(DataDisk(b)) => Kept(b)

\* A parity row that missed writes is not used again: the parity of RAID4 is on
\* the last disk, so nothing is behind it, and that of RAID5 is not repaired.
NoStaleParity == Type = "RAID4" \/ ~Repairs

LEMMA HealthySlots ==
  ASSUME HealthyInv, pc = "idle", NEW b \in Block, NEW c \in Block,
         ParityStripe(c) = ParityStripe(b), Whole(DataDisk(c))
  PROVE  /\ ReadSlots(b)[DataDisk(c)] \in shadow[c]
         /\ WriteSlots(b)[DataDisk(c)] \in shadow[c]
  <1> DEFINE d == DataDisk(b)
             e == DataDisk(c)
             s == ParityStripe(b)
  <1>1. /\ TypeOK /\ s \in Stripe /\ d \in Disk /\ e \in Disk /\ e \in Slot
        /\ Live(e) /\ e # Parity(s) /\ Parity(s) \in Disk
    BY BlockPlace, SlotOfDisk DEF HealthyInv, TypeInv, Whole, Live
  <1>2. /\ Kept(c) /\ Meaning(c) = shadow[c]
    BY DEF HealthyInv, Meaning
  <1>3. Loaded(s)[e] \in shadow[c] /\ Loaded(s) \in [Slot -> Word]
    BY <1>1, <1>2, LoadedAt, LoadedType DEF Kept
  <1>4. cache.stripe = s => cache.slot[e] \in shadow[c]
    BY <1>2 DEF Kept
  <1>5. ASSUME NEW slot \in [Slot -> Word], NEW p, ~Live(d)
        PROVE  Recovered(slot, d, p)[e] = slot[e]
    BY <1>1, <1>5 DEF Recovered
  <1>6. Missed(b)[e] \in shadow[c]
    BY <1>3, <1>5 DEF Missed
  <1>7. cache.slot \in [Slot -> Word]
    BY <1>1 DEF TypeOK
  <1> QED BY <1>4, <1>5, <1>6, <1>7 DEF ReadSlots, WriteSlots, Hit

LEMMA HealthyInit ==
  Init => HealthyInv
  <1> SUFFICES ASSUME Init PROVE HealthyInv
    OBVIOUS
  <1>1. TypeInv
    BY TypeInvInit
  <1>2. ASSUME NEW b \in Block PROVE Kept(b)
    <2>1. /\ ParityStripe(b) \in Stripe /\ DataDisk(b) \in Disk
          /\ Parity(ParityStripe(b)) \in Disk
      BY BlockPlace
    <2>2. \A d \in Disk, s \in Stripe :
            platter[d][s].lo \in shadow[b] /\ platter[d][s].hi \in shadow[b]
      BY DEF Init, ZeroRow, Row
    <2>3. Meaning(b) = shadow[b] /\ cache.stripe # ParityStripe(b)
      <3>1. pc = "idle" /\ cache.stripe = NoStripe
        BY DEF Init
      <3>2. Meaning(b) = shadow[b]
        BY <3>1 DEF Meaning
      <3> QED BY <2>1, <3>1, <3>2, ParityAssumption DEF NoStripe, Stripe
    <2> QED BY <2>1, <2>2, <2>3 DEF Kept
  <1> QED BY <1>1, <1>2 DEF HealthyInv

LEMMA HealthyRead ==
  ASSUME HealthyInv, TypeInv', NEW b \in Block, Read(b)
  PROVE  HealthyInv'
  <1>1. /\ pc = "idle"
        /\ cache' = [stripe |-> ParityStripe(b), parity |-> Parity(ParityStripe(b)),
                     slot |-> ReadSlots(b)]
        /\ UNCHANGED <<disk_state, platter, pc, req, shadow>>
    BY DEF Read, Serving
  <1>2. \A c : Meaning(c)' = Meaning(c) /\ Meaning(c) = shadow[c]
    BY <1>1 DEF Meaning
  <1>3. ASSUME NEW c \in Block, Whole(DataDisk(c))' PROVE Kept(c)'
    <2>1. Whole(DataDisk(c)) /\ Kept(c)
      BY <1>1, <1>3 DEF Whole, HealthyInv
    <2>2. ParityStripe(c) = ParityStripe(b) => ReadSlots(b)[DataDisk(c)] \in shadow[c]
      BY <1>1, <2>1, HealthySlots
    <2> QED BY <1>1, <1>2, <2>1, <2>2 DEF Kept, Live, AfterParity
  <1> QED BY <1>3 DEF HealthyInv

LEMMA HealthyWriteParity ==
  ASSUME HealthyInv, TypeInv', NEW b \in Block, NEW v \in Word, WriteParity(b, v)
  PROVE  HealthyInv'
  <1> DEFINE d0 == DataDisk(b)
             s0 == ParityStripe(b)
             p0 == Parity(s0)
             old == WriteSlots(b)
             new == Updated(old, d0, p0, v)
  <1>1. /\ TypeOK /\ s0 \in Stripe /\ d0 \in Disk /\ p0 \in Disk /\ d0 # p0
        /\ d0 \in Slot /\ p0 \in Slot /\ p0 + 1 \in Slot /\ old \in [Slot -> Word]
    BY BlockPlace, SlotOfDisk, SlotsType DEF HealthyInv, TypeInv
  <1>2. /\ pc = "idle" /\ pc' = "data" /\ req' = [blk |-> b, val |-> v]
        /\ cache' = [stripe |-> s0, parity |-> p0, slot |-> new]
        /\ platter' = Flushed(new, p0, s0)
        /\ UNCHANGED <<disk_state, shadow>>
    BY DEF WriteParity, Serving
  <1>3. new[d0] = v /\ \A e \in Slot \ {d0, p0} : new[e] = old[e]
    BY <1>1 DEF Updated
  <1> HIDE DEF old, new, p0
  <1>4. \A e \in Disk, s \in Stripe :
          /\ ~(e = p0 /\ s = s0) => platter'[e][s] = platter[e][s]
          /\ Live(p0) => platter'[p0][s0].hi = new[p0 + 1]
    <2> HIDE DEF s0
    <2> QED BY <1>1, <1>2 DEF Flushed, TypeOK
  <1>5. \A c \in Block : /\ Meaning(c)' = IF c = b THEN {v} ELSE shadow[c]
                         /\ Meaning(c) = shadow[c]
    BY <1>2 DEF Meaning
  <1>6. ASSUME NEW c \in Block, Whole(DataDisk(c))' PROVE Kept(c)'
    <2> DEFINE e == DataDisk(c)
               s == ParityStripe(c)
    <2>1. /\ Whole(e) /\ Kept(c) /\ s \in Stripe /\ e \in Disk /\ e \in Slot
          /\ Parity(s) \in Disk /\ e # Parity(s)
      BY <1>2, <1>6, BlockPlace, SlotOfDisk DEF Whole, HealthyInv
    <2>2. CASE s # s0
      <3>1. platter'[e][s] = platter[e][s] /\ platter'[Parity(s)][s] = platter[Parity(s)][s]
        BY <1>4, <2>1, <2>2
      <3>2. c # b
        BY <2>2
      <3> QED BY <1>2, <1>5, <2>1, <2>2, <3>1, <3>2 DEF Kept, Live, AfterParity
    <2>3. CASE s = s0
      <3>1. Parity(s) = p0 /\ platter'[e][s] = platter[e][s]
        BY <1>4, <2>1, <2>3 DEF p0
      <3>2. new[e] \in Meaning(c)'
        <4>1. CASE c = b
          BY <1>3, <1>5, <4>1
        <4>2. CASE c # b
          <5>1. e # d0
            BY <2>3, <4>2, BlockInjective
          <5>2. old[e] \in shadow[c]
            BY <1>2, <2>1, <2>3, HealthySlots DEF old
          <5> QED BY <1>3, <1>5, <2>1, <3>1, <4>2, <5>1, <5>2
        <4> QED BY <4>1, <4>2
      <3>3. e = p0 + 1 /\ Live(p0) => platter'[p0][s0].hi = new[e]
        BY <1>1, <1>4
      <3> QED BY <1>2, <2>1, <2>3, <3>1, <3>2, <3>3 DEF Kept, Live, AfterParity
    <2> QED BY <2>2, <2>3
  <1> QED BY <1>6 DEF HealthyInv

LEMMA HealthyWriteData ==
  ASSUME HealthyInv, TypeInv', WriteData
  PROVE  HealthyInv'
  <1> DEFINE b0 == req.blk
             d0 == DataDisk(req.blk)
             s0 == cache.stripe
  <1>1. /\ TypeOK /\ b0 \in Block /\ s0 = ParityStripe(b0) /\ s0 \in Stripe
        /\ d0 \in Disk /\ d0 # Parity(s0)
    BY BlockPlace DEF HealthyInv, TypeInv, WriteData
  <1>2. /\ pc = "data" /\ pc' = "idle"
        /\ platter' = Flushed(cache.slot, d0, s0)
        /\ shadow' = [shadow EXCEPT ![b0] = {req.val}]
        /\ UNCHANGED <<disk_state, cache>>
    BY DEF WriteData
  <1>3. \A d \in Disk, s \in Stripe :
          /\ ~(d = d0 /\ s = s0) => platter'[d][s] = platter[d][s]
          /\ Live(d0) => platter'[d0][s0].lo = cache.slot[d0]
    <2> HIDE DEF d0, s0
    <2> QED BY <1>1, <1>2 DEF Flushed, TypeOK
  <1>4. \A c \in Block : /\ Meaning(c)' = Meaning(c) /\ Meaning(c) = shadow'[c]
                         /\ c # b0 => shadow'[c] = shadow[c]
    BY <1>1, <1>2 DEF Meaning, TypeOK
  <1>5. ASSUME NEW c \in Block, Whole(DataDisk(c))' PROVE Kept(c)'
    <2> DEFINE e == DataDisk(c)
               s == ParityStripe(c)
    <2>1. /\ Whole(e) /\ Live(e) /\ Kept(c) /\ s \in Stripe /\ e \in Disk
          /\ Parity(s) \in Disk
      BY <1>2, <1>5, BlockPlace DEF Whole, Live, HealthyInv
    <2>2. platter'[Parity(s)][s] = platter[Parity(s)][s]
      BY <1>1, <1>3, <2>1
    <2>3. platter'[e][s].lo \in shadow'[c]
      <3>1. CASE c = b0
        BY <1>1, <1>3, <1>4, <2>1, <3>1 DEF Kept
      <3>2. CASE c # b0
        <4>1. ~(e = d0 /\ s = s0)
          BY <1>1, <3>2, BlockInjective
        <4> QED BY <1>3, <1>4, <2>1, <3>2, <4>1 DEF Kept
      <3> QED BY <3>1, <3>2
    <2> QED BY <1>2, <1>4, <2>1, <2>2, <2>3 DEF Kept, Live, AfterParity
  <1> QED BY <1>5 DEF HealthyInv

LEMMA HealthyCrash ==
  ASSUME HealthyInv, TypeInv', Crash
  PROVE  HealthyInv'
  <1>1. /\ TypeOK /\ cache'.stripe = NoStripe /\ pc' = "idle"
        /\ UNCHANGED <<disk_state, platter>>
    <2>1. TypeOK
      BY DEF HealthyInv, TypeInv
    <2> QED BY <2>1 DEF Crash
  <1>2. pc = "data" =>
          req.blk \in Block /\ shadow' = [shadow EXCEPT ![req.blk] = @ \cup {req.val}]
    <2>1. pc = "data" => req.blk \in Block
      BY DEF HealthyInv, TypeInv
    <2> QED BY <2>1 DEF Crash
  <1>3. pc # "data" => shadow' = shadow
    BY DEF Crash
  <1>4. ASSUME NEW c \in Block
        PROVE  /\ shadow[c] \subseteq shadow'[c]
               /\ Meaning(c) \subseteq shadow'[c]
               /\ Meaning(c)' = shadow'[c]
    <2>1. DOMAIN shadow = Block
      BY <1>1 DEF TypeOK
    <2>2. /\ shadow[c] \subseteq shadow'[c]
          /\ pc = "data" /\ c = req.blk => req.val \in shadow'[c]
      BY <1>2, <1>3, <2>1
    <2>3. Meaning(c) \subseteq shadow'[c]
      BY <2>2 DEF Meaning
    <2>4. Meaning(c)' = shadow'[c]
      BY <1>1 DEF Meaning
    <2> QED BY <2>2, <2>3, <2>4
  <1>5. ASSUME NEW c \in Block, Whole(DataDisk(c))' PROVE Kept(c)'
    <2>1. Kept(c)
      BY <1>1, <1>5 DEF Whole, HealthyInv
    <2>2. cache'.stripe # ParityStripe(c)
      BY <1>1, BlockPlace, ParityAssumption DEF NoStripe, Stripe
    <2> QED BY <1>1, <1>4, <2>1, <2>2 DEF Kept, Live, AfterParity
  <1> QED BY <1>5 DEF HealthyInv

\* disk_fail_raid and disk_repaired_raid: only the states of disks change.
LEMMA HealthyStates ==
  ASSUME NoStaleParity, HealthyInv, TypeInv', NEW x \in Disk, Fail(x) \/ Repair(x)
  PROVE  HealthyInv'
  <1>1. /\ TypeOK /\ UNCHANGED <<cache, platter, pc, req, shadow>>
    BY DEF Fail, Repair, HealthyInv, TypeInv
  <1>2. \A d \in Disk : Whole(d)' => Whole(d)
    BY <1>1 DEF Fail, Repair, Whole, TypeOK
  <1>3. \A c : Meaning(c)' = Meaning(c)
    BY <1>1 DEF Meaning
  <1>4. ~Repairs => \A d \in Disk : Live(d)' => Live(d)
    BY <1>1 DEF Fail, Repair, Live, TypeOK
  <1>5. Type = "RAID4" => \A c \in Block : DataDisk(c) # AfterParity(ParityStripe(c))
    BY BlockPlace, DisksAssumption DEF AfterParity, Parity, Raid4Parity, Disk
  <1>6. ASSUME NEW c \in Block, Whole(DataDisk(c))' PROVE Kept(c)'
    <2>1. Kept(c) /\ Parity(ParityStripe(c)) \in Disk
      BY <1>2, <1>6, BlockPlace DEF HealthyInv
    <2> QED BY <1>1, <1>3, <1>4, <1>5, <2>1 DEF Kept, AfterParity, NoStaleParity
  <1> QED BY <1>6 DEF HealthyInv

\* The blocks of a disk that never failed read as they were written, whatever
\* happens to the other disks: failures, writes to dead disks, reboots, old
\* disk images and, for RAID4, repairs that do not rebuild (cache() and the hit
\* path of read_raid4/read_raid5), for any number of disks, stripes and bits.
THEOREM HealthyDisksRead ==
  ASSUME NoStaleParity
  PROVE  Spec => []HealthyReads
  <1>1. HealthyInv => HealthyReads
    BY HealthySlots DEF HealthyReads, Serving, ReadValue, Whole
  <1>2. HealthyInv /\ [Next]_vars => HealthyInv'
    <2> SUFFICES ASSUME HealthyInv, [Next]_vars PROVE HealthyInv'
      OBVIOUS
    <2>1. TypeInv'
      BY TypeInvNext DEF HealthyInv
    <2>2. CASE UNCHANGED vars
      BY <2>1, <2>2 DEF vars, HealthyInv, Kept, Whole, Meaning, Live, AfterParity
    <2> QED BY <2>1, <2>2, HealthyRead, HealthyWriteParity, HealthyWriteData,
               HealthyCrash, HealthyStates DEF Next, Refuse
  <1> QED BY <1>1, <1>2, HealthyInit, PTL DEF Spec

=============================================================================

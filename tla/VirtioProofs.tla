---------------------------- MODULE VirtioProofs ----------------------------
(***************************************************************************)
(* The virtio disk driver for any number of processes and descriptors:     *)
(* descriptors are neither leaked nor shared, and every request is in one  *)
(* place of the rings although their counters wrap around.                 *)
(***************************************************************************)
EXTENDS VirtioDisk, FiniteSetTheorems, WellFoundedInduction, TLAPS

-----------------------------------------------------------------------------
(* Sets of descriptors. *)

LEMMA MinOf ==
  ASSUME NEW S \in SUBSET Nat, S # {}
  PROVE  Min(S) \in S /\ \A j \in S : Min(S) <= j
  <1> DEFINE R == {ss \in Nat \X Nat : ss[1] < ss[2]}
  <1>1. IsWellFoundedOn(R, Nat)
    BY NatLessThanWellFounded DEF OpToRel
  <1> HIDE DEF R
  <1>2. PICK x \in S : \A y \in S : ~ (<<y, x>> \in R)
    BY <1>1, WFMin, ZenonT(30)
  <1>3. ASSUME NEW y \in S PROVE x <= y
    <2>1. x \in Nat /\ y \in Nat
      OBVIOUS
    <2>2. y < x => <<y, x>> \in R
      BY <2>1 DEF R
    <2> QED BY <1>2, <2>1, <2>2
  <1> QED BY <1>3, ZenonT(30) DEF Min

LEMMA DescFinite ==
  ASSUME NEW S \in SUBSET Desc
  PROVE  S \in SUBSET Nat /\ IsFiniteSet(S) /\ Cardinality(S) \in Nat
  <1>1. IsFiniteSet(Desc)
    BY FS_Interval, VirtioAssumption DEF Desc
  <1>2. IsFiniteSet(S)
    BY <1>1, FS_Subset
  <1>3. Cardinality(S) \in Nat
    BY <1>2, FS_CardinalityType
  <1>4. S \in SUBSET Nat
    BY VirtioAssumption DEF Desc
  <1> QED BY <1>2, <1>3, <1>4

\* alloc3_desc takes three descriptors when there are three.
LEMMA ThreeOf ==
  ASSUME NEW S \in SUBSET Desc, Cardinality(S) >= 3
  PROVE  Three(S) \subseteq S /\ Cardinality(Three(S)) = 3 /\ Three(S) # {}
  <1> DEFINE a == Min(S)
             T == S \ {a}
             b == Min(T)
             U == T \ {b}
             c == Min(U)
  <1>1. IsFiniteSet(S) /\ Cardinality(S) \in Nat /\ S # {} /\ S \in SUBSET Nat
    BY DescFinite, FS_EmptySet
  <1>2. a \in S /\ T \subseteq S /\ a \notin T
    BY <1>1, MinOf
  <1>3. IsFiniteSet(T) /\ Cardinality(T) = Cardinality(S) - 1
    BY <1>1, <1>2, FS_RemoveElement
  <1>4. U = S \ {a, b}
    OBVIOUS
  <1> HIDE DEF a, T
  <1>5. T # {} /\ T \in SUBSET Nat
    BY <1>1, <1>2, <1>3, FS_EmptySet
  <1>6. b \in T /\ U \subseteq T /\ b \notin U
    BY <1>5, MinOf
  <1>7. IsFiniteSet(U) /\ Cardinality(U) = Cardinality(S) - 2
    BY <1>1, <1>3, <1>6, FS_RemoveElement
  <1> HIDE DEF b, U
  <1>8. U # {} /\ U \in SUBSET Nat
    BY <1>1, <1>5, <1>6, <1>7, FS_EmptySet
  <1>9. c \in U
    BY <1>8, MinOf
  <1>10. Three(S) = {a, b, c}
    BY <1>4 DEF Three, a, b, T
  <1> HIDE DEF c
  <1>11. a # b /\ c # a /\ c # b
    BY <1>2, <1>6, <1>9
  <1>12. Cardinality({a, b, c}) = 3
    <2>1. IsFiniteSet({a}) /\ Cardinality({a}) = 1
      BY FS_Singleton, ZenonT(30)
    <2>2. IsFiniteSet({a, b}) /\ Cardinality({a, b}) = 2
      <3>1. {a, b} = {a} \cup {b}
        OBVIOUS
      <3>2. b \notin {a}
        BY <1>11
      <3> QED BY <2>1, <3>1, <3>2, FS_AddElement
    <2>3. {a, b, c} = {a, b} \cup {c}
      OBVIOUS
    <2>4. c \notin {a, b}
      BY <1>11
    <2> QED BY <2>2, <2>3, <2>4, FS_AddElement
  <1> QED BY <1>2, <1>6, <1>9, <1>10, <1>12

-----------------------------------------------------------------------------
(* Descriptors. *)

State == {"idle", "alloc", "descwait", "iowait", "ioready"}

DescInv ==
  /\ pc \in [Proc -> State]
  /\ idx \in [Proc -> SUBSET Desc]
  /\ free \subseteq Desc
  /\ DescriptorsAccounted

\* wakeup() changes no process that has a request into one that has none, or
\* the other way round.
LEMMA WokenState ==
  ASSUME pc \in [Proc -> State], NEW S
  PROVE  /\ Woken(S, pc) \in [Proc -> State]
         /\ \A p \in Proc : Woken(S, pc)[p] \in {"iowait", "ioready"} <=> InFlight(p)
         /\ \A p \in Proc : Woken(S, pc)[p] = pc[p] \/ p \in S
         /\ \A p \in Proc : p \in S /\ pc[p] = "iowait" => Woken(S, pc)[p] = "ioready"
         /\ \A p \in Proc : pc[p] \notin {"descwait", "iowait"} => Woken(S, pc)[p] = pc[p]
         /\ \A p \in Proc : pc[p] = "descwait" => Woken(S, pc)[p] \in {"descwait", "alloc"}
  BY DEF Woken, InFlight, State

\* A step that moves no descriptor.
LEMMA DescKept ==
  ASSUME DescInv, UNCHANGED <<idx, free>>, pc' \in [Proc -> State],
         \A p \in Proc : InFlight(p)' <=> InFlight(p)
  PROVE  DescInv'
  BY DEF DescInv, DescriptorsAccounted

LEMMA DescSubmit ==
  ASSUME DescInv, NEW p \in Proc, Submit(p)
  PROVE  DescInv'
  <1> DEFINE ds == Three(free)
  <1>1. ds \subseteq free /\ Cardinality(ds) = 3 /\ ds # {} /\ free \subseteq Desc
    BY ThreeOf DEF Submit, DescInv
  <1>2. /\ pc[p] = "alloc" /\ pc' = [pc EXCEPT ![p] = "iowait"]
        /\ free' = free \ ds /\ idx' = [idx EXCEPT ![p] = ds]
    BY DEF Submit
  <1> HIDE DEF ds
  <1>3. pc' \in [Proc -> State] /\ idx' \in [Proc -> SUBSET Desc] /\ free' \subseteq Desc
    BY <1>1, <1>2 DEF DescInv, State
  <1>4. idx[p] = {}
    BY <1>2 DEF DescInv, DescriptorsAccounted, InFlight
  <1>5. \A q \in Proc : idx'[q] = IF q = p THEN ds ELSE idx[q]
    BY <1>2 DEF DescInv
  <1>6. \A q \in Proc : InFlight(q)' <=> InFlight(q) \/ q = p
    BY <1>2 DEF DescInv, InFlight
  <1>7. \A q \in Proc : InFlight(q)' <=> idx'[q] # {}
    BY <1>1, <1>5, <1>6 DEF DescInv, DescriptorsAccounted
  <1>8. \A q \in Proc : idx'[q] # {} => Cardinality(idx'[q]) = 3 /\ idx'[q] \cap free' = {}
    BY <1>1, <1>2, <1>5 DEF DescInv, DescriptorsAccounted
  <1>9. ASSUME NEW q \in Proc, NEW r \in Proc, q # r PROVE idx'[q] \cap idx'[r] = {}
    <2>1. \A t \in Proc : idx[t] \cap ds = {}
      BY <1>1 DEF DescInv, DescriptorsAccounted
    <2> QED BY <1>5, <1>9, <2>1 DEF DescInv, DescriptorsAccounted
  <1>10. free' \cup UNION {idx'[q] : q \in Proc} = Desc
    <2>1. ASSUME NEW i \in Desc PROVE i \in free' \/ \E q \in Proc : i \in idx'[q]
      <3>1. CASE i \in free
        BY <1>2, <1>5, <3>1
      <3>2. CASE i \notin free
        <4>1. PICK q \in Proc : i \in idx[q]
          BY <3>2 DEF DescInv, DescriptorsAccounted
        <4> QED BY <1>4, <1>5, <4>1
      <3> QED BY <3>1, <3>2
    <2> QED BY <1>3, <2>1
  <1> QED BY <1>3, <1>7, <1>8, <1>9, <1>10 DEF DescInv, DescriptorsAccounted

LEMMA DescFinish ==
  ASSUME DescInv, NEW p \in Proc, Finish(p)
  PROVE  DescInv'
  <1>1. /\ pc[p] = "ioready" /\ free' = free \cup idx[p] /\ idx' = [idx EXCEPT ![p] = {}]
        /\ pc' = [Woken(Sleepers("descwait", Proc), pc) EXCEPT ![p] = "idle"]
    BY DEF Finish
  <1>2. /\ pc' \in [Proc -> State] /\ idx' \in [Proc -> SUBSET Desc] /\ free' \subseteq Desc
        /\ \A q \in Proc : InFlight(q)' <=> InFlight(q) /\ q # p
    <2>1. pc \in [Proc -> State]
      BY DEF DescInv
    <2> QED BY <1>1, <2>1, WokenState DEF DescInv, State, InFlight
  <1>3. \A q \in Proc : idx'[q] = IF q = p THEN {} ELSE idx[q]
    BY <1>1 DEF DescInv
  <1>4. \A q \in Proc : InFlight(q)' <=> idx'[q] # {}
    BY <1>2, <1>3 DEF DescInv, DescriptorsAccounted
  <1>5. \A q \in Proc : idx'[q] # {} => Cardinality(idx'[q]) = 3 /\ idx'[q] \cap free' = {}
    BY <1>1, <1>3 DEF DescInv, DescriptorsAccounted
  <1>6. \A q, r \in Proc : q # r => idx'[q] \cap idx'[r] = {}
    BY <1>3 DEF DescInv, DescriptorsAccounted
  <1>7. free' \cup UNION {idx'[q] : q \in Proc} = Desc
    <2>1. ASSUME NEW i \in Desc PROVE i \in free' \/ \E q \in Proc : i \in idx'[q]
      <3>1. CASE i \in free
        BY <1>1, <3>1
      <3>2. CASE i \notin free
        <4>1. PICK q \in Proc : i \in idx[q]
          BY <3>2 DEF DescInv, DescriptorsAccounted
        <4> QED BY <1>1, <1>3, <4>1
      <3> QED BY <3>1, <3>2
    <2> QED BY <1>2, <2>1
  <1> QED BY <1>2, <1>4, <1>5, <1>6, <1>7 DEF DescInv, DescriptorsAccounted

LEMMA DescInit ==
  Init => DescInv
  BY DEF Init, DescInv, DescriptorsAccounted, InFlight, State

LEMMA DescNext ==
  DescInv /\ [Next]_vars => DescInv'
  <1> SUFFICES ASSUME DescInv, [Next]_vars PROVE DescInv'
    OBVIOUS
  <1>0. pc \in [Proc -> State]
    BY DEF DescInv
  <1>1. ASSUME NEW p \in Proc, Call(p) PROVE DescInv'
    BY <1>0, <1>1, DescKept DEF Call, InFlight, State
  <1>2. ASSUME NEW p \in Proc, WaitForDesc(p) PROVE DescInv'
    <2> DEFINE S == IF free = {} THEN {} ELSE Sleepers("descwait", Proc \ {p})
    <2>1. /\ pc[p] = "alloc" /\ pc' = [Woken(S, pc) EXCEPT ![p] = "descwait"]
          /\ UNCHANGED <<idx, free>>
      BY <1>2 DEF WaitForDesc
    <2> HIDE DEF S
    <2>2. pc' \in [Proc -> State] /\ \A q \in Proc : InFlight(q)' <=> InFlight(q)
      BY <1>0, <2>1, WokenState DEF State, InFlight
    <2> QED BY <2>1, <2>2, DescKept
  <1>3. ASSUME NEW p \in Proc, Kill(p) PROVE DescInv'
    BY <1>0, <1>3, WokenState, DescKept DEF Kill, InFlight
  <1>4. CASE DeviceTake
    BY <1>0, <1>4, DescKept DEF DeviceTake, InFlight
  <1>5. ASSUME NEW r \in device, DeviceDone(r) PROVE DescInv'
    BY <1>0, <1>5, DescKept DEF DeviceDone, InFlight
  <1>6. CASE Intr
    BY <1>0, <1>6, WokenState, DescKept DEF Intr, InFlight
  <1>7. CASE UNCHANGED vars
    BY <1>0, <1>7, DescKept DEF vars, InFlight
  <1> QED BY <1>1, <1>2, <1>3, <1>4, <1>5, <1>6, <1>7, DescSubmit, DescFinish DEF Next

\* For any number of processes and descriptors, with shared buffers and with
\* kills that end a sleep early: alloc3_desc and free_chain leak no descriptor,
\* give none to two requests and free none twice.
THEOREM NoDescriptorLost ==
  Spec => []DescriptorsAccounted
  <1>1. DescInv => DescriptorsAccounted
    BY DEF DescInv
  <1> QED BY <1>1, DescInit, DescNext, PTL DEF Spec

-----------------------------------------------------------------------------
(* Positions of a ring. *)

Pos == 0..(IdxMod - 1)

Size(from, to) == IF from <= to THEN to - from ELSE IdxMod - from + to

\* A multiple of n that is positive is at least n.
LEMMA Products ==
  ASSUME NEW n \in Nat \ {0}, NEW x \in Int, n * x > 0
  PROVE  n * x >= n
  <1>1. CASE x > 0
    BY <1>1
  <1>2. CASE x <= 0
    <2>1. n * x <= 0
      BY <1>2
    <2> QED BY <2>1
  <1> QED BY <1>1, <1>2

LEMMA DivMod ==
  ASSUME NEW a \in Int, NEW n \in Nat \ {0}
  PROVE  /\ a % n \in 0..(n - 1)
         /\ a \div n \in Int
         /\ a = n * (a \div n) + (a % n)
  OBVIOUS

\* Two numbers with the same remainder are at least n apart.
LEMMA SameRemainder ==
  ASSUME NEW n \in Nat \ {0}, NEW i \in Int, NEW j \in Int, i < j, i % n = j % n
  PROVE  j - i >= n /\ \E x \in Int : j - i = n * x
  <1> DEFINE a == i \div n
             b == j \div n
             r == i % n
             x == b - a
  <1>1. a \in Int /\ b \in Int /\ r \in Int /\ i = n * a + r /\ j = n * b + r
    BY DivMod
  <1> HIDE DEF a, b, r
  <1>2. x \in Int /\ j - i = n * x
    BY <1>1
  <1> HIDE DEF x
  <1>3. n * x >= n
    BY <1>2, Products
  <1> QED BY <1>2, <1>3

\* Two positions that use the same entry of a ring are NUM apart, both ways
\* round.
LEMMA SameEntry ==
  ASSUME NEW i \in Pos, NEW j \in Pos, i < j, i % NUM = j % NUM
  PROVE  j - i >= NUM /\ IdxMod - (j - i) >= NUM
  <1>1. NUM \in Nat \ {0} /\ i \in Int /\ j \in Int /\ IdxMod \in Int /\ i >= 0 /\ j < IdxMod
    BY VirtioAssumption DEF Pos
  <1>2. PICK x \in Int : j - i >= NUM /\ j - i = NUM * x
    BY <1>1, SameRemainder, ZenonT(30)
  <1>3. 0 % NUM = IdxMod % NUM
    BY <1>1, VirtioAssumption
  <1>4. PICK k \in Int : IdxMod - 0 = NUM * k
    <2>1. 0 \in Int /\ 0 < IdxMod
      BY VirtioAssumption
    <2> QED BY <1>1, <1>3, <2>1, SameRemainder, ZenonT(30)
  <1> DEFINE y == k - x
  <1>5. y \in Int /\ IdxMod - (j - i) = NUM * y
    BY <1>1, <1>2, <1>4
  <1> HIDE DEF y
  <1>6. NUM * y >= NUM
    BY <1>1, <1>5, Products
  <1> QED BY <1>2, <1>5, <1>6

LEMMA Next1 ==
  ASSUME NEW i \in Pos
  PROVE  (i + 1) % IdxMod = (IF i + 1 = IdxMod THEN 0 ELSE i + 1) /\ (i + 1) % IdxMod \in Pos
  <1>1. IdxMod \in Nat /\ IdxMod > 0 /\ i \in Nat /\ i < IdxMod
    BY VirtioAssumption DEF Pos
  <1> QED BY <1>1 DEF Pos

LEMMA WindowGrows ==
  ASSUME NEW from \in Pos, NEW to \in Pos, Size(from, to) + 1 < IdxMod
  PROVE  /\ to \notin Window(from, to)
         /\ Window(from, (to + 1) % IdxMod) = Window(from, to) \cup {to}
  <1>1. IdxMod \in Nat /\ IdxMod > 0
    BY VirtioAssumption
  <1> DEFINE n == (to + 1) % IdxMod
  <1>2. n = (IF to + 1 = IdxMod THEN 0 ELSE to + 1)
    BY Next1
  <1> HIDE DEF n
  <1>3. to \notin Window(from, to)
    BY <1>1 DEF Window, Pos
  <1>4. ASSUME NEW i \in Pos
        PROVE  i \in Window(from, n) <=> i \in Window(from, to) \/ i = to
    BY <1>1, <1>2 DEF Window, Pos, Size
  <1>5. Window(from, n) = Window(from, to) \cup {to}
    BY <1>4 DEF Window, Pos
  <1> QED BY <1>3, <1>5 DEF n

LEMMA WindowShrinks ==
  ASSUME NEW from \in Pos, NEW to \in Pos, from # to
  PROVE  /\ from \in Window(from, to)
         /\ Window((from + 1) % IdxMod, to) = Window(from, to) \ {from}
  <1>1. IdxMod \in Nat /\ IdxMod > 0
    BY VirtioAssumption
  <1> DEFINE n == (from + 1) % IdxMod
  <1>2. n = (IF from + 1 = IdxMod THEN 0 ELSE from + 1)
    BY Next1
  <1> HIDE DEF n
  <1>3. from \in Window(from, to)
    BY <1>1 DEF Window, Pos
  <1>4. ASSUME NEW i \in Pos
        PROVE  i \in Window(n, to) <=> i \in Window(from, to) /\ i # from
    BY <1>1, <1>2 DEF Window, Pos
  <1>5. Window(n, to) = Window(from, to) \ {from}
    BY <1>4 DEF Window, Pos
  <1> QED BY <1>3, <1>5 DEF n

LEMMA WindowSize ==
  ASSUME NEW from \in Pos, NEW to \in Pos
  PROVE  IsFiniteSet(Window(from, to)) /\ Cardinality(Window(from, to)) = Size(from, to)
  <1>1. IdxMod \in Nat /\ IdxMod > 0 /\ from \in Int /\ to \in Int
    BY VirtioAssumption DEF Pos
  <1>2. CASE from <= to
    <2> DEFINE W == from..(to - 1)
    <2>1. Window(from, to) = W
      BY <1>1, <1>2 DEF Window, Pos
    <2>2. IsFiniteSet(W) /\ Cardinality(W) = IF from > to - 1 THEN 0 ELSE to - 1 - from + 1
      BY <1>1, FS_Interval
    <2> HIDE DEF W
    <2> QED BY <1>1, <1>2, <2>1, <2>2 DEF Size
  <1>3. CASE ~ (from <= to)
    <2> DEFINE V == from..(IdxMod - 1)
               W == 0..(to - 1)
    <2>1. Window(from, to) = V \cup W /\ V \cap W = {}
      BY <1>1, <1>3 DEF Window, Pos
    <2>2. IsFiniteSet(V) /\ Cardinality(V) = IdxMod - from
      <3>1. IsFiniteSet(V) /\ Cardinality(V) =
              IF from > IdxMod - 1 THEN 0 ELSE IdxMod - 1 - from + 1
        BY <1>1, FS_Interval
      <3> HIDE DEF V
      <3> QED BY <1>1, <3>1 DEF Pos
    <2>3. IsFiniteSet(W) /\ Cardinality(W) = to
      <3>1. IsFiniteSet(W) /\ Cardinality(W) = IF 0 > to - 1 THEN 0 ELSE to - 1 - 0 + 1
        BY <1>1, FS_Interval
      <3> HIDE DEF W
      <3> QED BY <1>1, <3>1 DEF Pos
    <2> HIDE DEF V, W
    <2>4. IsFiniteSet(V \cup W) /\ Cardinality(V \cup W) = Cardinality(V) + Cardinality(W) - Cardinality({})
      BY <2>1, <2>2, <2>3, FS_Union
    <2>5. Cardinality({}) = 0
      BY FS_EmptySet
    <2> QED BY <1>1, <1>3, <2>1, <2>2, <2>3, <2>4, <2>5 DEF Size
  <1> QED BY <1>2, <1>3

\* A ring that holds fewer than NUM entries has a free one at its end.
LEMMA EndIsFree ==
  ASSUME NEW from \in Pos, NEW to \in Pos, Size(from, to) < NUM, NEW i \in Window(from, to)
  PROVE  i % NUM # to % NUM
  <1>1. /\ IdxMod \in Nat /\ NUM \in Nat /\ i \in Pos /\ i # to
        /\ from \in Int /\ to \in Int /\ i \in Int
    BY VirtioAssumption DEF Window, Pos
  <1>2. CASE i < to
    <2>1. to - i <= Size(from, to) \/ IdxMod - (to - i) <= Size(from, to)
      BY <1>1, <1>2 DEF Window, Pos, Size
    <2> QED BY <1>1, <1>2, <2>1, SameEntry DEF Size
  <1>3. CASE to < i
    <2>1. i - to <= Size(from, to) \/ IdxMod - (i - to) <= Size(from, to)
      BY <1>1, <1>3 DEF Window, Pos, Size
    <2> QED BY <1>1, <1>3, <2>1, SameEntry DEF Size
  <1> QED BY <1>1, <1>2, <1>3

-----------------------------------------------------------------------------
(* Requests in the rings.  Nobody is killed and every process has a buffer *)
(* of its own, as under the locks of the buffer cache.                     *)

Exclusive == Killable = {} /\ ~Shared

AvailAt(i) == <<"avail", i, avail.ring[i % NUM], desc[avail.ring[i % NUM]]>>
DeviceAt(r) == <<"device", r.at, r.id, r.proc>>
UsedAt(i) == <<"used", i, used.ring[i % NUM].id, used.ring[i % NUM].proc>>

InAvail == {AvailAt(i) : i \in Window(taken, avail.idx)}
InDevice == {DeviceAt(r) : r \in device}
InUsed == {UsedAt(i) : i \in Window(used_idx, used.idx)}

RingTypes ==
  /\ taken \in Pos /\ used_idx \in Pos
  /\ avail \in [idx : Pos, ring : [Desc -> Desc \cup {NoDesc}]]
  /\ used \in [idx : Pos, ring : [Desc -> Entry \cup {NoEntry}]]
  /\ device \subseteq Entry
  /\ info \in [Desc -> Proc \cup {Nobody}]
  /\ desc \in [Desc -> Proc \cup {Nobody}]
  /\ killed = {}
  /\ panic = FALSE

\* What is in the rings belongs to a process that sleeps, under the head of
\* its chain; no process has two entries, and every one that sleeps has one.
OneEach ==
  /\ \A e \in Pending : e[4] \in Proc /\ pc[e[4]] = "iowait" /\ e[3] = Min(idx[e[4]])
  /\ \A e, f \in Pending : e[4] = f[4] => e = f
  /\ \A p \in Proc : pc[p] = "iowait" => \E e \in Pending : e[4] = p

\* The chain of a request in flight describes that request.
Chains ==
  \A p \in Proc : InFlight(p) => desc[Min(idx[p])] = p /\ info[Min(idx[p])] = p

RingInv == DescInv /\ RingTypes /\ Chains /\ OneEach /\ ReturnsWhenDone

LEMMA PendingParts ==
  /\ Pending = InAvail \cup InDevice \cup InUsed
  /\ Pending' = InAvail' \cup InDevice' \cup InUsed'
  BY DEF Pending, InAvail, InDevice, InUsed, AvailAt, DeviceAt, UsedAt

LEMMA HeadOf ==
  ASSUME DescInv, NEW p \in Proc, InFlight(p)
  PROVE  /\ Min(idx[p]) \in idx[p]
         /\ Min(idx[p]) \in Desc \ free
         /\ \A q \in Proc : InFlight(q) /\ q # p => Min(idx[q]) # Min(idx[p])
  <1>1. \A q \in Proc : InFlight(q) => Min(idx[q]) \in idx[q]
    <2> SUFFICES ASSUME NEW q \in Proc, InFlight(q) PROVE Min(idx[q]) \in idx[q]
      OBVIOUS
    <2>1. idx[q] \in SUBSET Desc /\ idx[q] # {}
      BY DEF DescInv, DescriptorsAccounted
    <2>2. idx[q] \in SUBSET Nat
      BY <2>1, DescFinite
    <2> QED BY <2>1, <2>2, MinOf
  <1>2. Min(idx[p]) \in Desc \ free
    BY <1>1 DEF DescInv, DescriptorsAccounted
  <1> QED BY <1>1, <1>2 DEF DescInv, DescriptorsAccounted

\* A ring never holds more entries than there are other chains.
LEMMA Room ==
  ASSUME NEW from \in Pos, NEW to \in Pos,
         NEW ds \in SUBSET Desc, Cardinality(ds) = 3,
         NEW hd \in [Window(from, to) -> Desc \ ds],
         \A i, j \in Window(from, to) : hd[i] = hd[j] => i = j
  PROVE  Size(from, to) + 1 < NUM /\ Size(from, to) + 1 < IdxMod
  <1> DEFINE T == Desc \ ds
             W == Window(from, to)
  <1>1. IsFiniteSet(T) /\ Cardinality(T) = NUM - 3
    <2>1. IsFiniteSet(Desc) /\ Cardinality(Desc) = NUM
      <3>1. IsFiniteSet(0..(NUM - 1)) /\
            Cardinality(0..(NUM - 1)) = IF 0 > NUM - 1 THEN 0 ELSE NUM - 1 - 0 + 1
        BY FS_Interval, VirtioAssumption
      <3> QED BY <3>1, VirtioAssumption DEF Desc
    <2>2. Desc \cap ds = ds
      OBVIOUS
    <2>3. IsFiniteSet(Desc \ ds) /\ Cardinality(Desc \ ds) = Cardinality(Desc) - Cardinality(Desc \cap ds)
      BY <2>1, FS_Difference
    <2> QED BY <2>1, <2>2, <2>3
  <1>2. Cardinality(W) = Size(from, to)
    BY WindowSize
  <1> HIDE DEF T, W
  <1>3. hd \in Injection(W, T)
    BY DEF Injection, IsInjective, T, W
  <1>4. Cardinality(W) <= Cardinality(T)
    BY <1>1, <1>3, FS_Injection
  <1>5. IdxMod >= NUM
    <2>1. NUM \in Nat \ {0} /\ 0 \in Int /\ IdxMod \in Int /\ 0 < IdxMod /\ 0 % NUM = IdxMod % NUM
      BY VirtioAssumption
    <2>2. IdxMod - 0 >= NUM
      BY <2>1, SameRemainder
    <2> QED BY <2>1, <2>2
  <1>6. Size(from, to) \in Int /\ NUM \in Int /\ IdxMod \in Int
    BY VirtioAssumption DEF Size, Pos
  <1> QED BY <1>1, <1>2, <1>4, <1>5, <1>6

LEMMA SlotInDesc ==
  ASSUME NEW i \in Pos
  PROVE  i % NUM \in Desc
  BY VirtioAssumption DEF Pos, Desc

LEMMA AvailRoom ==
  ASSUME RingInv, NEW ds \in SUBSET Desc, Cardinality(ds) = 3,
         \A e \in InAvail : e[3] \notin ds
  PROVE  Size(taken, avail.idx) + 1 < NUM /\ Size(taken, avail.idx) + 1 < IdxMod
  <1> DEFINE W == Window(taken, avail.idx)
             hd == [i \in W |-> avail.ring[i % NUM]]
  <1>1. taken \in Pos /\ avail.idx \in Pos
    BY DEF RingInv, RingTypes
  <1>2. ASSUME NEW i \in W
        PROVE  /\ AvailAt(i) \in Pending /\ AvailAt(i) \in InAvail
               /\ AvailAt(i)[2] = i /\ AvailAt(i)[3] = hd[i]
               /\ AvailAt(i)[4] \in Proc /\ InFlight(AvailAt(i)[4])
               /\ hd[i] = Min(idx[AvailAt(i)[4]])
    <2>1. AvailAt(i) \in InAvail /\ AvailAt(i) \in Pending
      BY PendingParts DEF InAvail
    <2>2. AvailAt(i)[2] = i /\ AvailAt(i)[3] = hd[i]
      BY DEF AvailAt
    <2> HIDE DEF hd
    <2> QED BY <2>1, <2>2 DEF RingInv, OneEach, InFlight
  <1> HIDE DEF hd
  <1>3. ASSUME NEW i \in W PROVE hd[i] \in Desc \ ds
    <2>1. hd[i] \in Desc
      BY <1>2, HeadOf DEF RingInv
    <2> QED BY <1>2, <2>1
  <1>4. ASSUME NEW i \in W, NEW j \in W, hd[i] = hd[j] PROVE i = j
    <2>1. AvailAt(i)[4] = AvailAt(j)[4]
      BY <1>2, <1>4, HeadOf DEF RingInv
    <2>2. AvailAt(i) = AvailAt(j)
      BY <1>2, <2>1 DEF RingInv, OneEach
    <2> QED BY <1>2, <2>2
  <1>5. hd \in [W -> Desc \ ds]
    BY <1>3 DEF hd
  <1> HIDE DEF W
  <1> QED BY <1>1, <1>4, <1>5, Room DEF W

LEMMA UsedRoom ==
  ASSUME RingInv, NEW ds \in SUBSET Desc, Cardinality(ds) = 3,
         \A e \in InUsed : e[3] \notin ds
  PROVE  Size(used_idx, used.idx) + 1 < NUM /\ Size(used_idx, used.idx) + 1 < IdxMod
  <1> DEFINE W == Window(used_idx, used.idx)
             hd == [i \in W |-> used.ring[i % NUM].id]
  <1>1. used_idx \in Pos /\ used.idx \in Pos
    BY DEF RingInv, RingTypes
  <1>2. ASSUME NEW i \in W
        PROVE  /\ UsedAt(i) \in Pending /\ UsedAt(i) \in InUsed
               /\ UsedAt(i)[2] = i /\ UsedAt(i)[3] = hd[i]
               /\ UsedAt(i)[4] \in Proc /\ InFlight(UsedAt(i)[4])
               /\ hd[i] = Min(idx[UsedAt(i)[4]])
    <2>1. UsedAt(i) \in InUsed /\ UsedAt(i) \in Pending
      BY PendingParts DEF InUsed
    <2>2. UsedAt(i)[2] = i /\ UsedAt(i)[3] = hd[i]
      BY DEF UsedAt
    <2> HIDE DEF hd
    <2> QED BY <2>1, <2>2 DEF RingInv, OneEach, InFlight
  <1> HIDE DEF hd
  <1>3. ASSUME NEW i \in W PROVE hd[i] \in Desc \ ds
    <2>1. hd[i] \in Desc
      BY <1>2, HeadOf DEF RingInv
    <2> QED BY <1>2, <2>1
  <1>4. ASSUME NEW i \in W, NEW j \in W, hd[i] = hd[j] PROVE i = j
    <2>1. UsedAt(i)[4] = UsedAt(j)[4]
      BY <1>2, <1>4, HeadOf DEF RingInv
    <2>2. UsedAt(i) = UsedAt(j)
      BY <1>2, <2>1 DEF RingInv, OneEach
    <2> QED BY <1>2, <2>2
  <1>5. hd \in [W -> Desc \ ds]
    BY <1>3 DEF hd
  <1> HIDE DEF W
  <1> QED BY <1>1, <1>4, <1>5, Room DEF W

\* A step that leaves the rings and the processes in flight alone.
LEMMA RingKept ==
  ASSUME RingInv, DescInv', RingTypes', Pending' = Pending,
         \A p \in Proc : InFlight(p) <=> InFlight(p)',
         \A p \in Proc : InFlight(p) => pc'[p] = pc[p] /\ idx'[p] = idx[p],
         \A p \in Proc : pc[p] = "ioready" /\ p \in done => pc'[p] # "ioready" \/ p \in done',
         desc' = desc, info' = info
  PROVE  RingInv'
  <1>1. OneEach'
    <2>1. \A e \in Pending : e[4] \in Proc /\ pc'[e[4]] = "iowait" /\ e[3] = Min(idx'[e[4]])
      BY DEF RingInv, OneEach, InFlight
    <2>2. \A p \in Proc : pc'[p] = "iowait" => \E e \in Pending : e[4] = p
      BY DEF RingInv, OneEach, InFlight
    <2> QED BY <2>1, <2>2 DEF RingInv, OneEach
  <1>2. Chains'
    BY DEF RingInv, Chains
  <1>3. ReturnsWhenDone'
    BY DEF RingInv, ReturnsWhenDone, InFlight
  <1> QED BY <1>1, <1>2, <1>3 DEF RingInv

LEMMA RingCall ==
  ASSUME RingInv, NEW p \in Proc, Call(p), DescInv'
  PROVE  RingInv'
  <1>1. /\ pc[p] = "idle" /\ pc' = [pc EXCEPT ![p] = "alloc"] /\ done' = done \ {p}
        /\ UNCHANGED <<idx, free, info, desc, avail, taken, device, used, used_idx, killed, panic>>
    BY DEF Call
  <1>2. pc \in [Proc -> State]
    BY DEF RingInv, DescInv
  <1>3. RingTypes' /\ Pending' = Pending
    BY <1>1, SMTT(30) DEF RingInv, RingTypes, Pending
  <1>4. \A q \in Proc : InFlight(q) <=> InFlight(q)'
    BY <1>1, <1>2 DEF InFlight
  <1>5. \A q \in Proc : InFlight(q) => q # p /\ pc'[q] = pc[q]
    BY <1>1, <1>2 DEF InFlight
  <1>6. \A q \in Proc : pc[q] = "ioready" /\ q \in done => q \in done'
    BY <1>1
  <1> QED BY <1>1, <1>3, <1>4, <1>5, <1>6, RingKept

LEMMA RingWait ==
  ASSUME RingInv, NEW p \in Proc, WaitForDesc(p), DescInv'
  PROVE  RingInv'
  <1> DEFINE S == IF free = {} THEN {} ELSE Sleepers("descwait", Proc \ {p})
  <1>1. /\ pc[p] = "alloc" /\ pc' = [Woken(S, pc) EXCEPT ![p] = "descwait"]
        /\ UNCHANGED <<idx, free, info, desc, avail, taken, device, used, used_idx, killed, done, panic>>
    BY DEF WaitForDesc
  <1>2. \A q \in S : pc[q] = "descwait"
    BY DEF Sleepers
  <1> HIDE DEF S
  <1>3. pc \in [Proc -> State]
    BY DEF RingInv, DescInv
  <1>4. RingTypes' /\ Pending' = Pending
    BY <1>1, SMTT(30) DEF RingInv, RingTypes, Pending
  <1>5. \A q \in Proc : q # p => pc'[q] = Woken(S, pc)[q]
    BY <1>1, <1>3, WokenState
  <1>6. pc'[p] = "descwait"
    BY <1>1, <1>3, WokenState
  <1>7. \A q \in Proc : InFlight(q) <=> InFlight(q)'
    BY <1>1, <1>3, <1>5, <1>6, WokenState DEF InFlight
  <1>8. \A q \in Proc : InFlight(q) => pc'[q] = pc[q]
    BY <1>1, <1>2, <1>3, <1>5, WokenState DEF InFlight
  <1> QED BY <1>1, <1>4, <1>7, <1>8, RingKept

LEMMA RingFinish ==
  ASSUME RingInv, NEW p \in Proc, Finish(p), DescInv'
  PROVE  RingInv'
  <1> DEFINE h == Min(idx[p])
             S == Sleepers("descwait", Proc)
  <1>1. /\ pc[p] = "ioready" /\ info' = [info EXCEPT ![h] = Nobody] /\ desc' = [desc EXCEPT ![h] = Nobody]
        /\ panic' = (idx[p] \cap free # {})
        /\ idx' = [idx EXCEPT ![p] = {}] /\ pc' = [Woken(S, pc) EXCEPT ![p] = "idle"]
        /\ UNCHANGED <<avail, taken, device, used, used_idx, killed, done>>
    BY DEF Finish
  <1>2. \A q \in S : pc[q] = "descwait"
    BY DEF Sleepers
  <1> HIDE DEF S
  <1>3. pc \in [Proc -> State] /\ idx \in [Proc -> SUBSET Desc]
    BY DEF RingInv, DescInv
  <1>4. InFlight(p) /\ h \in Desc /\ \A q \in Proc : InFlight(q) /\ q # p => Min(idx[q]) # h /\ Min(idx[q]) \in Desc
    BY <1>1, HeadOf DEF RingInv, InFlight
  <1> HIDE DEF h
  <1>5. panic' = FALSE
    BY <1>1, <1>4, ZenonT(30) DEF RingInv, DescInv, DescriptorsAccounted
  <1>6. RingTypes'
    BY <1>1, <1>5, ZenonT(30) DEF RingInv, RingTypes
  <1>7. \A q \in Proc : q # p => pc'[q] = Woken(S, pc)[q] /\ idx'[q] = idx[q]
    BY <1>1, <1>3, WokenState
  <1>8. pc'[p] = "idle"
    BY <1>1, <1>3, WokenState
  <1>9. \A q \in Proc : q # p /\ InFlight(q) => pc'[q] = pc[q]
    BY <1>2, <1>3, <1>7, WokenState DEF InFlight
  <1>10. \A q \in Proc : InFlight(q)' <=> q # p /\ InFlight(q)
    BY <1>3, <1>7, <1>8, WokenState DEF InFlight
  <1>11. \A q \in Proc : q # p /\ InFlight(q) => desc'[Min(idx[q])] = desc[Min(idx[q])]
                                              /\ info'[Min(idx[q])] = info[Min(idx[q])]
    BY <1>1, <1>4 DEF RingInv, RingTypes
  <1>12. \A e \in Pending : e[4] \in Proc /\ e[4] # p /\ InFlight(e[4])
    BY <1>1 DEF RingInv, OneEach, InFlight
  <1>13. Pending' = Pending
    <2>1. ASSUME NEW i \in Window(taken, avail.idx) PROVE AvailAt(i)' = AvailAt(i)
      <3>1. AvailAt(i) \in Pending
        BY PendingParts DEF InAvail
      <3>2. avail.ring[i % NUM] = Min(idx[AvailAt(i)[4]])
        BY <3>1 DEF RingInv, OneEach, AvailAt
      <3>3. desc'[avail.ring[i % NUM]] = desc[avail.ring[i % NUM]]
        BY <1>11, <1>12, <3>1, <3>2
      <3> QED BY <1>1, <3>3 DEF AvailAt
    <2>2. InAvail' = InAvail
      BY <1>1, <2>1 DEF InAvail
    <2>3. InDevice' = InDevice /\ InUsed' = InUsed
      BY <1>1 DEF InDevice, InUsed, DeviceAt, UsedAt
    <2> QED BY <2>2, <2>3, PendingParts
  <1>14. OneEach'
    <2>1. \A e \in Pending : e[4] \in Proc /\ pc'[e[4]] = "iowait" /\ e[3] = Min(idx'[e[4]])
      BY <1>7, <1>9, <1>12 DEF RingInv, OneEach
    <2>2. \A q \in Proc : pc'[q] = "iowait" => \E e \in Pending : e[4] = q
      <3>1. \A q \in Proc : pc'[q] = "iowait" => InFlight(q)'
        BY DEF InFlight
      <3>2. \A q \in Proc : pc'[q] = "iowait" => pc[q] = "iowait"
        BY <1>9, <1>10, <3>1
      <3> QED BY <3>2 DEF RingInv, OneEach
    <2> QED BY <1>13, <2>1, <2>2 DEF RingInv, OneEach
  <1>15. Chains'
    BY <1>7, <1>10, <1>11 DEF RingInv, Chains
  <1>16. ReturnsWhenDone'
    BY <1>1, <1>8, <1>9, <1>10 DEF RingInv, ReturnsWhenDone, InFlight
  <1> QED BY <1>6, <1>14, <1>15, <1>16 DEF RingInv

LEMMA RingSubmit ==
  ASSUME RingInv, NEW p \in Proc, Submit(p), DescInv'
  PROVE  RingInv'
  <1> DEFINE ds == Three(free)
             h == Min(ds)
             a == avail.idx
             n == <<"avail", a, h, p>>
  <1>1. /\ pc[p] = "alloc" /\ Cardinality(free) >= 3
        /\ idx' = [idx EXCEPT ![p] = ds] /\ desc' = [desc EXCEPT ![h] = p] /\ info' = [info EXCEPT ![h] = p]
        /\ avail' = [idx |-> (a + 1) % IdxMod, ring |-> [avail.ring EXCEPT ![a % NUM] = h]]
        /\ pc' = [pc EXCEPT ![p] = "iowait"]
        /\ UNCHANGED <<taken, device, used, used_idx, killed, done, panic>>
    BY DEF Submit
  <1>2. /\ pc \in [Proc -> State] /\ idx \in [Proc -> SUBSET Desc] /\ free \in SUBSET Desc
        /\ a \in Pos /\ taken \in Pos /\ avail.ring \in [Desc -> Desc \cup {NoDesc}]
        /\ desc \in [Desc -> Proc \cup {Nobody}] /\ info \in [Desc -> Proc \cup {Nobody}]
    BY DEF RingInv, DescInv, RingTypes
  <1>3. ds \subseteq free /\ Cardinality(ds) = 3 /\ h \in ds
    <2>1. ds \subseteq free /\ Cardinality(ds) = 3 /\ ds # {}
      BY <1>1, <1>2, ThreeOf
    <2> HIDE DEF ds
    <2>2. ds \in SUBSET Nat
      BY <1>2, <2>1, DescFinite
    <2> QED BY <2>1, <2>2, MinOf
  <1>4. \A e \in Pending : e[4] \in Proc /\ e[4] # p /\ InFlight(e[4]) /\ e[3] \in Desc \ free
    BY <1>1, HeadOf DEF RingInv, OneEach, InFlight
  <1> HIDE DEF ds, h, n
  <1>5. Size(taken, a) + 1 < NUM /\ Size(taken, a) + 1 < IdxMod
    BY <1>2, <1>3, <1>4, PendingParts, AvailRoom
  <1>6. Window(taken, avail'.idx) = Window(taken, a) \cup {a}
    BY <1>1, <1>2, <1>5, WindowGrows
  <1>7. ASSUME NEW i \in Window(taken, a) PROVE AvailAt(i)' = AvailAt(i)
    <2>1. i \in Pos /\ i % NUM # a % NUM
      <3>1. NUM \in Int /\ IdxMod \in Int /\ taken \in Int /\ a \in Int
        BY <1>2, VirtioAssumption DEF Pos
      <3>2. Size(taken, a) \in Int
        BY <3>1 DEF Size
      <3>3. Size(taken, a) < NUM
        BY <1>5, <3>1, <3>2
      <3> QED BY <1>2, <3>3, EndIsFree DEF Window, Pos
    <2>2. i % NUM \in Desc /\ a % NUM \in Desc
      BY <1>2, <2>1, SlotInDesc
    <2>3. avail'.ring[i % NUM] = avail.ring[i % NUM]
      BY <1>1, <1>2, <2>1, <2>2
    <2>4. AvailAt(i) \in Pending
      BY PendingParts DEF InAvail
    <2>5. avail.ring[i % NUM] \in Desc \ free
      BY <1>4, <2>4 DEF AvailAt
    <2>6. desc'[avail.ring[i % NUM]] = desc[avail.ring[i % NUM]]
      BY <1>1, <1>2, <1>3, <2>5
    <2> QED BY <2>3, <2>6 DEF AvailAt
  <1>8. ASSUME NEW i, i = a PROVE AvailAt(i)' = n
    <2>1. a % NUM \in Desc
      BY <1>2, SlotInDesc
    <2>2. avail'.ring[i % NUM] = h /\ desc'[h] = p
      BY <1>1, <1>2, <1>3, <1>8, <2>1
    <2> QED BY <1>8, <2>2 DEF AvailAt, n
  <1>9. Pending' = Pending \cup {n}
    <2>1. InAvail' = InAvail \cup {n}
      BY <1>1, <1>6, <1>7, <1>8 DEF InAvail
    <2>2. InDevice' = InDevice /\ InUsed' = InUsed
      BY <1>1 DEF InDevice, InUsed, DeviceAt, UsedAt
    <2> QED BY <2>1, <2>2, PendingParts
  <1>10. n[3] = h /\ n[4] = p
    BY DEF n
  <1>11. idx'[p] = ds /\ pc'[p] = "iowait" /\ \A q \in Proc : q # p => idx'[q] = idx[q] /\ pc'[q] = pc[q]
    BY <1>1, <1>2
  <1>12. OneEach'
    <2>1. \A e \in Pending' : e[4] \in Proc /\ pc'[e[4]] = "iowait" /\ e[3] = Min(idx'[e[4]])
      BY <1>4, <1>9, <1>10, <1>11 DEF RingInv, OneEach, h
    <2>2. \A e, f \in Pending' : e[4] = f[4] => e = f
      BY <1>4, <1>9, <1>10 DEF RingInv, OneEach
    <2>3. \A q \in Proc : pc'[q] = "iowait" => \E e \in Pending' : e[4] = q
      BY <1>9, <1>10, <1>11 DEF RingInv, OneEach
    <2> QED BY <2>1, <2>2, <2>3 DEF OneEach
  <1>13. RingTypes'
    <2>1. h \in Desc /\ a % NUM \in Desc /\ (a + 1) % IdxMod \in Pos
      BY <1>2, <1>3, SlotInDesc, Next1
    <2>2. avail' \in [idx : Pos, ring : [Desc -> Desc \cup {NoDesc}]]
      BY <1>1, <1>2, <2>1
    <2>3. info' \in [Desc -> Proc \cup {Nobody}] /\ desc' \in [Desc -> Proc \cup {Nobody}]
      BY <1>1, <1>2, <2>1
    <2>4. /\ taken' \in Pos /\ used_idx' \in Pos /\ device' \subseteq Entry
          /\ used' \in [idx : Pos, ring : [Desc -> Entry \cup {NoEntry}]]
          /\ killed' = {} /\ panic' = FALSE
      BY <1>1 DEF RingInv, RingTypes
    <2> QED BY <2>2, <2>3, <2>4 DEF RingTypes
  <1>14. ASSUME NEW q \in Proc, InFlight(q)'
         PROVE  desc'[Min(idx'[q])] = q /\ info'[Min(idx'[q])] = q
    <2>1. CASE q = p
      BY <1>1, <1>2, <1>3, <1>11, <2>1 DEF h
    <2>2. CASE q # p
      <3>1. InFlight(q) /\ idx'[q] = idx[q]
        BY <1>11, <1>14, <2>2 DEF InFlight
      <3>2. Min(idx[q]) \in Desc \ free
        BY <3>1, HeadOf DEF RingInv
      <3> QED BY <1>1, <1>2, <1>3, <3>1, <3>2 DEF RingInv, Chains
    <2> QED BY <2>1, <2>2
  <1>15. ReturnsWhenDone'
    BY <1>1, <1>11 DEF RingInv, ReturnsWhenDone
  <1>16. Chains'
    BY <1>14 DEF Chains
  <1> QED BY <1>12, <1>13, <1>15, <1>16 DEF RingInv

\* The device moves an entry from one place to another.
LEMMA RingMoved ==
  ASSUME RingInv, NEW t \in Pending, NEW n, n[3] = t[3], n[4] = t[4],
         Pending' = (Pending \ {t}) \cup {n},
         UNCHANGED <<pc, idx, free, info, desc, done>>, RingTypes', DescInv'
  PROVE  RingInv'
  <1>1. OneEach'
    <2>1. \A e \in Pending' : e[4] \in Proc /\ pc'[e[4]] = "iowait" /\ e[3] = Min(idx'[e[4]])
      BY DEF RingInv, OneEach
    <2>2. \A e, f \in Pending' : e[4] = f[4] => e = f
      BY DEF RingInv, OneEach
    <2>3. \A p \in Proc : pc'[p] = "iowait" => \E e \in Pending' : e[4] = p
      BY DEF RingInv, OneEach
    <2> QED BY <2>1, <2>2, <2>3 DEF OneEach
  <1>2. Chains' /\ ReturnsWhenDone'
    BY DEF RingInv, Chains, ReturnsWhenDone, InFlight
  <1> QED BY <1>1, <1>2 DEF RingInv

LEMMA RingTake ==
  ASSUME RingInv, DeviceTake, DescInv'
  PROVE  RingInv'
  <1>0. PICK k : k = taken
    OBVIOUS
  <1> DEFINE h == avail.ring[k % NUM]
             q == desc[h]
             t == AvailAt(k)
             d == [id |-> h, proc |-> q, at |-> k]
  <1>1. /\ k # avail.idx /\ avail' = [avail EXCEPT !.ring[k % NUM] = NoDesc]
        /\ taken' = (k + 1) % IdxMod
        /\ UNCHANGED <<pc, idx, free, info, desc, used, used_idx, killed, done>>
        /\ IF q = Nobody THEN panic' = TRUE /\ UNCHANGED device
           ELSE panic' = FALSE /\ device' = device \cup {d}
    BY <1>0 DEF DeviceTake
  <1>2. /\ k \in Pos /\ avail.idx \in Pos /\ avail.ring \in [Desc -> Desc \cup {NoDesc}]
        /\ avail \in [idx : Pos, ring : [Desc -> Desc \cup {NoDesc}]]
    BY <1>0 DEF RingInv, RingTypes
  <1>3. /\ k \in Window(k, avail.idx)
        /\ Window(taken', avail.idx) = Window(k, avail.idx) \ {k}
    BY <1>1, <1>2, WindowShrinks
  <1>4. t \in InAvail /\ t \in Pending
    BY <1>0, <1>3, PendingParts DEF InAvail
  <1>5. t[3] = h /\ t[4] = q
    BY DEF AvailAt
  <1>6. q \in Proc /\ InFlight(q) /\ h = Min(idx[q]) /\ h \in Desc
    <2>1. q \in Proc /\ pc[q] = "iowait" /\ h = Min(idx[q])
      BY <1>4, <1>5 DEF RingInv, OneEach
    <2>2. InFlight(q)
      BY <2>1 DEF InFlight
    <2> QED BY <2>1, <2>2, HeadOf DEF RingInv
  <1>7. panic' = FALSE /\ device' = device \cup {d}
    BY <1>1, <1>6, VirtioAssumption
  <1>8. /\ avail'.idx = avail.idx
        /\ \A j \in Desc : avail'.ring[j] = IF j = k % NUM THEN NoDesc ELSE avail.ring[j]
        /\ avail' \in [idx : Pos, ring : [Desc -> Desc \cup {NoDesc}]]
    BY <1>1, <1>2
  <1>9. ASSUME NEW i \in Window(k, avail.idx), i # k PROVE AvailAt(i)' = AvailAt(i)
    <2>1. i \in Pos /\ i % NUM \in Desc
      BY SlotInDesc DEF Window, Pos
    <2>2. i % NUM # k % NUM
      <3>1. SUFFICES ASSUME i % NUM = k % NUM PROVE FALSE
        OBVIOUS
      <3>2. AvailAt(i) \in Pending /\ AvailAt(i)[4] = t[4]
        BY <1>0, <3>1, PendingParts DEF InAvail, AvailAt
      <3>3. AvailAt(i) = t
        BY <1>4, <3>2 DEF RingInv, OneEach
      <3>4. AvailAt(i)[2] = i /\ t[2] = k
        BY DEF AvailAt
      <3> QED BY <1>9, <3>3, <3>4
    <2>3. avail'.ring[i % NUM] = avail.ring[i % NUM]
      BY <1>8, <2>1, <2>2
    <2> QED BY <1>1, <2>3 DEF AvailAt
  <1>10. InAvail' = InAvail \ {t}
    <2>1. InAvail' = {AvailAt(i)' : i \in Window(k, avail.idx) \ {k}}
      BY <1>3, <1>8 DEF InAvail
    <2>2. InAvail' = {AvailAt(i) : i \in Window(k, avail.idx) \ {k}}
      BY <1>9, <2>1
    <2>3. InAvail = {AvailAt(i) : i \in Window(k, avail.idx)}
      BY <1>0 DEF InAvail
    <2>4. \A i : i # k => AvailAt(i) # t
      <3>1. \A i : AvailAt(i)[2] = i
        BY DEF AvailAt
      <3> QED BY <3>1
    <2> HIDE DEF t
    <2> QED BY <2>2, <2>3, <2>4 DEF t
  <1>11. InUsed' = InUsed
    BY <1>1 DEF InUsed, UsedAt
  <1> DEFINE n == <<"device", k, h, q>>
  <1>12. InDevice' = InDevice \cup {n}
    <2>1. InDevice' = {DeviceAt(r) : r \in device \cup {d}}
      BY <1>7 DEF InDevice, DeviceAt
    <2>2. DeviceAt(d) = n
      BY DEF DeviceAt
    <2> HIDE DEF d, n
    <2> QED BY <2>1, <2>2 DEF InDevice
  <1>13. t \notin InDevice /\ t \notin InUsed
    BY DEF AvailAt, DeviceAt, UsedAt, InDevice, InUsed
  <1>14. n[3] = t[3] /\ n[4] = t[4]
    BY <1>5
  <1>15. RingTypes'
    <2>1. d \in Entry
      BY <1>2, <1>6 DEF Entry, Pos
    <2>2. device' \subseteq Entry
      BY <1>7, <2>1 DEF RingInv, RingTypes
    <2>3. taken' \in Pos
      BY <1>1, <1>2, Next1
    <2> QED BY <1>1, <1>7, <1>8, <2>2, <2>3 DEF RingInv, RingTypes
  <1> HIDE DEF n, t
  <1>16. Pending' = (Pending \ {t}) \cup {n}
    BY <1>10, <1>11, <1>12, <1>13, PendingParts
  <1> QED BY <1>1, <1>4, <1>14, <1>15, <1>16, RingMoved

LEMMA RingDone ==
  ASSUME RingInv, NEW r \in device, DeviceDone(r), DescInv'
  PROVE  RingInv'
  <1>0. PICK k : k = used.idx
    OBVIOUS
  <1> DEFINE t == DeviceAt(r)
             n == <<"used", k, r.id, r.proc>>
             ds == idx[r.proc]
  <1>1. /\ device' = device \ {r}
        /\ used' = [idx |-> (k + 1) % IdxMod, ring |-> [used.ring EXCEPT ![k % NUM] = r]]
        /\ UNCHANGED <<pc, idx, free, info, desc, avail, taken, used_idx, killed, done, panic>>
    BY <1>0 DEF DeviceDone
  <1>2. /\ k \in Pos /\ used_idx \in Pos /\ used.ring \in [Desc -> Entry \cup {NoEntry}]
        /\ r \in Entry /\ device \subseteq Entry
    BY <1>0 DEF RingInv, RingTypes
  <1>3. t \in Pending /\ t \in InDevice /\ t[3] = r.id /\ t[4] = r.proc
    BY PendingParts DEF InDevice, DeviceAt
  <1>4. r.proc \in Proc /\ InFlight(r.proc) /\ r.id = Min(ds)
    BY <1>3 DEF RingInv, OneEach, InFlight
  <1>5. ds \in SUBSET Desc /\ Cardinality(ds) = 3
    BY <1>4 DEF RingInv, DescInv, DescriptorsAccounted
  <1>6. ASSUME NEW e \in InUsed PROVE e[3] \notin ds
    <2>1. e \in Pending
      BY PendingParts
    <2>2. e # t
      BY <1>6 DEF InUsed, UsedAt, DeviceAt
    <2>3. e[4] # r.proc
      BY <1>3, <2>1, <2>2 DEF RingInv, OneEach
    <2>4. e[4] \in Proc /\ InFlight(e[4]) /\ e[3] = Min(idx[e[4]])
      BY <2>1 DEF RingInv, OneEach, InFlight
    <2>5. e[3] \in idx[e[4]]
      BY <2>4, HeadOf DEF RingInv
    <2> QED BY <1>4, <2>3, <2>4, <2>5 DEF RingInv, DescInv, DescriptorsAccounted
  <1> HIDE DEF ds, t, n
  <1>7. Size(used_idx, k) + 1 < NUM /\ Size(used_idx, k) + 1 < IdxMod
    BY <1>0, <1>5, <1>6, UsedRoom
  <1>8. Window(used_idx, used'.idx) = Window(used_idx, k) \cup {k}
    BY <1>1, <1>2, <1>7, WindowGrows
  <1>9. ASSUME NEW i \in Window(used_idx, k) PROVE UsedAt(i)' = UsedAt(i)
    <2>1. i \in Pos /\ i % NUM # k % NUM
      <3>1. NUM \in Int /\ IdxMod \in Int /\ used_idx \in Int /\ k \in Int
        BY <1>2, VirtioAssumption DEF Pos
      <3>2. Size(used_idx, k) \in Int
        BY <3>1 DEF Size
      <3>3. Size(used_idx, k) < NUM
        BY <1>7, <3>1, <3>2
      <3> QED BY <1>2, <3>3, EndIsFree DEF Window, Pos
    <2>2. i % NUM \in Desc /\ k % NUM \in Desc
      BY <1>2, <2>1, SlotInDesc
    <2>3. used'.ring[i % NUM] = used.ring[i % NUM]
      BY <1>1, <1>2, <2>1, <2>2
    <2> QED BY <2>3 DEF UsedAt
  <1>10. UsedAt(k)' = n
    <2>1. k % NUM \in Desc
      BY <1>2, SlotInDesc
    <2>2. used'.ring[k % NUM] = r
      BY <1>1, <1>2, <2>1
    <2> QED BY <2>2 DEF UsedAt, n
  <1>11. InUsed' = InUsed \cup {n}
    BY <1>0, <1>1, <1>8, <1>9, <1>10 DEF InUsed
  <1>12. InAvail' = InAvail
    BY <1>1 DEF InAvail, AvailAt
  <1>13. InDevice' = InDevice \ {t}
    <2>1. InDevice' = {DeviceAt(s) : s \in device \ {r}}
      BY <1>1 DEF InDevice, DeviceAt
    <2>2. ASSUME NEW s \in device, s # r PROVE DeviceAt(s) # t
      <3>1. s \in Entry
        BY <1>2
      <3>2. s = [id |-> s.id, proc |-> s.proc, at |-> s.at] /\ r = [id |-> r.id, proc |-> r.proc, at |-> r.at]
        BY <1>2, <3>1 DEF Entry
      <3>3. DeviceAt(s) = t => s.at = r.at /\ s.id = r.id /\ s.proc = r.proc
        BY DEF DeviceAt, t
      <3> QED BY <2>2, <3>2, <3>3
    <2> QED BY <2>1, <2>2 DEF InDevice, t
  <1>14. t \notin InAvail /\ t \notin InUsed
    BY DEF t, AvailAt, DeviceAt, UsedAt, InAvail, InUsed
  <1>15. n[3] = t[3] /\ n[4] = t[4]
    BY <1>3 DEF n
  <1>16. RingTypes'
    <2>1. k % NUM \in Desc /\ (k + 1) % IdxMod \in Pos
      BY <1>2, SlotInDesc, Next1
    <2>2. used' \in [idx : Pos, ring : [Desc -> Entry \cup {NoEntry}]]
      BY <1>1, <1>2, <2>1
    <2> QED BY <1>1, <1>2, <2>2 DEF RingInv, RingTypes
  <1>17. Pending' = (Pending \ {t}) \cup {n}
    BY <1>11, <1>12, <1>13, <1>14, PendingParts
  <1> QED BY <1>1, <1>3, <1>15, <1>16, <1>17, RingMoved

LEMMA RingIntr ==
  ASSUME Exclusive, RingInv, Intr, DescInv'
  PROVE  RingInv'
  <1> DEFINE W == Window(used_idx, used.idx)
             new == {used.ring[i % NUM] : i \in W}
             bufs == {info[e.id] : e \in new}
             S == {p \in Proc : pc[p] = "iowait" /\ \E q \in bufs \ {Nobody} : SameBuf(p, q)}
             T == {e[4] : e \in InUsed}
  <1>1. /\ panic' = (Nobody \in bufs) /\ pc' = Woken(S, pc)
        /\ done' = done \cup {e.proc : e \in new}
        /\ used_idx' = used.idx
        /\ used' = [used EXCEPT !.ring = [i \in Desc |-> NoEntry]]
        /\ UNCHANGED <<idx, free, info, desc, avail, taken, device, killed>>
    BY DEF Intr
  <1>2. ASSUME NEW i \in W
        PROVE  LET e == used.ring[i % NUM] IN
               e.proc \in Proc /\ pc[e.proc] = "iowait" /\ info[e.id] = e.proc /\ e.proc = UsedAt(i)[4]
    <2> DEFINE e == used.ring[i % NUM]
    <2>1. UsedAt(i) \in Pending /\ UsedAt(i)[3] = e.id /\ UsedAt(i)[4] = e.proc
      BY PendingParts DEF InUsed, UsedAt
    <2>2. e.proc \in Proc /\ pc[e.proc] = "iowait" /\ e.id = Min(idx[e.proc])
      <3>1. LET t == UsedAt(i) IN t[4] \in Proc /\ pc[t[4]] = "iowait" /\ t[3] = Min(idx[t[4]])
        BY <2>1 DEF RingInv, OneEach
      <3> HIDE DEF e
      <3> QED BY <2>1, <3>1
    <2> HIDE DEF e
    <2>3. info[e.id] = e.proc
      BY <2>2 DEF RingInv, Chains, InFlight
    <2> QED BY <2>1, <2>2, <2>3 DEF e
  <1>3. bufs = T /\ {e.proc : e \in new} = T
    <2>1. bufs = {info[used.ring[i % NUM].id] : i \in W} /\ {e.proc : e \in new} = {used.ring[i % NUM].proc : i \in W}
      OBVIOUS
    <2>2. T = {UsedAt(i)[4] : i \in W}
      BY DEF InUsed
    <2>3. \A i \in W : /\ info[used.ring[i % NUM].id] = UsedAt(i)[4]
                       /\ used.ring[i % NUM].proc = UsedAt(i)[4]
      BY <1>2
    <2> HIDE DEF W, new, bufs, T
    <2>4. bufs = T
      BY <2>1, <2>2, <2>3, SMTT(30)
    <2>5. {e.proc : e \in new} = T
      BY <2>1, <2>2, <2>3, SMTT(30)
    <2> QED BY <2>4, <2>5
  <1>4. T \subseteq Proc /\ \A p \in T : pc[p] = "iowait"
    BY <1>2 DEF InUsed
  <1>5. S = T
    <2>1. Nobody \notin T
      BY <1>4, VirtioAssumption
    <2> QED BY <1>3, <1>4, <2>1, ZenonT(30) DEF SameBuf, Exclusive
  <1> HIDE DEF S, T, bufs, new
  <1>6. panic' = FALSE /\ pc' = Woken(T, pc) /\ done' = done \cup T
    <2>1. pc' = Woken(T, pc) /\ done' = done \cup T
      BY <1>1, <1>3, <1>5
    <2>2. Nobody \notin bufs
      BY <1>3, <1>4, VirtioAssumption
    <2>3. panic' = (Nobody \in bufs)
      BY <1>1
    <2>4. (Nobody \in bufs) = FALSE
      BY <2>2
    <2> QED BY <2>1, <2>3, <2>4, ZenonT(30)
  <1>7. used' \in [idx : Pos, ring : [Desc -> Entry \cup {NoEntry}]] /\ used'.idx = used.idx
    BY <1>1 DEF RingInv, RingTypes
  <1>8. RingTypes'
    BY <1>1, <1>6, <1>7 DEF RingInv, RingTypes
  <1>9. Pending' = InAvail \cup InDevice
    <2>1. InUsed' = {}
      <3>1. Window(used.idx, used.idx) = {}
        BY VirtioAssumption DEF Window, RingInv, RingTypes, Pos
      <3> QED BY <1>1, <1>7, <3>1 DEF InUsed
    <2>2. InAvail' = InAvail /\ InDevice' = InDevice
      BY <1>1 DEF InAvail, InDevice, AvailAt, DeviceAt
    <2> QED BY <2>1, <2>2, PendingParts
  <1>10. pc \in [Proc -> State]
    BY DEF RingInv, DescInv
  <1>11. /\ \A p \in Proc : p \in T => pc'[p] = "ioready"
         /\ \A p \in Proc : p \notin T => pc'[p] = pc[p]
    BY <1>4, <1>6, <1>10, WokenState
  <1>12. \A e \in Pending' : e \in Pending /\ e[4] \notin T
    <2> SUFFICES ASSUME NEW e \in Pending', e[4] \in T PROVE FALSE
      BY <1>9, PendingParts
    <2>1. PICK f \in InUsed : f[4] = e[4]
      BY DEF T
    <2>2. e = f
      BY <1>9, <2>1, PendingParts DEF RingInv, OneEach
    <2>3. f[1] = "used"
      BY <2>1, SMTT(30) DEF InUsed, UsedAt
    <2>4. e \in InAvail => e[1] = "avail"
      BY SMTT(30) DEF InAvail, AvailAt
    <2>5. e \in InDevice => e[1] = "device"
      BY DEF InDevice, DeviceAt
    <2> QED BY <1>9, <2>2, <2>3, <2>4, <2>5
  <1>13. OneEach'
    <2>1. \A e \in Pending' : e[4] \in Proc /\ pc'[e[4]] = "iowait" /\ e[3] = Min(idx'[e[4]])
      BY <1>1, <1>11, <1>12 DEF RingInv, OneEach
    <2>2. \A e, f \in Pending' : e[4] = f[4] => e = f
      BY <1>12 DEF RingInv, OneEach
    <2>3. ASSUME NEW p \in Proc, pc'[p] = "iowait" PROVE \E e \in Pending' : e[4] = p
      <3>1. p \notin T /\ pc[p] = "iowait"
        BY <1>11, <2>3
      <3>2. PICK e \in Pending : e[4] = p
        BY <3>1 DEF RingInv, OneEach
      <3>3. e \notin InUsed
        BY <3>1, <3>2 DEF T
      <3> QED BY <1>9, <3>2, <3>3, PendingParts
    <2> QED BY <2>1, <2>2, <2>3 DEF OneEach
  <1>14. Chains'
    <2>1. \A p \in Proc : InFlight(p)' => InFlight(p)
      BY <1>4, <1>11 DEF InFlight
    <2> QED BY <1>1, <2>1 DEF RingInv, Chains
  <1>15. ReturnsWhenDone'
    BY <1>6, <1>11 DEF RingInv, ReturnsWhenDone
  <1> QED BY <1>8, <1>13, <1>14, <1>15 DEF RingInv

LEMMA RingInit ==
  Init => RingInv
  <1> SUFFICES ASSUME Init PROVE RingInv
    OBVIOUS
  <1>1. DescInv
    BY DescInit
  <1>2. 0 \in Pos
    BY VirtioAssumption DEF Pos
  <1>3. RingTypes
    BY <1>2 DEF Init, RingTypes
  <1>4. Window(0, 0) = {}
    BY VirtioAssumption DEF Window
  <1>5. Pending = {}
    BY <1>4 DEF Init, Pending
  <1>6. OneEach /\ Chains /\ ReturnsWhenDone
    BY <1>5 DEF Init, OneEach, Chains, ReturnsWhenDone, InFlight
  <1> QED BY <1>1, <1>3, <1>6 DEF RingInv

LEMMA RingNext ==
  ASSUME Exclusive
  PROVE  RingInv /\ [Next]_vars => RingInv'
  <1> SUFFICES ASSUME RingInv, [Next]_vars PROVE RingInv'
    OBVIOUS
  <1>1. DescInv'
    BY DescNext DEF RingInv
  <1>2. \A p \in Proc : ~Kill(p)
    BY DEF Kill, Exclusive
  <1>3. CASE UNCHANGED vars
    <2>1. RingTypes' /\ Pending' = Pending
      BY <1>3 DEF vars, RingInv, RingTypes, Pending
    <2> QED BY <1>1, <1>3, <2>1, RingKept DEF vars, InFlight
  <1>4. CASE \E p \in Proc : Call(p) \/ Submit(p) \/ WaitForDesc(p) \/ Finish(p)
    BY <1>1, <1>4, RingCall, RingSubmit, RingWait, RingFinish
  <1>5. CASE DeviceTake
    BY <1>1, <1>5, RingTake
  <1>6. CASE \E r \in device : DeviceDone(r)
    BY <1>1, <1>6, RingDone
  <1>7. CASE Intr
    BY <1>1, <1>7, RingIntr
  <1> QED BY <1>2, <1>3, <1>4, <1>5, <1>6, <1>7 DEF Next

\* For any number of processes and descriptors and any size of the ring
\* counters: as long as nobody is killed and no two processes share a buffer,
\* a request that virtio_disk_intr has not seen is in exactly one of the avail
\* ring, the device and the used ring, and its entry leads to its process.
THEOREM EveryRequestOnce ==
  ASSUME Exclusive
  PROVE  Spec => []EachRequestOnce
  <1>1. RingInv => EachRequestOnce
    <2> SUFFICES ASSUME RingInv PROVE EachRequestOnce
      OBVIOUS
    <2>1. \A e \in Pending : e[4] \in Proc /\ pc[e[4]] = "iowait"
                               /\ e[3] = Min(idx[e[4]]) /\ info[e[3]] = e[4]
      BY DEF RingInv, OneEach, Chains, InFlight
    <2>2. ASSUME NEW p \in Proc, pc[p] = "iowait"
          PROVE  Cardinality({e \in Pending : e[4] = p}) = 1
      <3>1. PICK e \in Pending : e[4] = p
        BY <2>2 DEF RingInv, OneEach
      <3>2. {f \in Pending : f[4] = p} = {e}
        BY <3>1 DEF RingInv, OneEach
      <3> QED BY <3>2, FS_Singleton
    <2> QED BY <2>1, <2>2 DEF EachRequestOnce
  <1> QED BY <1>1, RingInit, RingNext, PTL DEF Spec

\* Under the same conditions virtio_disk_rw goes on after its sleep only when
\* the device has finished the request and virtio_disk_intr has said so.
THEOREM NoEarlyReturn ==
  ASSUME Exclusive
  PROVE  Spec => []ReturnsWhenDone
  <1>1. RingInv => ReturnsWhenDone
    BY DEF RingInv
  <1> QED BY <1>1, RingInit, RingNext, PTL DEF Spec

=============================================================================

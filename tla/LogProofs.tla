----------------------------- MODULE LogProofs -----------------------------
(***************************************************************************)
(* The log implements AtomicStore for any number of blocks, any contents   *)
(* and any size of the log, with reboots at every step.                    *)
(***************************************************************************)
EXTENDS Log, TLAPS

\* A header names no block twice: log_write absorbs repeated writes.
Distinct(h) == \A i, j \in DOMAIN h : h[i] = h[j] => i = j

\* The first k log blocks are copies of what f has for the blocks of h.
Copied(h, f, k) == \A i \in DOMAIN h : i < k => logged[i] = f[h[i]]

\* A block is at its place on the disk unless h names it.
HomeBut(h) == \A b \in Block : Holds(h, b) \/ mem[b] = home[b]

\* Type invariant of the parts the refinement reads.
Types ==
  /\ mem \in [Block -> Value]
  /\ home \in [Block -> Value]
  /\ logged \in [Slot -> Value]
  /\ head \in Seq(Block) /\ Len(head) <= LOGSIZE
  /\ lh \in Seq(Block) /\ Len(lh) <= LOGSIZE
  /\ outstanding \in Nat
  /\ pc \in {"run", "write_log", "write_head", "install", "clear", "recover", "panic"}
  /\ tail \in Nat \ {0}

\* The inductive invariant: what is on the disk in each phase of a commit.
LogInv ==
  /\ Types
  /\ Distinct(lh) /\ Distinct(head)
  /\ pc \in {"run", "panic", "write_log", "write_head"} => head = <<>> /\ HomeBut(lh)
  /\ pc \notin {"run", "panic"} => outstanding = 0
  /\ pc = "write_log" => tail <= Len(lh) + 1 /\ Copied(lh, mem, tail)
  /\ pc = "write_head" => Copied(lh, mem, Len(lh) + 1)
  /\ pc = "install" =>
       /\ head = lh
       /\ HomeBut(lh)
       /\ Copied(lh, mem, Len(lh) + 1)
       /\ Copied(lh, home, tail)
       /\ tail <= Len(lh) + 1
  /\ pc = "clear" => lh = <<>> /\ mem = home /\ Copied(head, home, Len(head) + 1)
  /\ pc = "recover" =>
       lh = head /\ mem = home /\ Copied(lh, home, tail) /\ tail <= Len(lh) + 1

\* The initial state of Log satisfies the invariant.
LEMMA InitInv == ASSUME LogAssumption, Init PROVE LogInv
  BY DEF LogAssumption, Init, LogInv, Types, Distinct, Copied, HomeBut, Holds

\* begin_op keeps the invariant.
LEMMA BeginOpInv == ASSUME LogAssumption, LogInv, BeginOp PROVE LogInv'
  BY DEF LogAssumption, BeginOp, LogInv, Types, Distinct, Copied, HomeBut, Holds

\* log_write keeps the invariant: a block changed in memory is in the header.
LEMMA LogWriteInv ==
  ASSUME LogAssumption, LogInv, NEW b \in Block, NEW v \in Value, LogWrite(b, v)
  PROVE  LogInv'
  <1>1. CASE Len(lh) >= LOGSIZE \/ Len(lh) >= SIZE - 1
    BY <1>1 DEF LogWrite, LogInv, Types, Distinct, Copied, HomeBut, Holds
  <1>2. CASE ~(Len(lh) >= LOGSIZE \/ Len(lh) >= SIZE - 1)
    <2>1. /\ pc = "run" /\ pc' = "run" /\ head = <<>> /\ head' = head
          /\ mem' = [mem EXCEPT ![b] = v] /\ home' = home /\ logged' = logged
          /\ outstanding' = outstanding /\ tail' = tail /\ HomeBut(lh)
      BY <1>2 DEF LogWrite, LogInv
    <2>2. CASE Holds(lh, b)
      <3>1. lh' = lh
        BY <1>2, <2>2 DEF LogWrite
      <3>2. Types' /\ Distinct(lh') /\ Distinct(head')
        BY <2>1, <3>1 DEF LogInv, Types, Distinct
      <3>3. HomeBut(lh)'
        BY <2>1, <2>2, <3>1 DEF HomeBut, Holds, LogInv, Types
      <3>4. QED
        BY <2>1, <3>2, <3>3 DEF LogInv
    <2>3. CASE ~Holds(lh, b)
      <3>1. lh' = Append(lh, b)
        BY <1>2, <2>3 DEF LogWrite
      <3>2. /\ lh' \in Seq(Block) /\ Len(lh') = Len(lh) + 1
            /\ \A i \in 1..Len(lh) : lh'[i] = lh[i]
            /\ lh'[Len(lh) + 1] = b
            /\ DOMAIN lh = 1..Len(lh) /\ DOMAIN lh' = 1..(Len(lh) + 1)
            /\ Len(lh) \in Nat
        BY <3>1 DEF LogInv, Types
      <3>3. Types'
        BY <2>1, <3>2, <1>2 DEF LogInv, Types, LogAssumption
      <3>4. Distinct(lh')
        BY <3>2, <2>3 DEF LogInv, Distinct, Holds
      <3>5. HomeBut(lh)'
        <4>1. SUFFICES ASSUME NEW c \in Block, ~Holds(lh', c)
                       PROVE  mem'[c] = home'[c]
          BY DEF HomeBut
        <4>2. c # b
          BY <3>2, <4>1 DEF Holds
        <4>3. ~Holds(lh, c)
          BY <3>2, <4>1 DEF Holds
        <4>4. QED
          BY <2>1, <4>2, <4>3 DEF HomeBut, LogInv, Types
      <3>6. QED
        BY <2>1, <3>3, <3>4, <3>5 DEF LogInv
    <2>4. QED
      BY <2>2, <2>3
  <1>3. QED
    BY <1>1, <1>2

\* end_op keeps the invariant.
LEMMA EndOpInv == ASSUME LogAssumption, LogInv, EndOp PROVE LogInv'
  BY DEF LogAssumption, EndOp, LogInv, Types, Distinct, Copied, HomeBut, Holds

\* write_log keeps the invariant: nothing at home changes.
LEMMA WriteLogInv == ASSUME LogAssumption, LogInv, WriteLog PROVE LogInv'
  <1>1. CASE tail <= Len(lh)
    <2>1. /\ pc = "write_log" /\ pc' = pc /\ tail' = tail + 1
          /\ logged' = [logged EXCEPT ![tail] = mem[lh[tail]]]
          /\ UNCHANGED <<mem, home, head, lh, outstanding>>
      BY <1>1 DEF WriteLog
    <2>2. tail \in Slot /\ tail \in DOMAIN lh /\ lh[tail] \in Block
      BY <1>1 DEF LogInv, Types, Slot, LogAssumption
    <2>3. Types'
      BY <2>1, <2>2 DEF LogInv, Types
    <2>4. Copied(lh, mem, tail)'
      BY <2>1, <2>2 DEF LogInv, Types, Copied, Slot
    <2>5. tail' <= Len(lh') + 1
      BY <1>1, <2>1 DEF LogInv, Types
    <2>6. HomeBut(lh)' /\ Distinct(lh)' /\ Distinct(head)'
      BY <2>1 DEF LogInv, HomeBut, Distinct, Holds
    <2>7. QED
      BY <2>1, <2>3, <2>4, <2>5, <2>6 DEF LogInv
  <1>2. CASE ~(tail <= Len(lh))
    BY <1>2 DEF WriteLog, LogInv, Types, Distinct, Copied, HomeBut, Holds
  <1>3. QED
    BY <1>1, <1>2

\* The commit record keeps the invariant.
LEMMA WriteHeadInv == ASSUME LogAssumption, LogInv, WriteHead PROVE LogInv'
  BY DEF LogAssumption, WriteHead, LogInv, Types, Distinct, Copied, HomeBut, Holds

\* install_trans keeps the invariant.
LEMMA InstallInv == ASSUME LogAssumption, LogInv, InstallTrans PROVE LogInv'
  <1>1. CASE tail <= Len(lh)
    <2>1. /\ pc = "install" /\ pc' = pc /\ tail' = tail + 1
          /\ home' = [home EXCEPT ![lh[tail]] = logged[tail]]
          /\ mem' = [mem EXCEPT ![lh[tail]] = logged[tail]]
          /\ UNCHANGED <<logged, head, lh, outstanding>>
      BY <1>1 DEF InstallTrans
    <2>2. tail \in Slot /\ tail \in DOMAIN lh /\ lh[tail] \in Block /\ logged[tail] \in Value
      BY <1>1 DEF LogInv, Types, Slot, LogAssumption
    <2>3. mem' = mem
      BY <2>1, <2>2 DEF LogInv, Types, Copied
    <2>4. Types'
      BY <2>1, <2>2 DEF LogInv, Types
    <2>5. Copied(lh, home, tail)'
      <3>1. SUFFICES ASSUME NEW i \in DOMAIN lh, i < tail + 1
                     PROVE  logged[i] = home'[lh[i]]
        BY <2>1 DEF Copied
      <3>2. CASE i = tail
        BY <3>2, <2>1, <2>2 DEF LogInv, Types
      <3>3. CASE i # tail
        BY <3>1, <3>3, <2>1, <2>2 DEF LogInv, Types, Copied, Distinct
      <3>4. QED
        BY <3>2, <3>3
    <2>6. HomeBut(lh)'
      BY <2>1, <2>2 DEF LogInv, Types, HomeBut, Holds
    <2>7. tail' <= Len(lh') + 1
      BY <1>1, <2>1 DEF LogInv, Types
    <2>8. Copied(lh, mem, Len(lh) + 1)' /\ head' = lh' /\ Distinct(lh)' /\ Distinct(head)'
      BY <2>1, <2>3 DEF LogInv, Copied, Distinct
    <2>9. QED
      BY <2>1, <2>4, <2>5, <2>6, <2>7, <2>8 DEF LogInv
  <1>2. CASE ~(tail <= Len(lh))
    <2>1. /\ pc = "install" /\ pc' = "clear" /\ lh' = <<>>
          /\ UNCHANGED <<home, mem, tail, logged, head, outstanding>>
      BY <1>2 DEF InstallTrans
    <2>2. Copied(lh, home, Len(lh) + 1)
      BY <1>2, <2>1 DEF LogInv, Types, Copied
    <2>3. mem = home
      <3>1. \A b \in Block : mem[b] = home[b]
        BY <2>1, <2>2 DEF LogInv, Types, Copied, HomeBut, Holds
      <3>2. QED
        BY <3>1 DEF LogInv, Types
    <2>4. Copied(head, home, Len(head) + 1)'
      BY <2>1, <2>2 DEF LogInv, Copied
    <2>5. Types' /\ Distinct(lh)' /\ Distinct(head)'
      BY <2>1 DEF LogInv, Types, Distinct, LogAssumption
    <2>6. QED
      BY <2>1, <2>3, <2>4, <2>5 DEF LogInv
  <1>3. QED
    BY <1>1, <1>2

\* Erasing the record keeps the invariant.
LEMMA ClearHeadInv == ASSUME LogAssumption, LogInv, ClearHead PROVE LogInv'
  BY DEF LogAssumption, ClearHead, LogInv, Types, Distinct, Copied, HomeBut, Holds

\* A reboot keeps the invariant: the recovery starts from the disk alone.
LEMMA CrashInv == ASSUME LogAssumption, LogInv, Crash PROVE LogInv'
  BY DEF LogAssumption, Crash, LogInv, Types, Distinct, Copied

\* A step of the recovery keeps the invariant.
LEMMA RecoverInv == ASSUME LogAssumption, LogInv, Recover PROVE LogInv'
  <1>1. CASE tail <= Len(lh)
    <2>1. /\ pc = "recover" /\ pc' = pc /\ tail' = tail + 1
          /\ home' = [home EXCEPT ![lh[tail]] = logged[tail]]
          /\ mem' = [mem EXCEPT ![lh[tail]] = logged[tail]]
          /\ UNCHANGED <<logged, head, lh, outstanding>>
      BY <1>1 DEF Recover
    <2>2. tail \in Slot /\ tail \in DOMAIN lh /\ lh[tail] \in Block /\ logged[tail] \in Value
      BY <1>1 DEF LogInv, Types, Slot, LogAssumption
    <2>3. Types'
      BY <2>1, <2>2 DEF LogInv, Types
    <2>4. Copied(lh, home, tail)'
      <3>1. SUFFICES ASSUME NEW i \in DOMAIN lh, i < tail + 1
                     PROVE  logged[i] = home'[lh[i]]
        BY <2>1 DEF Copied
      <3>2. CASE i = tail
        BY <3>2, <2>1, <2>2 DEF LogInv, Types
      <3>3. CASE i # tail
        BY <3>1, <3>3, <2>1, <2>2 DEF LogInv, Types, Copied, Distinct
      <3>4. QED
        BY <3>2, <3>3
    <2>5. tail' <= Len(lh') + 1 /\ mem' = home' /\ lh' = head'
      BY <1>1, <2>1 DEF LogInv, Types
    <2>6. Distinct(lh)' /\ Distinct(head)'
      BY <2>1 DEF LogInv, Distinct
    <2>7. QED
      BY <2>1, <2>3, <2>4, <2>5, <2>6 DEF LogInv
  <1>2. CASE ~(tail <= Len(lh))
    BY <1>2 DEF LogAssumption, Recover, LogInv, Types, Distinct, HomeBut, Holds
  <1>3. QED
    BY <1>1, <1>2

\* Every step keeps the invariant.
LEMMA StepInv == ASSUME LogAssumption, LogInv, [Next]_vars PROVE LogInv'
  <1>1. CASE UNCHANGED vars
    BY <1>1 DEF vars, LogInv, Types, Distinct, Copied, HomeBut, Holds
  <1>2. QED
    BY <1>1, BeginOpInv, LogWriteInv, EndOpInv, WriteLogInv, WriteHeadInv, InstallInv,
       ClearHeadInv, CrashInv, RecoverInv DEF Next

-----------------------------------------------------------------------------
\* The refinement.

\* What a header names is durable in the log, everything else at home.
LEMMA DurableAt ==
  ASSUME LogInv
  PROVE  /\ \A i \in DOMAIN head : head[i] \in Block /\ Durable[head[i]] = logged[i]
         /\ \A b \in Block : ~Holds(head, b) => Durable[b] = home[b]
  <1>1. ASSUME NEW i \in DOMAIN head
        PROVE  head[i] \in Block /\ Durable[head[i]] = logged[i]
    <2>1. head[i] \in Block /\ Holds(head, head[i])
      BY DEF LogInv, Types, Holds
    <2>2. SlotOf(head, head[i]) = i
      BY DEF SlotOf, LogInv, Distinct
    <2>3. QED
      BY <2>1, <2>2 DEF Durable
  <1>2. QED
    BY <1>1, ZenonT(30) DEF Durable

\* Blocks that are home already are durable.
LEMMA DurableHome ==
  ASSUME LogInv, Copied(head, home, Len(head) + 1)
  PROVE  Durable = home
  <1>1. \A b \in Block : Durable[b] = home[b]
    <2>1. TAKE b \in Block
    <2>2. CASE Holds(head, b)
      <3>1. PICK i \in DOMAIN head : head[i] = b
        BY <2>2 DEF Holds
      <3>2. i < Len(head) + 1
        BY <3>1 DEF LogInv, Types
      <3>3. QED
        BY <3>1, <3>2, DurableAt DEF Copied
    <2>3. CASE ~Holds(head, b)
      BY <2>3, DurableAt
    <2>4. QED
      BY <2>2, <2>3
  <1>2. QED
    BY <1>1 DEF Durable, LogInv, Types

\* The initial states are initial states of AtomicStore.
LEMMA InitRefines == ASSUME LogAssumption, Init PROVE Store!Init
  BY DEF LogAssumption, Init, Store!Init, Seen, Durable, Holds

\* The header is the commit point: everything system calls wrote becomes
\* durable in one step.
LEMMA WriteHeadRefines == ASSUME LogAssumption, LogInv, WriteHead PROVE Store!Commit
  <1>1. /\ pc = "write_head" /\ pc' = "install" /\ outstanding = 0 /\ head' = lh
        /\ UNCHANGED <<mem, home, logged, outstanding>> /\ LogInv'
    BY WriteHeadInv DEF WriteHead, LogInv
  <1>2. \A b \in Block : Durable'[b] = mem[b]
    <2>1. TAKE b \in Block
    <2>2. CASE Holds(lh, b)
      <3>1. PICK i \in DOMAIN lh : lh[i] = b
        BY <2>2 DEF Holds
      <3>2. SlotOf(lh, b) = i
        BY <3>1 DEF SlotOf, LogInv, Distinct
      <3>3. logged[i] = mem[b]
        BY <1>1, <3>1 DEF LogInv, Types, Copied
      <3>4. QED
        BY <1>1, <2>2, <3>2, <3>3 DEF Durable
    <2>3. CASE ~Holds(lh, b)
      BY <1>1, <2>3 DEF Durable, LogInv, HomeBut
    <2>4. QED
      BY <2>2, <2>3
  <1>3. Durable' = mem
    BY <1>2 DEF Durable, LogInv, Types
  <1>4. Seen' = mem /\ Seen = mem
    BY <1>1 DEF Seen
  <1>5. QED
    BY <1>1, <1>3, <1>4 DEF Store!Commit

\* A reboot is a crash of AtomicStore.
LEMMA CrashRefines == ASSUME LogAssumption, LogInv, Crash PROVE Store!Crash
  BY DEF Crash, Store!Crash, Seen, Durable, Holds, SlotOf

\* Before the commit, steps are those of AtomicStore with nothing in the log.
LEMMA RunRefines ==
  ASSUME LogAssumption, LogInv,
         \/ BeginOp
         \/ \E b \in Block, v \in Value : LogWrite(b, v)
         \/ EndOp
         \/ WriteLog
  PROVE  [Store!Next]_(Store!vars)
  <1>1. head = <<>> /\ head' = head /\ home' = home /\ pc # "recover" /\ pc' # "recover"
    BY DEF BeginOp, LogWrite, EndOp, WriteLog, LogInv
  <1>2. \A b \in Block : ~Holds(head, b) /\ ~Holds(head', b)
    BY <1>1 DEF Holds
  <1>3. Durable = [b \in Block |-> home[b]] /\ Durable' = [b \in Block |-> home[b]]
    BY <1>1, <1>2 DEF Durable
  <1>4. Seen = mem /\ Seen' = mem'
    BY <1>1 DEF Seen
  <1>5. CASE BeginOp
    BY <1>3, <1>4, <1>5 DEF BeginOp, Store!Next, Store!Begin
  <1>6. CASE \E b \in Block, v \in Value : LogWrite(b, v)
    <2>1. PICK b \in Block, v \in Value : LogWrite(b, v)
      BY <1>6
    <2>2. CASE mem' = mem
      BY <1>3, <1>4, <2>1, <2>2 DEF LogWrite, Store!vars
    <2>3. CASE mem' # mem
      <3>1. Store!Write(b, v)
        BY <1>3, <1>4, <2>1, <2>3 DEF LogWrite, Store!Write
      <3>2. QED
        BY <3>1 DEF Store!Next
    <2>4. QED
      BY <2>2, <2>3
  <1>7. CASE EndOp
    BY <1>3, <1>4, <1>7 DEF EndOp, Store!Next, Store!End
  <1>8. CASE WriteLog
    BY <1>3, <1>4, <1>8 DEF WriteLog, Store!vars
  <1>9. QED
    BY <1>5, <1>6, <1>7, <1>8

\* Installing the blocks of the header, in a commit or in a recovery, changes
\* nothing AtomicStore can see.
LEMMA HomeWriteInvisible ==
  ASSUME LogAssumption, LogInv, NEW i \in DOMAIN head,
         home' = [home EXCEPT ![head[i]] = logged[i]],
         UNCHANGED <<logged, head>>
  PROVE  Durable' = Durable
  <1>1. \A b \in Block : Durable'[b] = Durable[b]
    BY DEF Durable, Holds, SlotOf, LogInv, Types
  <1>2. QED
    BY <1>1 DEF Durable

\* install_trans is invisible.
LEMMA InstallRefines ==
  ASSUME LogAssumption, LogInv, InstallTrans PROVE UNCHANGED Store!vars
  <1>1. pc = "install" /\ head = lh /\ UNCHANGED <<logged, head, outstanding>> /\ pc' # "recover"
    BY DEF InstallTrans, LogInv
  <1>2. CASE tail <= Len(lh)
    <2>1. tail \in DOMAIN head /\ home' = [home EXCEPT ![head[tail]] = logged[tail]]
      BY <1>1, <1>2 DEF InstallTrans, LogInv, Types
    <2>2. mem' = mem
      <3>1. logged[tail] = mem[lh[tail]] /\ mem' = [mem EXCEPT ![lh[tail]] = logged[tail]]
        BY <1>1, <1>2, <2>1 DEF InstallTrans, LogInv, Types, Copied
      <3>2. QED
        BY <3>1 DEF LogInv, Types
    <2>3. Durable' = Durable
      BY <1>1, <2>1, HomeWriteInvisible, ZenonT(30)
    <2>4. QED
      BY <1>1, <2>2, <2>3 DEF Seen, Store!vars
  <1>3. CASE ~(tail <= Len(lh))
    BY <1>1, <1>3 DEF InstallTrans, Seen, Durable, Holds, SlotOf, Store!vars
  <1>4. QED
    BY <1>2, <1>3

\* Erasing the commit record is invisible: everything is home.
LEMMA ClearHeadRefines ==
  ASSUME LogAssumption, LogInv, ClearHead PROVE UNCHANGED Store!vars
  <1>1. /\ pc = "clear" /\ pc' = "run" /\ head' = <<>>
        /\ UNCHANGED <<mem, home, logged, outstanding>>
    BY DEF ClearHead
  <1>2. Durable = home
    BY <1>1, DurableHome DEF LogInv
  <1>3. Durable' = home
    BY <1>1 DEF Durable, Holds, LogInv, Types
  <1>4. QED
    BY <1>1, <1>2, <1>3 DEF Seen, Store!vars

\* The recovery is invisible, whenever it is cut off and begun again.
LEMMA RecoverRefines ==
  ASSUME LogAssumption, LogInv, Recover PROVE UNCHANGED Store!vars
  <1>1. pc = "recover" /\ head = lh /\ mem = home /\ UNCHANGED <<logged, outstanding>>
    BY DEF Recover, LogInv
  <1>2. CASE tail <= Len(lh)
    <2>1. /\ tail \in DOMAIN head /\ head' = head /\ pc' = pc
          /\ home' = [home EXCEPT ![head[tail]] = logged[tail]]
      BY <1>1, <1>2 DEF Recover, LogInv, Types
    <2>2. Durable' = Durable
      BY <1>1, <2>1, HomeWriteInvisible, ZenonT(30)
    <2>3. QED
      BY <1>1, <2>1, <2>2 DEF Seen, Store!vars
  <1>3. CASE ~(tail <= Len(lh))
    <2>1. head' = <<>> /\ home' = home /\ mem' = mem /\ pc' = "run"
      BY <1>3 DEF Recover
    <2>2. Copied(head, home, Len(head) + 1)
      BY <1>1, <1>3 DEF LogInv, Types, Copied
    <2>3. Durable = home
      BY <2>2, DurableHome
    <2>4. Durable' = home
      BY <2>1 DEF Durable, Holds, LogInv, Types
    <2>5. QED
      BY <1>1, <2>1, <2>3, <2>4 DEF Seen, Store!vars
  <1>4. QED
    BY <1>2, <1>3

\* Every step of the log is a step of AtomicStore or changes nothing there.
LEMMA StepRefines ==
  ASSUME LogAssumption, LogInv, [Next]_vars PROVE [Store!Next]_(Store!vars)
  <1>1. CASE UNCHANGED vars
    BY <1>1 DEF vars, Store!vars, Seen, Durable, Holds, SlotOf
  <1>2. CASE WriteHead
    BY <1>2, WriteHeadRefines DEF Store!Next
  <1>3. CASE Crash
    BY <1>3, CrashRefines DEF Store!Next
  <1>4. QED
    BY <1>1, <1>2, <1>3, RunRefines, InstallRefines, ClearHeadRefines, RecoverRefines DEF Next

\* The log of kernel/log.c makes system calls atomic: with reboots before,
\* between and after all disk writes of commits and recoveries, the blocks a
\* reboot brings back are those of a moment at which no call was active.
THEOREM LogIsAtomic == ASSUME LogAssumption PROVE Spec => CallsAreAtomic
  <1>1. Init => LogInv
    BY InitInv
  <1>2. LogInv /\ [Next]_vars => LogInv'
    BY StepInv
  <1>3. Init => Store!Init
    BY InitRefines
  <1>4. LogInv /\ [Next]_vars => [Store!Next]_(Store!vars)
    BY StepRefines
  <1>5. QED
    BY <1>1, <1>2, <1>3, <1>4, PTL DEF Spec, CallsAreAtomic, Store!Spec

=============================================================================

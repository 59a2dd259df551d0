---------------------------- MODULE BufferedLog ----------------------------
(***************************************************************************)
(* Processes that change and read blocks through the buffer cache of       *)
(* kernel/bio.c, with the sleep locks of kernel/sleeplock.c and the log of *)
(* kernel/log.c on top.                                                    *)
(*                                                                         *)
(* A buffer is referenced before it is locked, so the wait for the lock is *)
(* a step of its own.  The log and header blocks belong to the committing  *)
(* process alone, which never waits for their locks.  A disk write is one  *)
(* step and may be the last one before a reboot.                           *)
(***************************************************************************)
EXTENDS Integers, Sequences, FiniteSets, SequencesExt

CONSTANTS
  Proc,         \* processes
  Block,        \* blocks of the file system
  Value,        \* contents of a block: sequences, like the header's
  Fresh,        \* the content of every block of a new image
  LOGSIZE,      \* length of the array in the header
  SIZE,         \* log.size
  MAXOPBLOCKS,  \* what begin_op reserves for a system call
  MaxWrites,    \* blocks a system call really writes
  NBUF,         \* buffers of the cache, 30 in param.h
  Uses,         \* the blocks each process works on
  Readers,      \* processes that read blocks outside a transaction
  Killable,     \* processes that may be killed while they wait for the disk
  Crashes       \* may the machine reboot?

None == "none"
NoBlock == -1

VARIABLES
  home, logged, head,  \* the disk, as in Log
  cache,        \* the buffers and their order, most recently used first
  lh, outstanding, committing,  \* struct log
  phase, tail,  \* what the committing process is doing, as in Log
  pc, left, slot,  \* per process: where it is, writes left, its buffer
  lslot,        \* the log block's buffer of write_log and install_trans
  panic

disk == <<home, logged, head>>
log == <<lh, outstanding, committing, phase, tail>>
proc == <<pc, left, slot>>
vars == <<disk, cache, log, proc, lslot, panic>>

\* Block 0 here is the header of the log, 1..LOGSIZE are its blocks, and the
\* numbers in Block lie behind them.
HeadBlock == 0

OnDisk(a) == IF a \in Block THEN home[a] ELSE IF a = HeadBlock THEN head ELSE logged[a]

-----------------------------------------------------------------------------
\* The buffer cache (bio.c).

\* binit: every buffer is free, the last one at the front of the list.
EmptyCache ==
  [buf |-> [s \in 1..NBUF |-> [blockno |-> NoBlock, valid |-> FALSE, refcnt |-> 0,
                               data |-> <<>>, owner |-> None]],
   lru |-> [i \in 1..NBUF |-> NBUF + 1 - i]]

Cached(c, a) == {s \in 1..NBUF : c.buf[s].blockno = a}

\* Fault: only buffers in use are found.
LookupInUse(c, a) == {s \in Cached(c, a) : c.buf[s].refcnt > 0}

\* The first loop of bget.
Lookup(c, a) == Cached(c, a)

Free(c) == {i \in 1..NBUF : c.buf[c.lru[i]].refcnt = 0}

CanGet(c, a) == Lookup(c, a) # {} \/ Free(c) # {}

\* The second loop of bget, from the end of the list.
Victim(c) == c.lru[CHOOSE i \in Free(c) : \A j \in Free(c) : j <= i]

\* The buffer bget chooses, and the cache when it goes to acquiresleep.
SlotFor(c, a) ==
  IF Lookup(c, a) # {} THEN CHOOSE s \in Lookup(c, a) : TRUE ELSE Victim(c)

Get(c, a) ==
  LET s == SlotFor(c, a)
  IN  IF Lookup(c, a) # {}
        THEN [c EXCEPT !.buf[s].refcnt = @ + 1]
        ELSE [c EXCEPT !.buf[s] = [@ EXCEPT !.blockno = a, !.valid = FALSE, !.refcnt = 1]]

\* acquiresleep, and the disk read of bread: d is what the read delivered.
Lock(c, s, p, d) ==
  [c EXCEPT !.buf[s] = [@ EXCEPT !.owner = p, !.valid = TRUE,
                                 !.data = IF c.buf[s].valid THEN @ ELSE d]]

\* brelse
Relse(c, s) ==
  [buf |-> [c.buf EXCEPT ![s] = [@ EXCEPT !.owner = None, !.refcnt = @ - 1]],
   lru |-> IF c.buf[s].refcnt = 1 THEN <<s>> \o Remove(c.lru, s) ELSE c.lru]

\* bread of a block nobody else uses, with the buffer still held.
ReadAlone(c, a, p) == Lock(Get(c, a), SlotFor(c, a), p, OnDisk(a))

\* write_head: bread, copy the entries, bwrite, brelse.
HeadWritten(c, p, entries) ==
  LET s == SlotFor(c, HeadBlock)
  IN  Relse([ReadAlone(c, HeadBlock, p) EXCEPT !.buf[s].data = entries], s)

-----------------------------------------------------------------------------

Init ==
  /\ home = [b \in Block |-> Fresh]
  /\ logged = [i \in 1..LOGSIZE |-> Fresh]
  /\ head = <<>>
  /\ cache = EmptyCache
  /\ lh = <<>>
  /\ outstanding = 0
  /\ committing = FALSE
  /\ phase = "run"
  /\ tail = 1
  /\ pc = [p \in Proc |-> "idle"]
  /\ left = [p \in Proc |-> 0]
  /\ slot = [p \in Proc |-> 0]
  /\ lslot = 0
  /\ panic = "no"

Running == phase # "recover" /\ panic = "no"

At(p, l) == Running /\ pc[p] = l

Goto(p, l) == pc' = [pc EXCEPT ![p] = l]

Forget(p) == slot' = [slot EXCEPT ![p] = 0]

\* wakeup(&log), while p goes to l.
WakeLog(p, l) ==
  pc' = [q \in Proc |-> IF q = p THEN l ELSE IF pc[q] = "asleep" THEN "begin" ELSE pc[q]]

\* Fault: what the active system calls may still write is not counted.
LogFullNow == Len(lh) + MAXOPBLOCKS > LOGSIZE

LogFull == Len(lh) + (outstanding + 1) * MAXOPBLOCKS > LOGSIZE

\* One turn of the loop in begin_op.
BeginOp(p) ==
  /\ At(p, "idle") \/ At(p, "begin")
  /\ IF committing \/ LogFull
       THEN Goto(p, "asleep") /\ UNCHANGED <<outstanding, left>>
       ELSE /\ Goto(p, "op")
            /\ outstanding' = outstanding + 1
            /\ left' = [left EXCEPT ![p] = MaxWrites]
  /\ UNCHANGED <<disk, cache, lh, committing, phase, tail, slot, lslot, panic>>

\* bread up to acquiresleep: inside a system call, or by a reader without one.
Bget(p, b) ==
  /\ b \in Uses[p]
  /\ \/ At(p, "op") /\ left[p] > 0 /\ Goto(p, "lock")
     \/ At(p, "idle") /\ p \in Readers /\ Goto(p, "rlock")
  /\ IF CanGet(cache, b)
       THEN /\ cache' = Get(cache, b)
            /\ slot' = [slot EXCEPT ![p] = SlotFor(cache, b)]
            /\ UNCHANGED panic
       ELSE panic' = "bget: no buffers" /\ UNCHANGED <<cache, slot>>
  /\ UNCHANGED <<disk, log, left, lslot>>

\* What bread finds in the buffer afterwards: a process that is killed while
\* it waits for the disk goes on before the data has arrived.
Delivered(p, s) ==
  {OnDisk(cache.buf[s].blockno)} \cup (IF p \in Killable THEN {cache.buf[s].data} ELSE {})

\* The rest of bread.
BreadLock(p) ==
  /\ At(p, "lock") \/ At(p, "rlock")
  /\ cache.buf[slot[p]].owner = None
  /\ \E d \in Delivered(p, slot[p]) : cache' = Lock(cache, slot[p], p, d)
  /\ Goto(p, IF pc[p] = "lock" THEN "locked" ELSE "rlocked")
  /\ UNCHANGED <<disk, log, left, slot, lslot, panic>>

\* bpin
Pin(c, s) == [c EXCEPT !.buf[s].refcnt = @ + 1]

\* A system call changes the buffer, calls log_write and releases it.
LogWrite(p, v) ==
  LET s == slot[p]
      b == cache.buf[s].blockno
      changed == [cache EXCEPT !.buf[s].data = v]
  IN  /\ At(p, "locked")
      /\ IF Len(lh) >= LOGSIZE \/ Len(lh) >= SIZE - 1
           THEN panic' = "too big a transaction" /\ UNCHANGED <<cache, lh>>
           ELSE /\ IF Contains(lh, b)
                     THEN cache' = Relse(changed, s) /\ UNCHANGED lh
                     ELSE cache' = Relse(Pin(changed, s), s) /\ lh' = Append(lh, b)
                /\ UNCHANGED panic
      /\ left' = [left EXCEPT ![p] = @ - 1]
      /\ Goto(p, "op")
      /\ Forget(p)
      /\ UNCHANGED <<disk, outstanding, committing, phase, tail, lslot>>

\* A reader is done with the buffer.
ReadDone(p) ==
  /\ At(p, "rlocked")
  /\ cache' = Relse(cache, slot[p])
  /\ Goto(p, "idle")
  /\ Forget(p)
  /\ UNCHANGED <<disk, log, left, lslot, panic>>

\* Fault: begin_op waiters stay asleep when reserved space is given back.
EndOpNoWakeup(p) ==
  /\ At(p, "op")
  /\ outstanding' = outstanding - 1
  /\ IF outstanding = 1
       THEN /\ committing' = TRUE
            /\ phase' = IF lh # <<>> THEN "write_log" ELSE "done"
            /\ tail' = 1
            /\ Goto(p, "commit")
       ELSE Goto(p, "idle") /\ UNCHANGED <<committing, phase, tail>>
  /\ left' = [left EXCEPT ![p] = 0]
  /\ UNCHANGED <<disk, cache, lh, slot, lslot, panic>>

\* end_op up to commit.
EndOp(p) ==
  /\ At(p, "op")
  /\ outstanding' = outstanding - 1
  /\ IF committing THEN panic' = "log.committing" ELSE UNCHANGED panic
  /\ IF outstanding = 1
       THEN /\ committing' = TRUE
            /\ phase' = IF lh # <<>> THEN "write_log" ELSE "done"
            /\ tail' = 1
            /\ Goto(p, "commit")
       ELSE WakeLog(p, "idle") /\ UNCHANGED <<committing, phase, tail>>
  /\ left' = [left EXCEPT ![p] = 0]
  /\ UNCHANGED <<disk, cache, lh, slot, lslot>>

\* write_log and install_trans: bread of the log block, and bread of the other
\* block up to acquiresleep.
CopyGet(p) ==
  LET a == tail
      c == ReadAlone(cache, a, p)
      h == lh[tail]
  IN  /\ At(p, "commit")
      /\ phase \in {"write_log", "install"}
      /\ tail <= Len(lh)
      /\ IF CanGet(cache, a) /\ CanGet(c, h)
           THEN /\ cache' = Get(c, h)
                /\ slot' = [slot EXCEPT ![p] = SlotFor(c, h)]
                /\ lslot' = SlotFor(cache, a)
                /\ Goto(p, "copy")
                /\ UNCHANGED panic
           ELSE panic' = "bget: no buffers" /\ UNCHANGED <<cache, slot, lslot, pc>>
      /\ UNCHANGED <<disk, log, left>>

\* The rest of a turn of write_log.
WriteLog(p) ==
  LET s == slot[p]
      c == Lock(cache, s, p, OnDisk(cache.buf[s].blockno))
      d == c.buf[s].data
  IN  /\ At(p, "copy")
      /\ phase = "write_log"
      /\ cache.buf[s].owner = None
      /\ logged' = [logged EXCEPT ![tail] = d]
      /\ cache' = Relse(Relse([c EXCEPT !.buf[lslot].data = d], s), lslot)
      /\ tail' = tail + 1
      /\ Goto(p, "commit")
      /\ Forget(p)
      /\ lslot' = 0
      /\ UNCHANGED <<home, head, lh, outstanding, committing, phase, left, panic>>

\* The rest of a turn of install_trans(0).
Install(p) ==
  LET s == slot[p]
      d == cache.buf[lslot].data
      c == [Lock(cache, s, p, OnDisk(cache.buf[s].blockno))
              EXCEPT !.buf[s].data = d, !.buf[s].refcnt = @ - 1]
  IN  /\ At(p, "copy")
      /\ phase = "install"
      /\ cache.buf[s].owner = None
      /\ home' = [home EXCEPT ![lh[tail]] = d]
      /\ cache' = Relse(Relse(c, lslot), s)
      /\ tail' = tail + 1
      /\ Goto(p, "commit")
      /\ Forget(p)
      /\ lslot' = 0
      /\ UNCHANGED <<logged, head, lh, outstanding, committing, phase, left, panic>>

\* Fault: the blocks are installed before the header says so.
LoopDoneNoCommit(p) ==
  /\ At(p, "commit")
  /\ phase \in {"write_log", "install"}
  /\ tail > Len(lh)
  /\ phase' = IF phase = "write_log" THEN "install" ELSE "clear"
  /\ tail' = 1
  /\ lh' = IF phase = "write_log" THEN lh ELSE <<>>
  /\ UNCHANGED <<disk, cache, outstanding, committing, proc, lslot, panic>>

\* write_log is through, and so is install_trans, which empties the list.
LoopDone(p) ==
  /\ At(p, "commit")
  /\ phase \in {"write_log", "install"}
  /\ tail > Len(lh)
  /\ phase' = IF phase = "write_log" THEN "write_head" ELSE "clear"
  /\ lh' = IF phase = "write_log" THEN lh ELSE <<>>
  /\ UNCHANGED <<disk, cache, outstanding, committing, tail, proc, lslot, panic>>

\* write_head, with the entries to commit or without to erase them.
WriteHead(p) ==
  /\ At(p, "commit")
  /\ phase \in {"write_head", "clear"}
  /\ IF CanGet(cache, HeadBlock)
       THEN /\ cache' = HeadWritten(cache, p, lh)
            /\ head' = lh
            /\ phase' = IF phase = "write_head" THEN "install" ELSE "done"
            /\ tail' = 1
            /\ UNCHANGED panic
       ELSE panic' = "bget: no buffers" /\ UNCHANGED <<cache, head, phase, tail>>
  /\ UNCHANGED <<home, logged, lh, outstanding, committing, proc, lslot>>

\* The end of end_op after commit.
Committed(p) ==
  /\ At(p, "commit")
  /\ phase = "done"
  /\ committing' = FALSE
  /\ phase' = "run"
  /\ WakeLog(p, "idle")
  /\ UNCHANGED <<disk, cache, lh, outstanding, tail, left, slot, lslot, panic>>

\* A reboot; initlog reads the header.
Crash ==
  /\ Crashes
  /\ cache' = Relse(ReadAlone(EmptyCache, HeadBlock, "init"), SlotFor(EmptyCache, HeadBlock))
  /\ lh' = head
  /\ outstanding' = 0
  /\ committing' = FALSE
  /\ phase' = "recover"
  /\ tail' = 1
  /\ pc' = [p \in Proc |-> "idle"]
  /\ left' = [p \in Proc |-> 0]
  /\ slot' = [p \in Proc |-> 0]
  /\ lslot' = 0
  /\ panic' = "no"
  /\ UNCHANGED disk

\* recover_from_log, before any other process exists: a turn of
\* install_trans(1), or the write_head at the end.
Recover ==
  /\ phase = "recover"
  /\ IF tail <= Len(lh)
       THEN LET a == tail
                h == lh[tail]
                c == ReadAlone(cache, a, "init")
                s == SlotFor(c, h)
                d == c.buf[SlotFor(cache, a)].data
                e == [ReadAlone(c, h, "init") EXCEPT !.buf[s].data = d]
            IN  /\ cache' = Relse(Relse(e, SlotFor(cache, a)), s)
                /\ home' = [home EXCEPT ![lh[tail]] = d]
                /\ tail' = tail + 1
                /\ UNCHANGED <<head, lh, phase>>
       ELSE /\ cache' = HeadWritten(cache, "init", <<>>)
            /\ head' = <<>>
            /\ lh' = <<>>
            /\ phase' = "run"
            /\ tail' = 1
            /\ UNCHANGED home
  /\ UNCHANGED <<logged, outstanding, committing, proc, lslot, panic>>

\* What a process does once it has begun something.
Step(p) ==
  \/ At(p, "begin") /\ BeginOp(p)
  \/ BreadLock(p)
  \/ \E v \in Value : LogWrite(p, v)
  \/ ReadDone(p)
  \/ EndOp(p)
  \/ CopyGet(p)
  \/ WriteLog(p)
  \/ Install(p)
  \/ LoopDone(p)
  \/ WriteHead(p)
  \/ Committed(p)

Next ==
  \/ \E p \in Proc : Step(p) \/ BeginOp(p) \/ (\E b \in Block : Bget(p, b))
  \/ Crash
  \/ Recover

Spec == Init /\ [][Next]_vars

\* The scheduler runs every runnable process; nobody is obliged to start.
FairSpec == Spec /\ WF_vars(Recover) /\ \A p \in Proc : WF_vars(Step(p))

-----------------------------------------------------------------------------

TypeOK ==
  /\ home \in [Block -> Value]
  /\ logged \in [1..LOGSIZE -> Value]
  /\ head \in Seq(Block) /\ lh \in Seq(Block)
  /\ Len(head) <= LOGSIZE /\ Len(lh) <= LOGSIZE
  /\ outstanding \in 0..Cardinality(Proc)
  /\ \A s \in 1..NBUF :
       /\ cache.buf[s].refcnt \in Nat
       /\ cache.buf[s].owner \in Proc \cup {None}
  /\ cache.lru \in [1..NBUF -> 1..NBUF]
  /\ slot \in [Proc -> 0..NBUF]

\* No panic of log.c or bio.c: the reservation of begin_op covers what system
\* calls write, and the pinned blocks leave buffers to commit with.
NoPanic == panic = "no"

Sharing(p, s) == slot[p] = s /\ pc[p] \in {"lock", "locked", "rlock", "rlocked", "copy"}

\* A block has one buffer at a time, and its reference count is the number of
\* processes that use or await it plus one while the log pins it, so that bget
\* never recycles a buffer somebody will still use.
RefcntExact ==
  /\ \A s, t \in 1..NBUF :
       s # t => cache.buf[s].blockno # cache.buf[t].blockno \/ cache.buf[s].blockno = NoBlock
  /\ NoPanic => \A s \in 1..NBUF :
       cache.buf[s].refcnt =
         Cardinality({p \in Proc : Sharing(p, s)})
         + (IF \E p \in Proc : pc[p] = "copy" /\ lslot = s THEN 1 ELSE 0)
         + (IF \E i \in DOMAIN lh : /\ cache.buf[s].blockno = lh[i]
                                    /\ phase = "install" => i >= tail
                                    /\ phase # "recover"
            THEN 1 ELSE 0)

\* What bread would deliver.
Seen(b) ==
  LET S == {s \in Cached(cache, b) : cache.buf[s].valid}
  IN  IF S = {} THEN home[b] ELSE cache.buf[CHOOSE s \in S : TRUE].data

Simple == INSTANCE Log WITH
  mem <- [b \in Block |-> Seen(b)],
  pc <- IF panic # "no" THEN "panic" ELSE IF phase = "done" THEN "run" ELSE phase,
  panic <- panic = "too big a transaction"

\* The cache keeps the promise Log takes for granted: a block that is changed
\* and not yet installed is never evicted, and commit copies what the last
\* system call wrote.
CacheTransparent == Simple!Spec

\* What survives a reboot is what the system calls that had ended, and only
\* those, had written.
CallsAreAtomic == Simple!CallsAreAtomic

\* Nobody sleeps in begin_op for ever: whoever gives space back or ends a
\* commit wakes the sleepers.
SleepersWake == \A p \in Proc : pc[p] = "asleep" ~> pc[p] # "asleep"

=============================================================================

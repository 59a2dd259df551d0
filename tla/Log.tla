-------------------------------- MODULE Log --------------------------------
(***************************************************************************)
(* The redo log of kernel/log.c: begin_op, log_write, end_op, commit and   *)
(* the recovery of initlog, one disk write per step, with a reboot         *)
(* possible between any two.                                               *)
(*                                                                         *)
(* The buffer cache is reduced to what it promises: mem[b] is the content  *)
(* of block b as bread would deliver it.  BufferedLog has the cache itself *)
(* and the processes, and implements this module.                          *)
(***************************************************************************)
EXTENDS Integers, Sequences

CONSTANTS
  Block,        \* blocks of the file system
  Value,        \* contents of a block
  Fresh,        \* the content of every block of a new image
  LOGSIZE,      \* length of the array in the header, 30 in param.h
  SIZE,         \* log.size, the header block included: 30 too, from mkfs.c
  MAXOPBLOCKS   \* blocks a system call may write, 10 in param.h

\* What the constants have to satisfy.
LogAssumption ==
  /\ LOGSIZE \in Nat
  /\ SIZE \in Nat \ {0}
  /\ MAXOPBLOCKS \in Nat \ {0}
  /\ Fresh \in Value
  /\ Block # {}

VARIABLES
  mem,          \* contents of the blocks as the cache has them
  home,         \* the blocks at their places on the disk
  logged,       \* logged[i]: block i of the log on the disk
  head,         \* the log header on the disk
  lh,           \* log.lh
  outstanding,  \* log.outstanding
  pc,           \* "run", or what commit() or recover_from_log() is doing
  tail,         \* the loop variable of write_log and install_trans
  panic         \* has log_write found the log full?

vars == <<mem, home, logged, head, lh, outstanding, pc, tail, panic>>

Slot == 1..LOGSIZE

\* The slot of a block in a header, a sequence of block numbers.
Holds(h, b) == \E i \in DOMAIN h : h[i] = b

SlotOf(h, b) == CHOOSE i \in DOMAIN h : h[i] = b

-----------------------------------------------------------------------------

Init ==
  /\ mem = [b \in Block |-> Fresh]
  /\ home = [b \in Block |-> Fresh]
  /\ logged = [i \in Slot |-> Fresh]
  /\ head = <<>>
  /\ lh = <<>>
  /\ outstanding = 0
  /\ pc = "run"
  /\ tail = 1
  /\ panic = FALSE

\* begin_op: not while committing, and only with room for one more call.
BeginOp ==
  /\ pc = "run"
  /\ Len(lh) + (outstanding + 1) * MAXOPBLOCKS <= LOGSIZE
  /\ outstanding' = outstanding + 1
  /\ UNCHANGED <<mem, home, logged, head, lh, pc, tail, panic>>

\* A system call changes a buffer and calls log_write.
LogWrite(b, v) ==
  /\ pc = "run"
  /\ outstanding > 0
  /\ IF Len(lh) >= LOGSIZE \/ Len(lh) >= SIZE - 1
       THEN panic' = TRUE /\ pc' = "panic" /\ UNCHANGED <<mem, lh>>
       ELSE /\ mem' = [mem EXCEPT ![b] = v]
            /\ lh' = IF Holds(lh, b) THEN lh ELSE Append(lh, b)
            /\ UNCHANGED <<panic, pc>>
  /\ UNCHANGED <<home, logged, head, outstanding, tail>>

\* Fault: whoever ends a system call commits, whether or not others are active.
EndOpCommits ==
  /\ pc = "run"
  /\ outstanding > 0
  /\ outstanding' = outstanding - 1
  /\ pc' = IF Len(lh) > 0 THEN "write_log" ELSE "run"
  /\ tail' = 1
  /\ UNCHANGED <<mem, home, logged, head, lh, panic>>

\* end_op: the last one commits, if there is anything to commit.
EndOp ==
  /\ pc = "run"
  /\ outstanding > 0
  /\ outstanding' = outstanding - 1
  /\ pc' = IF outstanding = 1 /\ Len(lh) > 0 THEN "write_log" ELSE "run"
  /\ tail' = 1
  /\ UNCHANGED <<mem, home, logged, head, lh, panic>>

\* One turn of the loop in write_log.
WriteLog ==
  /\ pc = "write_log"
  /\ IF tail <= Len(lh)
       THEN /\ logged' = [logged EXCEPT ![tail] = mem[lh[tail]]]
            /\ tail' = tail + 1
            /\ UNCHANGED pc
       ELSE pc' = "write_head" /\ UNCHANGED <<logged, tail>>
  /\ UNCHANGED <<mem, home, head, lh, outstanding, panic>>

\* write_head with the entries: the real commit.
WriteHead ==
  /\ pc = "write_head"
  /\ head' = lh
  /\ tail' = 1
  /\ pc' = "install"
  /\ UNCHANGED <<mem, home, logged, lh, outstanding, panic>>

\* One turn of the loop in install_trans.
InstallTrans ==
  /\ pc = "install"
  /\ IF tail <= Len(lh)
       THEN LET b == lh[tail]
            IN  /\ home' = [home EXCEPT ![b] = logged[tail]]
                /\ mem' = [mem EXCEPT ![b] = logged[tail]]
                /\ tail' = tail + 1
                /\ UNCHANGED <<lh, pc>>
       ELSE lh' = <<>> /\ pc' = "clear" /\ UNCHANGED <<home, mem, tail>>
  /\ UNCHANGED <<logged, head, outstanding, panic>>

\* write_head without entries: the transaction is erased from the log.
ClearHead ==
  /\ pc = "clear"
  /\ head' = <<>>
  /\ pc' = "run"
  /\ tail' = 1
  /\ UNCHANGED <<mem, home, logged, lh, outstanding, panic>>

\* The machine reboots: the disk remains, initlog reads the header.
Crash ==
  /\ lh' = head
  /\ mem' = home
  /\ outstanding' = 0
  /\ pc' = "recover"
  /\ tail' = 1
  /\ panic' = FALSE
  /\ UNCHANGED <<home, logged, head>>

\* recover_from_log: one turn of install_trans, and write_head at the end.
Recover ==
  /\ pc = "recover"
  /\ IF tail <= Len(lh)
       THEN LET b == lh[tail]
            IN  /\ home' = [home EXCEPT ![b] = logged[tail]]
                /\ mem' = [mem EXCEPT ![b] = logged[tail]]
                /\ tail' = tail + 1
                /\ UNCHANGED <<lh, head, pc>>
       ELSE /\ lh' = <<>>
            /\ head' = <<>>
            /\ pc' = "run"
            /\ tail' = 1
            /\ UNCHANGED <<home, mem>>
  /\ UNCHANGED <<logged, outstanding, panic>>

Next ==
  \/ BeginOp
  \/ \E b \in Block, v \in Value : LogWrite(b, v)
  \/ EndOp
  \/ WriteLog
  \/ WriteHead
  \/ InstallTrans
  \/ ClearHead
  \/ Crash
  \/ Recover

Spec == Init /\ [][Next]_vars

-----------------------------------------------------------------------------

TypeOK ==
  /\ mem \in [Block -> Value]
  /\ home \in [Block -> Value]
  /\ logged \in [Slot -> Value]
  /\ head \in Seq(Block)
  /\ lh \in Seq(Block)
  /\ outstanding \in Nat
  /\ pc \in {"run", "write_log", "write_head", "install", "clear", "recover", "panic"}
  /\ tail \in 1..(LOGSIZE + 1)
  /\ panic \in BOOLEAN

\* The blocks as recover_from_log would bring them back.
Durable ==
  [b \in Block |-> IF Holds(head, b) THEN logged[SlotOf(head, b)] ELSE home[b]]

\* What system calls see; while the recovery runs, none does.
Seen == IF pc = "recover" THEN Durable ELSE mem

Store == INSTANCE AtomicStore WITH mem <- Seen, dur <- Durable, active <- outstanding

\* The log implements AtomicStore: what survives a reboot, at any point of a
\* commit and also of an earlier recovery, is the state of a moment at which
\* no system call was active (log.c: "Thus there is never any reasoning
\* required about whether a commit might write an uncommitted system call's
\* updates to disk").
CallsAreAtomic == Store!Spec

=============================================================================

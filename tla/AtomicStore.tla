---------------------------- MODULE AtomicStore ----------------------------
(***************************************************************************)
(* What the log promises to the file system: system calls change blocks    *)
(* between begin_op and end_op, and the blocks that survive a reboot are   *)
(* always the blocks of a moment at which no system call was active, so    *)
(* every system call has happened as a whole or not at all.                *)
(***************************************************************************)
EXTENDS Integers

CONSTANTS
  Block,  \* blocks of the file system
  Value,  \* contents of a block
  Fresh   \* the content of every block of a new image

VARIABLES
  mem,    \* the blocks as system calls see them
  dur,    \* the blocks as a reboot would bring them back
  active  \* number of system calls between begin_op and end_op

vars == <<mem, dur, active>>

Init ==
  /\ mem = [b \in Block |-> Fresh]
  /\ dur = [b \in Block |-> Fresh]
  /\ active = 0

Begin == active' = active + 1 /\ UNCHANGED <<mem, dur>>

Write(b, v) ==
  /\ active > 0
  /\ mem' = [mem EXCEPT ![b] = v]
  /\ UNCHANGED <<dur, active>>

End == active > 0 /\ active' = active - 1 /\ UNCHANGED <<mem, dur>>

Commit == active = 0 /\ dur' = mem /\ UNCHANGED <<mem, active>>

Crash == mem' = dur /\ active' = 0 /\ UNCHANGED dur

Next ==
  \/ Begin
  \/ \E b \in Block, v \in Value : Write(b, v)
  \/ End
  \/ Commit
  \/ Crash

Spec == Init /\ [][Next]_vars

=============================================================================

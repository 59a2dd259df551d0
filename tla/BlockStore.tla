----------------------------- MODULE BlockStore -----------------------------
(***************************************************************************)
(* What a RAID array promises the program above it: one copy of every      *)
(* logical block.  A write replaces one block and nothing else; a read     *)
(* returns what the block holds; blocks become unreadable only when more   *)
(* disks have died than the array tolerates, and never come back wrong.    *)
(***************************************************************************)
CONSTANTS
  Block,  \* logical block numbers
  Value,  \* contents of a block
  Fresh,  \* content of a block nobody has written
  Lost    \* marks a block the array can no longer read

VARIABLE store

Init == store = [b \in Block |-> Fresh]

\* write_raid(b, v) returning 0
Write(b, v) ==
  /\ store[b] # Lost
  /\ store' = [store EXCEPT ![b] = v]

\* disk_fail_raid on one disk too many: read_raid answers -1 for some blocks
\* from now on.
Lose ==
  /\ store' \in [Block -> Value \cup {Lost}]
  /\ \A b \in Block : store'[b] \in {store[b], Lost}

Next ==
  \/ Lose
  \/ \E b \in Block, v \in Value : Write(b, v)

Spec == Init /\ [][Next]_store

=============================================================================

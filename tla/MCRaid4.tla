------------------------------ MODULE MCRaid4 ------------------------------
(***************************************************************************)
(* Reboots and repairs; the initial state chooses.  Reboots of a RAID4     *)
(* array in the middle of requests, which is RaidParity itself; a RAID4    *)
(* array whose first disk fails, is written while it is dead and is        *)
(* repaired.                                                               *)
(***************************************************************************)
EXTENDS RaidParity

VARIABLES
  chosen,
  states, dead, rcache, rows, rpc, rreq, rshadow, rtorn       \* of RaidParity

repairVars == <<states, dead, rcache, rows, rpc, rreq, rshadow, rtorn>>

Repairing == INSTANCE RaidParity WITH
  Failable <- {1}, Repairs <- TRUE, WriteDead <- TRUE, Crashes <- FALSE,
  disk_state <- states, num_dead_disks <- dead, cache <- rcache, platter <- rows,
  pc <- rpc, req <- rreq, shadow <- rshadow, torn <- rtorn

MCInit ==
  /\ chosen \in {"requests", "repairing"}
  /\ Init /\ Repairing!Init

MCNext ==
  \/ chosen = "requests" /\ Next /\ UNCHANGED <<chosen, repairVars>>
  \/ chosen = "repairing" /\ Repairing!Next /\ UNCHANGED <<chosen, vars>>

MCSpec == MCInit /\ [][MCNext]_<<chosen, vars, repairVars>>

\* With repairs, which rebuild nothing, and writes to dead disks, what lies on
\* a disk that never failed is still read back as it was written (cache() and
\* the hit path of read_raid4).
RepairedReads ==
  chosen = "repairing" => Repairing!TypeOK /\ Repairing!HealthyReads

=============================================================================

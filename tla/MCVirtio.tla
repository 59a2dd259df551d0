----------------------------- MODULE MCVirtio -----------------------------
(***************************************************************************)
(* Processes that nobody kills: with Killable = {} these are all steps of  *)
(* VirtioDisk.                                                             *)
(***************************************************************************)
EXTENDS VirtioDisk

ASSUME NobodyKilled == Killable = {}

MCNext ==
  \/ \E p \in Proc : Call(p) \/ Submit(p) \/ WaitForDesc(p) \/ Finish(p)
  \/ DeviceTake
  \/ \E r \in device : DeviceDone(r)
  \/ Intr

MCFairSpec == Init /\ [][MCNext]_vars /\ Fairness

=============================================================================

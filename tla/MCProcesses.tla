---------------------------- MODULE MCProcesses ----------------------------
(***************************************************************************)
(* Processes that fork, wait, kill and exit: with SleepTicks = 0 nobody    *)
(* calls sleep, no step of the clock matters, and these are all steps of   *)
(* Processes.                                                              *)
(***************************************************************************)
EXTENDS Processes

ASSUME NobodySleeps == SleepTicks = 0

MCNext ==
  \/ \E p \in Slot, c \in CPU : Schedule(c, p) \/ Switching(p, c) \/ Serving(p, c) \/ Call(p, c)
  \/ \E c \in CPU : Timer(c)

MCFairSpec == Init /\ [][MCNext]_vars /\ Fairness

=============================================================================

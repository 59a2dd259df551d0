SPECIFICATION MCFairSpec
CONSTANTS
  NPROC = 3
  CPU = {c1}
  c1 = c1
  Clock = c1
  MaxPid = 3
  KillPids = {2}
  TickMod = 1
  SleepTicks = 0
  Preempt = {"user"}
PROPERTIES
  OrphansReaped
  KilledExits
CHECK_DEADLOCK FALSE

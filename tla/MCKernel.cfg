SPECIFICATION MCSpec
CONSTANTS
  PIPESIZE = 2
  UintMod = 4
  Total = 5
  Chunk = 3
  Killable = {"right"}
  Early = TRUE
  CopyFails = TRUE
INVARIANTS
  Fifo
  SleepersInformed
  NoLostWakeup
  SchedulerExact
  StreamsExact
  OwnersExact
  ProgramsExact
CHECK_DEADLOCK FALSE

SPECIFICATION MCSpec
CONSTANTS
  DISKS = 3
  Type = "RAID4"
  Stripes = 2
  Bits = {1}
  Failable = {1, 3}
  Repairs = FALSE
  WriteDead = FALSE
  Crashes = TRUE
  FreshDisks = TRUE
INVARIANTS
  CrashContained
  HealthyReads
  RepairedReads

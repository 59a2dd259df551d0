SPECIFICATION MCSpec
CONSTANTS
  DISKS = 4
  UintMod = 256
  Rows = 1
  Value = {0, 1}
  Fresh = 0
  MaxDead = 1
  Repairs = TRUE
  Crashes = TRUE
INVARIANTS
  HealthyReads
  MirrorsAgree
  NoWildDisk
  SurvivorServes
  Placement
  MetadataExact

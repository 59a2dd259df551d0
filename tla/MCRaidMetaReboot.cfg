SPECIFICATION Spec
CONSTANTS
  DISKS = 3
  Types = {"RAID5"}
  Reinit = FALSE
  Crashes = TRUE
  MaxDead = 3
  UintMod = 256
INVARIANT RebootKeepsMetadata

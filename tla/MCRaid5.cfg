SPECIFICATION MCSpec
CONSTANTS
  DISKS = 3
  Type = "RAID5"
  Stripes = 2
  Bits = {1}
  Failable = {1, 2, 3}
  Repairs = FALSE
  WriteDead = FALSE
  Crashes = FALSE
  FreshDisks = TRUE
INVARIANTS
  TypeOK
  ReadsCorrect
  RebootKeepsMetadataFrom1
PROPERTY
  ActsAsOneDisk

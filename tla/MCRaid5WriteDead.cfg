SPECIFICATION Spec
CONSTANTS
  DISKS = 3
  Type = "RAID5"
  Stripes = 2
  Bits = {1}
  Failable = {1, 2, 3}
  Repairs = FALSE
  WriteDead = TRUE
  Crashes = FALSE
  FreshDisks = TRUE
INVARIANTS
  ReadsCorrect

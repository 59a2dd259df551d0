SPECIFICATION Spec
INVARIANTS
  NoPanic
  DiskExact
  NamesExact
  RefsExact
  NoWaitCycle
CHECK_DEADLOCK FALSE

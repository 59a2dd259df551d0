SPECIFICATION Spec
CONSTANTS
  Proc = {p1, p2}
  First = p1
  NINODES = 3
  NINODE = 3
  NBLOCKS = 4
  BSIZE = 3
  NDIRECT = 1
  NINDIRECT = 2
  NFILE = 2
  NOFILE = 2
  MaxChunk = 2
  Crashes = FALSE
  MaxCalls = 4
  Calls <- MCCalls
INVARIANT LinksExact
CHECK_DEADLOCK FALSE

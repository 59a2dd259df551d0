SPECIFICATION MCSpec
CONSTANTS
  Block = {11, 12, 13}
  Value = {0, 1}
  Fresh = 0
  LOGSIZE = 4
  SIZE = 4
  MAXOPBLOCKS = 2
INVARIANTS
  NoPanic
  RefcntExact
PROPERTIES
  CallsAreAtomic
  CacheTransparent

SPECIFICATION FairSpec
CONSTANTS
  MAX_LRU_SIZE = 3
  SplitSize = 2
  MaxLength = 8
INVARIANTS TypeOK CacheSound CurrentIntact WindowKept
PROPERTIES ServesFile Answered
CHECK_DEADLOCK FALSE

CONSTANTS
  NumSets = 2
  CACHE_LINES_PER_SET = 3
  BlockSize = 2
  CACHE_LFU = 1
  MEM_LATENCY = 3
  Address = {0, 1, 4, 8, 12, 2}
  MaxAccesses = 7
SPECIFICATION MCSpec
INVARIANTS NoDuplicateBlocks StampsOrdered LinesInPlace
PROPERTIES ReplacesByPolicy ImplementsPolicy ImplementsLRU
CHECK_DEADLOCK FALSE

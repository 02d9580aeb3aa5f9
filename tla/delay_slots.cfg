CONSTANTS
  ByteMod = 4
  NumRegs = 4
  MEMORY_SPACE = 8
  NumSets = 1
  CACHE_LINES_PER_SET = 1
  BlockSize = 4
  CACHE_LFU = 1
  MEM_LATENCY = 0
  ALU <- MCALU
  ARITH <- MCARITH
  PRINT_STATS = FALSE
  PRINT_CACHE_STATS = FALSE
  cache_en = FALSE
  START = 16
  INIT_REG = 0
  STACK_POINTER = 4
  GLOBAL_POINTER = 2
  A0 = 1
  EXIT_CALL = 10
  PRINT_CALLS = {1}
  Alphabet <- DelayAlphabet
  BodyLength = 4
  MaxSteps = 24
SPECIFICATION MCSafeSpec
PROPERTY ImplementsDelaySlots
CHECK_DEADLOCK FALSE

CONSTANTS
  ByteMod = 2
  NumRegs = 2
  MEMORY_SPACE = 4
  WordBits = 4
  LUI_SHIFT = 2
  BitAnd <- WordAnd
  BitOr <- WordOr
  BitXor <- WordXor
SPECIFICATION Spec
INVARIANT MultiplyRecognized

CONSTANTS
  ByteMod = 2
  NumRegs = 2
  MEMORY_SPACE = 6
  WordBits = 4
  LUI_SHIFT = 2
  BitAnd <- WordAnd
  BitOr <- WordOr
  BitXor <- WordXor
SPECIFICATION Spec
INVARIANTS RtypeAgrees ImmediatesAgree BranchesAgree LoadsReadStores
           FieldsKept OffsetsFollowIsa PipelineDecodes DisassemblerAgrees

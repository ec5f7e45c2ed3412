CONSTANTS
  N = 14
  E = 1
  Depth = 2
  NestCalls = FALSE
  WrapName = "W"
  JumpTables <- MCJumpTables
  ErrorTables <- MCErrors
  Methods <- MCMethods
  OpSize <- MCOpSize
  WrapMethods <- MCWrapMethods
  Slots <- MCSlots
  Consts <- MCConsts
  IntPool <- MCIntPool
  DoublePool <- MCDoublePool
SPECIFICATION MCSpec
INVARIANTS
  TypeOK
  EditsWritten
  OffsetsWritten
  MeaningKept
PROPERTIES
  ListSpec
  Terminates
CHECK_DEADLOCK FALSE

CONSTANTS
  N = 14
  E = 0
  Depth = 0
  NestCalls = TRUE
  WrapName = "W"
  JumpTables <- MCJumpTables
  ErrorTables <- MCErrors
  Methods <- MCMethods
  OpSize <- MCOpSize
  WrapMethods <- MCWrapMethods
  Slots <- MCSlots
  Consts <- MCConsts
  IntPool <- MCIntPool
  DoublePool <- MCDoublePool
SPECIFICATION OtherSpec
INVARIANT MeaningKept
CHECK_DEADLOCK FALSE

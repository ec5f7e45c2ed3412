CONSTANTS
  N = 14
  E = 2
  Depth = 0
  NestCalls = FALSE
  WrapName = "W"
  JumpTables <- MCJumpTables
  ErrorTables <- TryErrors
  Methods <- MCMethods
  OpSize <- MCOpSize
  WrapMethods <- MCWrapMethods
  Slots <- MCSlots
  Consts <- MCConsts
  IntPool <- MCIntPool
  DoublePool <- MCDoublePool
SPECIFICATION OtherSpec
INVARIANT MeaningKept
CHECK_DEADLOCK FALSE

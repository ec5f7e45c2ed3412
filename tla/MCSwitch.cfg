CONSTANTS
  N = 14
  E = 0
  Depth = 0
  NestCalls = FALSE
  WrapName = "W"
  JumpTables <- SwitchTables
  ErrorTables <- MCErrors
  Methods <- MCMethods
  OpSize <- MCOpSize
  WrapMethods <- MCWrapMethods
  Slots <- MCSlots
  Consts <- MCConsts
  IntPool <- MCIntPool
  DoublePool <- MCDoublePool
SPECIFICATION OtherSpec
INVARIANT MeaningKept
CHECK_DEADLOCK FALSE

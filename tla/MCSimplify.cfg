SPECIFICATION MCSpec
CONSTANTS
  N = 12
  E = 1
  JumpTables <- MCJumpTables
  ErrorTables <- MCErrors
  Methods <- MCMethods
  OpSize <- MCOpSize
  IntPool <- MCIntPool
  UintPool <- MCUintPool
  DoublePool <- MCDoublePool
  StringPool <- MCStringPool
  SaturatingCast = FALSE
  Hard = "none"
INVARIANTS
  TypeOK
  OffsetsWritten
  MeaningKept
PROPERTIES
  ListSpec
  Terminates
CHECK_DEADLOCK FALSE

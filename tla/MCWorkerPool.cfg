CONSTANTS
  M = 3
  JobsOptions = {0, 1, 3}
  HardwareThreads = 0
  Pools <- MCPools
  Values <- MCValues
  InitialPool <- MCInitialPool
  Work <- MCWork
SPECIFICATION Spec
INVARIANTS
  TypeOK
  HandedOutOnce
  IndicesRight
  EntriesOwned
  JoinedBeforeRename
PROPERTIES
  Ends
  Implements
CHECK_DEADLOCK FALSE

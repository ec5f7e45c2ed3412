CONSTANTS
  N = 4
  E = 1
  MaxTargets = 3
  JumpTables <- MCJumps
  ErrorTables <- MCErrors
SPECIFICATION ListSpec
INVARIANTS
  ListOK
  Chained
  JumpsKnown
  JumpsFollow
  ErrorsFollow
PROPERTY
  Implements

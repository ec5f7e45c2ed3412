SPECIFICATION MCSpec
CONSTANTS
  Files <- CachedFiles
  ManyTraits = 2
INVARIANTS
  TypeOK
  OnePart
  NoneOverlooked
  SlotsAsInitialised
  ReadyOrReported
PROPERTIES
  FirstWins
  ValuesAsReturned
  Ends

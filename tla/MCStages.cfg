SPECIFICATION MCSpec
CONSTANTS
  Files <- CachedFiles
  Unreadable <- MCUnreadable
  Addresses <- MCAddresses
  None = None
  u1 = u1
  u2 = u2
INVARIANTS
  TypeOK
  NamesReadable
  LinkKept
  StillDistinct
  NamedAsDispatched
  IdsAsComputed
  StillReachable
PROPERTIES
  DescribedIsNamed

SPECIFICATION FairSpec
CONSTANTS
  Threads = {b, w1, w2}
  Builder = b
  MaxCalls = 2
  MaxCollections = 2
INVARIANTS
  TypeOK
  LocksFollowScopes
PROPERTIES
  OnlyConstructionSticks
CHECK_DEADLOCK FALSE

SPECIFICATION LiveSpec
CONSTANTS
  b1 = b1
  b2 = b2
  Borrowers <- TwoBorrowers
  StartBlock = 0
  Chunk = 2
  MaxBlock = 3
  MaxReorg = 3
INVARIANTS
  TypeOK
  RegistryExact
  CacheExact
PROPERTIES
  RefinesWatchlist
  EveryBorrowerWatched
  RestartResumes
CHECK_DEADLOCK FALSE

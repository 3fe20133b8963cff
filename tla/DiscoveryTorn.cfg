SPECIFICATION FairSpec
CONSTANTS
  b1 = b1
  b2 = b2
  Borrowers <- OneBorrower
  StartBlock = 1
  Chunk = 2
  MaxBlock = 4
  MaxReorg = 0
PROPERTIES
  RestartComesUp
CHECK_DEADLOCK FALSE

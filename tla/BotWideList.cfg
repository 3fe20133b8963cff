SPECIFICATION Spec
CONSTANTS
  b1 = b1
  b2 = b2
  Borrowers <- OneBorrower
  Answered <- OneBorrower
  Accounts <- SomeAccounts
  Environments <- OnBase
  NumReserves = 3
  Width = 4
  MaxPending <- OneEach
INVARIANTS
  DecodedAsDocumented

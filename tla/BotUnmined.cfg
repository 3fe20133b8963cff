SPECIFICATION UnminedSpec
CONSTANTS
  b1 = b1
  b2 = b2
  Borrowers <- OneBorrower
  Answered <- OneBorrower
  Accounts <- SomeAccounts
  Environments <- OnBase
  NumReserves = 2
  Width = 4
  MaxPending <- OneEach
PROPERTIES
  EveryBorrowerPolled

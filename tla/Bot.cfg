SPECIFICATION LiveSpec
CONSTANTS
  b1 = b1
  b2 = b2
  Borrowers <- TwoBorrowers
  Answered <- OneBorrower
  Accounts <- SomeAccounts
  Environments <- SomeEnvironments
  NumReserves = 2
  Width = 4
  MaxPending <- TwoForOne
INVARIANTS
  TypeOK
  TargetOfThisCheck
  LargestIsTargeted
  ChainAsDeployed
PROPERTIES
  StartsWhenMended
  EveryBorrowerPolled
  UnderwaterIsSent

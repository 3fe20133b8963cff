SPECIFICATION Spec
CONSTANTS
  b1 = b1
  b2 = b2
  Borrowers <- OneBorrower
  Answered <- OneBorrower
  Accounts <- SomeAccounts
  Environments <- BnbOrBase
  NumReserves = 2
  Width = 4
  MaxPending <- OneEach
INVARIANTS
  PreviewNeverTrades

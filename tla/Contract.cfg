SPECIFICATION Spec
CONSTANTS
  t1 = t1
  t2 = t2
  uniswap = uniswap
  Tokens <- TwoTokens
  ETH = ETH
  Dexes <- OneDex
  OtherDex = OtherDex
  Pool = Pool
  Self = Self
  Stranger = Stranger
  PoolAvailable = TRUE
  None = None
  MaxBalance = 3
  MaxLoan = 2
  MaxPremium = 1
  MaxHoldings = 1
INVARIANTS
  TypeOK
  LocksMatchCall
  NoStandingPoolAllowance
PROPERTIES
  LiquidationIsAtomic

\* Two subscriptions, a plan, the stablecoin and a token with a pool.
CONSTANTS
  Usd = Usd
  Coin = Coin
  UsdCoin = UsdCoin
  Owner = {u1}
  NoOwner = NoOwner
  MaxSubs = 2
  Token = {Usd, Coin}
  NoToken = NoToken
  One <- MCOne
  Pair = {UsdCoin}
  NoPair = NoPair
  Token0 <- MCToken0
  Token1 <- MCToken1
  Reserves <- MCReserves
  DaySeconds = 2
  Prices = {15, 50}
  DayCounts = {0, 1}
  SlippageValues = {1000, 1001}
  LiquidityValues = {1000000}
  DefaultSlippage = 100
  DefaultLiquidity = 0
  MaxTime = 3
  MaxPlans = 1
  MaxMethods = 2
  MaxSettings = 1
  MaxEvents = 3
SPECIFICATION Spec
\* The contract only reacts: it may be left alone for ever.
CHECK_DEADLOCK FALSE
INVARIANTS
  TypeOK
  PaidTimeExact
  FundsAccounted
  PriceWithinMargin
PROPERTY ImplementsLedger

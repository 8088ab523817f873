SPECIFICATION ClSpec
CONSTANTS
  Q96 = 32
  Word256 = 2048
  MAX_FEE = 10
  TicksPerWord = 2
  MIN_TICK <- Lowest
  MAX_TICK = 4
  SqrtRatioAtTick <- SomeRatios
  ClPools <- SomePools
  Requested <- SomeAmounts
  Limits = {24, 45, NoLimit}
  NoLimit = NoLimit
  NoSwap = NoSwap
  Markets <- SomeMarkets
  Tokens = {1, 2, 3}
  Threw = Threw
INVARIANTS
  Aligned
  NearestTickFound
  NoFreeLunch
  BestTradesFound
CHECK_DEADLOCK FALSE

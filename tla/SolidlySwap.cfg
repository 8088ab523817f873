SPECIFICATION Spec
CONSTANTS
  v1 = v1
  s1 = s1
  v2 = v2
  FEE_DENOMINATOR = 20
  ONE_E18 = 1000
  Tokens = {1, 2, 3}
  Pools = {v1, s1, v2}
  TokensOf <- TwoTokens
  Stable = {s1}
  Fee <- SomeFees
  Decimals <- SomeDecimals
  Reserves <- SomeReserves
  Amounts = {1, 7, 300}
  MaxHops = 2
  MaxTurns = 20
  MaxSwaps = 2
INVARIANTS
  SdkMirrors
  ExactOutputSuffices
  ClosestAnswer
PROPERTIES
  KNeverFalls
CHECK_DEADLOCK FALSE

SPECIFICATION RouteSpec
CONSTANTS
  I = I
  O = O
  M = M
  N = N
  tokenIn = I
  tokenOut = O
  maxHops = 3
  maxRoutesPerProtocol = 2
  SearchBudget = 60
  Steps = 4
  Requests <- SomeRequests
  Curves <- SomeCurves
INVARIANTS
  RoutesExact
  SplitSound
  NeverWorseThanSingle
  PairsOptimal

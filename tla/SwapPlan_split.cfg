SPECIFICATION Spec
CONSTANTS
  u1 = u1
  u2 = u2
  collector = collector
  A = A
  B = B
  ETH = ETH
  WETH = WETH
  Router = Router
  NotLocked = NotLocked
  NoTrade = NoTrade
  Users = {u1, u2}
  Collectors = {collector}
  Erc20 = {A, B}
  Requests <- SomeRequests
  Plans <- SomePlans
  Funds <- UserFunds
  MaxAmount = 3
  MaxTransactions = 1
  Parts = 2
  SlippageNum = 1
  SlippageDen = 2
INVARIANT SplitOutputAccepted

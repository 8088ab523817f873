SPECIFICATION Spec
CONSTANTS
  Endpoints = 2
  Senders = {s1, s2}
  HeadCallers = {}
  Misconfigured = {2}
  ValidateChainId = TRUE
  MaxAttempts = 2
  Cooldown = 1
  HeadCache = 1
  HeadDeadline = 1
  HighestBlock = 2
  MaxHeight <- NothingMined
  Nobody = Nobody
INVARIANTS
  OwnBudgetOnly

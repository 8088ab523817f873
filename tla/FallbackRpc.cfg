SPECIFICATION FairSpec
CONSTANTS
  Endpoints = 2
  Senders = {s1}
  HeadCallers = {h1, h2}
  Misconfigured = {2}
  ValidateChainId = TRUE
  MaxAttempts = 2
  Cooldown = 1
  HeadCache = 1
  HeadDeadline = 1
  HighestBlock = 2
  MaxHeight <- SecondLags
  Nobody = Nobody
INVARIANTS
  NoUnverifiedAnswer
  HeadServable
PROPERTIES
  SendCoolsTheRightOne
  NobodyWaitsForever

SPECIFICATION FairSpec
CONSTANTS
  c1 = c1
  c2 = c2
  base = base
  t1 = t1
  t2 = t2
  t3 = t3
  t4 = t4
  Callers = {c1, c2}
  Calls <- EveryCall
  Reply <- Replies
  Costly <- OneCostly
  BatchSize = 3
  Concurrency = 2
  Pending = Pending
  TooMuchGas = "too much gas"
  Addresses <- FiveAddresses
  Canonical <- OneCanonical
  Decimals <- DecimalsOfFive
  Wanted <- WantedByTwo
  MaxTokens = 2
  NoToken = NoToken
INVARIANTS
  OwnDecimals
  MissingExplained
PROPERTIES
  ImplementsCallEach
  EveryLookupEnds

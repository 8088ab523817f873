SPECIFICATION FairServiceSpec
CONSTANTS
  x = x
  y = y
  u1 = u1
  u2 = u2
  NoSource = NoSource
  NoKey = NoKey
  Requests = {1, 2, 3}
  Keys <- SomeKeys
  Ttl = 1
  MaxEntries = 1
  Asked <- SomeAsked
  Swaps = {x, y}
  Recipients = {u1, u2}
  PoolTtl = 0
INVARIANTS
  NoStaleValue
  NewestStored
  OwnAnswer
  NoSecondHandFailure
  SharedWorkOwned
PROPERTIES
  EveryRequestAnswered

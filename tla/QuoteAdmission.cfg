CONSTANTS
  r1 = r1
  r2 = r2
  r3 = r3
  r4 = r4
  v1 = v1
  v2 = v2
  v3 = v3
  Requests <- FourRequests
  Visitors = {v1, v2, v3}
  VisitorOf <- VisitorsOfFour
  Body <- BodiesOfFour
  Burst = 1
  Refill = 1
  MaxActive = 2
  MaxVisitors = 2
SPECIFICATION FairSpec
INVARIANTS
  QuotesWithinLimit
PROPERTIES
  ImplementsRateLimit
  EveryPlaceReturned

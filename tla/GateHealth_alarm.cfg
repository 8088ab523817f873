CONSTANTS
  a1 = a1
  a2 = a2
  b1 = b1
  q1 = q1
  q2 = q2
  Quotes = {q1, q2}
  Calls <- ThreeCalls
  Owner <- OwnerOfThree
  Capacity = 1
  MaxQueue = 1
  AbandonAfter = 1
  StuckAfter = 2
  RpcBudgets <- TwoEach
  RpcTimeout = 1
  QuoteTimeout = 1
SPECIFICATION HealthSpec
INVARIANTS
  AlarmMeansCannotQuote

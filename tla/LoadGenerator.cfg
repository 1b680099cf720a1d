SPECIFICATION RunFairSpec
CONSTANTS
  q1 = q1
  q2 = q2
  Request = {q1, q2}
  Position <- MCPosition
  MaxWarmups = 1
  NumPairs = 1
  PoolSize = 1
  MaxConcurrency = 1
  OutLen = 2
  Window = 1
INVARIANT RecordsAgree ValidatedIsComplete
PROPERTY RunEnds
\* A run ends.
CHECK_DEADLOCK FALSE

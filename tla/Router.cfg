SPECIFICATION FairSpec
CONSTANTS
  Request = {q1, q2}
  NumPairs = 2
  PoolSize = 1
INVARIANT ParamsSentOnce RecordMatchesReply EndedHoldsNoConnection
PROPERTY EveryRequestEnds
\* All requests end.
CHECK_DEADLOCK FALSE

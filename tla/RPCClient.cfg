SPECIFICATION FairSpec
CONSTANTS
  Callers = {c1, c2}
  MaxRequests = 2
  MaxGeneration = 3
INVARIANT ResumedExactlyOnce
PROPERTIES NoPoisoning OrdinaryRequestEnds ConnectReturns
CHECK_DEADLOCK FALSE

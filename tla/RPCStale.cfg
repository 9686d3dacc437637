SPECIFICATION ClientSpec
CONSTANTS
  Callers = {c1}
  MaxRequests = 2
  MaxGeneration = 3
INVARIANT ConnectedHasSocket
CHECK_DEADLOCK FALSE

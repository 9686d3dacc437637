INIT MCInit
NEXT MCNext
CONSTANTS
  Parts = {"memory", "asbestos", "fpu", "arithmetic"}
  Mems = {1, 2}
  Threads = {1, 2}
  Pages = {1, 2}
  Datas = {1, 2, 3}
  Values = {0, 1}
  MaxChanges = 3
  Guests <- AllGuests
  Addrs = {"a", "b"}
  Jumps <- TwoJumps
  PagesOf <- TwoPages
  Calls = {"b"}
  AsbThreads = {"p", "q"}
  Blocks = {1, 2}
  FpVals = {0, 1}
  RcModes = {0, 1}
  FpRegs = 2
  SigBits = 3
  ExpBits = 3
  DblBits = 1
  DblExpBits = 2
  ByteBits = 3
INVARIANTS MemorySafe Isolation AsbSafe ArithmeticExact
CHECK_DEADLOCK FALSE

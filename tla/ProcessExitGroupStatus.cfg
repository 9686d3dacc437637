INIT MCInit
NEXT MCNext
CONSTANTS
  Parts = {"process"}
  MaxPid = 3
  Guests <- Stopping
  Pids = {1, 2, 3}
  FirstPid = 1
  KillTasks <- SomeTasks
  KillCallers = {3, 6}
  KillMortal = {4, 5}
  KillArgs <- KnownArgs
  MaxStops = 3
  BadRequests = TRUE
  FileObjs = {"x"}
  FdNums = {0}
  FdTables = {"t1"}
  FdThreads = {"p"}
  PageBytes = 4
  MemBytes = 44
  FileBytes = 9
  StackTop = 400
  ArgvMax = 12
  LineBytes = 8
  Masters = {"m1"}
  Slaves = {"s1", "s2"}
  Leader = "s1"
  BufSize = 2
  MaxOpens = 2
  LineSize = 3
  MaxKeys = 5
  MaxPtys = 2
  PtsThreads = {"p", "q"}
  MaxSlaveFds = 1
INVARIANT ExitGroupStatus
CHECK_DEADLOCK FALSE

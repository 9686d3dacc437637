INIT MCInit
NEXT MCNext
CONSTANTS
  Parts = {"locks", "poll", "sockets", "names", "fakefs", "tmpfs", "mounts", "functions"}
  LockOwners = {t1, t2}
  FileEnd = 3
  Flocks <- SomeFlocks
  Fds = {"v", "r"}
  RealFds = {"r"}
  Slots = {k1, k2}
  PollThreads = {t1, t2}
  MaxEvents = 1
  PipeRoom = 2
  MaxRaises = 2
  PollTable <- SomeTable
  RegularFiles = {"g"}
  Socks = {s1, s2, s3}
  SockThreads = {t1, t2}
  Passed = {"f"}
  Scms = {"m1", "m2"}
  MaxInbox = 2
  RecvFlags = {"none"}
  NameSocks = {s1, s2, s3}
  PathNames = {"/p"}
  AbstractNames = {"@a"}
  MaxIds = 4
  MaxNameRefs = 4
  FakePaths <- SomeNames
  FakeThreads = {"p", "q"}
  Reach <- SomeReach
  HostFiles = {1, 2}
  MaxRows = 2
  MaxStops = 1
  MaxTorn = 1
  TmpNames = {"a", "b"}
  TmpFds = {1}
  TmpThreads = {"p", "q"}
  TmpBytes = {1}
  TmpAsks <- SomeAsks
  MaxSize = 2
  MaxEntries = 3
  Points <- SomePoints
  MountIds = {1, 2, 3}
  MountThreads = {t1, t2}
  MountFds = {1}
  Inodes = {1}
  MountCalls <- SomeMounts
  Trees <- SomeTrees
  MaxPath = 6
  MaxLevels = 5
SYMMETRY Swap
INVARIANTS PollSafe LocksExact SocketsSound FakeSafe  MountsSafe CallsExact
CHECK_DEADLOCK FALSE

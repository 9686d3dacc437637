SPECIFICATION MCSpec
CONSTANTS
  Parts = {"wrlock", "signals", "timer"}
  Threads = {t1, t2, t3, t4, t5}
  Sigs = {"A", "B", "KILL"}
  Harmless = {"B"}
  Masks = {{}, {"A", "B", "KILL"}}
  WaitSets = {{"A", "B"}}
  Handlers <- SomeHandlers
  MaxFrames = 2
  MaxNow = 3
  Spans = {0, 1, 2}
  Intervals = {0, 1}
  MaxSets = 2
INVARIANTS NoLostWakeup SignalsSafe TimerSafe
PROPERTIES WriterPreference ImplementsReadWriteLock Progress SignalReceived KillIsFatal TimerFires
CHECK_DEADLOCK FALSE

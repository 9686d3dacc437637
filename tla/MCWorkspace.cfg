SPECIFICATION Spec
CONSTANTS
  a = a
  b = b
  k1 = k1
  k2 = k2
  NoThread = NoThread
  Threads = {a, b}
  Existing = {}
  Tasks = {k1, k2}
  MaxActs = 3
  MaxTexts = 2
  MaxTurns = 1
  MaxFaults = 1
SYMMETRY Symmetry
INVARIANTS TextKept NoGhostTurn TimelineSafe
CHECK_DEADLOCK FALSE

SPECIFICATION FutexSpec
CONSTANTS
  FutexThreads = {t1, t2, t3}
  Keys = {k1, k2}
  Bitsets = {{1}, {1, 2}}
  MaxCount = 2
SYMMETRY Symmetry
INVARIANT FutexSafe
PROPERTY FirstComeFirstServed

CONSTANTS
  Depth = 2
  Rows = 2
  Temps <- MCFewTemps
  HotLimit = 30
  RowsPerDelay = 5
SPECIFICATION Spec
INVARIANT AtomicPlaneSwap

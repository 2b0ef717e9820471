CONSTANTS
  Depth = 2
  Rows = 2
  Temps <- MCTemps
  HotLimit = 30
  RowsPerDelay = 5
SPECIFICATION FairSpec
INVARIANT TypeOK
INVARIANT DrawsOffScreen
INVARIANT NoFlicker
INVARIANT EveryFrameShown
INVARIANT NoGhosting
PROPERTY LatestShown

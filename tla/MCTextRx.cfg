CONSTANTS
  Numbers <- MCNumbers
  Durations <- MCDurations
  States <- MCStates
  MaxPieces = 2
SPECIFICATION HSpec
INVARIANT HistoryTypeOK
INVARIANT ModeNotMisread
INVARIANT NeverHotter
INVARIANT CountNotAhead
INVARIANT WholeLineRepairs

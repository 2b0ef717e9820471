CONSTANTS
  BtnCount = 2
  QueueLen = 2
  LongPress = 3
  PollTicks = 1
  TickMod = 7
  MaxLag = 0
  MinStable = 2
  MaxHold = 4
  MaxBounce = 1
  MaxWait = 3
SPECIFICATION HSpec
INVARIANT HistoryTypeOK
INVARIANT NoShortPress
INVARIANT OneCommandPerHold
INVARIANT PromptCommand

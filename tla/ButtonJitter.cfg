CONSTANTS
  BtnCount = 1
  QueueLen = 2
  LongPress = 6
  PollTicks = 1
  TickMod = 34
  MaxLag = 1
  MinStable = 4
  MaxHold = 8
  MaxBounce = 1
  MaxWait = 11
SPECIFICATION HSpec
INVARIANT NoShortPress
INVARIANT PromptCommand

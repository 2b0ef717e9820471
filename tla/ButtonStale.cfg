CONSTANTS
  BtnCount = 2
  QueueLen = 2
  LongPress = 3
  PollTicks = 1
  TickMod = 8
  MaxLag = 0
  MinStable = 2
  MaxHold = 4
  MaxBounce = 0
  MaxWait = 3
SPECIFICATION HSpec
INVARIANT LongPressConfirmed

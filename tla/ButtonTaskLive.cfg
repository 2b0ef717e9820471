CONSTANTS
  BtnCount = 2
  QueueLen = 2
  LongPress = 2
  PollTicks = 1
  TickMod = 5
  MaxLag = 0
  MinStable = 2
  MaxHold = 3
  MaxBounce = 1
SPECIFICATION FairSpec
PROPERTY HeldIsServed

CONSTANTS
  BufSize = 20
  Packets <- MCPackets
  NoiseBytes <- MCNoiseBytes
  MaxNoise = 1
  LogQueueLen = 1
  LogMaxBytes = 10
SPECIFICATION HSpec
INVARIANT HistoryTypeOK
INVARIANT CrcNeverByChance
INVARIANT AcceptedAsSent
INVARIANT NoSilentLoss
INVARIANT WholePacketsNeverWedge
INVARIANT LogSkipsOnlyCrowded
CHECK_DEADLOCK FALSE

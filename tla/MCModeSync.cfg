CONSTANTS
  Tasks <- MCTasks
  Commands <- MCCommands
  SeqMod = 2
  WireLen = 1
  LineLen = 1
  NoSeq = NoSeq
SPECIFICATION FairHSpec
INVARIANT HistoryTypeOK
INVARIANT SyncedMeansConfigured
INVARIANT OneLateRequest
INVARIANT AgreesWithMaster
PROPERTY ConsecutiveWhenAlone
PROPERTY StartupSyncs

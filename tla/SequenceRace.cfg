CONSTANTS
  Tasks <- MCTasks
  Commands <- MCCommands
  SeqMod = 8
  WireLen = 2
  LineLen = 1
  NoSeq = NoSeq
SPECIFICATION HSpec
PROPERTY SequenceIncreases

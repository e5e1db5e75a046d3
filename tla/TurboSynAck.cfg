CONSTANTS
  FileSize = 24
  BlockSize = 16
  TotalNum = 4
  LossNum = 2
  EmptyTotal = 3
  EmptyLoss = 2
  LossCap = 3
  MaxStale = 0
  Copies = 3
  MaxNacks = 8
  MaxLost = 1
  MaxDup = 0
SPECIFICATION FairSpec
PROPERTIES
  SynAckRetried
CHECK_DEADLOCK FALSE

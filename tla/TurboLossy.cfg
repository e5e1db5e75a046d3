CONSTANTS
  FileSize = 40
  BlockSize = 16
  TotalNum = 4
  LossNum = 2
  EmptyTotal = 3
  EmptyLoss = 2
  LossCap = 3
  MaxStale = 1
  Copies = 3
  MaxNacks = 8
  MaxLost = 2
  MaxDup = 0
SPECIFICATION FairSpec
INVARIANTS
  Integrity
PROPERTIES
  TransferSpec
  Completes
  ServerEnds
CHECK_DEADLOCK FALSE

CONSTANTS
  FileSize = 7
  BlockSize = 4
  TotalNum = 4
  LossNum = 1
  EmptyTotal = 3
  EmptyLoss = 2
  LossCap = 3
  MaxStale = 1
  Copies = 2
  MaxNacks = 8
  MaxLost = 1
  MaxDup = 1
SPECIFICATION Spec
INVARIANTS
  TypeOK
  RecvSizeExact
  DoneMeansComplete
  ServerLeavesLast
  OnlyBlockZeroSuspect
CHECK_DEADLOCK FALSE

CONSTANTS
  TotalNum = 14
  LossNum = 4
  EmptyTotal = 10
  EmptyLoss = 9
  LossCap = 12
SPECIFICATION Spec
INVARIANTS
  TypeOK
  BurstBounded
  JamNeedsEmpty
PROPERTIES
  JamIsPermanent
  KeepsPassing

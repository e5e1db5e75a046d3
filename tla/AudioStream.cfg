CONSTANTS
  Packets = 2
  pyld_sz = 2
  max_buf_sz = 4
  Sizes = {0,1,2}
  MaxLost = 1
  MaxDup = 1
  Copies = 3
SPECIFICATION FairSpec
INVARIANTS
  TypeOK
  SemCovers
  LevelIsBacklog
  NeverEmptyHanded
  InOrder
PROPERTIES
  Ends
CHECK_DEADLOCK FALSE

CONSTANTS
  Base = 4
  Width = 2
  Clients = {c1, c2}
  Contents <- MCContents
  Others <- MCOthers
  BLOCKSIZE = 3
  MaxFaults = 1
SPECIFICATION FairSpec
INVARIANTS
  TypeOK
  FailNeedsFault
  ReportMeansFile
PROPERTIES
  ClientEnds
CHECK_DEADLOCK FALSE

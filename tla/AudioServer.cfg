CONSTANTS
  Clients = {1, 2, 3}
  Procs = {1, 2, 3, 4}
  Slots = 5
  Packets = 1
  mode = 2
  Spacing = 2
  q_star = 30000
  tau = 100
  Levels = {0, 60000}
  MaxReports = 1
  MaxForkFails = 1
SPECIFICATION FairSpec
INVARIANTS
  TypeOK
  ReportsGoHome
  CutShort
  ServerDies
PROPERTIES
  LowSpeedsUp
  Served
CHECK_DEADLOCK FALSE

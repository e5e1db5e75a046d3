CONSTANTS
  Routers = {r1, r2}
  Tunnels = {t}
  Users = {u1, u2}
  DestHost = DestHost
  NoAddress = NoAddress
  Routes <- MCRoutes
  Junk = {junk}
  Stacks <- MCStacks
  MaxChildren = 4
  MaxLost = 1
  MaxDup = 1
  Copies = 2
  r1 = r1
  r2 = r2
  t = t
  u1 = u1
  u2 = u2
  junk = junk
SPECIFICATION FairSpec
INVARIANTS
  TypeOK
  RouteAsTyped
  AnswersGoHome
PROPERTIES
  BuilderHears
  Answered
CHECK_DEADLOCK FALSE

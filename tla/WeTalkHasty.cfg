CONSTANTS
  Peers <- MCPeers
  Patient = FALSE
  MaxLines <- MCOneSided
  MaxLost = 0
  Copies = 1
  NoPeer = NoPeer
  p1 = p1
  p2 = p2
SPECIFICATION FairSpec
INVARIANTS
  WaitingIsTimed
PROPERTIES
  InviteResolves
CHECK_DEADLOCK FALSE

CONSTANTS
  Peers <- MCPeers
  Patient = TRUE
  MaxLines <- MCThreeLines
  MaxLost = 1
  Copies = 2
  NoPeer = NoPeer
  p1 = p1
  p2 = p2
SPECIFICATION Spec
INVARIANTS
  TypeOK
PROPERTIES
  ConversationKept
  WedgeNeedsExpiry
CHECK_DEADLOCK FALSE

CONSTANTS
  BlockSize = 2
  MinLevel = 0
  MaxLevel = 1
  HeaderBase = 4
  MaxSent = 3
  Bytes <- MCBytes
  PeerEvents <- MCPeerEvents
SPECIFICATION ReceptionSpec
CHECK_DEADLOCK FALSE
INVARIANTS
  ReceptionTypeOK
  Framed
  SegmentsBounded
PROPERTIES
  AllReceived

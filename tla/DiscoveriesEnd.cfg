CONSTANTS
  A = A
  B = B
  C = C
  D = D
  NoNode = NoNode
  Node <- ThreeNodes
  Link <- Line
  Demand <- Anyone
  Traffic <- AtoC
  Sends = 1
  NoPacket = NoPacket
  Blacklisted <- NobodyBlacklisted
  Budget <- LossyDiscovery
  NUM_RS_ENTRIES = 4
  max_route_time = 2
  UINT8_MAX = 3
  MAXVALUE = 3
  MAX_HOP_COUNT = 3
  MAX_HOP_LIMIT = 3
  HOPS_MAX = 1
SPECIFICATION MeshFairSpec
INVARIANTS PendingHasTimer FirstPacketSettled FirstDiscoverySucceeds
PROPERTIES FloodsEnd DiscoveryEnds
CHECK_DEADLOCK FALSE

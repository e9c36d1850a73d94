CONSTANTS
  A = A
  B = B
  C = C
  D = D
  NoNode = NoNode
  NoPacket = NoPacket
  Blacklisted <- NobodyBlacklisted
  Demand <- Anyone
  NUM_RS_ENTRIES = 4
  max_route_time = 1
  UINT8_MAX = 3
  MAXVALUE = 3
  MAX_HOP_COUNT = 3
  MAX_HOP_LIMIT = 3
  Node <- ThreeNodes
  Link <- Line
  Traffic <- AtoBandC
  Sends = 2
  Budget <- AnythingOnce
  HOPS_MAX = 0
SPECIFICATION MeshFairSpec
INVARIANTS InOnePlace DataCanGoOn
PROPERTIES StrandedForCause PacketsEnd
CHECK_DEADLOCK FALSE

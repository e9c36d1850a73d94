CONSTANTS
  A = A
  B = B
  C = C
  D = D
  NoNode = NoNode
  Node <- FourNodes
  Link <- LineWithoutD
  Demand <- AtoD
  Blacklisted <- NobodyBlacklisted
  Budget <- AgeingDiscovery
  NUM_RS_ENTRIES = 4
  max_route_time = 1
  UINT8_MAX = 3
  MAXVALUE = 3
  MAX_HOP_COUNT = 3
  MAX_HOP_LIMIT = 3
  HOPS_MAX = 1
SPECIFICATION Spec
INVARIANTS LoopFree
CHECK_DEADLOCK FALSE

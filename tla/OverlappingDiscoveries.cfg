CONSTANTS
  A = A
  B = B
  C = C
  D = D
  NoNode = NoNode
  Node <- ThreeNodes
  Link <- Line
  Demand <- AtoCandCtoA
  Blacklisted <- NobodyBlacklisted
  Budget <- TwoDiscoveries
  NUM_RS_ENTRIES = 4
  max_route_time = 2
  UINT8_MAX = 3
  MAXVALUE = 3
  MAX_HOP_COUNT = 3
  MAX_HOP_LIMIT = 1
  HOPS_MAX = 1
SPECIFICATION Spec
INVARIANTS RoutesArePaths ReplyCanReturn
CHECK_DEADLOCK FALSE
PROPERTIES NoGratuitousReply
SYMMETRY Mirror

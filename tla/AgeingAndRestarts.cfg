CONSTANTS
  A = A
  B = B
  C = C
  D = D
  Me = C
  NoNode = NoNode
  Node <- FourNodes
  Link <- LineWithoutD
  Demand <- AtoDandCtoA
  Blacklisted <- NobodyBlacklisted
  Budget <- AnythingOnce
  NUM_RS_ENTRIES = 4
  max_route_time = 1
  UINT8_MAX = 4
  MAXVALUE = 3
  MAX_HOP_COUNT = 3
  MAX_HOP_LIMIT = 2
  HOPS_MAX = 0
SPECIFICATION Spec
INVARIANTS TypeOK OneTuplePerDestination NoRouteToSelf
PROPERTIES NodeServes
CHECK_DEADLOCK FALSE

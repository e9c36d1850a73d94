CONSTANTS
  Addr = {a, b, c}
  Neighbor = {a}
  Cost = {}
  Seqno = {0}
  Timeout = {0, 1, 2}
  NUM_RS_ENTRIES = 3
  NUM_BLACKLIST_ENTRIES = 2
  max_route_time = 4
  UINT8_MAX = 2
  CLOCK_MAX = 3
SPECIFICATION LifeSpec
INVARIANTS BlacklistedOnce
PROPERTIES NotReadmittedEarly

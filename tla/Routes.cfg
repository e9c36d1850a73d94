CONSTANTS
  Addr = {a, b}
  Neighbor = {a, b}
  Cost = {0, 1, 2}
  Seqno = {0}
  Timeout = {}
  NUM_RS_ENTRIES = 3
  NUM_BLACKLIST_ENTRIES = 2
  max_route_time = 4
  UINT8_MAX = 2
  CLOCK_MAX = 3
SPECIFICATION LifeSpec
SYMMETRY AddrSymmetry
INVARIANTS TypeOK AgeWithinIdle NeverMuchLate
PROPERTIES AddedIsFound LostOnlyForCause NeverEarly

CONSTANTS
  a = a
  b = b
  c = c
  NoAddr = NoAddr
  Me = a
  Addr = {b, c}
  Neighbor = {b}
  Seqno = {0}
  NUM_RS_ENTRIES = 2
  max_route_time = 2
  UINT8_MAX = 2
SPECIFICATION UipSpec

PROPERTIES LeavesByNextHop
CHECK_DEADLOCK FALSE

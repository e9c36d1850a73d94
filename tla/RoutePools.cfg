CONSTANTS
  NUM_RS_ENTRIES = 2
  NUM_pending_ENTRIES = 2
  max_route_time = 2
  UINT8_MAX = 2
  Addr = {1, 2}
  Cost = {0, 1}
  Seqno = {0}
  RREQ_ID = {1}
  AckTimeout = {2}
SPECIFICATION Spec
INVARIANTS NothingLeaks
PROPERTIES ImplementsRouteSet PendingGoesForCause
CHECK_DEADLOCK FALSE

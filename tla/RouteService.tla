---------------------------- MODULE RouteService ----------------------------
(***************************************************************************)
(* What route discovery and the Routing Set promise the program above them *)
(* on one node: mesh.c and uip-over-mesh.c see no more of them than this.  *)
(* One discovery at a time; it ends with a reply or by its timer; routes   *)
(* are learned only where none was known, whoever the messages came from;  *)
(* and the clock alone takes them away.  LOADng implements it on every     *)
(* node (LOADngService), and UipOverMesh is modelled above it.             *)
(***************************************************************************)
EXTENDS RouteTable

CONSTANTS
  Addr,       \* the other nodes
  Neighbor,   \* those whose frames are heard
  Seqno       \* the sequence numbers of their messages

VARIABLES
  route_set,      \* the Routing Set
  rrep_pending,   \* a discovery waits for its reply
  timer           \* its ctimer is running

discoveryVars == <<rrep_pending, timer>>
serviceVars == <<route_set, rrep_pending, timer>>

ServiceInit ==
  /\ route_set = <<>>
  /\ rrep_pending = FALSE
  /\ timer = FALSE

(* route_discovery_discover(): a second request is ignored.                *)
Request ==
  IF rrep_pending THEN UNCHANGED discoveryVars
  ELSE rrep_pending' = TRUE /\ timer' = TRUE

Learn(d) ==
  \/ HasRoute(route_set, d) /\ UNCHANGED route_set
  \/ /\ ~HasRoute(route_set, d)
     /\ \E nexthop \in Neighbor, cost \in 0 .. UINT8_MAX, seqno \in Seqno :
          route_set' = route_add(route_set, d, nexthop, cost, seqno)

Ended == rrep_pending' = FALSE /\ timer' = FALSE

(* A reply of d for this node; new_route is called.  Any reply will do.    *)
Reply(d) == Ended /\ Learn(d)

(* timeout_handler(); timedout is called.                                  *)
TimedOut == timer /\ Ended /\ UNCHANGED route_set

(* A message of d for somebody else.                                       *)
Overhear(d) == UNCHANGED discoveryVars /\ Learn(d)

Age == route_set' = AgeRoutes(route_set) /\ UNCHANGED discoveryVars

Refresh(d) ==
  /\ route_set' = route_refresh(route_set, route_lookup(route_set, d))
  /\ UNCHANGED discoveryVars

Boot == route_set' = <<>> /\ Ended
Reopen == route_set' = <<>> /\ UNCHANGED discoveryVars
Shut == timer' = FALSE /\ UNCHANGED <<route_set, rrep_pending>>

ServiceNext ==
  \/ Request /\ UNCHANGED route_set
  \/ TimedOut
  \/ Age
  \/ Boot \/ Reopen \/ Shut
  \/ \E d \in Addr : Refresh(d) \/ Reply(d) \/ Overhear(d)

Service == ServiceInit /\ [][ServiceNext]_serviceVars
=============================================================================

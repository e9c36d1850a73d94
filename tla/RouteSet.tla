------------------------------ MODULE RouteSet ------------------------------
(***************************************************************************)
(* route.c as a state machine: its two lists, one action per function of   *)
(* route.h that changes them, and the one-second timer.  Contiki runs each *)
(* of these to completion in one protothread context, so an action is one  *)
(* call.  Callers reach an entry only through route_lookup (mesh.c,        *)
(* route-discovery.c, uip-over-mesh.c), so refresh and remove take a       *)
(* destination.                                                            *)
(***************************************************************************)
EXTENDS RouteTable, BlacklistTable

CONSTANTS
  Addr,      \* the addresses of the nodes
  Neighbor,  \* those that are next hops
  Cost,      \* the costs callers pass
  Seqno,     \* the sequence numbers callers pass
  Timeout    \* the blacklist timeouts callers pass

ASSUME InputAssumption ==
  /\ Neighbor \subseteq Addr
  /\ Cost \subseteq 0 .. UINT8_MAX
  /\ Timeout \subseteq 0 .. CLOCK_MAX

VARIABLES
  route_set,       \* the Routing Set
  blacklist_set    \* the Blacklisted Neighbor Set

tableVars == <<route_set, blacklist_set>>

TypeOK ==
  /\ route_set \in Seq(RouteTuple(Addr, Seqno))
  /\ Len(route_set) <= NUM_RS_ENTRIES
  /\ blacklist_set \in Seq(BlacklistTuple(Addr))
  /\ Len(blacklist_set) <= NUM_BLACKLIST_ENTRIES

-----------------------------------------------------------------------------
route_init == route_set = <<>> /\ blacklist_set = <<>>

RouteAdd(dest, nexthop, cost, seqno) ==
  /\ route_set' = route_add(route_set, dest, nexthop, cost, seqno)
  /\ UNCHANGED blacklist_set

RouteRefresh(dest) ==
  /\ route_set' = route_refresh(route_set, route_lookup(route_set, dest))
  /\ UNCHANGED blacklist_set

RouteRemove(dest) ==
  /\ route_set' = route_remove(route_set, route_lookup(route_set, dest))
  /\ UNCHANGED blacklist_set

BlacklistAdd(neighbor, timeout) ==
  /\ blacklist_set' = route_blacklist_add(blacklist_set, neighbor, timeout)
  /\ UNCHANGED route_set

BlacklistRemove(addr) ==
  /\ blacklist_set' =
       blacklist_remove(blacklist_set, route_blacklist_lookup(blacklist_set, addr))
  /\ UNCHANGED route_set

Periodic ==
  /\ route_set' = AgeRoutes(route_set)
  /\ blacklist_set' = AgeBlacklist(blacklist_set)

(* mesh_open and uip_over_mesh_init call route_init again.                 *)
Reinit == route_set' = <<>> /\ blacklist_set' = <<>>

Next ==
  \/ \E dest \in Addr, nexthop \in Neighbor, cost \in Cost, seqno \in Seqno :
       RouteAdd(dest, nexthop, cost, seqno)
  \/ \E dest \in Addr : RouteRefresh(dest) \/ RouteRemove(dest)
  \/ \E neighbor \in Addr, timeout \in Timeout : BlacklistAdd(neighbor, timeout)
  \/ \E neighbor \in Addr : BlacklistRemove(neighbor)
  \/ Periodic
  \/ Reinit

Spec == route_init /\ [][Next]_tableVars

-----------------------------------------------------------------------------
(* A route that has just been added with a usable cost is found by the     *)
(* next lookup of its destination, or a cheaper one is: neither the reuse  *)
(* of an old entry nor the eviction from a full pool loses it.             *)
AddedIsFound ==
  [][\A dest \in Addr, nexthop \in Neighbor, cost \in Cost, seqno \in Seqno :
       cost < UINT8_MAX /\ RouteAdd(dest, nexthop, cost, seqno) =>
         /\ HasRoute(route_set', dest)
         /\ route_set'[route_lookup(route_set', dest)].route_cost <= cost]_tableVars

(* How an address can stop being reachable.                                *)
RemovedByCaller(dest) == RouteRemove(dest) \/ Reinit

ExpiredNow(dest) ==
  /\ Periodic
  /\ route_set[route_lookup(route_set, dest)].R_valid_time = max_route_time - 1

EvictedBy(dest, other) ==
  /\ Len(route_set) = NUM_RS_ENTRIES
  /\ route_lookup(route_set, dest) = NUM_RS_ENTRIES
  /\ \E nexthop \in Neighbor, cost \in Cost, seqno \in Seqno :
       RouteAdd(other, nexthop, cost, seqno)

MadeUnusable(dest) ==
  \E seqno \in Seqno :
    RouteAdd(dest, NextHop(route_set, dest), UINT8_MAX, seqno)

(* A destination that had a route loses it only when a caller removes it,  *)
(* when its time is up, when it is the tail of a full list and a route to  *)
(* another destination needs the room, or when the same route is           *)
(* re-announced at the cost that stands for infinity.  In particular a     *)
(* tick that removes one route leaves every route that is not due.         *)
LostOnlyForCause ==
  [][\A dest \in Addr :
       HasRoute(route_set, dest) /\ ~HasRoute(route_set', dest) =>
         \/ RemovedByCaller(dest)
         \/ ExpiredNow(dest)
         \/ \E other \in Addr : EvictedBy(dest, other)
         \/ MadeUnusable(dest)]_tableVars

(* No neighbour is blacklisted twice: unlike route_add,                    *)
(* route_blacklist_add always finds the entry it has to replace, also      *)
(* after evictions and ticks that stop half-way.                           *)
BlacklistedOnce ==
  \A i, j \in DOMAIN blacklist_set :
    blacklist_set[i].B_neighbor_address = blacklist_set[j].B_neighbor_address
      => i = j
=============================================================================

--------------------------- MODULE RouteLifetime ---------------------------
(***************************************************************************)
(* How long route.c keeps an entry.  RouteSet is extended with history     *)
(* variables that count real timer ticks: idle[i] is the number of ticks   *)
(* since route_set[i] was added or refreshed, and for blacklist_set[i],    *)
(* term[i] is the timeout it was added with and served[i] the ticks since. *)
(* They are kept in the order of the lists they describe and never         *)
(* influence them.                                                         *)
(***************************************************************************)
EXTENDS RouteSet

VARIABLES idle, term, served

historyVars == <<idle, term, served>>
lifeVars == <<route_set, blacklist_set, idle, term, served>>

(* The history counters stop here; nothing below asks about longer times.  *)
IDLE_CAP == max_route_time + 2 * NUM_RS_ENTRIES
SERVED_CAP == CLOCK_MAX + 1

(* A list without the element that this tick removes.                      *)
Without(s, removed) == IF removed = {} THEN s ELSE RemoveAt(s, Min(removed))

(* Every counter one tick on.                                              *)
Later(s, cap) == [i \in DOMAIN s |-> IF s[i] < cap THEN s[i] + 1 ELSE cap]

LifeInit == route_init /\ idle = <<>> /\ term = <<>> /\ served = <<>>

LifeRouteAdd(dest, nexthop, cost, seqno) ==
  /\ RouteAdd(dest, nexthop, cost, seqno)
  /\ idle' = PushReusing(idle, Replaced(route_set, dest, nexthop), NUM_RS_ENTRIES, 0)
  /\ UNCHANGED <<term, served>>

LifeRouteRefresh(dest) ==
  /\ RouteRefresh(dest)
  /\ idle' = IF HasRoute(route_set, dest)
               THEN [idle EXCEPT ![route_lookup(route_set, dest)] = 0] ELSE idle
  /\ UNCHANGED <<term, served>>

LifeRouteRemove(dest) ==
  /\ RouteRemove(dest)
  /\ idle' = route_remove(idle, route_lookup(route_set, dest))
  /\ UNCHANGED <<term, served>>

LifeBlacklistAdd(neighbor, timeout) ==
  LET i == route_blacklist_lookup(blacklist_set, neighbor)
  IN  /\ BlacklistAdd(neighbor, timeout)
      /\ term' = PushReusing(term, i, NUM_BLACKLIST_ENTRIES, timeout)
      /\ served' = PushReusing(served, i, NUM_BLACKLIST_ENTRIES, 0)
      /\ UNCHANGED idle

LifeBlacklistRemove(addr) ==
  LET i == route_blacklist_lookup(blacklist_set, addr)
  IN  /\ BlacklistRemove(addr)
      /\ term' = blacklist_remove(term, i)
      /\ served' = blacklist_remove(served, i)
      /\ UNCHANGED idle

LifePeriodic ==
  /\ Periodic
  /\ idle' = Without(Later(idle, IDLE_CAP), Expiring(route_set))
  /\ served' = Without(Later(served, SERVED_CAP), Lapsing(blacklist_set))
  /\ term' = Without(term, Lapsing(blacklist_set))

LifeReinit == Reinit /\ idle' = <<>> /\ term' = <<>> /\ served' = <<>>

LifeNext ==
  \/ \E dest \in Addr, nexthop \in Neighbor, cost \in Cost, seqno \in Seqno :
       LifeRouteAdd(dest, nexthop, cost, seqno)
  \/ \E dest \in Addr : LifeRouteRefresh(dest) \/ LifeRouteRemove(dest)
  \/ \E neighbor \in Addr, timeout \in Timeout : LifeBlacklistAdd(neighbor, timeout)
  \/ \E neighbor \in Addr : LifeBlacklistRemove(neighbor)
  \/ LifePeriodic
  \/ LifeReinit

LifeSpec == LifeInit /\ [][LifeNext]_lifeVars

-----------------------------------------------------------------------------
(* The clock of an entry never runs ahead of real time: what the timer has *)
(* counted for a route is at most the ticks that have passed since it was  *)
(* added or refreshed.                                                     *)
AgeWithinIdle ==
  /\ Len(idle) = Len(route_set)
  /\ \A i \in DOMAIN route_set : route_set[i].R_valid_time <= idle[i]

(* The timer never takes a route out before max_route_time ticks without   *)
(* an add or a refresh of it.                                              *)
NeverEarly ==
  [][LifePeriodic /\ Expiring(route_set) # {} =>
       idle[Min(Expiring(route_set))] + 1 >= max_route_time]_lifeVars

(* Nor does it keep one much longer.  A removal ends the loop, so routes   *)
(* behind it lose that tick, but each entry in front of a route can cost   *)
(* it at most two ticks of its lifetime.  This needs a pool that is small  *)
(* against the lifetime, as in the code (8 and 50).                        *)
NeverMuchLate ==
  2 * (NUM_RS_ENTRIES - 1) <= max_route_time =>
    \A i \in DOMAIN idle : idle[i] < max_route_time + 2 * (NUM_RS_ENTRIES - 1)

(* A neighbour blacklisted for a number of ticks is not let in again by    *)
(* the timer before they have passed; one blacklisted for 0 ticks stays    *)
(* for the whole range of clock_time_t.                                    *)
NotReadmittedEarly ==
  [][LifePeriodic /\ Lapsing(blacklist_set) # {} =>
       LET i == Min(Lapsing(blacklist_set))
       IN  served[i] + 1 >= IF term[i] = 0 THEN CLOCK_MAX + 1 ELSE term[i]]_lifeVars
=============================================================================

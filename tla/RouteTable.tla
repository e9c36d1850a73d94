----------------------------- MODULE RouteTable -----------------------------
(***************************************************************************)
(* The Routing Set of route.c as pure operators.  R_metric and weak_links  *)
(* are 0 in every tuple the code builds and are left out.                  *)
(***************************************************************************)
EXTENDS PoolList

CONSTANTS
  NUM_RS_ENTRIES,   \* the pool of Routing Tuples (8)
  max_route_time,   \* ticks a tuple lives without a refresh (50)
  UINT8_MAX         \* the largest route_cost (255)

ASSUME TableAssumption ==
  /\ NUM_RS_ENTRIES \in Nat \ {0}
  /\ max_route_time \in Nat \ {0}
  /\ UINT8_MAX \in Nat \ {0}

RouteTuple(Addr, Seqno) ==
  [R_dest_addr  : Addr,
   R_next_addr  : Addr,
   route_cost   : 0 .. UINT8_MAX,
   R_seq_num    : Seqno,
   R_valid_time : 0 .. max_route_time - 1]

(* route_lookup keeps the first of the cheapest tuples for dest.  Its scan *)
(* starts from lowest_cost 255 and compares with <, so a tuple of cost 255 *)
(* is never found.                                                         *)
Candidates(rs, dest) ==
  {i \in DOMAIN rs : rs[i].R_dest_addr = dest /\ rs[i].route_cost < UINT8_MAX}

(* Mutant: the comparison is the wrong way round.                          *)
Worse(rs, i, j) ==
  \/ rs[i].route_cost > rs[j].route_cost
  \/ rs[i].route_cost = rs[j].route_cost /\ i <= j

Better(rs, i, j) ==
  \/ rs[i].route_cost < rs[j].route_cost
  \/ rs[i].route_cost = rs[j].route_cost /\ i <= j

route_lookup(rs, dest) ==
  LET found == Candidates(rs, dest)
  IN  IF found = {} THEN 0
      ELSE CHOOSE i \in found : \A j \in found : Better(rs, i, j)

HasRoute(rs, dest) == route_lookup(rs, dest) # 0

NextHop(rs, dest) == rs[route_lookup(rs, dest)].R_next_addr

(* The entry route_add overwrites in place of taking a free element: the   *)
(* best one for dest, when it has the same next hop.                       *)
Replaced(rs, dest, nexthop) ==
  IF HasRoute(rs, dest) /\ NextHop(rs, dest) = nexthop
    THEN route_lookup(rs, dest) ELSE 0

(* Mutant: the tuple is renewed without its time.                          *)
route_add_aged(rs, dest, nexthop, cost, seqno) ==
  LET old == Replaced(rs, dest, nexthop)
  IN  PushReusing(rs, old, NUM_RS_ENTRIES,
                  [R_dest_addr  |-> dest,
                   R_next_addr  |-> nexthop,
                   route_cost   |-> cost,
                   R_seq_num    |-> seqno,
                   R_valid_time |-> IF old = 0 THEN 0 ELSE rs[old].R_valid_time])

route_add(rs, dest, nexthop, cost, seqno) ==
  PushReusing(rs, Replaced(rs, dest, nexthop), NUM_RS_ENTRIES,
              [R_dest_addr  |-> dest,
               R_next_addr  |-> nexthop,
               route_cost   |-> cost,
               R_seq_num    |-> seqno,
               R_valid_time |-> 0])

route_refresh(rs, i) ==
  IF i = 0 THEN rs ELSE [rs EXCEPT ![i].R_valid_time = 0]

route_remove(rs, i) == IF i = 0 THEN rs ELSE RemoveAt(rs, i)

-----------------------------------------------------------------------------
(* The first loop of periodic().  list_remove clears the next pointer of   *)
(* the element it takes out, and the loop goes on from that element: the   *)
(* tuples behind the first one that expires are not aged in this tick.     *)
(* Mutants: the limit is missed by one, either way.                        *)
ExpiringLate(rs) == {i \in DOMAIN rs : rs[i].R_valid_time >= max_route_time}
ExpiringEarly(rs) == {i \in DOMAIN rs : rs[i].R_valid_time + 2 >= max_route_time}

Expiring(rs) == {i \in DOMAIN rs : rs[i].R_valid_time + 1 >= max_route_time}

Older(rs, i) == [rs[i] EXCEPT !.R_valid_time = @ + 1]

AgeRoutes(rs) ==
  IF Expiring(rs) = {} THEN [i \in DOMAIN rs |-> Older(rs, i)]
  ELSE LET k == Min(Expiring(rs))
       IN  [i \in 1 .. Len(rs) - 1 |-> IF i < k THEN Older(rs, i) ELSE rs[i + 1]]
=============================================================================

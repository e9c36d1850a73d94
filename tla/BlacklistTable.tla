--------------------------- MODULE BlacklistTable ---------------------------
(***************************************************************************)
(* The Blacklisted Neighbor Set of route.c as pure operators.              *)
(***************************************************************************)
EXTENDS PoolList

CONSTANTS
  NUM_BLACKLIST_ENTRIES,  \* the pool of blacklisted neighbours (16)
  CLOCK_MAX               \* the largest clock_time_t

ASSUME BlacklistAssumption ==
  /\ NUM_BLACKLIST_ENTRIES \in Nat \ {0}
  /\ CLOCK_MAX \in Nat \ {0}

BlacklistTuple(Addr) ==
  [B_neighbor_address : Addr, B_valid_time : 0 .. CLOCK_MAX]

Listed(bl, addr) == {i \in DOMAIN bl : bl[i].B_neighbor_address = addr}

route_blacklist_lookup(bl, addr) ==
  IF Listed(bl, addr) = {} THEN 0 ELSE Min(Listed(bl, addr))

(* Mutant: no look for an entry to replace.                                *)
route_blacklist_add_blindly(bl, neighbor, timeout) ==
  PushReusing(bl, 0, NUM_BLACKLIST_ENTRIES,
              [B_neighbor_address |-> neighbor, B_valid_time |-> timeout])

route_blacklist_add(bl, neighbor, timeout) ==
  PushReusing(bl, route_blacklist_lookup(bl, neighbor), NUM_BLACKLIST_ENTRIES,
              [B_neighbor_address |-> neighbor, B_valid_time |-> timeout])

blacklist_remove(bl, i) == IF i = 0 THEN bl ELSE RemoveAt(bl, i)

(* The second loop of periodic().  B_valid_time is unsigned: one that was  *)
(* already 0 wraps.  The loop stops after a removal like the first one.    *)
(* Mutant: the counter stops at 0.                                         *)
CountDownToZero(t) == IF t = 0 THEN 0 ELSE t - 1

CountDown(t) == IF t = 0 THEN CLOCK_MAX ELSE t - 1

Lapsing(bl) == {i \in DOMAIN bl : CountDown(bl[i].B_valid_time) = 0}

Shorter(bl, i) == [bl[i] EXCEPT !.B_valid_time = CountDown(@)]

AgeBlacklist(bl) ==
  IF Lapsing(bl) = {} THEN [i \in DOMAIN bl |-> Shorter(bl, i)]
  ELSE LET k == Min(Lapsing(bl))
       IN  [i \in 1 .. Len(bl) - 1 |-> IF i < k THEN Shorter(bl, i) ELSE bl[i + 1]]
=============================================================================

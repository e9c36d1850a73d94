--------------------------- MODULE RouteSetProofs ---------------------------
(***************************************************************************)
(* The properties of RouteSet, and those of RouteLifetime that are about   *)
(* its history, for pools, lifetimes and sets of addresses of any size.    *)
(***************************************************************************)
EXTENDS RouteLifetime, RouteTableProofs, FiniteSetTheorems

(* No neighbour has two entries.                                           *)
Once(bl) ==
  \A i, j \in 1 .. Len(bl) :
    bl[i].B_neighbor_address = bl[j].B_neighbor_address => i = j

(* A blacklist is a sequence: its elements are entries, and their counters *)
(* lie in the range of the clock.                                          *)
LEMMA BlacklistFields ==
  ASSUME NEW bl \in Seq(BlacklistTuple(Addr))
  PROVE  /\ Len(bl) \in Nat
         /\ DOMAIN bl = 1 .. Len(bl)
         /\ \A i \in 1 .. Len(bl) :
              /\ bl[i] \in BlacklistTuple(Addr)
              /\ bl[i].B_valid_time \in 0 .. CLOCK_MAX
<1>1. /\ Len(bl) \in Nat
      /\ DOMAIN bl = 1 .. Len(bl)
      /\ \A i \in 1 .. Len(bl) : bl[i] \in BlacklistTuple(Addr)
  BY LenProperties, ElementOfSeq
<1> QED BY <1>1 DEF BlacklistTuple

(* route_blacklist_lookup returns an entry of the neighbour, and NULL only *)
(* when there is none.                                                     *)
LEMMA BlacklistLookupFinds ==
  ASSUME NEW bl \in Seq(BlacklistTuple(Addr)), NEW addr
  PROVE  LET i == route_blacklist_lookup(bl, addr)
         IN  /\ i \in 0 .. Len(bl)
             /\ i # 0 => bl[i].B_neighbor_address = addr
             /\ i = 0 => \A j \in 1 .. Len(bl) : bl[j].B_neighbor_address # addr
<1>1. Len(bl) \in Nat /\ DOMAIN bl = 1 .. Len(bl)
  BY BlacklistFields
<1>2. CASE Listed(bl, addr) = {}
  BY <1>1, <1>2 DEF route_blacklist_lookup, Listed
<1>3. CASE Listed(bl, addr) # {}
  <2>1. Listed(bl, addr) \subseteq 1 .. Len(bl)
    BY <1>1 DEF Listed
  <2>2. Min(Listed(bl, addr)) \in Listed(bl, addr)
    BY <1>3, <2>1, MinIsFirst
  <2>3. route_blacklist_lookup(bl, addr) = Min(Listed(bl, addr))
    BY <1>3 DEF route_blacklist_lookup
  <2> DEFINE l == Min(Listed(bl, addr))
  <2> HIDE DEF l
  <2>4. l \in 1 .. Len(bl) /\ bl[l].B_neighbor_address = addr
    BY <1>1, <2>2 DEF l, Listed
  <2> QED BY <1>1, <2>3, <2>4 DEF l
<1> QED BY <1>2, <1>3

(* route_blacklist_add never overfills the pool, and since the lookup      *)
(* finds the entry of the neighbour when it has one, never adds a second.  *)
LEMMA BlacklistAddElements ==
  ASSUME NEW bl \in Seq(BlacklistTuple(Addr)),
         Len(bl) <= NUM_BLACKLIST_ENTRIES,
         NEW neighbor \in Addr, NEW timeout \in 0 .. CLOCK_MAX
  PROVE  LET t == route_blacklist_add(bl, neighbor, timeout)
         IN  /\ t \in Seq(BlacklistTuple(Addr))
             /\ Len(t) <= NUM_BLACKLIST_ENTRIES
             /\ Once(bl) => Once(t)
<1> DEFINE e == [B_neighbor_address |-> neighbor, B_valid_time |-> timeout]
           old == route_blacklist_lookup(bl, neighbor)
           t == PushReusing(bl, old, NUM_BLACKLIST_ENTRIES, e)
<1>0. Len(bl) \in Nat
  BY BlacklistFields
<1>1. e \in BlacklistTuple(Addr) /\ e.B_neighbor_address = neighbor
  BY DEF BlacklistTuple
<1>2. /\ old \in 0 .. Len(bl)
      /\ old # 0 => bl[old].B_neighbor_address = neighbor
      /\ old = 0 => \A j \in 1 .. Len(bl) : bl[j].B_neighbor_address # neighbor
  BY BlacklistLookupFinds
<1>3. NUM_BLACKLIST_ENTRIES \in Nat \ {0}
  BY BlacklistAssumption
<1>4. route_blacklist_add(bl, neighbor, timeout) = t
  BY DEF route_blacklist_add
<1>5. bl \in Seq(BlacklistTuple(Addr)) /\ e \in BlacklistTuple(Addr)
  BY <1>1
<1> HIDE DEF e, old
<1>6. /\ t \in Seq(BlacklistTuple(Addr))
      /\ Len(t) = PushedLen(Len(bl), old, NUM_BLACKLIST_ENTRIES)
      /\ 1 <= Len(t) /\ Len(t) <= NUM_BLACKLIST_ENTRIES
      /\ t[1] = e
      /\ \A k \in 2 .. Len(t) :
           /\ Origin(old, k) \in 1 .. Len(bl) /\ Origin(old, k) # old
           /\ t[k] = bl[Origin(old, k)]
  BY <1>2, <1>3, <1>5, PushElements
<1> HIDE DEF t
<1>7. Len(t) \in Nat
  BY <1>6, LenProperties
<1>8. ASSUME Once(bl), NEW i \in 1 .. Len(t), NEW j \in 1 .. Len(t), i < j,
             t[i].B_neighbor_address = t[j].B_neighbor_address
      PROVE  FALSE
  <2>1. j \in 2 .. Len(t)
    BY <1>7, <1>8
  <2>2. CASE i = 1
    <3>1. bl[Origin(old, j)].B_neighbor_address = neighbor
      BY <1>1, <1>6, <1>8, <2>1, <2>2
    <3> QED BY <1>2, <1>6, <1>8, <2>1, <3>1 DEF Once
  <2>3. CASE i # 1
    <3>1. i \in 2 .. Len(t)
      BY <1>7, <2>3
    <3>2. Origin(old, i) = Origin(old, j)
      BY <1>6, <1>8, <2>1, <3>1 DEF Once
    <3> QED BY <1>0, <1>2, <1>7, <1>8, <2>1, <3>1, <3>2 DEF Origin
  <2> QED BY <2>2, <2>3
<1>9. Once(bl) => Once(t)
  <2> SUFFICES ASSUME Once(bl), NEW i \in 1 .. Len(t), NEW j \in 1 .. Len(t),
                      t[i].B_neighbor_address = t[j].B_neighbor_address
               PROVE  i = j
    BY DEF Once
  <2>1. ~(i < j) /\ ~(j < i)
    BY <1>8
  <2> QED BY <1>7, <2>1
<1> QED BY <1>4, <1>6, <1>9

(* blacklist_remove leaves the other entries as they are.                  *)
LEMMA BlacklistRemoveElements ==
  ASSUME NEW bl \in Seq(BlacklistTuple(Addr)),
         Len(bl) <= NUM_BLACKLIST_ENTRIES, NEW i \in 0 .. Len(bl)
  PROVE  LET t == blacklist_remove(bl, i)
         IN  /\ t \in Seq(BlacklistTuple(Addr))
             /\ Len(t) <= NUM_BLACKLIST_ENTRIES
             /\ Once(bl) => Once(t)
<1>0. Len(bl) \in Nat /\ NUM_BLACKLIST_ENTRIES \in Nat
  BY BlacklistFields, BlacklistAssumption
<1>1. CASE i = 0
  BY <1>1 DEF blacklist_remove
<1>2. CASE i # 0
  <2>1. i \in 1 .. Len(bl)
    BY <1>0, <1>2
  <2> DEFINE t == RemoveAt(bl, i)
  <2>2. /\ t \in Seq(BlacklistTuple(Addr))
        /\ Len(t) = Len(bl) - 1
        /\ \A k \in 1 .. Len(bl) - 1 :
             /\ Skip(i, k) \in 1 .. Len(bl) /\ Skip(i, k) # i
             /\ t[k] = bl[Skip(i, k)]
    BY <2>1, RemoveAtElements
  <2>3. blacklist_remove(bl, i) = t
    BY <1>2 DEF blacklist_remove
  <2> HIDE DEF t
  <2>4. ASSUME Once(bl), NEW j \in 1 .. Len(t), NEW k \in 1 .. Len(t),
               t[j].B_neighbor_address = t[k].B_neighbor_address
        PROVE  j = k
    <3>1. Skip(i, j) = Skip(i, k)
      BY <2>2, <2>4 DEF Once
    <3> QED BY <1>0, <2>1, <2>2, <3>1 DEF Skip
  <2>5. Once(bl) => Once(t)
    BY <2>4 DEF Once
  <2> QED BY <1>0, <2>2, <2>3, <2>5
<1> QED BY <1>1, <1>2

(* A tick without a lapse counts every entry down; one with a lapse takes  *)
(* out the first entry that lapses, counts those in front of it down and   *)
(* leaves those behind it as they are.  No neighbour comes to appear       *)
(* twice.                                                                  *)
LEMMA AgeBlacklistElements ==
  ASSUME NEW bl \in Seq(BlacklistTuple(Addr)),
         Len(bl) <= NUM_BLACKLIST_ENTRIES
  PROVE  /\ AgeBlacklist(bl) \in Seq(BlacklistTuple(Addr))
         /\ Len(AgeBlacklist(bl)) <= NUM_BLACKLIST_ENTRIES
         /\ Once(bl) => Once(AgeBlacklist(bl))
         /\ Lapsing(bl) = {} =>
              /\ Len(AgeBlacklist(bl)) = Len(bl)
              /\ \A k \in 1 .. Len(bl) : AgeBlacklist(bl)[k] = Shorter(bl, k)
         /\ Lapsing(bl) # {} =>
              /\ Min(Lapsing(bl)) \in 1 .. Len(bl)
              /\ bl[Min(Lapsing(bl))].B_valid_time = 1
              /\ Len(AgeBlacklist(bl)) = Len(bl) - 1
              /\ \A k \in 1 .. Len(bl) - 1 :
                   AgeBlacklist(bl)[k] =
                     IF k < Min(Lapsing(bl)) THEN Shorter(bl, k) ELSE bl[k + 1]
<1> DEFINE T == BlacklistTuple(Addr)
           t == AgeBlacklist(bl)
<1>1. /\ Len(bl) \in Nat /\ DOMAIN bl = 1 .. Len(bl) /\ NUM_BLACKLIST_ENTRIES \in Nat
      /\ \A i \in 1 .. Len(bl) : bl[i] \in T /\ bl[i].B_valid_time \in 0 .. CLOCK_MAX
  BY BlacklistFields, BlacklistAssumption
<1>2. ASSUME NEW i \in 1 .. Len(bl)
      PROVE  /\ Shorter(bl, i) \in T
             /\ Shorter(bl, i).B_neighbor_address = bl[i].B_neighbor_address
  <2>1. CountDown(bl[i].B_valid_time) \in 0 .. CLOCK_MAX
    BY <1>1, BlacklistAssumption DEF CountDown
  <2>2. bl[i] \in T
    BY <1>1
  <2> QED BY <2>1, <2>2 DEF Shorter, BlacklistTuple
<1>3. CASE Lapsing(bl) = {}
  <2>1. t = [i \in 1 .. Len(bl) |-> Shorter(bl, i)]
    BY <1>1, <1>3 DEF AgeBlacklist
  <2> HIDE DEF t
  <2>2. t \in [1 .. Len(bl) -> T]
    BY <1>2, <2>1
  <2>3. t \in Seq(T) /\ Len(t) = Len(bl)
    BY <1>1, <2>2
  <2>4. \A i \in 1 .. Len(bl) : t[i].B_neighbor_address = bl[i].B_neighbor_address
    BY <1>2, <2>1
  <2>5. Once(bl) => Once(t)
    BY <2>3, <2>4 DEF Once
  <2> QED BY <1>1, <1>3, <2>1, <2>3, <2>5 DEF t
<1>4. CASE Lapsing(bl) # {}
  <2> DEFINE m == Min(Lapsing(bl))
  <2>1. Lapsing(bl) \subseteq 1 .. Len(bl)
    BY <1>1 DEF Lapsing
  <2>2. m \in 1 .. Len(bl)
    BY <1>4, <2>1, MinIsFirst
  <2>3. t = [i \in 1 .. Len(bl) - 1 |-> IF i < m THEN Shorter(bl, i) ELSE bl[i + 1]]
    BY <1>4 DEF AgeBlacklist
  <2>a. m \in Lapsing(bl)
    BY <1>4, <2>1, MinIsFirst
  <2> HIDE DEF m, t
  <2>b. bl[m].B_valid_time = 1
    BY <1>1, <2>2, <2>a, BlacklistAssumption DEF Lapsing, CountDown
  <2>4. ASSUME NEW i \in 1 .. Len(bl) - 1
        PROVE  /\ t[i] \in T
               /\ Skip(m, i) \in 1 .. Len(bl)
               /\ t[i].B_neighbor_address = bl[Skip(m, i)].B_neighbor_address
    <3>1. CASE i < m
      <4>1. i \in 1 .. Len(bl) /\ t[i] = Shorter(bl, i) /\ Skip(m, i) = i
        BY <1>1, <2>2, <2>3, <3>1 DEF Skip
      <4> QED BY <1>2, <4>1
    <3>2. CASE ~(i < m)
      <4>1. i + 1 \in 1 .. Len(bl) /\ t[i] = bl[i + 1] /\ Skip(m, i) = i + 1
        BY <1>1, <2>2, <2>3, <3>2 DEF Skip
      <4> QED BY <1>1, <4>1
    <3> QED BY <3>1, <3>2
  <2>5. t \in [1 .. Len(bl) - 1 -> T]
    BY <2>3, <2>4
  <2>6. Len(bl) - 1 \in Nat
    BY <1>1, <2>2
  <2>7. t \in Seq(T) /\ Len(t) = Len(bl) - 1
    BY <2>5, <2>6
  <2>8. ASSUME Once(bl), NEW j \in 1 .. Len(t), NEW k \in 1 .. Len(t),
               t[j].B_neighbor_address = t[k].B_neighbor_address
        PROVE  j = k
    <3>1. Skip(m, j) = Skip(m, k)
      BY <2>4, <2>7, <2>8 DEF Once
    <3> QED BY <1>1, <2>2, <2>7, <3>1 DEF Skip
  <2>9. Once(bl) => Once(t)
    BY <2>8 DEF Once
  <2>10. Len(t) <= NUM_BLACKLIST_ENTRIES
    BY <1>1, <2>7
  <2>11. \A k \in 1 .. Len(bl) - 1 : t[k] = IF k < m THEN Shorter(bl, k) ELSE bl[k + 1]
    BY <2>3
  <2> QED BY <1>4, <2>2, <2>b, <2>7, <2>9, <2>10, <2>11 DEF t, m
<1> QED BY <1>3, <1>4

-----------------------------------------------------------------------------
(* Every action leaves both lists well typed and within their pools.       *)
LEMMA TypePreserved ==
  ASSUME TypeOK, [Next]_tableVars
  PROVE  TypeOK'
<1> USE DEF TypeOK
<1>1. ASSUME NEW dest \in Addr, NEW nexthop \in Neighbor, NEW cost \in Cost,
             NEW seqno \in Seqno, RouteAdd(dest, nexthop, cost, seqno)
      PROVE  TypeOK'
  <2>1. nexthop \in Addr /\ cost \in 0 .. UINT8_MAX
    BY InputAssumption
  <2>2. /\ route_add(route_set, dest, nexthop, cost, seqno) \in Seq(RouteTuple(Addr, Seqno))
        /\ Len(route_add(route_set, dest, nexthop, cost, seqno)) <= NUM_RS_ENTRIES
    BY <2>1, AddElements
  <2> QED BY <1>1, <2>2 DEF RouteAdd
<1>2. ASSUME NEW dest \in Addr, RouteRefresh(dest)
      PROVE  TypeOK'
  <2>1. route_lookup(route_set, dest) \in 0 .. Len(route_set)
    BY LookupFinds
  <2> QED BY <1>2, <2>1, RefreshElements DEF RouteRefresh
<1>3. ASSUME NEW dest \in Addr, RouteRemove(dest)
      PROVE  TypeOK'
  <2>1. route_lookup(route_set, dest) \in 0 .. Len(route_set)
    BY LookupFinds
  <2>2. Len(route_set) \in Nat /\ NUM_RS_ENTRIES \in Nat
    BY SetElements, TableAssumption
  <2>3. CASE route_lookup(route_set, dest) = 0
    BY <1>3, <2>3 DEF RouteRemove, route_remove
  <2>4. CASE route_lookup(route_set, dest) # 0
    <3> DEFINE l == route_lookup(route_set, dest)
    <3>1. route_set' = RemoveAt(route_set, l) /\ blacklist_set' = blacklist_set
      BY <1>3, <2>4 DEF RouteRemove, route_remove
    <3>2. l \in 1 .. Len(route_set)
      BY <2>1, <2>2, <2>4
    <3> HIDE DEF l
    <3>3. /\ RemoveAt(route_set, l) \in Seq(RouteTuple(Addr, Seqno))
          /\ Len(RemoveAt(route_set, l)) = Len(route_set) - 1
      BY <3>2, RemoveAtElements
    <3> QED BY <2>2, <3>1, <3>3
  <2> QED BY <2>3, <2>4
<1>4. ASSUME NEW neighbor \in Addr, NEW timeout \in Timeout,
             BlacklistAdd(neighbor, timeout)
      PROVE  TypeOK'
  <2>1. timeout \in 0 .. CLOCK_MAX
    BY InputAssumption
  <2> QED BY <1>4, <2>1, BlacklistAddElements DEF BlacklistAdd
<1>5. ASSUME NEW addr \in Addr, BlacklistRemove(addr)
      PROVE  TypeOK'
  <2>1. route_blacklist_lookup(blacklist_set, addr) \in 0 .. Len(blacklist_set)
    BY BlacklistLookupFinds
  <2> QED BY <1>5, <2>1, BlacklistRemoveElements DEF BlacklistRemove
<1>6. ASSUME Periodic
      PROVE  TypeOK'
  <2>1. /\ AgeRoutes(route_set) \in Seq(RouteTuple(Addr, Seqno))
        /\ Len(AgeRoutes(route_set)) <= Len(route_set)
    BY AgeElements
  <2>2. /\ Len(route_set) \in Nat /\ NUM_RS_ENTRIES \in Nat
        /\ Len(AgeRoutes(route_set)) \in Nat
    BY <2>1, SetElements, TableAssumption
  <2>3. Len(AgeRoutes(route_set)) <= NUM_RS_ENTRIES
    BY <2>1, <2>2
  <2> QED BY <1>6, <2>1, <2>3, AgeBlacklistElements DEF Periodic
<1>7. ASSUME Reinit
      PROVE  TypeOK'
  BY <1>7, EmptySeq, TableAssumption, BlacklistAssumption DEF Reinit
<1>8. CASE UNCHANGED tableVars
  BY <1>8 DEF tableVars
<1> QED BY <1>1, <1>2, <1>3, <1>4, <1>5, <1>6, <1>7, <1>8 DEF Next

(* Both lists hold well-formed entries only and never outgrow their pools: *)
(* list_chop is called on a non-empty list, whatever calls came before.    *)
THEOREM TypeCorrect == Spec => []TypeOK
<1>1. route_init => TypeOK
  BY EmptySeq, TableAssumption, BlacklistAssumption DEF route_init, TypeOK
<1>2. TypeOK /\ [Next]_tableVars => TypeOK'
  BY TypePreserved
<1> QED BY <1>1, <1>2, PTL DEF Spec

-----------------------------------------------------------------------------
(* No neighbour is blacklisted twice.  With the types the property is      *)
(* inductive: each operation keeps it by the lemmas above.                 *)
LEMMA OncePreserved ==
  ASSUME TypeOK, Once(blacklist_set), [Next]_tableVars
  PROVE  Once(blacklist_set')
<1> USE DEF TypeOK
<1>1. ASSUME NEW neighbor \in Addr, NEW timeout \in Timeout,
             BlacklistAdd(neighbor, timeout)
      PROVE  Once(blacklist_set')
  <2>1. timeout \in 0 .. CLOCK_MAX
    BY InputAssumption
  <2> QED BY <1>1, <2>1, BlacklistAddElements DEF BlacklistAdd
<1>2. ASSUME NEW addr \in Addr, BlacklistRemove(addr)
      PROVE  Once(blacklist_set')
  <2>1. route_blacklist_lookup(blacklist_set, addr) \in 0 .. Len(blacklist_set)
    BY BlacklistLookupFinds
  <2> QED BY <1>2, <2>1, BlacklistRemoveElements DEF BlacklistRemove
<1>3. ASSUME Periodic
      PROVE  Once(blacklist_set')
  BY <1>3, AgeBlacklistElements DEF Periodic
<1>4. ASSUME Reinit
      PROVE  Once(blacklist_set')
  BY <1>4 DEF Reinit, Once
<1>5. CASE blacklist_set' = blacklist_set
  BY <1>5
<1> QED BY <1>1, <1>2, <1>3, <1>4, <1>5
        DEF Next, RouteAdd, RouteRefresh, RouteRemove, tableVars

(* No neighbour is ever listed twice: route_blacklist_add looks for the    *)
(* address first and reuses its entry.                                     *)
THEOREM BlacklistHasNoDuplicates == Spec => []BlacklistedOnce
<1> DEFINE IInv == TypeOK /\ Once(blacklist_set)
<1>1. route_init => IInv
  BY EmptySeq, TableAssumption, BlacklistAssumption DEF route_init, TypeOK, Once
<1>2. IInv /\ [Next]_tableVars => IInv'
  BY TypePreserved, OncePreserved
<1>3. IInv => BlacklistedOnce
  BY BlacklistFields DEF BlacklistedOnce, Once, TypeOK
<1> QED BY <1>1, <1>2, <1>3, PTL DEF Spec

-----------------------------------------------------------------------------
(* A route that has just been added with a usable cost is found: it is at  *)
(* the head of the list, so that the lookup has a candidate.               *)
LEMMA AddIsFound ==
  ASSUME TypeOK, NEW dest \in Addr, NEW nexthop \in Neighbor, NEW cost \in Cost,
         NEW seqno \in Seqno, RouteAdd(dest, nexthop, cost, seqno), cost < UINT8_MAX
  PROVE  /\ HasRoute(route_set', dest)
         /\ route_set'[route_lookup(route_set', dest)].route_cost <= cost
<1> DEFINE t == route_add(route_set, dest, nexthop, cost, seqno)
<1>1. /\ route_set \in Seq(RouteTuple(Addr, Seqno)) /\ Len(route_set) <= NUM_RS_ENTRIES
      /\ nexthop \in Addr /\ cost \in 0 .. UINT8_MAX
  BY InputAssumption DEF TypeOK
<1>2. /\ t \in Seq(RouteTuple(Addr, Seqno)) /\ 1 <= Len(t)
      /\ t[1] = NewTuple(dest, nexthop, cost, seqno)
  BY <1>1, AddElements
<1>3. route_set' = t
  BY DEF RouteAdd
<1> HIDE DEF t
<1>4. 1 \in 1 .. Len(t) /\ t[1].R_dest_addr = dest /\ t[1].route_cost = cost
  BY <1>2, SetElements DEF NewTuple
<1>5. /\ HasRoute(t, dest)
      /\ t[route_lookup(t, dest)].route_cost <= t[1].route_cost
  BY <1>2, <1>4, UsableIsFound
<1> QED BY <1>3, <1>4, <1>5

(* What route_add stores at a usable cost the next route_lookup finds, or  *)
(* something cheaper; the tuple is at the head of the list and evictions   *)
(* take the tail.                                                          *)
THEOREM AddedRoutesAreFound == Spec => AddedIsFound
<1>1. TypeOK /\ [Next]_tableVars =>
        [\A dest \in Addr, nexthop \in Neighbor, cost \in Cost, seqno \in Seqno :
           cost < UINT8_MAX /\ RouteAdd(dest, nexthop, cost, seqno) =>
             /\ HasRoute(route_set', dest)
             /\ route_set'[route_lookup(route_set', dest)].route_cost <= cost]_tableVars
  BY AddIsFound
<1> QED BY <1>1, TypeCorrect, PTL DEF Spec, AddedIsFound

-----------------------------------------------------------------------------
(* A destination loses its route only for one of the causes that           *)
(* LostOnlyForCause lists.  The lemmas take the actions that touch the     *)
(* Routing Set one by one: the tuple the lookup returned before the step   *)
(* is still there after it, unless it is the one the cause names.          *)
Lost(dest) == HasRoute(route_set, dest) /\ ~HasRoute(route_set', dest)

Cause(dest) ==
  \/ RemovedByCaller(dest)
  \/ ExpiredNow(dest)
  \/ \E other \in Addr : EvictedBy(dest, other)
  \/ MadeUnusable(dest)

(* The route of dest before the step.                                      *)
LEMMA RouteOf ==
  ASSUME TypeOK, NEW dest, HasRoute(route_set, dest)
  PROVE  LET l == route_lookup(route_set, dest)
         IN  /\ l \in 1 .. Len(route_set) /\ Len(route_set) \in Nat
             /\ route_set[l] \in RouteTuple(Addr, Seqno)
             /\ route_set[l].R_dest_addr = dest
             /\ route_set[l].route_cost < UINT8_MAX
             /\ route_set[l].R_valid_time \in Nat
             /\ route_set[l].R_valid_time < max_route_time
<1>1. route_set \in Seq(RouteTuple(Addr, Seqno))
  BY DEF TypeOK
<1>2. /\ route_lookup(route_set, dest) \in 1 .. Len(route_set)
      /\ route_set[route_lookup(route_set, dest)].R_dest_addr = dest
      /\ route_set[route_lookup(route_set, dest)].route_cost < UINT8_MAX
  BY <1>1, LookupFinds
<1> DEFINE l == route_lookup(route_set, dest)
<1> HIDE DEF l
<1>3. l \in 1 .. Len(route_set)
  BY <1>2 DEF l
<1>4. route_set[l] \in RouteTuple(Addr, Seqno) /\ Len(route_set) \in Nat
  BY <1>1, <1>3, SetElements
<1>5. route_set[l].R_valid_time \in Nat /\ route_set[l].R_valid_time < max_route_time
  BY <1>4, TupleFields
<1> QED BY <1>2, <1>4, <1>5 DEF l

(* If it is still in the list, whatever its place and its age, dest has a  *)
(* route after the step.                                                   *)
LEMMA StillThere ==
  ASSUME TypeOK', NEW dest, NEW k \in 1 .. Len(route_set'),
         route_set'[k].R_dest_addr = dest, route_set'[k].route_cost < UINT8_MAX
  PROVE  HasRoute(route_set', dest)
<1> DEFINE t == route_set'
<1>1. t \in Seq(RouteTuple(Addr, Seqno))
  BY DEF TypeOK
<1>2. k \in 1 .. Len(t) /\ t[k].R_dest_addr = dest /\ t[k].route_cost < UINT8_MAX
  OBVIOUS
<1> HIDE DEF t
<1>3. HasRoute(t, dest)
  BY <1>1, <1>2, UsableIsFound
<1> QED BY <1>3 DEF t

(* An add costs another destination its route only by eviction from a full *)
(* pool; its own only if the new cost is infinite.                         *)
LEMMA LostByAdd ==
  ASSUME TypeOK, TypeOK', NEW dest \in Addr, Lost(dest),
         NEW d \in Addr, NEW nexthop \in Neighbor, NEW cost \in Cost, NEW seqno \in Seqno,
         RouteAdd(d, nexthop, cost, seqno)
  PROVE  Cause(dest)
<1> DEFINE t == route_add(route_set, d, nexthop, cost, seqno)
           old == Replaced(route_set, d, nexthop)
           l == route_lookup(route_set, dest)
<1>1. /\ route_set \in Seq(RouteTuple(Addr, Seqno)) /\ Len(route_set) <= NUM_RS_ENTRIES
      /\ nexthop \in Addr /\ cost \in 0 .. UINT8_MAX
  BY InputAssumption DEF TypeOK
<1>2. /\ l \in 1 .. Len(route_set) /\ Len(route_set) \in Nat
      /\ route_set[l].R_dest_addr = dest /\ route_set[l].route_cost < UINT8_MAX
  BY RouteOf DEF Lost
<1>3. /\ old # 0 => /\ old = route_lookup(route_set, d) /\ HasRoute(route_set, d)
                    /\ nexthop = NextHop(route_set, d)
  BY <1>1, ReplacedIsBest
<1>4. route_set' = t
  BY DEF RouteAdd
<1>5. ~HasRoute(t, dest) /\ t \in Seq(RouteTuple(Addr, Seqno))
  BY <1>4 DEF Lost, TypeOK
<1>6. CASE l = old
  <2>1. old # 0
    BY <1>2, <1>6
  <2>2. d = dest
    <3>1. route_set[route_lookup(route_set, d)].R_dest_addr = d
      BY <1>1, <1>3, <2>1, LookupFinds
    <3> QED BY <1>2, <1>3, <1>6, <2>1, <3>1
  <2>3. 1 \in 1 .. Len(t) /\ t[1].R_dest_addr = dest /\ t[1].route_cost = cost
    <3>1. 1 <= Len(t) /\ t[1] = NewTuple(d, nexthop, cost, seqno)
      BY <1>1, AddElements
    <3>2. Len(t) \in Nat
      BY <1>5, SetElements
    <3> QED BY <2>2, <3>1, <3>2 DEF NewTuple
  <2>4. ~(cost < UINT8_MAX)
    <3> HIDE DEF t
    <3> QED BY <1>5, <2>3, UsableIsFound
  <2>5. cost = UINT8_MAX
    BY <1>1, <2>4, TableAssumption
  <2>6. RouteAdd(dest, NextHop(route_set, dest), UINT8_MAX, seqno)
    BY <1>3, <2>1, <2>2, <2>5
  <2> QED BY <2>6 DEF Cause, MadeUnusable
<1>7. CASE l # old /\ (old = 0 => l # NUM_RS_ENTRIES)
  <2>1. \E k \in 1 .. Len(t) : t[k] = route_set[l]
    <3>1. l \in 1 .. Len(route_set)
      BY <1>2
    <3> HIDE DEF l
    <3> QED BY <1>1, <1>7, <3>1, AddKeeps
  <2>2. PICK k \in 1 .. Len(t) : t[k] = route_set[l]
    BY <2>1
  <2> HIDE DEF t
  <2>3. HasRoute(t, dest)
    BY <1>2, <1>5, <2>2, UsableIsFound
  <2> QED BY <1>5, <2>3
<1>8. CASE old = 0 /\ l = NUM_RS_ENTRIES
  <2>1. Len(route_set) = NUM_RS_ENTRIES
    BY <1>1, <1>2, <1>8, TableAssumption
  <2>2. EvictedBy(dest, d)
    BY <1>8, <2>1 DEF EvictedBy
  <2> QED BY <2>2 DEF Cause
<1> QED BY <1>6, <1>7, <1>8

(* A refresh changes an age only, so no destination loses its route.       *)
LEMMA LostByRefresh ==
  ASSUME TypeOK, TypeOK', NEW dest \in Addr, Lost(dest),
         NEW d \in Addr, RouteRefresh(d)
  PROVE  FALSE
<1> DEFINE l == route_lookup(route_set, dest)
           r == route_lookup(route_set, d)
<1>1. /\ l \in 1 .. Len(route_set) /\ route_set[l] \in RouteTuple(Addr, Seqno)
      /\ route_set[l].R_dest_addr = dest /\ route_set[l].route_cost < UINT8_MAX
  BY RouteOf DEF Lost
<1>2. route_set \in Seq(RouteTuple(Addr, Seqno)) /\ r \in 0 .. Len(route_set)
  BY LookupFinds DEF TypeOK
<1>3. route_set' = route_refresh(route_set, r)
  BY DEF RouteRefresh
<1> HIDE DEF l, r
<1>4. /\ Len(route_set') = Len(route_set)
      /\ route_set'[l] = IF l = r THEN [route_set[l] EXCEPT !.R_valid_time = 0]
                         ELSE route_set[l]
  BY <1>1, <1>2, <1>3, RefreshElements
<1>5. /\ route_set'[l].R_dest_addr = dest
      /\ route_set'[l].route_cost < UINT8_MAX
  BY <1>1, <1>4 DEF RouteTuple
<1> QED BY <1>1, <1>4, <1>5, StillThere DEF Lost

(* A removal takes the route of the destination it names and of no other.  *)
LEMMA LostByRemove ==
  ASSUME TypeOK, TypeOK', NEW dest \in Addr, Lost(dest),
         NEW d \in Addr, RouteRemove(d)
  PROVE  Cause(dest)
<1> DEFINE l == route_lookup(route_set, dest)
           r == route_lookup(route_set, d)
<1>1. /\ l \in 1 .. Len(route_set) /\ Len(route_set) \in Nat
      /\ route_set[l].R_dest_addr = dest /\ route_set[l].route_cost < UINT8_MAX
  BY RouteOf DEF Lost
<1>2. route_set \in Seq(RouteTuple(Addr, Seqno)) /\ r \in 0 .. Len(route_set)
  BY LookupFinds DEF TypeOK
<1>3. r # 0 => route_set[r].R_dest_addr = d
  BY <1>2, LookupFinds DEF HasRoute
<1>4. route_set' = IF r = 0 THEN route_set ELSE RemoveAt(route_set, r)
  BY DEF RouteRemove, route_remove
<1>5. CASE r = 0
  BY <1>4, <1>5 DEF Lost
<1>6. CASE r = l
  <2>1. d = dest
    BY <1>1, <1>3, <1>6
  <2> QED BY <2>1 DEF Cause, RemovedByCaller
<1>7. CASE r # 0 /\ r # l
  <2> DEFINE k == IF l < r THEN l ELSE l - 1
  <2>1. r \in 1 .. Len(route_set)
    BY <1>1, <1>2, <1>7
  <2> HIDE DEF l, r
  <2>2. /\ Len(route_set') = Len(route_set) - 1
        /\ \A j \in 1 .. Len(route_set) - 1 : route_set'[j] = route_set[Skip(r, j)]
    <3>1. /\ Len(RemoveAt(route_set, r)) = Len(route_set) - 1
          /\ \A j \in 1 .. Len(route_set) - 1 : RemoveAt(route_set, r)[j] = route_set[Skip(r, j)]
      BY <1>2, <2>1, RemoveAtElements
    <3> QED BY <1>4, <1>7, <3>1
  <2>3. k \in 1 .. Len(route_set) - 1 /\ Skip(r, k) = l
    BY <1>1, <1>7, <2>1 DEF Skip
  <2> HIDE DEF k
  <2>4. k \in 1 .. Len(route_set') /\ route_set'[k] = route_set[l]
    BY <2>2, <2>3
  <2> QED BY <1>1, <2>4, StillThere DEF Lost
<1> QED BY <1>5, <1>6, <1>7

(* A tick takes a route only when its age reaches max_route_time.          *)
LEMMA LostByTick ==
  ASSUME TypeOK, TypeOK', NEW dest \in Addr, Lost(dest), Periodic
  PROVE  Cause(dest)
<1> DEFINE l == route_lookup(route_set, dest)
           m == Min(Expiring(route_set))
<1>1. /\ l \in 1 .. Len(route_set) /\ Len(route_set) \in Nat
      /\ route_set[l] \in RouteTuple(Addr, Seqno)
      /\ route_set[l].R_dest_addr = dest /\ route_set[l].route_cost < UINT8_MAX
  BY RouteOf DEF Lost
<1>2. /\ Expiring(route_set) = {} =>
           /\ Len(route_set') = Len(route_set)
           /\ \A k \in 1 .. Len(route_set) : route_set'[k] = Older(route_set, k)
      /\ Expiring(route_set) # {} =>
           /\ m \in 1 .. Len(route_set)
           /\ route_set[m].R_valid_time = max_route_time - 1
           /\ Len(route_set') = Len(route_set) - 1
           /\ \A k \in 1 .. Len(route_set) - 1 :
                route_set'[k] = IF k < m THEN Older(route_set, k) ELSE route_set[k + 1]
  <2>1. route_set \in Seq(RouteTuple(Addr, Seqno)) /\ route_set' = AgeRoutes(route_set)
    BY DEF TypeOK, Periodic
  <2> QED BY <2>1, AgeElements
<1>3. /\ Older(route_set, l).R_dest_addr = dest
      /\ Older(route_set, l).route_cost < UINT8_MAX
  <2> HIDE DEF l
  <2> QED BY <1>1 DEF Older, RouteTuple
<1> HIDE DEF m
<1>4. CASE Expiring(route_set) = {}
  <2> HIDE DEF l
  <2>1. l \in 1 .. Len(route_set') /\ route_set'[l] = Older(route_set, l)
    BY <1>1, <1>2, <1>4
  <2> QED BY <1>3, <2>1, StillThere DEF Lost
<1>5. CASE Expiring(route_set) # {} /\ l = m
  <2>1. route_set[route_lookup(route_set, dest)].R_valid_time = max_route_time - 1
    BY <1>2, <1>5
  <2> QED BY <2>1 DEF Cause, ExpiredNow
<1>6. CASE Expiring(route_set) # {} /\ l # m
  <2> DEFINE k == IF l < m THEN l ELSE l - 1
  <2> HIDE DEF l
  <2>1. /\ k \in 1 .. Len(route_set')
        /\ route_set'[k] = IF l < m THEN Older(route_set, l) ELSE route_set[l]
    BY <1>1, <1>2, <1>6
  <2> HIDE DEF k
  <2>2. route_set'[k].R_dest_addr = dest /\ route_set'[k].route_cost < UINT8_MAX
    BY <1>1, <1>3, <2>1
  <2> QED BY <2>1, <2>2, StillThere DEF Lost
<1> QED BY <1>4, <1>5, <1>6

(* A destination that had a usable route has none only after a removal, an *)
(* expiry, an eviction or an infinite cost, whatever the pool and the      *)
(* order of the calls.                                                     *)
THEOREM RoutesAreLostOnlyForCause == Spec => LostOnlyForCause
<1>1. ASSUME TypeOK, TypeOK', Next, NEW dest \in Addr, Lost(dest)
      PROVE  Cause(dest)
  <2>1. CASE \E d \in Addr, nexthop \in Neighbor, cost \in Cost, seqno \in Seqno :
               RouteAdd(d, nexthop, cost, seqno)
    BY <1>1, <2>1, LostByAdd
  <2>2. CASE \E d \in Addr : RouteRefresh(d)
    BY <1>1, <2>2, LostByRefresh
  <2>3. CASE \E d \in Addr : RouteRemove(d)
    BY <1>1, <2>3, LostByRemove
  <2>4. CASE Periodic
    BY <1>1, <2>4, LostByTick
  <2>5. CASE Reinit
    BY <2>5 DEF Cause, RemovedByCaller
  <2>6. CASE route_set' = route_set
    BY <1>1, <2>6 DEF Lost
  <2> QED BY <1>1, <2>1, <2>2, <2>3, <2>4, <2>5, <2>6 DEF Next, BlacklistAdd, BlacklistRemove
<1>2. TypeOK /\ TypeOK' /\ [Next]_tableVars =>
        [\A dest \in Addr :
           HasRoute(route_set, dest) /\ ~HasRoute(route_set', dest) =>
             \/ RemovedByCaller(dest)
             \/ ExpiredNow(dest)
             \/ \E other \in Addr : EvictedBy(dest, other)
             \/ MadeUnusable(dest)]_tableVars
  BY <1>1 DEF Lost, Cause
<1> QED BY <1>2, TypeCorrect, PTL DEF Spec, LostOnlyForCause

-----------------------------------------------------------------------------
(***************************************************************************)
(* RouteLifetime: the timer takes no entry out before its time, nor a      *)
(* route much after it.                                                    *)
(***************************************************************************)
Idle == 0 .. IDLE_CAP

(* The history counters reach the lifetime of a route before they stop     *)
(* counting.                                                               *)
LEMMA CapType == IDLE_CAP \in Nat /\ max_route_time <= IDLE_CAP
BY TableAssumption DEF IDLE_CAP

(* Later adds one to every counter that has not reached its cap.           *)
LEMMA LaterElements ==
  ASSUME NEW cap \in Nat, NEW s \in Seq(0 .. cap)
  PROVE  /\ Later(s, cap) \in Seq(0 .. cap)
         /\ Len(Later(s, cap)) = Len(s)
         /\ \A k \in 1 .. Len(s) :
              Later(s, cap)[k] = IF s[k] < cap THEN s[k] + 1 ELSE cap
<1>1. /\ Len(s) \in Nat /\ DOMAIN s = 1 .. Len(s)
      /\ \A k \in 1 .. Len(s) : s[k] \in 0 .. cap
  BY LenProperties, ElementOfSeq
<1>2. Later(s, cap) = [k \in 1 .. Len(s) |-> IF s[k] < cap THEN s[k] + 1 ELSE cap]
  BY <1>1 DEF Later
<1>3. Later(s, cap) \in [1 .. Len(s) -> 0 .. cap]
  BY <1>1, <1>2
<1> QED BY <1>1, <1>2, <1>3

(* The history of a list loses the element that the list loses.            *)
LEMMA WithoutElements ==
  ASSUME NEW S, NEW s \in Seq(S), NEW removed \in SUBSET (1 .. Len(s))
  PROVE  /\ Without(s, removed) \in Seq(S)
         /\ removed = {} => Without(s, removed) = s
         /\ removed # {} =>
              /\ Min(removed) \in removed
              /\ Len(Without(s, removed)) = Len(s) - 1
              /\ \A k \in 1 .. Len(s) - 1 : Without(s, removed)[k] = s[Skip(Min(removed), k)]
<1>1. CASE removed = {}
  BY <1>1 DEF Without
<1>2. CASE removed # {}
  <2> DEFINE m == Min(removed)
  <2>1. removed \subseteq Nat
    BY LenProperties
  <2>2. m \in removed
    BY <1>2, <2>1, MinIsFirst
  <2>3. Without(s, removed) = RemoveAt(s, m)
    BY <1>2 DEF Without
  <2> HIDE DEF m
  <2>4. m \in 1 .. Len(s)
    BY <2>2
  <2>5. /\ RemoveAt(s, m) \in Seq(S)
        /\ Len(RemoveAt(s, m)) = Len(s) - 1
        /\ \A k \in 1 .. Len(s) - 1 : RemoveAt(s, m)[k] = s[Skip(m, k)]
    BY <2>4, RemoveAtElements
  <2> QED BY <1>2, <2>2, <2>3, <2>5 DEF m
<1> QED BY <1>1, <1>2

-----------------------------------------------------------------------------
(* The inductive invariant of the Routing Set: the history fits the list,  *)
(* and no clock is ahead of it.                                            *)
IdleInv == TypeOK /\ idle \in Seq(Idle) /\ AgeWithinIdle

(* The invariant, entry by entry: each has its history counter, and its    *)
(* age is below max_route_time and not above that counter.                 *)
LEMMA IdleInvFields ==
  ASSUME IdleInv
  PROVE  /\ route_set \in Seq(RouteTuple(Addr, Seqno))
         /\ Len(route_set) \in Nat /\ Len(route_set) <= NUM_RS_ENTRIES
         /\ Len(idle) = Len(route_set)
         /\ \A i \in 1 .. Len(route_set) :
              /\ idle[i] \in Nat /\ idle[i] \in Idle
              /\ route_set[i].R_valid_time \in Nat
              /\ route_set[i].R_valid_time < max_route_time
              /\ route_set[i].R_valid_time <= idle[i]
<1>1. /\ route_set \in Seq(RouteTuple(Addr, Seqno)) /\ idle \in Seq(Idle)
      /\ Len(route_set) <= NUM_RS_ENTRIES
      /\ Len(idle) = Len(route_set)
      /\ \A i \in DOMAIN route_set : route_set[i].R_valid_time <= idle[i]
  BY DEF IdleInv, TypeOK, AgeWithinIdle
<1>2. /\ Len(route_set) \in Nat /\ DOMAIN route_set = 1 .. Len(route_set)
      /\ \A i \in 1 .. Len(route_set) : route_set[i] \in RouteTuple(Addr, Seqno)
  BY <1>1, SetElements
<1>3. \A i \in 1 .. Len(route_set) : /\ route_set[i].R_valid_time \in Nat
                                     /\ route_set[i].R_valid_time < max_route_time
  BY <1>2, TupleFields
<1>4. \A i \in 1 .. Len(route_set) : idle[i] \in Idle
  BY <1>1, ElementOfSeq
<1> QED BY <1>1, <1>2, <1>3, <1>4, CapType DEF Idle

(* What has to be shown of the next state.                                 *)
LEMMA IdleInvNext ==
  ASSUME TypeOK', idle' \in Seq(Idle), Len(idle') = Len(route_set'),
         \A i \in 1 .. Len(route_set') : route_set'[i].R_valid_time <= idle'[i]
  PROVE  IdleInv'
<1>1. DOMAIN route_set' = 1 .. Len(route_set')
  BY SetElements DEF TypeOK
<1> QED BY <1>1 DEF IdleInv, AgeWithinIdle

(* route_add puts a tuple of age 0 at the head, its counter moves in step, *)
(* and survivors keep both.                                                *)
LEMMA IdleAfterAdd ==
  ASSUME IdleInv, TypeOK', NEW dest \in Addr, NEW nexthop \in Neighbor, NEW cost \in Cost,
         NEW seqno \in Seqno, LifeRouteAdd(dest, nexthop, cost, seqno)
  PROVE  IdleInv'
<1> DEFINE old == Replaced(route_set, dest, nexthop)
           t == route_add(route_set, dest, nexthop, cost, seqno)
           u == PushReusing(idle, old, NUM_RS_ENTRIES, 0)
<1>1. /\ route_set \in Seq(RouteTuple(Addr, Seqno)) /\ Len(route_set) <= NUM_RS_ENTRIES
      /\ nexthop \in Addr /\ cost \in 0 .. UINT8_MAX
  BY InputAssumption DEF IdleInv, TypeOK
<1>2. /\ idle \in Seq(Idle) /\ 0 \in Idle /\ NUM_RS_ENTRIES \in Nat \ {0}
      /\ Len(idle) <= NUM_RS_ENTRIES
  BY CapType, IdleInvFields, TableAssumption DEF IdleInv, Idle
<1>3. old \in 0 .. Len(idle)
  BY <1>1, ReplacedIsBest, IdleInvFields
<1>4. route_set' = t /\ idle' = u
  BY DEF LifeRouteAdd, RouteAdd
<1>5. /\ Len(t) = PushedLen(Len(route_set), old, NUM_RS_ENTRIES)
      /\ 1 <= Len(t)
      /\ t[1] = NewTuple(dest, nexthop, cost, seqno)
      /\ \A k \in 2 .. Len(t) :
           /\ Origin(old, k) \in 1 .. Len(route_set)
           /\ t[k] = route_set[Origin(old, k)]
  BY <1>1, AddElements
<1> HIDE DEF old, t
<1>6. /\ u \in Seq(Idle)
      /\ Len(u) = PushedLen(Len(idle), old, NUM_RS_ENTRIES)
      /\ u[1] = 0
      /\ \A k \in 2 .. Len(u) : u[k] = idle[Origin(old, k)]
  BY <1>2, <1>3, PushElements
<1> HIDE DEF u
<1>7. Len(u) = Len(t)
  BY <1>5, <1>6, IdleInvFields
<1>8. ASSUME NEW i \in 1 .. Len(t)
      PROVE  t[i].R_valid_time <= u[i]
  <2>1. CASE i = 1
    BY <1>5, <1>6, <2>1 DEF NewTuple
  <2>2. CASE i # 1
    <3>1. i \in 2 .. Len(t)
      BY <2>2
    <3>2. /\ t[i] = route_set[Origin(old, i)] /\ u[i] = idle[Origin(old, i)]
          /\ Origin(old, i) \in 1 .. Len(route_set)
      BY <1>5, <1>6, <1>7, <3>1
    <3> QED BY <3>2, IdleInvFields
  <2> QED BY <2>1, <2>2
<1> QED BY <1>4, <1>6, <1>7, <1>8, IdleInvNext

(* route_refresh sets an age and its counter to 0 together.                *)
LEMMA IdleAfterRefresh ==
  ASSUME IdleInv, TypeOK', NEW dest \in Addr, LifeRouteRefresh(dest)
  PROVE  IdleInv'
<1> DEFINE r == route_lookup(route_set, dest)
<1>1. route_set \in Seq(RouteTuple(Addr, Seqno)) /\ r \in 0 .. Len(route_set)
  BY LookupFinds DEF IdleInv, TypeOK
<1>2. /\ route_set' = route_refresh(route_set, r)
      /\ idle' = IF r # 0 THEN [idle EXCEPT ![r] = 0] ELSE idle
  BY DEF LifeRouteRefresh, RouteRefresh, HasRoute
<1> HIDE DEF r
<1>3. /\ Len(route_set') = Len(route_set)
      /\ \A k \in 1 .. Len(route_set) :
           route_set'[k] = IF k = r THEN [route_set[k] EXCEPT !.R_valid_time = 0]
                           ELSE route_set[k]
  <2> DEFINE t == route_refresh(route_set, r)
  <2>1. /\ Len(t) = Len(route_set)
        /\ \A k \in 1 .. Len(route_set) :
             t[k] = IF k = r THEN [route_set[k] EXCEPT !.R_valid_time = 0] ELSE route_set[k]
    BY <1>1, RefreshElements
  <2> HIDE DEF t
  <2>2. route_set' = t
    BY <1>2 DEF t
  <2> QED BY <2>1, <2>2
<1>4. CASE r = 0
  <2>1. route_set' = route_set /\ idle' = idle
    BY <1>2, <1>4 DEF route_refresh
  <2> QED BY <2>1, IdleInvFields, IdleInvNext DEF IdleInv
<1>5. CASE r # 0
  <2>1. r \in 1 .. Len(idle) /\ 0 \in Idle /\ idle \in Seq(Idle)
    BY <1>1, <1>5, IdleInvFields, CapType DEF Idle, IdleInv
  <2>2. idle' = [idle EXCEPT ![r] = 0]
    BY <1>2, <1>5
  <2>3. /\ [idle EXCEPT ![r] = 0] \in Seq(Idle)
        /\ Len([idle EXCEPT ![r] = 0]) = Len(idle)
        /\ \A j \in 1 .. Len(idle) : [idle EXCEPT ![r] = 0][j] = IF j = r THEN 0 ELSE idle[j]
    BY <2>1, ExceptSeq
  <2>4. /\ idle' \in Seq(Idle)
        /\ Len(idle') = Len(idle)
        /\ \A j \in 1 .. Len(idle) : idle'[j] = IF j = r THEN 0 ELSE idle[j]
    BY <2>2, <2>3
  <2>5. ASSUME NEW k \in 1 .. Len(route_set)
        PROVE  route_set'[k].R_valid_time <= idle'[k]
    <3>1. CASE k = r
      <4>1. route_set[k] \in RouteTuple(Addr, Seqno)
        BY <1>1, SetElements
      <4>2. route_set'[k] = [route_set[k] EXCEPT !.R_valid_time = 0]
        BY <1>3, <3>1
      <4>3. route_set'[k].R_valid_time = 0
        BY <4>1, <4>2 DEF RouteTuple
      <4> QED BY <2>4, <3>1, <4>3, IdleInvFields
    <3>2. CASE k # r
      BY <1>3, <2>4, <3>2, IdleInvFields
    <3> QED BY <3>1, <3>2
  <2>6. Len(idle') = Len(route_set')
    BY <1>3, <2>4, IdleInvFields
  <2> QED BY <1>3, <2>4, <2>5, <2>6, IdleInvNext
<1> QED BY <1>4, <1>5

(* route_remove takes a tuple and its counter out at the same position.    *)
LEMMA IdleAfterRemove ==
  ASSUME IdleInv, TypeOK', NEW dest \in Addr, LifeRouteRemove(dest)
  PROVE  IdleInv'
<1> DEFINE r == route_lookup(route_set, dest)
<1>1. route_set \in Seq(RouteTuple(Addr, Seqno)) /\ r \in 0 .. Len(route_set)
  BY LookupFinds DEF IdleInv, TypeOK
<1>2. /\ route_set' = IF r = 0 THEN route_set ELSE RemoveAt(route_set, r)
      /\ idle' = IF r = 0 THEN idle ELSE RemoveAt(idle, r)
  BY DEF LifeRouteRemove, RouteRemove, route_remove
<1> HIDE DEF r
<1>3. CASE r = 0
  BY <1>2, <1>3, IdleInvFields, IdleInvNext DEF IdleInv
<1>4. CASE r # 0
  <2>1. r \in 1 .. Len(route_set) /\ r \in 1 .. Len(idle) /\ idle \in Seq(Idle)
    BY <1>1, <1>4, IdleInvFields DEF IdleInv
  <2>2. /\ Len(RemoveAt(route_set, r)) = Len(route_set) - 1
        /\ \A k \in 1 .. Len(route_set) - 1 :
             /\ Skip(r, k) \in 1 .. Len(route_set)
             /\ RemoveAt(route_set, r)[k] = route_set[Skip(r, k)]
    BY <1>1, <2>1, RemoveAtElements
  <2>3. /\ RemoveAt(idle, r) \in Seq(Idle)
        /\ Len(RemoveAt(idle, r)) = Len(idle) - 1
        /\ \A k \in 1 .. Len(idle) - 1 : RemoveAt(idle, r)[k] = idle[Skip(r, k)]
    BY <2>1, RemoveAtElements
  <2>4. route_set' = RemoveAt(route_set, r) /\ idle' = RemoveAt(idle, r)
    BY <1>2, <1>4
  <2>5. Len(idle) = Len(route_set)
    BY IdleInvFields
  <2>6. ASSUME NEW k \in 1 .. Len(route_set')
        PROVE  route_set'[k].R_valid_time <= idle'[k]
    <3>1. /\ route_set'[k] = route_set[Skip(r, k)] /\ idle'[k] = idle[Skip(r, k)]
          /\ Skip(r, k) \in 1 .. Len(route_set)
      BY <2>2, <2>3, <2>4, <2>5
    <3> QED BY <3>1, IdleInvFields
  <2>7. idle' \in Seq(Idle) /\ Len(idle') = Len(route_set')
    BY <2>2, <2>3, <2>4, <2>5
  <2> QED BY <2>6, <2>7, IdleInvNext
<1> QED BY <1>3, <1>4

(* The one step in which the clocks run: each is one tick on, or lost a    *)
(* tick while the history counts it.                                       *)
LEMMA IdleAfterTick ==
  ASSUME IdleInv, TypeOK', LifePeriodic
  PROVE  IdleInv'
<1> DEFINE later == Later(idle, IDLE_CAP)
           m == Min(Expiring(route_set))
<1>1. /\ route_set \in Seq(RouteTuple(Addr, Seqno)) /\ route_set' = AgeRoutes(route_set)
      /\ idle \in Seq(0 .. IDLE_CAP)
      /\ idle' = Without(later, Expiring(route_set))
  BY DEF LifePeriodic, Periodic, IdleInv, TypeOK, Idle
<1>2. /\ later \in Seq(Idle) /\ Len(later) = Len(route_set)
      /\ \A k \in 1 .. Len(route_set) :
           later[k] = IF idle[k] < IDLE_CAP THEN idle[k] + 1 ELSE IDLE_CAP
  BY <1>1, LaterElements, CapType, IdleInvFields DEF Idle
<1>3. Expiring(route_set) \in SUBSET (1 .. Len(later))
  BY <1>1, <1>2, SetElements DEF Expiring
<1> HIDE DEF later
<1>4. ASSUME NEW k \in 1 .. Len(route_set)
      PROVE  /\ route_set[k].R_valid_time <= later[k]
             /\ k \notin Expiring(route_set) => Older(route_set, k).R_valid_time <= later[k]
  <2>1. /\ idle[k] \in Nat /\ route_set[k].R_valid_time \in Nat
        /\ route_set[k].R_valid_time < max_route_time
        /\ route_set[k].R_valid_time <= idle[k]
    BY IdleInvFields
  <2>2. route_set[k].R_valid_time + 1 <= later[k] /\ later[k] \in Nat
    BY <1>2, <2>1, CapType, TableAssumption
  <2>3. route_set[k] \in RouteTuple(Addr, Seqno)
    BY <1>1, SetElements
  <2>4. Older(route_set, k).R_valid_time = route_set[k].R_valid_time + 1
    BY <2>3 DEF Older, RouteTuple
  <2> QED BY <2>1, <2>2, <2>4
<1>5. CASE Expiring(route_set) = {}
  <2>1. idle' = later
    BY <1>1, <1>2, <1>3, <1>5, WithoutElements
  <2>2. /\ Len(route_set') = Len(route_set)
        /\ \A k \in 1 .. Len(route_set) : route_set'[k] = Older(route_set, k)
    BY <1>1, <1>5, AgeElements
  <2> QED BY <1>2, <1>4, <1>5, <2>1, <2>2, IdleInvNext
<1>6. CASE Expiring(route_set) # {}
  <2>1. /\ m \in 1 .. Len(route_set)
        /\ Len(route_set') = Len(route_set) - 1
        /\ \A k \in 1 .. Len(route_set) - 1 :
             route_set'[k] = IF k < m THEN Older(route_set, k) ELSE route_set[k + 1]
    BY <1>1, <1>6, AgeElements
  <2>2. /\ idle' \in Seq(Idle)
        /\ Len(idle') = Len(route_set) - 1
        /\ \A k \in 1 .. Len(route_set) - 1 : idle'[k] = later[Skip(m, k)]
    BY <1>1, <1>2, <1>3, <1>6, WithoutElements
  <2>3. \A j \in Expiring(route_set) : m <= j
    BY <1>2, <1>3, <1>6, MinIsFirst, IdleInvFields
  <2> HIDE DEF m
  <2>4. Len(route_set) \in Nat
    BY IdleInvFields
  <2>5. ASSUME NEW k \in 1 .. Len(route_set')
        PROVE  route_set'[k].R_valid_time <= idle'[k]
    <3>1. CASE k < m
      <4>1. k \in 1 .. Len(route_set) /\ k \notin Expiring(route_set)
        BY <2>1, <2>3, <2>4, <3>1
      <4>2. route_set'[k] = Older(route_set, k) /\ idle'[k] = later[k]
        BY <2>1, <2>2, <3>1 DEF Skip
      <4> QED BY <1>4, <4>1, <4>2
    <3>2. CASE ~(k < m)
      <4>1. k + 1 \in 1 .. Len(route_set)
        BY <2>1, <2>4
      <4>2. route_set'[k] = route_set[k + 1] /\ idle'[k] = later[k + 1]
        BY <2>1, <2>2, <3>2 DEF Skip
      <4> QED BY <1>4, <4>1, <4>2
    <3> QED BY <3>1, <3>2
  <2>6. Len(idle') = Len(route_set')
    BY <2>1, <2>2
  <2> QED BY <2>2, <2>5, <2>6, IdleInvNext
<1> QED BY <1>5, <1>6

(* Every step of LifeNext is a step of RouteSet.                           *)
LEMMA LifeStepsAreSteps == [LifeNext]_lifeVars => [Next]_tableVars
<1>1. LifeNext => Next
  BY DEF LifeNext, Next, LifeRouteAdd, LifeRouteRefresh, LifeRouteRemove,
         LifeBlacklistAdd, LifeBlacklistRemove, LifePeriodic, LifeReinit
<1> QED BY <1>1 DEF lifeVars, tableVars

(* Every operation on the Routing Set keeps ages within the ticks that     *)
(* have really passed.                                                     *)
LEMMA IdleInvPreserved ==
  ASSUME IdleInv, [LifeNext]_lifeVars
  PROVE  IdleInv'
<1>1. TypeOK'
  BY LifeStepsAreSteps, TypePreserved DEF IdleInv
<1>2. CASE route_set' = route_set /\ idle' = idle
  BY <1>1, <1>2, IdleInvFields, IdleInvNext DEF IdleInv
<1>3. CASE LifeReinit
  <2>1. route_set' = <<>> /\ idle' = <<>>
    BY <1>3 DEF LifeReinit, Reinit
  <2>2. idle' \in Seq(Idle) /\ Len(idle') = Len(route_set') /\ Len(route_set') = 0
    BY <2>1, EmptySeq
  <2> QED BY <1>1, <2>2, IdleInvNext
<1> QED BY <1>1, <1>2, <1>3, IdleAfterAdd, IdleAfterRefresh, IdleAfterRemove, IdleAfterTick
        DEF LifeNext, LifeBlacklistAdd, LifeBlacklistRemove, BlacklistAdd, BlacklistRemove,
            lifeVars

(* The clock of a route never runs ahead of the ticks that have passed.    *)
THEOREM ClocksNeverRunAhead == LifeSpec => []AgeWithinIdle
<1>1. LifeInit => IdleInv
  BY EmptySeq, TableAssumption, BlacklistAssumption
     DEF LifeInit, route_init, IdleInv, TypeOK, AgeWithinIdle
<1>2. IdleInv /\ [LifeNext]_lifeVars => IdleInv'
  BY IdleInvPreserved
<1>3. IdleInv => AgeWithinIdle
  BY DEF IdleInv
<1> QED BY <1>1, <1>2, <1>3, PTL DEF LifeSpec

(* No route expires before max_route_time ticks without use, whatever the  *)
(* pool, the lifetime and the calls in between.                            *)
THEOREM RoutesNeverExpireEarly == LifeSpec => NeverEarly
<1>1. LifeInit => IdleInv
  BY EmptySeq, TableAssumption, BlacklistAssumption
     DEF LifeInit, route_init, IdleInv, TypeOK, AgeWithinIdle
<1>2. IdleInv /\ [LifeNext]_lifeVars => IdleInv'
  BY IdleInvPreserved
<1>3. ASSUME IdleInv, Expiring(route_set) # {}
      PROVE  idle[Min(Expiring(route_set))] + 1 >= max_route_time
  <2> DEFINE m == Min(Expiring(route_set))
  <2>1. m \in 1 .. Len(route_set) /\ route_set[m].R_valid_time = max_route_time - 1
    BY <1>3, AgeElements DEF IdleInv, TypeOK
  <2> HIDE DEF m
  <2>2. idle[m] \in Nat /\ route_set[m].R_valid_time <= idle[m]
    BY <1>3, <2>1, IdleInvFields
  <2>3. idle[m] + 1 >= max_route_time
    BY <2>1, <2>2, TableAssumption
  <2> QED BY <2>3 DEF m
<1>4. IdleInv =>
        [LifePeriodic /\ Expiring(route_set) # {} =>
           idle[Min(Expiring(route_set))] + 1 >= max_route_time]_lifeVars
  BY <1>3
<1> QED BY <1>1, <1>2, <1>4, PTL DEF LifeSpec, NeverEarly

-----------------------------------------------------------------------------
(* What is left of a blacklist entry's counter v and the ticks s that have *)
(* been served together make up at least the term t it was added with, or  *)
(* the whole range of the clock when the term was 0 and the counter wraps. *)
Owed(v, t, s) ==
  IF t = 0 THEN v = 0 \/ v + s >= CLOCK_MAX + 1 ELSE v >= 1 /\ v + s >= t

Terms == 0 .. CLOCK_MAX
Served == 0 .. SERVED_CAP

(* The inductive invariant of the Blacklisted Neighbor Set.                *)
ServedInv ==
  /\ TypeOK
  /\ term \in Seq(Terms) /\ Len(term) = Len(blacklist_set)
  /\ served \in Seq(Served) /\ Len(served) = Len(blacklist_set)
  /\ \A i \in 1 .. Len(blacklist_set) :
       Owed(blacklist_set[i].B_valid_time, term[i], served[i])

(* The elements of the three lists that describe the entries.              *)
LEMMA ServedInvFields ==
  ASSUME ServedInv
  PROVE  /\ blacklist_set \in Seq(BlacklistTuple(Addr))
         /\ Len(blacklist_set) \in Nat /\ Len(blacklist_set) <= NUM_BLACKLIST_ENTRIES
         /\ \A i \in 1 .. Len(blacklist_set) :
              /\ blacklist_set[i] \in BlacklistTuple(Addr)
              /\ blacklist_set[i].B_valid_time \in 0 .. CLOCK_MAX
              /\ term[i] \in 0 .. CLOCK_MAX
              /\ served[i] \in 0 .. CLOCK_MAX + 1
<1>1. /\ blacklist_set \in Seq(BlacklistTuple(Addr))
      /\ Len(blacklist_set) <= NUM_BLACKLIST_ENTRIES
      /\ term \in Seq(Terms) /\ Len(term) = Len(blacklist_set)
      /\ served \in Seq(Served) /\ Len(served) = Len(blacklist_set)
  BY DEF ServedInv, TypeOK
<1>2. \A i \in 1 .. Len(blacklist_set) : term[i] \in Terms /\ served[i] \in Served
  BY <1>1, ElementOfSeq
<1> QED BY <1>1, <1>2, BlacklistFields DEF Terms, Served, SERVED_CAP

(* A new entry has served nothing and owes its whole term.                 *)
LEMMA OwedAtFirst ==
  ASSUME NEW t \in 0 .. CLOCK_MAX
  PROVE  Owed(t, t, 0)
BY BlacklistAssumption DEF Owed

(* A tick served, counted by the entry or not, leaves no more owing.       *)
LEMMA OwedLater ==
  ASSUME NEW v \in 0 .. CLOCK_MAX, NEW t \in 0 .. CLOCK_MAX,
         NEW s \in 0 .. CLOCK_MAX + 1, Owed(v, t, s)
  PROVE  LET later == IF s < SERVED_CAP THEN s + 1 ELSE SERVED_CAP
         IN  /\ later \in Served
             /\ Owed(v, t, later)
             /\ CountDown(v) # 0 => Owed(CountDown(v), t, later)
<1> DEFINE later == IF s < SERVED_CAP THEN s + 1 ELSE SERVED_CAP
<1>1. /\ later \in Nat /\ s <= later
      /\ later = s + 1 \/ later = CLOCK_MAX + 1
      /\ later <= CLOCK_MAX + 1
  BY BlacklistAssumption DEF SERVED_CAP
<1> HIDE DEF later
<1>2. later \in Served
  BY <1>1, BlacklistAssumption DEF Served, SERVED_CAP
<1>3. Owed(v, t, later)
  BY <1>1, BlacklistAssumption DEF Owed
<1>4. ASSUME CountDown(v) # 0
      PROVE  Owed(CountDown(v), t, later)
  <2>1. CASE v = 0
    <3>1. t = 0 /\ CountDown(v) = CLOCK_MAX /\ later >= 1
      BY <1>1, <2>1, BlacklistAssumption DEF Owed, CountDown
    <3> QED BY <1>1, <3>1, BlacklistAssumption DEF Owed
  <2>2. CASE v # 0
    <3>1. CountDown(v) = v - 1 /\ v - 1 >= 1
      BY <1>4, <2>2 DEF CountDown
    <3> QED BY <1>1, <2>2, <3>1, BlacklistAssumption DEF Owed
  <2> QED BY <2>1, <2>2
<1> QED BY <1>2, <1>3, <1>4 DEF later

(* route_blacklist_add pushes entry, term and served ticks alike.          *)
LEMMA ServedAfterAdd ==
  ASSUME ServedInv, TypeOK', NEW neighbor \in Addr, NEW timeout \in Timeout,
         LifeBlacklistAdd(neighbor, timeout)
  PROVE  ServedInv'
<1> DEFINE bl == blacklist_set
           e == [B_neighbor_address |-> neighbor, B_valid_time |-> timeout]
           old == route_blacklist_lookup(bl, neighbor)
           b == PushReusing(bl, old, NUM_BLACKLIST_ENTRIES, e)
           t == PushReusing(term, old, NUM_BLACKLIST_ENTRIES, timeout)
           s == PushReusing(served, old, NUM_BLACKLIST_ENTRIES, 0)
<1>1. /\ blacklist_set' = b /\ term' = t /\ served' = s
  BY DEF LifeBlacklistAdd, BlacklistAdd, route_blacklist_add
<1>2. /\ timeout \in 0 .. CLOCK_MAX /\ timeout \in Terms /\ 0 \in Served /\ NUM_BLACKLIST_ENTRIES \in Nat \ {0}
      /\ e \in BlacklistTuple(Addr) /\ e.B_valid_time = timeout
  BY InputAssumption, BlacklistAssumption DEF BlacklistTuple, Terms, Served, SERVED_CAP
<1>3. /\ bl \in Seq(BlacklistTuple(Addr)) /\ term \in Seq(Terms)
      /\ served \in Seq(Served)
      /\ Len(bl) <= NUM_BLACKLIST_ENTRIES /\ Len(term) = Len(bl) /\ Len(served) = Len(bl)
  BY ServedInvFields DEF ServedInv
<1>4. old \in 0 .. Len(bl)
  BY <1>3, BlacklistLookupFinds
<1> HIDE DEF e, old
<1>5. /\ Len(b) = PushedLen(Len(bl), old, NUM_BLACKLIST_ENTRIES)
      /\ 1 <= Len(b) /\ b[1] = e
      /\ \A k \in 2 .. Len(b) : /\ Origin(old, k) \in 1 .. Len(bl)
                                /\ b[k] = bl[Origin(old, k)]
  <2>1. bl \in Seq(BlacklistTuple(Addr)) /\ Len(bl) <= NUM_BLACKLIST_ENTRIES
    BY <1>3
  <2>2. NUM_BLACKLIST_ENTRIES \in Nat \ {0} /\ e \in BlacklistTuple(Addr)
    BY <1>2
  <2> QED BY <1>4, <2>1, <2>2, PushElements
<1> HIDE DEF bl, b, t, s
<1>5a. /\ Len(term) <= NUM_BLACKLIST_ENTRIES /\ old \in 0 .. Len(term)
       /\ Len(served) <= NUM_BLACKLIST_ENTRIES /\ old \in 0 .. Len(served)
  BY <1>3, <1>4
<1>6. /\ t \in Seq(Terms)
      /\ Len(t) = PushedLen(Len(term), old, NUM_BLACKLIST_ENTRIES) /\ t[1] = timeout
      /\ \A k \in 2 .. Len(t) : t[k] = term[Origin(old, k)]
  BY <1>2, <1>3, <1>5a, PushElements DEF t
<1>7. /\ s \in Seq(Served)
      /\ Len(s) = PushedLen(Len(served), old, NUM_BLACKLIST_ENTRIES) /\ s[1] = 0
      /\ \A k \in 2 .. Len(s) : s[k] = served[Origin(old, k)]
  BY <1>2, <1>3, <1>5a, PushElements DEF s
<1>8. ASSUME NEW i \in 1 .. Len(b)
      PROVE  Owed(b[i].B_valid_time, t[i], s[i])
  <2>1. CASE i = 1
    BY <1>2, <1>5, <1>6, <1>7, <2>1, OwedAtFirst
  <2>2. CASE i # 1
    <3>1. i \in 2 .. Len(b)
      BY <2>2
    <3>2. /\ b[i] = bl[Origin(old, i)] /\ t[i] = term[Origin(old, i)]
          /\ s[i] = served[Origin(old, i)] /\ Origin(old, i) \in 1 .. Len(bl)
      BY <1>3, <1>5, <1>6, <1>7, <3>1
    <3> QED BY <3>2 DEF ServedInv, bl
  <2> QED BY <2>1, <2>2
<1> QED BY <1>1, <1>3, <1>5, <1>6, <1>7, <1>8 DEF ServedInv

(* The removal of an entry takes its term and its served ticks with it.    *)
LEMMA ServedAfterRemove ==
  ASSUME ServedInv, TypeOK', NEW addr \in Addr, LifeBlacklistRemove(addr)
  PROVE  ServedInv'
<1> DEFINE bl == blacklist_set
           r == route_blacklist_lookup(bl, addr)
<1>1. /\ bl \in Seq(BlacklistTuple(Addr)) /\ term \in Seq(Terms)
      /\ served \in Seq(Served) /\ Len(bl) \in Nat
      /\ Len(term) = Len(bl) /\ Len(served) = Len(bl)
  BY ServedInvFields DEF ServedInv
<1>2. r \in 0 .. Len(bl)
  BY <1>1, BlacklistLookupFinds
<1>3. /\ blacklist_set' = IF r = 0 THEN bl ELSE RemoveAt(bl, r)
      /\ term' = IF r = 0 THEN term ELSE RemoveAt(term, r)
      /\ served' = IF r = 0 THEN served ELSE RemoveAt(served, r)
  BY DEF LifeBlacklistRemove, BlacklistRemove, blacklist_remove
<1> HIDE DEF r
<1>4. CASE r = 0
  BY <1>3, <1>4 DEF ServedInv
<1>5. CASE r # 0
  <2>1. r \in 1 .. Len(bl) /\ r \in 1 .. Len(term) /\ r \in 1 .. Len(served)
    BY <1>1, <1>2, <1>5
  <2>2. /\ Len(RemoveAt(bl, r)) = Len(bl) - 1
        /\ \A k \in 1 .. Len(bl) - 1 : /\ Skip(r, k) \in 1 .. Len(bl)
                                      /\ RemoveAt(bl, r)[k] = bl[Skip(r, k)]
    BY <1>1, <2>1, RemoveAtElements
  <2>3. /\ RemoveAt(term, r) \in Seq(Terms)
        /\ Len(RemoveAt(term, r)) = Len(bl) - 1
        /\ \A k \in 1 .. Len(bl) - 1 : RemoveAt(term, r)[k] = term[Skip(r, k)]
    BY <1>1, <2>1, RemoveAtElements
  <2>4. /\ RemoveAt(served, r) \in Seq(Served)
        /\ Len(RemoveAt(served, r)) = Len(bl) - 1
        /\ \A k \in 1 .. Len(bl) - 1 : RemoveAt(served, r)[k] = served[Skip(r, k)]
    BY <1>1, <2>1, RemoveAtElements
  <2>5. /\ blacklist_set' = RemoveAt(bl, r) /\ term' = RemoveAt(term, r)
        /\ served' = RemoveAt(served, r)
    BY <1>3, <1>5
  <2>6. ASSUME NEW k \in 1 .. Len(bl) - 1
        PROVE  Owed(RemoveAt(bl, r)[k].B_valid_time, RemoveAt(term, r)[k],
                    RemoveAt(served, r)[k])
    BY <2>2, <2>3, <2>4 DEF ServedInv
  <2> QED BY <2>2, <2>3, <2>4, <2>5, <2>6 DEF ServedInv
<1> QED BY <1>4, <1>5

(* The tick: every entry serves it, also those it is not counted for.      *)
LEMMA ServedAfterTick ==
  ASSUME ServedInv, TypeOK', LifePeriodic
  PROVE  ServedInv'
<1> DEFINE bl == blacklist_set
           later == Later(served, SERVED_CAP)
           m == Min(Lapsing(bl))
<1>1. /\ bl \in Seq(BlacklistTuple(Addr)) /\ Len(bl) <= NUM_BLACKLIST_ENTRIES
      /\ term \in Seq(Terms) /\ served \in Seq(0 .. SERVED_CAP)
      /\ Len(bl) \in Nat /\ DOMAIN bl = 1 .. Len(bl)
      /\ Len(term) = Len(bl) /\ Len(served) = Len(bl)
  BY ServedInvFields, BlacklistFields DEF ServedInv, Served
<1>2. /\ blacklist_set' = AgeBlacklist(bl)
      /\ served' = Without(later, Lapsing(bl)) /\ term' = Without(term, Lapsing(bl))
  BY DEF LifePeriodic, Periodic
<1>3. /\ later \in Seq(Served) /\ Len(later) = Len(bl)
      /\ \A k \in 1 .. Len(bl) :
           later[k] = IF served[k] < SERVED_CAP THEN served[k] + 1 ELSE SERVED_CAP
  <2>1. SERVED_CAP \in Nat
    BY BlacklistAssumption DEF SERVED_CAP
  <2> QED BY <1>1, <2>1, LaterElements DEF Served
<1>4. Lapsing(bl) \in SUBSET (1 .. Len(bl))
  BY <1>1 DEF Lapsing
<1>5. ASSUME NEW k \in 1 .. Len(bl)
      PROVE  /\ Owed(bl[k].B_valid_time, term[k], later[k])
             /\ k \notin Lapsing(bl) =>
                  Owed(Shorter(bl, k).B_valid_time, term[k], later[k])
  <2>1. /\ bl[k] \in BlacklistTuple(Addr)
        /\ bl[k].B_valid_time \in 0 .. CLOCK_MAX /\ term[k] \in 0 .. CLOCK_MAX
        /\ served[k] \in 0 .. CLOCK_MAX + 1
        /\ Owed(bl[k].B_valid_time, term[k], served[k])
    BY ServedInvFields DEF ServedInv
  <2>2. Shorter(bl, k).B_valid_time = CountDown(bl[k].B_valid_time)
    BY <2>1 DEF Shorter, BlacklistTuple
  <2>3. k \notin Lapsing(bl) => CountDown(bl[k].B_valid_time) # 0
    BY <1>1 DEF Lapsing
  <2> QED BY <1>3, <2>1, <2>2, <2>3, OwedLater
<1> HIDE DEF later
<1>6. CASE Lapsing(bl) = {}
  <2>1. served' = later /\ term' = term
    BY <1>1, <1>2, <1>3, <1>4, <1>6, WithoutElements
  <2>2. /\ Len(blacklist_set') = Len(bl)
        /\ \A k \in 1 .. Len(bl) : blacklist_set'[k] = Shorter(bl, k)
    BY <1>1, <1>2, <1>6, AgeBlacklistElements
  <2>3. \A k \in 1 .. Len(bl) : Owed(blacklist_set'[k].B_valid_time, term'[k], served'[k])
    BY <1>5, <1>6, <2>1, <2>2
  <2> QED BY <1>1, <1>3, <2>1, <2>2, <2>3 DEF ServedInv
<1>7. CASE Lapsing(bl) # {}
  <2>1. /\ m \in 1 .. Len(bl)
        /\ Len(blacklist_set') = Len(bl) - 1
        /\ \A k \in 1 .. Len(bl) - 1 :
             blacklist_set'[k] = IF k < m THEN Shorter(bl, k) ELSE bl[k + 1]
    <3>1. bl \in Seq(BlacklistTuple(Addr)) /\ Len(bl) <= NUM_BLACKLIST_ENTRIES
      BY <1>1
    <3>2. /\ m \in 1 .. Len(bl)
          /\ Len(AgeBlacklist(bl)) = Len(bl) - 1
          /\ \A k \in 1 .. Len(bl) - 1 :
               AgeBlacklist(bl)[k] = IF k < m THEN Shorter(bl, k) ELSE bl[k + 1]
      BY <1>7, <3>1, AgeBlacklistElements
    <3> QED BY <1>2, <3>2
  <2>2. /\ served' \in Seq(Served) /\ Len(served') = Len(bl) - 1
        /\ \A k \in 1 .. Len(bl) - 1 : served'[k] = later[Skip(m, k)]
    <3>1. later \in Seq(Served) /\ Lapsing(bl) \in SUBSET (1 .. Len(later))
      BY <1>3, <1>4
    <3>2. /\ Without(later, Lapsing(bl)) \in Seq(Served)
          /\ Len(Without(later, Lapsing(bl))) = Len(later) - 1
          /\ \A k \in 1 .. Len(later) - 1 :
               Without(later, Lapsing(bl))[k] = later[Skip(m, k)]
      BY <1>7, <3>1, WithoutElements
    <3> QED BY <1>2, <1>3, <3>2
  <2>3. /\ term' \in Seq(Terms) /\ Len(term') = Len(bl) - 1
        /\ \A k \in 1 .. Len(bl) - 1 : term'[k] = term[Skip(m, k)]
    <3>1. term \in Seq(Terms) /\ Lapsing(bl) \in SUBSET (1 .. Len(term))
      BY <1>1, <1>4
    <3>2. /\ Without(term, Lapsing(bl)) \in Seq(Terms)
          /\ Len(Without(term, Lapsing(bl))) = Len(term) - 1
          /\ \A k \in 1 .. Len(term) - 1 :
               Without(term, Lapsing(bl))[k] = term[Skip(m, k)]
      BY <1>7, <3>1, WithoutElements
    <3> QED BY <1>1, <1>2, <3>2
  <2>4. \A j \in Lapsing(bl) : m <= j
    BY <1>4, <1>7, MinIsFirst
  <2> HIDE DEF m
  <2>5. ASSUME NEW k \in 1 .. Len(bl) - 1
        PROVE  Owed(blacklist_set'[k].B_valid_time, term'[k], served'[k])
    <3>1. CASE k < m
      <4>1. k \in 1 .. Len(bl) /\ k \notin Lapsing(bl)
        BY <1>1, <2>1, <2>4, <3>1
      <4>2. /\ blacklist_set'[k] = Shorter(bl, k) /\ served'[k] = later[k]
            /\ term'[k] = term[k]
        BY <2>1, <2>2, <2>3, <3>1 DEF Skip
      <4> QED BY <1>5, <4>1, <4>2
    <3>2. CASE ~(k < m)
      <4>1. k + 1 \in 1 .. Len(bl)
        BY <1>1
      <4>2. /\ blacklist_set'[k] = bl[k + 1] /\ served'[k] = later[k + 1]
            /\ term'[k] = term[k + 1]
        BY <2>1, <2>2, <2>3, <3>2 DEF Skip
      <4> QED BY <1>5, <4>1, <4>2
    <3> QED BY <3>1, <3>2
  <2>6. \A k \in 1 .. Len(bl) - 1 : Owed(blacklist_set'[k].B_valid_time, term'[k], served'[k])
    BY <2>5
  <2>7. Len(blacklist_set') = Len(bl) - 1
    BY <2>1
  <2> HIDE DEF bl
  <2> QED BY <2>2, <2>3, <2>6, <2>7 DEF ServedInv
<1> QED BY <1>6, <1>7

(* Every operation on the Blacklisted Neighbor Set keeps what is owed.     *)
LEMMA ServedInvPreserved ==
  ASSUME ServedInv, [LifeNext]_lifeVars
  PROVE  ServedInv'
<1>1. TypeOK'
  BY LifeStepsAreSteps, TypePreserved DEF ServedInv
<1>2. CASE UNCHANGED <<blacklist_set, term, served>>
  BY <1>1, <1>2 DEF ServedInv
<1>3. CASE LifeReinit
  <2>1. blacklist_set' = <<>> /\ term' = <<>> /\ served' = <<>>
    BY <1>3 DEF LifeReinit, Reinit
  <2> QED BY <1>1, <2>1, EmptySeq DEF ServedInv
<1> QED BY <1>1, <1>2, <1>3, ServedAfterAdd, ServedAfterRemove, ServedAfterTick
        DEF LifeNext, LifeRouteAdd, LifeRouteRefresh, LifeRouteRemove, RouteAdd,
            RouteRefresh, RouteRemove, lifeVars

(* No neighbour is let in again by the timer before the ticks it was       *)
(* blacklisted for have passed, for blacklists, clocks and timeouts of any *)
(* size.                                                                   *)
THEOREM BlacklistingsAreServed == LifeSpec => NotReadmittedEarly
<1>1. LifeInit => ServedInv
  BY EmptySeq, TableAssumption, BlacklistAssumption
     DEF LifeInit, route_init, ServedInv, TypeOK
<1>2. ServedInv /\ [LifeNext]_lifeVars => ServedInv'
  BY ServedInvPreserved
<1>3. ASSUME ServedInv, Lapsing(blacklist_set) # {}
      PROVE  LET i == Min(Lapsing(blacklist_set))
             IN  served[i] + 1 >= IF term[i] = 0 THEN CLOCK_MAX + 1 ELSE term[i]
  <2> DEFINE m == Min(Lapsing(blacklist_set))
  <2>1. m \in 1 .. Len(blacklist_set) /\ blacklist_set[m].B_valid_time = 1
    BY <1>3, AgeBlacklistElements, ServedInvFields
  <2> HIDE DEF m
  <2>2. /\ term[m] \in 0 .. CLOCK_MAX /\ served[m] \in 0 .. CLOCK_MAX + 1
        /\ Owed(1, term[m], served[m])
    BY <1>3, <2>1, ServedInvFields DEF ServedInv
  <2>3. served[m] + 1 >= IF term[m] = 0 THEN CLOCK_MAX + 1 ELSE term[m]
    BY <2>2, BlacklistAssumption DEF Owed
  <2> QED BY <2>3 DEF m
<1>4. ServedInv =>
        [LifePeriodic /\ Lapsing(blacklist_set) # {} =>
           LET i == Min(Lapsing(blacklist_set))
           IN  served[i] + 1 >= IF term[i] = 0 THEN CLOCK_MAX + 1 ELSE term[i]]_lifeVars
  BY <1>3
<1> QED BY <1>1, <1>2, <1>4, PTL DEF LifeSpec, NotReadmittedEarly

-----------------------------------------------------------------------------
(* How late a route can be.  A route loses a tick whenever the timer takes *)
(* out a route in front of it.  A route that has been unused as long or    *)
(* longer can do that before this one is due, a younger one only when this *)
(* one is overdue, and new routes come in at the front.  So as long as a   *)
(* route is not overdue, the ticks it has lost and the routes in front of  *)
(* it that are not younger are together fewer than the pool; and once it   *)
(* is, those in front of it that were there when its time was up come on   *)
(* top of that.                                                            *)
InFront(s, i, x) == {j \in 1 .. i - 1 : s[j] >= x}

Since(d) == IF d <= max_route_time THEN d ELSE d - max_route_time

Limit(d) ==
  IF d <= max_route_time THEN NUM_RS_ENTRIES - 1 ELSE 2 * (NUM_RS_ENTRIES - 1)

Prompt(rs, ds, i) ==
  ds[i] - rs[i].R_valid_time + Cardinality(InFront(ds, i, Since(ds[i]))) <= Limit(ds[i])

SmallPool == 2 * (NUM_RS_ENTRIES - 1) <= max_route_time

PromptInv ==
  /\ IdleInv
  /\ SmallPool => \A i \in 1 .. Len(route_set) : Prompt(route_set, idle, i)

(* No more routes are in front of a place than there are places.           *)
LEMMA InFrontCount ==
  ASSUME NEW s, NEW i \in Nat \ {0}, NEW x
  PROVE  /\ IsFiniteSet(InFront(s, i, x))
         /\ Cardinality(InFront(s, i, x)) \in Nat
         /\ Cardinality(InFront(s, i, x)) <= i - 1
<1>1. IsFiniteSet(1 .. i - 1) /\ Cardinality(1 .. i - 1) = i - 1
  <2>1. 1 \in Int /\ i - 1 \in Int
    OBVIOUS
  <2>2. /\ IsFiniteSet(1 .. i - 1)
        /\ Cardinality(1 .. i - 1) = IF 1 > i - 1 THEN 0 ELSE i - 1 - 1 + 1
    BY <2>1, FS_Interval
  <2> QED BY <2>2
<1>2. InFront(s, i, x) \in SUBSET (1 .. i - 1)
  BY DEF InFront
<1>3. /\ IsFiniteSet(InFront(s, i, x))
      /\ Cardinality(InFront(s, i, x)) <= Cardinality(1 .. i - 1)
  BY <1>1, <1>2, FS_Subset
<1> QED BY <1>1, <1>3, FS_CardinalityType

(* Routes that all stood in front before are not more than there were, and *)
(* fewer when one of those is not among them.                              *)
LEMMA FewerInFront ==
  ASSUME NEW s, NEW i \in Nat \ {0}, NEW y, NEW t, NEW k \in Nat \ {0}, NEW x, NEW f,
         \A j \in InFront(t, k, x) : f[j] \in InFront(s, i, y),
         \A j, l \in InFront(t, k, x) : f[j] = f[l] => j = l
  PROVE  /\ Cardinality(InFront(t, k, x)) <= Cardinality(InFront(s, i, y))
         /\ \A e \in InFront(s, i, y) :
              (\A j \in InFront(t, k, x) : f[j] # e) =>
                Cardinality(InFront(t, k, x)) + 1 <= Cardinality(InFront(s, i, y))
<1> DEFINE after == InFront(t, k, x)
           before == InFront(s, i, y)
           g == [j \in after |-> f[j]]
<1>1. /\ IsFiniteSet(before) /\ Cardinality(before) \in Nat
      /\ Cardinality(after) \in Nat
  BY InFrontCount
<1> HIDE DEF after, before
<1>2. g \in Injection(after, before)
  <2>1. g \in [after -> before]
    BY DEF after, before
  <2>2. \A j, l \in after : g[j] = g[l] => j = l
    BY DEF after
  <2> QED BY <2>1, <2>2 DEF Injection, IsInjective
<1>3. /\ Cardinality(after) <= Cardinality(before)
      /\ Cardinality(after) = Cardinality(before) <=> g \in Surjection(after, before)
  BY <1>1, <1>2, FS_Injection
<1>4. ASSUME NEW e \in before, \A j \in after : f[j] # e
      PROVE  Cardinality(after) + 1 <= Cardinality(before)
  <2>1. g \notin Surjection(after, before)
    BY <1>4 DEF Surjection
  <2> QED BY <1>1, <1>3, <2>1
<1> QED BY <1>3, <1>4 DEF after, before

(* A list that has lost an element: in front of a place behind the lost    *)
(* one, there is one fewer, when the lost one counted.                     *)
LEMMA InFrontWithout ==
  ASSUME NEW s, NEW t, NEW n \in Nat, NEW r \in 1 .. n, NEW i \in 1 .. n - 1, NEW x, NEW y,
         \A j \in 1 .. i - 1 : t[j] >= x => s[Skip(r, j)] >= y
  PROVE  /\ Cardinality(InFront(t, i, x)) <= Cardinality(InFront(s, Skip(r, i), y))
         /\ r <= i /\ s[r] >= y =>
              Cardinality(InFront(t, i, x)) + 1 <= Cardinality(InFront(s, Skip(r, i), y))
<1> DEFINE f == [j \in 1 .. n |-> Skip(r, j)]
<1>1. \A j \in 1 .. i - 1 : f[j] = Skip(r, j)
  OBVIOUS
<1> HIDE DEF f
<1>2. i \in Nat \ {0} /\ Skip(r, i) \in Nat \ {0}
  BY DEF Skip
<1>3. ASSUME NEW j \in InFront(t, i, x)
      PROVE  /\ j \in 1 .. i - 1
             /\ f[j] \in InFront(s, Skip(r, i), y)
             /\ f[j] # r
  <2>1. j \in 1 .. i - 1 /\ t[j] >= x
    BY DEF InFront
  <2>2. Skip(r, j) \in 1 .. Skip(r, i) - 1 /\ Skip(r, j) # r
    BY <2>1 DEF Skip
  <2> QED BY <1>1, <2>1, <2>2 DEF InFront
<1>4. ASSUME NEW j \in InFront(t, i, x), NEW l \in InFront(t, i, x), f[j] = f[l]
      PROVE  j = l
  <2>1. j \in 1 .. i - 1 /\ l \in 1 .. i - 1 /\ Skip(r, j) = Skip(r, l)
    BY <1>1, <1>3, <1>4
  <2> QED BY <2>1 DEF Skip
<1>5. r <= i /\ s[r] >= y => r \in InFront(s, Skip(r, i), y)
  BY DEF InFront, Skip
<1> QED BY <1>2, <1>3, <1>4, <1>5, FewerInFront

(* The list after a push: when the new element does not count, those that  *)
(* do stood in front before.                                               *)
LEMMA InFrontPushed ==
  ASSUME NEW s, NEW t, NEW n \in Nat, NEW old \in 0 .. n, NEW i \in Nat, i >= 2, NEW x,
         ~(t[1] >= x),
         \A j \in 2 .. i : /\ Origin(old, j) \in 1 .. n
                          /\ t[j] = s[Origin(old, j)]
  PROVE  Cardinality(InFront(t, i, x)) <= Cardinality(InFront(s, Origin(old, i), x))
<1> DEFINE f == [j \in 2 .. i |-> Origin(old, j)]
<1>1. \A j \in 2 .. i : f[j] = Origin(old, j)
  OBVIOUS
<1> HIDE DEF f
<1>2. i \in Nat \ {0} /\ Origin(old, i) \in Nat \ {0}
  BY DEF Origin
<1>3. ASSUME NEW j \in InFront(t, i, x)
      PROVE  j \in 2 .. i /\ f[j] \in InFront(s, Origin(old, i), x)
  <2>1. j \in 2 .. i - 1 /\ t[j] >= x
    BY DEF InFront
  <2>2. Origin(old, j) \in 1 .. Origin(old, i) - 1
    BY <2>1 DEF Origin
  <2> QED BY <1>1, <2>1, <2>2 DEF InFront
<1>4. ASSUME NEW j \in InFront(t, i, x), NEW l \in InFront(t, i, x), f[j] = f[l]
      PROVE  j = l
  <2>1. j \in 2 .. i /\ l \in 2 .. i /\ Origin(old, j) = Origin(old, l)
    BY <1>1, <1>3, <1>4
  <2> QED BY <2>1 DEF Origin
<1> QED BY <1>2, <1>3, <1>4, FewerInFront

(* A list whose elements keep their places.                                *)
LEMMA InFrontSame ==
  ASSUME NEW s, NEW t, NEW i \in Nat \ {0}, NEW x, NEW y,
         \A j \in 1 .. i - 1 : t[j] >= x => s[j] >= y
  PROVE  Cardinality(InFront(t, i, x)) <= Cardinality(InFront(s, i, y))
<1>1. InFront(t, i, x) \in SUBSET InFront(s, i, y)
  BY DEF InFront
<1> QED BY <1>1, InFrontCount, FS_Subset

(* A route that has just been used is prompt wherever it stands.           *)
LEMMA PromptWhenUsed ==
  ASSUME NEW rs, NEW ds, NEW i \in 1 .. NUM_RS_ENTRIES,
         ds[i] = 0, rs[i].R_valid_time \in Nat
  PROVE  Prompt(rs, ds, i)
<1>1. NUM_RS_ENTRIES \in Nat /\ i \in Nat \ {0}
  BY TableAssumption
<1>2. Since(ds[i]) = 0 /\ Limit(ds[i]) = NUM_RS_ENTRIES - 1
  BY TableAssumption DEF Since, Limit
<1> DEFINE c == Cardinality(InFront(ds, i, 0))
<1>3. c \in Nat /\ c <= i - 1
  BY <1>1, InFrontCount
<1> HIDE DEF c
<1>4. ds[i] - rs[i].R_valid_time + c <= NUM_RS_ENTRIES - 1
  BY <1>1, <1>3
<1> QED BY <1>2, <1>4 DEF Prompt, c

(* A route stays prompt with the same clocks and no more in front of it.   *)
LEMMA PromptWhenKept ==
  ASSUME NEW rs, NEW ds, NEW i \in Nat \ {0}, Prompt(rs, ds, i),
         NEW rt, NEW dt, NEW k \in Nat \ {0},
         dt[k] = ds[i], rt[k].R_valid_time = rs[i].R_valid_time,
         ds[i] \in Nat, rs[i].R_valid_time \in Nat,
         Cardinality(InFront(dt, k, Since(ds[i]))) <= Cardinality(InFront(ds, i, Since(ds[i])))
  PROVE  Prompt(rt, dt, k)
<1> DEFINE b == Cardinality(InFront(ds, i, Since(ds[i])))
           c == Cardinality(InFront(dt, k, Since(ds[i])))
<1>1. b \in Nat /\ c \in Nat /\ c <= b /\ Limit(ds[i]) \in Int
  BY InFrontCount, TableAssumption DEF Limit
<1>2. ds[i] - rs[i].R_valid_time + b <= Limit(ds[i])
  BY DEF Prompt
<1> HIDE DEF b, c
<1>3. dt[k] - rt[k].R_valid_time + c <= Limit(dt[k])
  BY <1>1, <1>2
<1> QED BY <1>3 DEF Prompt, c

(* The history counters never come near their cap, and no route in front   *)
(* that expires is counted out.                                            *)
LEMMA PromptBounds ==
  ASSUME SmallPool, NEW rs, NEW ds, NEW i \in Nat \ {0}, Prompt(rs, ds, i),
         ds[i] \in Nat, rs[i].R_valid_time \in Nat, rs[i].R_valid_time < max_route_time
  PROVE  /\ ds[i] < max_route_time + 2 * (NUM_RS_ENTRIES - 1)
         /\ ds[i] < IDLE_CAP
         /\ ds[i] # max_route_time => Since(ds[i]) <= max_route_time - 1
<1> DEFINE b == Cardinality(InFront(ds, i, Since(ds[i])))
<1>1. b \in Nat
  BY InFrontCount
<1>2. ds[i] - rs[i].R_valid_time + b <= Limit(ds[i])
  BY DEF Prompt
<1> HIDE DEF b
<1>3. Limit(ds[i]) <= 2 * (NUM_RS_ENTRIES - 1) /\ Limit(ds[i]) \in Int
  BY TableAssumption DEF Limit
<1>4. ds[i] < max_route_time + 2 * (NUM_RS_ENTRIES - 1)
  BY <1>1, <1>2, <1>3, TableAssumption
<1> QED BY <1>4, TableAssumption DEF IDLE_CAP, Since, SmallPool

(* One tick later, a route that was made older is prompt when those in     *)
(* front of it are as many as before, and one that was not, when they are  *)
(* fewer.  At the moment its time is up all count that are in front of it. *)
LEMMA PromptAfterTick ==
  ASSUME SmallPool, NEW rs, NEW ds, NEW i \in Nat \ {0}, i <= NUM_RS_ENTRIES, Prompt(rs, ds, i),
         ds[i] \in Nat, rs[i].R_valid_time \in Nat,
         NEW rt, NEW dt, NEW k \in Nat \ {0}, dt[k] = ds[i] + 1,
         LET b == Cardinality(InFront(ds, i, Since(ds[i])))
             c == Cardinality(InFront(dt, k, Since(ds[i] + 1)))
         IN  \/ /\ rt[k].R_valid_time = rs[i].R_valid_time + 1 /\ k = i
                /\ ds[i] # max_route_time => c <= b
             \/ /\ rt[k].R_valid_time = rs[i].R_valid_time /\ k = i - 1
                /\ ds[i] # max_route_time => c + 1 <= b
  PROVE  Prompt(rt, dt, k)
<1> DEFINE b == Cardinality(InFront(ds, i, Since(ds[i])))
           c == Cardinality(InFront(dt, k, Since(ds[i] + 1)))
           d == ds[i]
           v == rs[i].R_valid_time
           w == rt[k].R_valid_time
<1>1. b \in Nat /\ c \in Nat /\ c <= k - 1
  BY InFrontCount
<1>2. d - v + b <= Limit(d)
  BY DEF Prompt
<1>3. \/ w = v + 1 /\ k = i /\ (d # max_route_time => c <= b)
      \/ w = v /\ k = i - 1 /\ (d # max_route_time => c + 1 <= b)
  OBVIOUS
<1>4. d \in Nat /\ v \in Nat
  OBVIOUS
<1>5. dt[k] = d + 1
  OBVIOUS
<1> HIDE DEF b, c, d, v, w
<1>6. d + 1 - w + c <= Limit(d + 1)
  <2>1. CASE d = max_route_time
    <3>1. Limit(d) = NUM_RS_ENTRIES - 1 /\ Limit(d + 1) = 2 * (NUM_RS_ENTRIES - 1)
      BY <2>1, TableAssumption DEF Limit
    <3> QED BY <1>1, <1>2, <1>3, <1>4, <3>1, TableAssumption
  <2>2. CASE d # max_route_time
    <3>1. Limit(d) = Limit(d + 1) /\ Limit(d) \in Int
      BY <1>4, <2>2, TableAssumption DEF Limit
    <3> QED BY <1>1, <1>2, <1>3, <1>4, <2>2, <3>1
  <2> QED BY <2>1, <2>2
<1> QED BY <1>5, <1>6 DEF Prompt, c, d, w

(* route_add: the new route, and those behind it as they were.             *)
LEMMA PromptAfterAdd ==
  ASSUME PromptInv, SmallPool, NEW dest \in Addr, NEW nexthop \in Neighbor, NEW cost \in Cost,
         NEW seqno \in Seqno, LifeRouteAdd(dest, nexthop, cost, seqno)
  PROVE  \A i \in 1 .. Len(route_set') : Prompt(route_set', idle', i)
<1> DEFINE n == Len(route_set)
           old == Replaced(route_set, dest, nexthop)
           t == route_add(route_set, dest, nexthop, cost, seqno)
           u == PushReusing(idle, old, NUM_RS_ENTRIES, 0)
<1>1. /\ route_set \in Seq(RouteTuple(Addr, Seqno)) /\ n \in Nat /\ n <= NUM_RS_ENTRIES
      /\ nexthop \in Addr /\ cost \in 0 .. UINT8_MAX
      /\ idle \in Seq(Idle) /\ 0 \in Idle /\ Len(idle) = n
      /\ NUM_RS_ENTRIES \in Nat \ {0}
  BY InputAssumption, IdleInvFields, CapType, TableAssumption DEF PromptInv, IdleInv, Idle
<1>2. old \in 0 .. n
  BY <1>1, ReplacedIsBest
<1>3. route_set' = t /\ idle' = u
  BY DEF LifeRouteAdd, RouteAdd
<1> HIDE DEF n
<1>4. /\ t \in Seq(RouteTuple(Addr, Seqno))
      /\ Len(t) = PushedLen(Len(route_set), old, NUM_RS_ENTRIES)
      /\ Len(t) <= NUM_RS_ENTRIES
      /\ t[1] = NewTuple(dest, nexthop, cost, seqno)
      /\ \A k \in 2 .. Len(t) : /\ Origin(old, k) \in 1 .. Len(route_set)
                               /\ t[k] = route_set[Origin(old, k)]
  BY <1>1, AddElements DEF n
<1> HIDE DEF t, old
<1>a. /\ idle \in Seq(Idle) /\ 0 \in Idle /\ NUM_RS_ENTRIES \in Nat \ {0}
      /\ Len(idle) <= NUM_RS_ENTRIES /\ old \in 0 .. Len(idle)
  BY <1>1, <1>2
<1>5. /\ u \in Seq(Idle)
      /\ Len(u) = PushedLen(Len(idle), old, NUM_RS_ENTRIES)
      /\ u[1] = 0
      /\ \A k \in 2 .. Len(u) : u[k] = idle[Origin(old, k)]
  BY <1>a, PushElements
<1> HIDE DEF u
<1>6. /\ Len(t) \in Nat /\ Len(u) = Len(t) /\ t[1].R_valid_time = 0
  BY <1>1, <1>4, <1>5, SetElements DEF NewTuple, n
<1>7. ASSUME NEW i \in 1 .. Len(t)
      PROVE  Prompt(t, u, i)
  <2>0. i \in 1 .. NUM_RS_ENTRIES /\ i \in Nat \ {0}
    BY <1>1, <1>4, <1>6
  <2>1. CASE i = 1
    BY <1>5, <1>6, <2>0, <2>1, PromptWhenUsed
  <2>2. CASE i # 1
    <3> DEFINE o == Origin(old, i)
    <3>1. i \in 2 .. Len(t)
      BY <2>2
    <3>2. o \in 1 .. n /\ t[i] = route_set[o] /\ u[i] = idle[o]
      BY <1>4, <1>5, <1>6, <3>1 DEF n
    <3>3. /\ idle[o] \in Nat /\ route_set[o].R_valid_time \in Nat
          /\ Prompt(route_set, idle, o)
      BY <3>2, IdleInvFields DEF PromptInv, n
    <3>4. CASE idle[o] = 0
      BY <2>0, <3>2, <3>3, <3>4, PromptWhenUsed
    <3>5. CASE idle[o] # 0
      <4>1. Since(idle[o]) >= 1 /\ Since(idle[o]) \in Nat
        BY <3>3, <3>5, TableAssumption DEF Since
      <4>2. ~(u[1] >= Since(idle[o]))
        BY <1>5, <4>1
      <4>3. \A j \in 2 .. i : Origin(old, j) \in 1 .. n /\ u[j] = idle[Origin(old, j)]
        BY <1>4, <1>5, <1>6, <3>1 DEF n
      <4>4. i \in Nat /\ i >= 2
        BY <3>1
      <4>5. Cardinality(InFront(u, i, Since(idle[o]))) <= Cardinality(InFront(idle, o, Since(idle[o])))
        BY <1>1, <1>2, <4>2, <4>3, <4>4, InFrontPushed
      <4> HIDE DEF o
      <4>6. o \in Nat \ {0}
        BY <1>1, <3>2
      <4> QED BY <2>0, <3>2, <3>3, <4>5, <4>6, PromptWhenKept
    <3> QED BY <3>4, <3>5
  <2> QED BY <2>1, <2>2
<1> QED BY <1>3, <1>7

(* route_refresh: the route itself, and those that keep their places.      *)
LEMMA PromptAfterRefresh ==
  ASSUME PromptInv, SmallPool, NEW dest \in Addr, LifeRouteRefresh(dest)
  PROVE  \A i \in 1 .. Len(route_set') : Prompt(route_set', idle', i)
<1> DEFINE n == Len(route_set)
           r == route_lookup(route_set, dest)
<1>0. route_set \in Seq(RouteTuple(Addr, Seqno)) /\ r \in 0 .. Len(route_set)
  BY LookupFinds DEF PromptInv, IdleInv, TypeOK
<1>1. /\ route_set \in Seq(RouteTuple(Addr, Seqno)) /\ r \in 0 .. n
      /\ n \in Nat /\ n <= NUM_RS_ENTRIES /\ Len(idle) = n /\ idle \in Seq(Idle)
  BY <1>0, IdleInvFields DEF PromptInv, IdleInv
<1>2. /\ route_set' = route_refresh(route_set, r)
      /\ idle' = IF r # 0 THEN [idle EXCEPT ![r] = 0] ELSE idle
  BY DEF LifeRouteRefresh, RouteRefresh, HasRoute
<1> HIDE DEF r, n
<1>3. /\ Len(route_set') = Len(route_set)
      /\ \A k \in 1 .. Len(route_set) :
           route_set'[k] = IF k = r THEN [route_set[k] EXCEPT !.R_valid_time = 0]
                           ELSE route_set[k]
  <2> DEFINE t == route_refresh(route_set, r)
  <2>1. /\ Len(t) = Len(route_set)
        /\ \A k \in 1 .. Len(route_set) :
             t[k] = IF k = r THEN [route_set[k] EXCEPT !.R_valid_time = 0] ELSE route_set[k]
    BY <1>0, RefreshElements
  <2> HIDE DEF t
  <2>2. route_set' = t
    BY <1>2 DEF t
  <2> QED BY <2>1, <2>2
<1>4. \A j \in 1 .. n : idle'[j] = IF j = r THEN 0 ELSE idle[j]
  <2>1. CASE r = 0
    BY <1>2, <2>1
  <2>2. CASE r # 0
    <3>1. r \in 1 .. Len(idle) /\ 0 \in Idle
      BY <1>1, <2>2, CapType DEF Idle
    <3> QED BY <1>1, <1>2, <2>2, <3>1, ExceptSeq
  <2> QED BY <2>1, <2>2
<1>5. ASSUME NEW i \in 1 .. n
      PROVE  Prompt(route_set', idle', i)
  <2>1. /\ idle[i] \in Nat /\ route_set[i].R_valid_time \in Nat
        /\ Prompt(route_set, idle, i)
        /\ i \in 1 .. NUM_RS_ENTRIES /\ i \in Nat \ {0}
    BY <1>1, IdleInvFields, TableAssumption DEF PromptInv, n
  <2>2. CASE i = r
    <3>1. route_set[i] \in RouteTuple(Addr, Seqno)
      BY <1>1, SetElements DEF n
    <3>2. route_set'[i] = [route_set[i] EXCEPT !.R_valid_time = 0]
      BY <1>3, <2>2 DEF n
    <3>3. route_set'[i].R_valid_time = 0 /\ idle'[i] = 0
      BY <1>4, <2>2, <3>1, <3>2 DEF RouteTuple
    <3> QED BY <2>1, <3>3, PromptWhenUsed
  <2>3. CASE i # r
    <3>1. route_set'[i] = route_set[i] /\ idle'[i] = idle[i]
      BY <1>3, <1>4, <2>3 DEF n
    <3>2. ASSUME NEW j \in 1 .. i - 1, idle'[j] >= Since(idle[i])
          PROVE  idle[j] >= Since(idle[i])
      <4>1. j \in 1 .. n /\ idle[j] \in Nat /\ Since(idle[i]) \in Nat
        BY <1>1, <2>1, IdleInvFields, TableAssumption DEF PromptInv, Since, n
      <4>2. idle'[j] = 0 \/ idle'[j] = idle[j]
        BY <1>4, <4>1
      <4> QED BY <3>2, <4>1, <4>2
    <3>3. Cardinality(InFront(idle', i, Since(idle[i]))) <= Cardinality(InFront(idle, i, Since(idle[i])))
      BY <2>1, <3>2, InFrontSame
    <3> QED BY <2>1, <3>1, <3>3, PromptWhenKept
  <2> QED BY <2>2, <2>3
<1> QED BY <1>3, <1>5 DEF n

(* route_remove: those that stay have the same or fewer in front.          *)
LEMMA PromptAfterRemove ==
  ASSUME PromptInv, SmallPool, NEW dest \in Addr, LifeRouteRemove(dest)
  PROVE  \A i \in 1 .. Len(route_set') : Prompt(route_set', idle', i)
<1> DEFINE n == Len(route_set)
           r == route_lookup(route_set, dest)
<1>1. /\ route_set \in Seq(RouteTuple(Addr, Seqno)) /\ r \in 0 .. n
      /\ n \in Nat /\ Len(idle) = n /\ idle \in Seq(Idle)
  BY LookupFinds, IdleInvFields DEF PromptInv, IdleInv, TypeOK
<1>2. /\ route_set' = IF r = 0 THEN route_set ELSE RemoveAt(route_set, r)
      /\ idle' = IF r = 0 THEN idle ELSE RemoveAt(idle, r)
  BY DEF LifeRouteRemove, RouteRemove, route_remove
<1> HIDE DEF r
<1>3. CASE r = 0
  BY <1>2, <1>3 DEF PromptInv
<1>4. CASE r # 0
  <2>1. r \in 1 .. n /\ r \in 1 .. Len(idle)
    BY <1>1, <1>4
  <2>2. /\ Len(route_set') = n - 1
        /\ \A k \in 1 .. n - 1 : /\ Skip(r, k) \in 1 .. n
                                /\ route_set'[k] = route_set[Skip(r, k)]
    <3>1. /\ Len(RemoveAt(route_set, r)) = n - 1
          /\ \A k \in 1 .. n - 1 : /\ Skip(r, k) \in 1 .. n
                                  /\ RemoveAt(route_set, r)[k] = route_set[Skip(r, k)]
      <4>1. route_set \in Seq(RouteTuple(Addr, Seqno)) /\ r \in 1 .. Len(route_set)
        BY <1>1, <2>1
      <4> QED BY <4>1, RemoveAtElements
    <3> QED BY <1>2, <1>4, <3>1
  <2>3. \A k \in 1 .. n - 1 : idle'[k] = idle[Skip(r, k)]
    <3>1. \A k \in 1 .. Len(idle) - 1 : RemoveAt(idle, r)[k] = idle[Skip(r, k)]
      <4>1. idle \in Seq(Idle)
        BY <1>1
      <4> QED BY <2>1, <4>1, RemoveAtElements
    <3> QED BY <1>1, <1>2, <1>4, <3>1
  <2> HIDE DEF n
  <2>4. ASSUME NEW i \in 1 .. n - 1
        PROVE  Prompt(route_set', idle', i)
    <3> DEFINE o == Skip(r, i)
    <3>1. o \in 1 .. n /\ route_set'[i] = route_set[o] /\ idle'[i] = idle[o]
      BY <2>2, <2>3
    <3>2. /\ idle[o] \in Nat /\ route_set[o].R_valid_time \in Nat
          /\ Prompt(route_set, idle, o)
      BY <3>1, IdleInvFields DEF PromptInv, n
    <3>3. \A j \in 1 .. i - 1 : idle'[j] >= Since(idle[o]) => idle[Skip(r, j)] >= Since(idle[o])
      BY <1>1, <2>3
    <3>4. Cardinality(InFront(idle', i, Since(idle[o]))) <= Cardinality(InFront(idle, o, Since(idle[o])))
      BY <1>1, <2>1, <3>3, InFrontWithout
    <3> HIDE DEF o
    <3>5. i \in Nat \ {0} /\ o \in Nat \ {0}
      BY <1>1, <3>1
    <3> QED BY <3>1, <3>2, <3>4, <3>5, PromptWhenKept
  <2> QED BY <2>2, <2>4
<1> QED BY <1>3, <1>4

(* The tick: without an expiry every route is made older; with one, the    *)
(* routes behind the one that is taken out lose the tick, and one of the   *)
(* routes in front of them.                                                *)
LEMMA PromptAfterPeriodic ==
  ASSUME PromptInv, SmallPool, LifePeriodic
  PROVE  \A i \in 1 .. Len(route_set') : Prompt(route_set', idle', i)
<1> DEFINE n == Len(route_set)
           later == Later(idle, IDLE_CAP)
           m == Min(Expiring(route_set))
<1>1. /\ route_set \in Seq(RouteTuple(Addr, Seqno)) /\ route_set' = AgeRoutes(route_set)
      /\ idle \in Seq(0 .. IDLE_CAP) /\ IDLE_CAP \in Nat
      /\ idle' = Without(later, Expiring(route_set))
  BY CapType DEF LifePeriodic, Periodic, PromptInv, IdleInv, TypeOK, Idle
<1>2. n \in Nat /\ n <= NUM_RS_ENTRIES /\ Len(idle) = n
  BY IdleInvFields DEF PromptInv
<1>3. ASSUME NEW i \in 1 .. n
      PROVE  /\ i \in Nat \ {0} /\ i <= NUM_RS_ENTRIES
             /\ idle[i] \in Nat /\ route_set[i].R_valid_time \in Nat
             /\ route_set[i].R_valid_time < max_route_time
             /\ route_set[i].R_valid_time <= idle[i]
             /\ Prompt(route_set, idle, i)
             /\ idle[i] < IDLE_CAP
             /\ Since(idle[i]) \in Nat
             /\ idle[i] # max_route_time =>
                  /\ Since(idle[i]) <= max_route_time - 1
                  /\ Since(idle[i] + 1) = Since(idle[i]) + 1
             /\ Older(route_set, i).R_valid_time = route_set[i].R_valid_time + 1
  <2>1. /\ i \in Nat \ {0} /\ i <= NUM_RS_ENTRIES
        /\ idle[i] \in Nat /\ route_set[i].R_valid_time \in Nat
        /\ route_set[i].R_valid_time < max_route_time
        /\ route_set[i].R_valid_time <= idle[i]
        /\ Prompt(route_set, idle, i)
    BY <1>2, IdleInvFields, TableAssumption DEF PromptInv
  <2>2. /\ idle[i] < IDLE_CAP
        /\ idle[i] # max_route_time => Since(idle[i]) <= max_route_time - 1
    BY <2>1, PromptBounds
  <2>3. /\ Since(idle[i]) \in Nat
        /\ idle[i] # max_route_time => Since(idle[i] + 1) = Since(idle[i]) + 1
    BY <2>1, TableAssumption DEF Since
  <2>4. route_set[i] \in RouteTuple(Addr, Seqno)
    BY <1>1, SetElements
  <2>5. Older(route_set, i).R_valid_time = route_set[i].R_valid_time + 1
    BY <2>4 DEF Older, RouteTuple
  <2> QED BY <2>1, <2>2, <2>3, <2>5
<1>4. later \in Seq(0 .. IDLE_CAP) /\ Len(later) = Len(idle)
  BY <1>1, LaterElements
<1>5. \A k \in 1 .. n : later[k] = idle[k] + 1
  <2>1. \A k \in 1 .. Len(idle) :
          later[k] = IF idle[k] < IDLE_CAP THEN idle[k] + 1 ELSE IDLE_CAP
    BY <1>1, LaterElements
  <2> QED BY <1>2, <1>3, <2>1
<1>6. Expiring(route_set) \in SUBSET (1 .. Len(later))
  BY <1>1, <1>2, <1>4, SetElements DEF Expiring
<1> HIDE DEF later, n
<1>7. CASE Expiring(route_set) = {}
  <2>1. idle' = later
    BY <1>1, <1>4, <1>6, <1>7, WithoutElements
  <2>2. /\ Len(route_set') = n
        /\ \A k \in 1 .. n : route_set'[k] = Older(route_set, k)
    BY <1>1, <1>7, AgeElements DEF n
  <2>3. ASSUME NEW i \in 1 .. n
        PROVE  Prompt(route_set', idle', i)
    <3> DEFINE b == Cardinality(InFront(idle, i, Since(idle[i])))
               c == Cardinality(InFront(idle', i, Since(idle[i] + 1)))
    <3>1. ASSUME idle[i] # max_route_time
          PROVE  c <= b
      <4>1. ASSUME NEW j \in 1 .. i - 1, idle'[j] >= Since(idle[i] + 1)
            PROVE  idle[j] >= Since(idle[i])
        <5>1. j \in 1 .. n /\ idle'[j] = idle[j] + 1
          BY <1>2, <1>5, <2>1
        <5> QED BY <1>3, <3>1, <4>1, <5>1
      <4>2. i \in Nat \ {0}
        BY <1>3
      <4> QED BY <4>1, <4>2, InFrontSame
    <3>2. idle'[i] = idle[i] + 1 /\ route_set'[i].R_valid_time = route_set[i].R_valid_time + 1
      BY <1>3, <1>5, <2>1, <2>2
    <3> QED BY <1>3, <3>1, <3>2, PromptAfterTick
  <2> QED BY <2>2, <2>3
<1>8. CASE Expiring(route_set) # {}
  <2>1. /\ m \in 1 .. n
        /\ route_set[m].R_valid_time = max_route_time - 1
        /\ Len(route_set') = n - 1
        /\ \A k \in 1 .. n - 1 :
             route_set'[k] = IF k < m THEN Older(route_set, k) ELSE route_set[k + 1]
    BY <1>1, <1>8, AgeElements DEF n
  <2>2. \A k \in 1 .. n - 1 : idle'[k] = later[Skip(m, k)]
    <3>1. later \in Seq(0 .. IDLE_CAP)
      BY <1>4
    <3>2. \A k \in 1 .. Len(later) - 1 :
            Without(later, Expiring(route_set))[k] = later[Skip(m, k)]
      BY <1>6, <1>8, <3>1, WithoutElements
    <3> QED BY <1>1, <1>2, <1>4, <3>2
  <2>3. idle[m] >= max_route_time - 1
    BY <1>3, <2>1
  <2> HIDE DEF m
  <2>4. \A k \in 1 .. n - 1 : Skip(m, k) \in 1 .. n /\ idle'[k] = idle[Skip(m, k)] + 1
    <3> SUFFICES ASSUME NEW k \in 1 .. n - 1
                 PROVE  Skip(m, k) \in 1 .. n /\ idle'[k] = idle[Skip(m, k)] + 1
      OBVIOUS
    <3>1. Skip(m, k) \in 1 .. n
      BY <1>2, <2>1 DEF Skip
    <3> QED BY <1>5, <2>2, <3>1
  <2>5. ASSUME NEW i \in 1 .. n - 1
        PROVE  Prompt(route_set', idle', i)
    <3> DEFINE o == Skip(m, i)
               b == Cardinality(InFront(idle, o, Since(idle[o])))
               c == Cardinality(InFront(idle', i, Since(idle[o] + 1)))
    <3>1. o \in 1 .. n /\ idle'[i] = idle[o] + 1 /\ i \in Nat \ {0}
      BY <1>2, <2>4
    <3>2. ASSUME idle[o] # max_route_time
          PROVE  c <= b /\ (m <= i => c + 1 <= b)
      <4>1. ASSUME NEW j \in 1 .. i - 1, idle'[j] >= Since(idle[o] + 1)
            PROVE  idle[Skip(m, j)] >= Since(idle[o])
        <5>1. Skip(m, j) \in 1 .. n /\ idle'[j] = idle[Skip(m, j)] + 1
          BY <1>2, <2>4
        <5>2. /\ idle[Skip(m, j)] \in Nat
              /\ Since(idle[o]) \in Nat /\ Since(idle[o] + 1) = Since(idle[o]) + 1
          BY <1>3, <3>1, <3>2, <5>1
        <5> QED BY <4>1, <5>1, <5>2
      <4>2. idle[m] >= Since(idle[o])
        <5>1. /\ idle[m] \in Nat /\ Since(idle[o]) \in Nat
              /\ Since(idle[o]) <= max_route_time - 1
          BY <1>3, <2>1, <3>1, <3>2
        <5> QED BY <2>3, <5>1, TableAssumption
      <4> QED BY <1>2, <2>1, <4>1, <4>2, InFrontWithout
    <3>3. CASE i < m
      <4>1. o = i
        BY <3>3 DEF Skip
      <4>2. route_set'[i].R_valid_time = route_set[o].R_valid_time + 1
        BY <1>3, <2>1, <3>1, <3>3, <4>1
      <4> HIDE DEF o
      <4> QED BY <1>3, <3>1, <3>2, <4>1, <4>2, PromptAfterTick
    <3>4. CASE ~(i < m)
      <4>1. o = i + 1 /\ m <= i
        BY <1>2, <2>1, <3>4 DEF Skip
      <4>2. route_set'[i].R_valid_time = route_set[o].R_valid_time
        BY <2>1, <3>4, <4>1
      <4> HIDE DEF o
      <4>3. i = o - 1
        BY <3>1, <4>1
      <4> QED BY <1>3, <3>1, <3>2, <4>1, <4>2, <4>3, PromptAfterTick
    <3> QED BY <3>3, <3>4
  <2> QED BY <2>1, <2>5
<1> QED BY <1>7, <1>8

(* Every operation on the Routing Set keeps its routes prompt.             *)
LEMMA PromptInvPreserved ==
  ASSUME PromptInv, [LifeNext]_lifeVars
  PROVE  PromptInv'
<1>1. IdleInv'
  BY IdleInvPreserved DEF PromptInv
<1>2. ASSUME SmallPool
      PROVE  \A i \in 1 .. Len(route_set') : Prompt(route_set', idle', i)
  <2>1. CASE route_set' = route_set /\ idle' = idle
    BY <1>2, <2>1 DEF PromptInv
  <2>2. CASE LifeReinit
    <3>1. Len(route_set') = 0
      BY <2>2, EmptySeq DEF LifeReinit, Reinit
    <3> QED BY <3>1
  <2> QED BY <1>2, <2>1, <2>2, PromptAfterAdd, PromptAfterRefresh, PromptAfterRemove,
             PromptAfterPeriodic
          DEF LifeNext, LifeBlacklistAdd, LifeBlacklistRemove, BlacklistAdd, BlacklistRemove,
              lifeVars
<1> QED BY <1>1, <1>2 DEF PromptInv, SmallPool, Prompt

(* No route outlives its time by more than two ticks for each other entry  *)
(* of the pool, for any pool that is small against the lifetime.           *)
THEOREM RoutesNeverExpireMuchLate == LifeSpec => []NeverMuchLate
<1>1. LifeInit => PromptInv
  <2> SUFFICES ASSUME LifeInit PROVE PromptInv
    OBVIOUS
  <2>1. IdleInv
    BY EmptySeq, TableAssumption, BlacklistAssumption
       DEF LifeInit, route_init, IdleInv, TypeOK, AgeWithinIdle
  <2>2. Len(route_set) = 0
    BY EmptySeq DEF LifeInit, route_init
  <2> QED BY <2>1, <2>2 DEF PromptInv
<1>2. PromptInv /\ [LifeNext]_lifeVars => PromptInv'
  BY PromptInvPreserved
<1>3. PromptInv => NeverMuchLate
  <2> SUFFICES ASSUME PromptInv, SmallPool, NEW i \in DOMAIN idle
               PROVE  idle[i] < max_route_time + 2 * (NUM_RS_ENTRIES - 1)
    BY DEF NeverMuchLate, SmallPool
  <2>1. i \in 1 .. Len(route_set)
    BY IdleInvFields, LenProperties DEF PromptInv, IdleInv
  <2>2. /\ i \in Nat \ {0} /\ Prompt(route_set, idle, i)
        /\ idle[i] \in Nat /\ route_set[i].R_valid_time \in Nat
        /\ route_set[i].R_valid_time < max_route_time
    BY <2>1, IdleInvFields DEF PromptInv
  <2> QED BY <2>2, PromptBounds
<1> QED BY <1>1, <1>2, <1>3, PTL DEF LifeSpec
=============================================================================

-------------------------- MODULE RouteTableProofs --------------------------
(***************************************************************************)
(* What the list operations of PoolList do to the elements of a list, and  *)
(* facts about the operators of RouteTable, for a Routing Set of any       *)
(* length over any addresses.  Each lemma about a list gives the length of *)
(* the result and says which element of the old list stands at each place  *)
(* of the new one; the proofs about the tables of route.c follow from      *)
(* these alone.                                                            *)
(***************************************************************************)
EXTENDS RouteTable, SequenceTheorems, WellFoundedInduction, TLAPS

(* Where the element k of the list without element i stood in the list.    *)
Skip(i, k) == IF k < i THEN k ELSE k + 1

(* list_remove takes out one element and keeps the order of the others.    *)
LEMMA RemoveAtElements ==
  ASSUME NEW S, NEW s \in Seq(S), NEW i \in 1 .. Len(s)
  PROVE  /\ RemoveAt(s, i) \in Seq(S)
         /\ Len(RemoveAt(s, i)) = Len(s) - 1
         /\ \A k \in 1 .. Len(s) - 1 :
              /\ Skip(i, k) \in 1 .. Len(s) /\ Skip(i, k) # i
              /\ RemoveAt(s, i)[k] = s[Skip(i, k)]
<1> DEFINE front == SubSeq(s, 1, i - 1)
           back == SubSeq(s, i + 1, Len(s))
<1>0. Len(s) \in Nat /\ \A k \in 1 .. Len(s) : s[k] \in S
  BY LenProperties, ElementOfSeq
<1>1. /\ front \in Seq(S) /\ Len(front) = i - 1
      /\ \A k \in 1 .. i - 1 : front[k] = s[k]
  <2>1. \A k \in 1 .. i - 1 : s[k] \in S
    BY <1>0
  <2>2. /\ front \in Seq(S)
        /\ Len(front) = IF 1 <= i - 1 THEN i - 1 - 1 + 1 ELSE 0
        /\ \A k \in 1 .. i - 1 - 1 + 1 : front[k] = s[1 + k - 1]
    BY <1>0, <2>1, SubSeqProperties
  <2> QED BY <1>0, <2>2
<1>2. /\ back \in Seq(S) /\ Len(back) = Len(s) - i
      /\ \A k \in 1 .. Len(s) - i : back[k] = s[i + k]
  <2>1. \A k \in i + 1 .. Len(s) : s[k] \in S
    BY <1>0
  <2>2. /\ back \in Seq(S)
        /\ Len(back) = IF i + 1 <= Len(s) THEN Len(s) - (i + 1) + 1 ELSE 0
        /\ \A k \in 1 .. Len(s) - (i + 1) + 1 : back[k] = s[(i + 1) + k - 1]
    BY <1>0, <2>1, SubSeqProperties
  <2> QED BY <1>0, <2>2
<1>3. RemoveAt(s, i) = front \o back
  BY DEF RemoveAt
<1> HIDE DEF front, back
<1>4. /\ front \o back \in Seq(S)
      /\ Len(front \o back) = Len(front) + Len(back)
      /\ \A k \in 1 .. Len(front) + Len(back) :
           (front \o back)[k] = IF k <= Len(front) THEN front[k] ELSE back[k - Len(front)]
  BY <1>1, <1>2, ConcatProperties
<1> DEFINE t == front \o back
<1> HIDE DEF t
<1>5. t \in Seq(S) /\ Len(t) = Len(s) - 1
  BY <1>0, <1>1, <1>2, <1>4 DEF t
<1>6. ASSUME NEW k \in 1 .. Len(s) - 1
      PROVE  /\ Skip(i, k) \in 1 .. Len(s) /\ Skip(i, k) # i
             /\ t[k] = s[Skip(i, k)]
  <2>1. t[k] = IF k <= i - 1 THEN front[k] ELSE back[k - (i - 1)]
    <3>1. Len(front) = i - 1 /\ k \in 1 .. Len(front) + Len(back)
      BY <1>0, <1>1, <1>2
    <3>2. t[k] = IF k <= Len(front) THEN front[k] ELSE back[k - Len(front)]
      BY <1>4, <3>1 DEF t
    <3> QED BY <3>1, <3>2
  <2>2. CASE k < i
    BY <1>0, <1>1, <2>1, <2>2 DEF Skip
  <2>3. CASE k >= i
    <3>1. k - (i - 1) \in 1 .. Len(s) - i /\ i + (k - (i - 1)) = k + 1
      BY <1>0, <2>3
    <3>2. back[k - (i - 1)] = s[k + 1]
      BY <1>2, <3>1
    <3> QED BY <1>0, <2>1, <2>3, <3>2 DEF Skip
  <2> QED BY <1>0, <2>2, <2>3
<1> QED BY <1>3, <1>5, <1>6 DEF t

(* list_chop takes out the tail.                                           *)
LEMMA FrontElements ==
  ASSUME NEW S, NEW s \in Seq(S), s # <<>>
  PROVE  /\ Front(s) \in Seq(S)
         /\ Len(Front(s)) = Len(s) - 1
         /\ \A k \in 1 .. Len(s) - 1 : Front(s)[k] = s[k]
<1>1. Len(s) \in Nat /\ \A k \in 1 .. Len(s) - 1 : s[k] \in S
  BY LenProperties, ElementOfSeq
<1>2. Len(s) # 0
  BY EmptySeq
<1> DEFINE front == SubSeq(s, 1, Len(s) - 1)
<1>3. /\ front \in Seq(S)
      /\ Len(front) = IF 1 <= Len(s) - 1 THEN Len(s) - 1 - 1 + 1 ELSE 0
      /\ \A k \in 1 .. Len(s) - 1 - 1 + 1 : front[k] = s[1 + k - 1]
  BY <1>1, SubSeqProperties
<1>4. Front(s) = front
  BY DEF Front
<1> HIDE DEF front
<1> QED BY <1>1, <1>2, <1>3, <1>4

(* list_push puts an element in front.                                     *)
LEMMA ConsElements ==
  ASSUME NEW S, NEW s \in Seq(S), NEW e \in S
  PROVE  /\ Cons(e, s) \in Seq(S)
         /\ Len(Cons(e, s)) = Len(s) + 1
         /\ Cons(e, s)[1] = e
         /\ \A k \in 2 .. Len(s) + 1 : Cons(e, s)[k] = s[k - 1]
<1>1. <<e>> \in Seq(S) /\ Len(<<e>>) = 1 /\ <<e>>[1] = e
  OBVIOUS
<1> DEFINE one == <<e>>
<1> HIDE DEF one
<1>2. /\ one \o s \in Seq(S)
      /\ Len(one \o s) = Len(one) + Len(s)
      /\ \A k \in 1 .. Len(one) + Len(s) :
           (one \o s)[k] = IF k <= Len(one) THEN one[k] ELSE s[k - Len(one)]
  BY <1>1, ConcatProperties DEF one
<1>3. Cons(e, s) = one \o s
  BY DEF Cons, one
<1>4. Len(s) \in Nat
  BY LenProperties
<1> QED BY <1>1, <1>2, <1>3, <1>4 DEF one

-----------------------------------------------------------------------------
(* Where element k of the list stood before PushReusing(s, i, pool, e)     *)
(* pushed its entry: everything but the replaced entry moves back by one.  *)
Origin(i, k) == IF i # 0 /\ k - 1 >= i THEN k ELSE k - 1

(* The length the *_add functions leave a list with: it grows only when    *)
(* nothing is replaced and the pool has a free element.                    *)
PushedLen(n, i, pool) == IF i # 0 \/ n = pool THEN n ELSE n + 1

(* The *_add functions never make a list longer than its pool, put the new *)
(* entry first, and keep the order of the entries that stay; the replaced  *)
(* entry is not among them.                                                *)
LEMMA PushElements ==
  ASSUME NEW S, NEW s \in Seq(S), NEW pool \in Nat \ {0}, Len(s) <= pool,
         NEW i \in 0 .. Len(s), NEW e \in S
  PROVE  LET t == PushReusing(s, i, pool, e)
         IN  /\ t \in Seq(S)
             /\ Len(t) = PushedLen(Len(s), i, pool)
             /\ 1 <= Len(t) /\ Len(t) <= pool
             /\ t[1] = e
             /\ \A k \in 2 .. Len(t) :
                  /\ Origin(i, k) \in 1 .. Len(s) /\ Origin(i, k) # i
                  /\ t[k] = s[Origin(i, k)]
<1> DEFINE v == Vacate(s, i, pool)
<1>0. Len(s) \in Nat
  BY LenProperties
<1>1. /\ v \in Seq(S)
      /\ Len(v) = PushedLen(Len(s), i, pool) - 1
      /\ \A k \in 1 .. Len(v) :
           /\ Origin(i, k + 1) \in 1 .. Len(s) /\ Origin(i, k + 1) # i
           /\ v[k] = s[Origin(i, k + 1)]
  <2>1. CASE i # 0
    <3>1. v = RemoveAt(s, i)
      BY <2>1 DEF Vacate
    <3> HIDE DEF v
    <3>a. i \in 1 .. Len(s)
      BY <1>0, <2>1
    <3>2. /\ v \in Seq(S) /\ Len(v) = Len(s) - 1
          /\ \A k \in 1 .. Len(s) - 1 :
               /\ Skip(i, k) \in 1 .. Len(s) /\ Skip(i, k) # i
               /\ v[k] = s[Skip(i, k)]
      <4>1. /\ RemoveAt(s, i) \in Seq(S)
            /\ Len(RemoveAt(s, i)) = Len(s) - 1
            /\ \A k \in 1 .. Len(s) - 1 :
                 /\ Skip(i, k) \in 1 .. Len(s) /\ Skip(i, k) # i
                 /\ RemoveAt(s, i)[k] = s[Skip(i, k)]
        BY <3>a, RemoveAtElements
      <4> QED BY <3>1, <4>1
    <3>3. \A k \in 1 .. Len(s) - 1 : Origin(i, k + 1) = Skip(i, k)
      BY <1>0, <2>1 DEF Skip, Origin
    <3> QED BY <1>0, <2>1, <3>2, <3>3 DEF PushedLen
  <2>2. CASE i = 0 /\ Len(s) = pool
    <3>1. v = Front(s)
      BY <2>2 DEF Vacate
    <3>2. s # <<>>
      BY <2>2, EmptySeq
    <3> HIDE DEF v
    <3> QED BY <1>0, <2>2, <3>1, <3>2, FrontElements DEF Origin, PushedLen
  <2>3. CASE i = 0 /\ Len(s) # pool
    <3>1. v = s
      BY <2>3 DEF Vacate
    <3> HIDE DEF v
    <3> QED BY <1>0, <2>3, <3>1 DEF Origin, PushedLen
  <2> QED BY <2>1, <2>2, <2>3
<1>a. v \in Seq(S)
  BY <1>1
<1>b. e \in S
  OBVIOUS
<1>2. PushReusing(s, i, pool, e) = Cons(e, v)
  BY DEF PushReusing
<1> HIDE DEF v
<1>3. /\ Cons(e, v) \in Seq(S)
      /\ Len(Cons(e, v)) = Len(v) + 1
      /\ Cons(e, v)[1] = e
      /\ \A k \in 2 .. Len(v) + 1 : Cons(e, v)[k] = v[k - 1]
  BY <1>a, <1>b, ConsElements
<1>4. Len(v) \in Nat
  BY <1>1, LenProperties
<1> DEFINE t == Cons(e, v)
<1> HIDE DEF t
<1>5. \A k \in 2 .. Len(v) + 1 : k - 1 \in 1 .. Len(v) /\ (k - 1) + 1 = k
  BY <1>4
<1>6. \A k \in 2 .. Len(t) :
        /\ Origin(i, k) \in 1 .. Len(s) /\ Origin(i, k) # i
        /\ t[k] = s[Origin(i, k)]
  BY <1>1, <1>3, <1>4, <1>5 DEF t
<1>7. 1 <= Len(t) /\ Len(t) <= pool
  BY <1>0, <1>1, <1>3, <1>4 DEF t, PushedLen
<1>8. t \in Seq(S) /\ Len(t) = PushedLen(Len(s), i, pool) /\ t[1] = e
  <2>1. PushedLen(Len(s), i, pool) \in Int
    BY <1>0 DEF PushedLen
  <2> QED BY <1>1, <1>3, <1>4, <2>1 DEF t
<1>9. PushReusing(s, i, pool, e) = t
  BY <1>2 DEF t
<1> QED BY <1>6, <1>7, <1>8, <1>9

(* The first of a set of places of a list, as the scans of route.c find    *)
(* it, is one of them and no other one comes before it.                    *)
LEMMA MinIsFirst ==
  ASSUME NEW T, T \subseteq Nat, T # {}
  PROVE  Min(T) \in T /\ \A j \in T : Min(T) <= j
<1> DEFINE less == OpToRel(<, Nat)
<1>1. less = {ss \in Nat \X Nat : ss[1] < ss[2]}
  BY DEF OpToRel
<1>2. \E x \in T : \A y \in T : ~(<<y, x>> \in less)
  BY NatLessThanWellFounded, WFMin
<1> HIDE DEF less
<1>3. PICK x \in T : \A y \in T : ~(<<y, x>> \in less)
  BY <1>2
<1>4. ASSUME NEW y \in T
      PROVE  x <= y
  <2>1. x \in Nat /\ y \in Nat
    OBVIOUS
  <2>2. ~(<<y, x>> \in less)
    BY <1>3
  <2>3. ~(y < x)
    BY <1>1, <2>1, <2>2
  <2> QED BY <2>1, <2>3
<1> QED BY <1>4 DEF Min

-----------------------------------------------------------------------------
(* The fields of a tuple: addresses, a cost that fits its byte, an age     *)
(* that has not expired.                                                   *)
LEMMA TupleFields ==
  ASSUME NEW Addr, NEW Seqno, NEW e \in RouteTuple(Addr, Seqno)
  PROVE  /\ e.R_dest_addr \in Addr
         /\ e.R_next_addr \in Addr
         /\ e.route_cost \in Nat /\ e.route_cost <= UINT8_MAX
         /\ e.R_seq_num \in Seqno
         /\ e.R_valid_time \in Nat /\ e.R_valid_time < max_route_time
BY TableAssumption DEF RouteTuple

(* A tuple with another age is still a tuple.                              *)
LEMMA TupleAged ==
  ASSUME NEW Addr, NEW Seqno, NEW e \in RouteTuple(Addr, Seqno),
         NEW t \in 0 .. max_route_time - 1
  PROVE  [e EXCEPT !.R_valid_time = t] \in RouteTuple(Addr, Seqno)
BY DEF RouteTuple

(* A Routing Set is a sequence of tuples.                                  *)
LEMMA SetElements ==
  ASSUME NEW Addr, NEW Seqno, NEW rs \in Seq(RouteTuple(Addr, Seqno))
  PROVE  /\ Len(rs) \in Nat
         /\ DOMAIN rs = 1 .. Len(rs)
         /\ \A i \in 1 .. Len(rs) : rs[i] \in RouteTuple(Addr, Seqno)
BY LenProperties, ElementOfSeq

(* A destination with a tuple that costs less than infinity has a best     *)
(* one: the cheapest, and of the cheapest the first.                       *)
LEMMA BestExists ==
  ASSUME NEW Addr, NEW Seqno, NEW rs \in Seq(RouteTuple(Addr, Seqno)),
         NEW dest, Candidates(rs, dest) # {}
  PROVE  \E i \in Candidates(rs, dest) :
           \A j \in Candidates(rs, dest) : Better(rs, i, j)
<1> DEFINE C == Candidates(rs, dest)
           costs == {rs[i].route_cost : i \in C}
           m == Min(costs)
           cheapest == {i \in C : rs[i].route_cost = m}
           first == Min(cheapest)
<1>1. C \subseteq 1 .. Len(rs) /\ C # {}
  BY SetElements DEF Candidates
<1>2. C \subseteq Nat /\ \A i \in C : rs[i].route_cost \in Nat
  BY <1>1, SetElements, TupleFields
<1> HIDE DEF C
<1>3. costs \subseteq Nat /\ costs # {}
  BY <1>1, <1>2
<1>4. m \in costs /\ \A c \in costs : m <= c
  <2> HIDE DEF costs
  <2> QED BY <1>3, MinIsFirst
<1> HIDE DEF m
<1>5. cheapest \subseteq Nat /\ cheapest # {}
  BY <1>2, <1>4
<1>6. first \in cheapest /\ \A j \in cheapest : first <= j
  <2> HIDE DEF cheapest
  <2> QED BY <1>5, MinIsFirst
<1> HIDE DEF first
<1>7. ASSUME NEW j \in C
      PROVE  Better(rs, first, j)
  <2>1. m <= rs[j].route_cost /\ rs[j].route_cost \in Nat
    BY <1>2, <1>4
  <2>2. rs[first].route_cost = m /\ m \in Nat
    BY <1>3, <1>4, <1>6
  <2>3. CASE m = rs[j].route_cost
    BY <1>6, <2>2, <2>3 DEF Better
  <2>4. CASE m # rs[j].route_cost
    BY <2>1, <2>2, <2>4 DEF Better
  <2> QED BY <2>3, <2>4
<1>8. first \in C
  BY <1>6
<1> QED BY <1>7, <1>8 DEF C

(* What route_lookup returns: NULL exactly when no tuple of dest costs     *)
(* less than infinity, and otherwise a tuple of dest that costs less than  *)
(* infinity, no more than any other, and less than any that stands before  *)
(* it: the most recent of the cheapest.                                    *)
THEOREM LookupFinds ==
  ASSUME NEW Addr, NEW Seqno, NEW rs \in Seq(RouteTuple(Addr, Seqno)), NEW dest
  PROVE  /\ route_lookup(rs, dest) \in 0 .. Len(rs)
         /\ HasRoute(rs, dest) <=> Candidates(rs, dest) # {}
         /\ HasRoute(rs, dest) =>
              /\ route_lookup(rs, dest) \in 1 .. Len(rs)
              /\ rs[route_lookup(rs, dest)].R_dest_addr = dest
              /\ rs[route_lookup(rs, dest)].route_cost < UINT8_MAX
              /\ \A j \in 1 .. Len(rs) :
                   rs[j].R_dest_addr = dest =>
                     /\ rs[route_lookup(rs, dest)].route_cost <= rs[j].route_cost
                     /\ j < route_lookup(rs, dest) =>
                          rs[route_lookup(rs, dest)].route_cost < rs[j].route_cost
<1>0. /\ Len(rs) \in Nat /\ DOMAIN rs = 1 .. Len(rs)
      /\ \A i \in 1 .. Len(rs) : rs[i].route_cost \in Nat
  BY SetElements, TupleFields
<1>1. CASE Candidates(rs, dest) = {}
  BY <1>0, <1>1 DEF route_lookup, HasRoute
<1>2. CASE Candidates(rs, dest) # {}
  <2> DEFINE l == route_lookup(rs, dest)
  <2>1. l = CHOOSE i \in Candidates(rs, dest) :
              \A j \in Candidates(rs, dest) : Better(rs, i, j)
    BY <1>2 DEF route_lookup
  <2>2. /\ l \in Candidates(rs, dest)
        /\ \A j \in Candidates(rs, dest) : Better(rs, l, j)
    BY <1>2, <2>1, BestExists
  <2> HIDE DEF l
  <2>3. /\ l \in 1 .. Len(rs)
        /\ rs[l].R_dest_addr = dest /\ rs[l].route_cost < UINT8_MAX
    BY <1>0, <2>2 DEF Candidates
  <2>4. ASSUME NEW j \in 1 .. Len(rs), rs[j].R_dest_addr = dest
        PROVE  /\ rs[l].route_cost <= rs[j].route_cost
               /\ j < l => rs[l].route_cost < rs[j].route_cost
    <3>1. CASE rs[j].route_cost < UINT8_MAX
      <4>1. j \in Candidates(rs, dest)
        BY <1>0, <2>4, <3>1 DEF Candidates
      <4> QED BY <1>0, <2>2, <2>3, <4>1 DEF Better
    <3>2. CASE ~(rs[j].route_cost < UINT8_MAX)
      BY <1>0, <2>3, <3>2, TableAssumption
    <3> QED BY <3>1, <3>2
  <2>5. l # 0
    BY <1>0, <2>3
  <2> QED BY <1>0, <1>2, <2>3, <2>4, <2>5 DEF HasRoute, l
<1> QED BY <1>1, <1>2

(* A usable tuple for dest anywhere in the set makes route_lookup find one *)
(* that is no worse.                                                       *)
LEMMA UsableIsFound ==
  ASSUME NEW Addr, NEW Seqno, NEW rs \in Seq(RouteTuple(Addr, Seqno)), NEW dest,
         NEW i \in 1 .. Len(rs),
         rs[i].R_dest_addr = dest, rs[i].route_cost < UINT8_MAX
  PROVE  /\ HasRoute(rs, dest)
         /\ rs[route_lookup(rs, dest)].route_cost <= rs[i].route_cost
<1>1. i \in Candidates(rs, dest)
  BY SetElements DEF Candidates
<1> QED BY <1>1, LookupFinds

-----------------------------------------------------------------------------
(* The tuple route_add builds.                                             *)
NewTuple(dest, nexthop, cost, seqno) ==
  [R_dest_addr |-> dest, R_next_addr |-> nexthop, route_cost |-> cost,
   R_seq_num |-> seqno, R_valid_time |-> 0]

(* The tuple route_add builds has the right type.                          *)
LEMMA NewTupleType ==
  ASSUME NEW Addr, NEW Seqno, NEW dest \in Addr, NEW nexthop \in Addr,
         NEW cost \in 0 .. UINT8_MAX, NEW seqno \in Seqno
  PROVE  NewTuple(dest, nexthop, cost, seqno) \in RouteTuple(Addr, Seqno)
BY TableAssumption DEF NewTuple, RouteTuple

(* The tuple route_add reuses is the one route_lookup returns, and only if *)
(* it has the same next hop.                                               *)
LEMMA ReplacedIsBest ==
  ASSUME NEW Addr, NEW Seqno, NEW rs \in Seq(RouteTuple(Addr, Seqno)),
         NEW dest, NEW nexthop
  PROVE  /\ Replaced(rs, dest, nexthop) \in 0 .. Len(rs)
         /\ Replaced(rs, dest, nexthop) # 0 =>
              /\ HasRoute(rs, dest)
              /\ Replaced(rs, dest, nexthop) = route_lookup(rs, dest)
              /\ nexthop = NextHop(rs, dest)
<1>1. Len(rs) \in Nat
  BY SetElements
<1>2. route_lookup(rs, dest) \in 0 .. Len(rs)
  BY LookupFinds
<1> QED BY <1>1, <1>2 DEF Replaced

(* route_add never overfills the pool, puts the new tuple first and keeps  *)
(* the order of those that stay.                                           *)
LEMMA AddElements ==
  ASSUME NEW Addr, NEW Seqno, NEW rs \in Seq(RouteTuple(Addr, Seqno)),
         Len(rs) <= NUM_RS_ENTRIES,
         NEW dest \in Addr, NEW nexthop \in Addr,
         NEW cost \in 0 .. UINT8_MAX, NEW seqno \in Seqno
  PROVE  LET t == route_add(rs, dest, nexthop, cost, seqno)
             old == Replaced(rs, dest, nexthop)
         IN  /\ t \in Seq(RouteTuple(Addr, Seqno))
             /\ Len(t) = PushedLen(Len(rs), old, NUM_RS_ENTRIES)
             /\ 1 <= Len(t) /\ Len(t) <= NUM_RS_ENTRIES
             /\ t[1] = NewTuple(dest, nexthop, cost, seqno)
             /\ \A k \in 2 .. Len(t) :
                  /\ Origin(old, k) \in 1 .. Len(rs) /\ Origin(old, k) # old
                  /\ t[k] = rs[Origin(old, k)]
<1> DEFINE e == NewTuple(dest, nexthop, cost, seqno)
           old == Replaced(rs, dest, nexthop)
<1>1. route_add(rs, dest, nexthop, cost, seqno) = PushReusing(rs, old, NUM_RS_ENTRIES, e)
  BY DEF route_add, NewTuple
<1>2. e \in RouteTuple(Addr, Seqno)
  BY NewTupleType
<1>3. old \in 0 .. Len(rs)
  BY ReplacedIsBest
<1>4. NUM_RS_ENTRIES \in Nat \ {0}
  BY TableAssumption
<1> HIDE DEF e, old
<1> DEFINE t == PushReusing(rs, old, NUM_RS_ENTRIES, e)
<1>5. /\ t \in Seq(RouteTuple(Addr, Seqno))
      /\ Len(t) = PushedLen(Len(rs), old, NUM_RS_ENTRIES)
      /\ 1 <= Len(t) /\ Len(t) <= NUM_RS_ENTRIES
      /\ t[1] = e
      /\ \A k \in 2 .. Len(t) :
           /\ Origin(old, k) \in 1 .. Len(rs) /\ Origin(old, k) # old
           /\ t[k] = rs[Origin(old, k)]
  BY <1>2, <1>3, <1>4, PushElements
<1> HIDE DEF t
<1>6. route_add(rs, dest, nexthop, cost, seqno) = t
  BY <1>1 DEF t
<1> QED BY <1>5, <1>6 DEF e, old

(* Every tuple but the replaced one and, when the pool is full, the tail,  *)
(* is still in the set after route_add.                                    *)
LEMMA AddKeeps ==
  ASSUME NEW Addr, NEW Seqno, NEW rs \in Seq(RouteTuple(Addr, Seqno)),
         Len(rs) <= NUM_RS_ENTRIES,
         NEW dest \in Addr, NEW nexthop \in Addr,
         NEW cost \in 0 .. UINT8_MAX, NEW seqno \in Seqno,
         NEW i \in 1 .. Len(rs),
         i # Replaced(rs, dest, nexthop),
         Replaced(rs, dest, nexthop) = 0 => i # NUM_RS_ENTRIES
  PROVE  LET t == route_add(rs, dest, nexthop, cost, seqno)
         IN  \E k \in 1 .. Len(t) : t[k] = rs[i]
<1> DEFINE t == route_add(rs, dest, nexthop, cost, seqno)
           old == Replaced(rs, dest, nexthop)
           k == IF old # 0 /\ i > old THEN i ELSE i + 1
<1>1. /\ Len(t) = PushedLen(Len(rs), old, NUM_RS_ENTRIES)
      /\ \A j \in 2 .. Len(t) : t[j] = rs[Origin(old, j)]
  BY AddElements
<1>2. /\ old \in 0 .. Len(rs) /\ Len(rs) \in Nat
      /\ i # old /\ (old = 0 => i # NUM_RS_ENTRIES)
  BY ReplacedIsBest, SetElements
<1> HIDE DEF t, old
<1>3. k \in 2 .. Len(t) /\ Origin(old, k) = i
  BY <1>1, <1>2 DEF PushedLen, Origin
<1>4. k \in 1 .. Len(t) /\ t[k] = rs[i]
  <2> HIDE DEF k
  <2>1. Len(t) \in Nat
    BY <1>1, <1>2, TableAssumption DEF PushedLen
  <2> QED BY <1>1, <1>3, <2>1
<1>5. \E j \in 1 .. Len(t) : t[j] = rs[i]
  <2> HIDE DEF k
  <2> QED BY <1>4
<1> QED BY <1>5 DEF t

(* route_refresh changes nothing but the age of one tuple.                 *)
LEMMA RefreshElements ==
  ASSUME NEW Addr, NEW Seqno, NEW rs \in Seq(RouteTuple(Addr, Seqno)),
         NEW i \in 0 .. Len(rs)
  PROVE  /\ route_refresh(rs, i) \in Seq(RouteTuple(Addr, Seqno))
         /\ Len(route_refresh(rs, i)) = Len(rs)
         /\ \A k \in 1 .. Len(rs) :
              route_refresh(rs, i)[k] =
                IF k = i THEN [rs[k] EXCEPT !.R_valid_time = 0] ELSE rs[k]
<1>1. CASE i = 0
  BY <1>1, SetElements DEF route_refresh
<1>2. CASE i # 0
  <2> DEFINE e == [rs[i] EXCEPT !.R_valid_time = 0]
  <2>1. i \in 1 .. Len(rs) /\ rs[i] \in RouteTuple(Addr, Seqno)
    BY <1>2, SetElements
  <2>2. e \in RouteTuple(Addr, Seqno)
    <3>1. 0 \in 0 .. max_route_time - 1
      BY TableAssumption
    <3> QED BY <2>1, <3>1, TupleAged
  <2>3. route_refresh(rs, i) = [rs EXCEPT ![i] = e]
    BY <1>2 DEF route_refresh
  <2> HIDE DEF e
  <2>4. /\ [rs EXCEPT ![i] = e] \in Seq(RouteTuple(Addr, Seqno))
        /\ Len([rs EXCEPT ![i] = e]) = Len(rs)
        /\ \A k \in 1 .. Len(rs) : [rs EXCEPT ![i] = e][k] = IF k = i THEN e ELSE rs[k]
    BY <2>1, <2>2, ExceptSeq
  <2> QED BY <2>1, <2>3, <2>4 DEF e
<1> QED BY <1>1, <1>2

(* A tick without an expiry makes every tuple one tick older; one with an  *)
(* expiry takes out the first tuple that expires, makes those in front of  *)
(* it older and leaves those behind it as they are.                        *)
LEMMA AgeElements ==
  ASSUME NEW Addr, NEW Seqno, NEW rs \in Seq(RouteTuple(Addr, Seqno))
  PROVE  /\ AgeRoutes(rs) \in Seq(RouteTuple(Addr, Seqno))
         /\ Len(AgeRoutes(rs)) <= Len(rs)
         /\ Expiring(rs) = {} =>
              /\ Len(AgeRoutes(rs)) = Len(rs)
              /\ \A k \in 1 .. Len(rs) : AgeRoutes(rs)[k] = Older(rs, k)
         /\ Expiring(rs) # {} =>
              /\ Min(Expiring(rs)) \in 1 .. Len(rs)
              /\ rs[Min(Expiring(rs))].R_valid_time = max_route_time - 1
              /\ Len(AgeRoutes(rs)) = Len(rs) - 1
              /\ \A k \in 1 .. Len(rs) - 1 :
                   AgeRoutes(rs)[k] =
                     IF k < Min(Expiring(rs)) THEN Older(rs, k) ELSE rs[k + 1]
<1> DEFINE T == RouteTuple(Addr, Seqno)
<1>1. /\ Len(rs) \in Nat /\ DOMAIN rs = 1 .. Len(rs)
      /\ \A i \in 1 .. Len(rs) : rs[i] \in T
  BY SetElements
<1>2. \A i \in 1 .. Len(rs) : rs[i].R_valid_time \in Nat /\ rs[i].R_valid_time < max_route_time
  BY SetElements, TupleFields
<1>3. ASSUME NEW i \in 1 .. Len(rs), i \notin Expiring(rs)
      PROVE  Older(rs, i) \in T
  <2>1. rs[i].R_valid_time + 1 \in 0 .. max_route_time - 1
    BY <1>1, <1>2, <1>3, TableAssumption DEF Expiring
  <2> QED BY <1>1, <2>1 DEF Older, RouteTuple
<1>4. Expiring(rs) \subseteq 1 .. Len(rs)
  BY <1>1 DEF Expiring
<1>5. CASE Expiring(rs) = {}
  <2>1. AgeRoutes(rs) = [i \in 1 .. Len(rs) |-> Older(rs, i)]
    BY <1>1, <1>5 DEF AgeRoutes
  <2>2. AgeRoutes(rs) \in [1 .. Len(rs) -> T]
    BY <1>3, <1>5, <2>1
  <2>3. AgeRoutes(rs) \in Seq(T) /\ Len(AgeRoutes(rs)) = Len(rs)
    BY <1>1, <2>2
  <2> QED BY <1>1, <1>5, <2>1, <2>3
<1>6. CASE Expiring(rs) # {}
  <2> DEFINE m == Min(Expiring(rs))
  <2>1. m \in Expiring(rs) /\ \A j \in Expiring(rs) : m <= j
    BY <1>4, <1>6, MinIsFirst
  <2>2. m \in 1 .. Len(rs) /\ rs[m].R_valid_time = max_route_time - 1
    <3> HIDE DEF m
    <3>1. m \in 1 .. Len(rs) /\ rs[m].R_valid_time + 1 >= max_route_time
      BY <1>1, <2>1 DEF Expiring
    <3> QED BY <1>2, <3>1, TableAssumption
  <2>3. AgeRoutes(rs) = [i \in 1 .. Len(rs) - 1 |-> IF i < m THEN Older(rs, i) ELSE rs[i + 1]]
    BY <1>6 DEF AgeRoutes
  <2> HIDE DEF m
  <2>4. ASSUME NEW i \in 1 .. Len(rs) - 1
        PROVE  (IF i < m THEN Older(rs, i) ELSE rs[i + 1]) \in T
    <3>1. CASE i < m
      <4>1. i \in 1 .. Len(rs) /\ i \notin Expiring(rs)
        BY <1>1, <1>4, <2>1, <2>2, <3>1
      <4> QED BY <1>3, <3>1, <4>1
    <3>2. CASE ~(i < m)
      BY <1>1, <3>2
    <3> QED BY <3>1, <3>2
  <2>5. AgeRoutes(rs) \in [1 .. Len(rs) - 1 -> T]
    BY <2>3, <2>4
  <2>6. Len(rs) - 1 \in Nat
    BY <1>1, <2>2
  <2>7. AgeRoutes(rs) \in Seq(T) /\ Len(AgeRoutes(rs)) = Len(rs) - 1
    BY <2>5, <2>6
  <2>8. \A k \in 1 .. Len(rs) - 1 :
          AgeRoutes(rs)[k] = IF k < m THEN Older(rs, k) ELSE rs[k + 1]
    BY <2>3
  <2>9. Len(AgeRoutes(rs)) <= Len(rs)
    BY <1>1, <2>7
  <2> QED BY <1>6, <2>2, <2>7, <2>8, <2>9 DEF m
<1> QED BY <1>5, <1>6
=============================================================================

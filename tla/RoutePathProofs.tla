-------------------------- MODULE RoutePathProofs --------------------------
(***************************************************************************)
(* While no route is given up, the routes of a network of any size and     *)
(* shape are paths, and a reply can always be handed on.  The argument:    *)
(* whoever sends a request or reply of o has a route to o or is o, so that *)
(* a node only learns routes through nodes that know the way; ranking the  *)
(* nodes by the order in which they learned orders every path.             *)
(***************************************************************************)
EXTENDS LOADngProofs, FiniteSetTheorems

(* Every tuple can be found by the lookup.                                 *)
Usable(rs) == \A i \in 1 .. Len(rs) : rs[i].route_cost < UINT8_MAX

Holds(rs, d) == \E i \in 1 .. Len(rs) : rs[i].R_dest_addr = d

(* The costs that CostsTrue allows are seen by the lookup.                 *)
LEMMA CheapIsUsable ==
  ASSUME NEW n \in Node, NEW rs, Sound(n, rs),
         \A i \in DOMAIN rs : rs[i].route_cost \in 1 .. UINT8_MAX - 1
  PROVE  Usable(rs)
<1>1. DOMAIN rs = 1 .. Len(rs)
  BY DEF Sound, Fits
<1> QED BY <1>1, TableAssumption DEF Usable

(* In such a set the lookup finds the one tuple of its destination.        *)
LEMMA LookupIsTheTuple ==
  ASSUME NEW n \in Node, NEW rs, Sound(n, rs), Usable(rs), NEW d
  PROVE  /\ HasRoute(rs, d) <=> Holds(rs, d)
         /\ \A i \in 1 .. Len(rs) :
              rs[i].R_dest_addr = d => NextHop(rs, d) = rs[i].R_next_addr
<1>1. rs \in Seq(RouteTuple(Node, SeqNumber))
  BY DEF Sound, Fits
<1>2. ASSUME HasRoute(rs, d)
      PROVE  /\ route_lookup(rs, d) \in 1 .. Len(rs)
             /\ rs[route_lookup(rs, d)].R_dest_addr = d
  BY <1>1, <1>2, LookupFinds
<1>3. ASSUME NEW i \in 1 .. Len(rs), rs[i].R_dest_addr = d
      PROVE  HasRoute(rs, d) /\ NextHop(rs, d) = rs[i].R_next_addr
  <2>1. rs[i].route_cost < UINT8_MAX
    BY DEF Usable
  <2>2. HasRoute(rs, d)
    BY <1>1, <1>3, <2>1, UsableIsFound
  <2>3. route_lookup(rs, d) = i
    BY <1>2, <1>3, <2>1, <2>2 DEF Sound, OneUsable, Usable
  <2> QED BY <2>2, <2>3 DEF NextHop
<1> QED BY <1>2, <1>3 DEF Holds

(* One tuple for each of the other nodes at most: a pool for all of them   *)
(* always has a free element.                                              *)
LEMMA PoolHasRoom ==
  ASSUME NEW n \in Node, NEW rs, Sound(n, rs), Usable(rs),
         NUM_RS_ENTRIES >= Cardinality(Node)
  PROVE  Len(rs) < NUM_RS_ENTRIES
<1> DEFINE others == Node \ {n}
           dest == [i \in 1 .. Len(rs) |-> rs[i].R_dest_addr]
<1>1. /\ Len(rs) \in Nat
      /\ \A i \in 1 .. Len(rs) : rs[i] \in RouteTuple(Node, SeqNumber)
  BY SetElements DEF Sound, Fits
<1>2. \A i \in 1 .. Len(rs) : rs[i].R_dest_addr \in others
  BY <1>1, TupleFields DEF Sound, NotSelf
<1>3. \A i, j \in 1 .. Len(rs) : rs[i].R_dest_addr = rs[j].R_dest_addr => i = j
  BY DEF Usable, Sound, OneUsable
<1>4. dest \in [1 .. Len(rs) -> others]
  BY <1>2
<1>5. IsInjective(dest)
  BY <1>3 DEF IsInjective
<1>6. dest \in Injection(1 .. Len(rs), others)
  BY <1>4, <1>5 DEF Injection
<1>7. /\ IsFiniteSet(Node) /\ IsFiniteSet(others)
      /\ Cardinality(others) = Cardinality(Node) - 1
  BY NetworkAssumption, FS_RemoveElement
<1>8. Cardinality(1 .. Len(rs)) <= Cardinality(others)
  <2> HIDE DEF dest, others
  <2> QED BY <1>6, <1>7, FS_Injection
<1>9. Cardinality(1 .. Len(rs)) = Len(rs)
  <2>1. 1 \in Int /\ Len(rs) \in Int
    BY <1>1
  <2>2. Cardinality(1 .. Len(rs)) = IF 1 > Len(rs) THEN 0 ELSE Len(rs) - 1 + 1
    BY <2>1, FS_Interval
  <2> QED BY <1>1, <2>2
<1>10. Cardinality(Node) \in Nat
  BY <1>7, FS_CardinalityType
<1> QED BY <1>1, <1>7, <1>8, <1>9, <1>10, TableAssumption

(* The tuples after a message has been learned from: the new one, and the  *)
(* old ones behind it, but for the last when the pool was full.            *)
LEMMA LearnElements ==
  ASSUME NEW n \in Node, NEW rs, Sound(n, rs), NEW from \in Node,
         NEW msg \in RreqMessage \cup RrepMessage, ~HasRoute(rs, msg.originator)
  PROVE  LET t == Learn(rs, msg, from)
         IN  /\ Len(t) = IF Len(rs) = NUM_RS_ENTRIES THEN Len(rs) ELSE Len(rs) + 1
             /\ 1 <= Len(t)
             /\ t[1].R_dest_addr = msg.originator
             /\ t[1].R_next_addr = from
             /\ t[1].route_cost = (msg.hop_count + 1) % (UINT8_MAX + 1)
             /\ \A k \in 2 .. Len(t) : k - 1 \in 1 .. Len(rs) /\ t[k] = rs[k - 1]
<1> DEFINE orig == msg.originator
           cost == (msg.hop_count + 1) % (UINT8_MAX + 1)
           seqno == msg.seqno
           t == Learn(rs, msg, from)
           e == NewTuple(orig, from, cost, seqno)
           added == route_add(rs, orig, from, cost, seqno)
           old == Replaced(rs, orig, from)
<1>1. /\ rs \in Seq(RouteTuple(Node, SeqNumber)) /\ Len(rs) \in Nat
      /\ Len(rs) <= NUM_RS_ENTRIES
  BY SetElements DEF Sound, Fits
<1>2. orig \in Node /\ cost \in 0 .. UINT8_MAX /\ seqno \in SeqNumber
  BY MessageFields, CostType
<1>3. t = added /\ old = 0
  BY DEF Learn, Replaced
<1> HIDE DEF cost, orig, seqno, t
<1>4. /\ added \in Seq(RouteTuple(Node, SeqNumber))
      /\ Len(added) = PushedLen(Len(rs), old, NUM_RS_ENTRIES)
      /\ 1 <= Len(added) /\ Len(added) <= NUM_RS_ENTRIES
      /\ added[1] = e
      /\ \A k \in 2 .. Len(added) :
           /\ Origin(old, k) \in 1 .. Len(rs) /\ Origin(old, k) # old
           /\ added[k] = rs[Origin(old, k)]
  BY <1>1, <1>2, AddElements
<1>5. e.R_dest_addr = orig /\ e.R_next_addr = from /\ e.route_cost = cost
  BY DEF NewTuple
<1> HIDE DEF e, added, old
<1>6. \A k \in 2 .. Len(t) : Origin(old, k) = k - 1
  BY <1>3 DEF Origin
<1> QED BY <1>3, <1>4, <1>5, <1>6 DEF PushedLen, t, orig, cost

(* What can be found after a message has been learned from has evicted     *)
(* nothing, if the pool is large enough for all nodes.                     *)
LEMMA LearnEvictsNothing ==
  ASSUME NEW n \in Node, NEW rs, Sound(n, rs), NEW from \in Node,
         NEW msg \in RreqMessage \cup RrepMessage, msg.originator # n,
         ~HasRoute(rs, msg.originator), Usable(Learn(rs, msg, from)),
         NUM_RS_ENTRIES >= Cardinality(Node)
  PROVE  LET t == Learn(rs, msg, from)
         IN  /\ Len(t) = Len(rs) + 1
             /\ \A i \in 1 .. Len(rs) : i + 1 \in 1 .. Len(t) /\ t[i + 1] = rs[i]
<1> DEFINE t == Learn(rs, msg, from)
<1>1. Sound(n, t)
  BY LearnKeepsSound
<1>2. /\ Len(t) = IF Len(rs) = NUM_RS_ENTRIES THEN Len(rs) ELSE Len(rs) + 1
      /\ \A k \in 2 .. Len(t) : k - 1 \in 1 .. Len(rs) /\ t[k] = rs[k - 1]
  BY LearnElements
<1> HIDE DEF t
<1>3. Len(t) < NUM_RS_ENTRIES
  BY <1>1, PoolHasRoom DEF t
<1>4. Len(rs) \in Nat
  BY SetElements DEF Sound, Fits
<1>5. Len(t) = Len(rs) + 1
  BY <1>2, <1>3
<1>6. ASSUME NEW i \in 1 .. Len(rs)
      PROVE  i + 1 \in 1 .. Len(t) /\ t[i + 1] = rs[i]
  BY <1>2, <1>4, <1>5
<1> QED BY <1>5, <1>6 DEF t

(* What a node learns from a message: a route to its originator through    *)
(* the sender, if it had none, and nothing else - as long as the new route *)
(* can be found, its cost not being 255.                                   *)
LEMMA LearnEffect ==
  ASSUME NEW n \in Node, NEW rs, Sound(n, rs), NEW from \in Node,
         NEW msg \in RreqMessage \cup RrepMessage, msg.originator # n,
         Usable(rs), Usable(Learn(rs, msg, from)), NUM_RS_ENTRIES >= Cardinality(Node)
  PROVE  LET t == Learn(rs, msg, from)
         IN  /\ \A d \in Node : HasRoute(t, d) <=> HasRoute(rs, d) \/ d = msg.originator
             /\ \A d \in Node :
                  HasRoute(t, d) =>
                    NextHop(t, d) = IF HasRoute(rs, d) THEN NextHop(rs, d) ELSE from
<1> DEFINE orig == msg.originator
           t == Learn(rs, msg, from)
<1>1. CASE HasRoute(rs, orig)
  <2>1. t = rs
    BY <1>1 DEF Learn
  <2> QED BY <1>1, <2>1
<1>2. CASE ~HasRoute(rs, orig)
  <2>1. Len(rs) \in Nat
    BY SetElements DEF Sound, Fits
  <2>2. /\ t[1].R_dest_addr = orig /\ t[1].R_next_addr = from
        /\ \A k \in 2 .. Len(t) : k - 1 \in 1 .. Len(rs) /\ t[k] = rs[k - 1]
    BY <1>2, LearnElements
  <2>3. /\ Len(t) = Len(rs) + 1
        /\ \A i \in 1 .. Len(rs) : i + 1 \in 1 .. Len(t) /\ t[i + 1] = rs[i]
    BY <1>2, LearnEvictsNothing
  <2>4. Sound(n, t) /\ Usable(t) /\ orig \in Node
    BY LearnKeepsSound, MessageFields
  <2> HIDE DEF t, orig
  <2>5. HasRoute(t, orig) /\ NextHop(t, orig) = from
    <3>1. 1 \in 1 .. Len(t)
      BY <2>1, <2>3
    <3> QED BY <2>2, <2>4, <3>1, LookupIsTheTuple DEF Holds
  <2>6. ASSUME NEW d \in Node, HasRoute(rs, d)
        PROVE  HasRoute(t, d) /\ NextHop(t, d) = NextHop(rs, d)
    <3>1. PICK i \in 1 .. Len(rs) : rs[i].R_dest_addr = d
      BY <2>6, LookupIsTheTuple DEF Holds
    <3>2. i + 1 \in 1 .. Len(t) /\ t[i + 1] = rs[i]
      BY <2>3
    <3>3. NextHop(rs, d) = rs[i].R_next_addr
      BY <3>1, LookupIsTheTuple
    <3>4. HasRoute(t, d) /\ NextHop(t, d) = t[i + 1].R_next_addr
      BY <2>4, <3>1, <3>2, LookupIsTheTuple DEF Holds
    <3> QED BY <3>2, <3>3, <3>4
  <2>7. ASSUME NEW d \in Node, d # orig, HasRoute(t, d)
        PROVE  HasRoute(rs, d)
    <3>1. PICK i \in 1 .. Len(t) : t[i].R_dest_addr = d
      BY <2>4, <2>7, LookupIsTheTuple DEF Holds
    <3>2. i # 1
      BY <2>2, <2>7, <3>1
    <3>3. i - 1 \in 1 .. Len(rs) /\ t[i] = rs[i - 1]
      BY <2>1, <2>2, <2>3, <3>2
    <3> QED BY <3>1, <3>3, LookupIsTheTuple DEF Holds
  <2> QED BY <1>2, <2>4, <2>5, <2>6, <2>7 DEF t, orig
<1> QED BY <1>1, <1>2

(* A refresh changes neither what the lookups find nor where they lead.    *)
LEMMA RefreshEffect ==
  ASSUME NEW n \in Node, NEW rs, Sound(n, rs), Usable(rs), NEW dest
  PROVE  LET t == route_refresh(rs, route_lookup(rs, dest))
         IN  /\ Usable(t)
             /\ \A d : HasRoute(t, d) <=> HasRoute(rs, d)
             /\ \A d : HasRoute(t, d) => NextHop(t, d) = NextHop(rs, d)
<1> DEFINE i == route_lookup(rs, dest)
           t == route_refresh(rs, i)
<1>1. rs \in Seq(RouteTuple(Node, SeqNumber)) /\ i \in 0 .. Len(rs)
  BY LookupFinds DEF Sound, Fits
<1>2. Sound(n, t)
  BY RefreshKeepsSound
<1> HIDE DEF i
<1>3. /\ t \in Seq(RouteTuple(Node, SeqNumber)) /\ Len(t) = Len(rs)
      /\ \A k \in 1 .. Len(rs) :
           t[k] = IF k = i THEN [rs[k] EXCEPT !.R_valid_time = 0] ELSE rs[k]
  BY <1>1, RefreshElements
<1>4. \A k \in 1 .. Len(rs) : rs[k] \in RouteTuple(Node, SeqNumber)
  BY <1>1, SetElements
<1> HIDE DEF t
<1>5. \A k \in 1 .. Len(rs) :
        /\ t[k].R_dest_addr = rs[k].R_dest_addr
        /\ t[k].R_next_addr = rs[k].R_next_addr
        /\ t[k].route_cost = rs[k].route_cost
  BY <1>3, <1>4 DEF RouteTuple
<1>6. Usable(t)
  BY <1>3, <1>5 DEF Usable
<1>7. ASSUME NEW d
      PROVE  HasRoute(t, d) <=> HasRoute(rs, d)
  <2>1. Holds(t, d) <=> Holds(rs, d)
    BY <1>3, <1>5 DEF Holds
  <2> QED BY <1>2, <1>6, <2>1, LookupIsTheTuple
<1>8. ASSUME NEW d, HasRoute(t, d)
      PROVE  NextHop(t, d) = NextHop(rs, d)
  <2>1. PICK k \in 1 .. Len(t) : t[k].R_dest_addr = d
    BY <1>2, <1>6, <1>8, LookupIsTheTuple DEF Holds
  <2>2. NextHop(t, d) = t[k].R_next_addr
    BY <1>2, <1>6, <2>1, LookupIsTheTuple
  <2>3. NextHop(rs, d) = rs[k].R_next_addr
    BY <1>3, <1>5, <2>1, LookupIsTheTuple
  <2> QED BY <1>3, <1>5, <2>1, <2>2, <2>3
<1> QED BY <1>6, <1>7, <1>8 DEF t, i

-----------------------------------------------------------------------------
(* The inductive invariant: who relays a request of o, or hands on a reply *)
(* of o, knows the way to o; the two counters of a request add up; and the *)
(* nodes with a route to d can be ranked so that every next hop ranks      *)
(* lower.                                                                  *)
RequestOK(n, msg) ==
  /\ Knows(n, msg.originator)
  /\ msg.hop_count + msg.hop_limit = MAX_HOP_LIMIT

ReplyOK(f) ==
  /\ f.msg.hop_count = 0
  /\ Knows(f.from, f.msg.originator)
  /\ Knows(f.to, f.msg.destination)

Leads(routes, rank, n, m, d) ==
  \/ m = d
  \/ m \in Node /\ HasRoute(routes[m], d) /\ rank[m] < rank[n]

Ranked(d) ==
  \E rank \in [Node -> Nat] :
    \A n \in Node : HasRoute(route[n], d) => Leads(route, rank, n, NextHop(route[n], d), d)

PathsOK ==
  /\ \A n \in Node : open[n]
  /\ \A n \in Node : Usable(route[n])
  /\ \A f \in rreqs : RequestOK(f.from, f.packet.msg)
  /\ \A n \in Node : \A p \in held[n] : RequestOK(n, p.msg)
  /\ \A f \in rreps : ReplyOK(f)
  /\ \A d \in Node : Ranked(d)

(* What a step does to the routes: they stay ranked and nobody forgets.    *)
RoutesGrow ==
  /\ \A n \in Node : Usable(route[n])'
  /\ \A d \in Node : Ranked(d)'
  /\ \A n, d \in Node : Knows(n, d) => Knows(n, d)'

PathsHold == PathsOK' /\ RoutesGrow

(* What a step does in which n may learn a route to o through from.        *)
Teaches(n, o, from) ==
  /\ \A k \in Node : Usable(route'[k])
  /\ \A k, d \in Node :
       HasRoute(route'[k], d) <=> HasRoute(route[k], d) \/ (k = n /\ d = o)
  /\ \A k, d \in Node :
       HasRoute(route[k], d) => NextHop(route'[k], d) = NextHop(route[k], d)
  /\ ~HasRoute(route[n], o) => NextHop(route'[n], o) = from

LEMMA LearnTeaches ==
  ASSUME IInv, PathsOK, RoutesKept', NEW n \in Node, NEW from \in Node,
         NEW msg \in RreqMessage \cup RrepMessage, msg.originator # n,
         route' = [route EXCEPT ![n] = Learn(@, msg, from)]
  PROVE  msg.originator \in Node /\ Teaches(n, msg.originator, from)
<1> DEFINE o == msg.originator
           t == Learn(route[n], msg, from)
<1>1. o \in Node /\ NUM_RS_ENTRIES >= Cardinality(Node)
  BY MessageFields DEF RoutesKept
<1>2. Sound(n, route[n]) /\ Usable(route[n])
  BY DEF IInv, RoutesOK, PathsOK
<1>3. \A k \in Node : route'[k] = IF k = n THEN t ELSE route[k]
  BY DEF IInv, RoutesOK
<1>4. Usable(t)
  <2>1. Sound(n, t)
    BY <1>2, LearnKeepsSound
  <2> QED BY <1>3, <2>1, CheapIsUsable DEF RoutesKept, CostsTrue
<1>5. /\ \A d \in Node : HasRoute(t, d) <=> HasRoute(route[n], d) \/ d = o
      /\ \A d \in Node :
           HasRoute(t, d) =>
             NextHop(t, d) = IF HasRoute(route[n], d) THEN NextHop(route[n], d) ELSE from
  BY <1>1, <1>2, <1>4, LearnEffect
<1> HIDE DEF t
<1>6. \A k \in Node : Usable(route'[k])
  BY <1>3, <1>4 DEF PathsOK
<1>7. \A k, d \in Node :
        HasRoute(route'[k], d) <=> HasRoute(route[k], d) \/ (k = n /\ d = o)
  BY <1>3, <1>5
<1>8. \A k, d \in Node :
        HasRoute(route[k], d) => NextHop(route'[k], d) = NextHop(route[k], d)
  BY <1>3, <1>5
<1>9. ~HasRoute(route[n], o) => NextHop(route'[n], o) = from
  BY <1>1, <1>3, <1>5
<1> QED BY <1>1, <1>6, <1>7, <1>8, <1>9 DEF Teaches

(* A node that learns ranks above the node it learned from.                *)
LEMMA LearnGrows ==
  ASSUME IInv, PathsOK, RoutesKept', NEW n \in Node, NEW from \in Node,
         NEW msg \in RreqMessage \cup RrepMessage, msg.originator # n,
         Knows(from, msg.originator),
         route' = [route EXCEPT ![n] = Learn(@, msg, from)]
  PROVE  RoutesGrow /\ Knows(n, msg.originator)'
<1> DEFINE o == msg.originator
<1>1. o \in Node /\ Teaches(n, o, from)
  BY LearnTeaches
<1>5. \A k \in Node : Usable(route'[k])
  BY <1>1 DEF Teaches
<1>6. \A k, d \in Node :
        HasRoute(route'[k], d) <=> HasRoute(route[k], d) \/ (k = n /\ d = o)
  BY <1>1 DEF Teaches
<1>7. \A k, d \in Node :
        HasRoute(route[k], d) => NextHop(route'[k], d) = NextHop(route[k], d)
  BY <1>1 DEF Teaches
<1>8. ~HasRoute(route[n], o) => NextHop(route'[n], o) = from
  BY <1>1 DEF Teaches
<1>9. ASSUME NEW d \in Node
      PROVE  Ranked(d)'
  <2>1. PICK rank \in [Node -> Nat] :
          \A k \in Node : HasRoute(route[k], d) => Leads(route, rank, k, NextHop(route[k], d), d)
    BY DEF PathsOK, Ranked
  <2>2. CASE HasRoute(route[n], d) \/ d # o
    <3>1. \A k \in Node : HasRoute(route'[k], d) <=> HasRoute(route[k], d)
      BY <1>6, <2>2
    <3>2. \A k \in Node :
            HasRoute(route'[k], d) => Leads(route', rank, k, NextHop(route'[k], d), d)
      BY <1>7, <2>1, <3>1 DEF Leads
    <3> QED BY <3>2 DEF Ranked
  <2>3. CASE ~HasRoute(route[n], d) /\ d = o
    <3> DEFINE above == [rank EXCEPT ![n] = rank[from] + 1]
    <3>1. above \in [Node -> Nat]
      BY <2>1
    <3>2. \A k \in Node : above[k] = IF k = n THEN rank[from] + 1 ELSE rank[k]
      BY <2>1
    <3>3. rank[from] \in Nat
      BY <2>1
    <3> HIDE DEF above
    <3>4. Leads(route', above, n, NextHop(route'[n], d), d)
      <4>1. NextHop(route'[n], d) = from
        BY <1>8, <2>3
      <4>2. from = d \/ HasRoute(route[from], d)
        BY <2>3 DEF Knows
      <4>3. HasRoute(route[from], d) => from # n /\ HasRoute(route'[from], d)
        BY <1>6, <2>3
      <4>4. from # n => above[from] < above[n]
        BY <3>2, <3>3
      <4> QED BY <4>1, <4>2, <4>3, <4>4 DEF Leads
    <3>5. ASSUME NEW k \in Node, k # n, HasRoute(route'[k], d)
          PROVE  Leads(route', above, k, NextHop(route'[k], d), d)
      <4> DEFINE m == NextHop(route[k], d)
      <4>1. HasRoute(route[k], d) /\ NextHop(route'[k], d) = m
        BY <1>6, <1>7, <3>5
      <4>2. m = d \/ (m \in Node /\ HasRoute(route[m], d) /\ rank[m] < rank[k])
        BY <2>1, <4>1 DEF Leads
      <4> HIDE DEF m
      <4>3. CASE m = d
        BY <4>1, <4>3 DEF Leads
      <4>4. CASE m \in Node /\ HasRoute(route[m], d) /\ rank[m] < rank[k]
        <5>1. m # n /\ HasRoute(route'[m], d)
          BY <1>6, <2>3, <4>4
        <5>2. above[m] < above[k]
          BY <3>2, <3>5, <4>4, <5>1
        <5> QED BY <4>1, <4>4, <5>1, <5>2 DEF Leads
      <4> QED BY <4>2, <4>3, <4>4
    <3>6. \A k \in Node :
            HasRoute(route'[k], d) => Leads(route', above, k, NextHop(route'[k], d), d)
      BY <3>4, <3>5
    <3> QED BY <3>1, <3>6 DEF Ranked
  <2> QED BY <2>2, <2>3
<1> QED BY <1>1, <1>5, <1>6, <1>9 DEF RoutesGrow, Knows

(* Steps that change no lookup.                                            *)
LEMMA SameRoutesGrow ==
  ASSUME PathsOK,
         \A k \in Node : Usable(route[k])',
         \A k, d \in Node : HasRoute(route'[k], d) <=> HasRoute(route[k], d),
         \A k, d \in Node :
           HasRoute(route'[k], d) => NextHop(route'[k], d) = NextHop(route[k], d)
  PROVE  RoutesGrow
<1>1. ASSUME NEW d \in Node
      PROVE  Ranked(d)'
  <2>1. PICK rank \in [Node -> Nat] :
          \A k \in Node : HasRoute(route[k], d) => Leads(route, rank, k, NextHop(route[k], d), d)
    BY DEF PathsOK, Ranked
  <2>2. \A k \in Node :
          HasRoute(route'[k], d) => Leads(route', rank, k, NextHop(route'[k], d), d)
    BY <2>1 DEF Leads
  <2> QED BY <2>2 DEF Ranked
<1> QED BY <1>1 DEF RoutesGrow, Knows

-----------------------------------------------------------------------------
(* Costs that are true after a node has learned from a message, or has     *)
(* refreshed a route, were true before: no tuple has gone.                 *)
LEMMA LearnKeepsCosts ==
  ASSUME IInv, RoutesKept', NEW n \in Node, NEW from \in Node,
         NEW msg \in RreqMessage \cup RrepMessage, msg.originator # n,
         route' = [route EXCEPT ![n] = Learn(@, msg, from)]
  PROVE  CostsTrue
<1> DEFINE t == Learn(route[n], msg, from)
<1>1. \A k \in Node : route'[k] = IF k = n THEN t ELSE route[k]
  BY DEF IInv, RoutesOK
<1>2. /\ \A k \in Node : \A i \in DOMAIN route'[k] :
           route'[k][i].route_cost \in 1 .. UINT8_MAX - 1
      /\ NUM_RS_ENTRIES >= Cardinality(Node)
  BY DEF RoutesKept, CostsTrue
<1>3. Sound(n, route[n]) /\ Sound(n, t)
  BY LearnKeepsSound DEF IInv, RoutesOK
<1>4. ASSUME NEW i \in DOMAIN route[n]
      PROVE  route[n][i].route_cost \in 1 .. UINT8_MAX - 1
  <2>1. CASE HasRoute(route[n], msg.originator)
    <3>1. route'[n] = route[n]
      BY <1>1, <2>1 DEF Learn
    <3> QED BY <1>2, <3>1
  <2>2. CASE ~HasRoute(route[n], msg.originator)
    <3>1. DOMAIN route[n] = 1 .. Len(route[n]) /\ DOMAIN t = 1 .. Len(t)
      <4> HIDE DEF t
      <4> QED BY <1>3 DEF Sound, Fits
    <3>2. Usable(t)
      BY <1>1, <1>2, <1>3, CheapIsUsable
    <3>3. i + 1 \in 1 .. Len(t) /\ t[i + 1] = route[n][i]
      BY <1>2, <1>3, <2>2, <3>1, <3>2, LearnEvictsNothing
    <3> HIDE DEF t
    <3> QED BY <1>1, <1>2, <3>1, <3>3
  <2> QED BY <2>1, <2>2
<1> HIDE DEF t
<1>5. ASSUME NEW k \in Node, NEW i \in DOMAIN route[k]
      PROVE  route[k][i].route_cost \in 1 .. UINT8_MAX - 1
  <2>1. CASE k = n
    BY <1>4, <2>1
  <2>2. CASE k # n
    BY <1>1, <1>2, <2>2
  <2> QED BY <2>1, <2>2
<1> QED BY <1>5 DEF CostsTrue

(* A refresh leaves every cost as it is, in the set and in the network.    *)
LEMMA RefreshedCosts ==
  ASSUME NEW rs \in Seq(RouteTuple(Node, SeqNumber)), NEW d
  PROVE  LET t == route_refresh(rs, route_lookup(rs, d))
         IN  /\ DOMAIN t = DOMAIN rs
             /\ \A k \in DOMAIN rs : t[k].route_cost = rs[k].route_cost
<1> DEFINE i == route_lookup(rs, d)
           t == route_refresh(rs, i)
<1>1. i \in 0 .. Len(rs)
  BY LookupFinds
<1> HIDE DEF i
<1>2. /\ t \in Seq(RouteTuple(Node, SeqNumber)) /\ Len(t) = Len(rs)
      /\ \A k \in 1 .. Len(rs) :
           t[k] = IF k = i THEN [rs[k] EXCEPT !.R_valid_time = 0] ELSE rs[k]
  BY <1>1, RefreshElements
<1>3. \A k \in 1 .. Len(rs) : rs[k] \in RouteTuple(Node, SeqNumber)
  BY SetElements
<1> HIDE DEF t
<1>4. DOMAIN t = 1 .. Len(rs) /\ DOMAIN rs = 1 .. Len(rs)
  BY <1>2
<1>5. \A k \in 1 .. Len(rs) : t[k].route_cost = rs[k].route_cost
  BY <1>2, <1>3 DEF RouteTuple
<1> QED BY <1>4, <1>5 DEF t, i

LEMMA RefreshKeepsCosts ==
  ASSUME IInv, CostsTrue', NEW n \in Node, NEW d \in Node, DataReceived(n, d)
  PROVE  CostsTrue
<1> DEFINE t == route_refresh(route[n], route_lookup(route[n], d))
<1>1. \A k \in Node : route'[k] = IF k = n THEN t ELSE route[k]
  BY DEF DataReceived, IInv, RoutesOK
<1>2. /\ DOMAIN t = DOMAIN route[n]
      /\ \A k \in DOMAIN route[n] : t[k].route_cost = route[n][k].route_cost
  <2>1. route[n] \in Seq(RouteTuple(Node, SeqNumber))
    BY DEF IInv, RoutesOK, Sound, Fits
  <2> QED BY <2>1, RefreshedCosts
<1> HIDE DEF t
<1>3. ASSUME NEW k \in Node, NEW j \in DOMAIN route[k]
      PROVE  route[k][j].route_cost \in 1 .. UINT8_MAX - 1
  <2>1. \A m \in DOMAIN route'[k] : route'[k][m].route_cost \in 1 .. UINT8_MAX - 1
    BY DEF CostsTrue
  <2>2. CASE k = n
    BY <1>1, <1>2, <2>1, <2>2
  <2>3. CASE k # n
    BY <1>1, <2>1, <2>3
  <2> QED BY <2>2, <2>3
<1> QED BY <1>3 DEF CostsTrue

(* Routes that are kept after a step were kept before it, and the step was *)
(* no tick and no restart.                                                 *)
LEMMA KeptBefore ==
  ASSUME IInv, Next, RoutesKept'
  PROVE  /\ RoutesKept
         /\ \A n \in Node : ~Tick(n) /\ ~Close(n) /\ ~Reboot(n)
<1>1. /\ spent \in [{"discover", "tick", "airtick", "loss", "restart"} -> Nat]
      /\ spent'["tick"] = 0 /\ spent'["restart"] = 0
  BY NetworkAssumption DEF IInv, HistoryOK, RoutesKept
<1>2. ASSUME spent' = spent
      PROVE  spent["tick"] = 0 /\ spent["restart"] = 0
  BY <1>1, <1>2
<1>3. ASSUME NEW k \in {"loss", "restart"}, Spend(k)
      PROVE  spent["tick"] = 0 /\ spent["restart"] = 0 /\ k = "loss"
  BY <1>1, <1>3 DEF Spend
<1>4. ASSUME NEW n \in Node
      PROVE  ~Tick(n) /\ ~Close(n) /\ ~Reboot(n)
  BY <1>1, <1>3 DEF Tick, Close, Reboot
<1>5. ASSUME NEW n \in Node, NEW d \in Node, Discover(n, d)
      PROVE  spent["tick"] = 0 /\ spent["restart"] = 0
  BY <1>1, <1>5 DEF Discover
<1>6. ASSUME NEW n \in Node, NEW f \in rreqs, RreqReceived(n, f)
      PROVE  spent' = spent
  BY <1>6 DEF RreqReceived, RreqDuplicate, RreqRejected, RreqAnswered, RreqForwarded,
              RreqExhausted, historyVars
<1>7. ASSUME NEW n \in Node, NEW f \in rreps, RrepReceived(n, f)
      PROVE  spent' = spent
  BY <1>7 DEF RrepReceived, RrepRejected, RrepForwarded, RrepForUs, historyVars
<1>8. ASSUME NEW n \in Node, Relay(n) \/ Timeout(n) \/ Open(n)
      PROVE  spent' = spent
  BY <1>8 DEF Relay, Timeout, Open, historyVars
<1>9. ASSUME NEW n \in Node, NEW d \in Node, DataReceived(n, d)
      PROVE  spent' = spent
  BY <1>9 DEF DataReceived, historyVars
<1>10. ASSUME NEW f \in rreqs \cup rreps, Lose(f) \/ Unheard(f)
       PROVE  spent["tick"] = 0 /\ spent["restart"] = 0
  BY <1>2, <1>3, <1>10 DEF Lose, Unheard, historyVars
<1>11. spent["tick"] = 0 /\ spent["restart"] = 0
  BY <1>2, <1>4, <1>5, <1>6, <1>7, <1>8, <1>9, <1>10 DEF Next
<1>12. CostsTrue
  <2>1. CASE UNCHANGED route
    BY <2>1 DEF RoutesKept, CostsTrue
  <2>2. ASSUME NEW n \in Node, NEW f \in rreqs, Accepted(n, f)
        PROVE  CostsTrue
    <3>1. f.from \in Node /\ f.packet.msg \in RreqMessage
      BY RreqFieldsOK DEF IInv
    <3> QED BY <2>2, <3>1, LearnKeepsCosts DEF Accepted, ValidRreq
  <2>3. ASSUME NEW n \in Node, NEW f \in rreqs, RreqReceived(n, f)
        PROVE  CostsTrue
    BY <2>1, <2>2, <2>3 DEF RreqReceived, RreqDuplicate, RreqRejected, RreqAnswered,
                            RreqForwarded, RreqExhausted, protocolVars
  <2>4. ASSUME NEW n \in Node, NEW f \in rreps, RrepReceived(n, f)
        PROVE  CostsTrue
    <3>1. f.from \in Node /\ f.msg \in RrepMessage
      BY RrepFieldsOK DEF IInv
    <3>2. CASE RrepRejected(n, f)
      BY <2>1, <3>2 DEF RrepRejected, protocolVars
    <3>3. CASE RrepForwarded(n, f) \/ RrepForUs(n, f)
      BY <3>1, <3>3, LearnKeepsCosts DEF RrepForwarded, RrepForUs, ValidRrep
    <3> QED BY <2>4, <3>2, <3>3 DEF RrepReceived
  <2>5. ASSUME NEW n \in Node, NEW d \in Node, Discover(n, d)
        PROVE  CostsTrue
    BY <2>1, <2>5 DEF Discover
  <2>6. ASSUME NEW n \in Node, Relay(n) \/ Timeout(n)
        PROVE  CostsTrue
    BY <2>1, <2>6 DEF Relay, Timeout, protocolVars
  <2>7. ASSUME NEW n \in Node, Open(n)
        PROVE  FALSE
    BY <1>11, <2>7 DEF Open, IInv, OpenOK
  <2>8. ASSUME NEW n \in Node, NEW d \in Node, DataReceived(n, d)
        PROVE  CostsTrue
    <3>1. CostsTrue'
      BY DEF RoutesKept
    <3> QED BY <2>8, <3>1, RefreshKeepsCosts
  <2>9. ASSUME NEW f \in rreqs \cup rreps, Lose(f) \/ Unheard(f)
        PROVE  CostsTrue
    BY <2>1, <2>9 DEF Lose, Unheard, protocolVars
  <2> QED BY <1>4, <2>3, <2>4, <2>5, <2>6, <2>7, <2>8, <2>9 DEF Next
<1> QED BY <1>4, <1>11, <1>12 DEF RoutesKept

(* What is left in the air and in ipolite stays good while the routes      *)
(* grow, so that a step has to account for new messages only.              *)
LEMMA NewMessagesMatter ==
  ASSUME IInv, PathsOK, RoutesGrow, UNCHANGED open,
         \A f \in rreqs' : f \in rreqs \/ RequestOK(f.from, f.packet.msg)',
         \A k \in Node : \A p \in held'[k] : p \in held[k] \/ RequestOK(k, p.msg)',
         \A f \in rreps' : f \in rreps \/ ReplyOK(f)'
  PROVE  PathsHold
<1>1. ASSUME NEW k \in Node, NEW msg \in RreqMessage, RequestOK(k, msg)
      PROVE  RequestOK(k, msg)'
  BY <1>1, MessageFields DEF RequestOK, RoutesGrow
<1>2. \A f \in rreqs' : RequestOK(f.from, f.packet.msg)'
  BY <1>1, RreqFieldsOK DEF PathsOK, IInv
<1>3. ASSUME NEW k \in Node, NEW p \in held'[k]
      PROVE  RequestOK(k, p.msg)'
  <2>1. CASE p \in held[k]
    <3>1. p.msg \in RreqMessage
      BY <2>1 DEF IInv, FloodsOK, FloodPacket
    <3> QED BY <1>1, <2>1, <3>1 DEF PathsOK
  <2> QED BY <2>1
<1>4. ASSUME NEW f \in rreps'
      PROVE  ReplyOK(f)'
  <2>1. CASE f \in rreps
    <3>1. f.to \in Node /\ f.from \in Node /\ f.msg \in RrepMessage
      BY <2>1, RrepFieldsOK DEF IInv
    <3> QED BY <2>1, <3>1, MessageFields DEF PathsOK, ReplyOK, RoutesGrow
  <2> QED BY <2>1
<1> QED BY <1>2, <1>3, <1>4 DEF PathsOK, RoutesGrow, PathsHold

(* A message that stays behind, unchanged routes: nothing to account for.  *)
LEMMA UnchangedRoutesGrow ==
  ASSUME PathsOK, route' = route
  PROVE  RoutesGrow
<1>1. \A k \in Node : Usable(route[k])'
  BY DEF PathsOK
<1> QED BY <1>1, SameRoutesGrow

(* A request that goes out carries what its sender put in.                 *)
LEMMA BroadcastMessages ==
  ASSUME NEW n, NEW packet, NEW f \in Broadcast(n, packet)
  PROVE  f.from = n /\ f.packet = packet
BY DEF Broadcast

(* netflood keeps only what it kept before or the packet it was given.     *)
LEMMA RebroadcastMessages ==
  ASSUME IInv, NEW n \in Node, NEW packet \in FloodPacket,
         NEW waiting \in SUBSET held[n], NEW latest,
         Rebroadcast(n, packet, waiting, latest),
         NEW k \in Node, NEW p \in held'[k]
  PROVE  p \in held[k] \/ (k = n /\ p.msg = packet.msg)
<1>1. held \in [Node -> SUBSET FloodPacket]
  BY DEF IInv, FloodsOK
<1>2. CASE held' = [held EXCEPT ![n] = {[packet EXCEPT !.hops = @ + 1]}]
  BY <1>1, <1>2 DEF FloodPacket
<1>3. CASE held' = [held EXCEPT ![n] = waiting]
  BY <1>1, <1>3
<1> QED BY <1>2, <1>3 DEF Rebroadcast

(* A reply is sent to the next hop of its sender: a node that knows the    *)
(* way, since the routes are ranked.                                       *)
LEMMA SentReplyOK ==
  ASSUME RoutesGrow, NEW n \in Node, NEW msg \in RrepMessage,
         Knows(n, msg.originator)', NEW f \in send_rrep(n, route'[n], msg)
  PROVE  ReplyOK(f)'
<1> DEFINE d == msg.destination
<1>1. /\ HasRoute(route'[n], d)
      /\ f.to = NextHop(route'[n], d) /\ f.from = n
      /\ f.msg = [msg EXCEPT !.hop_count = 0]
  BY DEF send_rrep
<1>2. /\ f.msg.hop_count = 0 /\ f.msg.destination = d
      /\ f.msg.originator = msg.originator /\ d \in Node
  BY <1>1 DEF RrepMessage
<1>3. PICK rank \in [Node -> Nat] :
        \A k \in Node :
          HasRoute(route'[k], d) => Leads(route', rank, k, NextHop(route'[k], d), d)
  BY <1>2 DEF RoutesGrow, Ranked
<1>4. f.to = d \/ HasRoute(route'[f.to], d)
  BY <1>1, <1>3 DEF Leads
<1> QED BY <1>1, <1>2, <1>4 DEF ReplyOK, Knows

(* A request that passes valid_check teaches its receiver the way back.    *)
LEMMA AcceptedGrows ==
  ASSUME IInv, PathsOK, RoutesKept', NEW n \in Node, NEW f \in rreqs, Accepted(n, f)
  PROVE  RoutesGrow /\ Knows(n, f.packet.msg.originator)'
<1>1. f.from \in Node /\ f.packet.msg \in RreqMessage
  BY RreqFieldsOK DEF IInv
<1>2. Knows(f.from, f.packet.msg.originator)
  BY DEF PathsOK, RequestOK
<1> QED BY <1>1, <1>2, LearnGrows DEF Accepted, ValidRreq

(* Requests keep the paths: also those that a node relays although it      *)
(* rejects them, which are its own or about a route it has.                *)
LEMMA RequestKeepsPaths ==
  ASSUME IInv, PathsOK, RoutesKept, RoutesKept',
         NEW n \in Node, NEW f \in rreqs, RreqReceived(n, f)
  PROVE  PathsHold
<1> DEFINE msg == f.packet.msg
           quiet == NotHeard(n, f.packet.id)
<1>1. f.from \in Node /\ f.packet \in FloodPacket /\ msg \in RreqMessage
  BY RreqFieldsOK DEF IInv
<1>2. RequestOK(f.from, msg)
  BY DEF PathsOK
<1>3. quiet \in SUBSET held[n]
  BY DEF NotHeard
<1>4. CASE RreqDuplicate(n, f)
  <2>1. /\ route' = route /\ open' = open /\ rreps' = rreps
        /\ rreqs' = rreqs \ {f} /\ held' = [held EXCEPT ![n] = quiet]
    BY <1>4 DEF RreqDuplicate, protocolVars
  <2>2. \A k \in Node : held'[k] \subseteq held[k]
    BY <1>3, <2>1 DEF IInv, FloodsOK
  <2> QED BY <2>1, <2>2, UnchangedRoutesGrow, NewMessagesMatter
<1>5. CASE RreqRejected(n, f)
  <2>1. /\ route' = route /\ open' = open /\ rreps' = rreps /\ rreqs' = rreqs \ {f}
        /\ Rebroadcast(n, f.packet, quiet, last[n])
    BY <1>5 DEF RreqRejected, protocolVars
  <2>2. Knows(n, msg.originator)
    BY <1>5 DEF RreqRejected, ValidRreq, Stale, RoutesKept, Knows
  <2>3. RequestOK(n, msg)'
    BY <1>2, <2>1, <2>2 DEF RequestOK, Knows
  <2>4. \A k \in Node : \A p \in held'[k] : p \in held[k] \/ RequestOK(k, p.msg)'
    <3> HIDE DEF quiet
    <3> QED BY <1>1, <1>3, <2>1, <2>3, RebroadcastMessages
  <2> QED BY <2>1, <2>4, UnchangedRoutesGrow, NewMessagesMatter
<1>6. CASE Accepted(n, f) /\ ~RreqForwarded(n, f)
  <2>1. /\ open' = open /\ rreqs' = rreqs \ {f}
        /\ Rebroadcast(n, f.packet, quiet, last[n])
        /\ \/ rreps' = rreps
           \/ /\ msg.destination = n
              /\ rreps' = rreps \cup send_rrep(n, route'[n], Answer(n, msg))
    BY <1>6 DEF RreqReceived, RreqDuplicate, RreqRejected, RreqAnswered, RreqExhausted, Accepted
  <2>2. RoutesGrow /\ Knows(n, msg.originator)'
    BY <1>6, AcceptedGrows
  <2>3. RequestOK(n, msg)'
    BY <1>2, <2>2 DEF RequestOK
  <2>4. \A k \in Node : \A p \in held'[k] : p \in held[k] \/ RequestOK(k, p.msg)'
    <3> HIDE DEF quiet
    <3> QED BY <1>1, <1>3, <2>1, <2>3, RebroadcastMessages
  <2>5. \A g \in rreps' : g \in rreps \/ ReplyOK(g)'
    <3>1. CASE msg.destination = n /\ rreps' = rreps \cup send_rrep(n, route'[n], Answer(n, msg))
      <4>1. PICK answer \in RrepMessage : answer = Answer(n, msg)
        BY <1>1, AnswerType DEF IInv
      <4>2. Knows(n, answer.originator)'
        BY <3>1, <4>1 DEF Answer, Knows
      <4>3. \A g \in send_rrep(n, route'[n], answer) : ReplyOK(g)'
        BY <2>2, <4>2, SentReplyOK
      <4> QED BY <3>1, <4>1, <4>3
    <3> QED BY <2>1, <3>1
  <2> QED BY <2>1, <2>2, <2>4, <2>5, NewMessagesMatter
<1>7. CASE RreqForwarded(n, f)
  <2> DEFINE sent == [msg EXCEPT !.hop_count = @ + 1, !.hop_limit = @ - 1]
  <2>1. /\ Accepted(n, f) /\ open' = open /\ rreps' = rreps
        /\ rreqs' = (rreqs \ {f}) \cup send_rreq(n, sent)
        /\ \E packets \in MaybeFreed(quiet) :
             Rebroadcast(n, f.packet, packets, OwnId(n, sent))
    BY <1>7 DEF RreqForwarded
  <2>2. RoutesGrow /\ Knows(n, msg.originator)'
    BY <2>1, AcceptedGrows
  <2>3. RequestOK(n, msg)'
    BY <1>2, <2>2 DEF RequestOK
  <2>4. RequestOK(n, sent)'
    <3>1. /\ sent.originator = msg.originator
          /\ sent.hop_count + sent.hop_limit = msg.hop_count + msg.hop_limit
      BY <1>1, NetworkAssumption, TableAssumption DEF RreqMessage, HopCount
    <3> QED BY <2>3, <3>1 DEF RequestOK
  <2> HIDE DEF sent
  <2>5. PICK packets \in MaybeFreed(quiet) :
          Rebroadcast(n, f.packet, packets, OwnId(n, sent))
    BY <2>1
  <2>6. packets \in SUBSET held[n]
    BY <1>3, <2>5 DEF MaybeFreed
  <2>7. \A k \in Node : \A p \in held'[k] : p \in held[k] \/ RequestOK(k, p.msg)'
    BY <1>1, <2>3, <2>5, <2>6, RebroadcastMessages
  <2>8. \A g \in rreqs' : g \in rreqs \/ RequestOK(g.from, g.packet.msg)'
    <3>1. ASSUME NEW g \in send_rreq(n, sent)
          PROVE  g.from = n /\ g.packet.msg = sent
      BY BroadcastMessages DEF send_rreq
    <3> QED BY <2>1, <2>4, <3>1
  <2> QED BY <2>1, <2>2, <2>7, <2>8, NewMessagesMatter
<1> QED BY <1>4, <1>5, <1>6, <1>7
     DEF RreqReceived, RreqAnswered, RreqForwarded, RreqExhausted

(* Replies keep the paths, and can be handed on in turn.                   *)
LEMMA ReplyKeepsPaths ==
  ASSUME IInv, PathsOK, RoutesKept, RoutesKept',
         NEW n \in Node, NEW f \in rreps, RrepReceived(n, f)
  PROVE  PathsHold
<1>1. /\ f.from \in Node /\ f.msg \in RrepMessage
      /\ f.msg.hop_count = 0 /\ Knows(f.from, f.msg.originator)
  BY RrepFieldsOK DEF IInv, PathsOK, ReplyOK
<1>2. /\ UNCHANGED <<open, rreqs, held>>
      /\ rreps' = rreps \ {f} \/ rreps' = (rreps \ {f}) \cup send_rrep(n, route'[n], f.msg)
  BY DEF RrepReceived, RrepRejected, RrepForwarded, RrepForUs, protocolVars, floodVars
<1>3. CASE RrepRejected(n, f)
  <2>1. route' = route /\ rreps' = rreps \ {f}
    BY <1>3 DEF RrepRejected, protocolVars
  <2> QED BY <1>2, <2>1, UnchangedRoutesGrow, NewMessagesMatter
<1>4. CASE RrepForwarded(n, f) \/ RrepForUs(n, f)
  <2>1. f.msg.originator # n /\ route' = [route EXCEPT ![n] = Learn(@, f.msg, f.from)]
    BY <1>4 DEF RrepForwarded, RrepForUs, ValidRrep
  <2>3. RoutesGrow /\ Knows(n, f.msg.originator)'
    BY <1>1, <2>1, LearnGrows
  <2>4. \A g \in rreps' : g \in rreps \/ ReplyOK(g)'
    BY <1>1, <1>2, <2>3, SentReplyOK
  <2> QED BY <1>2, <2>3, <2>4, NewMessagesMatter
<1> QED BY <1>3, <1>4 DEF RrepReceived

(* Every other step: a discovery sends a request of its own node, a relay  *)
(* one that was held, and the rest sends nothing.                          *)
LEMMA PathsKept ==
  ASSUME IInv, PathsOK, RoutesKept, RoutesKept', Next
  PROVE  PathsHold
<1>1. ASSUME NEW n \in Node, NEW d \in Node, Discover(n, d)
      PROVE  PathsHold
  <2>0. PICK msg : msg = rreq_initial(n, d)
    OBVIOUS
  <2>1. /\ route' = route /\ open' = open /\ rreps' = rreps
        /\ rreqs' = rreqs \cup send_rreq(n, msg)
        /\ \E packets \in MaybeFreed(held[n]) : held' = [held EXCEPT ![n] = packets]
    BY <1>1, <2>0 DEF Discover
  <2>2. RequestOK(n, msg)'
    BY <2>0, NetworkAssumption DEF RequestOK, rreq_initial, Knows
  <2>3. \A f \in rreqs' : f \in rreqs \/ RequestOK(f.from, f.packet.msg)'
    <3>1. ASSUME NEW f \in send_rreq(n, msg)
          PROVE  f.from = n /\ f.packet.msg = msg
      BY BroadcastMessages DEF send_rreq
    <3> QED BY <2>1, <2>2, <3>1
  <2>4. \A k \in Node : held'[k] \subseteq held[k]
    BY <2>1 DEF MaybeFreed, IInv, FloodsOK
  <2> QED BY <2>1, <2>3, <2>4, UnchangedRoutesGrow, NewMessagesMatter
<1>2. ASSUME NEW n \in Node, Relay(n)
      PROVE  PathsHold
  <2>1. /\ route' = route /\ open' = open /\ rreps' = rreps
        /\ rreqs' = rreqs \cup UNION {Broadcast(n, p) : p \in held[n]}
        /\ held' = [held EXCEPT ![n] = {}]
    BY <1>2 DEF Relay, protocolVars
  <2>2. \A f \in rreqs' : f \in rreqs \/ RequestOK(f.from, f.packet.msg)'
    <3> SUFFICES ASSUME NEW p \in held[n], NEW f \in Broadcast(n, p)
                 PROVE  RequestOK(f.from, f.packet.msg)'
      BY <2>1
    <3>1. f.from = n /\ f.packet = p
      BY BroadcastMessages
    <3> QED BY <2>1, <3>1 DEF PathsOK, RequestOK, Knows
  <2>3. \A k \in Node : held'[k] \subseteq held[k]
    BY <2>1 DEF IInv, FloodsOK
  <2> QED BY <2>1, <2>2, <2>3, UnchangedRoutesGrow, NewMessagesMatter
<1>3. ASSUME NEW n \in Node, Timeout(n)
      PROVE  PathsHold
  BY <1>3, UnchangedRoutesGrow, NewMessagesMatter DEF Timeout, floodVars, airVars
<1>4. ASSUME NEW f \in rreqs \cup rreps, Lose(f) \/ Unheard(f)
      PROVE  PathsHold
  <2>1. /\ route' = route /\ open' = open /\ held' = held
        /\ rreqs' \subseteq rreqs /\ rreps' \subseteq rreps
    BY <1>4 DEF Lose, Unheard, protocolVars, floodVars
  <2> QED BY <2>1, UnchangedRoutesGrow, NewMessagesMatter
<1>5. ASSUME NEW n \in Node, Open(n)
      PROVE  FALSE
  BY <1>5 DEF Open, PathsOK
<1>6. ASSUME NEW n \in Node, NEW d \in Node, DataReceived(n, d)
      PROVE  PathsHold
  <2> DEFINE t == route_refresh(route[n], route_lookup(route[n], d))
  <2>1. Sound(n, route[n]) /\ Usable(route[n])
    BY DEF IInv, RoutesOK, PathsOK
  <2>2. /\ Usable(t)
        /\ \A e : HasRoute(t, e) <=> HasRoute(route[n], e)
        /\ \A e : HasRoute(t, e) => NextHop(t, e) = NextHop(route[n], e)
    BY <2>1, RefreshEffect
  <2>3. /\ UNCHANGED <<open, rreqs, held, rreps>>
        /\ \A k \in Node : route'[k] = IF k = n THEN t ELSE route[k]
    BY <1>6 DEF DataReceived, floodVars, airVars, IInv, RoutesOK
  <2> HIDE DEF t
  <2>4. RoutesGrow
    <3>1. \A k \in Node : Usable(route[k])'
      BY <2>2, <2>3 DEF PathsOK
    <3> QED BY <2>2, <2>3, <3>1, SameRoutesGrow
  <2> QED BY <2>3, <2>4, NewMessagesMatter
<1>7. \A n \in Node : ~Tick(n) /\ ~Close(n) /\ ~Reboot(n)
  BY KeptBefore
<1> QED BY <1>1, <1>2, <1>3, <1>4, <1>5, <1>6, <1>7, RequestKeepsPaths, ReplyKeepsPaths DEF Next

-----------------------------------------------------------------------------
(* As long as no route is given up, the invariant holds.                   *)
LEMMA PathInvariant == Spec => [](RoutesKept => PathsOK)
<1> DEFINE PInv == RoutesKept => PathsOK
<1>1. Init => PInv
  <2> SUFFICES ASSUME Init PROVE PathsOK
    OBVIOUS
  <2>1. \A n \in Node : Usable(route[n]) /\ \A d : ~HasRoute(route[n], d)
    BY DEF Init, Usable, HasRoute, route_lookup, Candidates
  <2>2. ASSUME NEW d \in Node
        PROVE  Ranked(d)
    <3>1. [n \in Node |-> 0] \in [Node -> Nat]
      OBVIOUS
    <3> QED BY <2>1, <3>1 DEF Ranked
  <2> QED BY <2>1, <2>2 DEF Init, PathsOK
<1>2. IInv /\ PInv /\ [Next]_vars => PInv'
  <2> SUFFICES ASSUME IInv, PInv, [Next]_vars, RoutesKept' PROVE PathsOK'
    OBVIOUS
  <2>1. CASE Next
    BY <2>1, KeptBefore, PathsKept DEF PathsHold
  <2>2. CASE UNCHANGED vars
    <3>1. /\ RoutesKept /\ UNCHANGED open /\ UNCHANGED route
          /\ UNCHANGED <<rreqs, held, rreps>>
      BY <2>2 DEF vars, protocolVars, floodVars, airVars, historyVars, RoutesKept, CostsTrue
    <3> QED BY <3>1, UnchangedRoutesGrow, NewMessagesMatter DEF PathsHold
  <2> QED BY <2>1, <2>2
<1> QED BY <1>1, <1>2, Invariant, PTL DEF Spec

(* While no route is given up, every route of every network is a path: the *)
(* next hops lead to the destination, through nodes that have a route, and *)
(* never round in circles.                                                 *)
THEOREM RoutesLeadThere == Spec => []RoutesArePaths
<1>1. IInv /\ (RoutesKept => PathsOK) => RoutesArePaths
  <2> SUFFICES ASSUME IInv, PathsOK, NEW d \in Node
               PROVE  LET routed == {n \in Node : HasRoute(route[n], d)}
                      IN  /\ \A n \in routed : Knows(NextHop(route[n], d), d)
                          /\ \A some \in SUBSET (routed \ {d}) :
                               some # {} =>
                                 \E n \in some : NextHop(route[n], d) \notin some
    BY DEF RoutesArePaths
  <2> DEFINE routed == {n \in Node : HasRoute(route[n], d)}
  <2>1. PICK rank \in [Node -> Nat] :
          \A n \in Node :
            HasRoute(route[n], d) => Leads(route, rank, n, NextHop(route[n], d), d)
    BY DEF PathsOK, Ranked
  <2>2. \A n \in routed : Knows(NextHop(route[n], d), d)
    BY <2>1 DEF Leads, Knows
  <2>3. ASSUME NEW some \in SUBSET (routed \ {d}), some # {}
        PROVE  \E n \in some : NextHop(route[n], d) \notin some
    <3> DEFINE ranks == {rank[n] : n \in some}
    <3>1. ranks \subseteq Nat /\ ranks # {}
      BY <2>1, <2>3
    <3>2. Min(ranks) \in ranks /\ \A r \in ranks : Min(ranks) <= r
      <4> HIDE DEF ranks
      <4> QED BY <3>1, MinIsFirst
    <3>3. PICK n \in some : rank[n] = Min(ranks)
      BY <3>2
    <3>4. \A m \in some : rank[n] <= rank[m]
      BY <3>2, <3>3
    <3>5. Leads(route, rank, n, NextHop(route[n], d), d)
      BY <2>1, <2>3
    <3>6. \A m \in some : m # d /\ rank[m] \in Nat /\ rank[n] \in Nat
      BY <2>1, <2>3
    <3>7. NextHop(route[n], d) \notin some
      BY <3>4, <3>5, <3>6 DEF Leads
    <3> QED BY <3>7
  <2> QED BY <2>2, <2>3
<1> QED BY <1>1, PathInvariant, Invariant, PTL

(* While no route is given up, a reply never reaches a node of any network *)
(* that would have to drop it for want of a route.                         *)
THEOREM RepliesFindTheirWay == Spec => []ReplyCanReturn
<1>1. (RoutesKept => PathsOK) => ReplyCanReturn
  BY DEF PathsOK, ReplyOK, ReplyCanReturn
<1> QED BY <1>1, PathInvariant, PTL

-----------------------------------------------------------------------------
(* The first discovery.  The limits are such that a request is given up    *)
(* only where the route it teaches has a false cost: the hidden 255 or the *)
(* wrapped 0.                                                              *)
FarEnough == MAX_HOP_LIMIT >= UINT8_MAX - 1 /\ MAX_HOP_COUNT >= UINT8_MAX - 1

(* Out of every set of nodes around a that d is not in, a link leads.      *)
Reaches(a, d) ==
  \A some \in SUBSET Node :
    a \in some /\ d \notin some => \E n \in some : \E m \in Link[n] : m \notin some

HearEachOther == \A n, m \in Node : m \in Link[n] => n \in Link[m]

Lossless == RoutesKept /\ spent["loss"] = 0

(* Floods have a name, and a node that has relayed one knows the way to a. *)
Named ==
  /\ \A f \in rreqs : f.packet.id.originator \in Node
  /\ \A n \in Node : \A p \in held[n] : p.id.originator \in Node

Relayed(a) == \A n \in Node : last[n].originator \in Node => Knows(n, a)

(* The flood: every node that knows the way to a has told the nodes around *)
(* it, or a frame is on its way to them.  The destination need not.        *)
Spreads(a, d) ==
  \A n \in Node : n # d /\ Knows(n, a) =>
    \A m \in Link[n] : Knows(m, a) \/ \E f \in rreqs : f.to = m

(* The reply: a node that knows the way to d has told the next node on the *)
(* way to a, or a frame is on its way to that.                             *)
Returns(a, d) ==
  \A n \in Node : n # a /\ Knows(n, d) /\ HasRoute(route[n], a) =>
    LET m == NextHop(route[n], a)
    IN  Knows(m, d) \/ \E f \in rreps : f.to = m

Taught(a, d) == \A n \in Node : HasRoute(route[n], d) => Knows(n, a)

(* Every next hop is heard.                                                *)
HearsNext ==
  \A n, e \in Node :
    HasRoute(route[n], e) =>
      NextHop(route[n], e) \in Node /\ n \in Link[NextHop(route[n], e)]

(* Before the first discovery.                                             *)
Silent ==
  /\ rreqs = {} /\ rreps = {}
  /\ \A n \in Node :
       /\ held[n] = {} /\ last[n] = NoFlood /\ sought[n] = NoNode
       /\ \A d \in Node : ~HasRoute(route[n], d)

(* What the discovery of d by a has come to.                               *)
Under(a, d) ==
  /\ a # d
  /\ Named /\ Relayed(a) /\ Spreads(a, d) /\ Taught(a, d) /\ Returns(a, d)
  /\ HearsNext

Begun(a, d) ==
  /\ <<a, d>> \in Demand /\ asked = {<<a, d>>}
  /\ \A n \in Node : sought[n] # NoNode => n = a /\ sought[n] = d
  /\ Under(a, d)

FirstInv ==
  Lossless =>
    /\ spent["discover"] = 0 => Silent /\ asked = {}
    /\ spent["discover"] = 1 => \E a, d \in Node : Begun(a, d)

-----------------------------------------------------------------------------
(* A step from a network that has lost nothing to one that has not either. *)
LEMMA LosslessBefore ==
  ASSUME IInv, Next, Lossless'
  PROVE  /\ Lossless /\ RoutesKept'
         /\ \A f \in rreqs \cup rreps : ~Lose(f)
         /\ \/ spent'["discover"] = spent["discover"]
            \/ /\ spent'["discover"] = spent["discover"] + 1
               /\ \E n, d \in Node : Discover(n, d)
<1>1. RoutesKept /\ RoutesKept' /\ \A n \in Node : ~Tick(n) /\ ~Close(n) /\ ~Reboot(n)
  BY KeptBefore DEF Lossless
<1>2. /\ spent \in [{"discover", "tick", "airtick", "loss", "restart"} -> Nat]
      /\ spent'["loss"] = 0
  BY NetworkAssumption DEF IInv, HistoryOK, Lossless
<1>3. ASSUME NEW f \in rreqs \cup rreps, Lose(f)
      PROVE  FALSE
  <2>1. spent'["loss"] = spent["loss"] + 1 /\ spent["loss"] \in Nat
    BY <1>2, <1>3 DEF Lose, Spend
  <2> QED BY <1>2, <2>1
<1>4. ASSUME NEW n \in Node, NEW d \in Node, Discover(n, d)
      PROVE  spent'["loss"] = spent["loss"] /\ spent'["discover"] = spent["discover"] + 1
  BY <1>2, <1>4 DEF Discover
<1>5. ASSUME NEW n \in Node, NEW f \in rreqs, RreqReceived(n, f)
      PROVE  spent' = spent
  BY <1>5 DEF RreqReceived, RreqDuplicate, RreqRejected, RreqAnswered, RreqForwarded,
              RreqExhausted, historyVars
<1>6. ASSUME NEW n \in Node, NEW f \in rreps, RrepReceived(n, f)
      PROVE  spent' = spent
  BY <1>6 DEF RrepReceived, RrepRejected, RrepForwarded, RrepForUs, historyVars
<1>7. ASSUME NEW n \in Node, Relay(n) \/ Timeout(n) \/ Open(n)
      PROVE  spent' = spent
  BY <1>7 DEF Relay, Timeout, Open, historyVars
<1>8. ASSUME NEW n \in Node, NEW d \in Node, DataReceived(n, d)
      PROVE  spent' = spent
  BY <1>8 DEF DataReceived, historyVars
<1>9. ASSUME NEW f \in rreqs \cup rreps, Unheard(f)
      PROVE  spent' = spent
  BY <1>9 DEF Unheard, historyVars
<1>10. spent' = spent \/ \E n, d \in Node : Discover(n, d)
  BY <1>1, <1>3, <1>5, <1>6, <1>7, <1>8, <1>9 DEF Next
<1> QED BY <1>1, <1>2, <1>3, <1>4, <1>10 DEF Lossless

(* What netflood remembers and keeps after the handler: what it had, or    *)
(* the flood of the packet, or one of the node's own.                      *)
LEMMA RebroadcastNames ==
  ASSUME IInv, NEW n \in Node, NEW packet \in FloodPacket,
         NEW waiting \in SUBSET held[n], NEW latest,
         Rebroadcast(n, packet, waiting, latest)
  PROVE  /\ \A k \in Node : \A p \in held'[k] : p \in held[k] \/ p.id = packet.id
         /\ \A k \in Node : last'[k] = last[k] \/ k = n
<1>1. held \in [Node -> SUBSET FloodPacket] /\ last \in [Node -> FloodId]
  BY DEF IInv, FloodsOK
<1>2. \A k \in Node : last'[k] = last[k] \/ k = n
  BY <1>1 DEF Rebroadcast
<1>3. CASE held' = [held EXCEPT ![n] = {[packet EXCEPT !.hops = @ + 1]}]
  <2>1. [packet EXCEPT !.hops = @ + 1].id = packet.id
    BY DEF FloodPacket
  <2> QED BY <1>1, <1>2, <1>3, <2>1
<1>4. CASE held' = [held EXCEPT ![n] = waiting]
  BY <1>1, <1>2, <1>4
<1> QED BY <1>3, <1>4 DEF Rebroadcast

(* The flood and the reply, step by step: what a step has to account for.  *)
LEMMA NamesGoOn ==
  ASSUME NEW a, Named, Relayed(a),
         \A k \in Node : Knows(k, a) => Knows(k, a)',
         \A f \in rreqs' : f \in rreqs \/ f.packet.id.originator \in Node,
         \A k \in Node : \A p \in held'[k] : p \in held[k] \/ p.id.originator \in Node,
         \A k \in Node : last'[k] = last[k] \/ Knows(k, a)'
  PROVE  Named' /\ Relayed(a)'
BY DEF Named, Relayed

LEMMA FloodGoesOn ==
  ASSUME NEW a, NEW d, Spreads(a, d),
         \A k \in Node : Knows(k, a) => Knows(k, a)',
         \A f \in rreqs : f \in rreqs' \/ Knows(f.to, a)',
         \A k \in Node : k # d /\ Knows(k, a)' =>
           Knows(k, a) \/ \A m \in Link[k] : \E f \in rreqs' : f.to = m
  PROVE  Spreads(a, d)'
<1> SUFFICES ASSUME NEW k \in Node, k # d, Knows(k, a)', NEW m \in Link[k]
             PROVE  Knows(m, a)' \/ \E f \in rreqs' : f.to = m
  BY DEF Spreads
<1>1. m \in Node
  BY NetworkAssumption
<1>2. CASE Knows(k, a)
  <2>1. CASE Knows(m, a)
    BY <1>1, <2>1
  <2>2. CASE \E f \in rreqs : f.to = m
    BY <2>2
  <2> QED BY <1>2, <2>1, <2>2 DEF Spreads
<1> QED BY <1>2

LEMMA ReplyGoesOn ==
  ASSUME NEW a \in Node, NEW d \in Node, Returns(a, d), HearsNext,
         \A k \in Node : Knows(k, d) => Knows(k, d)',
         \A k \in Node :
           HasRoute(route[k], a) => NextHop(route'[k], a) = NextHop(route[k], a),
         \A f \in rreps : f \in rreps' \/ Knows(f.to, d)',
         \A k \in Node : k # a /\ Knows(k, d)' /\ HasRoute(route'[k], a) =>
           \/ Knows(k, d) /\ HasRoute(route[k], a)
           \/ \E f \in rreps' : f.to = NextHop(route'[k], a)
  PROVE  Returns(a, d)'
<1> SUFFICES ASSUME NEW k \in Node, k # a, Knows(k, d)', HasRoute(route'[k], a),
                    NEW m, m = NextHop(route'[k], a)
             PROVE  Knows(m, d)' \/ \E f \in rreps' : f.to = m
  BY DEF Returns
<1>1. CASE Knows(k, d) /\ HasRoute(route[k], a)
  <2>1. m = NextHop(route[k], a) /\ m \in Node
    BY <1>1 DEF HearsNext
  <2>2. Knows(m, d) \/ \E f \in rreps : f.to = m
    BY <1>1, <2>1 DEF Returns
  <2> QED BY <2>1, <2>2
<1> QED BY <1>1

-----------------------------------------------------------------------------
(* A node that knows the next hop and is heard by it sends it the reply.   *)
LEMMA ReplyIsSent ==
  ASSUME NEW n, NEW rs, NEW msg, HasRoute(rs, msg.destination),
         NextHop(rs, msg.destination) \in Link[n]
  PROVE  \E g \in send_rrep(n, rs, msg) : g.to = NextHop(rs, msg.destination)
<1> DEFINE m == NextHop(rs, msg.destination)
           g == [to |-> m, from |-> n, msg |-> [msg EXCEPT !.hop_count = 0]]
<1>1. g \in send_rrep(n, rs, msg)
  BY DEF send_rrep
<1>2. g.to = m
  OBVIOUS
<1> HIDE DEF g
<1> QED BY <1>1, <1>2

(* A broadcast reaches everybody around.                                   *)
LEMMA BroadcastReaches ==
  ASSUME NEW n, NEW msg, NEW m \in Link[n]
  PROVE  \E g \in send_rreq(n, msg) : g.to = m
<1> DEFINE packet == [id |-> OwnId(n, msg), hops |-> 0, msg |-> msg]
           g == [to |-> m, from |-> n, packet |-> packet]
<1>1. g \in send_rreq(n, msg)
  BY DEF send_rreq, Broadcast
<1> QED BY <1>1

(* Floods of a node's own have its name.                                   *)
LEMMA OwnFloodIsNamed ==
  ASSUME NEW n, NEW msg, NEW g \in send_rreq(n, msg)
  PROVE  g.packet.id.originator = n
BY DEF send_rreq, Broadcast, OwnId

LEMMA HearsNextStays ==
  ASSUME HearsNext, NEW n \in Node, NEW o \in Node, NEW from \in Node,
         n \in Link[from], Teaches(n, o, from)
  PROVE  HearsNext'
<1> SUFFICES ASSUME NEW k \in Node, NEW e \in Node, HasRoute(route'[k], e)
             PROVE  NextHop(route'[k], e) \in Node /\ k \in Link[NextHop(route'[k], e)]
  BY DEF HearsNext
<1>1. CASE HasRoute(route[k], e)
  <2>1. NextHop(route'[k], e) = NextHop(route[k], e)
    BY <1>1 DEF Teaches
  <2> QED BY <1>1, <2>1 DEF HearsNext
<1>2. CASE ~HasRoute(route[k], e)
  <2>1. k = n /\ e = o
    BY <1>2 DEF Teaches
  <2>2. NextHop(route'[k], e) = from
    BY <1>2, <2>1 DEF Teaches
  <2> QED BY <2>1, <2>2
<1> QED BY <1>1, <1>2

-----------------------------------------------------------------------------
(* Steps that teach nobody a route and take no frame from one who does not *)
(* know already.                                                           *)
LEMMA NobodyLearns ==
  ASSUME NEW a \in Node, NEW d \in Node, Under(a, d),
         \A k, e \in Node : HasRoute(route'[k], e) <=> HasRoute(route[k], e),
         \A k, e \in Node :
           HasRoute(route'[k], e) => NextHop(route'[k], e) = NextHop(route[k], e),
         \A f \in rreqs : f \in rreqs' \/ Knows(f.to, a)',
         \A f \in rreps : f \in rreps' \/ Knows(f.to, d)',
         \A f \in rreqs' : f \in rreqs \/ f.packet.id.originator \in Node,
         \A k \in Node : \A p \in held'[k] : p \in held[k] \/ p.id.originator \in Node,
         \A k \in Node : last'[k] = last[k] \/ Knows(k, a)'
  PROVE  Under(a, d)'
<1>1. \A k, e \in Node : Knows(k, e)' <=> Knows(k, e)
  BY DEF Knows
<1>2. Named /\ Relayed(a) /\ Spreads(a, d) /\ Taught(a, d) /\ Returns(a, d) /\ HearsNext /\ a # d
  BY DEF Under
<1>3. Named' /\ Relayed(a)'
  BY <1>1, <1>2, NamesGoOn
<1>4. Spreads(a, d)'
  BY <1>1, <1>2, FloodGoesOn
<1>5. Returns(a, d)'
  BY <1>1, <1>2, ReplyGoesOn
<1>6. Taught(a, d)'
  BY <1>1, <1>2 DEF Taught
<1>7. HearsNext'
  BY <1>2 DEF HearsNext
<1> QED BY <1>2, <1>3, <1>4, <1>5, <1>6, <1>7 DEF Under

(* A node that learns the way to a from a request passes the request on,   *)
(* or is d and answers it.                                                 *)
LEMMA RequestTeaches ==
  ASSUME NEW a \in Node, NEW d \in Node, Under(a, d), HearEachOther,
         NEW n \in Node, n # a, NEW from \in Node, n \in Link[from],
         Teaches(n, a, from),
         \A f \in rreqs : f \in rreqs' \/ f.to = n,
         n # d => \/ HasRoute(route[n], a)
                  \/ \A m \in Link[n] : \E f \in rreqs' : f.to = m,
         rreps \subseteq rreps',
         n = d => \E g \in rreps' : g.to = NextHop(route'[n], a),
         \A f \in rreqs' : f \in rreqs \/ f.packet.id.originator \in Node,
         \A k \in Node : \A p \in held'[k] : p \in held[k] \/ p.id.originator \in Node,
         \A k \in Node : last'[k] = last[k] \/ k = n
  PROVE  Under(a, d)'
<1>1. Named /\ Relayed(a) /\ Spreads(a, d) /\ Taught(a, d) /\ Returns(a, d) /\ HearsNext /\ a # d
  BY DEF Under
<1>2. \A k, e \in Node : Knows(k, e)' <=> Knows(k, e) \/ (k = n /\ e = a)
  BY DEF Knows, Teaches
<1>3. Named' /\ Relayed(a)'
  BY <1>1, <1>2, NamesGoOn
<1>4. Spreads(a, d)'
  <2>1. \A k \in Node : k # d /\ Knows(k, a)' =>
          Knows(k, a) \/ \A m \in Link[k] : \E f \in rreqs' : f.to = m
    BY <1>2 DEF Knows
  <2> QED BY <1>1, <1>2, <2>1, FloodGoesOn
<1>5. Taught(a, d)'
  BY <1>1, <1>2 DEF Taught, Teaches
<1>6. Returns(a, d)'
  <2>1. ASSUME NEW k \in Node, k # a, Knows(k, d)', HasRoute(route'[k], a)
        PROVE  \/ Knows(k, d) /\ HasRoute(route[k], a)
               \/ \E f \in rreps' : f.to = NextHop(route'[k], a)
    <3>1. Knows(k, d)
      BY <1>1, <1>2, <2>1
    <3>2. CASE k = d /\ k = n
      BY <3>2
    <3>3. CASE k # n
      BY <2>1, <3>1, <3>3 DEF Teaches
    <3>4. CASE k # d
      BY <1>1, <2>1, <3>1, <3>4 DEF Taught, Knows
    <3> QED BY <3>2, <3>3, <3>4
  <2>2. \A k \in Node : HasRoute(route[k], a) => NextHop(route'[k], a) = NextHop(route[k], a)
    BY DEF Teaches
  <2> QED BY <1>1, <1>2, <2>1, <2>2, ReplyGoesOn
<1>7. HearsNext'
  BY <1>1, HearsNextStays
<1> QED BY <1>1, <1>3, <1>4, <1>5, <1>6, <1>7 DEF Under

(* A node that learns the way to d from the reply hands the reply on, or   *)
(* is a.                                                                   *)
LEMMA ReplyTeaches ==
  ASSUME NEW a \in Node, NEW d \in Node, Under(a, d), HearEachOther,
         NEW n \in Node, n # d, Knows(n, a), NEW from \in Node, n \in Link[from],
         Teaches(n, d, from),
         UNCHANGED <<rreqs, held, last>>,
         \A f \in rreps : f \in rreps' \/ f.to = n,
         n # a => \E g \in rreps' : g.to = NextHop(route'[n], a)
  PROVE  Under(a, d)'
<1>1. Named /\ Relayed(a) /\ Spreads(a, d) /\ Taught(a, d) /\ Returns(a, d) /\ HearsNext /\ a # d
  BY DEF Under
<1>2. \A k, e \in Node : Knows(k, e)' <=> Knows(k, e) \/ (k = n /\ e = d)
  BY DEF Knows, Teaches
<1>3. Named' /\ Relayed(a)'
  BY <1>1, <1>2, NamesGoOn
<1>4. Spreads(a, d)'
  BY <1>1, <1>2, FloodGoesOn
<1>5. Taught(a, d)'
  BY <1>1, <1>2 DEF Taught, Teaches
<1>6. Returns(a, d)'
  <2>1. ASSUME NEW k \in Node, k # a, Knows(k, d)', HasRoute(route'[k], a)
        PROVE  \/ Knows(k, d) /\ HasRoute(route[k], a)
               \/ \E f \in rreps' : f.to = NextHop(route'[k], a)
    BY <1>1, <1>2, <2>1 DEF Teaches
  <2>2. \A k \in Node : HasRoute(route[k], a) => NextHop(route'[k], a) = NextHop(route[k], a)
    BY DEF Teaches
  <2> QED BY <1>1, <1>2, <2>1, <2>2, ReplyGoesOn
<1>7. HearsNext'
  BY <1>1, HearsNextStays
<1> QED BY <1>1, <1>3, <1>4, <1>5, <1>6, <1>7 DEF Under

-----------------------------------------------------------------------------
(* Who gives a request up has learned nothing from it.                     *)
LEMMA ExhaustedKnows ==
  ASSUME IInv, FarEnough, RoutesKept', NEW n \in Node, NEW from \in Node,
         NEW msg \in RreqMessage, msg.originator # n,
         RequestOK(from, msg), ~Forwardable(msg),
         route' = [route EXCEPT ![n] = Learn(@, msg, from)]
  PROVE  HasRoute(route[n], msg.originator)
<1> SUFFICES ASSUME ~HasRoute(route[n], msg.originator)
             PROVE  FALSE
  OBVIOUS
<1> DEFINE t == Learn(route[n], msg, from)
<1>1. /\ msg.hop_count \in Nat /\ msg.hop_limit \in Nat /\ MAX_HOP_LIMIT \in Nat
      /\ msg.hop_count <= MAX_HOP_COUNT /\ MAX_HOP_COUNT <= UINT8_MAX
      /\ MAX_HOP_COUNT \in Nat /\ UINT8_MAX \in Nat \ {0}
      /\ msg.hop_count + msg.hop_limit = MAX_HOP_LIMIT
  BY NetworkAssumption, TableAssumption DEF RreqMessage, HopCount, RequestOK
<1>2. msg.hop_count >= UINT8_MAX - 1
  BY <1>1 DEF FarEnough, Forwardable
<1>3. (msg.hop_count + 1) % (UINT8_MAX + 1) \in {0, UINT8_MAX}
  <2>1. CASE msg.hop_count = UINT8_MAX
    BY <1>1, <2>1
  <2>2. CASE msg.hop_count = UINT8_MAX - 1
    BY <1>1, <2>2
  <2> QED BY <1>1, <1>2, <2>1, <2>2
<1>4. Sound(n, route[n]) /\ Sound(n, t)
  BY LearnKeepsSound DEF IInv, RoutesOK
<1>5. 1 <= Len(t) /\ t[1].route_cost = (msg.hop_count + 1) % (UINT8_MAX + 1)
  BY <1>4, LearnElements
<1>6. route'[n] = t
  BY DEF IInv, RoutesOK
<1> HIDE DEF t
<1>7. 1 \in DOMAIN t
  BY <1>4, <1>5 DEF Sound, Fits
<1>8. t[1].route_cost \in 1 .. UINT8_MAX - 1
  BY <1>6, <1>7 DEF RoutesKept, CostsTrue
<1> QED BY <1>1, <1>3, <1>5, <1>8

(* A request of a for d arrives.                                           *)
LEMMA RequestKeepsUnder ==
  ASSUME IInv, PathsOK, RoutesKept, RoutesKept', OnLinks, HearEachOther, FarEnough,
         NEW a \in Node, NEW d \in Node, Under(a, d),
         NEW n \in Node, NEW f \in rreqs, RreqReceived(n, f),
         f.packet.msg.originator = a, f.packet.msg.destination = d
  PROVE  Under(a, d)'
<1> DEFINE msg == f.packet.msg
           quiet == NotHeard(n, f.packet.id)
<1>1. f.from \in Node /\ f.packet \in FloodPacket /\ msg \in RreqMessage
  BY RreqFieldsOK DEF IInv
<1>2. f.to = n /\ n \in Link[f.from] /\ quiet \in SUBSET held[n]
  BY DEF RreqReceived, RreqDuplicate, RreqRejected, RreqAnswered, RreqForwarded,
         RreqExhausted, Accepted, Arrives, OnLinks, NotHeard
<1>3. f.packet.id.originator \in Node
  BY DEF Under, Named
<1>4. CASE RreqDuplicate(n, f)
  <2>1. /\ route' = route /\ rreps' = rreps /\ last' = last
        /\ rreqs' = rreqs \ {f} /\ held' = [held EXCEPT ![n] = quiet]
    BY <1>4 DEF RreqDuplicate, protocolVars
  <2>2. \A k \in Node : held'[k] \subseteq held[k]
    BY <1>2, <2>1 DEF IInv, FloodsOK
  <2>3. Knows(n, a)
    BY <1>3, <1>4 DEF RreqDuplicate, Duplicate, Under, Relayed
  <2>4. \A g \in rreqs : g \in rreqs' \/ Knows(g.to, a)'
    BY <1>2, <2>1, <2>3 DEF Knows
  <2> HIDE DEF quiet, msg
  <2> QED BY <2>1, <2>2, <2>4, NobodyLearns
<1>5. CASE RreqRejected(n, f)
  <2>1. /\ route' = route /\ rreps' = rreps /\ rreqs' = rreqs \ {f}
        /\ Rebroadcast(n, f.packet, quiet, last[n])
    BY <1>5 DEF RreqRejected, protocolVars
  <2>2. Knows(n, a)
    BY <1>5 DEF RreqRejected, ValidRreq, Stale, RoutesKept, Knows
  <2>3. \A g \in rreqs : g \in rreqs' \/ Knows(g.to, a)'
    BY <1>2, <2>1, <2>2 DEF Knows
  <2>4. Knows(n, a)'
    BY <2>1, <2>2 DEF Knows
  <2> HIDE DEF quiet, msg
  <2>5. /\ \A k \in Node : \A p \in held'[k] : p \in held[k] \/ p.id = f.packet.id
        /\ \A k \in Node : last'[k] = last[k] \/ k = n
    BY <1>1, <1>2, <2>1, RebroadcastNames
  <2>6. /\ \A k \in Node : \A p \in held'[k] : p \in held[k] \/ p.id.originator \in Node
        /\ \A k \in Node : last'[k] = last[k] \/ Knows(k, a)'
    BY <1>3, <2>4, <2>5
  <2> QED BY <2>1, <2>3, <2>6, NobodyLearns
<1>6. ASSUME Accepted(n, f)
      PROVE  n # a /\ Teaches(n, a, f.from)
  <2>1. /\ msg.originator # n
        /\ route' = [route EXCEPT ![n] = Learn(@, msg, f.from)]
    BY <1>6 DEF Accepted, ValidRreq
  <2> QED BY <1>1, <2>1, LearnTeaches
<1>7. CASE RreqAnswered(n, f) \/ RreqExhausted(n, f)
  <2>1. /\ Accepted(n, f) /\ rreqs' = rreqs \ {f} /\ rreps \subseteq rreps'
        /\ Rebroadcast(n, f.packet, quiet, last[n])
    BY <1>7 DEF RreqAnswered, RreqExhausted
  <2>2. n # a /\ Teaches(n, a, f.from)
    BY <1>6, <2>1
  <2>3. n # d => HasRoute(route[n], a)
    <3>1. CASE RreqAnswered(n, f)
      BY <3>1 DEF RreqAnswered
    <3>2. CASE RreqExhausted(n, f)
      <4>1. /\ msg.originator = a /\ a # n /\ ~Forwardable(msg)
            /\ route' = [route EXCEPT ![n] = Learn(@, msg, f.from)]
        BY <2>1, <3>2 DEF RreqExhausted, Accepted, ValidRreq
      <4>2. RequestOK(f.from, msg)
        BY DEF PathsOK
      <4> HIDE DEF msg
      <4> QED BY <1>1, <4>1, <4>2, ExhaustedKnows
    <3> QED BY <1>7, <3>1, <3>2
  <2>4. n = d => \E g \in rreps' : g.to = NextHop(route'[n], a)
    <3> SUFFICES ASSUME n = d
                 PROVE  \E g \in rreps' : g.to = NextHop(route'[n], a)
      OBVIOUS
    <3> DEFINE answer == Answer(n, msg)
    <3>1. rreps' = rreps \cup send_rrep(n, route'[n], answer)
      BY <1>7 DEF RreqAnswered, RreqExhausted
    <3>2. answer.destination = a
      BY DEF Answer
    <3>3. HasRoute(route'[n], a)
      BY <2>2 DEF Teaches
    <3>4. HearsNext'
      BY <1>1, <1>2, <2>2, HearsNextStays DEF Under
    <3>5. NextHop(route'[n], a) \in Link[n]
      BY <3>3, <3>4 DEF HearsNext, HearEachOther
    <3> HIDE DEF answer
    <3> QED BY <3>1, <3>2, <3>3, <3>5, ReplyIsSent
  <2> HIDE DEF quiet, msg
  <2>5. /\ \A k \in Node : \A p \in held'[k] : p \in held[k] \/ p.id = f.packet.id
        /\ \A k \in Node : last'[k] = last[k] \/ k = n
    BY <1>1, <1>2, <2>1, RebroadcastNames
  <2>6. \A k \in Node : \A p \in held'[k] : p \in held[k] \/ p.id.originator \in Node
    BY <1>3, <2>5
  <2> QED BY <1>1, <1>2, <2>1, <2>2, <2>3, <2>4, <2>5, <2>6, RequestTeaches
<1>8. CASE RreqForwarded(n, f)
  <2> DEFINE sent == [msg EXCEPT !.hop_count = @ + 1, !.hop_limit = @ - 1]
  <2>1. /\ Accepted(n, f) /\ rreps' = rreps /\ n # d
        /\ rreqs' = (rreqs \ {f}) \cup send_rreq(n, sent)
        /\ \E packets \in MaybeFreed(quiet) :
             Rebroadcast(n, f.packet, packets, OwnId(n, sent))
    BY <1>8 DEF RreqForwarded
  <2>2. n # a /\ Teaches(n, a, f.from)
    BY <1>6, <2>1
  <2> HIDE DEF sent
  <2>3. \A m \in Link[n] : \E g \in rreqs' : g.to = m
    BY <2>1, BroadcastReaches
  <2>4. \A g \in rreqs' : g \in rreqs \/ g.packet.id.originator \in Node
    BY <2>1, OwnFloodIsNamed
  <2>5. PICK packets \in MaybeFreed(quiet) :
          Rebroadcast(n, f.packet, packets, OwnId(n, sent))
    BY <2>1
  <2>6. packets \in SUBSET held[n]
    BY <1>2, <2>5 DEF MaybeFreed
  <2> HIDE DEF quiet, msg
  <2>7. /\ \A k \in Node : \A p \in held'[k] : p \in held[k] \/ p.id = f.packet.id
        /\ \A k \in Node : last'[k] = last[k] \/ k = n
    BY <1>1, <2>5, <2>6, RebroadcastNames
  <2>8. \A k \in Node : \A p \in held'[k] : p \in held[k] \/ p.id.originator \in Node
    BY <1>3, <2>7
  <2> QED BY <1>1, <1>2, <2>1, <2>2, <2>3, <2>4, <2>7, <2>8, RequestTeaches
<1> QED BY <1>4, <1>5, <1>7, <1>8 DEF RreqReceived

(* A reply of d to a arrives.                                              *)
LEMMA ReplyKeepsUnder ==
  ASSUME IInv, PathsOK, RoutesKept, RoutesKept', OnLinks, HearEachOther,
         NEW a \in Node, NEW d \in Node, Under(a, d),
         NEW n \in Node, NEW f \in rreps, RrepReceived(n, f),
         f.msg.originator = d, f.msg.destination = a
  PROVE  Under(a, d)'
<1>1. f.from \in Node /\ f.msg \in RrepMessage
  BY RrepFieldsOK DEF IInv
<1>2. f.to = n /\ n \in Link[f.from] /\ Knows(n, a) /\ f.msg.hop_count = 0
  BY DEF RrepReceived, RrepRejected, RrepForwarded, RrepForUs, Delivered, OnLinks,
         PathsOK, ReplyOK
<1>3. UNCHANGED <<rreqs, held, last>>
  BY DEF RrepReceived, RrepRejected, RrepForwarded, RrepForUs, floodVars
<1>4. CASE RrepRejected(n, f)
  <2>1. route' = route /\ rreps' = rreps \ {f}
    BY <1>4 DEF RrepRejected, protocolVars
  <2>2. Knows(n, d)
    BY <1>4 DEF RrepRejected, ValidRrep, Stale, Knows
  <2>3. \A g \in rreps : g \in rreps' \/ Knows(g.to, d)'
    BY <1>2, <2>1, <2>2 DEF Knows
  <2> QED BY <1>3, <2>1, <2>3, NobodyLearns
<1>5. ASSUME ValidRrep(n, f.msg), route' = [route EXCEPT ![n] = Learn(@, f.msg, f.from)]
      PROVE  n # d /\ Teaches(n, d, f.from) /\ HearsNext'
  <2>1. f.msg.originator # n
    BY <1>5 DEF ValidRrep
  <2>3. n # d /\ Teaches(n, d, f.from)
    BY <1>1, <1>5, <2>1, LearnTeaches
  <2> QED BY <1>1, <1>2, <2>3, HearsNextStays DEF Under
<1>6. CASE RrepForwarded(n, f)
  <2>1. /\ n # a /\ rreps' = (rreps \ {f}) \cup send_rrep(n, route'[n], f.msg)
        /\ n # d /\ Teaches(n, d, f.from) /\ HearsNext'
    BY <1>5, <1>6 DEF RrepForwarded
  <2>2. HasRoute(route'[n], a)
    BY <1>2, <2>1 DEF Knows, Teaches
  <2>3. NextHop(route'[n], a) \in Link[n]
    BY <2>1, <2>2 DEF HearsNext, HearEachOther
  <2>4. \E g \in rreps' : g.to = NextHop(route'[n], a)
    BY <2>1, <2>2, <2>3, ReplyIsSent
  <2> QED BY <1>1, <1>2, <1>3, <2>1, <2>4, ReplyTeaches
<1>7. CASE RrepForUs(n, f)
  <2>1. n = a /\ rreps' = rreps \ {f} /\ n # d /\ Teaches(n, d, f.from)
    BY <1>5, <1>7 DEF RrepForUs
  <2> QED BY <1>1, <1>2, <1>3, <2>1, ReplyTeaches
<1> QED BY <1>4, <1>6, <1>7 DEF RrepReceived

(* A refresh changes no lookup.                                            *)
LEMMA RefreshTeachesNothing ==
  ASSUME IInv, PathsOK, NEW n \in Node, NEW d \in Node, DataReceived(n, d)
  PROVE  /\ UNCHANGED <<rreqs, rreps, held, last, sought, asked, spent>>
         /\ \A k, e \in Node : HasRoute(route'[k], e) <=> HasRoute(route[k], e)
         /\ \A k, e \in Node :
              HasRoute(route'[k], e) => NextHop(route'[k], e) = NextHop(route[k], e)
<1> DEFINE t == route_refresh(route[n], route_lookup(route[n], d))
<1>1. Sound(n, route[n]) /\ Usable(route[n])
  BY DEF IInv, RoutesOK, PathsOK
<1>2. /\ \A e : HasRoute(t, e) <=> HasRoute(route[n], e)
      /\ \A e : HasRoute(t, e) => NextHop(t, e) = NextHop(route[n], e)
  BY <1>1, RefreshEffect
<1>3. /\ UNCHANGED <<rreqs, rreps, held, last, sought, asked, spent>>
      /\ \A k \in Node : route'[k] = IF k = n THEN t ELSE route[k]
  BY DEF DataReceived, floodVars, airVars, historyVars, IInv, RoutesOK
<1> HIDE DEF t
<1> QED BY <1>2, <1>3

(* Every step but another discovery.                                       *)
LEMMA UnderKept ==
  ASSUME IInv, PathsOK, FloodsAsked, RepliesAsked, OnLinks, HearEachOther, FarEnough,
         Next, Lossless', spent'["discover"] = spent["discover"],
         NEW a \in Node, NEW d \in Node, Under(a, d), asked = {<<a, d>>}
  PROVE  Under(a, d)' /\ UNCHANGED <<sought, asked>>
<1>1. /\ Lossless /\ RoutesKept /\ RoutesKept' /\ \A f \in rreqs \cup rreps : ~Lose(f)
      /\ \A n, e \in Node : ~Discover(n, e)
  <2>1. spent["discover"] \in Nat
    BY NetworkAssumption DEF IInv, HistoryOK
  <2>2. ASSUME NEW n \in Node, NEW e \in Node, Discover(n, e)
        PROVE  FALSE
    <3>1. spent'["discover"] = spent["discover"] + 1
      BY <2>2, NetworkAssumption DEF Discover, IInv, HistoryOK
    <3> QED BY <2>1, <3>1
  <2> QED BY <2>2, LosslessBefore DEF Lossless
<1>2. \A n \in Node : ~Tick(n) /\ ~Close(n) /\ ~Reboot(n)
  BY KeptBefore DEF Lossless
<1>3. ASSUME NEW n \in Node, NEW f \in rreqs, RreqReceived(n, f)
      PROVE  Under(a, d)' /\ UNCHANGED <<sought, asked>>
  <2>1. f.packet.msg.originator = a /\ f.packet.msg.destination = d
    BY DEF FloodsAsked, Wanted
  <2>2. UNCHANGED <<sought, asked>>
    BY <1>3 DEF RreqReceived, RreqDuplicate, RreqRejected, RreqAnswered, RreqForwarded,
                RreqExhausted, historyVars
  <2> QED BY <1>1, <1>3, <2>1, <2>2, RequestKeepsUnder
<1>4. ASSUME NEW n \in Node, NEW f \in rreps, RrepReceived(n, f)
      PROVE  Under(a, d)' /\ UNCHANGED <<sought, asked>>
  <2>1. f.msg.originator = d /\ f.msg.destination = a
    BY DEF RepliesAsked, Answers
  <2>2. UNCHANGED <<sought, asked>>
    BY <1>4 DEF RrepReceived, RrepRejected, RrepForwarded, RrepForUs, historyVars
  <2> QED BY <1>1, <1>4, <2>1, <2>2, ReplyKeepsUnder
<1>5. ASSUME NEW n \in Node, Relay(n)
      PROVE  Under(a, d)' /\ UNCHANGED <<sought, asked>>
  <2>1. /\ route' = route /\ rreps' = rreps /\ last' = last
        /\ rreqs' = rreqs \cup UNION {Broadcast(n, p) : p \in held[n]}
        /\ held' = [held EXCEPT ![n] = {}] /\ UNCHANGED <<sought, asked>>
    BY <1>5 DEF Relay, protocolVars, historyVars
  <2>2. \A k \in Node : held'[k] \subseteq held[k]
    BY <2>1 DEF IInv, FloodsOK
  <2>3. \A g \in rreqs' : g \in rreqs \/ g.packet.id.originator \in Node
    <3> SUFFICES ASSUME NEW p \in held[n], NEW g \in Broadcast(n, p)
                 PROVE  g.packet.id.originator \in Node
      BY <2>1
    <3>1. g.packet = p
      BY BroadcastCarries
    <3> QED BY <3>1 DEF Under, Named
  <2> QED BY <2>1, <2>2, <2>3, NobodyLearns
<1>6. ASSUME NEW n \in Node, Timeout(n)
      PROVE  Under(a, d)' /\ UNCHANGED <<sought, asked>>
  BY <1>6, NobodyLearns DEF Timeout, floodVars, airVars, historyVars
<1>7. ASSUME NEW n \in Node, NEW e \in Node, DataReceived(n, e)
      PROVE  Under(a, d)' /\ UNCHANGED <<sought, asked>>
  BY <1>7, RefreshTeachesNothing, NobodyLearns
<1>8. ASSUME NEW n \in Node, Open(n)
      PROVE  FALSE
  BY <1>8 DEF Open, PathsOK
<1>9. ASSUME NEW f \in rreqs \cup rreps, Unheard(f)
      PROVE  FALSE
  <2>1. f.to \in Node
    BY RreqFieldsOK, RrepFieldsOK DEF IInv
  <2> QED BY <1>9, <2>1 DEF Unheard, PathsOK
<1> QED BY <1>1, <1>2, <1>3, <1>4, <1>5, <1>6, <1>7, <1>8, <1>9 DEF Next

-----------------------------------------------------------------------------
(* The first discovery tells everybody around a.                           *)
LEMMA FirstBegins ==
  ASSUME IInv, Silent, asked = {}, NEW a \in Node, NEW d \in Node, a # d, Discover(a, d)
  PROVE  Begun(a, d)'
<1>0. PICK msg : msg = rreq_initial(a, d)
  OBVIOUS
<1>1. /\ route' = route /\ rreps' = {} /\ <<a, d>> \in Demand
      /\ rreqs' = send_rreq(a, msg)
      /\ \E packets \in MaybeFreed(held[a]) : held' = [held EXCEPT ![a] = packets]
      /\ last' = [last EXCEPT ![a] = OwnId(a, msg)]
      /\ sought' = [sought EXCEPT ![a] = d] /\ asked' = {<<a, d>>}
  BY <1>0 DEF Discover, Silent
<1>2. \A k, e \in Node : ~HasRoute(route'[k], e)
  BY <1>1 DEF Silent
<1>3. \A k \in Node : held'[k] = {}
  BY <1>1 DEF Silent, MaybeFreed, IInv, FloodsOK
<1>4. Named'
  BY <1>1, <1>3, OwnFloodIsNamed DEF Named
<1>5. Relayed(a)'
  <2>1. \A k \in Node : k # a => last'[k].originator = NoNode
    BY <1>1 DEF Silent, NoFlood, IInv, FloodsOK
  <2> QED BY <2>1, NetworkAssumption DEF Relayed, Knows
<1>6. Spreads(a, d)'
  <2>1. \A m \in Link[a] : \E g \in rreqs' : g.to = m
    BY <1>1, BroadcastReaches
  <2> QED BY <1>2, <2>1 DEF Spreads, Knows
<1>7. Taught(a, d)' /\ Returns(a, d)' /\ HearsNext'
  BY <1>2 DEF Taught, Returns, HearsNext
<1>8. \A k \in Node : sought'[k] # NoNode => k = a /\ sought'[k] = d
  BY <1>1 DEF Silent, IInv, HistoryOK
<1> QED BY <1>1, <1>4, <1>5, <1>6, <1>7, <1>8 DEF Begun, Under

(* Nothing happens before.                                                 *)
LEMMA SilenceKept ==
  ASSUME IInv, PathsOK, Silent, Next, Lossless', \A n, d \in Node : ~Discover(n, d)
  PROVE  Silent' /\ UNCHANGED asked
<1>1. /\ \A f \in rreqs \cup rreps : ~Lose(f)
      /\ \A n \in Node : ~Tick(n) /\ ~Close(n) /\ ~Reboot(n)
  BY LosslessBefore, KeptBefore DEF Lossless
<1>2. rreqs = {} /\ rreps = {} /\ \A n \in Node : ~Relay(n) /\ ~Open(n)
  BY DEF Silent, Relay, Open, PathsOK
<1>3. ASSUME NEW n \in Node, Timeout(n)
      PROVE  Silent' /\ UNCHANGED asked
  BY <1>3 DEF Timeout, floodVars, airVars, historyVars, Silent
<1>4. ASSUME NEW n \in Node, NEW e \in Node, DataReceived(n, e)
      PROVE  Silent' /\ UNCHANGED asked
  BY <1>4, RefreshTeachesNothing DEF Silent
<1> QED BY <1>1, <1>2, <1>3, <1>4 DEF Next

LEMMA FirstKept ==
  ASSUME HearEachOther, FarEnough, \A n, d \in Node : <<n, d>> \in Demand => n # d,
         IInv, RoutesKept => PathsOK, FloodsAsked, RepliesAsked, OnLinks,
         FirstInv, [Next]_vars
  PROVE  FirstInv'
<1> SUFFICES ASSUME Lossless'
             PROVE  /\ spent'["discover"] = 0 => Silent' /\ asked' = {}
                    /\ spent'["discover"] = 1 => (\E a, d \in Node : Begun(a, d))'
  BY DEF FirstInv
<1>1. CASE UNCHANGED vars
  <2>1. UNCHANGED <<route, last, held, rreqs, rreps, sought, asked, spent>>
    BY <1>1 DEF vars, protocolVars, floodVars, airVars, historyVars
  <2>2. Lossless
    BY <2>1 DEF Lossless, RoutesKept, CostsTrue
  <2>3. Silent' <=> Silent
    BY <2>1 DEF Silent
  <2>4. \A a, d \in Node : Begun(a, d) <=> Begun(a, d)'
    BY <2>1 DEF Begun, Under, Named, Relayed, Spreads, Taught, Returns, HearsNext, Knows
  <2> QED BY <2>1, <2>2, <2>3, <2>4 DEF FirstInv
<1>2. CASE Next
  <2>1. /\ Lossless /\ PathsOK /\ spent["discover"] \in Nat
        /\ \/ spent'["discover"] = spent["discover"]
           \/ /\ spent'["discover"] = spent["discover"] + 1
              /\ \E n, d \in Node : Discover(n, d)
    BY <1>2, LosslessBefore, NetworkAssumption DEF Lossless, IInv, HistoryOK
  <2>2. \A n, d \in Node : Discover(n, d) => spent'["discover"] = spent["discover"] + 1
    BY NetworkAssumption DEF Discover, IInv, HistoryOK
  <2>3. CASE spent'["discover"] = spent["discover"]
    <3>1. ASSUME spent["discover"] = 0
          PROVE  Silent' /\ asked' = {}
      <4>1. Silent /\ asked = {}
        BY <2>1, <3>1 DEF FirstInv
      <4>2. \A n, d \in Node : ~Discover(n, d)
        BY <2>1, <2>2, <2>3
      <4> QED BY <1>2, <2>1, <4>1, <4>2, SilenceKept
    <3>2. ASSUME spent["discover"] = 1
          PROVE  (\E a, d \in Node : Begun(a, d))'
      <4>1. PICK a \in Node, d \in Node : Begun(a, d)
        BY <2>1, <3>2 DEF FirstInv
      <4>2. Under(a, d)' /\ UNCHANGED <<sought, asked>>
        BY <1>2, <2>1, <2>3, <4>1, UnderKept DEF Begun
      <4>3. Begun(a, d)'
        BY <4>1, <4>2 DEF Begun
      <4> QED BY <4>3
    <3> QED BY <2>3, <3>1, <3>2
  <2>4. CASE /\ spent'["discover"] = spent["discover"] + 1
             /\ \E n, d \in Node : Discover(n, d)
    <3>1. PICK a \in Node, d \in Node : Discover(a, d)
      BY <2>4
    <3>2. ASSUME spent["discover"] = 0
          PROVE  Begun(a, d)'
      <4>1. a # d
        BY <3>1 DEF Discover
      <4> QED BY <2>1, <3>1, <3>2, <4>1, FirstBegins DEF FirstInv
    <3> QED BY <2>1, <2>4, <3>2
  <2> QED BY <2>1, <2>3, <2>4
<1> QED BY <1>1, <1>2 DEF vars

(* When the air is quiet the request has reached d and the reply a.        *)
LEMMA BegunSucceeds ==
  ASSUME RoutesArePaths, RoutesKept, Quiet,
         NEW a \in Node, NEW d \in Node, Under(a, d), Reaches(a, d)
  PROVE  HasRoute(route[a], d)
<1>1. a # d /\ Spreads(a, d) /\ Taught(a, d) /\ Returns(a, d) /\ HearsNext
      /\ rreqs = {} /\ rreps = {}
  BY DEF Under, Quiet
<1>2. HasRoute(route[d], a)
  <2> DEFINE some == {n \in Node : Knows(n, a)}
  <2>1. a \in some
    BY DEF Knows
  <2>2. ASSUME d \notin some
        PROVE  FALSE
    <3>1. PICK n \in some : \E m \in Link[n] : m \notin some
      BY <2>1, <2>2 DEF Reaches
    <3>2. PICK m \in Link[n] : m \notin some
      BY <3>1
    <3>3. Knows(m, a) /\ m \in Node
      BY <1>1, <2>2, NetworkAssumption DEF Spreads
    <3> QED BY <3>2, <3>3
  <2> QED BY <1>1, <2>2 DEF Knows
<1> SUFFICES ASSUME ~Knows(a, d)
             PROVE  FALSE
  BY <1>1 DEF Knows
<1> DEFINE some == {n \in Node : n # a /\ Knows(n, d) /\ HasRoute(route[n], a)}
           routed == {n \in Node : HasRoute(route[n], a)}
<1>3. some \in SUBSET (routed \ {a}) /\ some # {}
  BY <1>1, <1>2 DEF Knows
<1>4. PICK n \in some : NextHop(route[n], a) \notin some
  <2> HIDE DEF some
  <2> QED BY <1>3 DEF RoutesArePaths
<1> DEFINE m == NextHop(route[n], a)
<1>5. m \in Node /\ Knows(m, a) /\ Knows(m, d)
  BY <1>1, <1>4 DEF RoutesArePaths, HearsNext, Returns
<1> QED BY <1>4, <1>5 DEF Knows

(* Where everybody hears those who hear it, a network that loses nothing   *)
(* finds the destination of the first discovery, whatever the order and    *)
(* the delays of its frames and however large the network is, unless some  *)
(* node hears of the request first after 254 hops or more, on a long way   *)
(* round, and keeps a false cost.                                          *)
THEOREM FirstDiscoveryFinds ==
  ASSUME HearEachOther,
         MAX_HOP_LIMIT >= UINT8_MAX - 1, MAX_HOP_COUNT >= UINT8_MAX - 1,
         \A n, d \in Node : <<n, d>> \in Demand => n # d /\ Reaches(n, d)
  PROVE  Spec => []FirstDiscoverySucceeds
<1>0. FarEnough
  BY DEF FarEnough
<1>1. Init => FirstInv
  <2> SUFFICES ASSUME Init
               PROVE  Silent /\ asked = {} /\ spent["discover"] = 0
    BY DEF FirstInv
  <2>1. \A n, d \in Node : ~HasRoute(route[n], d)
    BY DEF Init, HasRoute, route_lookup, Candidates
  <2>2. spent["discover"] = 0
    BY NetworkAssumption DEF Init
  <2> QED BY <2>1, <2>2 DEF Init, Silent
<1>2. IInv /\ (RoutesKept => PathsOK) /\ FloodsAsked /\ RepliesAsked /\ OnLinks /\ FirstInv
        /\ [Next]_vars => FirstInv'
  <2>1. \A n, d \in Node : <<n, d>> \in Demand => n # d
    OBVIOUS
  <2> QED BY <1>0, <2>1, FirstKept
<1>3. RoutesArePaths /\ FirstInv => FirstDiscoverySucceeds
  <2> SUFFICES ASSUME RoutesArePaths, FirstInv, Quiet, RoutesKept,
                      spent["loss"] = 0, spent["discover"] = 1,
                      NEW n \in Node, sought[n] # NoNode
               PROVE  HasRoute(route[n], sought[n])
    BY DEF FirstDiscoverySucceeds
  <2>1. PICK a \in Node, d \in Node : Begun(a, d)
    BY DEF FirstInv, Lossless
  <2>2. n = a /\ sought[n] = d /\ Under(a, d) /\ Reaches(a, d)
    BY <2>1 DEF Begun
  <2> QED BY <2>2, BegunSucceeds
<1> QED BY <1>1, <1>2, <1>3, PathInvariant, AskedInvariant, LinksInvariant, RoutesLeadThere,
           PTL DEF Spec
=============================================================================

------------------------- MODULE UipOverMeshProofs -------------------------
(***************************************************************************)
(* IP over mesh above any RouteService, with any addresses, neighbours and *)
(* sequence numbers: the queue and the pending flag stay in step, whatever *)
(* replies come.                                                           *)
(***************************************************************************)
EXTENDS UipOverMesh, RouteTableProofs

(* The Routing Set as UipTypeOK has it.                                    *)
Heard == Addr \cup {Me}
Numbers == Seqno \cup {0}
Fits(rs) == rs \in Seq(RouteTuple(Heard, Numbers)) /\ Len(rs) <= NUM_RS_ENTRIES

(* Whatever tuple of the network is added, the Routing Set fits its pool,  *)
(* and the new tuple is its first.                                         *)
LEMMA AddFits ==
  ASSUME NEW rs, Fits(rs), NEW d \in Heard, NEW nexthop \in Neighbor,
         NEW cost \in 0 .. UINT8_MAX, NEW seqno \in Numbers
  PROVE  LET t == route_add(rs, d, nexthop, cost, seqno)
         IN  /\ Fits(t)
             /\ 1 \in 1 .. Len(t)
             /\ t[1].R_dest_addr = d /\ t[1].route_cost = cost
<1> DEFINE t == route_add(rs, d, nexthop, cost, seqno)
<1>1. nexthop \in Heard
  BY AddressAssumption DEF Heard
<1>2. /\ t \in Seq(RouteTuple(Heard, Numbers))
      /\ 1 <= Len(t) /\ Len(t) <= NUM_RS_ENTRIES
      /\ t[1] = NewTuple(d, nexthop, cost, seqno)
  <2>1. rs \in Seq(RouteTuple(Heard, Numbers)) /\ Len(rs) <= NUM_RS_ENTRIES
    BY DEF Fits
  <2> QED BY <1>1, <2>1, AddElements
<1> HIDE DEF t
<1>3. Len(t) \in Nat
  BY <1>2, LenProperties
<1> QED BY <1>2, <1>3 DEF Fits, NewTuple, t

(* A refresh and a tick keep it within its pool.                           *)
LEMMA RefreshFits ==
  ASSUME NEW rs, Fits(rs), NEW d
  PROVE  Fits(route_refresh(rs, route_lookup(rs, d)))
<1>1. route_lookup(rs, d) \in 0 .. Len(rs)
  BY LookupFinds DEF Fits
<1> QED BY <1>1, RefreshElements DEF Fits

LEMMA AgeFits ==
  ASSUME NEW rs, Fits(rs)
  PROVE  Fits(AgeRoutes(rs))
<1>1. Len(rs) \in Nat /\ Len(AgeRoutes(rs)) \in Nat
  BY AgeElements, LenProperties DEF Fits
<1> QED BY <1>1, AgeElements, TableAssumption DEF Fits

LEMMA EmptyFits == Fits(<<>>)
BY TableAssumption, EmptySeq DEF Fits

(* What a message of d teaches.                                            *)
LEMMA LearnFits ==
  ASSUME Fits(route_set), NEW d \in Addr, Learn(d)
  PROVE  Fits(route_set')
<1>1. CASE UNCHANGED route_set
  BY <1>1
<1>2. CASE \E nexthop \in Neighbor, cost \in 0 .. UINT8_MAX, seqno \in Seqno :
             route_set' = route_add(route_set, d, nexthop, cost, seqno)
  BY <1>2, AddFits DEF Heard, Numbers
<1> QED BY <1>1, <1>2 DEF Learn

(* The next hop of a route is a node.                                      *)
LEMMA NextHopIsHeard ==
  ASSUME NEW rs, Fits(rs), NEW d, HasRoute(rs, d)
  PROVE  NextHop(rs, d) \in Heard
<1>1. route_lookup(rs, d) \in 1 .. Len(rs)
  BY LookupFinds DEF Fits
<1> QED BY <1>1, SetElements, TupleFields DEF Fits, NextHop

-----------------------------------------------------------------------------
(* The parts of UipTypeOK and PendingWhileWaiting.                         *)
DiscoveryOK ==
  /\ rrep_pending \in BOOLEAN /\ timer \in BOOLEAN /\ queued_packet \in BOOLEAN
  /\ queued_packet => rrep_pending
  /\ timer <=> rrep_pending

QueueOK ==
  /\ queued_receiver \in Addr \cup {NoAddr}
  /\ queued_packet => queued_receiver \in Addr

GatewayOK ==
  /\ is_gateway \in BOOLEAN /\ gw_netif \in BOOLEAN
  /\ gateway \in Heard \cup {NoAddr}

OutOK == out \subseteq [to : Heard, receiver : Heard]

UipInv == Fits(route_set) /\ DiscoveryOK /\ QueueOK /\ GatewayOK /\ OutOK

LEMMA UipInvImplies == UipInv => UipTypeOK /\ PendingWhileWaiting
BY DEF UipInv, Fits, DiscoveryOK, QueueOK, GatewayOK, OutOK, UipTypeOK,
       PendingWhileWaiting, Heard, Numbers

(* Output keeps the queue behind its discovery: a packet enters it only    *)
(* together with one.                                                      *)
LEMMA OutputOK ==
  ASSUME UipInv, NEW rs, Fits(rs), Output(rs)
  PROVE  DiscoveryOK' /\ QueueOK' /\ OutOK'
<1> USE DEF UipInv
<1>1. ASSUME NEW receiver \in Addr, SendWith(rs, receiver)
      PROVE  DiscoveryOK' /\ QueueOK' /\ OutOK'
  <2>1. CASE /\ HasRoute(rs, receiver)
             /\ send_data(NextHop(rs, receiver), receiver)
             /\ UNCHANGED <<discoveryVars, queueVars>>
    <3>1. DiscoveryOK' /\ QueueOK'
      BY <2>1 DEF DiscoveryOK, QueueOK, discoveryVars, queueVars
    <3>2. OutOK'
      BY <2>1, NextHopIsHeard DEF OutOK, send_data, Heard
    <3> QED BY <3>1, <3>2
  <2>2. CASE out' = {} /\ ~queued_packet /\ Queue(receiver) /\ Request
    BY <2>2 DEF DiscoveryOK, QueueOK, OutOK, Queue, Request, discoveryVars
  <2>3. CASE out' = {} /\ Request /\ UNCHANGED queueVars
    BY <2>3 DEF DiscoveryOK, QueueOK, OutOK, Request, discoveryVars, queueVars
  <2>4. CASE out' = {} /\ UNCHANGED <<discoveryVars, queueVars>>
    BY <2>4 DEF DiscoveryOK, QueueOK, OutOK, discoveryVars, queueVars
  <2> QED BY <1>1, <2>1, <2>2, <2>3, <2>4 DEF SendWith
<1>2. CASE gateway \in {Me, NoAddr} /\ SendOutside(rs)
  <2>1. UNCHANGED <<discoveryVars, queueVars>>
    BY <1>2, AddressAssumption DEF SendOutside
  <2>2. out' \subseteq {[to |-> Me, receiver |-> Me]}
    BY <1>2, AddressAssumption DEF SendOutside
  <2>3. DiscoveryOK' /\ QueueOK'
    BY <2>1 DEF DiscoveryOK, QueueOK, discoveryVars, queueVars
  <2>4. OutOK'
    BY <2>2 DEF OutOK, Heard
  <2> QED BY <2>3, <2>4
<1>3. CASE gateway \notin {Me, NoAddr} /\ SendOutside(rs)
  <2>1. gateway \in Addr /\ SendWith(rs, gateway)
    BY <1>3 DEF SendOutside, GatewayOK, Heard
  <2> QED BY <1>1, <2>1
<1> QED BY <1>1, <1>2, <1>3 DEF Output

(* A packet that waits stays in the queue while others are sent.           *)
LEMMA OutputKeepsPacket ==
  ASSUME UipInv, NEW rs, Output(rs), queued_packet
  PROVE  queued_packet'
<1>1. ASSUME NEW receiver, SendWith(rs, receiver)
      PROVE  queued_packet'
  BY <1>1 DEF SendWith, queueVars
<1> QED BY <1>1 DEF Output, SendOutside, queueVars

LEMMA UipInitOK == UipInit => UipInv
BY EmptyFits DEF UipInit, ServiceInit, UipInv, DiscoveryOK, QueueOK, GatewayOK, OutOK

(* recv_data learns a node or refreshes its route; a refresh for the       *)
(* gateway may follow; and what uIP sends then is like any other packet.   *)
LEMMA RecvDataOK ==
  ASSUME UipInv, NEW source \in Addr \cup {Me}, NEW from \in Neighbor,
         NEW outside \in BOOLEAN, recv_data(source, from, outside)
  PROVE  UipInv'
<1> USE DEF UipInv
<1>1. PICK heard \in HeardFrom(source, from) :
        LET rs == IF outside THEN RefreshGateway(heard) ELSE heard
        IN  /\ route_set' = rs
            /\ \/ Output(rs)
               \/ out' = {} /\ UNCHANGED <<discoveryVars, queueVars>>
            /\ UNCHANGED gatewayVars
  BY DEF recv_data
<1>2. Fits(heard)
  <2>1. CASE HasRoute(route_set, source)
    BY <2>1, RefreshFits DEF HeardFrom
  <2>2. CASE ~HasRoute(route_set, source)
    <3>1. PICK cost \in 0 .. UINT8_MAX :
            heard = route_add(route_set, source, from, cost, 0)
      BY <2>2 DEF HeardFrom
    <3>2. source \in Heard /\ 0 \in Numbers
      BY DEF Heard, Numbers
    <3> QED BY <3>1, <3>2, AddFits
  <2> QED BY <2>1, <2>2
<1> DEFINE rs == IF outside THEN RefreshGateway(heard) ELSE heard
<1>3. Fits(rs)
  BY <1>2, RefreshFits DEF RefreshGateway
<1> HIDE DEF rs
<1>4. route_set' = rs /\ UNCHANGED gatewayVars
  BY <1>1 DEF rs
<1>5. Output(rs) \/ (out' = {} /\ UNCHANGED <<discoveryVars, queueVars>>)
  BY <1>1 DEF rs
<1>6. DiscoveryOK' /\ QueueOK' /\ OutOK'
  <2>1. CASE Output(rs)
    BY <1>3, <2>1, OutputOK
  <2>2. CASE out' = {} /\ UNCHANGED <<discoveryVars, queueVars>>
    BY <2>2 DEF DiscoveryOK, QueueOK, OutOK, discoveryVars, queueVars
  <2> QED BY <1>5, <2>1, <2>2
<1>7. Fits(route_set)'
  BY <1>3, <1>4 DEF Fits
<1>8. GatewayOK'
  BY <1>4 DEF GatewayOK, gatewayVars
<1> QED BY <1>6, <1>7, <1>8

(* A reply, of whatever node, empties the queue and ends the discovery     *)
(* together.                                                               *)
LEMMA NewRouteOK ==
  ASSUME UipInv, NEW d \in Addr, new_route(d)
  PROVE  UipInv'
<1> USE DEF UipInv, new_route
<1>1. Fits(route_set)'
  BY LearnFits DEF Reply, Fits
<1>2. DiscoveryOK' /\ QueueOK'
  BY DEF DiscoveryOK, QueueOK, Reply, Ended
<1>3. GatewayOK'
  BY DEF GatewayOK, gatewayVars
<1>4. OutOK'
  <2>1. queued_packet => queued_receiver \in Heard
    BY DEF QueueOK, Heard
  <2> QED BY <2>1 DEF OutOK, send_data
<1> QED BY <1>1, <1>2, <1>3, <1>4

(* The invariant is inductive.                                             *)
LEMMA UipStepOK == UipInv /\ [UipNext]_uipVars => UipInv'
<1> SUFFICES ASSUME UipInv, [UipNext]_uipVars PROVE UipInv'
  OBVIOUS
<1> USE DEF UipInv
<1>1. CASE uip_over_mesh_send
  <2>1. DiscoveryOK' /\ QueueOK' /\ OutOK'
    BY <1>1, OutputOK DEF uip_over_mesh_send
  <2> QED BY <1>1, <2>1 DEF uip_over_mesh_send, Fits, GatewayOK, gatewayVars
<1>2. CASE \E source \in Addr \cup {Me}, from \in Neighbor, outside \in BOOLEAN :
             recv_data(source, from, outside)
  BY <1>2, RecvDataOK
<1>3. CASE \E d \in Addr : new_route(d)
  BY <1>3, NewRouteOK
<1>4. CASE timedout
  BY <1>4 DEF timedout, TimedOut, Ended, Fits, DiscoveryOK, QueueOK, GatewayOK, OutOK,
              gatewayVars
<1>5. ASSUME NEW g \in Addr \cup {Me}, SetGateway(g)
      PROVE  UipInv'
  BY <1>5 DEF SetGateway, Fits, DiscoveryOK, QueueOK, GatewayOK, OutOK, Heard,
              serviceVars, queueVars
<1>6. CASE uip_over_mesh_make_announced_gateway
  BY <1>6 DEF uip_over_mesh_make_announced_gateway, Fits, DiscoveryOK, QueueOK,
              GatewayOK, OutOK, Heard, serviceVars, queueVars
<1>7. CASE uip_over_mesh_set_gateway_netif
  BY <1>7 DEF uip_over_mesh_set_gateway_netif, Fits, DiscoveryOK, QueueOK, GatewayOK,
              OutOK, serviceVars, queueVars
<1>8. CASE uip_over_mesh_init
  <2>1. Fits(route_set)'
    BY <1>8, EmptyFits DEF uip_over_mesh_init, Boot, Fits
  <2> QED BY <1>8, <2>1 DEF uip_over_mesh_init, Boot, Ended, DiscoveryOK, QueueOK,
                            GatewayOK, OutOK
<1>9. CASE periodic \/ \E d \in Addr : MessageOverheard(d)
  <2>1. Fits(route_set)' /\ UNCHANGED discoveryVars
    BY <1>9, LearnFits, AgeFits DEF periodic, MessageOverheard, Age, Overhear, Fits
  <2>2. out' = {} /\ UNCHANGED <<queueVars, gatewayVars>>
    BY <1>9 DEF periodic, MessageOverheard
  <2> QED BY <2>1, <2>2 DEF DiscoveryOK, QueueOK, GatewayOK, OutOK,
                            discoveryVars, queueVars, gatewayVars
<1>10. CASE UNCHANGED uipVars
  BY <1>10 DEF uipVars, serviceVars, queueVars, gatewayVars, Fits, DiscoveryOK,
               QueueOK, GatewayOK, OutOK
<1> QED BY <1>1, <1>2, <1>3, <1>4, <1>5, <1>6, <1>7, <1>8, <1>9, <1>10
        DEF UipNext, gateway_announce_recv, uip_over_mesh_set_gateway

LEMMA UipInvariant == UipSpec => []UipInv
BY UipInitOK, UipStepOK, PTL DEF UipSpec

-----------------------------------------------------------------------------
(* Type correctness of uip-over-mesh.c: the Routing Set fits its pool and  *)
(* what is sent goes to nodes.                                             *)
THEOREM UipTypeCorrect == UipSpec => []UipTypeOK
<1>1. UipInv => UipTypeOK
  BY UipInvImplies
<1> QED BY <1>1, UipInvariant, PTL

(* No packet waits without a discovery: the queue and rrep_pending stay in *)
(* step whatever is sent, heard or announced.                              *)
THEOREM NobodyWaitsInVain == UipSpec => []PendingWhileWaiting
<1>1. UipInv => PendingWhileWaiting
  BY UipInvImplies
<1> QED BY <1>1, UipInvariant, PTL

-----------------------------------------------------------------------------
(* The packet that the reply it waits for does not free: route_add has put *)
(* the new tuple first, and route_lookup passes over it only if its cost   *)
(* is the infinite one.                                                    *)
LEMMA DroppedByItsReply ==
  ASSUME UipInv, queued_packet, new_route(queued_receiver), out' = {}
  PROVE  \E i \in DOMAIN route_set' :
           /\ route_set'[i].R_dest_addr = queued_receiver
           /\ route_set'[i].route_cost = UINT8_MAX
<1> USE DEF UipInv
<1>1. queued_receiver \in Addr
  BY DEF QueueOK
<1>2. ~HasRoute(route_set', queued_receiver)
  BY DEF new_route, send_data
<1>3. PICK nexthop \in Neighbor, cost \in 0 .. UINT8_MAX, seqno \in Seqno :
        route_set' = route_add(route_set, queued_receiver, nexthop, cost, seqno)
  BY <1>2 DEF new_route, Reply, Learn
<1>4. queued_receiver \in Heard /\ seqno \in Numbers
  BY <1>1 DEF Heard, Numbers
<1>5. /\ Fits(route_set')
      /\ 1 \in 1 .. Len(route_set')
      /\ route_set'[1].R_dest_addr = queued_receiver
      /\ route_set'[1].route_cost = cost
  BY <1>3, <1>4, AddFits
<1>6. ~(cost < UINT8_MAX)
  BY <1>2, <1>5, UsableIsFound DEF Fits
<1>7. cost = UINT8_MAX
  BY <1>6, TableAssumption
<1>8. 1 \in DOMAIN route_set'
  BY <1>5, SetElements DEF Fits
<1> QED BY <1>5, <1>7, <1>8

(* Whatever drops a waiting packet is named: no other step of the node     *)
(* loses it.                                                               *)
THEOREM PacketsAreDroppedForCause == UipSpec => DroppedForCause
<1>1. ASSUME UipInv, [UipNext]_uipVars, queued_packet, ~queued_packet', out' = {}
      PROVE  \/ timedout
             \/ uip_over_mesh_init
             \/ \E d \in Addr \ {queued_receiver} : new_route(d)
             \/ /\ new_route(queued_receiver)
                /\ \E i \in DOMAIN route_set' :
                     /\ route_set'[i].R_dest_addr = queued_receiver
                     /\ route_set'[i].route_cost = UINT8_MAX
  <2>1. ~UNCHANGED queueVars
    BY <1>1 DEF queueVars
  <2>2. ~uip_over_mesh_send
    BY <1>1, OutputKeepsPacket DEF uip_over_mesh_send
  <2>3. ASSUME NEW source, NEW from, NEW outside, recv_data(source, from, outside)
        PROVE  FALSE
    BY <1>1, <2>1, <2>3, OutputKeepsPacket DEF recv_data
  <2>4. ~UNCHANGED uipVars /\ ~periodic /\ \A d : ~MessageOverheard(d)
    BY <2>1 DEF uipVars, periodic, MessageOverheard
  <2>5. \A g : ~SetGateway(g)
    BY <2>1 DEF SetGateway
  <2>6. ~uip_over_mesh_make_announced_gateway /\ ~uip_over_mesh_set_gateway_netif
    BY <2>1 DEF uip_over_mesh_make_announced_gateway, uip_over_mesh_set_gateway_netif
  <2>7. timedout \/ uip_over_mesh_init \/ \E d \in Addr : new_route(d)
    BY <1>1, <2>2, <2>3, <2>4, <2>5, <2>6
    DEF UipNext, gateway_announce_recv, uip_over_mesh_set_gateway
  <2>8. CASE new_route(queued_receiver)
    BY <1>1, <2>8, DroppedByItsReply
  <2> QED BY <2>7, <2>8
<1> QED BY <1>1, UipInvariant, PTL DEF UipSpec, DroppedForCause
============================================================================

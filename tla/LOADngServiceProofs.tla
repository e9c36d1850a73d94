------------------------ MODULE LOADngServiceProofs ------------------------
(***************************************************************************)
(* LOADng implements RouteService on every node of every network.  The     *)
(* state of the node maps to itself; what the proof has to find is the     *)
(* step of the service each handler amounts to, and that a route is only   *)
(* learned from a node that is heard: frames keep to the links.            *)
(***************************************************************************)
EXTENDS LOADngService, LOADngProofs

-----------------------------------------------------------------------------
(* The service computes on its Routing Set what the node computes: both    *)
(* use the operators of RouteTable.                                        *)
LEMMA SameLookup ==
  ASSUME NEW rs, NEW d
  PROVE  /\ Service!route_lookup(rs, d) = route_lookup(rs, d)
         /\ Service!HasRoute(rs, d) = HasRoute(rs, d)
         /\ Service!NextHop(rs, d) = NextHop(rs, d)
BY DEF Service!route_lookup, route_lookup, Service!HasRoute, HasRoute,
       Service!NextHop, NextHop, Service!Candidates, Candidates, Service!Better, Better

LEMMA SameAdd ==
  ASSUME NEW rs, NEW d, NEW nexthop, NEW cost, NEW seqno
  PROVE  Service!route_add(rs, d, nexthop, cost, seqno) =
           route_add(rs, d, nexthop, cost, seqno)
<1>1. Service!Replaced(rs, d, nexthop) = Replaced(rs, d, nexthop)
  BY SameLookup DEF Service!Replaced, Replaced
<1>2. ASSUME NEW i, NEW e
      PROVE  Service!PushReusing(rs, i, NUM_RS_ENTRIES, e) =
               PushReusing(rs, i, NUM_RS_ENTRIES, e)
  BY DEF Service!PushReusing, PushReusing, Service!Vacate, Vacate,
         Service!RemoveAt, RemoveAt, Service!Front, Front, Service!Cons, Cons
<1> QED BY <1>1, <1>2 DEF Service!route_add, route_add

LEMMA SameAge ==
  ASSUME NEW rs
  PROVE  Service!AgeRoutes(rs) = AgeRoutes(rs)
BY DEF Service!AgeRoutes, AgeRoutes, Service!Expiring, Expiring,
       Service!Older, Older, Service!Min, Min

LEMMA SameRefresh ==
  ASSUME NEW rs, NEW i
  PROVE  Service!route_refresh(rs, i) = route_refresh(rs, i)
BY DEF Service!route_refresh, route_refresh

(* What the handlers learn from a message is what the service may learn of *)
(* its originator.                                                         *)
LEMMA LearnIsServed ==
  ASSUME NEW msg \in RreqMessage \cup RrepMessage, NEW from \in Node, Me \in Link[from],
         msg.originator # Me,
         route'[Me] = Learn(route[Me], msg, from)
  PROVE  msg.originator \in Node \ {Me} /\ Service!Learn(msg.originator)
<1> DEFINE d == msg.originator
           cost == (msg.hop_count + 1) % (UINT8_MAX + 1)
<1>1. d \in Node \ {Me} /\ msg.seqno \in SeqNumber /\ cost \in 0 .. UINT8_MAX
  BY MessageFields, CostType
<1>2. CASE HasRoute(route[Me], d)
  BY <1>2, <1>1, SameLookup DEF Learn, Service!Learn
<1>3. CASE ~HasRoute(route[Me], d)
  <2>1. route'[Me] = route_add(route[Me], d, from, cost, msg.seqno)
    BY <1>3 DEF Learn
  <2> HIDE DEF cost, d
  <2>2. route'[Me] = Service!route_add(route[Me], d, from, cost, msg.seqno)
    BY <2>1, SameAdd
  <2>3. ~Service!HasRoute(route[Me], d)
    BY <1>3, SameLookup
  <2>4. Service!Learn(d)
    BY <1>1, <2>2, <2>3 DEF Service!Learn
  <2> QED BY <1>1, <2>4 DEF d
<1> QED BY <1>2, <1>3

-----------------------------------------------------------------------------
Stutter == UNCHANGED <<route[Me], rrep_pending[Me], timer[Me]>>
Served == Service!ServiceNext \/ Stutter

(* A flood frame teaches the node its originator, without touching its     *)
(* discovery.                                                              *)
LEMMA RreqIsServed ==
  ASSUME IInv, OnLinks, NEW n \in Node, NEW f \in rreqs, RreqReceived(n, f)
  PROVE  Served
<1>1. /\ f.from \in Node /\ f.packet.msg \in RreqMessage
      /\ route = [m \in Node |-> route[m]]
  BY RreqFieldsOK DEF IInv, RoutesOK
<1>2. UNCHANGED <<rrep_pending, timer>>
  BY DEF RreqReceived, RreqDuplicate, RreqRejected, RreqAnswered, RreqForwarded,
         RreqExhausted, protocolVars
<1>3. CASE RreqDuplicate(n, f) \/ RreqRejected(n, f)
  BY <1>2, <1>3 DEF RreqDuplicate, RreqRejected, protocolVars, Served, Stutter
<1>4. CASE Accepted(n, f) /\ n # Me
  <2>1. route'[Me] = route[Me]
    BY <1>1, <1>4 DEF Accepted
  <2> QED BY <1>2, <2>1 DEF Served, Stutter
<1>5. CASE Accepted(n, f) /\ n = Me
  <2>1. /\ f.packet.msg.originator # Me /\ Me \in Link[f.from]
        /\ route'[Me] = Learn(route[Me], f.packet.msg, f.from)
    BY <1>1, <1>5, ObserverAssumption DEF Accepted, ValidRreq, Arrives, OnLinks
  <2>2. PICK d \in Node \ {Me} : Service!Learn(d)
    BY <1>1, <2>1, LearnIsServed
  <2>3. Service!Overhear(d)
    BY <1>2, <2>2 DEF Service!Overhear, Service!discoveryVars
  <2> QED BY <2>2, <2>3 DEF Served, Service!ServiceNext
<1> QED BY <1>3, <1>4, <1>5 DEF RreqReceived, RreqAnswered, RreqForwarded, RreqExhausted

(* A reply that is for the node ends its discovery; any other one is only  *)
(* overheard.                                                              *)
LEMMA RrepIsServed ==
  ASSUME IInv, OnLinks, NEW n \in Node, NEW f \in rreps, RrepReceived(n, f)
  PROVE  Served
<1>1. /\ f.from \in Node /\ f.msg \in RrepMessage
      /\ route = [m \in Node |-> route[m]]
      /\ rrep_pending \in [Node -> BOOLEAN] /\ timer \in [Node -> BOOLEAN]
  BY RrepFieldsOK DEF IInv, RoutesOK, NodesOK
<1>2. CASE RrepRejected(n, f)
  BY <1>2 DEF RrepRejected, protocolVars, Served, Stutter
<1>3. CASE (RrepForwarded(n, f) \/ RrepForUs(n, f)) /\ n # Me
  <2>1. route'[Me] = route[Me] /\ rrep_pending'[Me] = rrep_pending[Me] /\ timer'[Me] = timer[Me]
    BY <1>1, <1>3, ObserverAssumption DEF RrepForwarded, RrepForUs
  <2> QED BY <2>1 DEF Served, Stutter
<1>4. CASE (RrepForwarded(n, f) \/ RrepForUs(n, f)) /\ n = Me
  <2>1. /\ f.msg.originator # Me /\ Me \in Link[f.from]
        /\ route'[Me] = Learn(route[Me], f.msg, f.from)
    BY <1>1, <1>4, ObserverAssumption
    DEF RrepForwarded, RrepForUs, ValidRrep, Delivered, OnLinks
  <2>2. PICK d \in Node \ {Me} : Service!Learn(d)
    BY <1>1, <2>1, LearnIsServed
  <2>3. CASE RrepForwarded(n, f)
    <3>1. Service!Overhear(d)
      BY <2>2, <2>3 DEF RrepForwarded, Service!Overhear, Service!discoveryVars
    <3> QED BY <2>2, <3>1 DEF Served, Service!ServiceNext
  <2>4. CASE RrepForUs(n, f)
    <3>1. rrep_pending'[Me] = FALSE /\ timer'[Me] = FALSE
      BY <1>1, <1>4, <2>4, ObserverAssumption DEF RrepForUs
    <3>2. Service!Reply(d)
      BY <2>2, <3>1 DEF Service!Reply, Service!Ended
    <3> QED BY <2>2, <3>2 DEF Served, Service!ServiceNext
  <2> QED BY <1>4, <2>3, <2>4
<1> QED BY <1>2, <1>3, <1>4 DEF RrepReceived

(* The other steps of a network, one by one.                               *)
LEMMA StepIsServed == IInv /\ OnLinks /\ [Next]_vars => Served
<1> SUFFICES ASSUME IInv, OnLinks, [Next]_vars PROVE Served
  OBVIOUS
<1>0. /\ route = [m \in Node |-> route[m]] /\ Me \in Node
      /\ rrep_pending \in [Node -> BOOLEAN] /\ timer \in [Node -> BOOLEAN]
      /\ Sound(Me, route[Me])
  BY ObserverAssumption DEF IInv, RoutesOK, NodesOK
<1>1. ASSUME NEW n \in Node, NEW d \in Node, Discover(n, d)
      PROVE  Served
  <2>1. CASE n = Me
    <3>1. ~rrep_pending[Me] /\ rrep_pending'[Me] = TRUE /\ timer'[Me] = TRUE
      BY <1>0, <1>1, <2>1 DEF Discover
    <3>2. Service!Request /\ UNCHANGED route[Me]
      BY <1>1, <3>1 DEF Discover, Service!Request
    <3> QED BY <3>2 DEF Served, Service!ServiceNext
  <2>2. CASE n # Me
    BY <1>0, <1>1, <2>2 DEF Discover, Served, Stutter
  <2> QED BY <2>1, <2>2
<1>2. ASSUME NEW n \in Node, Timeout(n)
      PROVE  Served
  <2>1. CASE n = Me
    <3>1. Service!TimedOut
      BY <1>0, <1>2, <2>1 DEF Timeout, Service!TimedOut, Service!Ended
    <3> QED BY <3>1 DEF Served, Service!ServiceNext
  <2>2. CASE n # Me
    BY <1>0, <1>2, <2>2 DEF Timeout, Served, Stutter
  <2> QED BY <2>1, <2>2
<1>3. ASSUME NEW n \in Node, Tick(n)
      PROVE  Served
  <2>1. CASE n = Me
    <3>1. route'[Me] = Service!AgeRoutes(route[Me])
      BY <1>0, <1>3, <2>1, SameAge DEF Tick
    <3>2. Service!Age
      BY <1>3, <3>1 DEF Tick, Service!Age, Service!discoveryVars
    <3> QED BY <3>2 DEF Served, Service!ServiceNext
  <2>2. CASE n # Me
    BY <1>0, <1>3, <2>2 DEF Tick, Served, Stutter
  <2> QED BY <2>1, <2>2
<1>4. ASSUME NEW n \in Node, NEW d \in Node, DataReceived(n, d)
      PROVE  Served
  <2>1. UNCHANGED <<rrep_pending, timer>>
    BY <1>4 DEF DataReceived
  <2>2. CASE n # Me
    BY <1>0, <1>4, <2>1, <2>2 DEF DataReceived, Served, Stutter
  <2>3. CASE n = Me
    <3>1. route'[Me] = route_refresh(route[Me], route_lookup(route[Me], d))
      BY <1>0, <1>4, <2>3 DEF DataReceived
    <3>2. CASE d # Me
      <4>1. route'[Me] = Service!route_refresh(route[Me], Service!route_lookup(route[Me], d))
        BY <3>1, SameLookup, SameRefresh
      <4>2. Service!Refresh(d)
        BY <2>1, <4>1 DEF Service!Refresh, Service!discoveryVars
      <4> QED BY <3>2, <4>2 DEF Served, Service!ServiceNext
    <3>3. CASE d = Me
      <4>1. route_lookup(route[Me], Me) = 0
        <5>1. /\ route[Me] \in Seq(RouteTuple(Node, SeqNumber))
              /\ \A i \in 1 .. Len(route[Me]) : route[Me][i].R_dest_addr # Me
          BY <1>0 DEF Sound, Fits, NotSelf
        <5>2. ~HasRoute(route[Me], Me)
          BY <5>1, LookupFinds
        <5> QED BY <5>2 DEF HasRoute
      <4>2. route'[Me] = route[Me]
        BY <3>1, <3>3, <4>1 DEF route_refresh
      <4> QED BY <2>1, <4>2 DEF Served, Stutter
    <3> QED BY <3>2, <3>3
  <2> QED BY <2>2, <2>3
<1>5. ASSUME NEW n \in Node, Close(n) \/ Open(n) \/ Reboot(n)
      PROVE  Served
  <2>1. CASE n # Me
    BY <1>0, <1>5, <2>1 DEF Close, Open, Reboot, Served, Stutter
  <2>2. CASE n = Me
    <3>1. Service!Shut \/ Service!Reopen \/ Service!Boot
      BY <1>0, <1>5, <2>2
      DEF Close, Open, Reboot, Service!Shut, Service!Reopen, Service!Boot,
          Service!Ended, Service!discoveryVars
    <3> QED BY <3>1 DEF Served, Service!ServiceNext
  <2> QED BY <2>1, <2>2
<1>6. ASSUME UNCHANGED protocolVars
      PROVE  Served
  BY <1>6 DEF protocolVars, Served, Stutter
<1>7. ASSUME NEW n \in Node, Relay(n)
      PROVE  Served
  BY <1>6, <1>7 DEF Relay
<1>8. ASSUME NEW f \in rreqs \cup rreps, Lose(f) \/ Unheard(f)
      PROVE  Served
  BY <1>6, <1>8 DEF Lose, Unheard
<1>9. CASE UNCHANGED vars
  BY <1>6, <1>9 DEF vars
<1> QED BY <1>1, <1>2, <1>3, <1>4, <1>5, <1>7, <1>8, <1>9, RreqIsServed, RrepIsServed DEF Next

-----------------------------------------------------------------------------
(* mesh.c and uip-over-mesh.c may rely on RouteService on every node of    *)
(* every network, whatever is lost, reordered or restarted.                *)
THEOREM EveryNodeServes == Spec => NodeServes
<1>1. Init => Service!ServiceInit
  BY ObserverAssumption DEF Init, Service!ServiceInit
<1>2. IInv /\ OnLinks /\ [Next]_vars => [Service!ServiceNext]_(Service!serviceVars)
  BY StepIsServed DEF Served, Stutter, Service!serviceVars
<1> QED BY <1>1, <1>2, LinksInvariant, PTL DEF Spec, NodeServes, Service!Service
============================================================================

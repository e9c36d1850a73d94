------------------------- MODULE MeshNetworkProofs -------------------------
(***************************************************************************)
(* Networks of any size and shape with any traffic.  Every step of the     *)
(* mesh is a step of LOADng or leaves it alone, so that what is proved of  *)
(* route discovery holds below the mesh; and no packet meets a node that   *)
(* does not know the way on.                                               *)
(***************************************************************************)
EXTENDS MeshNetwork, RoutePathProofs

meshInv == MeshTypeOK /\ IsFiniteSet(handed)

(* A route of a node leads to a node, and so does a packet sent along it.  *)
LEMMA NextHopIsNode ==
  ASSUME NEW n \in Node, NEW rs, Sound(n, rs), NEW d, HasRoute(rs, d)
  PROVE  NextHop(rs, d) \in Node
<1>1. rs \in Seq(RouteTuple(Node, SeqNumber))
  BY DEF Sound, Fits
<1>2. route_lookup(rs, d) \in 1 .. Len(rs)
  BY <1>1, LookupFinds
<1> QED BY <1>1, <1>2, SetElements, TupleFields DEF NextHop

LEMMA UnicastType ==
  ASSUME NEW n \in Node, NEW nexthop \in Node, NEW packet \in Packet
  PROVE  unicast_send(n, nexthop, packet) \subseteq DataFrame
BY DEF unicast_send, DataFrame

(* What each step of the mesh is to route discovery.                       *)
LEMMA MeshStep == meshInv /\ [MeshNext]_allVars => [Next]_vars
<1> SUFFICES ASSUME meshInv, [MeshNext]_allVars PROVE [Next]_vars
  OBVIOUS
<1>1. ASSUME NEW n \in Node, NEW packet, NEW others, Forward(n, packet, others)
      PROVE  [Next]_vars
  <2>1. Discover(n, packet.dest) => packet.dest \in Node
    BY NetworkAssumption DEF Discover
  <2> QED BY <1>1, <2>1 DEF Forward, Next
<1>2. ASSUME NEW n \in Node, NEW d \in Node, Send(n, d)
      PROVE  [Next]_vars
  BY <1>1, <1>2 DEF Send
<1>3. ASSUME NEW n \in Node, NEW f \in data, Receive(n, f) \/ PassOn(n, f)
      PROVE  [Next]_vars
  <2>1. f.packet.source \in Node
    BY DEF meshInv, MeshTypeOK, DataFrame, Packet
  <2> QED BY <1>1, <1>3, <2>1 DEF Receive, PassOn, Next
<1>4. ASSUME NEW f \in data, LoseData(f) \/ UnheardData(f)
      PROVE  [Next]_vars
  BY <1>4 DEF LoseData, UnheardData
<1>5. ASSUME NEW n \in Node, NEW f \in rreps, MeshRrepForUs(n, f)
      PROVE  [Next]_vars
  BY <1>5 DEF MeshRrepForUs, RrepReceived, Next
<1>6. ASSUME NEW n \in Node, MeshTimeout(n) \/ MeshReboot(n)
      PROVE  [Next]_vars
  BY <1>6 DEF MeshTimeout, MeshReboot, Next
<1>7. CASE Beside
  BY <1>7 DEF Beside, RrepReceived, Next
<1>8. CASE UNCHANGED allVars
  BY <1>8 DEF allVars
<1> QED BY <1>2, <1>3, <1>4, <1>5, <1>6, <1>7, <1>8 DEF MeshNext

-----------------------------------------------------------------------------
(* What a node does with a packet it has to forward.                       *)
LEMMA ForwardType ==
  ASSUME MeshTypeOK, RoutesOK, NEW n \in Node, NEW packet \in Packet,
         NEW others \in SUBSET data, Forward(n, packet, others)
  PROVE  /\ queued' \in [Node -> Packet \cup {NoPacket}]
         /\ data' \subseteq DataFrame
         /\ fate' \subseteq Packet \X Ends
<1>1. others \subseteq DataFrame
  BY DEF MeshTypeOK
<1>2. CASE HasRoute(route[n], packet.dest)
  <2>1. /\ data' = others \cup unicast_send(n, NextHop(route[n], packet.dest), packet)
        /\ queued' = queued /\ fate' = fate
    BY <1>2 DEF Forward
  <2>2. NextHop(route[n], packet.dest) \in Node
    BY <1>2, NextHopIsNode DEF RoutesOK
  <2> QED BY <1>1, <2>1, <2>2, UnicastType DEF MeshTypeOK
<1>3. CASE ~HasRoute(route[n], packet.dest)
  <2>1. data' = others /\ Replace(n, packet)
    BY <1>3 DEF Forward
  <2>2. queued' \in [Node -> Packet \cup {NoPacket}]
    BY <2>1 DEF Replace, MeshTypeOK
  <2>3. fate' \subseteq Packet \X Ends
    BY <2>1 DEF Replace, Ready, MeshTypeOK, Ends
  <2> QED BY <1>1, <2>1, <2>2, <2>3
<1> QED BY <1>2, <1>3

LEMMA MeshStepOK == meshInv /\ IInv /\ [MeshNext]_allVars => meshInv' /\ IInv'
<1> SUFFICES ASSUME meshInv, IInv, [MeshNext]_allVars PROVE meshInv' /\ IInv'
  OBVIOUS
<1> USE DEF meshInv
<1>0. RoutesOK /\ IInv' /\ RoutesOK'
  <2>1. IInv'
    BY MeshStep, StepOK
  <2> QED BY <2>1 DEF IInv
<1>1. ASSUME NEW n \in Node, NEW d \in Node, Send(n, d)
      PROVE  meshInv'
  <2> DEFINE packet == [source |-> n, dest |-> d, no |-> Cardinality(handed) + 1]
  <2>1. /\ handed' = handed \cup {packet} /\ Cardinality(handed) < Sends
        /\ Forward(n, packet, data)
    BY <1>1 DEF Send
  <2>2. Cardinality(handed) + 1 \in 1 .. Sends
    BY <2>1, FS_CardinalityType, TrafficAssumption
  <2>3. packet \in Packet
    BY <2>2 DEF Packet
  <2>4. IsFiniteSet(handed')
    BY <2>1, FS_AddElement
  <2> HIDE DEF packet
  <2> QED BY <1>0, <2>1, <2>3, <2>4, ForwardType DEF MeshTypeOK
<1>2. ASSUME NEW n \in Node, NEW f \in data, Receive(n, f)
      PROVE  meshInv'
  BY <1>2 DEF Receive, EndsAs, MeshTypeOK, DataFrame, Ends
<1>3. ASSUME NEW n \in Node, NEW f \in data, PassOn(n, f)
      PROVE  meshInv'
  <2>1. f.packet \in Packet /\ data \ {f} \subseteq data
    BY DEF MeshTypeOK, DataFrame
  <2> QED BY <1>0, <1>3, <2>1, ForwardType DEF PassOn, MeshTypeOK
<1>4. ASSUME NEW f \in data, LoseData(f) \/ UnheardData(f)
      PROVE  meshInv'
  BY <1>4 DEF LoseData, UnheardData, DataGone, EndsAs, MeshTypeOK, DataFrame, Ends
<1>5. ASSUME NEW n \in Node, NEW f \in rreps, MeshRrepForUs(n, f)
      PROVE  meshInv'
  <2> DEFINE dest == f.msg.originator
             next == NextHop(route'[n], dest)
  <2>1. FoundRoute(n, dest)
    BY <1>5 DEF MeshRrepForUs
  <2>2. HasRoute(route'[n], dest) => next \in Node
    <3>1. Sound(n, route'[n])
      BY <1>0 DEF RoutesOK
    <3> QED BY <3>1, NextHopIsNode
  <2> HIDE DEF dest
  <2>3. CASE Ready(n) \/ queued[n].dest # dest
    BY <2>1, <2>3 DEF FoundRoute, MeshTypeOK, meshVars
  <2>4. CASE ~(Ready(n) \/ queued[n].dest # dest)
    <3>1. queued[n] \in Packet
      BY <2>4 DEF Ready, MeshTypeOK
    <3>2. /\ queued' = [queued EXCEPT ![n] = NoPacket]
          /\ handed' = handed
          /\ \/ /\ HasRoute(route'[n], dest)
                /\ data' = data \cup unicast_send(n, next, queued[n]) /\ fate' = fate
             \/ data' = data /\ fate' = fate \cup {<<queued[n], "timedout">>}
      BY <2>1, <2>4 DEF FoundRoute, EndsAs
    <3> HIDE DEF next
    <3> QED BY <2>2, <3>1, <3>2, UnicastType DEF MeshTypeOK, Ends
  <2> QED BY <2>3, <2>4
<1>6. ASSUME NEW n \in Node, MeshTimeout(n) \/ MeshReboot(n)
      PROVE  meshInv'
  BY <1>6 DEF MeshTimeout, RouteTimedOut, MeshReboot, EndsAs, Ready, MeshTypeOK, Ends
<1>7. ASSUME UNCHANGED meshVars
      PROVE  meshInv'
  BY <1>7 DEF meshVars, MeshTypeOK
<1> QED BY <1>0, <1>1, <1>2, <1>3, <1>4, <1>5, <1>6, <1>7 DEF MeshNext, allVars

LEMMA MeshInvariant == MeshSpec => [](meshInv /\ IInv)
<1>1. MeshInit => meshInv
  BY FS_EmptySet DEF MeshInit, meshInv, MeshTypeOK
<1>2. MeshInit => IInv
  BY InitOK DEF MeshInit
<1> QED BY <1>1, <1>2, MeshStepOK, PTL DEF MeshSpec

-----------------------------------------------------------------------------
(* The mesh uses route discovery as LOADng says it is used: what holds of  *)
(* LOADng holds of the network below any traffic.                          *)
THEOREM MeshImplementsLOADng == MeshSpec => Spec
<1>1. MeshInit => Init
  BY DEF MeshInit
<1> QED BY <1>1, MeshInvariant, MeshStep, PTL DEF MeshSpec, Spec

-----------------------------------------------------------------------------
(* A frame that goes to the next hop of its sender reaches a node that     *)
(* knows the way on, since the routes are ranked.                          *)
LEMMA SentDataCanGoOn ==
  ASSUME RoutesGrow, NEW n \in Node, NEW packet \in Packet,
         HasRoute(route'[n], packet.dest),
         NEW f \in unicast_send(n, NextHop(route'[n], packet.dest), packet)
  PROVE  f.to = f.packet.dest \/ HasRoute(route'[f.to], f.packet.dest)
<1> DEFINE d == packet.dest
<1>1. f.to = NextHop(route'[n], d) /\ f.packet = packet /\ d \in Node
  BY DEF unicast_send, Packet
<1>2. PICK rank \in [Node -> Nat] :
        \A k \in Node :
          HasRoute(route'[k], d) => Leads(route', rank, k, NextHop(route'[k], d), d)
  BY <1>1 DEF RoutesGrow, Ranked
<1> QED BY <1>1, <1>2 DEF Leads

(* New frames come from data_packet_forward and found_route only.          *)
LEMMA NewFrames ==
  ASSUME meshInv, MeshNext, NEW f \in data', f \notin data
  PROVE  \E n \in Node, packet \in Packet :
           /\ HasRoute(route'[n], packet.dest)
           /\ f \in unicast_send(n, NextHop(route'[n], packet.dest), packet)
<1> USE DEF meshInv
<1>1. ASSUME NEW n \in Node, NEW packet \in Packet, NEW others \in SUBSET data,
             Forward(n, packet, others)
      PROVE  /\ HasRoute(route'[n], packet.dest)
             /\ f \in unicast_send(n, NextHop(route'[n], packet.dest), packet)
  <2>1. CASE HasRoute(route[n], packet.dest)
    <3>1. /\ data' = others \cup unicast_send(n, NextHop(route[n], packet.dest), packet)
          /\ route' = route
      BY <1>1, <2>1 DEF Forward, vars, protocolVars
    <3> QED BY <2>1, <3>1
  <2>2. CASE ~HasRoute(route[n], packet.dest)
    BY <1>1, <2>2 DEF Forward
  <2> QED BY <2>1, <2>2
<1>2. ASSUME NEW n \in Node, NEW d \in Node, Send(n, d)
      PROVE  \E packet \in Packet :
               /\ HasRoute(route'[n], packet.dest)
               /\ f \in unicast_send(n, NextHop(route'[n], packet.dest), packet)
  <2>0. PICK packet : packet = [source |-> n, dest |-> d, no |-> Cardinality(handed) + 1]
    OBVIOUS
  <2>1. Cardinality(handed) < Sends /\ Forward(n, packet, data)
    BY <1>2, <2>0 DEF Send
  <2>2. Cardinality(handed) + 1 \in 1 .. Sends
    BY <2>1, FS_CardinalityType, TrafficAssumption
  <2>3. packet \in Packet
    BY <2>0, <2>2 DEF Packet
  <2> QED BY <1>1, <2>1, <2>3
<1>3. ASSUME NEW n \in Node, NEW g \in data, PassOn(n, g)
      PROVE  \E packet \in Packet :
               /\ HasRoute(route'[n], packet.dest)
               /\ f \in unicast_send(n, NextHop(route'[n], packet.dest), packet)
  <2>1. g.packet \in Packet /\ data \ {g} \in SUBSET data
    BY DEF MeshTypeOK, DataFrame
  <2> QED BY <1>1, <1>3, <2>1 DEF PassOn
<1>4. ASSUME NEW n \in Node, NEW g \in rreps, MeshRrepForUs(n, g)
      PROVE  \E packet \in Packet :
               /\ HasRoute(route'[n], packet.dest)
               /\ f \in unicast_send(n, NextHop(route'[n], packet.dest), packet)
  <2>1. FoundRoute(n, g.msg.originator)
    BY <1>4 DEF MeshRrepForUs
  <2>2. ~Ready(n) /\ queued[n].dest = g.msg.originator
    BY <2>1 DEF FoundRoute, meshVars
  <2>3. queued[n] \in Packet
    BY <2>2 DEF Ready, MeshTypeOK
  <2>4. /\ HasRoute(route'[n], queued[n].dest)
        /\ data' = data \cup unicast_send(n, NextHop(route'[n], queued[n].dest), queued[n])
    BY <2>1, <2>2 DEF FoundRoute, EndsAs
  <2> QED BY <2>3, <2>4
<1>5. ASSUME \/ \E n \in Node, g \in data : Receive(n, g)
             \/ \E g \in data : LoseData(g) \/ UnheardData(g)
             \/ \E n \in Node : MeshTimeout(n) \/ MeshReboot(n)
             \/ UNCHANGED meshVars
      PROVE  FALSE
  BY <1>5 DEF Receive, LoseData, UnheardData, DataGone, MeshTimeout, RouteTimedOut,
              MeshReboot, meshVars
<1> QED BY <1>2, <1>3, <1>4, <1>5 DEF MeshNext

(* While no route is given up, no packet of any network with any traffic   *)
(* reaches a node that would have to look for its destination: only the    *)
(* source does.                                                            *)
THEOREM PacketsGoOn == MeshSpec => []DataCanGoOn
<1>1. MeshInit => DataCanGoOn
  BY DEF MeshInit, DataCanGoOn, Passable
<1>2. /\ meshInv /\ IInv /\ (RoutesKept => PathsOK) /\ DataCanGoOn
      /\ [MeshNext]_allVars
      => DataCanGoOn'
  <2> SUFFICES ASSUME meshInv, IInv, RoutesKept => PathsOK, DataCanGoOn,
                      [MeshNext]_allVars, RoutesKept', NEW f \in data'
               PROVE  f.to = f.packet.dest \/ HasRoute(route'[f.to], f.packet.dest)
    BY DEF DataCanGoOn, Passable
  <2>1. RoutesKept /\ RoutesGrow
    <3>1. CASE Next
      BY <3>1, KeptBefore, PathsKept DEF PathsHold
    <3>2. CASE UNCHANGED vars
      <4>1. RoutesKept /\ route' = route
        BY <3>2 DEF vars, protocolVars, historyVars, RoutesKept, CostsTrue
      <4> QED BY <4>1, UnchangedRoutesGrow
    <3> QED BY <3>1, <3>2, MeshStep
  <2>2. CASE f \in data
    <3>1. f.to \in Node /\ f.packet.dest \in Node
      BY <2>2 DEF meshInv, MeshTypeOK, DataFrame, Packet
    <3>2. Knows(f.to, f.packet.dest)
      BY <2>1, <2>2 DEF DataCanGoOn, Passable, Knows
    <3>3. Knows(f.to, f.packet.dest)'
      BY <2>1, <3>1, <3>2 DEF RoutesGrow
    <3> QED BY <3>3 DEF Knows
  <2>3. CASE f \notin data
    <3>1. MeshNext
      BY <2>3 DEF allVars, meshVars
    <3> QED BY <2>1, <2>3, <3>1, NewFrames, SentDataCanGoOn
  <2> QED BY <2>2, <2>3
<1> QED BY <1>1, <1>2, MeshImplementsLOADng, MeshInvariant, PathInvariant, PTL
     DEF MeshSpec

-----------------------------------------------------------------------------
(* Steps that leave a node's packet and its timer alone do not strand the  *)
(* packet.                                                                 *)
LEMMA OthersStrandNobody ==
  ASSUME NEW n \in Node, ~Stranded(n), queued'[n] = queued[n], timer'[n] = timer[n]
  PROVE  ~Stranded(n)'
BY DEF Stranded, Ready

(* However large the network, and whatever is closed, opened or rebooted,  *)
(* a packet is left without a timer in three ways only: by a reply about   *)
(* another destination, by a close under the waiting packet, or because it *)
(* came while the flag was left over from such a close.                    *)
THEOREM StrandedOnlyForCause == MeshSpec => StrandedForCause
<1> DEFINE Cause(n) ==
             \/ \E f \in rreps : RrepForUs(n, f) /\ f.msg.originator # queued[n].dest
             \/ Close(n)
             \/ spent["restart"] > 0 /\ rrep_pending[n] /\ ~timer[n]
<1>1. meshInv /\ IInv /\ PendingHasTimer /\ [MeshNext]_allVars =>
        [\A n \in Node : ~Stranded(n) /\ Stranded(n)' => Cause(n)]_allVars
  <2> SUFFICES ASSUME meshInv, IInv, PendingHasTimer, MeshNext, NEW n \in Node,
                      ~Stranded(n), Stranded(n)', ~Cause(n)
               PROVE  FALSE
    OBVIOUS
  <2>0. /\ queued \in [Node -> Packet \cup {NoPacket}]
        /\ rrep_pending \in [Node -> BOOLEAN] /\ timer \in [Node -> BOOLEAN]
        /\ spent["restart"] \in Nat
    BY NetworkAssumption DEF meshInv, MeshTypeOK, IInv, NodesOK, HistoryOK
  <2>1. ~(queued'[n] = queued[n] /\ timer'[n] = timer[n])
    BY OthersStrandNobody
  <2>2. queued'[n] # NoPacket /\ ~timer'[n]
    BY DEF Stranded, Ready
  <2>3. ASSUME NEW k \in Node, NEW packet, NEW others, Forward(k, packet, others)
        PROVE  FALSE
    <3>1. CASE UNCHANGED <<vars, queued>>
      BY <2>1, <3>1 DEF vars, protocolVars
    <3>2. CASE Replace(k, packet) /\ Discover(k, packet.dest)
      <4>1. k # n => queued'[n] = queued[n] /\ timer'[n] = timer[n]
        BY <2>0, <3>2 DEF Replace, Discover
      <4>2. timer'[k]
        BY <2>0, <3>2 DEF Discover
      <4> QED BY <2>1, <2>2, <4>1, <4>2
    <3>3. CASE Replace(k, packet) /\ rrep_pending[k] /\ UNCHANGED vars
      <4>1. timer' = timer
        BY <3>3 DEF vars, protocolVars
      <4>2. k = n
        BY <2>0, <2>1, <3>3, <4>1 DEF Replace
      <4>3. rrep_pending[n] /\ ~timer[n]
        BY <2>2, <3>3, <4>1, <4>2
      <4>4. spent["restart"] # 0
        BY <4>3 DEF PendingHasTimer
      <4> QED BY <2>0, <4>3, <4>4
    <3> QED BY <2>3, <3>1, <3>2, <3>3 DEF Forward
  <2>4. ASSUME NEW k \in Node, NEW d \in Node, Send(k, d)
        PROVE  FALSE
    BY <2>3, <2>4 DEF Send
  <2>5. ASSUME NEW k \in Node, NEW f \in data, Receive(k, f) \/ PassOn(k, f)
        PROVE  FALSE
    BY <2>1, <2>3, <2>5 DEF Receive, PassOn, DataReceived
  <2>6. ASSUME NEW f \in data, LoseData(f) \/ UnheardData(f)
        PROVE  FALSE
    BY <2>1, <2>6 DEF LoseData, UnheardData, DataGone, vars, protocolVars
  <2>7. ASSUME NEW k \in Node, NEW f \in rreps, MeshRrepForUs(k, f)
        PROVE  FALSE
    <3>1. RrepForUs(k, f) /\ FoundRoute(k, f.msg.originator)
      BY <2>7 DEF MeshRrepForUs
    <3>2. k = n
      BY <2>0, <2>1, <3>1 DEF RrepForUs, FoundRoute, meshVars
    <3>3. f.msg.originator = queued[n].dest
      BY <3>1, <3>2
    <3>4. CASE Ready(n)
      <4>1. queued'[n] = queued[n]
        BY <3>1, <3>2, <3>4 DEF FoundRoute, meshVars
      <4> QED BY <2>2, <3>4, <4>1 DEF Ready
    <3>5. CASE ~Ready(n)
      <4>1. queued'[n] = NoPacket
        BY <2>0, <3>1, <3>2, <3>3, <3>5 DEF FoundRoute
      <4> QED BY <2>2, <4>1
    <3> QED BY <3>4, <3>5
  <2>8. ASSUME NEW k \in Node, MeshTimeout(k) \/ MeshReboot(k)
        PROVE  FALSE
    BY <2>0, <2>1, <2>2, <2>8
       DEF MeshTimeout, Timeout, RouteTimedOut, MeshReboot, Reboot
  <2>9. CASE Beside /\ UNCHANGED meshVars
    <3>1. queued' = queued
      BY <2>9 DEF meshVars
    <3>2. ASSUME NEW k \in Node, Relay(k) \/ Tick(k) \/ Close(k) \/ Open(k)
          PROVE  timer'[n] = timer[n]
      <4>1. CASE Close(k)
        <5>1. k # n
          BY <4>1
        <5> QED BY <2>0, <4>1, <5>1 DEF Close
      <4> QED BY <3>2, <4>1 DEF Relay, Tick, Open, protocolVars
    <3>3. ASSUME NEW k \in Node, NEW f \in rreqs, RreqReceived(k, f)
          PROVE  timer' = timer
      BY <3>3 DEF RreqReceived, RreqDuplicate, RreqRejected, RreqAnswered, RreqForwarded,
                  RreqExhausted, protocolVars
    <3>4. ASSUME NEW k \in Node, NEW f \in rreps, RrepRejected(k, f) \/ RrepForwarded(k, f)
          PROVE  timer' = timer
      BY <3>4 DEF RrepRejected, RrepForwarded, protocolVars
    <3>5. ASSUME NEW f \in rreqs \cup rreps, Lose(f) \/ Unheard(f)
          PROVE  timer' = timer
      BY <3>5 DEF Lose, Unheard, protocolVars
    <3> QED BY <2>1, <2>9, <3>1, <3>2, <3>3, <3>4, <3>5 DEF Beside
  <2> QED BY <2>4, <2>5, <2>6, <2>7, <2>8, <2>9 DEF MeshNext
<1> QED BY <1>1, MeshInvariant, MeshImplementsLOADng, WhoWaitsHasATimer, PTL
     DEF MeshSpec, StrandedForCause

-----------------------------------------------------------------------------
(* The three kinds of places a packet can be in: the nodes it waits at,    *)
(* the frames it travels in, the ways it has ended.                        *)
Waits(q, p) == {n \in Node : q[n] = p}
Travels(d, p) == {f \in d : f.packet = p}
Ended(e, p) == {x \in Ends : <<p, x>> \in e}

Nowhere(p, q, d, e) == Waits(q, p) = {} /\ Travels(d, p) = {} /\ Ended(e, p) = {}

InOne(p, q, d, e) ==
  \/ /\ \E n : Waits(q, p) = {n}
     /\ Travels(d, p) = {} /\ Ended(e, p) = {}
  \/ /\ \E f : Travels(d, p) = {f}
     /\ Waits(q, p) = {} /\ Ended(e, p) = {}
  \/ /\ \E x : Ended(e, p) = {x}
     /\ Waits(q, p) = {} /\ Travels(d, p) = {}

(* A packet in one place, of whatever kind, is counted once.               *)
LEMMA InOneCounts ==
  ASSUME NEW p, InOne(p, queued, data, fate)
  PROVE  Cardinality(Waits(queued, p)) + Cardinality(Travels(data, p))
           + Cardinality(Ended(fate, p)) = 1
<1> DEFINE W == Cardinality(Waits(queued, p))
           T == Cardinality(Travels(data, p))
           E == Cardinality(Ended(fate, p))
<1>1. Cardinality({}) = 0
  BY FS_EmptySet
<1>2. ASSUME NEW S, NEW x, S = {x}
      PROVE  Cardinality(S) = 1
  BY <1>2, FS_Singleton
<1>3. CASE (\E n : Waits(queued, p) = {n}) /\ Travels(data, p) = {} /\ Ended(fate, p) = {}
  <2>1. W = 1 /\ T = 0 /\ E = 0
    BY <1>1, <1>2, <1>3
  <2> QED BY <2>1
<1>4. CASE (\E f : Travels(data, p) = {f}) /\ Waits(queued, p) = {} /\ Ended(fate, p) = {}
  <2>1. W = 0 /\ T = 1 /\ E = 0
    BY <1>1, <1>2, <1>4
  <2> QED BY <2>1
<1>5. CASE (\E x : Ended(fate, p) = {x}) /\ Waits(queued, p) = {} /\ Travels(data, p) = {}
  <2>1. W = 0 /\ T = 0 /\ E = 1
    BY <1>1, <1>2, <1>5
  <2> QED BY <2>1
<1> QED BY <1>3, <1>4, <1>5 DEF InOne

(* Every packet that was handed over is in one place, the others in none.  *)
Placed(q, d, e, handedOver) ==
  \A p \in Packet :
    IF p \in handedOver THEN InOne(p, q, d, e) ELSE Nowhere(p, q, d, e)

(* The packets of an application are numbered in the order of mesh_send.   *)
Numbered == \A p \in handed : p.no <= Cardinality(handed)

(* A frame that leaves the air, and a packet that leaves the queue, leave  *)
(* their packet nowhere and the others where they are.                     *)
LEMMA FrameTaken ==
  ASSUME NEW q, NEW d, NEW e, NEW h, Placed(q, d, e, h), NEW f \in d, f.packet \in Packet
  PROVE  f.packet \in h /\ Placed(q, d \ {f}, e, h \ {f.packet})
<1>1. f \in Travels(d, f.packet)
  BY DEF Travels
<1>2. f.packet \in h /\ InOne(f.packet, q, d, e)
  BY <1>1 DEF Placed, Nowhere
<1>3. Nowhere(f.packet, q, d \ {f}, e)
  <2>1. Travels(d, f.packet) = {f} /\ Waits(q, f.packet) = {} /\ Ended(e, f.packet) = {}
    BY <1>1, <1>2 DEF InOne
  <2>2. Travels(d \ {f}, f.packet) = {}
    BY <2>1 DEF Travels
  <2> QED BY <2>1, <2>2 DEF Nowhere
<1>4. \A p \in Packet : p # f.packet => Travels(d \ {f}, p) = Travels(d, p)
  BY DEF Travels
<1> QED BY <1>2, <1>3, <1>4 DEF Placed, InOne, Nowhere

LEMMA PacketTaken ==
  ASSUME NEW q \in [Node -> Packet \cup {NoPacket}], NEW d, NEW e, NEW h,
         Placed(q, d, e, h), NEW n \in Node, q[n] # NoPacket
  PROVE  /\ q[n] \in h /\ q[n] \in Packet
         /\ Placed([q EXCEPT ![n] = NoPacket], d, e, h \ {q[n]})
<1> DEFINE r == q[n]
           t == [q EXCEPT ![n] = NoPacket]
<1>1. r \in Packet /\ n \in Waits(q, r)
  BY DEF Waits
<1>2. r \in h /\ InOne(r, q, d, e)
  BY <1>1 DEF Placed, Nowhere
<1>3. \A p \in Packet : Waits(t, p) = Waits(q, p) \ {n}
  BY NoPacketAssumption DEF Waits
<1> HIDE DEF t
<1>4. Nowhere(r, t, d, e)
  BY <1>1, <1>2, <1>3 DEF InOne, Nowhere
<1>5. \A p \in Packet : p # r => Waits(t, p) = Waits(q, p)
  BY <1>3 DEF Waits
<1>6. Placed(t, d, e, h \ {r})
  BY <1>2, <1>4, <1>5 DEF Placed, InOne, Nowhere
<1> QED BY <1>1, <1>2, <1>6 DEF t

(* A packet that is nowhere is put into a queue that is free, into a frame *)
(* or to its end, and is then there only.                                  *)
LEMMA PacketQueued ==
  ASSUME NEW q \in [Node -> Packet \cup {NoPacket}], NEW d, NEW e, NEW h,
         NEW r \in Packet \ h, Placed(q, d, e, h), NEW n \in Node, q[n] = NoPacket
  PROVE  Placed([q EXCEPT ![n] = r], d, e, h \cup {r})
<1> DEFINE t == [q EXCEPT ![n] = r]
<1>1. /\ Waits(t, r) = Waits(q, r) \cup {n}
      /\ \A p \in Packet : p # r => Waits(t, p) = Waits(q, p) \ {n}
  BY DEF Waits
<1>2. \A p \in Packet : n \notin Waits(q, p)
  BY NoPacketAssumption DEF Waits
<1> HIDE DEF t
<1>3. Nowhere(r, q, d, e)
  BY DEF Placed
<1>4. Waits(t, r) = {n}
  BY <1>1, <1>3 DEF Nowhere
<1>5. InOne(r, t, d, e)
  BY <1>3, <1>4 DEF InOne, Nowhere
<1>6. \A p \in Packet : p # r => Waits(t, p) = Waits(q, p)
  BY <1>1, <1>2
<1>7. Placed(t, d, e, h \cup {r})
  BY <1>5, <1>6 DEF Placed, InOne, Nowhere
<1> QED BY <1>7 DEF t

LEMMA PacketSent ==
  ASSUME NEW q, NEW d, NEW e, NEW h, NEW r \in Packet \ h, Placed(q, d, e, h),
         NEW f, f.packet = r
  PROVE  Placed(q, d \cup {f}, e, h \cup {r})
<1>1. Nowhere(r, q, d, e)
  BY DEF Placed
<1>2. Travels(d \cup {f}, r) = {f}
  BY <1>1 DEF Nowhere, Travels
<1>3. InOne(r, q, d \cup {f}, e)
  BY <1>1, <1>2 DEF InOne, Nowhere
<1>4. \A p \in Packet : p # r => Travels(d \cup {f}, p) = Travels(d, p)
  BY DEF Travels
<1> QED BY <1>3, <1>4 DEF Placed, InOne, Nowhere

LEMMA PacketEnded ==
  ASSUME NEW q, NEW d, NEW e, NEW h, NEW r \in Packet \ h, Placed(q, d, e, h),
         NEW x \in Ends
  PROVE  Placed(q, d, e \cup {<<r, x>>}, h \cup {r})
<1>1. Nowhere(r, q, d, e)
  BY DEF Placed
<1>2. Ended(e \cup {<<r, x>>}, r) = {x}
  BY <1>1 DEF Nowhere, Ended
<1>3. InOne(r, q, d, e \cup {<<r, x>>})
  BY <1>1, <1>2 DEF InOne, Nowhere
<1>4. \A p \in Packet : p # r => Ended(e \cup {<<r, x>>}, p) = Ended(e, p)
  BY DEF Ended
<1> QED BY <1>3, <1>4 DEF Placed, InOne, Nowhere

(* data_packet_forward takes a packet that is nowhere else and finds a     *)
(* place for it: the air, the queue, or no buffer.  The one that it        *)
(* displaces has ended.                                                    *)
LEMMA ForwardPlaces ==
  ASSUME MeshTypeOK, NEW n \in Node, NEW others, NEW h,
         NEW packet \in Packet \ h, Placed(queued, others, fate, h),
         Forward(n, packet, others)
  PROVE  Placed(queued', data', fate', h \cup {packet})
<1>0. queued \in [Node -> Packet \cup {NoPacket}]
  BY DEF MeshTypeOK
<1>1. CASE HasRoute(route[n], packet.dest)
  <2> DEFINE f == [to |-> NextHop(route[n], packet.dest), from |-> n, packet |-> packet]
  <2>1. data' = others \cup {f} /\ queued' = queued /\ fate' = fate
    BY <1>1 DEF Forward, unicast_send
  <2>2. f.packet = packet
    OBVIOUS
  <2> HIDE DEF f
  <2> QED BY <2>1, <2>2, PacketSent
<1>2. CASE ~HasRoute(route[n], packet.dest)
  <2>1. data' = others /\ Replace(n, packet)
    BY <1>2 DEF Forward
  <2>2. ASSUME NEW q \in [Node -> Packet \cup {NoPacket}], NEW e,
               Placed(q, others, e, h), q[n] = NoPacket,
               \/ queued' = [q EXCEPT ![n] = packet] /\ fate' = e
               \/ queued' = q /\ fate' = e \cup {<<packet, "unbuffered">>}
        PROVE  Placed(queued', data', fate', h \cup {packet})
    <3>1. CASE queued' = [q EXCEPT ![n] = packet] /\ fate' = e
      BY <2>1, <2>2, <3>1, PacketQueued
    <3>2. CASE queued' = q /\ fate' = e \cup {<<packet, "unbuffered">>}
      BY <2>1, <2>2, <3>2, PacketEnded DEF Ends
    <3> QED BY <2>2, <3>1, <3>2
  <2>3. CASE Ready(n)
    <3>1. [queued EXCEPT ![n] = NoPacket] = queued
      BY <1>0, <2>3 DEF Ready
    <3> QED BY <1>0, <2>1, <2>2, <2>3, <3>1 DEF Ready, Replace
  <2>4. CASE ~Ready(n)
    <3> DEFINE q == [queued EXCEPT ![n] = NoPacket]
               r == queued[n]
               e == fate \cup {<<r, "displaced">>}
    <3>1. r \in h /\ r \in Packet /\ Placed(q, others, fate, h \ {r})
      BY <1>0, <2>4, PacketTaken DEF Ready
    <3>2. Placed(q, others, e, h)
      <4>1. Placed(q, others, e, (h \ {r}) \cup {r})
        BY <3>1, PacketEnded DEF Ends
      <4>2. (h \ {r}) \cup {r} = h
        BY <3>1
      <4> QED BY <4>1, <4>2
    <3>3. q \in [Node -> Packet \cup {NoPacket}] /\ q[n] = NoPacket
      BY <1>0
    <3>4. \/ queued' = [q EXCEPT ![n] = packet] /\ fate' = e
          \/ queued' = q /\ fate' = e \cup {<<packet, "unbuffered">>}
      <4>1. [q EXCEPT ![n] = packet] = [queued EXCEPT ![n] = packet]
        BY <1>0
      <4> QED BY <2>1, <2>4, <4>1 DEF Replace
    <3> HIDE DEF q, e, r
    <3> QED BY <2>2, <3>2, <3>3, <3>4
  <2> QED BY <2>3, <2>4
<1> QED BY <1>1, <1>2

(* The invariant: types, numbers and places.                               *)
PlacesOK == Numbered /\ Placed(queued, data, fate, handed)

LEMMA PlacesKept == meshInv /\ PlacesOK /\ [MeshNext]_allVars => PlacesOK'
<1> SUFFICES ASSUME meshInv, PlacesOK, [MeshNext]_allVars PROVE PlacesOK'
  OBVIOUS
<1> USE DEF PlacesOK
<1>0. /\ MeshTypeOK /\ IsFiniteSet(handed)
      /\ queued \in [Node -> Packet \cup {NoPacket}]
      /\ data \subseteq DataFrame
      /\ \A f \in data : f.packet \in Packet
  BY DEF meshInv, MeshTypeOK, DataFrame
<1>1. ASSUME NEW n \in Node, NEW d \in Node, Send(n, d)
      PROVE  PlacesOK'
  <2> DEFINE packet == [source |-> n, dest |-> d, no |-> Cardinality(handed) + 1]
  <2>1. /\ handed' = handed \cup {packet} /\ Cardinality(handed) < Sends
        /\ Forward(n, packet, data)
    BY <1>1 DEF Send
  <2>2. Cardinality(handed) \in Nat
    BY <1>0, FS_CardinalityType
  <2>3. packet.no = Cardinality(handed) + 1 /\ Cardinality(handed) + 1 \in 1 .. Sends
    BY <2>1, <2>2, TrafficAssumption
  <2>4. packet \in Packet
    BY <2>3 DEF Packet
  <2> HIDE DEF packet
  <2>5. packet \notin handed
    BY <2>2, <2>3 DEF Numbered
  <2>6. Placed(queued', data', fate', handed')
    BY <1>0, <2>1, <2>4, <2>5, ForwardPlaces
  <2>7. Cardinality(handed') = Cardinality(handed) + 1
    BY <1>0, <2>1, <2>5, FS_AddElement
  <2>8. \A p \in handed : p.no <= Cardinality(handed) + 1
    <3>1. \A p \in handed : p.no \in Nat
      BY <1>0, TrafficAssumption DEF MeshTypeOK, Packet
    <3> QED BY <2>2, <3>1 DEF Numbered
  <2>9. Numbered'
    BY <2>1, <2>2, <2>3, <2>7, <2>8 DEF Numbered
  <2> QED BY <2>6, <2>9
<1>2. ASSUME UNCHANGED handed, Placed(queued', data', fate', handed)
      PROVE  PlacesOK'
  BY <1>2 DEF Numbered
<1>3. ASSUME NEW f \in data, data' = data \ {f}, UNCHANGED <<queued, handed>>,
             NEW x \in Ends, EndsAs(f.packet, x)
      PROVE  PlacesOK'
  <2>1. f.packet \in handed /\ Placed(queued, data', fate, handed \ {f.packet})
    BY <1>0, <1>3, FrameTaken
  <2>2. Placed(queued, data', fate', (handed \ {f.packet}) \cup {f.packet})
    BY <1>0, <1>3, <2>1, PacketEnded DEF EndsAs
  <2>3. (handed \ {f.packet}) \cup {f.packet} = handed
    BY <2>1
  <2> QED BY <1>2, <1>3, <2>2, <2>3
<1>4. ASSUME NEW n \in Node, NEW f \in data, Receive(n, f)
      PROVE  PlacesOK'
  BY <1>3, <1>4 DEF Receive, Ends
<1>5. ASSUME NEW f \in data, LoseData(f) \/ UnheardData(f)
      PROVE  PlacesOK'
  BY <1>3, <1>5 DEF LoseData, UnheardData, DataGone, Ends
<1>6. ASSUME NEW n \in Node, NEW f \in data, PassOn(n, f)
      PROVE  PlacesOK'
  <2> DEFINE packet == f.packet
             others == data \ {f}
  <2>1. packet \in handed /\ Placed(queued, others, fate, handed \ {packet})
    BY <1>0, FrameTaken
  <2>2. Forward(n, packet, others) /\ UNCHANGED handed
    BY <1>6 DEF PassOn
  <2>3. packet \in Packet \ (handed \ {packet}) /\ (handed \ {packet}) \cup {packet} = handed
    BY <1>0, <2>1
  <2> HIDE DEF packet, others
  <2>4. Placed(queued', data', fate', (handed \ {packet}) \cup {packet})
    BY <1>0, <2>1, <2>2, <2>3, ForwardPlaces
  <2> QED BY <1>2, <2>2, <2>3, <2>4
<1>7. ASSUME NEW n \in Node, UNCHANGED handed,
             queued' = [queued EXCEPT ![n] = NoPacket], queued[n] # NoPacket,
             \/ UNCHANGED fate /\ \E f : f.packet = queued[n] /\ data' = data \cup {f}
             \/ UNCHANGED data /\ \E x \in Ends : EndsAs(queued[n], x)
      PROVE  PlacesOK'
  <2> DEFINE r == queued[n]
             h == handed \ {r}
  <2>1. r \in handed /\ r \in Packet /\ Placed(queued', data, fate, h)
    BY <1>0, <1>7, PacketTaken
  <2>2. r \in Packet \ h /\ h \cup {r} = handed
    BY <2>1
  <2>3. CASE UNCHANGED fate /\ \E f : f.packet = r /\ data' = data \cup {f}
    <3>1. Placed(queued', data', fate', h \cup {r})
      BY <2>1, <2>2, <2>3, PacketSent
    <3> QED BY <1>2, <1>7, <2>2, <3>1
  <2>4. CASE UNCHANGED data /\ \E x \in Ends : EndsAs(r, x)
    <3>1. Placed(queued', data', fate', h \cup {r})
      BY <2>1, <2>2, <2>4, PacketEnded DEF EndsAs
    <3> QED BY <1>2, <1>7, <2>2, <3>1
  <2> QED BY <1>7, <2>3, <2>4
<1>8. ASSUME UNCHANGED meshVars
      PROVE  PlacesOK'
  BY <1>2, <1>8 DEF meshVars
<1>9. ASSUME NEW n \in Node, NEW f \in rreps, MeshRrepForUs(n, f)
      PROVE  PlacesOK'
  <2> DEFINE dest == f.msg.originator
             g == [to |-> NextHop(route'[n], dest), from |-> n, packet |-> queued[n]]
  <2>1. FoundRoute(n, dest)
    BY <1>9 DEF MeshRrepForUs
  <2>2. CASE Ready(n) \/ queued[n].dest # dest
    BY <1>8, <2>1, <2>2 DEF FoundRoute
  <2>3. CASE ~(Ready(n) \/ queued[n].dest # dest)
    <3>1. /\ UNCHANGED handed /\ queued' = [queued EXCEPT ![n] = NoPacket]
          /\ queued[n] # NoPacket
          /\ \/ UNCHANGED fate /\ data' = data \cup {g}
             \/ UNCHANGED data /\ EndsAs(queued[n], "timedout")
      BY <2>1, <2>3 DEF FoundRoute, unicast_send, Ready
    <3>2. g.packet = queued[n] /\ "timedout" \in Ends
      BY DEF Ends
    <3> HIDE DEF g
    <3> QED BY <1>7, <3>1, <3>2
  <2> QED BY <2>2, <2>3
<1>10. ASSUME NEW n \in Node, MeshTimeout(n) \/ MeshReboot(n)
       PROVE  PlacesOK'
  <2>1. /\ queued' = [queued EXCEPT ![n] = NoPacket]
        /\ UNCHANGED <<data, handed>>
        /\ IF Ready(n) THEN UNCHANGED fate
           ELSE EndsAs(queued[n], "timedout") \/ EndsAs(queued[n], "lost")
    BY <1>10 DEF MeshTimeout, RouteTimedOut, MeshReboot
  <2>2. CASE Ready(n)
    <3>1. queued' = queued
      BY <1>0, <2>1, <2>2 DEF Ready
    <3> QED BY <1>8, <2>1, <2>2, <3>1 DEF meshVars
  <2>3. CASE ~Ready(n)
    <3>1. \E x \in Ends : EndsAs(queued[n], x)
      BY <2>1, <2>3 DEF Ends
    <3> QED BY <1>7, <2>1, <2>3, <3>1 DEF Ready
  <2> QED BY <2>2, <2>3
<1> QED BY <1>1, <1>4, <1>5, <1>6, <1>8, <1>9, <1>10 DEF MeshNext, allVars

(* No packet of any traffic in any network is sent twice or dropped        *)
(* without a word: not when it displaces another, when its route is found  *)
(* or times out, when a node on its way takes it over, or when a node      *)
(* boots.                                                                  *)
THEOREM PacketsAreInOnePlace == MeshSpec => []InOnePlace
<1>1. MeshInit => PlacesOK
  BY NoPacketAssumption DEF MeshInit, PlacesOK, Numbered, Placed, Nowhere, Waits, Travels, Ended
<1>2. meshInv /\ PlacesOK => InOnePlace
  <2> SUFFICES ASSUME meshInv, PlacesOK, NEW p \in handed
               PROVE  Cardinality({n \in Node : queued[n] = p})
                        + Cardinality({f \in data : f.packet = p})
                        + Cardinality({e \in Ends : <<p, e>> \in fate}) = 1
    BY DEF InOnePlace
  <2>1. p \in Packet
    BY DEF meshInv, MeshTypeOK
  <2>2. InOne(p, queued, data, fate)
    BY <2>1 DEF PlacesOK, Placed
  <2> QED BY <2>2, InOneCounts DEF Waits, Travels, Ended
<1> QED BY <1>1, <1>2, PlacesKept, MeshInvariant, PTL DEF MeshSpec

-----------------------------------------------------------------------------
(* While one packet only was handed over and no route is given up, it      *)
(* waits at its source only, every discovery is for it, and it is never    *)
(* displaced.                                                              *)
Alone ==
  /\ asked \subseteq {<<p.source, p.dest>> : p \in handed}
  /\ \A n \in Node : ~Ready(n) => queued[n].source = n /\ rrep_pending[n]
  /\ \A p \in Packet : <<p, "displaced">> \notin fate

FirstPacketInv == RoutesKept /\ Cardinality(handed) <= 1 => Alone

(* The first packet finds no other one that waits.                         *)
LEMMA FirstIsSent ==
  ASSUME meshInv, IInv, PlacesOK, Alone, NEW n \in Node, NEW d \in Node,
         Send(n, d), Cardinality(handed') <= 1
  PROVE  Alone'
<1> DEFINE packet == [source |-> n, dest |-> d, no |-> Cardinality(handed) + 1]
<1>0. /\ queued \in [Node -> Packet \cup {NoPacket}]
      /\ rrep_pending \in [Node -> BOOLEAN] /\ handed \subseteq Packet
      /\ IsFiniteSet(handed) /\ Cardinality(handed) \in Nat
  BY FS_CardinalityType DEF meshInv, MeshTypeOK, IInv, NodesOK
<1>1. /\ handed' = handed \cup {packet} /\ Cardinality(handed) < Sends
      /\ Forward(n, packet, data)
  BY DEF Send
<1>2. packet.source = n /\ packet.dest = d /\ packet.no = Cardinality(handed) + 1
  OBVIOUS
<1>3. packet \in Packet
  BY <1>0, <1>1, TrafficAssumption DEF Packet
<1> HIDE DEF packet
<1>4. handed = {}
  <2>1. packet \notin handed
    BY <1>0, <1>2 DEF PlacesOK, Numbered
  <2>2. Cardinality(handed') = Cardinality(handed) + 1
    BY <1>0, <1>1, <2>1, FS_AddElement
  <2>3. Cardinality(handed) = 0
    BY <1>0, <2>2
  <2> QED BY <1>0, <2>3, FS_EmptySet
<1>5. \A k \in Node : Ready(k)
  <2> SUFFICES ASSUME NEW k \in Node, queued[k] \in Packet PROVE FALSE
    BY <1>0 DEF Ready
  <2>1. k \in Waits(queued, queued[k])
    BY DEF Waits
  <2> QED BY <1>4, <2>1 DEF PlacesOK, Placed, Nowhere
<1>6. asked = {} /\ handed' = {packet}
  BY <1>1, <1>4 DEF Alone
<1>7. <<n, d>> \in {<<p.source, p.dest>> : p \in handed'}
  BY <1>2, <1>6
<1>8. CASE HasRoute(route[n], d)
  <2>1. UNCHANGED <<vars, queued, fate>>
    BY <1>1, <1>2, <1>8 DEF Forward
  <2> QED BY <1>5, <1>6, <2>1 DEF Alone, Ready, vars, protocolVars, historyVars
<1>9. CASE ~HasRoute(route[n], d)
  <2>1. /\ Replace(n, packet)
        /\ Discover(n, d) \/ (rrep_pending[n] /\ UNCHANGED vars)
    BY <1>1, <1>2, <1>9 DEF Forward
  <2>2. asked' \subseteq {<<n, d>>} /\ rrep_pending'[n]
    BY <1>0, <1>6, <2>1 DEF Discover, vars, protocolVars, historyVars
  <2>3. \A k \in Node : k # n => queued'[k] = NoPacket
    BY <1>0, <1>5, <2>1 DEF Replace, Ready
  <2>4. queued'[n] \in {packet, NoPacket}
    BY <1>0, <2>1 DEF Replace
  <2>5. \A p \in Packet : <<p, "displaced">> \notin fate'
    <3>1. fate' \subseteq fate \cup {<<packet, "unbuffered">>}
      BY <1>5, <2>1 DEF Replace
    <3> QED BY <3>1 DEF Alone
  <2>6. asked' \subseteq {<<p.source, p.dest>> : p \in handed'}
    BY <1>7, <2>2
  <2>7. \A k \in Node : ~Ready(k)' => queued'[k].source = k /\ rrep_pending'[k]
    BY <1>2, <2>2, <2>3, <2>4 DEF Ready
  <2> QED BY <2>5, <2>6, <2>7 DEF Alone
<1> QED BY <1>8, <1>9

(* A reply for the source of the packet is about its destination.          *)
LEMMA ReplyIsForThePacket ==
  ASSUME meshInv, IInv, RepliesAsked, PlacesOK, Alone, Cardinality(handed) <= 1,
         NEW n \in Node, ~Ready(n), NEW f \in rreps, RrepForUs(n, f)
  PROVE  queued[n].dest = f.msg.originator
<1>1. /\ queued[n] \in Packet /\ handed \subseteq Packet
      /\ IsFiniteSet(handed) /\ Cardinality(handed) \in Nat
  BY FS_CardinalityType DEF meshInv, MeshTypeOK, Ready
<1>2. <<n, f.msg.originator>> \in asked
  BY DEF RepliesAsked, Answers, RrepForUs
<1>3. PICK p \in handed : <<n, f.msg.originator>> = <<p.source, p.dest>>
  BY <1>2 DEF Alone
<1>4. queued[n] \in handed
  <2>1. n \in Waits(queued, queued[n])
    BY DEF Waits
  <2> QED BY <1>1, <2>1 DEF PlacesOK, Placed, Nowhere
<1>5. p = queued[n]
  <2>1. Cardinality(handed) # 0
    BY <1>1, <1>4, FS_EmptySet
  <2>2. Cardinality(handed) = 1
    BY <1>1, <2>1
  <2>3. PICK q : handed = {q}
    BY <1>1, <2>2, FS_Singleton
  <2> QED BY <1>4, <2>3
<1> QED BY <1>3, <1>5

LEMMA FirstPacketKept ==
  ASSUME meshInv, IInv, RepliesAsked, PlacesOK, DataCanGoOn, FirstPacketInv,
         [MeshNext]_allVars
  PROVE  FirstPacketInv'
<1> SUFFICES ASSUME RoutesKept', Cardinality(handed') <= 1
             PROVE  Alone'
  BY DEF FirstPacketInv
<1>0. /\ queued \in [Node -> Packet \cup {NoPacket}]
      /\ rrep_pending \in [Node -> BOOLEAN] /\ handed \subseteq Packet
      /\ IsFiniteSet(handed) /\ Cardinality(handed) \in Nat
  BY FS_CardinalityType DEF meshInv, MeshTypeOK, IInv, NodesOK
<1>1. RoutesKept
  <2>1. CASE Next
    BY <2>1, KeptBefore
  <2>2. CASE UNCHANGED vars
    BY <2>2 DEF vars, protocolVars, historyVars, RoutesKept, CostsTrue
  <2> QED BY <2>1, <2>2, MeshStep
<1>2. Cardinality(handed) <= 1
  <2>1. UNCHANGED handed \/ \E n, d \in Node : Send(n, d)
    BY DEF MeshNext, Receive, PassOn, LoseData, UnheardData, DataGone, MeshRrepForUs,
           FoundRoute, MeshTimeout, RouteTimedOut, MeshReboot, meshVars, allVars
  <2>2. CASE UNCHANGED handed
    BY <2>2
  <2>3. CASE \E n, d \in Node : Send(n, d)
    <3>1. PICK packet : handed' = handed \cup {packet}
      BY <2>3 DEF Send
    <3>2. Cardinality(handed') \in {Cardinality(handed), Cardinality(handed) + 1}
      BY <1>0, <3>1, FS_AddElement
    <3> QED BY <1>0, <3>2
  <2> QED BY <2>1, <2>2, <2>3
<1>3. Alone
  BY <1>1, <1>2 DEF FirstPacketInv
<1>4. ASSUME NEW n \in Node, NEW d \in Node, Send(n, d)
      PROVE  Alone'
  BY <1>3, <1>4, FirstIsSent
<1>5. ASSUME UNCHANGED <<asked, handed>>,
             \A k \in Node : \/ queued'[k] = NoPacket
                             \/ queued'[k] = queued[k] /\ rrep_pending'[k] = rrep_pending[k],
             \A p \in Packet : <<p, "displaced">> \in fate' => <<p, "displaced">> \in fate
      PROVE  Alone'
  BY <1>3, <1>5 DEF Alone, Ready
<1>6. ASSUME NEW n \in Node, NEW f \in data, PassOn(n, f)
      PROVE  Alone'
  <2>1. HasRoute(route[n], f.packet.dest)
    BY <1>1, <1>6 DEF PassOn, DataCanGoOn, Passable
  <2>2. UNCHANGED <<vars, queued, fate, handed>>
    BY <1>6, <2>1 DEF PassOn, Forward
  <2> QED BY <1>5, <2>2 DEF vars, protocolVars, historyVars
<1>7. ASSUME NEW n \in Node, NEW f \in data, Receive(n, f)
      PROVE  Alone'
  <2>1. /\ UNCHANGED <<queued, handed, rrep_pending, asked>>
        /\ fate' = fate \cup {<<f.packet, "delivered">>}
    BY <1>7 DEF Receive, DataReceived, EndsAs, historyVars
  <2> QED BY <1>5, <2>1
<1>8. ASSUME NEW f \in data, LoseData(f) \/ UnheardData(f)
      PROVE  Alone'
  <2>1. /\ UNCHANGED <<queued, handed, rrep_pending, asked>>
        /\ fate' = fate \cup {<<f.packet, "lost">>}
    BY <1>8 DEF LoseData, UnheardData, DataGone, EndsAs, vars, protocolVars, historyVars
  <2> QED BY <1>5, <2>1
<1>9. ASSUME NEW n \in Node, NEW f \in rreps, MeshRrepForUs(n, f)
      PROVE  Alone'
  <2>1. /\ UNCHANGED <<asked, handed>>
        /\ \A k \in Node : k # n => rrep_pending'[k] = rrep_pending[k]
    BY <1>0, <1>9 DEF MeshRrepForUs, RrepForUs, FoundRoute, historyVars, meshVars
  <2>2. CASE Ready(n)
    <3>1. UNCHANGED <<queued, fate>>
      BY <1>9, <2>2 DEF MeshRrepForUs, FoundRoute, meshVars
    <3> QED BY <1>5, <2>1, <2>2, <3>1 DEF Ready
  <2>3. CASE ~Ready(n)
    <3>1. queued[n].dest = f.msg.originator
      BY <1>2, <1>3, <1>9, <2>3, ReplyIsForThePacket DEF MeshRrepForUs
    <3>2. /\ queued' = [queued EXCEPT ![n] = NoPacket]
          /\ fate' = fate \/ fate' = fate \cup {<<queued[n], "timedout">>}
      BY <1>9, <2>3, <3>1 DEF MeshRrepForUs, FoundRoute, EndsAs
    <3>3. \A k \in Node : IF k = n THEN queued'[k] = NoPacket ELSE queued'[k] = queued[k]
      BY <1>0, <3>2
    <3>4. \A p \in Packet : <<p, "displaced">> \in fate' => <<p, "displaced">> \in fate
      BY <3>2
    <3> QED BY <1>5, <2>1, <3>3, <3>4
  <2> QED BY <2>2, <2>3
<1>10. ASSUME NEW n \in Node, MeshTimeout(n) \/ MeshReboot(n)
       PROVE  Alone'
  <2>1. /\ UNCHANGED <<asked, handed>>
        /\ \A k \in Node : k # n => rrep_pending'[k] = rrep_pending[k]
        /\ queued' = [queued EXCEPT ![n] = NoPacket]
        /\ \/ fate' = fate
           \/ fate' = fate \cup {<<queued[n], "timedout">>}
           \/ fate' = fate \cup {<<queued[n], "lost">>}
    BY <1>0, <1>10 DEF MeshTimeout, Timeout, RouteTimedOut, MeshReboot, Reboot, EndsAs,
                       historyVars
  <2>2. \A k \in Node : IF k = n THEN queued'[k] = NoPacket ELSE queued'[k] = queued[k]
    BY <1>0, <2>1
  <2>3. \A p \in Packet : <<p, "displaced">> \in fate' => <<p, "displaced">> \in fate
    BY <2>1
  <2> QED BY <1>5, <2>1, <2>2, <2>3
<1>11. CASE Beside /\ UNCHANGED meshVars
  <2>1. ASSUME NEW n \in Node, NEW f, RrepRejected(n, f) \/ RrepForwarded(n, f)
        PROVE  UNCHANGED <<rrep_pending, asked>>
    BY <2>1 DEF RrepRejected, RrepForwarded, protocolVars, historyVars
  <2>2. ASSUME NEW n \in Node, NEW f, RreqReceived(n, f)
        PROVE  UNCHANGED <<rrep_pending, asked>>
    BY <2>2 DEF RreqReceived, RreqDuplicate, RreqRejected, RreqAnswered, RreqForwarded,
                RreqExhausted, protocolVars, historyVars
  <2>3. ASSUME NEW n \in Node, Relay(n) \/ Tick(n) \/ Close(n) \/ Open(n)
        PROVE  UNCHANGED <<rrep_pending, asked>>
    BY <2>3 DEF Relay, Tick, Close, Open, protocolVars, historyVars
  <2>4. ASSUME NEW f, Lose(f) \/ Unheard(f)
        PROVE  UNCHANGED <<rrep_pending, asked>>
    BY <2>4 DEF Lose, Unheard, protocolVars, historyVars
  <2>5. UNCHANGED <<rrep_pending, asked>>
    BY <1>11, <2>1, <2>2, <2>3, <2>4 DEF Beside
  <2> QED BY <1>5, <1>11, <2>5 DEF meshVars
<1>12. CASE UNCHANGED allVars
  BY <1>5, <1>12 DEF allVars, vars, protocolVars, historyVars, meshVars
<1> QED BY <1>4, <1>6, <1>7, <1>8, <1>9, <1>10, <1>11, <1>12 DEF MeshNext

(* In any network the first packet is settled, wherever it goes:           *)
(* once the air is quiet and no discovery is pending it has been           *)
(* delivered, had no buffer, or was reported as timed out.                 *)
THEOREM FirstPacketNotStuck == MeshSpec => []FirstPacketSettled
<1>1. MeshInit => FirstPacketInv
  <2> SUFFICES ASSUME MeshInit PROVE Alone
    BY DEF FirstPacketInv
  <2> QED BY DEF MeshInit, Init, Alone, Ready
<1>2. MeshInit => PlacesOK
  BY NoPacketAssumption DEF MeshInit, PlacesOK, Numbered, Placed, Nowhere, Waits, Travels, Ended
<1>3. meshInv /\ PlacesOK /\ FirstPacketInv => FirstPacketSettled
  <2> SUFFICES ASSUME meshInv, PlacesOK, FirstPacketInv,
                      data = {}, \A n \in Node : ~rrep_pending[n],
                      RoutesKept, Lost = {}, Cardinality(handed) = 1, NEW p \in handed
               PROVE  \E end \in {"delivered", "timedout", "unbuffered"} : <<p, end>> \in fate
    BY DEF FirstPacketSettled
  <2>1. p \in Packet /\ Alone
    BY DEF meshInv, MeshTypeOK, FirstPacketInv
  <2>2. InOne(p, queued, data, fate)
    BY <2>1 DEF PlacesOK, Placed
  <2>3. Waits(queued, p) = {}
    BY <2>1, NoPacketAssumption DEF Waits, Alone, Ready
  <2>4. Travels(data, p) = {}
    BY DEF Travels
  <2>5. PICK x \in Ends : <<p, x>> \in fate
    BY <2>2, <2>3, <2>4 DEF InOne, Ended
  <2>6. x # "displaced"
    BY <2>1, <2>5 DEF Alone
  <2>7. x # "lost"
    BY <2>5 DEF Lost
  <2> QED BY <2>5, <2>6, <2>7 DEF Ends
<1>4. meshInv /\ IInv /\ RepliesAsked /\ PlacesOK /\ DataCanGoOn /\ FirstPacketInv
      /\ [MeshNext]_allVars => FirstPacketInv'
  BY FirstPacketKept
<1> QED BY <1>1, <1>2, <1>3, <1>4, MeshImplementsLOADng, MeshInvariant, AskedInvariant,
           PlacesKept, PacketsGoOn, PTL DEF MeshSpec
=============================================================================

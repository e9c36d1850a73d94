---------------------------- MODULE LOADngProofs ----------------------------
(***************************************************************************)
(* Properties of route discovery for networks of any size and shape.       *)
(***************************************************************************)
EXTENDS LOADngProperties, RouteTableProofs

-----------------------------------------------------------------------------
(* Sequence numbers of any width.                                          *)

(* Half of the range of the counters, for odd and even MAXVALUE alike.     *)
LEMMA HalfOfRange ==
  /\ MAXVALUE \div 2 \in Nat
  /\ 2 * (MAXVALUE \div 2) <= MAXVALUE
  /\ MAXVALUE <= 2 * (MAXVALUE \div 2) + 1
BY SeqNumAssumption

(* The counters count modulo MAXVALUE + 1.                                 *)
LEMMA NextSeqnoWraps ==
  ASSUME NEW s \in SeqNumber
  PROVE  /\ NextSeqno(s) \in SeqNumber
         /\ NextSeqno(s) = IF s = MAXVALUE THEN 0 ELSE s + 1
BY SeqNumAssumption DEF SeqNumber, NextSeqno

(* Of two different numbers exactly one is newer: valid_check never calls  *)
(* a message stale whose number it would also call newer.                  *)
THEOREM ExactlyOneIsNewer ==
  ASSUME NEW A \in SeqNumber, NEW B \in SeqNumber
  PROVE  /\ A # B => MAXA(A, B) \/ MAXA(B, A)
         /\ ~(MAXA(A, B) /\ MAXA(B, A))
BY SeqNumAssumption, HalfOfRange DEF SeqNumber, MAXA

(* A number issued up to MAXVALUE \div 2 later is newer, so that a message *)
(* is never stale because of one that its originator sent before.          *)
THEOREM LaterIsNewer ==
  ASSUME NEW s \in SeqNumber, NEW k \in 1 .. MAXVALUE \div 2
  PROVE  /\ MAXA((s + k) % (MAXVALUE + 1), s)
         /\ ~MAXA(s, (s + k) % (MAXVALUE + 1))
<1>1. (s + k) % (MAXVALUE + 1) =
        IF s + k <= MAXVALUE THEN s + k ELSE s + k - (MAXVALUE + 1)
  BY SeqNumAssumption, HalfOfRange DEF SeqNumber
<1> QED BY <1>1, SeqNumAssumption, HalfOfRange DEF SeqNumber, MAXA

-----------------------------------------------------------------------------
(* The fields that requests and replies share have the same types in both. *)
LEMMA MessageFields ==
  ASSUME NEW msg \in RreqMessage \cup RrepMessage
  PROVE  /\ msg.seqno \in SeqNumber /\ msg.hop_count \in HopCount
         /\ msg.destination \in Node /\ msg.originator \in Node
BY DEF RreqMessage, RrepMessage

(* The cost of a route is a uint8_t: after 255 hops it wraps.              *)
LEMMA CostType ==
  ASSUME NEW h \in HopCount
  PROVE  (h + 1) % (UINT8_MAX + 1) \in 0 .. UINT8_MAX
<1>1. /\ h \in Nat /\ h + 1 \in 0 .. UINT8_MAX + 1 /\ UINT8_MAX \in Nat \ {0}
  BY NetworkAssumption, TableAssumption DEF HopCount
<1>2. (h + 1) % (UINT8_MAX + 1) = IF h + 1 = UINT8_MAX + 1 THEN 0 ELSE h + 1
  BY <1>1
<1> QED BY <1>1, <1>2

-----------------------------------------------------------------------------
(* What holds of every Routing Set: it is well formed and fits its pool,   *)
(* has at most one usable tuple for a destination, and none for the node   *)
(* itself.                                                                 *)
Fits(rs) == rs \in Seq(RouteTuple(Node, SeqNumber)) /\ Len(rs) <= NUM_RS_ENTRIES

OneUsable(rs) ==
  \A i, j \in 1 .. Len(rs) :
    /\ rs[i].R_dest_addr = rs[j].R_dest_addr
    /\ rs[i].route_cost < UINT8_MAX
    /\ rs[j].route_cost < UINT8_MAX
    => i = j

NotSelf(n, rs) == \A i \in 1 .. Len(rs) : rs[i].R_dest_addr # n

Sound(n, rs) == Fits(rs) /\ OneUsable(rs) /\ NotSelf(n, rs)

(* Every node starts, and starts again after a restart, with a sound       *)
(* Routing Set: route_init empties the list.                               *)
LEMMA EmptyIsSound == \A n \in Node : Sound(n, <<>>)
BY EmptySeq, TableAssumption DEF Sound, Fits, OneUsable, NotSelf

(* A route that is learned when the lookup has failed is the only usable   *)
(* one of its destination.                                                 *)
LEMMA LearnKeepsSound ==
  ASSUME NEW n \in Node, NEW rs, Sound(n, rs), NEW from \in Node,
         NEW msg \in RreqMessage \cup RrepMessage, msg.originator # n
  PROVE  Sound(n, Learn(rs, msg, from))
<1> DEFINE orig == msg.originator
           cost == (msg.hop_count + 1) % (UINT8_MAX + 1)
           seqno == msg.seqno
           t == route_add(rs, orig, from, cost, seqno)
<1>1. /\ rs \in Seq(RouteTuple(Node, SeqNumber)) /\ Len(rs) <= NUM_RS_ENTRIES
      /\ Len(rs) \in Nat
  BY SetElements DEF Sound, Fits
<1>2. orig \in Node /\ cost \in 0 .. UINT8_MAX /\ seqno \in SeqNumber
  BY MessageFields, CostType
<1>3. CASE HasRoute(rs, orig)
  BY <1>3 DEF Learn
<1>4. CASE ~HasRoute(rs, orig)
  <2>1. Replaced(rs, orig, from) = 0
    BY <1>4 DEF Replaced
  <2>2. Learn(rs, msg, from) = t
    BY <1>4 DEF Learn
  <2> DEFINE e == NewTuple(orig, from, cost, seqno)
  <2> HIDE DEF cost, orig, seqno
  <2>3. /\ t \in Seq(RouteTuple(Node, SeqNumber))
        /\ 1 <= Len(t) /\ Len(t) <= NUM_RS_ENTRIES
        /\ t[1] = e
        /\ \A k \in 2 .. Len(t) :
             /\ Origin(Replaced(rs, orig, from), k) \in 1 .. Len(rs)
             /\ t[k] = rs[Origin(Replaced(rs, orig, from), k)]
    BY <1>1, <1>2, AddElements
  <2>4. \A k \in 2 .. Len(t) : k - 1 \in 1 .. Len(rs) /\ t[k] = rs[k - 1]
    BY <2>1, <2>3 DEF Origin
  <2>5. e.R_dest_addr = orig
    BY DEF NewTuple
  <2>6. \A i \in 1 .. Len(rs) : rs[i].R_dest_addr = orig => ~(rs[i].route_cost < UINT8_MAX)
    BY <1>1, <1>4, UsableIsFound
  <2> HIDE DEF t, e
  <2>7. Len(t) \in Nat
    BY <2>3, SetElements
  <2>8. ASSUME NEW i \in 1 .. Len(t)
        PROVE  t[i].R_dest_addr # n
    <3>1. CASE i = 1
      BY <2>3, <2>5, <3>1 DEF orig
    <3>2. CASE i # 1
      BY <2>4, <2>7, <3>2 DEF Sound, NotSelf
    <3> QED BY <3>1, <3>2
  <2>9. ASSUME NEW i \in 1 .. Len(t), NEW j \in 1 .. Len(t), i < j,
               t[i].R_dest_addr = t[j].R_dest_addr,
               t[i].route_cost < UINT8_MAX, t[j].route_cost < UINT8_MAX
        PROVE  FALSE
    <3>1. j - 1 \in 1 .. Len(rs) /\ t[j] = rs[j - 1]
      BY <2>4, <2>7, <2>9
    <3>2. CASE i = 1
      BY <2>3, <2>5, <2>6, <2>9, <3>1, <3>2
    <3>3. CASE i # 1
      <4>1. i - 1 \in 1 .. Len(rs) /\ t[i] = rs[i - 1]
        BY <2>4, <2>7, <3>3
      <4>2. i - 1 = j - 1
        BY <2>9, <3>1, <4>1 DEF Sound, OneUsable
      <4> QED BY <2>7, <2>9, <4>2
    <3> QED BY <3>2, <3>3
  <2>10. OneUsable(t)
    <3> SUFFICES ASSUME NEW i \in 1 .. Len(t), NEW j \in 1 .. Len(t),
                        t[i].R_dest_addr = t[j].R_dest_addr,
                        t[i].route_cost < UINT8_MAX, t[j].route_cost < UINT8_MAX
                 PROVE  i = j
      BY DEF OneUsable
    <3>1. ~(i < j) /\ ~(j < i)
      BY <2>9
    <3> QED BY <2>7, <3>1
  <2> QED BY <2>2, <2>3, <2>8, <2>10 DEF Sound, Fits, NotSelf
<1> QED BY <1>3, <1>4

(* A tick changes no tuple but for its age.                                *)
LEMMA AgeKeepsSound ==
  ASSUME NEW n \in Node, NEW rs, Sound(n, rs)
  PROVE  Sound(n, AgeRoutes(rs))
<1> DEFINE t == AgeRoutes(rs)
           m == Min(Expiring(rs))
           k(i) == IF Expiring(rs) = {} THEN i ELSE Skip(m, i)
<1>1. /\ rs \in Seq(RouteTuple(Node, SeqNumber)) /\ Len(rs) <= NUM_RS_ENTRIES
      /\ Len(rs) \in Nat /\ NUM_RS_ENTRIES \in Nat
      /\ \A i \in 1 .. Len(rs) : rs[i] \in RouteTuple(Node, SeqNumber)
  BY SetElements, TableAssumption DEF Sound, Fits
<1>2. /\ t \in Seq(RouteTuple(Node, SeqNumber))
      /\ Len(t) <= Len(rs)
      /\ Expiring(rs) = {} =>
           /\ Len(t) = Len(rs)
           /\ \A i \in 1 .. Len(rs) : t[i] = Older(rs, i)
      /\ Expiring(rs) # {} =>
           /\ m \in 1 .. Len(rs)
           /\ Len(t) = Len(rs) - 1
           /\ \A i \in 1 .. Len(rs) - 1 : t[i] = IF i < m THEN Older(rs, i) ELSE rs[i + 1]
  BY <1>1, AgeElements
<1>3. ASSUME NEW i \in 1 .. Len(rs)
      PROVE  /\ Older(rs, i).R_dest_addr = rs[i].R_dest_addr
             /\ Older(rs, i).route_cost = rs[i].route_cost
  <2>1. rs[i] \in RouteTuple(Node, SeqNumber)
    BY <1>1
  <2> QED BY <2>1 DEF Older, RouteTuple
<1> HIDE DEF t, m
<1>4. Len(t) \in Nat /\ Len(t) <= NUM_RS_ENTRIES
  BY <1>1, <1>2, SetElements
<1>5. ASSUME NEW i \in 1 .. Len(t)
      PROVE  /\ k(i) \in 1 .. Len(rs)
             /\ t[i].R_dest_addr = rs[k(i)].R_dest_addr
             /\ t[i].route_cost = rs[k(i)].route_cost
  <2>1. CASE Expiring(rs) = {}
    BY <1>2, <1>3, <2>1
  <2>2. CASE Expiring(rs) # {} /\ i < m
    <3>1. i \in 1 .. Len(rs) /\ t[i] = Older(rs, i) /\ k(i) = i
      BY <1>1, <1>2, <2>2 DEF Skip
    <3> QED BY <1>3, <3>1
  <2>3. CASE Expiring(rs) # {} /\ ~(i < m)
    BY <1>1, <1>2, <2>3 DEF Skip
  <2> QED BY <2>1, <2>2, <2>3
<1>6. ASSUME NEW i \in 1 .. Len(t), NEW j \in 1 .. Len(t), k(i) = k(j)
      PROVE  i = j
  BY <1>1, <1>2, <1>4, <1>6 DEF Skip
<1> HIDE DEF k
<1>7. OneUsable(t)
  BY <1>5, <1>6 DEF Sound, OneUsable
<1>8. NotSelf(n, t)
  BY <1>5 DEF Sound, NotSelf
<1> QED BY <1>2, <1>4, <1>7, <1>8 DEF Sound, Fits, t

(* A refresh changes no tuple but for its age.                             *)
LEMMA RefreshKeepsSound ==
  ASSUME NEW n \in Node, NEW rs, Sound(n, rs), NEW d
  PROVE  Sound(n, route_refresh(rs, route_lookup(rs, d)))
<1> DEFINE i == route_lookup(rs, d)
           t == route_refresh(rs, i)
<1>1. rs \in Seq(RouteTuple(Node, SeqNumber)) /\ Len(rs) <= NUM_RS_ENTRIES
  BY DEF Sound, Fits
<1>2. i \in 0 .. Len(rs)
  BY <1>1, LookupFinds
<1> HIDE DEF i
<1>3. /\ t \in Seq(RouteTuple(Node, SeqNumber)) /\ Len(t) = Len(rs)
      /\ \A k \in 1 .. Len(rs) :
           t[k] = IF k = i THEN [rs[k] EXCEPT !.R_valid_time = 0] ELSE rs[k]
  BY <1>1, <1>2, RefreshElements
<1>4. \A k \in 1 .. Len(rs) : rs[k] \in RouteTuple(Node, SeqNumber)
  BY <1>1, SetElements
<1> HIDE DEF t
<1>5. \A k \in 1 .. Len(rs) :
        t[k].R_dest_addr = rs[k].R_dest_addr /\ t[k].route_cost = rs[k].route_cost
  BY <1>3, <1>4 DEF RouteTuple
<1>6. Sound(n, t)
  BY <1>1, <1>3, <1>5 DEF Sound, Fits, OneUsable, NotSelf
<1> QED BY <1>6 DEF t, i

-----------------------------------------------------------------------------
(* The inductive invariant, by the parts of the state.                     *)
RoutesOK ==
  /\ route = [n \in Node |-> route[n]]
  /\ \A n \in Node : Sound(n, route[n])

NodesOK ==
  /\ rreq_seqno \in [Node -> SeqNumber]
  /\ rrep_seqno \in [Node -> SeqNumber]
  /\ rrep_pending \in [Node -> BOOLEAN]
  /\ timer \in [Node -> BOOLEAN]
  /\ open \in [Node -> BOOLEAN]

FloodsOK ==
  /\ last \in [Node -> FloodId]
  /\ held \in [Node -> SUBSET FloodPacket]
  /\ rreqs \subseteq RreqFrame

RepliesOK == rreps \subseteq RrepFrame

HistoryOK ==
  /\ sought \in [Node -> Node \cup {NoNode}]
  /\ asked \subseteq Node \X Node
  /\ spent \in [DOMAIN Budget -> Nat]
  /\ \A k \in DOMAIN Budget : spent[k] <= Budget[k]

(* Without a restart every connection stays open.                          *)
OpenOK == spent["restart"] = 0 => \A n \in Node : open[n]

IInv == RoutesOK /\ NodesOK /\ FloodsOK /\ RepliesOK /\ HistoryOK /\ OpenOK

(* What the frames of the medium carry.                                    *)
LEMMA FrameFields ==
  /\ \A f \in RreqFrame :
       /\ f.to \in Node /\ f.from \in Node /\ f.packet \in FloodPacket
       /\ f.packet.msg \in RreqMessage /\ f.packet.id \in FloodId
       /\ f.packet.hops \in 0 .. HOPS_MAX
  /\ \A f \in RrepFrame :
       f.to \in Node /\ f.from \in Node /\ f.msg \in RrepMessage
BY DEF RreqFrame, RrepFrame, FloodPacket

(* A packet goes out to nodes only.                                        *)
LEMMA BroadcastType ==
  ASSUME NEW n \in Node, NEW packet \in FloodPacket
  PROVE  Broadcast(n, packet) \subseteq RreqFrame
<1>1. Link[n] \subseteq Node
  BY NetworkAssumption
<1> QED BY <1>1 DEF Broadcast, RreqFrame

(* A request that a node originates in netflood is a flood packet.         *)
LEMMA SendRreqType ==
  ASSUME NEW n \in Node, NEW msg \in RreqMessage
  PROVE  send_rreq(n, msg) \subseteq RreqFrame /\ OwnId(n, msg) \in FloodId
<1>1. OwnId(n, msg) \in FloodId
  BY DEF OwnId, FloodId, RreqMessage
<1>2. 0 \in 0 .. HOPS_MAX
  BY NetworkAssumption
<1> DEFINE packet == [id |-> OwnId(n, msg), hops |-> 0, msg |-> msg]
<1>3. packet \in FloodPacket
  BY <1>1, <1>2 DEF FloodPacket
<1> QED BY <1>1, <1>3, BroadcastType DEF send_rreq

(* A reply goes to a neighbour, if to anyone.                              *)
LEMMA SendRrepType ==
  ASSUME NEW n \in Node, NEW rs, NEW msg \in RrepMessage
  PROVE  send_rrep(n, rs, msg) \subseteq RrepFrame
<1>1. Link[n] \subseteq Node
  BY NetworkAssumption
<1>2. 0 \in HopCount
  BY NetworkAssumption, TableAssumption DEF HopCount
<1>3. [msg EXCEPT !.hop_count = 0] \in RrepMessage
  BY <1>2 DEF RrepMessage
<1> DEFINE to == IF HasRoute(rs, msg.destination)
                   THEN {NextHop(rs, msg.destination)} \cap Link[n] ELSE {}
<1>4. to \subseteq Node
  BY <1>1
<1>5. send_rrep(n, rs, msg) =
        {[to |-> m, from |-> n, msg |-> [msg EXCEPT !.hop_count = 0]] : m \in to}
  BY DEF send_rrep
<1> HIDE DEF to
<1> QED BY <1>3, <1>4, <1>5 DEF RrepFrame

(* netflood keeps one packet and one header, whichever way it decides.     *)
LEMMA RebroadcastType ==
  ASSUME NEW n \in Node, NEW packet \in FloodPacket,
         NEW waiting \in SUBSET FloodPacket, NEW latest \in FloodId,
         last \in [Node -> FloodId], held \in [Node -> SUBSET FloodPacket],
         Rebroadcast(n, packet, waiting, latest)
  PROVE  /\ last' \in [Node -> FloodId]
         /\ held' \in [Node -> SUBSET FloodPacket]
<1>1. packet.id \in FloodId /\ packet.hops \in 0 .. HOPS_MAX
  BY DEF FloodPacket
<1>2. CASE packet.hops < HOPS_MAX /\ held' = [held EXCEPT ![n] = {[packet EXCEPT !.hops = @ + 1]}]
                                 /\ last' = [last EXCEPT ![n] = packet.id]
  <2>1. packet.hops + 1 \in 0 .. HOPS_MAX
    BY <1>1, <1>2, NetworkAssumption
  <2>2. [packet EXCEPT !.hops = @ + 1] \in FloodPacket
    BY <2>1 DEF FloodPacket
  <2> QED BY <1>1, <1>2, <2>2
<1>3. CASE held' = [held EXCEPT ![n] = waiting] /\ last' = [last EXCEPT ![n] = latest]
  BY <1>3
<1> QED BY <1>2, <1>3 DEF Rebroadcast

-----------------------------------------------------------------------------
(* A frame that is in the air is well formed.                              *)
LEMMA RreqFieldsOK ==
  ASSUME FloodsOK, NEW f \in rreqs
  PROVE  /\ f \in RreqFrame /\ f.to \in Node /\ f.from \in Node
         /\ f.packet \in FloodPacket /\ f.packet.id \in FloodId
         /\ f.packet.msg \in RreqMessage
BY FrameFields DEF FloodsOK

(* The fields of a reply on its way: its sequence number, its hop counter  *)
(* and its addresses keep their types.                                     *)
LEMMA RrepFieldsOK ==
  ASSUME RepliesOK, NEW f \in rreps
  PROVE  f \in RrepFrame /\ f.to \in Node /\ f.from \in Node /\ f.msg \in RrepMessage
BY FrameFields DEF RepliesOK

(* The handlers change one Routing Set at a time.                          *)
LEMMA OneRouteSetChanges ==
  ASSUME RoutesOK, NEW n \in Node, NEW rs, Sound(n, rs),
         route' = [route EXCEPT ![n] = rs]
  PROVE  RoutesOK'
<1>1. \A m \in Node : route'[m] = IF m = n THEN rs ELSE route[m]
  BY DEF RoutesOK
<1>2. route' = [m \in Node |-> route'[m]]
  BY DEF RoutesOK
<1> QED BY <1>1, <1>2 DEF RoutesOK

(* A step that leaves every Routing Set alone leaves them sound.           *)
LEMMA UnchangedRoutes ==
  ASSUME RoutesOK, route' = route
  PROVE  RoutesOK'
BY DEF RoutesOK

(* A node learns only from a message that some other node originated.      *)
LEMMA LearningKeepsRoutes ==
  ASSUME RoutesOK, NEW n \in Node, NEW from \in Node,
         NEW msg \in RreqMessage \cup RrepMessage, msg.originator # n,
         route' = [route EXCEPT ![n] = Learn(@, msg, from)]
  PROVE  RoutesOK'
<1> DEFINE rs == Learn(route[n], msg, from)
<1>1. Sound(n, route[n])
  BY DEF RoutesOK
<1>2. Sound(n, rs)
  BY <1>1, LearnKeepsSound
<1>3. route' = [route EXCEPT ![n] = rs]
  OBVIOUS
<1> HIDE DEF rs
<1> QED BY <1>2, <1>3, OneRouteSetChanges

(* Every step leaves every Routing Set sound.                              *)
LEMMA RoutesKeptSound ==
  ASSUME IInv, Next
  PROVE  RoutesOK'
<1> USE DEF IInv
<1>1. ASSUME NEW n \in Node, NEW d \in Node, Discover(n, d)
      PROVE  RoutesOK'
  BY <1>1, UnchangedRoutes DEF Discover
<1>2. ASSUME NEW n \in Node, NEW f \in rreqs, RreqReceived(n, f)
      PROVE  RoutesOK'
  <2>1. f.from \in Node /\ f.packet.msg \in RreqMessage
    BY RreqFieldsOK
  <2>2. CASE RreqDuplicate(n, f)
    BY <2>2, UnchangedRoutes DEF RreqDuplicate, protocolVars
  <2>3. CASE RreqRejected(n, f)
    BY <2>3, UnchangedRoutes DEF RreqRejected, protocolVars
  <2>4. CASE Accepted(n, f)
    BY <2>1, <2>4, LearningKeepsRoutes DEF Accepted, ValidRreq
  <2> QED BY <1>2, <2>2, <2>3, <2>4
       DEF RreqReceived, RreqAnswered, RreqForwarded, RreqExhausted
<1>3. ASSUME NEW n \in Node, NEW f \in rreps, RrepReceived(n, f)
      PROVE  RoutesOK'
  <2>1. f.from \in Node /\ f.msg \in RrepMessage
    BY RrepFieldsOK
  <2>2. CASE RrepRejected(n, f)
    BY <2>2, UnchangedRoutes DEF RrepRejected, protocolVars
  <2>3. CASE RrepForwarded(n, f)
    BY <2>1, <2>3, LearningKeepsRoutes DEF RrepForwarded, ValidRrep
  <2>4. CASE RrepForUs(n, f)
    BY <2>1, <2>4, LearningKeepsRoutes DEF RrepForUs, ValidRrep
  <2> QED BY <1>3, <2>2, <2>3, <2>4 DEF RrepReceived
<1>4. ASSUME NEW n \in Node, Relay(n)
      PROVE  RoutesOK'
  BY <1>4, UnchangedRoutes DEF Relay, protocolVars
<1>5. ASSUME NEW n \in Node, Timeout(n)
      PROVE  RoutesOK'
  BY <1>5, UnchangedRoutes DEF Timeout
<1>6. ASSUME NEW n \in Node, Tick(n)
      PROVE  RoutesOK'
  <2>1. Sound(n, AgeRoutes(route[n]))
    BY AgeKeepsSound DEF RoutesOK
  <2>2. route' = [route EXCEPT ![n] = AgeRoutes(route[n])]
    BY <1>6 DEF Tick
  <2> QED BY <2>1, <2>2, OneRouteSetChanges
<1>7. ASSUME NEW n \in Node, Close(n)
      PROVE  RoutesOK'
  BY <1>7, UnchangedRoutes DEF Close
<1>8. ASSUME NEW n \in Node, Open(n) \/ Reboot(n)
      PROVE  RoutesOK'
  <2>1. route' = [route EXCEPT ![n] = <<>>]
    BY <1>8 DEF Open, Reboot
  <2> QED BY <2>1, EmptyIsSound, OneRouteSetChanges
<1>9. ASSUME NEW f \in rreqs \cup rreps, Lose(f) \/ Unheard(f)
      PROVE  RoutesOK'
  BY <1>9, UnchangedRoutes DEF Lose, Unheard, protocolVars
<1>10. ASSUME NEW n \in Node, NEW d \in Node, DataReceived(n, d)
       PROVE  RoutesOK'
  <2>1. Sound(n, route_refresh(route[n], route_lookup(route[n], d)))
    BY RefreshKeepsSound DEF RoutesOK
  <2>2. route' = [route EXCEPT ![n] = route_refresh(route[n], route_lookup(route[n], d))]
    BY <1>10 DEF DataReceived
  <2> QED BY <2>1, <2>2, OneRouteSetChanges
<1> QED BY <1>1, <1>2, <1>3, <1>4, <1>5, <1>6, <1>7, <1>8, <1>9, <1>10 DEF Next

-----------------------------------------------------------------------------
(* A request that may be forwarded leaves with its counters in range: the  *)
(* hop count at most the maximum, the hop limit not below 0.               *)
LEMMA ForwardedType ==
  ASSUME NEW msg \in RreqMessage, Forwardable(msg)
  PROVE  [msg EXCEPT !.hop_count = @ + 1, !.hop_limit = @ - 1] \in RreqMessage
<1>1. /\ msg.hop_count \in 0 .. MAX_HOP_COUNT /\ msg.hop_limit \in 0 .. MAX_HOP_LIMIT
      /\ MAX_HOP_COUNT \in Nat /\ MAX_HOP_LIMIT \in Nat
  BY NetworkAssumption, TableAssumption DEF RreqMessage, HopCount
<1>2. msg.hop_count + 1 \in HopCount /\ msg.hop_limit - 1 \in 0 .. MAX_HOP_LIMIT
  BY <1>1 DEF Forwardable, HopCount
<1> QED BY <1>2 DEF RreqMessage

(* The request of a discovery starts with no hop behind it.                *)
LEMMA InitialType ==
  ASSUME NodesOK, NEW n \in Node, NEW d \in Node
  PROVE  rreq_initial(n, d) \in RreqMessage
<1>1. 0 \in HopCount /\ MAX_HOP_LIMIT \in 0 .. MAX_HOP_LIMIT
  BY NetworkAssumption, TableAssumption DEF HopCount
<1>2. rreq_seqno[n] \in SeqNumber
  BY DEF NodesOK
<1> QED BY <1>1, <1>2 DEF rreq_initial, RreqMessage

(* An answer goes from the destination of a request to its originator.     *)
LEMMA AnswerType ==
  ASSUME NodesOK, NEW n \in Node, NEW msg \in RreqMessage
  PROVE  Answer(n, msg) \in RrepMessage
<1>1. 0 \in HopCount
  BY NetworkAssumption, TableAssumption DEF HopCount
<1>2. rrep_seqno[n] \in SeqNumber
  BY DEF NodesOK
<1> QED BY <1>1, <1>2, MessageFields DEF Answer, RrepMessage

(* Counters, flags and timers keep their types.                            *)
LEMMA NodesKeptOK ==
  ASSUME IInv, Next
  PROVE  NodesOK'
<1>1. ASSUME NodesOK, UNCHANGED <<rreq_seqno, rrep_seqno, rrep_pending, timer, open>>
      PROVE  NodesOK'
  BY <1>1 DEF NodesOK
<1>2. NodesOK
  BY DEF IInv
<1>3. \A s \in SeqNumber : NextSeqno(s) \in SeqNumber
  BY NextSeqnoWraps
<1>4. ASSUME NEW n \in Node, NEW d \in Node, Discover(n, d)
      PROVE  NodesOK'
  BY <1>2, <1>3, <1>4 DEF Discover, NodesOK
<1>5. ASSUME NEW n \in Node, NEW f \in rreqs, RreqReceived(n, f)
      PROVE  NodesOK'
  <2>1. CASE RreqAnswered(n, f)
    BY <1>2, <1>3, <2>1 DEF RreqAnswered, NodesOK
  <2>2. CASE RreqDuplicate(n, f) \/ RreqRejected(n, f) \/ RreqForwarded(n, f)
             \/ RreqExhausted(n, f)
    BY <1>1, <1>2, <2>2
       DEF RreqDuplicate, RreqRejected, RreqForwarded, RreqExhausted, protocolVars
  <2> QED BY <1>5, <2>1, <2>2 DEF RreqReceived
<1>6. ASSUME NEW n \in Node, NEW f \in rreps, RrepReceived(n, f)
      PROVE  NodesOK'
  <2>1. CASE RrepForUs(n, f)
    BY <1>2, <2>1 DEF RrepForUs, NodesOK
  <2>2. CASE RrepRejected(n, f) \/ RrepForwarded(n, f)
    BY <1>1, <1>2, <2>2 DEF RrepRejected, RrepForwarded, protocolVars
  <2> QED BY <1>6, <2>1, <2>2 DEF RrepReceived
<1>7. ASSUME NEW n \in Node, Relay(n) \/ Timeout(n) \/ Tick(n)
      PROVE  NodesOK'
  <2>1. CASE Timeout(n)
    BY <1>2, <2>1 DEF Timeout, NodesOK
  <2>2. CASE Relay(n) \/ Tick(n)
    BY <1>1, <1>2, <2>2 DEF Relay, Tick, protocolVars
  <2> QED BY <1>7, <2>1, <2>2
<1>8. ASSUME NEW n \in Node, Close(n) \/ Open(n) \/ Reboot(n)
      PROVE  NodesOK'
  <2>1. CASE Close(n) \/ Open(n)
    BY <1>2, <2>1 DEF Close, Open, NodesOK
  <2>2. CASE Reboot(n)
    <3>1. 0 \in SeqNumber
      BY SeqNumAssumption DEF SeqNumber
    <3> QED BY <1>2, <2>2, <3>1 DEF Reboot, NodesOK
  <2> QED BY <1>8, <2>1, <2>2
<1>9. ASSUME NEW f \in rreqs \cup rreps, Lose(f) \/ Unheard(f)
      PROVE  NodesOK'
  BY <1>1, <1>2, <1>9 DEF Lose, Unheard, protocolVars
<1>10. ASSUME NEW n \in Node, NEW d \in Node, DataReceived(n, d)
       PROVE  NodesOK'
  BY <1>1, <1>2, <1>10 DEF DataReceived
<1> QED BY <1>4, <1>5, <1>6, <1>7, <1>8, <1>9, <1>10 DEF Next

(* The history variables keep their types, and nothing is spent beyond its *)
(* budget.                                                                 *)
LEMMA HistoryKeptOK ==
  ASSUME IInv, Next
  PROVE  HistoryOK'
<1>1. ASSUME HistoryOK, UNCHANGED historyVars
      PROVE  HistoryOK'
  BY <1>1 DEF HistoryOK, historyVars
<1>2. HistoryOK
  BY DEF IInv
<1>3. Budget \in [{"discover", "tick", "airtick", "loss", "restart"} -> Nat]
  BY NetworkAssumption
<1>4. ASSUME NEW k \in {"loss", "restart"}, Spend(k), UNCHANGED <<sought, asked>>
      PROVE  HistoryOK'
  BY <1>2, <1>3, <1>4 DEF Spend, HistoryOK
<1>5. ASSUME NEW n \in Node, NEW d \in Node, Discover(n, d)
      PROVE  HistoryOK'
  <2>1. /\ spent' \in [DOMAIN Budget -> Nat]
        /\ \A k \in DOMAIN Budget : spent'[k] <= Budget[k]
    BY <1>2, <1>3, <1>5 DEF Discover, HistoryOK
  <2>2. sought' \in [Node -> Node \cup {NoNode}] /\ asked' \subseteq Node \X Node
    BY <1>2, <1>5 DEF Discover, HistoryOK
  <2> QED BY <2>1, <2>2 DEF HistoryOK
<1>6. ASSUME NEW n \in Node, NEW f \in rreqs, RreqReceived(n, f)
      PROVE  HistoryOK'
  BY <1>1, <1>2, <1>6
     DEF RreqReceived, RreqDuplicate, RreqRejected, RreqAnswered, RreqForwarded, RreqExhausted
<1>7. ASSUME NEW n \in Node, NEW f \in rreps, RrepReceived(n, f)
      PROVE  HistoryOK'
  BY <1>1, <1>2, <1>7 DEF RrepReceived, RrepRejected, RrepForwarded, RrepForUs
<1>8. ASSUME NEW n \in Node, Relay(n) \/ Timeout(n) \/ Open(n)
      PROVE  HistoryOK'
  BY <1>1, <1>2, <1>8 DEF Relay, Timeout, Open
<1>9. ASSUME NEW n \in Node, Tick(n)
      PROVE  HistoryOK'
  <2>1. /\ spent' \in [DOMAIN Budget -> Nat]
        /\ \A k \in DOMAIN Budget : spent'[k] <= Budget[k]
    BY <1>2, <1>3, <1>9 DEF Tick, HistoryOK
  <2> QED BY <1>2, <1>9, <2>1 DEF Tick, HistoryOK
<1>10. ASSUME NEW n \in Node, Close(n) \/ Reboot(n)
       PROVE  HistoryOK'
  BY <1>4, <1>10 DEF Close, Reboot
<1>11. ASSUME NEW f \in rreqs \cup rreps, Lose(f)
       PROVE  HistoryOK'
  BY <1>4, <1>11 DEF Lose
<1>12. ASSUME NEW f \in rreqs \cup rreps, Unheard(f)
       PROVE  HistoryOK'
  BY <1>1, <1>2, <1>12 DEF Unheard
<1>13. ASSUME NEW n \in Node, NEW d \in Node, DataReceived(n, d)
       PROVE  HistoryOK'
  BY <1>1, <1>2, <1>13 DEF DataReceived
<1> QED BY <1>5, <1>6, <1>7, <1>8, <1>9, <1>10, <1>11, <1>12, <1>13 DEF Next

(* Only Close closes a connection, and counts as a restart.                *)
LEMMA OpenKept ==
  ASSUME IInv, Next
  PROVE  OpenOK'
<1>1. /\ open \in [Node -> BOOLEAN]
      /\ spent \in [{"discover", "tick", "airtick", "loss", "restart"} -> Nat]
  BY NetworkAssumption DEF IInv, NodesOK, HistoryOK
<1>2. ASSUME open' = open, spent'["restart"] = spent["restart"]
      PROVE  OpenOK'
  BY <1>2 DEF IInv, OpenOK
<1>3. ASSUME NEW n \in Node, NEW d \in Node, Discover(n, d) \/ DataReceived(n, d)
      PROVE  OpenOK'
  BY <1>1, <1>2, <1>3 DEF Discover, DataReceived, historyVars
<1>4. ASSUME NEW n \in Node, NEW f \in rreqs, RreqReceived(n, f)
      PROVE  OpenOK'
  BY <1>2, <1>4 DEF RreqReceived, RreqDuplicate, RreqRejected, RreqAnswered,
                    RreqForwarded, RreqExhausted, protocolVars, historyVars
<1>5. ASSUME NEW n \in Node, NEW f \in rreps, RrepReceived(n, f)
      PROVE  OpenOK'
  BY <1>2, <1>5 DEF RrepReceived, RrepRejected, RrepForwarded, RrepForUs,
                    protocolVars, historyVars
<1>6. ASSUME NEW n \in Node, Relay(n) \/ Timeout(n) \/ Tick(n)
      PROVE  OpenOK'
  BY <1>1, <1>2, <1>6 DEF Relay, Timeout, Tick, protocolVars, historyVars
<1>7. ASSUME NEW n \in Node, Open(n)
      PROVE  OpenOK'
  BY <1>1, <1>7 DEF Open, historyVars, IInv, OpenOK
<1>8. ASSUME NEW n \in Node, Close(n) \/ Reboot(n)
      PROVE  OpenOK'
  <2>1. spent'["restart"] = spent["restart"] + 1
    BY <1>1, <1>8 DEF Close, Reboot, Spend
  <2> QED BY <1>1, <2>1 DEF OpenOK
<1>9. ASSUME NEW f \in rreqs \cup rreps, Lose(f) \/ Unheard(f)
      PROVE  OpenOK'
  BY <1>1, <1>2, <1>9 DEF Lose, Unheard, Spend, protocolVars, historyVars
<1> QED BY <1>3, <1>4, <1>5, <1>6, <1>7, <1>8, <1>9 DEF Next

(* Replies in the air are well formed.                                     *)
LEMMA RepliesKeptOK ==
  ASSUME IInv, Next
  PROVE  RepliesOK'
<1>1. ASSUME RepliesOK, rreps' \subseteq rreps
      PROVE  RepliesOK'
  BY <1>1 DEF RepliesOK
<1>2. RepliesOK /\ FloodsOK /\ NodesOK
  BY DEF IInv
<1>3. ASSUME NEW n \in Node, NEW d \in Node, Discover(n, d)
      PROVE  RepliesOK'
  BY <1>1, <1>2, <1>3 DEF Discover
<1>4. ASSUME NEW n \in Node, NEW f \in rreqs, RreqReceived(n, f)
      PROVE  RepliesOK'
  <2>1. CASE RreqAnswered(n, f)
    <3>1. Answer(n, f.packet.msg) \in RrepMessage
      BY <1>2, RreqFieldsOK, AnswerType
    <3>2. send_rrep(n, route'[n], Answer(n, f.packet.msg)) \subseteq RrepFrame
      BY <3>1, SendRrepType
    <3> QED BY <1>2, <2>1, <3>2 DEF RreqAnswered, RepliesOK
  <2>2. CASE RreqDuplicate(n, f) \/ RreqRejected(n, f) \/ RreqForwarded(n, f)
             \/ RreqExhausted(n, f)
    BY <1>1, <1>2, <2>2 DEF RreqDuplicate, RreqRejected, RreqForwarded, RreqExhausted
  <2> QED BY <1>4, <2>1, <2>2 DEF RreqReceived
<1>5. ASSUME NEW n \in Node, NEW f \in rreps, RrepReceived(n, f)
      PROVE  RepliesOK'
  <2>1. CASE RrepForwarded(n, f)
    <3>1. send_rrep(n, route'[n], f.msg) \subseteq RrepFrame
      BY <1>2, RrepFieldsOK, SendRrepType
    <3> QED BY <1>2, <2>1, <3>1 DEF RrepForwarded, RepliesOK
  <2>2. CASE RrepRejected(n, f) \/ RrepForUs(n, f)
    BY <1>1, <1>2, <2>2 DEF RrepRejected, RrepForUs
  <2> QED BY <1>5, <2>1, <2>2 DEF RrepReceived
<1>6. ASSUME NEW n \in Node,
             Relay(n) \/ Timeout(n) \/ Tick(n) \/ Close(n) \/ Open(n) \/ Reboot(n)
      PROVE  RepliesOK'
  BY <1>1, <1>2, <1>6 DEF Relay, Timeout, Tick, Close, Open, Reboot, airVars
<1>7. ASSUME NEW f \in rreqs \cup rreps, Lose(f) \/ Unheard(f)
      PROVE  RepliesOK'
  BY <1>1, <1>2, <1>7 DEF Lose, Unheard
<1>8. ASSUME NEW n \in Node, NEW d \in Node, DataReceived(n, d)
      PROVE  RepliesOK'
  BY <1>1, <1>2, <1>8 DEF DataReceived, airVars
<1> QED BY <1>3, <1>4, <1>5, <1>6, <1>7, <1>8 DEF Next

-----------------------------------------------------------------------------
(* What netflood holds and what it has in the air is well formed.          *)
LEMMA FloodsKeptOK ==
  ASSUME IInv, Next
  PROVE  FloodsOK'
<1>1. /\ FloodsOK /\ NodesOK
      /\ last \in [Node -> FloodId] /\ held \in [Node -> SUBSET FloodPacket]
      /\ rreqs \subseteq RreqFrame
  BY DEF IInv, FloodsOK
<1>2. ASSUME UNCHANGED floodVars, rreqs' \subseteq rreqs
      PROVE  FloodsOK'
  BY <1>1, <1>2 DEF FloodsOK, floodVars
<1>3. ASSUME NEW n \in Node, NEW id
      PROVE  NotHeard(n, id) \in SUBSET FloodPacket
  BY <1>1 DEF NotHeard
<1>4. ASSUME NEW n \in Node, NEW d \in Node, Discover(n, d)
      PROVE  FloodsOK'
  <2>1. /\ send_rreq(n, rreq_initial(n, d)) \subseteq RreqFrame
        /\ OwnId(n, rreq_initial(n, d)) \in FloodId
    BY <1>1, InitialType, SendRreqType
  <2>2. \E packets \in MaybeFreed(held[n]) : held' = [held EXCEPT ![n] = packets]
    BY <1>4 DEF Discover
  <2>3. held' \in [Node -> SUBSET FloodPacket]
    BY <1>1, <2>2 DEF MaybeFreed
  <2>4. /\ rreqs' = rreqs \cup send_rreq(n, rreq_initial(n, d))
        /\ last' = [last EXCEPT ![n] = OwnId(n, rreq_initial(n, d))]
    BY <1>4 DEF Discover
  <2> QED BY <1>1, <2>1, <2>3, <2>4 DEF FloodsOK
<1>5. ASSUME NEW n \in Node, NEW f \in rreqs, RreqReceived(n, f)
      PROVE  FloodsOK'
  <2>1. /\ f.packet \in FloodPacket /\ f.packet.id \in FloodId
        /\ f.packet.msg \in RreqMessage
    BY <1>1, RreqFieldsOK
  <2>2. last[n] \in FloodId /\ NotHeard(n, f.packet.id) \in SUBSET FloodPacket
    BY <1>1, <1>3
  <2>3. CASE RreqDuplicate(n, f)
    BY <1>1, <2>2, <2>3 DEF RreqDuplicate, FloodsOK
  <2>4. CASE RreqRejected(n, f) \/ RreqAnswered(n, f) \/ RreqExhausted(n, f)
    <3>1. /\ rreqs' = rreqs \ {f}
          /\ Rebroadcast(n, f.packet, NotHeard(n, f.packet.id), last[n])
      BY <2>4 DEF RreqRejected, RreqAnswered, RreqExhausted
    <3>2. last' \in [Node -> FloodId] /\ held' \in [Node -> SUBSET FloodPacket]
      BY <1>1, <2>1, <2>2, <3>1, RebroadcastType
    <3> QED BY <1>1, <3>1, <3>2 DEF FloodsOK
  <2>5. CASE RreqForwarded(n, f)
    <3> DEFINE msg == [f.packet.msg EXCEPT !.hop_count = @ + 1, !.hop_limit = @ - 1]
    <3>1. /\ Forwardable(f.packet.msg)
          /\ rreqs' = (rreqs \ {f}) \cup send_rreq(n, msg)
          /\ \E packets \in MaybeFreed(NotHeard(n, f.packet.id)) :
               Rebroadcast(n, f.packet, packets, OwnId(n, msg))
      BY <2>5 DEF RreqForwarded
    <3>2. msg \in RreqMessage
      BY <2>1, <3>1, ForwardedType
    <3> HIDE DEF msg
    <3>3. send_rreq(n, msg) \subseteq RreqFrame /\ OwnId(n, msg) \in FloodId
      BY <3>2, SendRreqType
    <3>4. PICK packets \in MaybeFreed(NotHeard(n, f.packet.id)) :
            Rebroadcast(n, f.packet, packets, OwnId(n, msg))
      BY <3>1
    <3>5. packets \in SUBSET FloodPacket
      BY <2>2, <3>4 DEF MaybeFreed
    <3>6. last' \in [Node -> FloodId] /\ held' \in [Node -> SUBSET FloodPacket]
      BY <1>1, <2>1, <3>3, <3>4, <3>5, RebroadcastType
    <3> QED BY <1>1, <3>1, <3>3, <3>6 DEF FloodsOK
  <2> QED BY <1>5, <2>3, <2>4, <2>5 DEF RreqReceived
<1>6. ASSUME NEW n \in Node, NEW f \in rreps, RrepReceived(n, f)
      PROVE  FloodsOK'
  BY <1>2, <1>6 DEF RrepReceived, RrepRejected, RrepForwarded, RrepForUs
<1>7. ASSUME NEW n \in Node, Relay(n)
      PROVE  FloodsOK'
  <2>1. \A p \in held[n] : p \in FloodPacket
    BY <1>1
  <2>2. \A p \in held[n] : Broadcast(n, p) \subseteq RreqFrame
    BY <2>1, BroadcastType
  <2>3. UNION {Broadcast(n, p) : p \in held[n]} \subseteq RreqFrame
    BY <2>2
  <2>4. held' \in [Node -> SUBSET FloodPacket]
    BY <1>1, <1>7 DEF Relay
  <2> QED BY <1>1, <1>7, <2>3, <2>4 DEF Relay, FloodsOK
<1>8. ASSUME NEW n \in Node, Timeout(n) \/ Tick(n) \/ Open(n)
      PROVE  FloodsOK'
  BY <1>2, <1>8 DEF Timeout, Tick, Open, airVars
<1>9. ASSUME NEW n \in Node, Close(n)
      PROVE  FloodsOK'
  BY <1>1, <1>9 DEF Close, FloodsOK, airVars
<1>10. ASSUME NEW n \in Node, Reboot(n)
       PROVE  FloodsOK'
  <2>1. NoFlood \in FloodId
    BY SeqNumAssumption DEF NoFlood, FloodId, SeqNumber
  <2> QED BY <1>1, <1>10, <2>1 DEF Reboot, FloodsOK, airVars
<1>11. ASSUME NEW f \in rreqs \cup rreps, Lose(f) \/ Unheard(f)
       PROVE  FloodsOK'
  BY <1>2, <1>11 DEF Lose, Unheard
<1>12. ASSUME NEW n \in Node, NEW d \in Node, DataReceived(n, d)
       PROVE  FloodsOK'
  BY <1>2, <1>12 DEF DataReceived, airVars
<1> QED BY <1>4, <1>5, <1>6, <1>7, <1>8, <1>9, <1>10, <1>11, <1>12 DEF Next

-----------------------------------------------------------------------------
(* The invariant holds at the start, and every step keeps it.              *)
LEMMA InitOK == Init => IInv
<1> SUFFICES ASSUME Init PROVE IInv
  OBVIOUS
<1>1. RoutesOK
  BY EmptyIsSound DEF Init, RoutesOK
<1>2. 0 \in SeqNumber
  BY SeqNumAssumption DEF SeqNumber
<1>3. NodesOK
  BY <1>2 DEF Init, NodesOK
<1>4. NoFlood \in FloodId
  BY <1>2 DEF NoFlood, FloodId
<1>5. FloodsOK /\ RepliesOK
  BY <1>4 DEF Init, FloodsOK, RepliesOK
<1>6. HistoryOK
  BY NetworkAssumption DEF Init, HistoryOK
<1>7. OpenOK
  BY DEF Init, OpenOK
<1> QED BY <1>1, <1>3, <1>5, <1>6, <1>7 DEF IInv

(* The invariant is inductive: every callback, timer, restart and loss     *)
(* keeps each of its six parts.                                            *)
LEMMA StepOK == IInv /\ [Next]_vars => IInv'
<1> SUFFICES ASSUME IInv, [Next]_vars PROVE IInv'
  OBVIOUS
<1>1. CASE Next
  BY <1>1, RoutesKeptSound, NodesKeptOK, FloodsKeptOK, RepliesKeptOK, HistoryKeptOK,
     OpenKept DEF IInv
<1>2. CASE UNCHANGED vars
  BY <1>2 DEF vars, protocolVars, floodVars, airVars, historyVars, IInv,
              RoutesOK, NodesOK, FloodsOK, RepliesOK, HistoryOK, OpenOK
<1> QED BY <1>1, <1>2

(* The invariant holds of every reachable state of every network.          *)
LEMMA Invariant == Spec => []IInv
BY InitOK, StepOK, PTL DEF Spec

(* Every variable keeps its type in every network: no counter of a message *)
(* leaves its byte, no Routing Set outgrows its pool.                      *)
THEOREM NetworkTypeCorrect == Spec => []TypeOK
<1>1. IInv => TypeOK
  <2> SUFFICES ASSUME IInv PROVE TypeOK
    OBVIOUS
  <2>1. \A n \in Node : /\ route[n] \in Seq(RouteTuple(Node, SeqNumber))
                        /\ Len(route[n]) <= NUM_RS_ENTRIES
    BY DEF IInv, RoutesOK, Sound, Fits
  <2>2. route \in [Node -> Seq(RouteTuple(Node, SeqNumber))]
    BY <2>1 DEF IInv, RoutesOK
  <2> QED BY <2>1, <2>2 DEF IInv, NodesOK, FloodsOK, RepliesOK, HistoryOK, TypeOK
<1> QED BY <1>1, Invariant, PTL

(* No node of any network holds a route to itself, whatever returns to it. *)
THEOREM NobodyRoutesToItself == Spec => []NoRouteToSelf
<1>1. IInv => NoRouteToSelf
  <2> SUFFICES ASSUME IInv, NEW n \in Node, NEW i \in DOMAIN route[n]
               PROVE  route[n][i].R_dest_addr # n
    BY DEF NoRouteToSelf
  <2>1. Sound(n, route[n])
    BY DEF IInv, RoutesOK
  <2>2. i \in 1 .. Len(route[n])
    BY <2>1 DEF Sound, Fits
  <2> QED BY <2>1, <2>2 DEF Sound, NotSelf
<1> QED BY <1>1, Invariant, PTL

(* No node of any network ever has two usable tuples for one destination,  *)
(* in spite of expiry, eviction and restarts.                              *)
THEOREM OneUsableTuplePerDestination == Spec => []OneTuplePerDestination
<1>1. IInv => OneTuplePerDestination
  <2> SUFFICES ASSUME IInv, NEW n \in Node,
                      NEW i \in DOMAIN route[n], NEW j \in DOMAIN route[n],
                      route[n][i].R_dest_addr = route[n][j].R_dest_addr,
                      route[n][i].route_cost < UINT8_MAX,
                      route[n][j].route_cost < UINT8_MAX
               PROVE  i = j
    BY DEF OneTuplePerDestination
  <2>1. Sound(n, route[n])
    BY DEF IInv, RoutesOK
  <2>2. i \in 1 .. Len(route[n]) /\ j \in 1 .. Len(route[n])
    BY <2>1 DEF Sound, Fits
  <2> QED BY <2>1, <2>2 DEF Sound, OneUsable
<1> QED BY <1>1, Invariant, PTL

-----------------------------------------------------------------------------
(* Without restarts the pending flag and the timer go together.  A restart *)
(* spends its budget, so that the premise does not come back.              *)
THEOREM WhoWaitsHasATimer == Spec => []PendingHasTimer
<1>1. Init => PendingHasTimer
  BY DEF Init, PendingHasTimer
<1>2. IInv /\ PendingHasTimer /\ [Next]_vars => PendingHasTimer'
  <2> SUFFICES ASSUME IInv, PendingHasTimer, [Next]_vars PROVE PendingHasTimer'
    OBVIOUS
  <2>1. /\ rrep_pending \in [Node -> BOOLEAN] /\ timer \in [Node -> BOOLEAN]
        /\ spent \in [{"discover", "tick", "airtick", "loss", "restart"} -> Nat]
    BY NetworkAssumption DEF IInv, NodesOK, HistoryOK
  <2>2. ASSUME rrep_pending' = rrep_pending, timer' = timer,
               spent'["restart"] = spent["restart"]
        PROVE  PendingHasTimer'
    BY <2>2 DEF PendingHasTimer
  <2>3. ASSUME spent'["restart"] # 0
        PROVE  PendingHasTimer'
    BY <2>3 DEF PendingHasTimer
  <2>4. ASSUME NEW n \in Node, NEW d \in Node, Discover(n, d)
        PROVE  PendingHasTimer'
    BY <2>1, <2>4 DEF Discover, PendingHasTimer
  <2>5. ASSUME NEW n \in Node, NEW f \in rreqs, RreqReceived(n, f)
        PROVE  PendingHasTimer'
    BY <2>2, <2>5 DEF RreqReceived, RreqDuplicate, RreqRejected, RreqAnswered,
                      RreqForwarded, RreqExhausted, protocolVars, historyVars
  <2>6. ASSUME NEW n \in Node, NEW f \in rreps, RrepReceived(n, f)
        PROVE  PendingHasTimer'
    <3>1. CASE RrepForUs(n, f)
      BY <2>1, <3>1 DEF RrepForUs, historyVars, PendingHasTimer
    <3>2. CASE RrepRejected(n, f) \/ RrepForwarded(n, f)
      BY <2>2, <3>2 DEF RrepRejected, RrepForwarded, protocolVars, historyVars
    <3> QED BY <2>6, <3>1, <3>2 DEF RrepReceived
  <2>7. ASSUME NEW n \in Node, Timeout(n)
        PROVE  PendingHasTimer'
    BY <2>1, <2>7 DEF Timeout, historyVars, PendingHasTimer
  <2>8. ASSUME NEW n \in Node, Relay(n) \/ Tick(n)
        PROVE  PendingHasTimer'
    BY <2>1, <2>2, <2>8 DEF Relay, Tick, protocolVars, historyVars
  <2>9. ASSUME NEW n \in Node, Open(n)
        PROVE  PendingHasTimer'
    BY <2>2, <2>9 DEF Open, historyVars
  <2>10. ASSUME NEW n \in Node, Close(n) \/ Reboot(n)
         PROVE  PendingHasTimer'
    <3>1. spent'["restart"] = spent["restart"] + 1
      BY <2>1, <2>10 DEF Close, Reboot, Spend
    <3> QED BY <2>1, <2>3, <3>1
  <2>11. ASSUME NEW f \in rreqs \cup rreps, Lose(f) \/ Unheard(f)
         PROVE  PendingHasTimer'
    BY <2>1, <2>2, <2>11 DEF Lose, Unheard, Spend, protocolVars, historyVars
  <2>12. ASSUME NEW n \in Node, NEW d \in Node, DataReceived(n, d)
         PROVE  PendingHasTimer'
    BY <2>2, <2>12 DEF DataReceived, historyVars
  <2>13. CASE UNCHANGED vars
    BY <2>2, <2>13 DEF vars, protocolVars, historyVars
  <2> QED BY <2>4, <2>5, <2>6, <2>7, <2>8, <2>9, <2>10, <2>11, <2>12, <2>13 DEF Next
<1> QED BY <1>1, <1>2, Invariant, PTL DEF Spec

-----------------------------------------------------------------------------
(* Whatever is in the air or waits to be relayed goes back to a request    *)
(* that its originator has flooded: relays, new originations and copies    *)
(* keep the two addresses, an answer swaps them.                           *)
Wanted(msg) == <<msg.originator, msg.destination>> \in asked
Answers(msg) == <<msg.destination, msg.originator>> \in asked

FloodsAsked ==
  /\ \A f \in rreqs : Wanted(f.packet.msg)
  /\ \A n \in Node : \A p \in held[n] : Wanted(p.msg)

RepliesAsked == \A f \in rreps : Answers(f.msg)

(* What a node holds for its relay carries the request it has received, or *)
(* one that it held before.                                                *)
LEMMA HeldAfterRebroadcast ==
  ASSUME NEW n \in Node, NEW packet \in FloodPacket, NEW waiting, NEW latest,
         held \in [Node -> SUBSET FloodPacket],
         Rebroadcast(n, packet, waiting, latest)
  PROVE  \A m \in Node : \A p \in held'[m] :
           p.msg = packet.msg \/ (m = n /\ p \in waiting) \/ p \in held[m]
<1>1. CASE held' = [held EXCEPT ![n] = {[packet EXCEPT !.hops = @ + 1]}]
  <2>1. [packet EXCEPT !.hops = @ + 1].msg = packet.msg
    BY DEF FloodPacket
  <2> QED BY <1>1, <2>1
<1>2. CASE held' = [held EXCEPT ![n] = waiting]
  BY <1>2
<1> QED BY <1>1, <1>2 DEF Rebroadcast

(* A flood frame carries the request it was sent with.                     *)
LEMMA BroadcastCarries ==
  /\ \A n, packet : \A f \in Broadcast(n, packet) : f.packet = packet
  /\ \A n, msg : \A f \in send_rreq(n, msg) : f.packet.msg = msg
BY DEF Broadcast, send_rreq

(* A reply frame carries its message, whose hop count starts again; there  *)
(* is one frame at most.                                                   *)
LEMMA ReplyCarries ==
  ASSUME NEW n \in Node, NEW rs, NEW msg \in RrepMessage
  PROVE  /\ \A f \in send_rrep(n, rs, msg) :
              /\ f.from = n
              /\ f.msg.seqno = msg.seqno
              /\ f.msg.destination = msg.destination
              /\ f.msg.originator = msg.originator
         /\ \A f, g \in send_rrep(n, rs, msg) : f = g
<1> DEFINE to == IF HasRoute(rs, msg.destination)
                   THEN {NextHop(rs, msg.destination)} \cap Link[n] ELSE {}
           sent == [msg EXCEPT !.hop_count = 0]
<1>1. /\ sent.seqno = msg.seqno
      /\ sent.destination = msg.destination
      /\ sent.originator = msg.originator
  BY DEF RrepMessage
<1>2. \A k, m \in to : k = m
  OBVIOUS
<1>3. send_rrep(n, rs, msg) = {[to |-> m, from |-> n, msg |-> sent] : m \in to}
  BY Zenon DEF send_rrep
<1> HIDE DEF to, sent
<1>4. ASSUME NEW f \in send_rrep(n, rs, msg)
      PROVE  f.to \in to /\ f = [to |-> f.to, from |-> n, msg |-> sent]
  <2>1. PICK m \in to : f = [to |-> m, from |-> n, msg |-> sent]
    BY <1>3
  <2> QED BY <2>1
<1>5. ASSUME NEW f \in send_rrep(n, rs, msg)
      PROVE  f.from = n /\ f.msg = sent
  BY <1>4
<1>6. ASSUME NEW f \in send_rrep(n, rs, msg), NEW g \in send_rrep(n, rs, msg)
      PROVE  f = g
  <2>1. f.to = g.to
    BY <1>2, <1>4
  <2> QED BY <1>4, <2>1
<1> QED BY <1>1, <1>5, <1>6

(* No step adds a request that was not asked for, to the air or to what is *)
(* held; and what has been asked stays asked.                              *)
LEMMA AskedGrows == [Next]_vars => asked \subseteq asked'
<1> SUFFICES ASSUME [Next]_vars PROVE asked \subseteq asked'
  OBVIOUS
<1>1. ASSUME NEW n \in Node, NEW d \in Node, Discover(n, d)
      PROVE  asked \subseteq asked'
  BY <1>1 DEF Discover, historyVars
<1>2. ASSUME NEW n \in Node, NEW f, RreqReceived(n, f)
      PROVE  asked' = asked
  BY <1>2 DEF RreqReceived, RreqDuplicate, RreqRejected, RreqAnswered,
              RreqForwarded, RreqExhausted, historyVars
<1>3. ASSUME NEW n \in Node, NEW f, RrepReceived(n, f)
      PROVE  asked' = asked
  BY <1>3 DEF RrepReceived, RrepRejected, RrepForwarded, RrepForUs, historyVars
<1>4. ASSUME NEW n \in Node, Relay(n) \/ Timeout(n) \/ Tick(n) \/ Close(n) \/ Open(n) \/ Reboot(n)
      PROVE  asked' = asked
  BY <1>4 DEF Relay, Timeout, Tick, Close, Open, Reboot, historyVars
<1>5. ASSUME NEW n \in Node, NEW d \in Node, DataReceived(n, d)
      PROVE  asked' = asked
  BY <1>5 DEF DataReceived, historyVars
<1>6. ASSUME NEW f, Lose(f) \/ Unheard(f)
      PROVE  asked' = asked
  BY <1>6 DEF Lose, Unheard, historyVars
<1>7. CASE UNCHANGED vars
  BY <1>7 DEF vars, historyVars
<1> QED BY <1>1, <1>2, <1>3, <1>4, <1>5, <1>6, <1>7 DEF Next

LEMMA FloodsAskedKept ==
  ASSUME IInv, FloodsAsked, [Next]_vars
  PROVE  FloodsAsked'
<1>1. /\ held \in [Node -> SUBSET FloodPacket]
      /\ asked \subseteq asked'
      /\ FloodsOK
  BY AskedGrows DEF IInv, FloodsOK
<1>2. ASSUME rreqs' \subseteq rreqs, \A m \in Node : held'[m] \subseteq held[m]
      PROVE  FloodsAsked'
  BY <1>1, <1>2 DEF FloodsAsked, Wanted
<1>3. ASSUME NEW n \in Node, NEW d \in Node, Discover(n, d)
      PROVE  FloodsAsked'
  <2> DEFINE msg == rreq_initial(n, d)
  <2>1. <<msg.originator, msg.destination>> \in asked'
    BY <1>3 DEF Discover, rreq_initial
  <2> HIDE DEF msg
  <2>2. rreqs' = rreqs \cup send_rreq(n, msg)
    BY <1>3 DEF Discover, msg
  <2>3. PICK packets \in MaybeFreed(held[n]) : held' = [held EXCEPT ![n] = packets]
    BY <1>3 DEF Discover
  <2>4. \A m \in Node : held'[m] \subseteq held[m]
    BY <1>1, <2>3 DEF MaybeFreed
  <2> QED BY <1>1, <2>1, <2>2, <2>4, BroadcastCarries DEF FloodsAsked, Wanted
<1>4. ASSUME NEW n \in Node, NEW f \in rreqs, RreqReceived(n, f)
      PROVE  FloodsAsked'
  <2>1. f.packet \in FloodPacket /\ f.packet.msg \in RreqMessage /\ Wanted(f.packet.msg)
    BY <1>1, RreqFieldsOK DEF FloodsAsked
  <2>2. ASSUME NEW waiting \in SUBSET held[n], NEW latest,
               Rebroadcast(n, f.packet, waiting, latest)
        PROVE  \A m \in Node : \A p \in held'[m] : Wanted(p.msg)'
    <3>1. \A m \in Node : \A p \in held'[m] : p.msg = f.packet.msg \/ p \in held[m]
      BY <1>1, <2>1, <2>2, HeldAfterRebroadcast
    <3>2. \A m \in Node : \A p \in held'[m] : Wanted(p.msg)
      BY <2>1, <3>1 DEF FloodsAsked
    <3> QED BY <1>1, <3>2 DEF Wanted
  <2>3. NotHeard(n, f.packet.id) \in SUBSET held[n]
    BY DEF NotHeard
  <2>4. CASE RreqDuplicate(n, f)
    BY <1>1, <1>2, <2>3, <2>4 DEF RreqDuplicate
  <2>5. CASE RreqRejected(n, f) \/ RreqAnswered(n, f) \/ RreqExhausted(n, f)
    <3>1. rreqs' \subseteq rreqs
      BY <2>5 DEF RreqRejected, RreqAnswered, RreqExhausted
    <3>2. Rebroadcast(n, f.packet, NotHeard(n, f.packet.id), last[n])
      BY <2>5 DEF RreqRejected, RreqAnswered, RreqExhausted
    <3>3. \A m \in Node : \A p \in held'[m] : Wanted(p.msg)'
      BY <2>2, <2>3, <3>2
    <3> QED BY <1>1, <3>1, <3>3 DEF FloodsAsked, Wanted
  <2>6. CASE RreqForwarded(n, f)
    <3> DEFINE msg == [f.packet.msg EXCEPT !.hop_count = @ + 1, !.hop_limit = @ - 1]
    <3>1. msg.originator = f.packet.msg.originator /\ msg.destination = f.packet.msg.destination
      BY <2>1 DEF RreqMessage
    <3>2. /\ rreqs' = (rreqs \ {f}) \cup send_rreq(n, msg)
          /\ \E packets \in MaybeFreed(NotHeard(n, f.packet.id)) :
               Rebroadcast(n, f.packet, packets, OwnId(n, msg))
      BY <2>6 DEF RreqForwarded
    <3> HIDE DEF msg
    <3>3. PICK packets \in MaybeFreed(NotHeard(n, f.packet.id)) :
            Rebroadcast(n, f.packet, packets, OwnId(n, msg))
      BY <3>2
    <3>4. packets \in SUBSET held[n]
      BY <2>3, <3>3 DEF MaybeFreed
    <3>5. \A m \in Node : \A p \in held'[m] : Wanted(p.msg)'
      BY <2>2, <3>3, <3>4
    <3>6. \A g \in rreqs' : Wanted(g.packet.msg)'
      BY <1>1, <2>1, <3>1, <3>2, BroadcastCarries DEF FloodsAsked, Wanted
    <3> QED BY <3>5, <3>6 DEF FloodsAsked
  <2> QED BY <1>4, <2>4, <2>5, <2>6 DEF RreqReceived
<1>5. ASSUME NEW n \in Node, Relay(n)
      PROVE  FloodsAsked'
  <2>1. \A m \in Node : held'[m] \subseteq held[m]
    BY <1>1, <1>5 DEF Relay
  <2>2. \A g \in rreqs' : g \in rreqs \/ \E p \in held[n] : g \in Broadcast(n, p)
    BY <1>5 DEF Relay
  <2>3. \A g \in rreqs' : Wanted(g.packet.msg)
    BY <2>2, BroadcastCarries DEF FloodsAsked
  <2> QED BY <1>1, <2>1, <2>3 DEF FloodsAsked, Wanted
<1>6. ASSUME NEW n \in Node, Close(n) \/ Reboot(n)
      PROVE  FloodsAsked'
  <2>1. \A m \in Node : held'[m] \subseteq held[m]
    BY <1>1, <1>6 DEF Close, Reboot
  <2> QED BY <1>2, <1>6, <2>1 DEF Close, Reboot, airVars
<1>7. ASSUME UNCHANGED held, rreqs' \subseteq rreqs
      PROVE  FloodsAsked'
  BY <1>2, <1>7
<1>8. ASSUME NEW n \in Node, Timeout(n) \/ Tick(n) \/ Open(n)
      PROVE  FloodsAsked'
  BY <1>7, <1>8 DEF Timeout, Tick, Open, floodVars, airVars
<1>9. ASSUME NEW n \in Node, NEW d \in Node, DataReceived(n, d)
      PROVE  FloodsAsked'
  BY <1>7, <1>9 DEF DataReceived, floodVars, airVars
<1>10. ASSUME NEW n \in Node, NEW f \in rreps, RrepReceived(n, f)
       PROVE  FloodsAsked'
  BY <1>7, <1>10 DEF RrepReceived, RrepRejected, RrepForwarded, RrepForUs, floodVars
<1>11. ASSUME NEW f \in rreqs \cup rreps, Lose(f) \/ Unheard(f)
       PROVE  FloodsAsked'
  BY <1>7, <1>11 DEF Lose, Unheard, floodVars
<1>12. CASE UNCHANGED vars
  BY <1>7, <1>12 DEF vars, floodVars, airVars
<1> QED BY <1>3, <1>4, <1>5, <1>6, <1>8, <1>9, <1>10, <1>11, <1>12 DEF Next

(* Where a reply comes from: a new one is the answer of the destination of *)
(* a request, or follows one that leaves the air in the same step.         *)
NewReply(f) ==
  /\ Answers(f.msg)
  /\ \/ f.from = f.msg.originator
     \/ \E g \in rreps \ rreps' : g.to = f.from /\ g.msg.seqno = f.msg.seqno

LEMMA RepliesComeFrom ==
  ASSUME IInv, FloodsAsked, RepliesAsked, [Next]_vars, NEW f \in rreps' \ rreps
  PROVE  NewReply(f)
<1>1. FloodsOK /\ RepliesOK /\ NodesOK
  BY DEF IInv
<1>2. ASSUME rreps' \subseteq rreps
      PROVE  FALSE
  BY <1>2
<1>3. ASSUME NEW n \in Node, NEW g \in rreqs, RreqReceived(n, g)
      PROVE  NewReply(f)
  <2> DEFINE msg == Answer(n, g.packet.msg)
  <2>1. CASE RreqAnswered(n, g)
    <3>1. msg \in RrepMessage
      BY <1>1, RreqFieldsOK, AnswerType
    <3>2. Answers(msg) /\ msg.originator = n
      BY <2>1 DEF FloodsAsked, Wanted, Answers, Answer, RreqAnswered
    <3> HIDE DEF msg
    <3>3. f \in send_rrep(n, route'[n], msg)
      BY <2>1 DEF RreqAnswered, msg
    <3> QED BY <3>1, <3>2, <3>3, ReplyCarries DEF NewReply, Answers
  <2>2. CASE ~RreqAnswered(n, g)
    BY <1>2, <1>3, <2>2 DEF RreqReceived, RreqDuplicate, RreqRejected, RreqForwarded, RreqExhausted
  <2> QED BY <2>1, <2>2
<1>4. ASSUME NEW n \in Node, NEW g \in rreps, RrepReceived(n, g)
      PROVE  NewReply(f)
  <2>1. CASE RrepForwarded(n, g)
    <3>1. g.msg \in RrepMessage /\ g.to = n /\ Answers(g.msg)
      BY <1>1, <2>1, RrepFieldsOK DEF RrepForwarded, Delivered, RepliesAsked
    <3>2. /\ rreps' = (rreps \ {g}) \cup send_rrep(n, route'[n], g.msg)
          /\ f \in send_rrep(n, route'[n], g.msg)
      BY <2>1 DEF RrepForwarded
    <3>3. g \notin rreps'
      BY <3>1, <3>2, ReplyCarries
    <3> QED BY <3>1, <3>2, <3>3, ReplyCarries DEF NewReply, Answers
  <2>2. CASE RrepRejected(n, g) \/ RrepForUs(n, g)
    BY <1>2, <2>2 DEF RrepRejected, RrepForUs
  <2> QED BY <1>4, <2>1, <2>2 DEF RrepReceived
<1>5. CASE UNCHANGED vars
  BY <1>2, <1>5 DEF vars, airVars
<1>6. ASSUME NEW n \in Node, NEW d \in Node, Discover(n, d) \/ DataReceived(n, d)
      PROVE  FALSE
  BY <1>2, <1>6 DEF Discover, DataReceived, airVars
<1>7. ASSUME NEW n \in Node,
             Relay(n) \/ Timeout(n) \/ Tick(n) \/ Close(n) \/ Open(n) \/ Reboot(n)
      PROVE  FALSE
  BY <1>2, <1>7 DEF Relay, Timeout, Tick, Close, Open, Reboot, airVars
<1>8. ASSUME NEW g \in rreqs \cup rreps, Lose(g) \/ Unheard(g)
      PROVE  FALSE
  BY <1>2, <1>8 DEF Lose, Unheard
<1> QED BY <1>3, <1>4, <1>5, <1>6, <1>7, <1>8 DEF Next

LEMMA AskedInvariant == Spec => [](IInv /\ FloodsAsked /\ RepliesAsked)
<1>1. Init => FloodsAsked /\ RepliesAsked
  BY DEF Init, FloodsAsked, RepliesAsked
<1>2. IInv /\ FloodsAsked /\ RepliesAsked /\ [Next]_vars => FloodsAsked' /\ RepliesAsked'
  <2> SUFFICES ASSUME IInv, FloodsAsked, RepliesAsked, [Next]_vars
               PROVE  FloodsAsked' /\ RepliesAsked'
    OBVIOUS
  <2>1. \A f \in rreps' \ rreps : Answers(f.msg)
    BY RepliesComeFrom DEF NewReply
  <2>2. \A f \in rreps' : Answers(f.msg)
    BY <2>1 DEF RepliesAsked
  <2> QED BY <2>2, FloodsAskedKept, AskedGrows DEF RepliesAsked, Answers
<1> QED BY <1>1, <1>2, Invariant, PTL DEF Spec

(* "No gratuitous RREP" in networks of any size and shape: every reply is  *)
(* one that somebody waits for or waited for, and is made by the node that *)
(* was sought or handed on once for each time it is received.              *)
THEOREM RepliesAreAskedFor == Spec => NoGratuitousReply
<1>1. ASSUME IInv, FloodsAsked, RepliesAsked, [Next]_vars
      PROVE  \A f \in rreps' \ rreps :
               /\ <<f.msg.destination, f.msg.originator>> \in asked
               /\ \/ f.from = f.msg.originator
                  \/ \E g \in rreps \ rreps' : g.to = f.from /\ g.msg.seqno = f.msg.seqno
  BY <1>1, RepliesComeFrom DEF NewReply, Answers
<1> QED BY <1>1, AskedInvariant, PTL DEF Spec, NoGratuitousReply

-----------------------------------------------------------------------------
(* Every frame in the air is heard by the node it is for.                  *)
OnLinks ==
  /\ \A f \in rreqs : f.to \in Link[f.from]
  /\ \A f \in rreps : f.to \in Link[f.from]

LEMMA BroadcastOnLinks ==
  ASSUME NEW n, NEW packet
  PROVE  \A f \in Broadcast(n, packet) : f.to \in Link[f.from]
BY DEF Broadcast

LEMMA ReplyOnLinks ==
  ASSUME NEW n, NEW rs, NEW msg
  PROVE  \A f \in send_rrep(n, rs, msg) : f.to \in Link[f.from]
<1> DEFINE to == IF HasRoute(rs, msg.destination)
                   THEN {NextHop(rs, msg.destination)} \cap Link[n] ELSE {}
<1>1. to \subseteq Link[n]
  OBVIOUS
<1>2. send_rrep(n, rs, msg) =
        {[to |-> m, from |-> n, msg |-> [msg EXCEPT !.hop_count = 0]] : m \in to}
  BY DEF send_rrep
<1> HIDE DEF to
<1> QED BY <1>1, <1>2

(* No step lets a frame out of its links, nor loses one into another.      *)
LEMMA OnLinksKept ==
  ASSUME OnLinks, [Next]_vars
  PROVE  OnLinks'
<1>1. ASSUME rreqs' \subseteq rreqs, rreps' \subseteq rreps
      PROVE  OnLinks'
  BY <1>1 DEF OnLinks
<1>2. ASSUME NEW n \in Node, NEW d \in Node, Discover(n, d)
      PROVE  OnLinks'
  BY <1>2, BroadcastOnLinks DEF Discover, send_rreq, OnLinks
<1>3. ASSUME NEW n \in Node, NEW f \in rreqs, RreqReceived(n, f)
      PROVE  OnLinks'
  <2>1. CASE RreqAnswered(n, f)
    BY <2>1, ReplyOnLinks DEF RreqAnswered, OnLinks
  <2>2. CASE RreqForwarded(n, f)
    BY <2>2, BroadcastOnLinks DEF RreqForwarded, send_rreq, OnLinks
  <2>3. CASE RreqDuplicate(n, f) \/ RreqRejected(n, f) \/ RreqExhausted(n, f)
    BY <1>1, <2>3 DEF RreqDuplicate, RreqRejected, RreqExhausted
  <2> QED BY <1>3, <2>1, <2>2, <2>3 DEF RreqReceived
<1>4. ASSUME NEW n \in Node, NEW f \in rreps, RrepReceived(n, f)
      PROVE  OnLinks'
  <2>1. CASE RrepForwarded(n, f)
    BY <2>1, ReplyOnLinks DEF RrepForwarded, OnLinks
  <2>2. CASE RrepRejected(n, f) \/ RrepForUs(n, f)
    BY <1>1, <2>2 DEF RrepRejected, RrepForUs
  <2> QED BY <1>4, <2>1, <2>2 DEF RrepReceived
<1>5. ASSUME NEW n \in Node, Relay(n)
      PROVE  OnLinks'
  BY <1>5, BroadcastOnLinks DEF Relay, OnLinks
<1>6. ASSUME UNCHANGED airVars
      PROVE  OnLinks'
  BY <1>1, <1>6 DEF airVars
<1>7. ASSUME NEW n \in Node, Timeout(n) \/ Tick(n) \/ Close(n) \/ Open(n) \/ Reboot(n)
      PROVE  OnLinks'
  BY <1>6, <1>7 DEF Timeout, Tick, Close, Open, Reboot, floodVars
<1>8. ASSUME NEW n \in Node, NEW d \in Node, DataReceived(n, d)
      PROVE  OnLinks'
  BY <1>6, <1>8 DEF DataReceived
<1>9. ASSUME NEW f \in rreqs \cup rreps, Lose(f) \/ Unheard(f)
      PROVE  OnLinks'
  BY <1>1, <1>9 DEF Lose, Unheard
<1>10. CASE UNCHANGED vars
  BY <1>6, <1>10 DEF vars
<1> QED BY <1>2, <1>3, <1>4, <1>5, <1>7, <1>8, <1>9, <1>10 DEF Next

LEMMA LinksInvariant == Spec => [](IInv /\ OnLinks)
<1>1. Init => OnLinks
  BY DEF Init, OnLinks
<1>2. OnLinks /\ [Next]_vars => OnLinks'
  BY OnLinksKept
<1> QED BY <1>1, <1>2, Invariant, PTL DEF Spec
=============================================================================

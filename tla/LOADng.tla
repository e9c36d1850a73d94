------------------------------- MODULE LOADng -------------------------------
(***************************************************************************)
(* Route discovery between the nodes of a network: route-discovery.c over  *)
(* the Routing Set of route.c.  A node floods a Route Request (RREQ), every *)
(* node that accepts it learns a route back to its originator, and the     *)
(* destination answers with a Route Reply (RREP) that travels back hop by  *)
(* hop.  Contiki runs every handler and timer callback of a node to        *)
(* completion, so each is one action.                                      *)
(*                                                                         *)
(* The Rime layers below are external and modelled from their use:         *)
(* netflood suppresses duplicates by the last header it sent or relayed    *)
(* and re-broadcasts, unchanged and after a delay, every packet for which  *)
(* the handler returns a non-zero value; one packet at a time waits for    *)
(* its delay in ipolite, which cancels it when a neighbour sends the same. *)
(* The medium loses and reorders frames; it does not invent them.          *)
(***************************************************************************)
EXTENDS RouteTable, SeqNum

CONSTANTS
  Node,           \* the nodes, by their addresses
  NoNode,         \* the null address 0.0, the address of no node
  Link,           \* Link[n]: the nodes that hear n
  Demand,         \* <<n, d>>: the application on n sends to d
  Blacklisted,    \* Blacklisted[n]: neighbours in the blacklist of n
  MAX_HOP_COUNT,  \* (255)
  MAX_HOP_LIMIT,  \* (255)
  HOPS_MAX,       \* netflood relays a packet this many times (16)
  Budget          \* how many discoveries, ticks, losses and restarts happen,
                  \* and how many ticks one flood may last

ASSUME NetworkAssumption ==
  /\ IsFiniteSet(Node)
  /\ NoNode \notin Node
  /\ Link \in [Node -> SUBSET Node]
  /\ Demand \subseteq Node \X Node
  /\ Blacklisted \in [Node -> SUBSET Node]
  /\ MAX_HOP_COUNT \in 1 .. UINT8_MAX
  /\ MAX_HOP_LIMIT \in Nat
  /\ HOPS_MAX \in Nat
  /\ Budget \in [{"discover", "tick", "airtick", "loss", "restart"} -> Nat]

VARIABLES
  (* route.c and route-discovery.c, per node *)
  route,         \* the Routing Set
  rreq_seqno,    \* the number of the next RREQ
  rrep_seqno,    \* the number of the next RREP
  rrep_pending,  \* a discovery of this node waits for its RREP
  timer,         \* the ctimer of that discovery is running
  open,          \* the connections are open
  (* netflood and ipolite, per node *)
  last,          \* header of the last packet sent or relayed
  held,          \* the packet, if any, waiting for its delayed re-broadcast
  (* the medium *)
  rreqs,         \* flood frames in flight, one per receiver
  rreps,         \* unicast frames in flight
  (* history *)
  sought,        \* the destination of the node's latest discovery
  asked,         \* <<n, d>>: n has flooded a request for d
  spent          \* what has been used of Budget

protocolVars == <<route, rreq_seqno, rrep_seqno, rrep_pending, timer, open>>
floodVars == <<last, held>>
airVars == <<rreqs, rreps>>
historyVars == <<sought, asked, spent>>
vars == <<protocolVars, floodVars, airVars, historyVars>>

-----------------------------------------------------------------------------
HopCount == 0 .. MAX_HOP_COUNT

RreqMessage ==
  [seqno : SeqNumber, hop_count : HopCount, hop_limit : 0 .. MAX_HOP_LIMIT,
   destination : Node, originator : Node]

RrepMessage ==
  [seqno : SeqNumber, hop_count : HopCount, destination : Node, originator : Node]

FloodId == [originator : Node \cup {NoNode}, originator_seqno : SeqNumber]

FloodPacket == [id : FloodId, hops : 0 .. HOPS_MAX, msg : RreqMessage]

RreqFrame == [to : Node, from : Node, packet : FloodPacket]
RrepFrame == [to : Node, from : Node, msg : RrepMessage]

TypeOK ==
  /\ route \in [Node -> Seq(RouteTuple(Node, SeqNumber))]
  /\ \A n \in Node : Len(route[n]) <= NUM_RS_ENTRIES
  /\ rreq_seqno \in [Node -> SeqNumber]
  /\ rrep_seqno \in [Node -> SeqNumber]
  /\ rrep_pending \in [Node -> BOOLEAN]
  /\ timer \in [Node -> BOOLEAN]
  /\ open \in [Node -> BOOLEAN]
  /\ last \in [Node -> FloodId]
  /\ held \in [Node -> SUBSET FloodPacket]
  /\ rreqs \subseteq RreqFrame
  /\ rreps \subseteq RrepFrame
  /\ sought \in [Node -> Node \cup {NoNode}]
  /\ asked \subseteq Node \X Node
  /\ spent \in [DOMAIN Budget -> Nat]
  /\ \A k \in DOMAIN Budget : spent[k] <= Budget[k]

NoFlood == [originator |-> NoNode, originator_seqno |-> 0]

Init ==
  /\ route = [n \in Node |-> <<>>]
  /\ rreq_seqno = [n \in Node |-> 0]
  /\ rrep_seqno = [n \in Node |-> 0]
  /\ rrep_pending = [n \in Node |-> FALSE]
  /\ timer = [n \in Node |-> FALSE]
  /\ open = [n \in Node |-> TRUE]
  /\ last = [n \in Node |-> NoFlood]
  /\ held = [n \in Node |-> {}]
  /\ rreqs = {}
  /\ rreps = {}
  /\ sought = [n \in Node |-> NoNode]
  /\ asked = {}
  /\ spent = [k \in DOMAIN Budget |-> 0]

Spend(k) == /\ spent[k] < Budget[k]
            /\ spent' = [spent EXCEPT ![k] = @ + 1]

(* Nothing is in the air or waiting to be relayed.                         *)
Quiet == rreqs = {} /\ rreps = {} /\ \A n \in Node : held[n] = {}

-----------------------------------------------------------------------------
(* valid_check().                                                          *)
Stale(rs, msg) ==
  /\ HasRoute(rs, msg.originator)
  /\ MAXA(rs[route_lookup(rs, msg.originator)].R_seq_num, msg.seqno)

(* Mutant: a request that comes back to its originator is not recognised.  *)
ValidRreqAlsoOwn(n, from, msg) ==
  ~Stale(route[n], msg) /\ from \notin Blacklisted[n]

ValidRreq(n, from, msg) ==
  /\ msg.originator # n
  /\ ~Stale(route[n], msg)
  /\ from \notin Blacklisted[n]

ValidRrep(n, msg) ==
  /\ msg.originator # n
  /\ ~Stale(route[n], msg)

(* Mutants: the lookup is of the wrong address; there is no lookup.        *)
LearnByDestination(rs, msg, from) ==
  IF HasRoute(rs, msg.destination) THEN rs
  ELSE route_add(rs, msg.originator, from,
                 (msg.hop_count + 1) % (UINT8_MAX + 1), msg.seqno)

LearnAlways(rs, msg, from) ==
  route_add(rs, msg.originator, from,
            (msg.hop_count + 1) % (UINT8_MAX + 1), msg.seqno)

(* Both handlers add a route to the originator unless one is known.        *)
Learn(rs, msg, from) ==
  IF HasRoute(rs, msg.originator) THEN rs
  ELSE route_add(rs, msg.originator, from,
                 (msg.hop_count + 1) % (UINT8_MAX + 1), msg.seqno)

(* send_rrep(): one frame to the next hop, or none without a route.  The   *)
(* hop count starts again at every hop.                                    *)
send_rrep(n, rs, msg) ==
  {[to |-> m, from |-> n, msg |-> [msg EXCEPT !.hop_count = 0]] :
     m \in IF HasRoute(rs, msg.destination)
             THEN {NextHop(rs, msg.destination)} \cap Link[n] ELSE {}}

-----------------------------------------------------------------------------
(* netflood.                                                               *)
Broadcast(n, packet) == {[to |-> m, from |-> n, packet |-> packet] : m \in Link[n]}

(* netflood_send(): the node becomes the originator of the flood, numbered *)
(* by the RREQ it carries.                                                 *)
OwnId(n, msg) == [originator |-> n, originator_seqno |-> msg.seqno]

send_rreq(n, msg) ==
  Broadcast(n, [id |-> OwnId(n, msg), hops |-> 0, msg |-> msg])

Duplicate(n, id) ==
  /\ last[n].originator = id.originator
  /\ id.originator_seqno <= last[n].originator_seqno

(* ipolite gives up the waiting packet when it hears one with its header.  *)
NotHeard(n, id) == {p \in held[n] : p.id # id}

(* A send without delay frees the waiting buffer but leaves the pointer    *)
(* to it: the delayed send may or may not find the packet still there.     *)
MaybeFreed(packets) == {packets, {}}

(* After the handler: the packet is relayed as it came, unless it has been *)
(* relayed often enough.  Mutant: the relays are not counted.              *)
RebroadcastUncounted(n, packet, waiting, latest) ==
  \/ /\ packet.hops < HOPS_MAX
     /\ held' = [held EXCEPT ![n] = {packet}]
     /\ last' = [last EXCEPT ![n] = packet.id]
  \/ /\ packet.hops = HOPS_MAX
     /\ held' = [held EXCEPT ![n] = waiting]
     /\ last' = [last EXCEPT ![n] = latest]

Rebroadcast(n, packet, waiting, latest) ==
  \/ /\ packet.hops < HOPS_MAX
     /\ held' = [held EXCEPT ![n] = {[packet EXCEPT !.hops = @ + 1]}]
     /\ last' = [last EXCEPT ![n] = packet.id]
  \/ /\ packet.hops = HOPS_MAX
     /\ held' = [held EXCEPT ![n] = waiting]
     /\ last' = [last EXCEPT ![n] = latest]

-----------------------------------------------------------------------------
(* route_discovery_discover().  Both users of the module call it only      *)
(* without a route to d.  With a discovery pending the call changes        *)
(* nothing.                                                                *)
rreq_initial(n, d) ==
  [seqno |-> rreq_seqno[n], hop_count |-> 0, hop_limit |-> MAX_HOP_LIMIT,
   destination |-> d, originator |-> n]

Discover(n, d) ==
  LET msg == rreq_initial(n, d)
  IN  /\ <<n, d>> \in Demand
      /\ open[n]
      /\ ~HasRoute(route[n], d)
      /\ ~rrep_pending[n]
      /\ spent["discover"] < Budget["discover"]
      /\ spent' = [spent EXCEPT !["discover"] = @ + 1,
                                !["airtick"] = IF Quiet THEN 0 ELSE @]
      /\ rreq_seqno' = [rreq_seqno EXCEPT ![n] = NextSeqno(@)]
      /\ timer' = [timer EXCEPT ![n] = TRUE]
      /\ rrep_pending' = [rrep_pending EXCEPT ![n] = TRUE]
      /\ rreqs' = rreqs \cup send_rreq(n, msg)
      /\ last' = [last EXCEPT ![n] = OwnId(n, msg)]
      /\ \E packets \in MaybeFreed(held[n]) : held' = [held EXCEPT ![n] = packets]
      /\ sought' = [sought EXCEPT ![n] = d]
      /\ asked' = asked \cup {<<n, d>>}
      /\ UNCHANGED <<route, rrep_seqno, open, rreps>>

(* A flood frame reaches an open connection.                               *)
Arrives(n, f) == f \in rreqs /\ f.to = n /\ open[n]

RreqDuplicate(n, f) ==
  /\ Arrives(n, f)
  /\ Duplicate(n, f.packet.id)
  /\ rreqs' = rreqs \ {f}
  /\ held' = [held EXCEPT ![n] = NotHeard(n, f.packet.id)]
  /\ UNCHANGED <<protocolVars, last, rreps, historyVars>>

(* rreq_msg_received(), by its return statements.  All of them are         *)
(* non-zero, so every packet that reaches the handler is re-broadcast.     *)
RreqRejected(n, f) ==
  /\ Arrives(n, f)
  /\ ~Duplicate(n, f.packet.id)
  /\ ~ValidRreq(n, f.from, f.packet.msg)
  /\ rreqs' = rreqs \ {f}
  /\ Rebroadcast(n, f.packet, NotHeard(n, f.packet.id), last[n])
  /\ UNCHANGED <<protocolVars, rreps, historyVars>>

Accepted(n, f) ==
  /\ Arrives(n, f)
  /\ ~Duplicate(n, f.packet.id)
  /\ ValidRreq(n, f.from, f.packet.msg)
  /\ route' = [route EXCEPT ![n] = Learn(@, f.packet.msg, f.from)]

(* Mutant: the addresses of the request are not swapped.                   *)
AnswerUnswapped(n, msg) ==
  [seqno |-> rrep_seqno[n], hop_count |-> 0,
   destination |-> msg.destination, originator |-> msg.originator]

Answer(n, msg) ==
  [seqno |-> rrep_seqno[n], hop_count |-> 0,
   destination |-> msg.originator, originator |-> msg.destination]

(* Mutant: a node that has a route to the destination replies for it.      *)
RreqAnsweredOnBehalf(n, f) ==
  /\ Accepted(n, f)
  /\ f.packet.msg.destination = n \/ HasRoute(route[n], f.packet.msg.destination)
  /\ rrep_seqno' = [rrep_seqno EXCEPT ![n] = NextSeqno(@)]
  /\ rreps' = rreps \cup send_rrep(n, route'[n], Answer(n, f.packet.msg))
  /\ rreqs' = rreqs \ {f}
  /\ Rebroadcast(n, f.packet, NotHeard(n, f.packet.id), last[n])
  /\ UNCHANGED <<rreq_seqno, rrep_pending, timer, open, historyVars>>

RreqAnswered(n, f) ==
  /\ Accepted(n, f)
  /\ f.packet.msg.destination = n
  /\ rrep_seqno' = [rrep_seqno EXCEPT ![n] = NextSeqno(@)]
  /\ rreps' = rreps \cup send_rrep(n, route'[n], Answer(n, f.packet.msg))
  /\ rreqs' = rreqs \ {f}
  /\ Rebroadcast(n, f.packet, NotHeard(n, f.packet.id), last[n])
  /\ UNCHANGED <<rreq_seqno, rrep_pending, timer, open, historyVars>>

(* Mutant: the hop limit is not looked at.                                 *)
ForwardableUnlimited(msg) == msg.hop_count < MAX_HOP_COUNT

Forwardable(msg) == msg.hop_count < MAX_HOP_COUNT /\ msg.hop_limit > 0

(* Mutant: the request goes on as it came.                                 *)
RreqForwardedUnchanged(n, f) ==
  LET msg == f.packet.msg
  IN  /\ Accepted(n, f)
      /\ f.packet.msg.destination # n
      /\ Forwardable(f.packet.msg)
      /\ rreqs' = (rreqs \ {f}) \cup send_rreq(n, msg)
      /\ \E packets \in MaybeFreed(NotHeard(n, f.packet.id)) :
           Rebroadcast(n, f.packet, packets, OwnId(n, msg))
      /\ UNCHANGED <<rreq_seqno, rrep_seqno, rrep_pending, timer, open, rreps, historyVars>>

RreqForwarded(n, f) ==
  LET msg == [f.packet.msg EXCEPT !.hop_count = @ + 1, !.hop_limit = @ - 1]
  IN  /\ Accepted(n, f)
      /\ f.packet.msg.destination # n
      /\ Forwardable(f.packet.msg)
      /\ rreqs' = (rreqs \ {f}) \cup send_rreq(n, msg)
      /\ \E packets \in MaybeFreed(NotHeard(n, f.packet.id)) :
           Rebroadcast(n, f.packet, packets, OwnId(n, msg))
      /\ UNCHANGED <<rreq_seqno, rrep_seqno, rrep_pending, timer, open, rreps, historyVars>>

RreqExhausted(n, f) ==
  /\ Accepted(n, f)
  /\ f.packet.msg.destination # n
  /\ ~Forwardable(f.packet.msg)
  /\ rreqs' = rreqs \ {f}
  /\ Rebroadcast(n, f.packet, NotHeard(n, f.packet.id), last[n])
  /\ UNCHANGED <<rreq_seqno, rrep_seqno, rrep_pending, timer, open, rreps, historyVars>>

(* The delayed re-broadcast of ipolite.                                    *)
Relay(n) ==
  /\ held[n] # {}
  /\ held' = [held EXCEPT ![n] = {}]
  /\ rreqs' = rreqs \cup UNION {Broadcast(n, p) : p \in held[n]}
  /\ UNCHANGED <<protocolVars, last, rreps, historyVars>>

(* rrep_msg_received().                                                    *)
Delivered(n, f) == f \in rreps /\ f.to = n /\ open[n]

RrepRejected(n, f) ==
  /\ Delivered(n, f)
  /\ ~ValidRrep(n, f.msg)
  /\ rreps' = rreps \ {f}
  /\ UNCHANGED <<protocolVars, floodVars, rreqs, historyVars>>

RrepForwarded(n, f) ==
  /\ Delivered(n, f)
  /\ ValidRrep(n, f.msg)
  /\ f.msg.destination # n
  /\ route' = [route EXCEPT ![n] = Learn(@, f.msg, f.from)]
  /\ rreps' = (rreps \ {f}) \cup send_rrep(n, route'[n], f.msg)
  /\ UNCHANGED <<rreq_seqno, rrep_seqno, rrep_pending, timer, open,
                 floodVars, rreqs, historyVars>>

RrepForUs(n, f) ==
  /\ Delivered(n, f)
  /\ ValidRrep(n, f.msg)
  /\ f.msg.destination = n
  /\ route' = [route EXCEPT ![n] = Learn(@, f.msg, f.from)]
  /\ rreps' = rreps \ {f}
  /\ rrep_pending' = [rrep_pending EXCEPT ![n] = FALSE]
  /\ timer' = [timer EXCEPT ![n] = FALSE]
  /\ UNCHANGED <<rreq_seqno, rrep_seqno, open, floodVars, rreqs, historyVars>>

(* Mutant: the timeout does not release the pending flag.                  *)
TimeoutForgets(n) ==
  /\ timer[n]
  /\ timer' = [timer EXCEPT ![n] = FALSE]
  /\ UNCHANGED <<route, rreq_seqno, rrep_seqno, rrep_pending, open,
                 floodVars, airVars, historyVars>>

(* timeout_handler().                                                      *)
Timeout(n) ==
  /\ timer[n]
  /\ timer' = [timer EXCEPT ![n] = FALSE]
  /\ rrep_pending' = [rrep_pending EXCEPT ![n] = FALSE]
  /\ UNCHANGED <<route, rreq_seqno, rrep_seqno, open, floodVars, airVars, historyVars>>

(* periodic() of route.c, once a second.  A flood can last for some ticks, *)
(* its relays wait up to two seconds each, but not for max_route_time.     *)
Tick(n) ==
  /\ spent["tick"] < Budget["tick"]
  /\ Quiet \/ spent["airtick"] < Budget["airtick"]
  /\ spent' = [spent EXCEPT !["tick"] = @ + 1,
                            !["airtick"] = IF Quiet THEN @ ELSE @ + 1]
  /\ route' = [route EXCEPT ![n] = AgeRoutes(@)]
  /\ UNCHANGED <<rreq_seqno, rrep_seqno, rrep_pending, timer, open,
                 floodVars, airVars, sought, asked>>

(* data_packet_received() of mesh.c: a packet that d sent has reached n,   *)
(* which refreshes its route back to d.  MeshNetwork says when.            *)
DataReceived(n, d) ==
  /\ open[n]
  /\ route' = [route EXCEPT ![n] = route_refresh(@, route_lookup(@, d))]
  /\ UNCHANGED <<rreq_seqno, rrep_seqno, rrep_pending, timer, open,
                 floodVars, airVars, historyVars>>

-----------------------------------------------------------------------------
(* mesh_close(): route_discovery_close() stops the timer and closes both   *)
(* connections; the static variables keep their values.                    *)
Close(n) ==
  /\ open[n]
  /\ Spend("restart")
  /\ open' = [open EXCEPT ![n] = FALSE]
  /\ timer' = [timer EXCEPT ![n] = FALSE]
  /\ held' = [held EXCEPT ![n] = {}]
  /\ UNCHANGED <<route, rreq_seqno, rrep_seqno, rrep_pending, last,
                 airVars, sought, asked>>

(* mesh_open(): route_init() and route_discovery_open().                   *)
Open(n) ==
  /\ ~open[n]
  /\ open' = [open EXCEPT ![n] = TRUE]
  /\ route' = [route EXCEPT ![n] = <<>>]
  /\ UNCHANGED <<rreq_seqno, rrep_seqno, rrep_pending, timer,
                 floodVars, airVars, historyVars>>

(* A node loses power and boots: nothing is persistent.                    *)
Reboot(n) ==
  /\ Spend("restart")
  /\ route' = [route EXCEPT ![n] = <<>>]
  /\ rreq_seqno' = [rreq_seqno EXCEPT ![n] = 0]
  /\ rrep_seqno' = [rrep_seqno EXCEPT ![n] = 0]
  /\ rrep_pending' = [rrep_pending EXCEPT ![n] = FALSE]
  /\ timer' = [timer EXCEPT ![n] = FALSE]
  /\ open' = [open EXCEPT ![n] = TRUE]
  /\ last' = [last EXCEPT ![n] = NoFlood]
  /\ held' = [held EXCEPT ![n] = {}]
  /\ UNCHANGED <<airVars, sought, asked>>

(* A frame is lost in the air, or reaches a node that is not listening.    *)
Lose(f) ==
  /\ f \in rreqs \cup rreps
  /\ Spend("loss")
  /\ rreqs' = rreqs \ {f}
  /\ rreps' = rreps \ {f}
  /\ UNCHANGED <<protocolVars, floodVars, sought, asked>>

Unheard(f) ==
  /\ f \in rreqs \cup rreps
  /\ ~open[f.to]
  /\ rreqs' = rreqs \ {f}
  /\ rreps' = rreps \ {f}
  /\ UNCHANGED <<protocolVars, floodVars, historyVars>>

-----------------------------------------------------------------------------
RreqReceived(n, f) ==
  \/ RreqDuplicate(n, f)
  \/ RreqRejected(n, f)
  \/ RreqAnswered(n, f)
  \/ RreqForwarded(n, f)
  \/ RreqExhausted(n, f)

RrepReceived(n, f) ==
  \/ RrepRejected(n, f)
  \/ RrepForwarded(n, f)
  \/ RrepForUs(n, f)

Next ==
  \/ \E n, d \in Node : Discover(n, d)
  \/ \E n \in Node, f \in rreqs : RreqReceived(n, f)
  \/ \E n \in Node, f \in rreps : RrepReceived(n, f)
  \/ \E n \in Node : Relay(n) \/ Timeout(n) \/ Tick(n)
  \/ \E n, d \in Node : DataReceived(n, d)
  \/ \E n \in Node : Close(n) \/ Open(n) \/ Reboot(n)
  \/ \E f \in rreqs \cup rreps : Lose(f) \/ Unheard(f)

Spec == Init /\ [][Next]_vars
=============================================================================

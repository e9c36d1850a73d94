---------------------------- MODULE MeshNetwork ----------------------------
(***************************************************************************)
(* mesh.c over route discovery: the data packets of a network.  A packet   *)
(* for which a node has no route waits in queued_data, which holds one,    *)
(* while route-discovery.c looks for its destination.  The callbacks of    *)
(* LOADng take their whole effect here, together with what found_route and *)
(* route_timed_out do to the packet.                                       *)
(*                                                                         *)
(* multihop is external: it asks data_packet_forward for a next hop, both  *)
(* where a packet is sent and where it arrives, and hands the packet to    *)
(* unicast when it gets one.                                               *)
(***************************************************************************)
EXTENDS LOADngProperties

CONSTANTS
  Traffic,   \* <<n, d>>: the application on n sends packets to d
  Sends,     \* how many packets the applications send
  NoPacket

ASSUME TrafficAssumption ==
  /\ Traffic \subseteq Demand
  /\ Sends \in Nat

VARIABLES
  queued,   \* queued_data and queued_data_dest of each node
  data,     \* data frames in flight
  handed,   \* history: the packets given to mesh_send
  fate      \* history: how packets have ended

meshVars == <<queued, data, handed, fate>>

Packet == [source : Node, dest : Node, no : 1 .. Sends]
DataFrame == [to : Node, from : Node, packet : Packet]
Ends == {"delivered", "timedout", "displaced", "unbuffered", "lost"}

ASSUME NoPacketAssumption == NoPacket \notin Packet

MeshTypeOK ==
  /\ queued \in [Node -> Packet \cup {NoPacket}]
  /\ data \subseteq DataFrame
  /\ handed \subseteq Packet
  /\ fate \subseteq Packet \X Ends

MeshInit ==
  /\ Init
  /\ queued = [n \in Node |-> NoPacket]
  /\ data = {}
  /\ handed = {}
  /\ fate = {}

-----------------------------------------------------------------------------
(* mesh_ready().                                                           *)
Ready(n) == queued[n] = NoPacket

unicast_send(n, nexthop, packet) == {[to |-> nexthop, from |-> n, packet |-> packet]}

(* A route may lead over a link that works in the other direction only.    *)
InRange(f) == f.to \in Link[f.from]

EndsAs(packet, end) == fate' = fate \cup {<<packet, end>>}

(* The one that waits makes room; for the new one there may be no buffer.  *)
Replace(n, packet) ==
  LET displaced == IF Ready(n) THEN {} ELSE {<<queued[n], "displaced">>}
  IN  \/ /\ queued' = [queued EXCEPT ![n] = packet]
         /\ fate' = fate \cup displaced
      \/ /\ queued' = [queued EXCEPT ![n] = NoPacket]
         /\ fate' = fate \cup displaced \cup {<<packet, "unbuffered">>}

(* data_packet_forward(): the packet goes on to the next hop, or replaces  *)
(* the one that waits, whichever discovery that one was waiting for.       *)
Forward(n, packet, others) ==
  \/ /\ HasRoute(route[n], packet.dest)
     /\ data' = others \cup unicast_send(n, NextHop(route[n], packet.dest), packet)
     /\ UNCHANGED <<vars, queued, fate>>
  \/ /\ ~HasRoute(route[n], packet.dest)
     /\ data' = others
     /\ Replace(n, packet)
     /\ \/ Discover(n, packet.dest)
        \/ rrep_pending[n] /\ UNCHANGED vars

(* mesh_send().                                                            *)
Send(n, d) ==
  LET packet == [source |-> n, dest |-> d, no |-> Cardinality(handed) + 1]
  IN  /\ <<n, d>> \in Traffic
      /\ open[n]
      /\ Cardinality(handed) < Sends
      /\ handed' = handed \cup {packet}
      /\ Forward(n, packet, data)

(* data_packet_received().                                                 *)
Receive(n, f) ==
  /\ InRange(f) /\ f.to = n /\ f.packet.dest = n
  /\ DataReceived(n, f.packet.source)
  /\ data' = data \ {f}
  /\ EndsAs(f.packet, "delivered")
  /\ UNCHANGED <<queued, handed>>

PassOn(n, f) ==
  /\ InRange(f) /\ f.to = n /\ f.packet.dest # n
  /\ open[n]
  /\ Forward(n, f.packet, data \ {f})
  /\ UNCHANGED handed

(* found_route(), called from the handler of the reply that is for us.     *)
(* Mutants: the packet stays in the queue; the reply's address is not      *)
(* looked at.                                                              *)
FoundRouteKeeping(n, dest) ==
  LET packet == queued[n]
  IN  IF Ready(n) \/ packet.dest # dest THEN UNCHANGED meshVars
      ELSE /\ data' = data \cup unicast_send(n, NextHop(route'[n], dest), packet)
           /\ UNCHANGED <<queued, fate, handed>>

FoundAnyRoute(n, dest) ==
  IF Ready(n) THEN UNCHANGED meshVars
  ELSE /\ queued' = [queued EXCEPT ![n] = NoPacket]
       /\ data' = data \cup unicast_send(n, NextHop(route'[n], dest), queued[n])
       /\ UNCHANGED <<fate, handed>>

FoundRoute(n, dest) ==
  LET packet == queued[n]
  IN  IF Ready(n) \/ packet.dest # dest THEN UNCHANGED meshVars
      ELSE /\ queued' = [queued EXCEPT ![n] = NoPacket]
           /\ IF HasRoute(route'[n], dest)
                THEN /\ data' = data \cup unicast_send(n, NextHop(route'[n], dest), packet)
                     /\ UNCHANGED fate
                ELSE EndsAs(packet, "timedout") /\ UNCHANGED data
           /\ UNCHANGED handed

(* Mutant: the reply is taken without the callback.                        *)
MeshRrepUnreported(n, f) == RrepForUs(n, f) /\ UNCHANGED meshVars

MeshRrepForUs(n, f) == RrepForUs(n, f) /\ FoundRoute(n, f.msg.originator)

(* route_timed_out().  Mutant: the packet stays.                           *)
RouteTimedOutKeeping(n) == UNCHANGED meshVars

RouteTimedOut(n) ==
  /\ queued' = [queued EXCEPT ![n] = NoPacket]
  /\ IF Ready(n) THEN UNCHANGED fate ELSE EndsAs(queued[n], "timedout")
  /\ UNCHANGED <<data, handed>>

MeshTimeout(n) == Timeout(n) /\ RouteTimedOut(n)

(* The memory of the connection is not cleared when it is closed or        *)
(* opened, only when the node boots.                                       *)
MeshReboot(n) ==
  /\ Reboot(n)
  /\ queued' = [queued EXCEPT ![n] = NoPacket]
  /\ IF Ready(n) THEN UNCHANGED fate ELSE EndsAs(queued[n], "lost")
  /\ UNCHANGED <<data, handed>>

DataGone(f) ==
  /\ f \in data
  /\ data' = data \ {f}
  /\ EndsAs(f.packet, "lost")
  /\ UNCHANGED <<queued, handed>>

(* As many packets may be lost as frames of LOADng.                        *)
Lost == {p \in handed : <<p, "lost">> \in fate}

LoseData(f) ==
  /\ DataGone(f)
  /\ Cardinality(Lost) < Budget["loss"]
  /\ UNCHANGED vars

UnheardData(f) == DataGone(f) /\ ~(open[f.to] /\ InRange(f)) /\ UNCHANGED vars

-----------------------------------------------------------------------------
(* What leaves the packets alone.                                          *)
Beside ==
  \/ \E n \in Node, f \in rreqs : RreqReceived(n, f)
  \/ \E n \in Node, f \in rreps : RrepRejected(n, f) \/ RrepForwarded(n, f)
  \/ \E n \in Node : Relay(n) \/ Tick(n) \/ Close(n) \/ Open(n)
  \/ \E f \in rreqs \cup rreps : Lose(f) \/ Unheard(f)

MeshNext ==
  \/ \E n, d \in Node : Send(n, d)
  \/ \E n \in Node, f \in data : Receive(n, f) \/ PassOn(n, f)
  \/ \E f \in data : LoseData(f) \/ UnheardData(f)
  \/ \E n \in Node, f \in rreps : MeshRrepForUs(n, f)
  \/ \E n \in Node : MeshTimeout(n) \/ MeshReboot(n)
  \/ Beside /\ UNCHANGED meshVars

allVars == <<vars, meshVars>>

MeshSpec == MeshInit /\ [][MeshNext]_allVars

(* What is due: a ctimer that is set expires, ipolite sends the packet it  *)
(* holds, and the radio delivers every frame or loses it.  A packet to     *)
(* send, a tick and a restart are nobody's duty.                           *)
MeshDue ==
  \/ \E n \in Node : MeshTimeout(n)
  \/ \E n \in Node : Relay(n) /\ UNCHANGED meshVars
  \/ \E n \in Node, f \in rreqs : RreqReceived(n, f) /\ UNCHANGED meshVars
  \/ \E n \in Node, f \in rreps :
       \/ MeshRrepForUs(n, f)
       \/ (RrepRejected(n, f) \/ RrepForwarded(n, f)) /\ UNCHANGED meshVars
  \/ \E f \in rreqs \cup rreps : Unheard(f) /\ UNCHANGED meshVars
  \/ \E n \in Node, f \in data : Receive(n, f) \/ PassOn(n, f)
  \/ \E f \in data : UnheardData(f)

(* Something that is due happens.  Not everything: this is weaker than     *)
(* fairness to each timer and each frame.                                  *)
MeshFairness == WF_allVars(MeshDue)

MeshFairSpec == MeshSpec /\ MeshFairness

-----------------------------------------------------------------------------
(* A packet that was handed to mesh_send is in one place: it waits at one  *)
(* node, travels in one frame, or has ended in one way.  So nothing that   *)
(* found_route, the timeout or a forwarder does sends a packet twice or    *)
(* drops it without a word.                                                *)
InOnePlace ==
  \A p \in handed :
    Cardinality({n \in Node : queued[n] = p})
      + Cardinality({f \in data : f.packet = p})
      + Cardinality({e \in Ends : <<p, e>> \in fate}) = 1

(* In a network that loses nothing the first packet is not left behind:    *)
(* when the air is quiet and the discovery is over it has been delivered,  *)
(* unless there was no buffer for it or the timeout came before the reply, *)
(* and then the application has been told.                                 *)
FirstPacketSettled ==
  /\ Quiet /\ data = {} /\ \A n \in Node : ~rrep_pending[n]
  /\ RoutesKept /\ spent["loss"] = 0 /\ Lost = {} /\ Cardinality(handed) = 1
  => \A p \in handed : \E end \in {"delivered", "timedout", "unbuffered"} :
       <<p, end>> \in fate

Passable == \A f \in data : f.to = f.packet.dest \/ HasRoute(route[f.to], f.packet.dest)

(* While no route is given up, only the source of a packet looks for its   *)
(* destination: every node on the way has a route when the packet arrives. *)
DataCanGoOn == RoutesKept => Passable

(* A packet that waits while no timer runs is never reported as timed out: *)
(* only a late reply about its own destination still sends it, and only    *)
(* another packet or a reboot takes it out of the queue.                   *)
Stranded(n) == ~Ready(n) /\ ~timer[n]

(* There are three ways into this.  A reply about another destination ends *)
(* the discovery, either because the packet replaced the one it was for    *)
(* (mesh.c:101) or because the reply is late (route-discovery.c:419); the  *)
(* connection is closed under the packet, which stops the timer            *)
(* (route-discovery.c:482); or the packet comes after such a close, whose  *)
(* flag still keeps every discovery from starting.                         *)
StrandedForCause ==
  [][\A n \in Node :
       ~Stranded(n) /\ Stranded(n)' =>
         \/ \E f \in rreps : RrepForUs(n, f) /\ f.msg.originator # queued[n].dest
         \/ Close(n)
         \/ spent["restart"] > 0 /\ rrep_pending[n] /\ ~timer[n]]_allVars

(* Every packet handed to mesh_send comes to an end: it is delivered, lost *)
(* in the air, replaced by another, left without a buffer or reported as   *)
(* timed out - if every application sends to one destination, no node      *)
(* restarts, no packet is on its way to a node that has no route for it,   *)
(* which would start a discovery of its own and may strand another packet, *)
(* and next hops never form a loop, in which a packet goes round forever.  *)
PacketsEnd ==
  [](/\ spent["restart"] = 0 /\ LoopFree /\ Passable
     /\ \A p, q \in handed : p.source = q.source => p.dest = q.dest)
  => []<>(\A p \in handed : \E e \in Ends : <<p, e>> \in fate)
=============================================================================

---------------------------- MODULE UipOverMesh ----------------------------
(***************************************************************************)
(* uip-over-mesh.c on one node: IP packets over the routes of RouteService.*)
(* A packet is its receiver in the mesh; whether its address lies outside  *)
(* the network of uip_over_mesh_set_net is an input.  uIP is external: it  *)
(* hands packets to uip_over_mesh_send, also while it processes one that   *)
(* recv_data has given it.                                                 *)
(***************************************************************************)
EXTENDS RouteService

CONSTANTS
  Me,         \* rimeaddr_node_addr
  NoAddr      \* rimeaddr_null

ASSUME AddressAssumption ==
  /\ Neighbor \subseteq Addr
  /\ Me \notin Addr
  /\ NoAddr \notin Addr \cup {Me}

VARIABLES
  queued_packet,     \* a packet waits
  queued_receiver,
  gateway,
  is_gateway,        \* this node has announced itself
  gw_netif,          \* the gateway has a network behind it
  out                \* history: what the latest call sent

queueVars == <<queued_packet, queued_receiver>>
gatewayVars == <<gateway, is_gateway, gw_netif>>
uipVars == <<serviceVars, queueVars, gatewayVars, out>>

UipTypeOK ==
  /\ route_set \in Seq(RouteTuple(Addr \cup {Me}, Seqno \cup {0}))
  /\ Len(route_set) <= NUM_RS_ENTRIES
  /\ {rrep_pending, timer, queued_packet, is_gateway, gw_netif} \subseteq BOOLEAN
  /\ queued_receiver \in Addr \cup {NoAddr}
  /\ gateway \in Addr \cup {Me, NoAddr}
  /\ out \subseteq [to : Addr \cup {Me}, receiver : Addr \cup {Me}]

UipInit ==
  /\ ServiceInit
  /\ queued_packet = FALSE
  /\ queued_receiver = NoAddr
  /\ gateway = NoAddr
  /\ is_gateway = FALSE
  /\ gw_netif = FALSE
  /\ out = {}

-----------------------------------------------------------------------------
send_data(nexthop, receiver) == out' = {[to |-> nexthop, receiver |-> receiver]}

(* There may be no buffer for the packet; the discovery starts anyway.     *)
Queue(receiver) ==
  /\ queued_packet' \in BOOLEAN
  /\ queued_receiver' = receiver

(* uip_over_mesh_send() with the routes rs: by the next hop; into the      *)
(* queue; or, when the queue is taken, not at all.  route_decay is empty.  *)
(* Mutant: a discovery without a packet in the queue.                      *)
SendWithForgetting(rs, receiver) ==
  /\ ~HasRoute(rs, receiver)
  /\ Request
  /\ out' = {}
  /\ UNCHANGED queueVars

SendWith(rs, receiver) ==
  \/ /\ HasRoute(rs, receiver)
     /\ send_data(NextHop(rs, receiver), receiver)
     /\ UNCHANGED <<discoveryVars, queueVars>>
  \/ /\ ~HasRoute(rs, receiver)
     /\ \/ ~queued_packet /\ Queue(receiver) /\ Request
        \/ queued_packet /\ queued_receiver # receiver /\ Request /\ UNCHANGED queueVars
        \/ queued_packet /\ queued_receiver = receiver
             /\ UNCHANGED <<discoveryVars, queueVars>>
     /\ out' = {}

(* A packet for the outside goes to the interface behind the gateway, to   *)
(* the gateway, or nowhere.                                                *)
SendOutside(rs) ==
  \/ /\ gateway = Me
     /\ out' = IF gw_netif THEN {[to |-> Me, receiver |-> Me]} ELSE {}
     /\ UNCHANGED <<discoveryVars, queueVars>>
  \/ gateway = NoAddr /\ out' = {} /\ UNCHANGED <<discoveryVars, queueVars>>
  \/ gateway \notin {Me, NoAddr} /\ SendWith(rs, gateway)

Output(rs) == SendOutside(rs) \/ \E receiver \in Addr : SendWith(rs, receiver)

uip_over_mesh_send == Output(route_set) /\ UNCHANGED <<route_set, gatewayVars>>

(* recv_data().  route_add is given the integer 10 for a pointer to the    *)
(* distance: the cost is the byte at that address, any value.  source is   *)
(* the last two bytes of the address, inside the network or not.           *)
HeardFrom(source, from) ==
  IF HasRoute(route_set, source)
    THEN {route_refresh(route_set, route_lookup(route_set, source))}
    ELSE {route_add(route_set, source, from, cost, 0) : cost \in 0 .. UINT8_MAX}

(* A packet from outside refreshes the route to this node's own gateway.   *)
RefreshGateway(rs) == route_refresh(rs, route_lookup(rs, gateway))

recv_data(source, from, outside) ==
  \E heard \in HeardFrom(source, from) :
    LET rs == IF outside THEN RefreshGateway(heard) ELSE heard
    IN  /\ route_set' = rs
        /\ \/ Output(rs)
           \/ out' = {} /\ UNCHANGED <<discoveryVars, queueVars>>
        /\ UNCHANGED gatewayVars

(* new_route(), whatever destination the reply is about: the packet leaves *)
(* the queue, and is sent to its receiver, if there is a route to that.    *)
(* Mutant: the lookup comes before the route is added.                     *)
new_route_before(d) ==
  /\ Reply(d)
  /\ IF queued_packet /\ HasRoute(route_set, queued_receiver)
       THEN send_data(queued_receiver, queued_receiver) ELSE out' = {}
  /\ queued_packet' = FALSE
  /\ UNCHANGED <<queued_receiver, gatewayVars>>

new_route(d) ==
  /\ Reply(d)
  /\ IF queued_packet /\ HasRoute(route_set', queued_receiver)
       THEN send_data(queued_receiver, queued_receiver) ELSE out' = {}
  /\ queued_packet' = FALSE
  /\ UNCHANGED <<queued_receiver, gatewayVars>>

(* Mutant: the packet is kept.                                             *)
timedout_keeping ==
  TimedOut /\ out' = {} /\ UNCHANGED <<queueVars, gatewayVars>>

timedout ==
  /\ TimedOut
  /\ queued_packet' = FALSE
  /\ out' = {}
  /\ UNCHANGED <<queued_receiver, gatewayVars>>

-----------------------------------------------------------------------------
SetGateway(g) ==
  /\ gateway' = g
  /\ out' = {}
  /\ UNCHANGED <<serviceVars, queueVars, is_gateway, gw_netif>>

(* A program may name a gateway at any time, also on a node that has       *)
(* announced itself; what others announce such a node does not follow.     *)
uip_over_mesh_set_gateway(g) == SetGateway(g)

gateway_announce_recv(g) == ~is_gateway /\ SetGateway(g)

uip_over_mesh_make_announced_gateway ==
  /\ ~is_gateway
  /\ gateway' = Me
  /\ is_gateway' = TRUE
  /\ out' = {}
  /\ UNCHANGED <<serviceVars, queueVars, gw_netif>>

uip_over_mesh_set_gateway_netif ==
  /\ gw_netif' \in BOOLEAN
  /\ out' = {}
  /\ UNCHANGED <<serviceVars, queueVars, gateway, is_gateway>>

(* uip_over_mesh_init() after a loss of power.  route_set_lifetime is      *)
(* empty.                                                                  *)
uip_over_mesh_init ==
  /\ Boot
  /\ queued_packet' = FALSE
  /\ queued_receiver' = NoAddr
  /\ gateway' = NoAddr
  /\ is_gateway' = FALSE
  /\ gw_netif' = FALSE
  /\ out' = {}

(* The clock and the messages of others change the routes below.           *)
periodic ==
  /\ Age
  /\ out' = {}
  /\ UNCHANGED <<queueVars, gatewayVars>>

MessageOverheard(d) ==
  /\ Overhear(d)
  /\ out' = {}
  /\ UNCHANGED <<queueVars, gatewayVars>>

UipNext ==
  \/ uip_over_mesh_send
  \/ \E source \in Addr \cup {Me}, from \in Neighbor, outside \in BOOLEAN :
       recv_data(source, from, outside)
  \/ \E d \in Addr : new_route(d)
  \/ timedout
  \/ \E g \in Addr : gateway_announce_recv(g)
  \/ \E g \in Addr \cup {Me} : uip_over_mesh_set_gateway(g)
  \/ uip_over_mesh_make_announced_gateway
  \/ uip_over_mesh_set_gateway_netif
  \/ uip_over_mesh_init
  \/ periodic
  \/ \E d \in Addr : MessageOverheard(d)

(* The timer of a discovery expires.                                       *)
UipSpec == UipInit /\ [][UipNext]_uipVars /\ WF_uipVars(timedout)

-----------------------------------------------------------------------------
(* This user of route discovery keeps its queue and the pending flag in    *)
(* step: while a packet waits a discovery is pending, and its timer is     *)
(* running.  So a packet never waits in vain, and the second branch of     *)
(* uip_over_mesh_send, which asks for a route to another receiver while a  *)
(* packet waits, is always ignored.                                        *)
PendingWhileWaiting ==
  /\ queued_packet => rrep_pending
  /\ timer = rrep_pending

(* Every packet that waits leaves the queue.                               *)
QueueDrains == queued_packet ~> ~queued_packet

(* A packet that waited is dropped only when its discovery has timed out,  *)
(* when the node boots, or because a reply about another node, late or     *)
(* unasked for, has taken the place of the one it waits for; the reply it  *)
(* waits for drops it only if its cost is the infinite one.                *)
DroppedForCause ==
  [][queued_packet /\ ~queued_packet' /\ out' = {} =>
       \/ timedout
       \/ uip_over_mesh_init
       \/ \E d \in Addr \ {queued_receiver} : new_route(d)
       \/ /\ new_route(queued_receiver)
          /\ \E i \in DOMAIN route_set' :
               /\ route_set'[i].R_dest_addr = queued_receiver
               /\ route_set'[i].route_cost = UINT8_MAX]_uipVars

(* "We try to send the IP packet to the next hop route"                    *)
(* (uip-over-mesh.c:224): whatever leaves this node leaves to the next hop *)
(* of the route to its receiver, or through the interface of the gateway.  *)
LeavesByNextHop ==
  [][\A f \in out' :
       \/ f.receiver = Me
       \/ f.to = NextHop(route_set', f.receiver)]_uipVars
=============================================================================

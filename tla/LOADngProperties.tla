-------------------------- MODULE LOADngProperties --------------------------
(***************************************************************************)
(* What route discovery promises.  The properties that hold are first,     *)
(* then those the documents or comments of the project state and the code  *)
(* does not keep.                                                          *)
(***************************************************************************)
EXTENDS LOADng

(* The cost of every route is the number of its hops: not 255, which hides *)
(* it from route_lookup, and not 0, to which 256 hops wrap                 *)
(* (route-discovery.c:307).  A request that has come 254 hops or more      *)
(* leaves such a route behind, and MAX_HOP_LIMIT lets it come that far.    *)
CostsTrue ==
  \A n \in Node : \A i \in DOMAIN route[n] : route[n][i].route_cost \in 1 .. UINT8_MAX - 1

(* No route has been given up: no tick has aged a Routing Set, no restart  *)
(* has emptied one, no full pool had to evict, and no message has come so  *)
(* far that the route it taught cannot be found or has a false cost.  Nor  *)
(* is a neighbour blacklisted: a request that is rejected for that is      *)
(* relayed all the same, by a node that has not learned the route.         *)
RoutesKept ==
  /\ spent["tick"] = 0
  /\ spent["restart"] = 0
  /\ NUM_RS_ENTRIES >= Cardinality(Node)
  /\ CostsTrue
  /\ \A n \in Node : Blacklisted[n] = {}

Knows(n, d) == n = d \/ HasRoute(route[n], d)

-----------------------------------------------------------------------------
(* As long as no route is given up, every route is a path, whatever floods *)
(* and replies overlapped while it was built: the next hop is d or has a   *)
(* route to d in turn, and out of every set of nodes that have routes to d *)
(* one of them leads.                                                      *)
RoutesArePaths ==
  RoutesKept =>
    \A d \in Node :
      LET routed == {n \in Node : HasRoute(route[n], d)}
      IN  /\ \A n \in routed : Knows(NextHop(route[n], d), d)
          /\ \A some \in SUBSET (routed \ {d}) :
               some # {} => \E n \in some : NextHop(route[n], d) \notin some

(* A node never has two usable tuples for one destination, although        *)
(* route_add alone would let them in: both handlers add a route only       *)
(* after a lookup has failed (route-discovery.c:302, :385).                *)
OneTuplePerDestination ==
  \A n \in Node : \A i, j \in DOMAIN route[n] :
    /\ route[n][i].R_dest_addr = route[n][j].R_dest_addr
    /\ route[n][i].route_cost < UINT8_MAX
    /\ route[n][j].route_cost < UINT8_MAX
    => i = j

(* No node holds a route to itself: a request or reply that comes back to  *)
(* its originator teaches it nothing (valid_check).                        *)
NoRouteToSelf ==
  \A n \in Node : \A i \in DOMAIN route[n] : route[n][i].R_dest_addr # n

(* While no route is given up, a reply on its way can always be handed on: *)
(* the node it reaches is its destination or has a route to it, so         *)
(* send_rrep never ends at "no route entry".                               *)
ReplyCanReturn ==
  RoutesKept =>
    \A f \in rreps : Knows(f.to, f.msg.destination)

(* "No gratuitous RREP" (the report, page 2): every reply that enters the  *)
(* air was asked for by the node it is for, and is sent by the node that   *)
(* was sought or hands on one that its sender has just received.           *)
NoGratuitousReply ==
  [][\A f \in rreps' \ rreps :
       /\ <<f.msg.destination, f.msg.originator>> \in asked
       /\ \/ f.from = f.msg.originator
          \/ \E g \in rreps \ rreps' : g.to = f.from /\ g.msg.seqno = f.msg.seqno]_vars

(* A node that ignores new discoveries because one is pending has a timer  *)
(* running that will end it, as long as its connection was never closed.   *)
PendingHasTimer ==
  spent["restart"] = 0 => \A n \in Node : rrep_pending[n] => timer[n]

(* In a network that loses nothing, the first discovery finds its          *)
(* destination: when the air is quiet, the node that asked has a route,    *)
(* unless a copy of the request that has come too far has taught a node a  *)
(* false cost.  The destination must be in reach: FirstDiscoveryFinds of   *)
(* RoutePathProofs says of which networks it holds.                        *)
FirstDiscoverySucceeds ==
  Quiet /\ RoutesKept /\ spent["loss"] = 0 /\ spent["discover"] = 1 =>
    \A n \in Node : sought[n] # NoNode => HasRoute(route[n], sought[n])

(* Every discovery ends, with a reply or with its timeout.                 *)
DiscoveryEnds == \A n \in Node : rrep_pending[n] ~> ~rrep_pending[n]

(* Every flood dies out, in spite of every node relaying requests that it  *)
(* rejects and originating anew those it accepts.                          *)
FloodsEnd == <>[]Quiet

-----------------------------------------------------------------------------
(* Hop(n, d)[k] is where a packet from n to d is after k hops.             *)
Hop(n, d) ==
  LET hop[k \in Nat] ==
        IF k = 0 THEN n
        ELSE LET m == hop[k - 1]
             IN  IF m # d /\ HasRoute(route[m], d) THEN NextHop(route[m], d) ELSE m
  IN  hop

(* "Loop freedom is retained" (the report, page 2): the next hops towards  *)
(* d never lead back to a node they have left.                             *)
LoopFree ==
  \A n, d \in Node : \A k \in 2 .. Cardinality(Node) :
    Hop(n, d)[1] # n => Hop(n, d)[k] # n

(* "A sequence number, uniquely identifying each RREQ issued by a given    *)
(* LOADng router" (the report, page 5): the nodes a request reaches tell   *)
(* it from other requests, so that in a network that loses nothing every   *)
(* discovery succeeds, not only the first.                                 *)
EveryDiscoverySucceeds ==
  Quiet /\ RoutesKept /\ spent["loss"] = 0 =>
    \A n \in Node : sought[n] # NoNode => HasRoute(route[n], sought[n])
=============================================================================

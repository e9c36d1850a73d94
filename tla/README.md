# A verification development for LOADng on Contiki

The repository is an implementation of the LOADng routing protocol (a reactive,
AODV-like protocol for sensor networks) on the Rime stack of Contiki 2.7.  It
replaces four files of Contiki: `route.c` (the tables), `route-discovery.c`
(the protocol), `mesh.c` (multi-hop data) and `uip-over-mesh.c` (IP over it).
This directory models that code in TLA+, checks the models with TLC on small
networks and tables, and proves properties of them with TLAPS for tables and
networks of any size.

## The system

| component | code | state | operations |
|---|---|---|---|
| Routing Set | `route.c`, `route.h` | `route_set`: a list of tuples from a pool of 8; a tuple holds destination, next hop, cost, sequence number and age | `route_init`, `route_lookup`, `route_add`, `route_refresh`, `route_remove`, first loop of `periodic` |
| Blacklisted Neighbor Set | `route.c` | `blacklist_set`: a list from a pool of 16; an entry holds an address and the ticks left | `route_blacklist_lookup`, `route_blacklist_add`, `blacklist_remove`, second loop of `periodic` |
| Pending Acknowledgement Set | `route.c` | `pending_set`: a list from a pool of 8 | `route_pending_list_lookup`, `route_pending_add`, `pending_remove`, third loop of `periodic`; nothing calls them |
| Route discovery | `route-discovery.c` | `rreq_seqno`, `rrep_seqno`, `rrep_pending`, the ctimer of the connection, two open connections | `route_discovery_open`, `_close`, `_discover`, `rreq_msg_received`, `rrep_msg_received`, `timeout_handler` |
| Route errors, reply acknowledgements | `route-discovery.c` | none | `rerr_msg_process`, `send_rerr`, `send_rrep_ack`, `route_discovery_rerr`; never called or registered |
| Mesh | `mesh.c` | one queued packet and its destination | `mesh_open`, `mesh_close`, `mesh_send`, `data_packet_received`, `data_packet_forward`, `found_route`, `route_timed_out` |
| IP over mesh | `uip-over-mesh.c` | one queued packet and its receiver, the gateway | `uip_over_mesh_send`, `recv_data`, `new_route`, `timedout`, gateway announcements |
| Rime below (external) | `contiki-2.7.zip` | netflood: the last header sent or relayed; ipolite: one delayed packet | `netflood_send` and its duplicate test, delayed re-broadcast, unicast, ctimer, list, memb |

How they interact:

- The application or a forwarded packet makes `mesh.c` look up a route.  Without
  one the packet is queued and `route_discovery_discover` floods a Route Request
  (RREQ) through netflood.
- `rreq_msg_received` is a callback of netflood.  It checks the request
  (`valid_check`), adds a route back to its originator, and answers it with a
  Route Reply (RREP) if this node is the destination, or else originates the
  request anew in netflood with the hop count moved on.  Its return value tells
  netflood whether to relay the received packet as well; no return statement of
  the function returns 0.
- `rrep_msg_received` is a callback of unicast.  It adds a route to the sender
  of the reply and passes the reply to the next hop, or ends the pending
  discovery, which makes `mesh.c` send its packet (`found_route`).
- `uip-over-mesh.c` is the other user of route discovery, in place of `mesh.c`: it
  queues a packet, refuses a second one, and sends from the callbacks `new_route`
  and `timedout`.  Whatever it receives teaches or refreshes a route, and trickle
  tells it which node is the gateway.
- Two timers run beside this: `periodic` ages the three tables once a second, and the
  ctimer of a discovery ends it when no reply comes.
- All tables and flags are static variables of a node.  Contiki runs each
  callback to completion, so handlers of one node never interleave; messages,
  timers and other nodes come between any two of them.

What is hard here: copies of one request that arrive in any order with different
hop counts, by two mechanisms at once; floods named by the forwarder's address
and the originator's number; replies that race their timeouts; routes that
expire while requests which use them still travel; one place for waiting packets
of different destinations, and one pending flag for all of them; a list that is
changed by the loop that walks it; pools at their limit; `uint8_t` counters that wrap; static
state that outlives a close.  `PROJECT.json` lists these hazards at their lines.

What makes each part correct:

- *Routing Set*: an added route is found; a destination stays reachable until
  someone removes it, its time is up, or the pool needs its element; no route
  expires before its time or stays much longer.
- *Blacklisted Neighbor Set*: nobody is listed twice; nobody is let in again
  before the time it was listed for.
- *Sequence numbers*: the circular comparison orders any two numbers.
- *Route discovery*: the routes are paths; at most one usable tuple for a
  destination, none for the node itself; replies were asked for and find their
  way; a discovery ends; a flood dies out; without losses the first discovery
  finds its destination.
- *Pending Acknowledgement Set*, and the lists and pools of all three: no element
  is lost, and the linked elements are the sequence their users take them for.
- *Mesh*: a packet is in one place until it comes to one end; only its source
  looks for its destination; while it waits, a timer runs.
- *IP over mesh*: a packet waits only while a discovery is pending and its timer
  runs, leaves the queue, is dropped only for a reason, and leaves towards the
  next hop of its route.

## The modules

| module | models | uses |
|---|---|---|
| `PoolList` | what the three `*_add` functions share: a list whose elements come from a pool, the entry reused, and the eviction of the tail | |
| `RouteTable` | the Routing Set as pure operators, one per function of `route.c`, and the first loop of `periodic` (`AgeRoutes`) | `PoolList` |
| `BlacklistTable` | the same for the Blacklisted Neighbor Set (`AgeBlacklist`) | `PoolList` |
| `RouteSet` | `route.c` as a state machine: two lists, one action per call of `route.h`, the tick, the second `route_init` | `RouteTable`, `BlacklistTable` |
| `RouteLifetime` | `RouteSet` with history variables that count real ticks, to say how long an entry lives | `RouteSet` |
| `RoutePools` | `route.c` one level below: linked elements of two memory pools, the Pending Acknowledgement Set and its lookup in the wrong list | `RouteTable`; implements `RouteSet` |
| `SeqNum` | `MAXA` and the `uint8_t` counters | |
| `LOADng` | a network of nodes, each with its Routing Set, running `route-discovery.c` over netflood, ipolite and unicast; restarts through `mesh_open` and `mesh_close`, and reboots | `RouteTable`, `SeqNum` |
| `LOADngProperties` | what discovery promises, kept and not kept | `LOADng` |
| `RouteService` | the abstract specification: what route discovery and the Routing Set promise the program above them on one node | `RouteTable` |
| `LOADngService` | the refinement: any node `Me` of `LOADng` is a `RouteService` | `LOADngProperties`, `RouteService` |
| `MeshNetwork` | `mesh.c` on every node, composed with `LOADng`: the data packets of the network and the one that waits at each node | `LOADngProperties` |
| `UipOverMesh` | `uip-over-mesh.c` on one node, composed with `RouteService`: the queue, the gateway, what is sent to whom | `RouteService` |
| `MC*` | small instances for TLC | |
| `*Proofs` | the proofs | |

### Tables

In `RouteSet` a list is a sequence, head first, and a pointer into it is an
index, with 0 for NULL.  Every element of a pool is free or in its list, so
`memb_alloc` fails exactly when the sequence has the length of the pool.
`RoutePools` checks that view of the memory: there a list is a chain of `next`
pointers and a pool a set of used elements, `Abstract` maps the chain of
`route_set` to a sequence, and `ImplementsRouteSet` says that every step is one of
`RouteSet` on it or leaves it alone, the steps of the Pending Acknowledgement Set
included.  Callers reach entries only through the lookups, so `RouteRefresh` and
`RouteRemove` take a destination.  `AgeRoutes` stops at the first tuple that
expires: `list_remove` clears the `next` pointer of the element it takes out, and
the loop goes on from that element.  The other two loops do the same.

`route_pending_list_lookup` walks `route_set` and reads its elements as pending
entries.  What it finds there depends on the layout of the two structs; the
module takes that of the 32-bit little-endian build and names the four words it
lays over each other.  `route_pending_add` then puts a Routing Tuple into
`pending_set`.  The behaviours stop there (`Intact`): the next `route_add` writes
past the end of a pending entry, into memory the model does not have.

### Route discovery

The actions of `LOADng` are the callbacks.  `rreq_msg_received` appears as its
outcomes, one action for each return statement: `RreqRejected`, `RreqAnswered`,
`RreqForwarded`, `RreqExhausted`; `RreqDuplicate` is netflood's own test in
front of it.  `rrep_msg_received` is `RrepRejected`, `RrepForwarded`,
`RrepForUs`.  `Discover` is `route_discovery_discover`, `Timeout` is
`timeout_handler`, `Tick` is `periodic`, `Relay` the delayed re-broadcast of
ipolite, `DataReceived` the `route_refresh` that a packet from the sender of a data
packet causes, `Close` and `Open` are `mesh_close` and `mesh_open`, `Reboot` is a
loss of power, `Lose` a lost frame.

Abstractions:

- A frame is addressed to each receiver separately, so that each may lose it or
  receive it at its own time.  Links may work in one direction only: a route may
  then lead over a link on which data is never heard (`InRange`), and such a frame
  is lost.  The medium reorders and loses frames but invents
  none.  It holds a set: two copies of one frame to one receiver are one.
- `route_metric`, `metric_type`, `weak_links` and the hop limit of a reply are
  written by the code and never read, and are left out.  `type` is the kind of
  the frame.
- A radio buffer that cannot be allocated behaves like a lost frame; that ipolite
  finds no queue buffer is not modelled.
- `Blacklisted` is a constant: nothing that runs calls `route_blacklist_add`, so
  a blacklist changes only in `RouteSet`.
- Both users call `route_discovery_discover` only after a failed lookup, so
  `Discover` has that guard; a call with a discovery pending changes nothing and
  is a stutter.
- A send without delay frees the buffer that waits in ipolite and leaves the
  pointer to it; what the delayed send then finds is undefined, and the model
  takes both outcomes (`MaybeFreed`).

### Mesh

A step of `MeshNetwork` is a step of `LOADng` together with what `mesh.c` does in
it.  `Send` is `mesh_send`, `PassOn` is multihop's call of `data_packet_forward`
on a node that is not the destination, and both are `Forward`: the packet goes to
the next hop, or displaces the one in `queued_data` and asks for a discovery.
`Receive` is `data_packet_received`; `MeshRrepForUs` is the reply with
`found_route`; `MeshTimeout` is the timeout with `route_timed_out`.  A packet has
a source, a destination and a number.  `fate` records how packets end, in the words
the code has for it (`sent`, `timedout`) and in those it has none for: displaced by
another, left without a buffer, lost in the air or in a reboot.  Where
`queuebuf_new_from_packetbuf` fails, the packet that waited is already freed and
the discovery starts all the same (`Replace`).

### IP over mesh

`UipOverMesh` is one node above any `RouteService`, not above a particular network:
replies may be about any destination and come at any time, and routes may be
learned or expire between any two calls.  A packet is its receiver in the mesh;
whether an address is outside of `uip_over_mesh_set_net` is an input.  `new_route`
and `timedout` are the callbacks, `recv_data` includes the packets uIP sends
while it processes the one received.  In `recv_data` `route_add` is given the
integer 10 where it expects a pointer; it reads the byte at that address, and the
model lets the cost be any value of a byte.  `periodic` and `MessageOverheard` are
what happens to the routes below in the meantime.  `uip_over_mesh_set_gateway` and
`uip_over_mesh_set_gateway_netif` overwrite what they are given at any time, also on
a node that has announced itself.

## The runs

The first eight pass; the last four must fail, each on one property that a
comment or the report states and the code does not keep.

| run | shows |
|---|---|
| `Routes` | `TypeOK`, `AddedIsFound`, `LostOnlyForCause`, `AgeWithinIdle`, `NeverEarly`, `NeverMuchLate`: all sequences of calls on a pool of 3, with costs from 0 to the one that stands for infinity, and the ticks a route really lives |
| `Blacklist` | `BlacklistedOnce`, `NotReadmittedEarly`: pool of 2, three neighbours, timeout 0 included |
| `RoutePools` | `NothingLeaks`, `ImplementsRouteSet`, `PendingGoesForCause`: pools of 2 and 2; the memory is what `RouteSet` says, and a pending entry goes for one of four causes |
| `DiscoveriesEnd` | `PendingHasTimer`, `FirstPacketSettled`, `FirstDiscoverySucceeds`, `FloodsEnd`, `DiscoveryEnds` on the line A - B - C: one packet from A to C, each request relayed by netflood once, at most one lost frame |
| `WaitingPackets` | `InOnePlace`, `DataCanGoOn`, `StrandedForCause`, `PacketsEnd` on the line, A sending two packets to B and C or both to one of them, with a tick that expires a route, losses, and a close and reopen or a reboot |
| `OverlappingDiscoveries` | `RoutesArePaths`, `ReplyCanReturn`, `NoGratuitousReply` on the line, A and C seeking each other, each request relayed by netflood once |
| `AgeingAndRestarts` | `TypeOK`, `OneTuplePerDestination`, `NoRouteToSelf`, `NodeServes` (of C) on the line with D out of range, A seeking D and C seeking A, with a tick that expires a route, a lost frame and one restart at any moment |
| `UipOverMesh` | `UipTypeOK`, `PendingWhileWaiting`, `QueueDrains`, `DroppedForCause`: one node, a neighbour and a node beyond it |
| `PendingLookup` | an entry just added to `pending_set` is not found (`route.c:261`: "Looks for an entry in the Pending List.") |
| `LoopAfterExpiry` | two nodes become each other's next hop (the report, page 2: "loop freedom is retained") |
| `SecondDiscovery` | a new request is dropped as a duplicate, without any loss (the report, page 5: "uniquely identifying each RREQ") |
| `UipNextHop` | a packet that waited is sent to its final receiver in one hop (`uip-over-mesh.c:224`: "We try to send the IP packet to the next hop route") |

`LoopAfterExpiry` deserves its trace.  A seeks D, which is out of range.  B learns
the route to A, C learns it from B, and C originates the request anew.  Before
C's copy reaches B again, B's route to A expires.  B's duplicate test does not know
this flood (C's address is in its header), the request is not stale for a node
without a route, and B adds a route to A through C, whose route to A leads
through B.

`PendingLookup` fails after one call: `route_pending_list_lookup` walks `route_set`
(`route.c:269`).  So an acknowledgement finds nothing that `pending_remove` could
take out ("Removes a pending_entry in the pending_set.", `route.c:439`), and a second
add of the same entry stores it twice ("Avoid inserting duplicate entries.",
`route.c:306`).  `PendingGoesForCause` allows the acknowledgement among its causes,
as these comments do.

`StrandedForCause` lists the ways in which a packet comes to wait without a timer.

1. A reply about another destination ends the discovery.  `mesh.c` keeps one packet
   and replaces it by the next, but `route_discovery_discover` ignores the second
   destination while the first is sought.  The reply to the first then ends the
   discovery, `found_route` finds that the packet waits for somebody else, and leaves
   it there.  A reply that comes after its timeout does the same to the next
   discovery.
2. The connection is closed under the packet, which stops the timer and leaves the
   packet and the pending flag (`route-discovery.c:482`).
3. The packet comes after such a close and a reopen: the flag that was left keeps its
   discovery from starting, until the node boots or a late reply takes the flag down.

Such a packet is never reported as timed out.  A late reply of its own destination
still sends it; otherwise it stays until another packet displaces it or the node
boots.  What forwarders do is included: a node whose route has expired queues the
packets that pass, in the place of its own.

`PacketsEnd` says when no packet stays behind: each application sends to one
destination, nothing restarts, no packet arrives at a node that has no route for it,
and next hops never form a loop.  Each condition is needed.  Without the third a
forwarder displaces one packet by another, and strands it (way 1) although each
application has one destination.  Without the last a packet goes round between the
two nodes of `LoopAfterExpiry` for ever, since `data_packet_forward` does not look at
the number of hops.  Routes do expire in the run, and behaviours which break a
condition are left to the other properties.

`uip-over-mesh.c` never leaves a packet like this (`PendingWhileWaiting`): it refuses
the second packet and takes the first out of the queue on any reply, which may cost
the packet (`DroppedForCause`).

More disagreements were read but have no run of their own:

- a full pool evicts the route that was added first even if it has just been
  refreshed ("so that used routes do not get thrown out", `route.c:407`);
- `route_add` compares a new route with the cheapest tuple of its destination only
  and can store a route twice ("Avoid inserting duplicate entries.", `route.c:224`;
  `OneTuplePerDestination` shows that the handlers never get there);
- the destination of a request relays it although it answers it ("Don't continue
  to flood the rreq packet.", `route-discovery.c:337`; the handler returns 1);
- the hop count of a reply starts again at every hop, so every route a reply
  leaves has cost 1, whatever its length (`route.h:91`);
- a reply ends the pending discovery whatever destination that was for (the
  report, page 2: "the correspondent RREP");
- after a close and a reopen the pending flag stays set without a timer
  (the original resets it, `route-discovery.backup.c:80`).

### Bounds

- Tables: pools of 2 and 3 for 16 and 8.  The behaviours depend on full against
  not full, first, middle and last element; three elements have all of these.
  Lifetimes of 2 and 4 ticks for 50; `NeverMuchLate` needs
  `2 * (NUM_RS_ENTRIES - 1) <= max_route_time`, which the run (4 and 4) and the
  code (14 and 50) meet.  `UINT8_MAX` 2 gives one cost below, one in between and
  the largest.  `AddrSymmetry` is sound: addresses are only compared.
- `RoutePools`: two elements in each pool have a full and a half-full list, a
  first and a last element; the addresses are numbers because null addresses,
  zeroed memory and pointers meet in the same words.
- Networks: three nodes are the smallest with a node that forwards; four are
  needed for `SecondDiscovery` and for a destination out of range.  In
  `OverlappingDiscoveries` the two ends of the line ask for each other and are
  exchanged by the symmetry `Mirror`, which is sound for its properties: none of
  them is a liveness property.
- Hop limits.  The code has 255 for `MAX_HOP_COUNT`, `MAX_HOP_LIMIT` and the cost that
  hides a route.  `DiscoveriesEnd`, `WaitingPackets` and `LoopAfterExpiry` keep the
  three equal, at 3.  `AgeingAndRestarts` has 3, 2 and 4 for them, so that the hop
  limit can end a request before the hop count does, and a second, dearer route to a
  node could be stored and found.  `OverlappingDiscoveries` and
  `SecondDiscovery` have limit 1, which is what the shortest path needs, against 3 and
  5, since with longer walks of the requests their spaces grow beyond the time a run
  has.  The theorems have no such bound.
- `HOPS_MAX` is 16 in netflood.  It is 1 in `DiscoveriesEnd`, `OverlappingDiscoveries`,
  `LoopAfterExpiry` and `SecondDiscovery`: netflood relays each packet once, suppresses
  the copies it knows and refuses to relay a second time.  It is 0 in `WaitingPackets`
  and `AgeingAndRestarts`, which are about packets, ticks and restarts: there netflood
  relays nothing, `held` stays empty, and requests travel only as the forwarders
  originate them anew.  What those two runs check is proved for every `HOPS_MAX`, but
  for `PacketsEnd`.
- `Budget` bounds discoveries, ticks, losses and restarts; data frames are lost no
  more often than control frames.  `airtick` is how many ticks one flood may
  last: a relay waits for up to two seconds at each hop, and a route lives 50, so a
  flood sees a few ticks and never a whole lifetime of a route it has taught.  Where a
  route is to expire (`WaitingPackets`, `AgeingAndRestarts`, `LoopAfterExpiry`) the
  budget is one tick and `max_route_time` is 1: the tick stands for the last one of a
  route's life, which may fall into a flood when the route is older than that.
  `OverlappingDiscoveries` has no lost frames; a reply that its timeout overtakes is in it.
- `Sends` is 2: a packet that waits and one that displaces it; in `DiscoveriesEnd`,
  which is about the first packet, it is 1.
- `MAXVALUE` 3 with two discoveries keeps the numbers away from their wrap; the
  wrap is the subject of `ExactlyOneIsNewer` and `LaterIsNewer`.
- The networks may stop (`CHECK_DEADLOCK FALSE`): budgets end and the air falls
  quiet.  So may `RoutePools`, where the lists share an element.

### Fairness

`MeshFairSpec` makes one assumption, weak fairness of `MeshDue`: as long as something
is due, something that is due happens.  Due are a discovery's timer (a ctimer that is
set expires), ipolite's delayed send (a ctimer too), the handling of a frame that has
reached a node, and the disappearance of a frame nobody listens to.  The radio either
delivers a frame or loses it within bounded time.  This is weaker than fairness to
each timer and frame, which the code also justifies, and it is enough: relays and
deliveries come to an end by themselves, so that the timers are what remains.  No
fairness is assumed of the application, of losses, of ticks or of restarts.  `UipSpec`
assumes weak fairness of `timedout` alone: the timer is enough to empty the queue.

## The proofs

| module | proves |
|---|---|
| `RouteTableProofs` | `LookupFinds`: `route_lookup` returns the most recent of the cheapest usable tuples; lemmas on what each operation of `PoolList` and `RouteTable` does to every element of the list |
| `RouteSetProofs` | `TypeCorrect`, `BlacklistHasNoDuplicates`, `AddedRoutesAreFound`, `RoutesAreLostOnlyForCause`; with the clocks of `RouteLifetime`: `ClocksNeverRunAhead`, `RoutesNeverExpireEarly`, `RoutesNeverExpireMuchLate`, `BlacklistingsAreServed` |
| `RoutePoolsProofs` | `NoElementLeaks`, `PoolsImplementRouteSet`, `PendingEntriesWait` |
| `LOADngProofs` | `ExactlyOneIsNewer`, `LaterIsNewer`, `NetworkTypeCorrect`, `NobodyRoutesToItself`, `OneUsableTuplePerDestination`, `WhoWaitsHasATimer`, `RepliesAreAskedFor` |
| `RoutePathProofs` | `RoutesLeadThere`, `RepliesFindTheirWay`, `FirstDiscoveryFinds` |
| `LOADngServiceProofs` | `EveryNodeServes` |
| `MeshNetworkProofs` | `MeshImplementsLOADng`, `PacketsGoOn`, `StrandedOnlyForCause`, `PacketsAreInOnePlace`, `FirstPacketNotStuck` |
| `UipOverMeshProofs` | `UipTypeCorrect`, `NobodyWaitsInVain`, `PacketsAreDroppedForCause` |

They assume what the modules assume of their constants: pools, lifetimes and
number ranges are positive, inputs are in range, the set of nodes is finite, the
node looked at is one of them (`TableAssumption`, `BlacklistAssumption`,
`InputAssumption`, `PoolAssumption`, `SeqNumAssumption`, `NetworkAssumption`,
`ObserverAssumption`, `TrafficAssumption`, `NoPacketAssumption`,
`AddressAssumption`).  TLC evaluates each of them in a run.

*Tables.*  `TypeOK` of `RouteSet` is inductive as it stands; the tick is the
interesting step, because an age below `max_route_time` stays below only if the
tuple that reaches it is the one that is removed and those behind it do not move.
`BlacklistedOnce` is inductive with `TypeOK`: the entry an add replaces is the
only one with that address.  `AddedIsFound` and `LostOnlyForCause` are action
properties proved from `TypeOK` by the lemmas on positions: an add moves every
survivor to a known place, so that the best tuple of another destination is
found again unless it was the tail.  `AgeWithinIdle` is inductive with the
lengths of the history sequences, and `NeverEarly` follows from it.

`NotReadmittedEarly` is about an entry at the moment it goes, and needs to know
what its counter said all the time before.  `ServedInv` keeps for every entry
what is `Owed`: the counter and the ticks served add up to at least the term
it was listed for.  An entry listed for 0 ticks is the exception, because its
counter either still is 0 or has wrapped and owes a whole turn of `clock_time_t`.

`NeverMuchLate` is the hardest of the clocks.  Each removal costs the routes
behind the removed one a tick, so a route can be late by as many ticks as routes
in front of it have expired, and new routes come in at the front all the time.
`PromptInv` bounds for every route the ticks it has lost already *plus* the routes
in front of it which can still take one: those that have been idle at least as
long (`InFront`).  Until its time is up, younger routes cannot: they expire later.
Once it is overdue, those in front of it when its time was up can (`Since`), which
is why `Limit` doubles there.  The theorem speaks of pools that are small against
the lifetime (`SmallPool`: 14 against 50 in the code), where nobody expires twice
meanwhile.

*Memory.*  `PoolInv` says that intact memory is `Sound`: there are two sequences of
elements, without a repetition or a common element, such that each `next` pointer
of an element in them is the next element and of any other is NULL (`Laid`), the
heads point to the first ones (`Linked`), and the elements of each sequence are
the used ones of its pool (`Held`).  That is the whole shape of two linked lists,
without a word of recursion.  The recursion of `ListOf` meets it once: `WalkExists`
gives a function that satisfies the recursive equation, the suffix of its list for
each element, and `WalkAlong` shows that any two functions that do so agree
along a chain, so that `ListOf` is the sequence.  On this rest lemmas about the
operations of `list.c` and `memb.c` (`Unlink`, `Link`, `Tangle`) and about what the
three `*_add` functions share (`MakesRoom`, `Puts`, `Drops`), each saying which
sequences describe the memory afterwards.  They are the operators `Vacate`,
`PushReusing` and `RemoveAt` of `PoolList`, and that is the refinement: `EveryStep`
collects it action by action.  `route_pending_add` that finds a Routing Tuple is the
one call after which no such sequences exist, and `PendingAddTangles` shows that
`Intact` is false then.  What `EveryStep` proves of pending entries is more than
`PendingGoesForCause` says: not even their own acknowledgement removes one, because
every element that `pending_remove` could find is in `route_set`, where `list_remove`
of `pending_set` does not find it.

*Network.*  The theorems of `LOADngProofs` hold for any set of nodes, links, pool
sizes and budgets.  Their inductive invariant `IInv` is stronger than `TypeOK` in
one place: every node's Routing Set is `Sound`, which means that it fits its pool,
has one usable tuple for a destination and none for the node.  These three go
together because `LearnKeepsSound` needs them at once.  A handler adds a route only
after a failed lookup, so the new tuple is the only usable one of its
destination, and only to the originator of a message `valid_check` let through,
which is never the node itself.  The rest of `IInv` types the state a handler
reads: counters and flags, netflood's header and the packet it holds, the frames in
the air and the budget.  `ForwardedType` uses the guards of the handlers to show
that a hop counter that is moved on stays in its byte.  `PendingHasTimer` is about
states before the first restart; it is inductive with `IInv` because closing the
connection, which alone stops the timer and leaves the flag, spends the budget of
restarts.  `NoGratuitousReply` follows from an invariant about the air:
`FloodsAsked` (each request in flight or waiting in ipolite carries a pair that is
in `asked`) and `RepliesAsked`; a reply is made from such a request or from
another reply, and `asked` only grows.

*Paths.*  `RoutesArePaths` and what is built on it has the premise `RoutesKept`: no tick,
no restart, pools that hold a tuple for each node, no blacklists, and no route with a
false cost (`CostsTrue`).  The last is about the messages that have come, not about the
constants: the code has 255 both for `MAX_HOP_LIMIT` and for the cost that
`route_lookup` never finds, so a request that has come 254 hops leaves a hidden route
behind, and one that has come 255 a route of cost 0 (`route-discovery.c:307`).  Behind
such a route the properties do not hold.  As long as none has come, they do.  That a
false cost, once stored, stays is `LearnKeepsCosts`: nothing takes a tuple out while
the pool has room and no tick comes.

`RoutesArePaths` says that out of every set of nodes one next hop leads,
which no step can be shown to keep.  `PathsOK` says instead that for every
destination the nodes can be ranked so that each next hop is the destination or a
node of lower rank that has a route too, and that whoever sends a request or reply
of a node is that node or has a route to it.  While no route is given up
(`RoutesKept`), a node learns a route only where it has none and only through the
sender of a message, so it takes a rank above all others; since it had no route,
no other next hop leads to a node whose rank has changed.  That a pool as large as
the network never evicts is `PoolHasRoom`, from one usable tuple per
destination.

*The first discovery.*  `FirstDiscoveryFinds` proves `FirstDiscoverySucceeds` for every
network in which links work in both directions (`HearEachOther`) and every
destination somebody may seek can be reached: out of every set of nodes around the
one that asks, in which the destination is not, a link leads (`Reaches`); and for hop
limits that let a request come as far as a true cost can be (`FarEnough`), as those of
the code do, 255 and 255 against 254.  No path is
counted anywhere.  The invariant (`FirstInv`) says that before the first discovery all
is quiet, and afterwards, of the node a that asks and the node d it seeks: around
each node other than d that knows the way to a, every node knows it too or a
request is on its way there (`Spreads`); from each node that knows the way to d, the
next hop towards a knows it too or a reply is on its way there (`Returns`); who knows
d has a route to a (`Taught`); and every next hop can be heard (`HearsNext`).  When the
air is quiet, `Spreads` closes the nodes that know a under links, so that `Reaches`
puts d among them, and d, which knows itself, starts the same argument over next
hops: `Returns` closes the nodes that know d, and by `RoutesArePaths` the next
hops lead from d to a.
`Spreads` could break in one way only: a node learns the way to a from a copy of the
request that has used up its hops, and starts no flood of its own.  With the hop limits
of the code such a copy teaches a false cost (`ExhaustedKnows`), which `RoutesKept`
excludes.  The exception is real: nodes accept the same request again, since its number
is not older than the route it left, so copies walk to and fro while their hops last,
and no bound on the constants excludes that one comes so far before a shorter one.

*Service.*  `EveryNodeServes` takes the handlers one by one.  A handler that runs at
`Me` is a step of `RouteService` there, or a stutter; one that runs elsewhere leaves
the variables of `Me` alone.  What it needs beside `IInv` is `OnLinks`: a frame
comes from a node its receiver is in range of, so that the next hop `Me` learns is
a neighbour (`LinksInvariant` in `LOADngProofs`).  Since `Me` is any node, IP over mesh may run on any of them.

*Mesh.*  `MeshStep` shows that every step of `MeshNetwork` is a step of `LOADng`
or leaves its variables alone.  The one that needs an argument is the data packet
that arrives: `DataReceived` asks for a source that exists, which the type of
the frames (`meshInv`) gives.  Hence `MeshImplementsLOADng`, and all that is proved
of `LOADng` holds below the mesh.  `PacketsGoOn` uses it with the ranking: a frame
goes to a next hop, whose rank says that it knows the way, and while no route is
given up it still does when the frame arrives.  `StrandedOnlyForCause` is an
action property with one case for each step: those of `Forward` leave a packet only
where they start a timer or find the flag set, and before the first restart a set flag
has a timer (`PendingHasTimer`); the timeout and the reboot leave no packet; a close
is a cause of its own; so that only a reply is left, which takes the flag and leaves
the packet, and not the reply about the packet's own destination, which takes the
packet too.  `InOnePlace` counts: a packet handed
over waits at exactly one node, or travels in exactly one frame, or has exactly one
fate, and the other two places are empty (`Placed`); one that was not handed over is
nowhere.  `Numbered` is what makes a new packet new: numbers are given in order, so
the next one is larger than all that were handed over.  Lemmas say what moving one
packet from a place to another does to all packets; each action is one such move,
or two where a packet displaces another.  `FirstPacketSettled` needs, beside the
places, that nothing interferes with a packet that is alone (`Alone`): every
discovery was started for it, because only its source looks for its destination
(`PacketsGoOn`); so every reply is about its destination (`RepliesAsked`) and takes
it out of the queue.  It therefore waits only while `rrep_pending`, and nothing
displaces it.

*IP over mesh.*  `UipInv` is inductive above any `RouteService`: a packet waits only
while `rrep_pending`, and the timer runs exactly while `rrep_pending`.  Both `timedout` and `new_route`, which take the flag down, take the
packet out of the queue in the same step.  `DroppedForCause` follows step by step; a
packet that is refused never was in the queue.

Only model-checked:

- the liveness properties (`FloodsEnd`, `DiscoveryEnds`, `PacketsEnd`,
  `QueueDrains`), which need fairness and `ENABLED`, out of the prover's reach;
- `PendingIsFound`, `LoopFree`, `EveryDiscoverySucceeds` and `LeavesByNextHop`, which are
  false.

## Not modelled

- Route errors and reply acknowledgements (`rerr_msg_process`, `send_rerr`,
  `send_rrep_ack`, `route_discovery_rerr`): compiled, but never called or
  registered, so that no behaviour of the program reaches them.
- `mesh.c` and `uip-over-mesh.c` open on one node at the same time: they would
  share `rrep_pending`, which is static.  The programs of the repository open one
  of the two.
- The stubs `route_decay`, `route_flush_all`, `route_set_lifetime`, `route_num`
  and `route_get`, which change nothing.
- `test_route/route_test.c`: its calls are behaviours of `RouteSet`.
- The Contiki originals kept as `*.backup.*`, which are not built, the Cooja
  set-up and the project files.

## Plan

1. Done: the tables, their memory, discovery, the mesh and IP over it, the abstract
   service, and a theorem for every safety property of the passing runs.
2. Next: the composition, `UipOverMesh` on a node of `LOADng` in place of any
   `RouteService`, which `EveryNodeServes` makes possible.

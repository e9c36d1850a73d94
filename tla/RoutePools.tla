----------------------------- MODULE RoutePools -----------------------------
(***************************************************************************)
(* route.c one level below RouteSet: elements of memory pools, linked      *)
(* through their first word into lists (list and memb of Contiki, which    *)
(* are external), and the Pending Acknowledgement Set, whose lookup walks  *)
(* route_set and reads Routing Tuples as pending entries.  A pointer is    *)
(* the number of an element, NULL is 0.                                    *)
(*                                                                         *)
(* What a pending entry reads in the memory of a Routing Tuple, by the     *)
(* offsets of route.h (32 bit, little endian):                             *)
(*    first    R_dest_addr                    P_next_hop                   *)
(*    second   R_next_addr                    P_originator                 *)
(*    mid      route_cost and R_seq_num       P_ack_timeout                *)
(*    low      R_valid_time                   P_seq_num                    *)
(***************************************************************************)
EXTENDS RouteTable

CONSTANTS
  NUM_pending_ENTRIES,   \* (8)
  Addr, Cost, Seqno,     \* what callers pass to route_add
  RREQ_ID, AckTimeout    \* and to route_pending_add

(* The values of the word mid.                                             *)
TIMEOUT_RANGE == (UINT8_MAX + 1) * (UINT8_MAX + 1)

ASSUME PoolAssumption ==
  /\ NUM_pending_ENTRIES \in Nat \ {0}
  /\ Cost \subseteq 0 .. UINT8_MAX
  /\ Seqno \subseteq 0 .. UINT8_MAX
  /\ RREQ_ID \subseteq Nat
  /\ AckTimeout \subseteq 0 .. TIMEOUT_RANGE - 1

VARIABLES
  head,   \* the first element of each list
  next,   \* of each element
  used,   \* the elements memb_alloc has given away
  cell    \* the rest of each element

memory == <<head, next, used, cell>>

NULL == 0
Block == [route   |-> 1 .. NUM_RS_ENTRIES,
          pending |-> NUM_RS_ENTRIES + 1 .. NUM_RS_ENTRIES + NUM_pending_ENTRIES]
Element == Block.route \cup Block.pending
Zero == [first |-> NULL, second |-> NULL, mid |-> 0, low |-> 0]

(* The operators below take the memory as a record, to apply one after     *)
(* the other.                                                              *)
Now == [head |-> head, next |-> next, used |-> used, cell |-> cell]

Becomes(m) ==
  head' = m.head /\ next' = m.next /\ used' = m.used /\ cell' = m.cell

Blank == [head |-> [l \in DOMAIN Block |-> NULL],
          next |-> [e \in Element |-> NULL],
          used |-> {},
          cell |-> [e \in Element |-> Zero]]

-----------------------------------------------------------------------------
(* list and memb.                                                          *)
ListOf(m, l) ==
  LET from[e \in Element \cup {NULL}] ==
        IF e = NULL THEN << >> ELSE <<e>> \o from[m.next[e]]
  IN  from[m.head[l]]

InList(m, l) == Range(ListOf(m, l))

list_remove(m, l, e) ==
  LET before == {b \in InList(m, l) : m.next[b] = e}
      Unlinked(b) == IF b = e THEN NULL ELSE IF b \in before THEN m.next[e] ELSE m.next[b]
  IN  IF e \notin InList(m, l) THEN m
      ELSE [m EXCEPT !.head[l] = IF @ = e THEN m.next[e] ELSE @,
                     !.next = [b \in Element |-> Unlinked(b)]]

list_push(m, l, e) ==
  LET r == list_remove(m, l, e)
  IN  [r EXCEPT !.next[e] = r.head[l], !.head[l] = e]

LastOf(m, l) == Last(ListOf(m, l))

(* memb_free() knows the elements of its own pool only.  What a free       *)
(* element holds is not read.                                              *)
(* Mutant: the element is not given back.                                  *)
DropKeeping(m, l, e) == list_remove(m, l, e)

Drop(m, l, e) ==
  LET r == list_remove(m, l, e)
  IN  IF e \notin Block[l] THEN r
      ELSE [r EXCEPT !.used = @ \ {e}, !.cell[e] = Zero]

Free(m, l) == Block[l] \ m.used

(* The element for a new entry: a free one, or the tail of the list.       *)
Vacant(m, l) == IF Free(m, l) # {} THEN Min(Free(m, l)) ELSE LastOf(m, l)

Taken(m, l) ==
  LET e == Vacant(m, l)
  IN  IF Free(m, l) # {} THEN [m EXCEPT !.used = @ \cup {e}]
      ELSE list_remove(m, l, e)

-----------------------------------------------------------------------------
(* The Routing Set as RouteTable has it.                                   *)
AsTuple(c) ==
  [R_dest_addr  |-> c.first,
   R_next_addr  |-> c.second,
   route_cost   |-> c.mid % (UINT8_MAX + 1),
   R_seq_num    |-> c.mid \div (UINT8_MAX + 1),
   R_valid_time |-> c.low]

Elements(l) == ListOf(Now, l)
Routes ==
  LET list == Elements("route")
  IN  [i \in DOMAIN list |-> AsTuple(cell[list[i]])]

(* Nothing below is said of a memory in which the two lists share an       *)
(* element: there route_add writes past the end of a pending entry.        *)
Intact == InList(Now, "route") \cap InList(Now, "pending") = {}

Write(m, l, e, content) == list_push([m EXCEPT !.cell[e] = content], l, e)

RouteAdd(dest, nexthop, cost, seqno) ==
  LET i == Replaced(Routes, dest, nexthop)
      e == IF i # 0 THEN Elements("route")[i] ELSE Vacant(Now, "route")
      m == IF i # 0 THEN list_remove(Now, "route", e) ELSE Taken(Now, "route")
  IN  Becomes(Write(m, "route", e,
                    [first |-> dest, second |-> nexthop,
                     mid |-> cost + (UINT8_MAX + 1) * seqno, low |-> 0]))

Lookup(dest) ==
  IF HasRoute(Routes, dest) THEN Elements("route")[route_lookup(Routes, dest)] ELSE NULL

RouteRefresh(dest) ==
  /\ Lookup(dest) # NULL
  /\ cell' = [cell EXCEPT ![Lookup(dest)].low = 0]
  /\ UNCHANGED <<head, next, used>>

RouteRemove(dest) ==
  /\ Lookup(dest) # NULL
  /\ Becomes(Drop(Now, "route", Lookup(dest)))

(* route_pending_list_lookup().                                            *)
Matching(list, from, orig, seq_num) ==
  {i \in DOMAIN list : /\ cell[list[i]].first = from
                       /\ cell[list[i]].second = orig
                       /\ cell[list[i]].low = seq_num}

route_pending_list_lookup(from, orig, seq_num) ==
  LET found == Matching(Elements("route"), from, orig, seq_num)
  IN  IF found = {} THEN NULL ELSE Elements("route")[Min(found)]

(* route_pending_add().  An element found is one of route_set: it is not   *)
(* taken out of pending_set, where it is not, and enters it with whatever  *)
(* it is linked to.                                                        *)
PendingAdd(nexthop, dest, id, timeout) ==
  LET found == route_pending_list_lookup(nexthop, dest, id)
      e == IF found # NULL THEN found ELSE Vacant(Now, "pending")
      m == IF found # NULL THEN list_remove(Now, "pending", e) ELSE Taken(Now, "pending")
  IN  Becomes(Write(m, "pending", e,
                    [first |-> nexthop, second |-> dest, mid |-> timeout, low |-> id]))

(* pending_remove() of what the lookup returns.                            *)
PendingRemove(from, orig, seq_num) ==
  LET e == route_pending_list_lookup(from, orig, seq_num)
  IN  e # NULL /\ Becomes(Drop(Now, "pending", e))

(* periodic(): one loop after the other, each ends with its first removal. *)
Walked(list, due) == {list[i] : i \in {i \in DOMAIN list : \A k \in due : i <= k}}

Ticked(c) == [c EXCEPT !.low = @ + 1]

AgedRoutes(m) ==
  LET list == ListOf(m, "route")
      due == Expiring(Routes)
      At(e) == IF e \in Walked(list, due) THEN Ticked(m.cell[e]) ELSE m.cell[e]
      aged == [m EXCEPT !.cell = [e \in Element |-> At(e)]]
  IN  IF due = {} THEN aged ELSE Drop(aged, "route", list[Min(due)])

Shorter(c) == [c EXCEPT !.mid = (@ - 1) % TIMEOUT_RANGE]

(* Mutant: the loop decrements and removes an entry one tick early.        *)
OverdueEarly(list) == {i \in DOMAIN list : cell[list[i]].mid <= 2}

Overdue(list) == {i \in DOMAIN list : Shorter(cell[list[i]]).mid = 0}

AgedPending(m) ==
  LET list == ListOf(m, "pending")
      due == Overdue(list)
      At(e) == IF e \in Walked(list, due) THEN Shorter(m.cell[e]) ELSE m.cell[e]
      aged == [m EXCEPT !.cell = [e \in Element |-> At(e)]]
  IN  IF due = {} THEN aged ELSE Drop(aged, "pending", list[Min(due)])

Periodic == Becomes(AgedPending(AgedRoutes(Now)))

Init == head = Blank.head /\ next = Blank.next /\ used = Blank.used /\ cell = Blank.cell
Reinit == Becomes(Blank)

Next ==
  /\ Intact
  /\ \/ \E dest, nexthop \in Addr, cost \in Cost, seqno \in Seqno :
          RouteAdd(dest, nexthop, cost, seqno)
     \/ \E dest \in Addr : RouteRefresh(dest) \/ RouteRemove(dest)
     \/ \E nexthop, dest \in Addr, id \in RREQ_ID, timeout \in AckTimeout :
          PendingAdd(nexthop, dest, id, timeout)
     \/ \E from, orig \in Addr, seq_num \in RREQ_ID : PendingRemove(from, orig, seq_num)
     \/ Periodic
     \/ Reinit

Spec == Init /\ [][Next]_memory

-----------------------------------------------------------------------------
(* The sequence of RouteSet describes these lists and pools: as long as    *)
(* the two lists are apart every step, those on pending entries included,  *)
(* is a step of RouteSet or leaves the Routing Set alone.                  *)
Abstract ==
  INSTANCE RouteSet WITH
    route_set <- Routes, blacklist_set <- <<>>, NUM_BLACKLIST_ENTRIES <- 1,
    CLOCK_MAX <- 1, Neighbor <- Addr, Timeout <- {}

ImplementsRouteSet ==
  Abstract!route_init /\
  [][Intact' =>
       UNCHANGED Routes \/ Abstract!Next]_memory

(* No element is lost: memb_alloc fails only when every element of the     *)
(* pool is in its list.                                                    *)
NothingLeaks ==
  Intact => \A l \in DOMAIN Block : InList(Now, l) = used \cap Block[l]

(* A waiting pending entry goes only by the acknowledgement of its own     *)
(* reply, when its time is up, when a full pool evicts it as the tail, or  *)
(* at a restart: no message of another reply, no call on routes and no     *)
(* tick that ended at a removal takes it out.                              *)
Waiting == {<<e, cell[e].first, cell[e].second, cell[e].low>> : e \in InList(Now, "pending")}

PendingGoesForCause ==
  [][\A w \in Waiting : Intact' /\ w \notin Waiting' =>
       \/ PendingRemove(w[2], w[3], w[4])
       \/ Periodic /\ cell[w[1]].mid = 1
       \/ Free(Now, "pending") = {} /\ w[1] = LastOf(Now, "pending")
       \/ Reinit]_memory

(* "Looks for an entry in the Pending List." (route.c:261): while no list  *)
(* is tangled, the lookup finds an entry whenever pending_set holds one    *)
(* for that next hop, originator and number, and what it finds is in       *)
(* pending_set, so that pending_remove can take out of the set the entry   *)
(* that is acknowledged ("Removes a pending_entry in the pending_set.",    *)
(* route.c:439).                                                           *)
PendingIsFound ==
  Intact =>
    \A from, orig \in Addr, seq_num \in RREQ_ID :
      LET found == route_pending_list_lookup(from, orig, seq_num)
      IN  /\ found # NULL => found \in InList(Now, "pending")
          /\ found = NULL => Matching(Elements("pending"), from, orig, seq_num) = {}
=============================================================================

--------------------------- MODULE LOADngService ---------------------------
(***************************************************************************)
(* LOADng implements RouteService on any of its nodes.                     *)
(***************************************************************************)
EXTENDS LOADngProperties

CONSTANT Me   \* the node that is looked at

ASSUME ObserverAssumption == Me \in Node

Service ==
  INSTANCE RouteService WITH
    Addr <- Node \ {Me}, Neighbor <- {m \in Node : Me \in Link[m]}, Seqno <- SeqNumber,
    route_set <- route[Me], rrep_pending <- rrep_pending[Me], timer <- timer[Me]

(* To the program above it a node is a RouteService: whatever messages     *)
(* come and in whatever order, its Routing Set and its pending flag change *)
(* only as mesh.c and uip-over-mesh.c may expect.                          *)
NodeServes == Service!Service
=============================================================================

--------------------------- MODULE MCUipOverMesh ---------------------------
(***************************************************************************)
(* UipOverMesh on a node a, with the addresses of two other nodes.         *)
(***************************************************************************)
EXTENDS UipOverMesh

CONSTANTS a, b, c
=============================================================================

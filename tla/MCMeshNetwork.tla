--------------------------- MODULE MCMeshNetwork ---------------------------
(***************************************************************************)
(* Small networks and traffic for MeshNetwork.                             *)
(***************************************************************************)
EXTENDS MeshNetwork, MCLOADng

Anyone == Node \X Node
=============================================================================

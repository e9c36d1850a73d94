--------------------------- MODULE MCLOADngService --------------------------
(***************************************************************************)
(* The networks of MCLOADng, with one node as the program above it sees    *)
(* route discovery.                                                        *)
(***************************************************************************)
EXTENDS LOADngService, MCLOADng
=============================================================================

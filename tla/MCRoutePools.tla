---------------------------- MODULE MCRoutePools ----------------------------
(* RoutePools on small pools; addresses are numbers, 0 is the null address.*)
EXTENDS RoutePools
=============================================================================

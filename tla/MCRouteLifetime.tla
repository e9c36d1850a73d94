--------------------------- MODULE MCRouteLifetime ---------------------------
(* RouteLifetime on small pools.                                            *)
EXTENDS RouteLifetime, TLC

AddrSymmetry == Permutations(Addr)
=============================================================================

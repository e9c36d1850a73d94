------------------------------ MODULE MCLOADng ------------------------------
(***************************************************************************)
(* Small networks and scenarios for LOADng.                                *)
(***************************************************************************)
EXTENDS LOADngProperties

CONSTANTS A, B, C, D

ThreeNodes == {A, B, C}
FourNodes == {A, B, C, D}

(* A - B - C; the same with D out of range, and with D next to B.          *)
Line == (A :> {B}) @@ (B :> {A, C}) @@ (C :> {B})
LineWithoutD == Line @@ (D :> {})
Star == (A :> {B}) @@ (B :> {A, C, D}) @@ (C :> {B}) @@ (D :> {B})

(* The line looks the same from both ends, when both ask for each other.   *)
Mirror == Permutations({A, C})

NobodyBlacklisted == [n \in Node |-> {}]

AtoC == {<<A, C>>}
AtoD == {<<A, D>>}
AtoCandCtoA == {<<A, C>>, <<C, A>>}
AtoBandC == {<<A, B>>, <<A, C>>}
AtoDandCtoA == {<<A, D>>, <<C, A>>}
AtoDandBtoC == {<<A, D>>, <<B, C>>}

Allow(discoveries, ticks, airticks, losses, restarts) ==
  [discover |-> discoveries, tick |-> ticks, airtick |-> airticks,
   loss |-> losses, restart |-> restarts]

LossyDiscovery == Allow(1, 0, 0, 1, 0)
TwoDiscoveries == Allow(2, 0, 0, 0, 0)
AgeingDiscovery == Allow(1, 1, 1, 0, 0)
AnythingOnce == Allow(2, 1, 1, 1, 1)
=============================================================================

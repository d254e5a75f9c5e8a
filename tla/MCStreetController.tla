------------------------- MODULE MCStreetController -------------------------
(* StreetLightController for TLC.  Three zones: tag 10 is in zone 0, tag 11  *)
(* in zones 0 and 1 (the schema allows it), tag 12 in zone 2, tag 13 in none. *)
EXTENDS StreetLightController

MCTagsOf == [y \in 0 .. 2 |-> CASE y = 0 -> {10, 11}
                                [] y = 1 -> {11}
                                [] y = 2 -> {12}]
=============================================================================

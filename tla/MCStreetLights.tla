--------------------------- MODULE MCStreetLights ---------------------------
(* StreetLights for TLC: two zones, whose groups come in the opposite order, *)
(* one tag in each zone and one in none.                                     *)
EXTENDS StreetLights

MCTagsOf == [y \in 0 .. 1 |-> {10 + y}]
MCGroupOrder == <<1, 0>>
=============================================================================

------------------------------ MODULE MCBulbs ------------------------------
(* Bulbs for TLC; the requested brightness below, inside and above 0..100. *)
EXTENDS Bulbs

MCRequests == {-1, 50, 101}
=============================================================================

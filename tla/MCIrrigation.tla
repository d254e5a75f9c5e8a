---------------------------- MODULE MCIrrigation ----------------------------
(* Irrigation for TLC; the bounds are given by the cfg. *)
EXTENDS Irrigation
=============================================================================

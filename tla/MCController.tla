---------------------------- MODULE MCController ----------------------------
(* TrafficController for TLC: every bound is a constant of the cfg.         *)
EXTENDS TrafficController
=============================================================================

------------------------------ MODULE MCDriver ------------------------------
(* TrafficLightDriver for TLC; the number of power cycles is given by the cfg. *)
EXTENDS TrafficLightDriver
=============================================================================

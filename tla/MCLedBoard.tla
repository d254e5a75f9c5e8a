----------------------------- MODULE MCLedBoard -----------------------------
(* LedBoard for TLC; the bounds are given by the cfg. *)
EXTENDS LedBoard
=============================================================================

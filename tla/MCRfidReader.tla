---------------------------- MODULE MCRfidReader ----------------------------
(* RfidReader for TLC: short frames, one tag at home, one near and at home,  *)
(* one in no zone, and two lists of zones.                                   *)
EXTENDS RfidReader

CONSTANTS a, b, c

MCConfigurations ==
  {<<[id |-> "HOME", tags |-> {a}], [id |-> "NEAR", tags |-> {a, b}]>>,
   <<[id |-> "NEAR", tags |-> {c}]>>}
=============================================================================

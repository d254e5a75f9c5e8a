---------------------------- MODULE Intersection ----------------------------
(***************************************************************************)
(* What the traffic light of a crossing promises: at most one road is open *)
(* at a time, and a road is opened only after every road has been closed.  *)
(***************************************************************************)
CONSTANT Roads

VARIABLE open   \* the roads that see a green light

Init == open = {}

Close == open # {} /\ open' = {}

Open(r) == open = {} /\ open' = {r}

Next == Close \/ \E r \in Roads : Open(r)

Spec == Init /\ [][Next]_open
=============================================================================

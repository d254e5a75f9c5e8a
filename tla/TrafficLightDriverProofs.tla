---------------------- MODULE TrafficLightDriverProofs ----------------------
(***************************************************************************)
(* The safety properties of TrafficLightDriver, for any number of power    *)
(* cycles, and the proof that it implements Intersection.                  *)
(***************************************************************************)
EXTENDS TrafficLightDriver, TLAPS

-----------------------------------------------------------------------------
(* The strengthening: which lamps are on at every point of switch_lights.    *)
(* After a power cycle the road to open has no lamp on, otherwise it is red. *)

LampsAt(a, d) ==
  /\ at = "greenOff" => lit = {} \/ lit = {<<d, "green">>, <<a, "red">>}
  /\ at = "yellowOn" => lit = {} \/ lit = {<<a, "red">>}
  /\ at = "yellowOff" => lit = {<<d, "yellow">>} \/ lit = {<<d, "yellow">>, <<a, "red">>}
  /\ at = "redOn" => lit = {} \/ lit = {<<a, "red">>}
  /\ at = "allowRedOff" => lit = {<<d, "red">>} \/ lit = {<<d, "red">>, <<a, "red">>}
  /\ at \in {"allowYellowOff", "allowGreenOn"} => lit = {<<d, "red">>}
  /\ at = "idle" => lit = {<<a, "green">>, <<d, "red">>}

LampsInv == LampsAt(allow, Other(allow))

(* Whose switch is running, and what it leaves as the applied state.         *)
PhaseInv ==
  /\ phase = "boot" => at # "idle"
  /\ phase \in {"boot", "create", "dead"} => allow = "secondary" /\ main_road_state = FALSE
  /\ phase \in {"create", "connecting", "dead"} => at = "idle"
  /\ phase = "restore" => at # "idle"
  /\ at # "idle" /\ phase \in {"restore", "running"} => allow = RoadOf(config)
  /\ at = "idle" => allow = RoadOf(main_road_state)
  /\ at = "idle" /\ phase \in {"connecting", "running"} => main_road_state = config

IInv == TypeOK /\ LampsInv /\ PhaseInv

-----------------------------------------------------------------------------
\* There are two roads, and the other one is another one.
LEMMA OtherRoad ==
  \A r \in Roads : Other(r) \in Roads /\ Other(r) # r /\ Other(Other(r)) = r
  BY DEF Roads, Other

\* A configuration opens a road, and a different configuration the other road.
LEMMA RoadOfState ==
  /\ \A s \in BOOLEAN : RoadOf(s) \in Roads
  /\ \A s, t \in BOOLEAN : s # t => RoadOf(t) = Other(RoadOf(s))
  BY DEF RoadOf, Roads, Other

LEMMA InitIInv == Init => IInv
  BY ResetsAssumption
  DEF Init, IInv, TypeOK, LampsInv, LampsAt, PhaseInv, Roads, Colours, Pins, Phases, RoadOf

\* Types are preserved.
LEMMA TypeNext ==
  ASSUME TypeOK, [Next]_vars PROVE TypeOK'
<1> USE OtherRoad, RoadOfState DEF TypeOK, Pins, Phases, Colours
<1>1. CASE GreenOff
  BY <1>1 DEF GreenOff, Write
<1>2. CASE YellowOn
  BY <1>2 DEF YellowOn, Write, disallow
<1>3. CASE YellowOff
  BY <1>3 DEF YellowOff, Write
<1>4. CASE RedOn
  BY <1>4 DEF RedOn, Write, disallow
<1>5. CASE AllowRedOff
  BY <1>5 DEF AllowRedOff, Write
<1>6. CASE AllowYellowOff
  BY <1>6 DEF AllowYellowOff, Write
<1>7. CASE AllowGreenOn
  BY <1>7 DEF AllowGreenOn
<1>8. CASE Restore
  BY <1>8 DEF Restore, OnConfigurationUpdated
<1>9. CASE Poll
  BY <1>9 DEF Poll, OnConfigurationUpdated
<1>10. CASE CreateFails \/ IpAcquired \/ StartClient \/ ServerChange
  BY <1>10 DEF CreateFails, IpAcquired, StartClient, ServerChange
<1>11. CASE PowerCycle
  <2>1. resets' \in Nat
    BY <1>11 DEF PowerCycle
  <2>2. allow' \in Roads
    BY <1>11 DEF PowerCycle, Roads
  <2>3. QED
    BY <1>11, <2>1, <2>2 DEF PowerCycle
<1>12. CASE UNCHANGED vars
  BY <1>12 DEF vars
<1>13. QED
  BY <1>1, <1>2, <1>3, <1>4, <1>5, <1>6, <1>7, <1>8, <1>9, <1>10, <1>11, <1>12
  DEF Next, Switching

\* Each pin written takes the lamps from one line of LampsAt to the next.
LEMMA LampsNext ==
  ASSUME TypeOK, LampsInv, PhaseInv, [Next]_vars PROVE LampsInv'
<1> DEFINE d == Other(allow)
<1> USE OtherRoad, RoadOfState DEF TypeOK, LampsInv, LampsAt, PhaseInv
<1>1. CASE GreenOff
  BY <1>1 DEF GreenOff, Write, disallow
<1>2. CASE YellowOn
  BY <1>2 DEF YellowOn, Write, disallow
<1>3. CASE YellowOff
  BY <1>3 DEF YellowOff, Write, disallow
<1>4. CASE RedOn
  BY <1>4 DEF RedOn, Write, disallow
<1>5. CASE AllowRedOff
  BY <1>5 DEF AllowRedOff, Write, disallow
<1>6. CASE AllowYellowOff
  BY <1>6 DEF AllowYellowOff, Write, disallow
<1>7. CASE AllowGreenOn
  BY <1>7 DEF AllowGreenOn
<1>8. CASE Restore
  BY <1>8 DEF Restore, OnConfigurationUpdated
<1>9. CASE Poll
  BY <1>9 DEF Poll, OnConfigurationUpdated
<1>10. CASE CreateFails \/ IpAcquired \/ StartClient \/ ServerChange
  BY <1>10 DEF CreateFails, IpAcquired, StartClient, ServerChange
<1>11. CASE PowerCycle
  BY <1>11 DEF PowerCycle
<1>12. CASE UNCHANGED vars
  BY <1>12 DEF vars
<1>13. QED
  BY <1>1, <1>2, <1>3, <1>4, <1>5, <1>6, <1>7, <1>8, <1>9, <1>10, <1>11, <1>12
  DEF Next, Switching

\* The applied state is recorded when, and only when, the lamps have reached it.
LEMMA PhaseNext ==
  ASSUME TypeOK, PhaseInv, [Next]_vars PROVE PhaseInv'
<1> USE OtherRoad, RoadOfState DEF TypeOK, PhaseInv, Phases, RoadOf
<1>1. CASE GreenOff \/ YellowOn \/ YellowOff \/ RedOn \/ AllowRedOff \/ AllowYellowOff
  BY <1>1 DEF GreenOff, YellowOn, YellowOff, RedOn, AllowRedOff, AllowYellowOff, Write
<1>2. CASE AllowGreenOn
  BY <1>2 DEF AllowGreenOn
<1>3. CASE Restore
  BY <1>3 DEF Restore, OnConfigurationUpdated
<1>4. CASE Poll
  BY <1>4 DEF Poll, OnConfigurationUpdated
<1>5. CASE CreateFails \/ IpAcquired \/ StartClient \/ ServerChange
  BY <1>5 DEF CreateFails, IpAcquired, StartClient, ServerChange
<1>6. CASE PowerCycle
  BY <1>6 DEF PowerCycle
<1>7. CASE UNCHANGED vars
  BY <1>7 DEF vars
<1>8. QED
  BY <1>1, <1>2, <1>3, <1>4, <1>5, <1>6, <1>7 DEF Next, Switching

LEMMA Inductive == Spec => []IInv
<1>1. IInv /\ [Next]_vars => IInv'
  BY TypeNext, LampsNext, PhaseNext DEF IInv
<1>2. QED
  BY InitIInv, <1>1, PTL DEF Spec

-----------------------------------------------------------------------------
(* The types of the firmware's globals, of its lamps and of the server.      *)
THEOREM TypeCorrect == Spec => []TypeOK
  BY Inductive, PTL DEF IInv

(* A green lamp always faces a red one: no write of switch_lights, and no    *)
(* power cycle between two of them, opens both roads.                        *)
THEOREM GreenAlwaysFacesRed == Spec => []GreenFacesRed
<1>1. IInv => GreenFacesRed
  BY OtherRoad DEF IInv, TypeOK, LampsInv, LampsAt, GreenFacesRed, Pins
<1>2. QED
  BY <1>1, Inductive, PTL

(* Between switches the lamps show the state that has been applied.          *)
THEOREM LampsAreSteady == Spec => []SteadyLamps
<1>1. IInv => SteadyLamps
  BY RoadOfState DEF IInv, TypeOK, LampsInv, LampsAt, PhaseInv, SteadyLamps, Steady
<1>2. QED
  BY <1>1, Inductive, PTL

(* The driver implements Intersection: the boot sequence starts with every   *)
(* road closed, the first write of switch_lights closes the open road, the   *)
(* last one opens the other, and no write in between changes a green lamp.   *)
Greens == {r \in Roads : <<r, "green">> \in lit}

\* The open roads at each point of switch_lights.
LEMMA GreensAt ==
  ASSUME IInv
  PROVE  /\ at = "greenOff" => Greens = {} \/ Greens = {Other(allow)}
         /\ at \notin {"greenOff", "idle"} => Greens = {}
         /\ at = "idle" => Greens = {allow}
<1> USE OtherRoad DEF IInv, TypeOK, LampsInv, LampsAt, Greens, Pins
<1>1. at = "greenOff" => Greens = {} \/ Greens = {Other(allow)}
  OBVIOUS
<1>2. at \notin {"greenOff", "idle"} => Greens = {}
  OBVIOUS
<1>3. at = "idle" => Greens = {allow}
  OBVIOUS
<1>4. QED
  BY <1>1, <1>2, <1>3

LEMMA GreensStep ==
  ASSUME IInv, IInv', [Next]_vars
  PROVE  \/ Greens' = Greens
         \/ Greens # {} /\ Greens' = {}
         \/ Greens = {} /\ \E r \in Roads : Greens' = {r}
<1> USE GreensAt DEF IInv, TypeOK, Pins
<1>1. CASE GreenOff
  <2>1. at = "greenOff" /\ at' = "yellowOn"
    BY <1>1 DEF GreenOff, Write
  <2>2. Greens' = {}
    BY <2>1 DEF Greens, LampsInv, LampsAt
  <2>3. QED
    BY <2>1, <2>2
<1>2. CASE AllowGreenOn
  <2>1. at = "allowGreenOn"
    BY <1>2 DEF AllowGreenOn
  <2>2. Greens = {} /\ Greens' = {allow}
    BY <1>2, <2>1, OtherRoad DEF AllowGreenOn, Greens, LampsInv, LampsAt
  <2>3. QED
    BY <2>2
<1>3. CASE YellowOn \/ YellowOff \/ RedOn \/ AllowRedOff \/ AllowYellowOff
  BY <1>3 DEF YellowOn, YellowOff, RedOn, AllowRedOff, AllowYellowOff, Write, Greens
<1>4. CASE Restore \/ CreateFails \/ IpAcquired \/ StartClient \/ Poll \/ ServerChange
  BY <1>4 DEF Restore, CreateFails, IpAcquired, StartClient, Poll, ServerChange, Greens
<1>5. CASE PowerCycle
  BY <1>5 DEF PowerCycle, Greens
<1>6. CASE UNCHANGED vars
  BY <1>6 DEF vars, Greens
<1>7. QED
  BY <1>1, <1>2, <1>3, <1>4, <1>5, <1>6 DEF Next, Switching

THEOREM DriverImplementsIntersection == Spec => ImplementsIntersection
<1>1. Init => Crossing!Init
  BY DEF Init, Crossing!Init
<1>2. IInv /\ IInv' /\ [Next]_vars => [Crossing!Next]_Greens
  BY GreensStep DEF Greens, Crossing!Next, Crossing!Close, Crossing!Open
<1>3. QED
  BY <1>1, <1>2, Inductive, PTL DEF Spec, ImplementsIntersection, Crossing!Spec, Greens
=============================================================================

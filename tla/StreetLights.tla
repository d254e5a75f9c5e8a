---------------------------- MODULE StreetLights ----------------------------
(***************************************************************************)
(* The controller and the street light together.  The server (external)    *)
(* has one endpoint group per zone; the light is a member of all of them   *)
(* and receives one list, the groups' entries appended in the order of the *)
(* groups (the schema's overrideStrategy).  A group whose configuration    *)
(* has no entry yet adds nothing, so the list grows at the first update of *)
(* such a group.  The light polls: it may see any of the states between    *)
(* two of the controller's calls, and miss others.                         *)
(***************************************************************************)
EXTENDS StreetLightController, Sequences, Functions

CONSTANTS
  MaxResets,    \* power cycles of the light in one behaviour
  GroupOrder    \* the zones in the order of their groups

ASSUME OrderAssumption ==
  /\ MaxResets \in Nat
  /\ GroupOrder \in Bijection(1 .. N, Zones)

VARIABLES
  lamps, light_states, config, i, phase, resets,   \* the light's
  aligned      \* history: since boot, no lit position has changed its zone

Light == INSTANCE StreetLightDriver WITH LIGHT_ZONES_COUNT <- N

lightVars == <<lamps, light_states, config, i, phase, resets, aligned>>
streetVars == <<vars, lightVars>>

Lists == UNION {[1 .. n -> [zone_id : Zones, on : BOOLEAN]] : n \in 0 .. N}

\* x's group comes before y's.
Before(x, y) ==
  \E m, n \in 1 .. N : m < n /\ GroupOrder[m] = x /\ GroupOrder[n] = y

\* What the server sends when the groups in `groups` have an entry.
IsListOf(list, groups, on) ==
  /\ {list[k].zone_id : k \in DOMAIN list} = groups
  /\ \A k, l \in DOMAIN list : k < l => Before(list[k].zone_id, list[l].zone_id)
  /\ \A k \in DOMAIN list : list[k].on <=> list[k].zone_id \in on

StreetTypeOK ==
  /\ TypeOK
  /\ Light!DriverTypeOK
  /\ aligned \in BOOLEAN
  /\ config \in Lists /\ \E groups, on \in SUBSET Zones : IsListOf(config, groups, on)

StreetInit ==
  /\ Init
  /\ \E groups \in SUBSET listed, on \in SUBSET listed, list \in Lists :
       IsListOf(list, groups, on) /\ Light!DriverInit(list)
  /\ aligned = TRUE

ControllerStep == Next /\ UNCHANGED lightVars

Poll ==
  /\ \E list \in Lists : IsListOf(list, listed, enabled) /\ Light!Deliver(list)
  /\ aligned' = (aligned /\ \A k \in DOMAIN config :
                   config[k].on => k \in DOMAIN config' /\ config'[k].zone_id = config[k].zone_id)
  /\ UNCHANGED vars

LightStep == Light!Apply /\ UNCHANGED <<vars, aligned>>

LightReset ==
  /\ Light!PowerCycle
  /\ aligned' = TRUE
  /\ UNCHANGED vars

StreetNext == ControllerStep \/ Poll \/ LightStep \/ LightReset

(* The thread in the monitor runs, the light's callback runs and its client  *)
(* keeps polling, though the server may be seen unchanged in between.        *)
StreetSpec == StreetInit /\ [][StreetNext]_streetVars
FairStreetSpec ==
  /\ StreetSpec
  /\ WF_streetVars(Process /\ UNCHANGED lightVars)
  /\ WF_streetVars(LightStep) /\ SF_streetVars(Poll)

-----------------------------------------------------------------------------
(* When the callback has returned, exactly the lamps the configuration names *)
(* are lit, although light_states is indexed by position and the pins by     *)
(* zone: a position keeps its zone for as long as a lamp is lit through it.  *)
(* This holds however the controller's calls fail and whatever the light     *)
(* misses, except after a group got its first entry while a lamp further     *)
(* down the list was lit.                                                    *)
Lit == {y \in Zones : lamps[y]}
Configured == {config[k].zone_id : k \in {n \in DOMAIN config : config[n].on}}

LampsFollowConfiguration == phase = "waiting" /\ aligned => Lit = Configured

(* When the car stops reporting and the light stays alive, the street shows  *)
(* the zone of the tag it reported last, and no other.                       *)
StreetSettles ==
  \A t \in Tags :
    <>[](step = "idle" /\ tag = t /\ clean /\ aligned /\ phase # "dead") =>
      <>[](Lit = IF ZonesWith(t) = {} THEN {}
                 ELSE {Max(ZonesWith(t))})
=============================================================================

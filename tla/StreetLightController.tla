----------------------- MODULE StreetLightController -----------------------
(***************************************************************************)
(* The street-light half of the City Lights controller: processStreetLights *)
(* keeps the zone the car was last seen in and switches the lights of the  *)
(* zones through the server (external), one REST call per zone.            *)
(*                                                                         *)
(* It runs inside the monitor of ControllerResource (the stage "street" of *)
(* TrafficController), so reports are handled one at a time, in the order  *)
(* their threads get the monitor, which is any order.                      *)
(***************************************************************************)
EXTENDS Integers, FiniteSetsExt

CONSTANTS
  N,            \* zones 0 .. N-1, in the order of streetLightsConfiguration
  Tags,         \* RFID tags a car may read
  TagsOf,       \* TagsOf[z]: the tags of zone z
  MaxFaults,    \* REST calls that may throw in one behaviour
  MaxRestarts   \* times the controller may be killed and started again

Zones == 0 .. N - 1

ASSUME ZonesAssumption ==
  /\ N \in Nat \ {0}
  /\ TagsOf \in [Zones -> SUBSET Tags]
  /\ MaxFaults \in Nat
  /\ MaxRestarts \in Nat

NoZone == -1   \* the null of StreetLightState.zoneId

VARIABLES
  zoneId,    \* StreetLightState: the zone the car is in
  enabled,   \* the zones whose group has zoneStatus ENABLE on the server
  listed,    \* the zones whose group has an entry at all, ENABLE or DISABLE
  step,      \* where processStreetLights is
  z,         \* the zone its loop has reached
  tag,       \* the tag of the report being, or last, processed
  found,
  clean,     \* history: no call has failed since zoneId was last null
  faults, restarts

vars == <<zoneId, enabled, listed, step, z, tag, found, clean, faults, restarts>>

Steps == {"idle", "clear", "scan", "offOld", "on", "offLast"}

TypeOK ==
  /\ zoneId \in Zones \cup {NoZone}
  /\ enabled \subseteq listed /\ listed \subseteq Zones
  /\ step \in Steps
  /\ z \in 0 .. N
  /\ tag \in Tags
  /\ found \in BOOLEAN
  /\ clean \in BOOLEAN
  /\ faults \in Nat
  /\ restarts \in Nat

Init ==
  /\ zoneId = NoZone
  /\ listed \in SUBSET Zones     \* whatever the last run left active
  /\ enabled \in SUBSET listed
  /\ step = "idle" /\ z = 0
  /\ tag \in Tags
  /\ found = FALSE
  /\ clean = FALSE
  /\ faults = MaxFaults /\ restarts = MaxRestarts

-----------------------------------------------------------------------------
\* updateStreetLights(zone, on): the group's body becomes the one entry of its zone.
Activate(zone, on) ==
  /\ enabled' = IF on THEN enabled \cup {zone} ELSE enabled \ {zone}
  /\ listed' = listed \cup {zone}

\* The call returns.
Succeeds(zone, on) ==
  /\ Activate(zone, on)
  /\ UNCHANGED <<clean, faults>>

\* The call throws, before or after the server has activated the configuration.
Throws(zone, on) ==
  /\ faults > 0
  /\ faults' = faults - 1
  /\ Activate(zone, on) \/ UNCHANGED <<enabled, listed>>
  /\ clean' = FALSE

\* updateStreetLightsState(zone, false): nothing local depends on the outcome.
SwitchOff(zone) == Succeeds(zone, FALSE) \/ Throws(zone, FALSE)

\* Mutant: the zones of an unknown state are left as they are.
BeginAtOnce(t) ==
  /\ step = "idle"
  /\ tag' = t
  /\ found' = FALSE
  /\ z' = 0
  /\ step' = "scan"
  /\ clean' = (clean \/ zoneId = NoZone)
  /\ UNCHANGED <<zoneId, enabled, listed, faults, restarts>>

\* A report is taken up; zones of an unknown state are all switched off first.
Begin(t) ==
  /\ step = "idle"
  /\ tag' = t
  /\ found' = FALSE
  /\ z' = 0
  /\ step' = IF zoneId = NoZone THEN "clear" ELSE "scan"
  /\ clean' = (clean \/ zoneId = NoZone)
  /\ UNCHANGED <<zoneId, enabled, listed, faults, restarts>>

ClearZone ==
  /\ step = "clear"
  /\ SwitchOff(z)
  /\ \/ z < N - 1 /\ z' = z + 1 /\ UNCHANGED step
     \/ z = N - 1 /\ z' = 0 /\ step' = "scan"
  /\ UNCHANGED <<zoneId, tag, found, restarts>>

\* The loop over the zones: those without the tag and the current zone are passed.
SkipZone ==
  /\ step = "scan" /\ z < N
  /\ tag \notin TagsOf[z] \/ zoneId = z
  /\ found' = (found \/ tag \in TagsOf[z])
  /\ z' = z + 1
  /\ UNCHANGED <<zoneId, enabled, listed, step, tag, clean, faults, restarts>>

\* Mutant: the zone the car has left stays lit.
EnterZoneOnly ==
  /\ step = "scan" /\ z < N
  /\ tag \in TagsOf[z] /\ zoneId # z
  /\ found' = TRUE
  /\ step' = "on"
  /\ UNCHANGED <<zoneId, enabled, listed, z, tag, clean, faults, restarts>>

EnterZone ==
  /\ step = "scan" /\ z < N
  /\ tag \in TagsOf[z] /\ zoneId # z
  /\ found' = TRUE
  /\ step' = IF zoneId = NoZone THEN "on" ELSE "offOld"
  /\ UNCHANGED <<zoneId, enabled, listed, z, tag, clean, faults, restarts>>

OffOldZone ==
  /\ step = "offOld"
  /\ SwitchOff(zoneId)
  /\ step' = "on"
  /\ UNCHANGED <<zoneId, z, tag, found, restarts>>

\* updateStreetLightsState(z, true): the zone is remembered when the call returns.
OnZone ==
  /\ step = "on"
  /\ \/ Succeeds(z, TRUE) /\ zoneId' = z
     \/ Throws(z, TRUE) /\ UNCHANGED zoneId
  /\ z' = z + 1
  /\ step' = "scan"
  /\ UNCHANGED <<tag, found, restarts>>

\* Mutant: a tag of no zone is ignored.
LoopEndsAlways ==
  /\ step = "scan" /\ z = N
  /\ step' = "idle"
  /\ UNCHANGED <<zoneId, enabled, listed, z, tag, found, clean, faults, restarts>>

\* After the loop: a tag of no zone means that the car has left its zone.
LoopEnds ==
  /\ step = "scan" /\ z = N
  /\ step' = IF found \/ zoneId = NoZone THEN "idle" ELSE "offLast"
  /\ UNCHANGED <<zoneId, enabled, listed, z, tag, found, clean, faults, restarts>>

\* Mutant: the zone is switched off but still remembered.
OffLastZoneRemembered ==
  /\ step = "offLast"
  /\ SwitchOff(zoneId)
  /\ step' = "idle"
  /\ UNCHANGED <<zoneId, z, tag, found, restarts>>

OffLastZone ==
  /\ step = "offLast"
  /\ SwitchOff(zoneId)
  /\ zoneId' = NoZone
  /\ step' = "idle"
  /\ UNCHANGED <<z, tag, found, restarts>>

\* The controller is killed and started again; the server keeps its state.
Restart ==
  /\ restarts > 0
  /\ restarts' = restarts - 1
  /\ zoneId' = NoZone
  /\ step' = "idle" /\ z' = 0
  /\ found' = FALSE
  /\ clean' = FALSE
  /\ UNCHANGED <<enabled, listed, tag, faults>>

Process == ClearZone \/ SkipZone \/ EnterZone \/ OffOldZone \/ OnZone
             \/ LoopEnds \/ OffLastZone

Next == (\E t \in Tags : Begin(t)) \/ Process \/ Restart

Spec == Init /\ [][Next]_vars

\* A thread that has the monitor runs to its end.
FairSpec == Spec /\ WF_vars(Process)

-----------------------------------------------------------------------------
(* Between reports exactly the zone of the last tag is lit: the last zone    *)
(* that lists the tag, or none.  This holds again, after any number of       *)
(* failed calls and restarts, from the first report that finds zoneId null   *)
(* and whose calls succeed.                                                  *)
ZonesWith(t) == {y \in Zones : t \in TagsOf[y]}

LitZoneFollowsTag ==
  step = "idle" /\ clean =>
    enabled = IF ZonesWith(tag) = {} THEN {} ELSE {Max(ZonesWith(tag))}

(* While no call fails, no two zones are lit at once, not even between the   *)
(* calls that move the light: the old zone is switched off first, and        *)
(* nothing but the remembered zone is ever lit.                              *)
OneZoneAtATime ==
  clean /\ step # "clear" => enabled \subseteq {zoneId}

(* Failed calls heal: a car that is seen outside every zone again and again  *)
(* makes the controller forget its zone each time, so the next report starts *)
(* by switching everything off, and from the first such report without a     *)
(* failure the lights follow the car for good.  Each report is processed to  *)
(* its end however its calls fail.                                           *)
Heals ==
  /\ []<>(step = "scan" /\ ZonesWith(tag) = {}) => <>[]clean
  /\ []<>(step = "idle")
=============================================================================

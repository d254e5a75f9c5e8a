------------------------- MODULE StreetLightsProofs -------------------------
(***************************************************************************)
(* Proofs about the street lights, for any number of zones, any assignment *)
(* of tags to zones, any order of the groups, and any number of failed     *)
(* calls, restarts and power cycles.  First the controller alone: the lit  *)
(* zone follows the tag and never two zones are lit at once.  Then the     *)
(* controller and the light together: the lamps are those of the           *)
(* configuration.                                                          *)
(***************************************************************************)
EXTENDS StreetLights, TLAPS

\* Where in processStreetLights the report is, and what it has seen so far.
StepInv ==
  /\ step = "clear" => zoneId = NoZone /\ z < N /\ ~found
  /\ step = "scan" => (found <=> \E y \in ZonesWith(tag) : y < z)
  /\ step \in {"offOld", "on"} => z \in ZonesWith(tag) /\ found
  /\ step \in {"offOld", "offLast"} => zoneId \in Zones
  /\ step = "offLast" => ZonesWith(tag) = {}

\* While no call has failed: what the server has on.
LitInv ==
  clean =>
    /\ step = "clear" => \A y \in enabled : y >= z
    /\ step = "on" => enabled = {}
    /\ step \in {"idle", "scan", "offOld", "offLast"} => enabled = {zoneId} \ {NoZone}

\* ... and where the loop has brought the light.
FollowInv ==
  clean =>
    /\ step = "scan" /\ found =>
         /\ zoneId \in ZonesWith(tag)
         /\ \A y \in ZonesWith(tag) : y < z => y <= zoneId
    /\ step = "idle" =>
         \/ ZonesWith(tag) = {} /\ zoneId = NoZone
         \/ zoneId \in ZonesWith(tag) /\ \A y \in ZonesWith(tag) : y <= zoneId

IInv == TypeOK /\ StepInv /\ LitInv /\ FollowInv

-----------------------------------------------------------------------------
LEMMA MaxIs ==
  ASSUME NEW S \in SUBSET Int, NEW x \in S, \A y \in S : y <= x PROVE Max(S) = x
<1>1. \A w \in S : (\A y \in S : w >= y) => w = x
  OBVIOUS
<1>2. \A y \in S : x >= y
  OBVIOUS
<1> QED
  BY <1>1, <1>2 DEF Max

LEMMA ZonesAre == \A y \in Zones : y \in Int /\ y >= 0 /\ y < N /\ y # NoZone
  BY ZonesAssumption DEF Zones, NoZone

LEMMA WithAre == \A t \in Tags : ZonesWith(t) \subseteq Zones
  BY DEF ZonesWith

\* What a call does to the server, whether it returns or throws.
LEMMA Called ==
  ASSUME TypeOK, NEW zone \in Zones, NEW on \in BOOLEAN, Succeeds(zone, on) \/ Throws(zone, on)
  PROVE  /\ enabled' \subseteq listed' /\ listed' \subseteq Zones
         /\ clean' \in BOOLEAN /\ faults' \in Nat
         /\ clean' => clean /\ enabled' = IF on THEN enabled \cup {zone} ELSE enabled \ {zone}
<1>1. CASE Succeeds(zone, on)
  BY <1>1 DEF Succeeds, Activate, TypeOK
<1>2. CASE Throws(zone, on)
  <2>1. faults' \in Nat /\ clean' = FALSE
    BY <1>2 DEF Throws, TypeOK
  <2>2. enabled' \subseteq listed' /\ listed' \subseteq Zones
    BY <1>2 DEF Throws, Activate, TypeOK
  <2> QED
    BY <2>1, <2>2
<1> QED
  BY <1>1, <1>2

LEMMA SwitchedOff ==
  ASSUME TypeOK, NEW zone \in Zones, SwitchOff(zone)
  PROVE  /\ enabled' \subseteq listed' /\ listed' \subseteq Zones
         /\ clean' \in BOOLEAN /\ faults' \in Nat
         /\ clean' => clean /\ enabled' = enabled \ {zone}
<1>1. Succeeds(zone, FALSE) \/ Throws(zone, FALSE)
  BY DEF SwitchOff
<1> QED
  BY <1>1, Called

-----------------------------------------------------------------------------
LEMMA InitIInv == Init => IInv
<1> SUFFICES ASSUME Init PROVE IInv
  OBVIOUS
<1>1. TypeOK
  <2>1. found \in BOOLEAN /\ clean \in BOOLEAN
    BY DEF Init
  <2>2. z \in 0 .. N /\ faults \in Nat /\ restarts \in Nat
    BY ZonesAssumption DEF Init
  <2> QED
    BY <2>1, <2>2 DEF Init, TypeOK, Steps
<1>2. StepInv /\ LitInv /\ FollowInv
  BY DEF Init, StepInv, LitInv, FollowInv
<1> QED
  BY <1>1, <1>2 DEF IInv

LEMMA BeginIInv == ASSUME IInv, NEW t \in Tags, Begin(t) PROVE IInv'
<1>1. TypeOK'
  <2>1. clean' \in BOOLEAN /\ found' \in BOOLEAN
    BY DEF Begin, IInv, TypeOK
  <2>2. step' \in Steps /\ z' \in 0 .. N
    BY ZonesAssumption DEF Begin, Steps
  <2> QED
    BY <2>1, <2>2 DEF Begin, IInv, TypeOK
<1>2. ZonesWith(tag') \subseteq Zones
  BY WithAre DEF Begin
<1>3. StepInv'
  BY <1>2, ZonesAre, ZonesAssumption DEF Begin, IInv, TypeOK, StepInv
<1>4. LitInv'
  <2>1. CASE zoneId = NoZone
    BY <2>1, ZonesAre DEF Begin, IInv, TypeOK, LitInv
  <2>2. CASE zoneId # NoZone
    BY <2>2 DEF Begin, IInv, LitInv
  <2> QED
    BY <2>1, <2>2
<1>5. FollowInv'
  BY DEF Begin, FollowInv
<1> QED
  BY <1>1, <1>3, <1>4, <1>5 DEF IInv

\* The calls.
LEMMA CallIInv ==
  ASSUME IInv, ClearZone \/ OffOldZone \/ OnZone \/ OffLastZone PROVE IInv'
<1> USE DEF IInv
<1>1. z \in Int /\ N \in Nat /\ tag \in Tags /\ ZonesWith(tag) \subseteq Zones
  BY ZonesAssumption, WithAre DEF TypeOK
<1>2. CASE ClearZone
  <2>1. z \in Zones /\ zoneId = NoZone /\ ~found
    BY <1>1, <1>2 DEF ClearZone, StepInv, Zones, TypeOK
  <2>2. /\ enabled' \subseteq listed' /\ listed' \subseteq Zones
        /\ clean' \in BOOLEAN /\ faults' \in Nat
        /\ clean' => clean /\ enabled' = enabled \ {z}
    BY <1>2, <2>1, SwitchedOff DEF ClearZone
  <2>3. TypeOK'
    BY <1>1, <1>2, <2>1, <2>2 DEF ClearZone, TypeOK, Steps, Zones
  <2>4. StepInv'
    <3>1. UNCHANGED <<zoneId, tag, found>> /\ ZonesWith(tag') = ZonesWith(tag)
      BY <1>2 DEF ClearZone
    <3>2. \/ step' = "clear" /\ z' < N
          \/ step' = "scan" /\ z' = 0
      BY <1>1, <1>2, <2>1, ZonesAre DEF ClearZone
    <3>3. \A y \in ZonesWith(tag) : ~(y < 0)
      BY <1>1, ZonesAre
    <3> QED
      BY <2>1, <3>1, <3>2, <3>3 DEF StepInv
  <2>5. clean' => \A y \in enabled' : y > z /\ y < N /\ y \in Int
    BY <1>1, <1>2, <2>2, ZonesAre DEF ClearZone, LitInv, TypeOK
  <2>6. LitInv'
    BY <1>1, <1>2, <2>1, <2>5 DEF ClearZone, LitInv
  <2>7. FollowInv'
    BY <1>2, <2>1 DEF ClearZone, FollowInv
  <2> QED
    BY <2>3, <2>4, <2>6, <2>7
<1>3. CASE OffOldZone
  <2>1. zoneId \in Zones
    BY <1>3 DEF OffOldZone, StepInv
  <2>2. /\ enabled' \subseteq listed' /\ listed' \subseteq Zones
        /\ clean' \in BOOLEAN /\ faults' \in Nat
        /\ clean' => clean /\ enabled' = enabled \ {zoneId}
    BY <1>3, <2>1, SwitchedOff DEF OffOldZone
  <2>3. TypeOK'
    BY <1>3, <2>2 DEF OffOldZone, TypeOK, Steps
  <2>4. StepInv' /\ LitInv' /\ FollowInv'
    BY <1>3, <2>2 DEF OffOldZone, StepInv, LitInv, FollowInv, ZonesWith
  <2> QED
    BY <2>3, <2>4
<1>4. CASE OnZone
  <2>1. z \in ZonesWith(tag) /\ z \in Zones /\ found
    BY <1>1, <1>4 DEF OnZone, StepInv
  <2>2. /\ enabled' \subseteq listed' /\ listed' \subseteq Zones
        /\ clean' \in BOOLEAN /\ faults' \in Nat
        /\ clean' => clean /\ enabled' = enabled \cup {z}
    BY <1>4, <2>1, Called DEF OnZone
  <2>3. zoneId' \in {zoneId, z} /\ (clean' => zoneId' = z)
    BY <1>4 DEF OnZone, Throws
  <2>4. z' = z + 1 /\ z < N /\ step' = "scan" /\ UNCHANGED <<tag, found, restarts>>
    BY <1>4, <2>1, ZonesAre DEF OnZone
  <2>5. TypeOK'
    <3>1. z' \in 0 .. N /\ step' \in Steps /\ zoneId' \in Zones \cup {NoZone}
      BY <1>1, <2>1, <2>3, <2>4 DEF TypeOK, Steps
    <3> QED
      BY <2>2, <2>4, <3>1 DEF TypeOK
  <2>6. \A y \in ZonesWith(tag) : y < z + 1 => y <= z
    BY <1>1, ZonesAre
  <2>7. StepInv'
    BY <1>1, <2>1, <2>4 DEF StepInv, ZonesWith
  <2>8. LitInv'
    BY <1>4, <2>1, <2>2, <2>3, <2>4, ZonesAre DEF OnZone, LitInv
  <2>9. FollowInv'
    BY <2>1, <2>3, <2>4, <2>6 DEF FollowInv, ZonesWith
  <2> QED
    BY <2>5, <2>7, <2>8, <2>9
<1>5. CASE OffLastZone
  <2>1. zoneId \in Zones
    BY <1>5 DEF OffLastZone, StepInv
  <2>2. /\ enabled' \subseteq listed' /\ listed' \subseteq Zones
        /\ clean' \in BOOLEAN /\ faults' \in Nat
        /\ clean' => clean /\ enabled' = enabled \ {zoneId}
    BY <1>5, <2>1, SwitchedOff DEF OffLastZone
  <2>3. TypeOK'
    BY <1>5, <2>2 DEF OffLastZone, TypeOK, Steps
  <2>4. StepInv' /\ LitInv' /\ FollowInv'
    BY <1>5, <2>2 DEF OffLastZone, StepInv, LitInv, FollowInv, ZonesWith
  <2> QED
    BY <2>3, <2>4
<1> QED
  BY <1>2, <1>3, <1>4, <1>5

\* The loop between the calls, and a restart.
LEMMA LoopIInv ==
  ASSUME IInv, SkipZone \/ EnterZone \/ LoopEnds \/ Restart PROVE IInv'
<1> USE DEF IInv
<1>1. z \in Int /\ N \in Nat /\ tag \in Tags /\ ZonesWith(tag) \subseteq Zones
  BY ZonesAssumption, WithAre DEF TypeOK
<1>2. CASE SkipZone
  <2>1. z \in Zones
    BY <1>1, <1>2 DEF SkipZone, Zones, TypeOK
  <2>2. z \in ZonesWith(tag) <=> tag \in TagsOf[z]
    BY <2>1 DEF ZonesWith
  <2>3. \A y \in ZonesWith(tag) : y < z + 1 <=> y < z \/ y = z
    BY <1>1, ZonesAre
  <2>4. found' <=> found \/ z \in ZonesWith(tag)
    BY <1>2, <2>2 DEF SkipZone
  <2>5. TypeOK'
    <3>1. found' \in BOOLEAN /\ z' \in 0 .. N
      BY <1>1, <1>2 DEF SkipZone, TypeOK
    <3> QED
      BY <1>2, <3>1 DEF SkipZone, TypeOK
  <2>6. ZonesWith(tag') = ZonesWith(tag)
    BY <1>2 DEF SkipZone
  <2>7. StepInv'
    BY <1>2, <2>3, <2>4, <2>6 DEF SkipZone, StepInv
  <2>8. FollowInv'
    <3> SUFFICES ASSUME clean, found'
                 PROVE  /\ zoneId \in ZonesWith(tag)
                        /\ \A y \in ZonesWith(tag) : y < z + 1 => y <= zoneId
      BY <1>2, <2>6 DEF SkipZone, FollowInv
    <3>1. CASE z \in ZonesWith(tag)
      BY <1>1, <1>2, <2>2, <2>3, <3>1, ZonesAre DEF SkipZone
    <3>2. CASE z \notin ZonesWith(tag)
      BY <1>2, <2>3, <2>4, <3>2 DEF SkipZone, FollowInv
    <3> QED
      BY <3>1, <3>2
  <2>9. LitInv'
    BY <1>2 DEF SkipZone, LitInv
  <2> QED
    BY <2>5, <2>7, <2>8, <2>9
<1>3. CASE EnterZone
  <2>1. z \in ZonesWith(tag)
    BY <1>1, <1>3 DEF EnterZone, ZonesWith, Zones, TypeOK
  <2>2. TypeOK'
    <3>1. found' \in BOOLEAN /\ step' \in Steps
      BY <1>3 DEF EnterZone, Steps
    <3> QED
      BY <1>3, <3>1 DEF EnterZone, TypeOK
  <2>3. StepInv' /\ FollowInv'
    BY <1>3, <2>1 DEF EnterZone, StepInv, FollowInv, TypeOK, ZonesWith
  <2>4. LitInv'
    BY <1>3 DEF EnterZone, LitInv
  <2> QED
    BY <2>2, <2>3, <2>4
<1>4. CASE LoopEnds
  <2>1. \A y \in ZonesWith(tag) : y < z
    BY <1>1, <1>4, ZonesAre DEF LoopEnds
  <2>2. found <=> ZonesWith(tag) # {}
    BY <1>4, <2>1 DEF LoopEnds, StepInv
  <2>3. TypeOK'
    BY <1>4 DEF LoopEnds, TypeOK, Steps
  <2>4. StepInv' /\ LitInv' /\ FollowInv'
    BY <1>4, <2>1, <2>2 DEF LoopEnds, StepInv, LitInv, FollowInv, ZonesWith, TypeOK
  <2> QED
    BY <2>3, <2>4
<1>5. CASE Restart
  <2>1. restarts' \in Nat /\ z' \in 0 .. N
    BY <1>1, <1>5 DEF Restart, TypeOK
  <2>2. TypeOK'
    <3>1. found' \in BOOLEAN /\ clean' \in BOOLEAN
      BY <1>5 DEF Restart
    <3> QED
      BY <1>5, <2>1, <3>1 DEF Restart, TypeOK, Steps
  <2>3. StepInv' /\ LitInv' /\ FollowInv'
    BY <1>5 DEF Restart, StepInv, LitInv, FollowInv
  <2> QED
    BY <2>2, <2>3
<1> QED
  BY <1>2, <1>3, <1>4, <1>5

LEMMA Inductive == Spec => []IInv
<1>1. IInv /\ UNCHANGED vars => IInv'
  BY DEF IInv, TypeOK, StepInv, LitInv, FollowInv, ZonesWith, vars
<1>2. IInv /\ [Next]_vars => IInv'
  BY <1>1, BeginIInv, CallIInv, LoopIInv DEF Next, Process
<1> QED
  BY <1>2, InitIInv, PTL DEF Spec

-----------------------------------------------------------------------------
(* The types of StreetLightState and of the loop over the zones.             *)
THEOREM TypeCorrect == Spec => []TypeOK
  BY Inductive, PTL DEF IInv

(* Between reports the zone the server has on is the last zone that lists    *)
(* the last tag, from the first report without a failure on.                 *)
THEOREM LightFollowsCar == Spec => []LitZoneFollowsTag
<1>1. ASSUME IInv PROVE LitZoneFollowsTag
  <2> SUFFICES ASSUME step = "idle", clean
               PROVE  enabled = IF ZonesWith(tag) = {} THEN {} ELSE {Max(ZonesWith(tag))}
    BY DEF LitZoneFollowsTag
  <2>1. enabled = {zoneId} \ {NoZone}
    BY <1>1 DEF IInv, LitInv
  <2>2. ZonesWith(tag) \subseteq Zones /\ Zones \subseteq Int
    BY <1>1, WithAre, ZonesAre DEF IInv, TypeOK
  <2>3. CASE ZonesWith(tag) = {}
    BY <1>1, <2>1, <2>3 DEF IInv, FollowInv
  <2>4. CASE ZonesWith(tag) # {}
    <3>1. zoneId \in ZonesWith(tag) /\ \A y \in ZonesWith(tag) : y <= zoneId
      BY <1>1, <2>4 DEF IInv, FollowInv
    <3>2. Max(ZonesWith(tag)) = zoneId
      BY <2>2, <3>1, MaxIs
    <3>3. zoneId # NoZone
      BY <2>2, <3>1, ZonesAre
    <3> QED
      BY <2>1, <2>4, <3>2, <3>3
  <2> QED
    BY <2>3, <2>4
<1> QED
  BY <1>1, Inductive, PTL

(* Nothing but the remembered zone is ever lit, not even between two calls,  *)
(* until a call fails.                                                       *)
THEOREM LightShowsOneZone == Spec => []OneZoneAtATime
<1>1. IInv => OneZoneAtATime
  BY DEF IInv, TypeOK, Steps, LitInv, OneZoneAtATime
<1> QED
  BY <1>1, Inductive, PTL

-----------------------------------------------------------------------------
(* The light.                                                                *)

Positions == 1 .. Len(config)

Distinct == \A k, l \in Positions : config[k].zone_id = config[l].zone_id => k = l

\* While no lit position has changed its zone, the pin of a zone is what
\* light_states holds at the position of the zone's entry, and that is what the
\* entry says for the entries the callback has been past.
LightInv ==
  /\ phase = "create" => lamps = Light!AllOff /\ light_states = Light!AllOff
  /\ aligned =>
       /\ \A k \in Zones : light_states[k] => k < Len(config)
       /\ \A y \in Zones :
            lamps[y] <=> \E k \in Positions : config[k].zone_id = y /\ light_states[k - 1]
       /\ \A k \in Positions :
            (phase = "callback" /\ k <= i) \/ phase = "waiting" =>
              (light_states[k - 1] <=> config[k].on)

StreetInv == StreetTypeOK /\ Distinct /\ LightInv

LEMMA ListsAre ==
  ASSUME NEW list \in Lists
  PROVE  /\ Len(list) \in 0 .. N
         /\ DOMAIN list = 1 .. Len(list)
         /\ list \in Seq([zone_id : Zones, on : BOOLEAN])
         /\ \A k \in 1 .. Len(list) :
              list[k].zone_id \in Zones /\ list[k].on \in BOOLEAN /\ k - 1 \in Zones
<1>1. PICK n \in 0 .. N : list \in [1 .. n -> [zone_id : Zones, on : BOOLEAN]]
  BY DEF Lists
<1>2. n \in Nat /\ n <= N /\ N \in Nat
  BY ZonesAssumption
<1>3. Len(list) = n /\ DOMAIN list = 1 .. n /\ list \in Seq([zone_id : Zones, on : BOOLEAN])
  <2> DEFINE E == [zone_id : Zones, on : BOOLEAN]
  <2> HIDE DEF E
  <2>1. n \in Nat /\ list \in [1 .. n -> E]
    BY <1>1, <1>2 DEF E
  <2>2. list \in Seq(E)
    BY <2>1
  <2>3. DOMAIN list = 1 .. n
    BY <2>1
  <2>4. DOMAIN list = 1 .. Len(list) /\ Len(list) \in Nat
    BY <2>2
  <2>5. Len(list) = n
    BY <2>1, <2>3, <2>4
  <2> QED
    BY <2>2, <2>3, <2>5 DEF E
<1>4. \A k \in 1 .. n : k - 1 \in Zones
  BY <1>2 DEF Zones
<1>5. \A k \in 1 .. n : list[k].zone_id \in Zones /\ list[k].on \in BOOLEAN
  BY <1>1
<1> QED
  BY <1>2, <1>3, <1>4, <1>5

\* No zone has two entries: every group has a place of its own.
LEMMA ListsAreDistinct ==
  ASSUME NEW list \in Lists, NEW groups, NEW on, IsListOf(list, groups, on)
  PROVE  \A k, l \in 1 .. Len(list) : list[k].zone_id = list[l].zone_id => k = l
<1>1. \A m, n \in 1 .. N : GroupOrder[m] = GroupOrder[n] => m = n
  BY OrderAssumption DEF Bijection, Injection, IsInjective
<1>2. \A x, y : Before(x, y) => x # y
  BY <1>1, ZonesAssumption DEF Before
<1>3. \A k, l \in 1 .. Len(list) : k < l => list[k].zone_id # list[l].zone_id
  BY <1>2, ListsAre DEF IsListOf
<1> QED
  BY <1>3

(* The light never disturbs the controller: whatever it does, the composed   *)
(* system is the controller of StreetLightController, and has its invariants.*)
THEOREM StreetImplementsController == StreetSpec => Spec
<1>1. StreetInit => Init
  BY DEF StreetInit
<1>2. [StreetNext]_streetVars => [Next]_vars
  BY DEF StreetNext, ControllerStep, Poll, LightStep, LightReset, streetVars
<1> QED
  BY <1>1, <1>2, PTL DEF StreetSpec, Spec

-----------------------------------------------------------------------------
LEMMA InitStreetInv == StreetInit => StreetInv
<1> SUFFICES ASSUME StreetInit PROVE StreetInv
  OBVIOUS
<1>1. TypeOK
  BY InitIInv DEF StreetInit, IInv
<1>2. PICK groups \in SUBSET listed, on \in SUBSET listed, list \in Lists :
        IsListOf(list, groups, on) /\ Light!DriverInit(list)
  BY DEF StreetInit
<1>3. config = list /\ listed \subseteq Zones
  BY <1>1, <1>2 DEF Light!DriverInit, TypeOK
<1>4. lamps = Light!AllOff /\ light_states = Light!AllOff /\ phase = "create" /\ i = 0
        /\ resets = MaxResets /\ aligned = TRUE
  BY <1>2 DEF Light!DriverInit, StreetInit
<1>5. Light!DriverTypeOK
  BY <1>4, ZonesAssumption, OrderAssumption DEF Light!DriverTypeOK, Light!AllOff, Light!Indices
<1>6. StreetTypeOK
  BY <1>1, <1>2, <1>3, <1>4, <1>5 DEF StreetTypeOK
<1>7. Distinct
  BY <1>2, <1>3, ListsAreDistinct DEF Distinct, Positions
<1>8. LightInv
  BY <1>2, <1>3, <1>4, ListsAre DEF LightInv, Positions, Light!AllOff, Light!Indices, Zones
<1> QED
  BY <1>6, <1>7, <1>8 DEF StreetInv

\* The controller's calls do not touch the light.
LEMMA ControllerStreetInv ==
  ASSUME StreetInv, TypeOK', UNCHANGED lightVars PROVE StreetInv'
BY DEF StreetInv, StreetTypeOK, Distinct, LightInv, Positions, lightVars, Light!DriverTypeOK

\* A new list: a lit position keeps its zone or the history says so.
LEMMA PollStreetInv == ASSUME StreetInv, Poll PROVE StreetInv'
<1> USE DEF StreetInv
<1>1. PICK list \in Lists : IsListOf(list, listed, enabled) /\ Light!Deliver(list)
  BY DEF Poll
<1>2. /\ phase = "waiting" /\ phase' = "callback" /\ i' = 0 /\ config' = list
      /\ UNCHANGED <<lamps, light_states, resets>>
  BY <1>1 DEF Light!Deliver, Light!StartCallback
<1>3. aligned' = (aligned /\ \A k \in DOMAIN config :
        config[k].on => k \in DOMAIN config' /\ config'[k].zone_id = config[k].zone_id)
  BY DEF Poll
<1>4. TypeOK'
  BY DEF Poll, vars, StreetTypeOK, TypeOK
<1>5. Light!DriverTypeOK'
  BY <1>2, ZonesAssumption DEF StreetTypeOK, Light!DriverTypeOK, Light!Indices
<1>6. StreetTypeOK'
  <2>1. listed \subseteq Zones /\ enabled \subseteq Zones
    BY DEF StreetTypeOK, TypeOK
  <2>2. aligned' \in BOOLEAN
    BY <1>3
  <2> QED
    BY <1>1, <1>2, <1>4, <1>5, <2>1, <2>2 DEF StreetTypeOK, IsListOf
<1>7. Distinct'
  BY <1>1, <1>2, ListsAreDistinct DEF Distinct, Positions
<1>8. LightInv'
  <2> SUFFICES ASSUME aligned'
      PROVE  /\ \A k \in Zones : light_states[k] => k < Len(list)
             /\ \A y \in Zones :
                  lamps[y] <=> \E k \in 1 .. Len(list) : list[k].zone_id = y /\ light_states[k - 1]
             /\ \A k \in 1 .. Len(list) : ~(k <= 0)
    BY <1>2 DEF LightInv, Positions
  <2>1. config \in Lists
    BY DEF StreetTypeOK
  <2>2. \A k \in Positions : light_states[k - 1] => k \in 1 .. Len(list)
                               /\ list[k].zone_id = config[k].zone_id
    <3>1. DOMAIN config = Positions /\ DOMAIN list = 1 .. Len(list)
      BY <2>1, ListsAre DEF Positions
    <3>2. \A k \in Positions : light_states[k - 1] <=> config[k].on
      BY <1>2, <1>3 DEF LightInv
    <3> QED
      BY <1>2, <1>3, <3>1, <3>2
  <2>3. \A k \in Zones : light_states[k] => k + 1 \in Positions /\ (k + 1) - 1 = k
    BY <1>3, <2>1, ListsAre, ZonesAssumption DEF LightInv, Positions, Zones
  <2>4. \A k \in Zones : light_states[k] => k < Len(list)
    BY <2>2, <2>3, ListsAre DEF Zones
  <2>5. \A k \in 1 .. Len(list) : light_states[k - 1] => k \in Positions
    BY <2>3, ListsAre
  <2>6. ASSUME NEW y \in Zones
        PROVE  lamps[y] <=> \E k \in 1 .. Len(list) : list[k].zone_id = y /\ light_states[k - 1]
    BY <1>3, <2>2, <2>5 DEF LightInv
  <2> QED
    BY <2>4, <2>6, ListsAre
<1> QED
  BY <1>6, <1>7, <1>8

\* One turn of the callback's loops.
LEMMA EntryStreetInv ==
  ASSUME StreetInv, Light!ApplyEntry, UNCHANGED <<vars, aligned>> PROVE StreetInv'
<1> USE DEF StreetInv
<1> DEFINE e == config[i + 1]
           changes == e.zone_id \in Zones /\ light_states[i] # e.on
<1>1. config \in Lists /\ i \in Nat /\ i < Len(config) /\ phase = "callback"
  BY ZonesAssumption DEF StreetTypeOK, Light!DriverTypeOK, Light!ApplyEntry
<1>2. i \in Zones /\ i + 1 \in Positions /\ i + 1 <= N /\ e.zone_id \in Zones /\ e.on \in BOOLEAN
  <2>1. Len(config) \in 0 .. N /\ N \in Nat
    BY <1>1, ListsAre, ZonesAssumption
  <2>2. i \in Zones /\ i + 1 \in 1 .. Len(config) /\ i + 1 <= N
    BY <1>1, <2>1 DEF Zones
  <2> QED
    BY <1>1, <2>2, ListsAre DEF Positions
<1>3. /\ lamps \in [Zones -> BOOLEAN] /\ light_states \in [Zones -> BOOLEAN]
      /\ UNCHANGED <<config, phase, resets>> /\ i' = i + 1
  BY DEF StreetTypeOK, Light!DriverTypeOK, Light!ApplyEntry, Light!Indices, Zones
<1>4. /\ lamps' = IF light_states[i] # e.on THEN [lamps EXCEPT ![e.zone_id] = e.on] ELSE lamps
      /\ light_states' = IF light_states[i] # e.on THEN [light_states EXCEPT ![i] = e.on]
                                                   ELSE light_states
  BY <1>2 DEF Light!ApplyEntry, Light!Indices, Zones
<1>5. light_states' = [light_states EXCEPT ![i] = e.on]
  BY <1>2, <1>3, <1>4
<1>6. StreetTypeOK'
  <2>1. TypeOK'
    BY DEF StreetTypeOK, TypeOK, vars
  <2>2. Light!DriverTypeOK'
    <3>1. lamps' \in [Zones -> BOOLEAN] /\ light_states' \in [Zones -> BOOLEAN]
      BY <1>2, <1>3, <1>4
    <3>2. i' \in 0 .. N
      BY <1>1, <1>2, <1>3, ZonesAssumption
    <3> QED
      BY <1>3, <3>1, <3>2 DEF StreetTypeOK, Light!DriverTypeOK, Light!Indices, Zones
  <2> QED
    BY <1>3, <2>1, <2>2 DEF StreetTypeOK
<1>7. Distinct'
  BY <1>3 DEF Distinct, Positions
<1>8. LightInv'
  <2> SUFFICES ASSUME aligned
      PROVE  /\ \A k \in Zones : light_states'[k] => k < Len(config)
             /\ \A y \in Zones :
                  lamps'[y] <=> \E k \in Positions : config[k].zone_id = y /\ light_states'[k - 1]
             /\ \A k \in Positions : k <= i + 1 => (light_states'[k - 1] <=> config[k].on)
    BY <1>1, <1>3 DEF LightInv, Positions
  <2>1. \A k \in Positions : k \in Int /\ k - 1 \in Zones /\ (k # i + 1 => k - 1 # i)
    BY <1>1, ListsAre DEF Positions
  <2>2. \A k \in Positions : light_states'[k - 1] = IF k = i + 1 THEN e.on ELSE light_states[k - 1]
    BY <1>1, <1>2, <1>3, <1>5, <2>1
  <2>3. \A k \in Zones : light_states'[k] => k < Len(config)
    BY <1>1, <1>3, <1>5 DEF LightInv
  <2>4. \A k \in Positions : k <= i + 1 => (light_states'[k - 1] <=> config[k].on)
    <3>1. \A k \in Positions : k <= i + 1 /\ k # i + 1 => k <= i
      BY <1>1, <2>1
    <3> QED
      BY <1>1, <2>2, <3>1 DEF LightInv
  <2>5. lamps[e.zone_id] <=> light_states[i]
    <3>1. \A k \in Positions : config[k].zone_id = e.zone_id => k - 1 = i
      BY <1>1, <1>2 DEF Distinct
    <3>2. (i + 1) - 1 = i
      BY <1>1
    <3> QED
      BY <1>2, <3>1, <3>2 DEF LightInv
  <2>6. lamps' = [lamps EXCEPT ![e.zone_id] = e.on]
    BY <1>2, <1>3, <1>4, <2>5
  <2>7. ASSUME NEW y \in Zones
        PROVE  lamps'[y] <=> \E k \in Positions : config[k].zone_id = y /\ light_states'[k - 1]
    <3>1. CASE y = e.zone_id
      <4>1. \A k \in Positions : config[k].zone_id = y => k = i + 1
        BY <1>2, <3>1 DEF Distinct
      <4> QED
        BY <1>2, <1>3, <2>2, <2>6, <3>1, <4>1
    <3>2. CASE y # e.zone_id
      <4>1. lamps'[y] = lamps[y]
        BY <1>2, <1>3, <2>6, <3>2
      <4>2. \A k \in Positions : config[k].zone_id = y => light_states'[k - 1] = light_states[k - 1]
        BY <2>2, <3>2
      <4> QED
        BY <4>1, <4>2 DEF LightInv
    <3> QED
      BY <3>1, <3>2
  <2> QED
    BY <2>3, <2>4, <2>7
<1> QED
  BY <1>6, <1>7, <1>8

LEMMA RestStreetInv ==
  ASSUME StreetInv, Light!SwitchOffRest, UNCHANGED <<vars, aligned>> PROVE StreetInv'
<1> USE DEF StreetInv
<1>1. config \in Lists /\ i \in Zones /\ i + 1 \in 0 .. N /\ i >= Len(config) /\ phase = "callback"
  BY ZonesAssumption DEF StreetTypeOK, Light!DriverTypeOK, Light!SwitchOffRest, Zones
<1>2. /\ lamps \in [Zones -> BOOLEAN] /\ light_states \in [Zones -> BOOLEAN]
      /\ UNCHANGED <<config, phase, resets>> /\ i' = i + 1
      /\ lamps' = IF light_states[i] THEN [lamps EXCEPT ![i] = FALSE] ELSE lamps
      /\ light_states' = [light_states EXCEPT ![i] = FALSE]
  BY DEF StreetTypeOK, Light!DriverTypeOK, Light!SwitchOffRest, Light!Indices, Zones
<1>3. StreetTypeOK'
  <2>1. TypeOK'
    BY DEF StreetTypeOK, TypeOK, vars
  <2>2. Light!DriverTypeOK'
    <3>1. lamps' \in [Zones -> BOOLEAN] /\ light_states' \in [Zones -> BOOLEAN]
      BY <1>1, <1>2
    <3> QED
      BY <1>1, <1>2, <3>1 DEF StreetTypeOK, Light!DriverTypeOK, Light!Indices, Zones
  <2> QED
    BY <1>2, <2>1, <2>2 DEF StreetTypeOK
<1>4. Distinct'
  BY <1>2 DEF Distinct, Positions
<1>5. LightInv'
  <2> SUFFICES ASSUME aligned PROVE LightInv'
    BY <1>1, <1>2 DEF LightInv
  <2>1. ~light_states[i]
    BY <1>1, ListsAre DEF LightInv, Zones
  <2>2. light_states' = light_states /\ lamps' = lamps
    BY <1>1, <1>2, <2>1
  <2>3. \A k \in Positions : k <= i + 1 => k <= i
    BY <1>1, ListsAre DEF Positions, Zones
  <2>4. /\ \A k \in Zones : light_states[k] => k < Len(config)
        /\ \A y \in Zones :
             lamps[y] <=> \E k \in Positions : config[k].zone_id = y /\ light_states[k - 1]
        /\ \A k \in Positions : k <= i => (light_states[k - 1] <=> config[k].on)
    BY <1>1 DEF LightInv
  <2>5. \A k \in Positions : k <= i + 1 => (light_states[k - 1] <=> config[k].on)
    BY <2>3, <2>4
  <2>6. Positions' = Positions /\ config' = config /\ phase' = "callback"
    BY <1>1, <1>2 DEF Positions
  <2> HIDE DEF StreetInv
  <2> QED
    BY <1>2, <2>2, <2>4, <2>5, <2>6 DEF LightInv
<1> QED
  BY <1>3, <1>4, <1>5

\* The rest of the light: boot, the end of the callback, power.
LEMMA PhaseStreetInv ==
  ASSUME StreetInv, UNCHANGED vars,
         \/ (Light!Boot \/ Light!CreateFails \/ Light!CallbackReturns) /\ UNCHANGED aligned
         \/ Light!PowerCycle /\ aligned' = TRUE
  PROVE  StreetInv'
<1> USE DEF StreetInv
<1>1. config' = config /\ config \in Lists /\ i \in 0 .. N /\ resets \in Nat /\ TypeOK'
  BY DEF Light!Boot, Light!StartCallback, Light!CreateFails, Light!CallbackReturns,
         Light!PowerCycle, StreetTypeOK, Light!DriverTypeOK, vars, TypeOK
<1>2. aligned' \in BOOLEAN
  BY DEF StreetTypeOK
<1>3. Light!AllOff \in [Light!Indices -> BOOLEAN]
  BY DEF Light!AllOff
<1>4. Light!DriverTypeOK'
  BY <1>1, <1>3, ZonesAssumption
  DEF Light!Boot, Light!StartCallback, Light!CreateFails, Light!CallbackReturns,
      Light!PowerCycle, StreetTypeOK, Light!DriverTypeOK
<1>5. StreetTypeOK' /\ Distinct'
  BY <1>1, <1>2, <1>4 DEF StreetTypeOK, Distinct, Positions
<1>6. LightInv'
  <2>1. CASE Light!CreateFails \/ Light!CallbackReturns
    <3>1. UNCHANGED <<lamps, light_states, config, i, aligned>> /\ phase' # "create"
      BY <2>1 DEF Light!CreateFails, Light!CallbackReturns, Light!PowerCycle
    <3>2. phase' = "waiting" => phase = "callback" /\ \A k \in Positions : k <= i
      BY <1>1, <2>1, ListsAre DEF Light!CreateFails, Light!CallbackReturns, Positions
    <3>3. phase' # "callback"
      BY <2>1 DEF Light!CreateFails, Light!CallbackReturns
    <3> QED
      BY <3>1, <3>2, <3>3 DEF LightInv, Positions
  <2>2. CASE Light!Boot \/ Light!PowerCycle
    <3>1. lamps' = Light!AllOff /\ light_states' = Light!AllOff /\ i' = 0 /\ phase' # "waiting"
      BY <2>2 DEF Light!Boot, Light!StartCallback, Light!PowerCycle, LightInv
    <3>2. \A k \in Zones : lamps'[k] = FALSE /\ light_states'[k] = FALSE
      BY <3>1 DEF Light!AllOff, Light!Indices, Zones
    <3>3. \A k \in Positions : k - 1 \in Zones /\ ~(k <= 0)
      BY <1>1, ListsAre DEF Positions
    <3> QED
      BY <1>1, <3>1, <3>2, <3>3 DEF LightInv, Positions
  <2> QED
    BY <2>1, <2>2
<1> QED
  BY <1>5, <1>6

LEMMA StreetInductive == StreetSpec => []StreetInv
<1>1. StreetInv /\ TypeOK' /\ [StreetNext]_streetVars => StreetInv'
  <2> SUFFICES ASSUME StreetInv, TypeOK', [StreetNext]_streetVars PROVE StreetInv'
    OBVIOUS
  <2>1. CASE ControllerStep \/ UNCHANGED streetVars
    BY <2>1, ControllerStreetInv DEF ControllerStep, streetVars
  <2>2. CASE Poll
    BY <2>2, PollStreetInv
  <2>3. CASE LightStep
    BY <2>3, EntryStreetInv, RestStreetInv, PhaseStreetInv DEF LightStep, Light!Apply
  <2>4. CASE LightReset
    BY <2>4, PhaseStreetInv DEF LightReset
  <2> QED
    BY <2>1, <2>2, <2>3, <2>4 DEF StreetNext
<1>2. StreetSpec => []TypeOK
  BY StreetImplementsController, TypeCorrect, PTL
<1> QED
  BY <1>1, <1>2, InitStreetInv, PTL DEF StreetSpec

-----------------------------------------------------------------------------
(* Types of the whole, and that the client's list is one the server may have *)
(* sent: the zones of some groups in the order of the groups.                *)
THEOREM StreetTypeCorrect == StreetSpec => []StreetTypeOK
  BY StreetInductive, PTL DEF StreetInv

(* When the callback has returned, the lamps that are on are those the list  *)
(* says, unless a lit position has changed its zone since boot.              *)
THEOREM LampsAreTheConfigured == StreetSpec => []LampsFollowConfiguration
<1>1. ASSUME StreetInv PROVE LampsFollowConfiguration
  <2> SUFFICES ASSUME phase = "waiting", aligned PROVE Lit = Configured
    BY DEF LampsFollowConfiguration
  <2>1. config \in Lists
    BY <1>1 DEF StreetInv, StreetTypeOK
  <2>2. DOMAIN config = Positions /\ \A k \in Positions : config[k].zone_id \in Zones
    BY <2>1, ListsAre DEF Positions
  <2>3. \A y \in Zones : lamps[y] <=> \E k \in Positions : config[k].zone_id = y /\ config[k].on
    BY <1>1 DEF StreetInv, LightInv
  <2> QED
    BY <2>2, <2>3 DEF Lit, Configured
<1> QED
  BY <1>1, StreetInductive, PTL
=============================================================================

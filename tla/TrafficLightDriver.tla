------------------------- MODULE TrafficLightDriver -------------------------
(***************************************************************************)
(* The firmware of the traffic light (EC19D).  switch_lights writes seven  *)
(* pins one after the other, with a pause of 4 s on yellow and of 1 s on   *)
(* red; it runs once at boot on the main thread and then inside the        *)
(* configuration callback, so that nothing else is applied while it runs.  *)
(* The Kaa client (external) polls the server, keeps the newest            *)
(* configuration in persistent storage and calls the callback with it;     *)
(* configurations that come and go between two polls are never seen.       *)
(***************************************************************************)
EXTENDS Naturals

CONSTANT MaxResets   \* power cycles in one behaviour

ASSUME ResetsAssumption == MaxResets \in Nat

VARIABLES
  lit,             \* the lamps that are on, as pairs <<road, colour>>
  at,              \* the next pin switch_lights writes, or "idle"
  allow,           \* the road the running switch_lights opens
  main_road_state, \* TRUE is ENUM_MAIN_ROAD_STATE_ALLOW
  config,          \* the root configuration the client holds and persists
  server,          \* the configuration active on the server
  phase,           \* where APP_main is
  ip_connected,
  resets

vars == <<lit, at, allow, main_road_state, config, server, phase, ip_connected, resets>>

Roads == {"main", "secondary"}
Colours == {"red", "yellow", "green"}
Other(r) == IF r = "main" THEN "secondary" ELSE "main"

Pins == {"greenOff", "yellowOn", "yellowOff", "redOn",
         "allowRedOff", "allowYellowOff", "allowGreenOn"}
Phases == {"boot", "create", "restore", "connecting", "running", "dead"}

TypeOK ==
  /\ lit \subseteq Roads \X Colours
  /\ at \in Pins \cup {"idle"}
  /\ allow \in Roads
  /\ main_road_state \in BOOLEAN
  /\ config \in BOOLEAN
  /\ server \in BOOLEAN
  /\ phase \in Phases
  /\ ip_connected \in BOOLEAN
  /\ resets \in Nat

\* The road a configuration opens.
RoadOf(state) == IF state THEN "main" ELSE "secondary"

-----------------------------------------------------------------------------
\* At power-on APP_main starts with switch_lights(SECONDARY..., MAIN...).
Init ==
  /\ lit = {}
  /\ at = "greenOff" /\ allow = "secondary"
  /\ main_road_state = FALSE
  /\ config \in BOOLEAN     \* persisted by an earlier run, or the default
  /\ server \in BOOLEAN
  /\ phase = "boot"
  /\ ip_connected = FALSE
  /\ resets = MaxResets

(* switch_lights: one action per sndc_io_write, the pauses lie between them. *)
Write(pin, next, lamps) ==
  /\ at = pin
  /\ lit' = lamps
  /\ at' = next
  /\ UNCHANGED <<allow, main_road_state, config, server, phase, ip_connected, resets>>

disallow == Other(allow)

\* Mutants: the closing road keeps its green lamp; it gets no red one.
GreenOffForgotten == Write("greenOff", "yellowOn", lit)
YellowOffThenOpen == Write("yellowOff", "allowRedOff", lit \ {<<disallow, "yellow">>})

GreenOff == Write("greenOff", "yellowOn", lit \ {<<disallow, "green">>})
YellowOn == Write("yellowOn", "yellowOff", lit \cup {<<disallow, "yellow">>})
YellowOff == Write("yellowOff", "redOn", lit \ {<<disallow, "yellow">>})
RedOn == Write("redOn", "allowRedOff", lit \cup {<<disallow, "red">>})
AllowRedOff == Write("allowRedOff", "allowYellowOff", lit \ {<<allow, "red">>})
AllowYellowOff == Write("allowYellowOff", "allowGreenOn", lit \ {<<allow, "yellow">>})

\* Mutant: the callback does not record the state it has applied.
AllowGreenOnUnrecorded ==
  /\ at = "allowGreenOn"
  /\ lit' = lit \cup {<<allow, "green">>}
  /\ at' = "idle"
  /\ phase' = CASE phase = "boot" -> "create"
                [] phase = "restore" -> "connecting"
                [] OTHER -> phase
  /\ UNCHANGED <<allow, main_road_state, config, server, ip_connected, resets>>

\* The last pin, and what its caller does then: APP_main goes on to create the
\* client, the callback records the state it has applied.
AllowGreenOn ==
  /\ at = "allowGreenOn"
  /\ lit' = lit \cup {<<allow, "green">>}
  /\ at' = "idle"
  /\ main_road_state' = IF phase = "boot" THEN main_road_state ELSE config
  /\ phase' = CASE phase = "boot" -> "create"
                [] phase = "restore" -> "connecting"
                [] OTHER -> phase
  /\ UNCHANGED <<allow, config, server, ip_connected, resets>>

\* kaa_client_create fails: APP_main returns, the lamps stay as they are.
CreateFails ==
  /\ phase = "create" /\ at = "idle"
  /\ phase' = "dead"
  /\ UNCHANGED <<lit, at, allow, main_road_state, config, server, ip_connected, resets>>

\* Mutant: only one of the states is handled.
OnAllowOnly(c) ==
  IF main_road_state # c /\ c
    THEN at' = "greenOff" /\ allow' = RoadOf(c)
    ELSE UNCHANGED <<at, allow>>

\* kaa_on_configuration_updated(c): nothing to do when the state is the one applied.
OnConfigurationUpdated(c) ==
  IF main_road_state # c
    THEN at' = "greenOff" /\ allow' = RoadOf(c)
    ELSE UNCHANGED <<at, allow>>

\* The client exists; APP_main applies the persisted configuration itself.
Restore ==
  /\ phase = "create" /\ at = "idle"
  /\ OnConfigurationUpdated(config)
  /\ phase' = IF main_road_state # config THEN "restore" ELSE "connecting"
  /\ UNCHANGED <<lit, main_road_state, config, server, ip_connected, resets>>

\* APP_handle_msg, EVENT_TYPE_CM_IP_ACQUIRED with status 0 (after start_client).
IpAcquired ==
  /\ phase \in {"connecting", "running"}
  /\ ~ip_connected
  /\ ip_connected' = TRUE
  /\ UNCHANGED <<lit, at, allow, main_road_state, config, server, phase, resets>>

\* The loop of APP_main: kaa_client_start, once.
StartClient ==
  /\ phase = "connecting"
  /\ ip_connected
  /\ phase' = "running"
  /\ UNCHANGED <<lit, at, allow, main_road_state, config, server, ip_connected, resets>>

\* The client has fetched a configuration: it is stored and the callback runs.
Poll ==
  /\ phase = "running" /\ at = "idle"
  /\ config # server
  /\ config' = server
  /\ OnConfigurationUpdated(server)
  /\ UNCHANGED <<lit, main_road_state, server, phase, ip_connected, resets>>

\* The controller, or an operator, activates another configuration.
ServerChange ==
  /\ server' = ~server
  /\ UNCHANGED <<lit, at, allow, main_road_state, config, phase, ip_connected, resets>>

\* Power is lost and comes back: lamps off, RAM gone, configuration kept.
PowerCycle ==
  /\ resets > 0
  /\ resets' = resets - 1
  /\ lit' = {}
  /\ at' = "greenOff" /\ allow' = "secondary"
  /\ main_road_state' = FALSE
  /\ phase' = "boot"
  /\ ip_connected' = FALSE
  /\ UNCHANGED <<config, server>>

Switching == GreenOff \/ YellowOn \/ YellowOff \/ RedOn \/ AllowRedOff
               \/ AllowYellowOff \/ AllowGreenOn

Next ==
  \/ Switching \/ Restore \/ CreateFails
  \/ IpAcquired \/ StartClient \/ Poll
  \/ ServerChange \/ PowerCycle

Spec == Init /\ [][Next]_vars

(* The firmware's own threads run and the client keeps polling; the network, *)
(* the server and the power owe nothing.  The server may change again and    *)
(* again between polls, so that Poll is only enabled again and again.        *)
Fairness ==
  /\ WF_vars(Switching) /\ WF_vars(Restore \/ CreateFails) /\ WF_vars(StartClient)
  /\ SF_vars(Poll)

FairSpec == Spec /\ Fairness

-----------------------------------------------------------------------------
(* A green light always faces red: while a road is green the other road has  *)
(* its red lamp on and neither of its other two, at every moment of          *)
(* switch_lights, after every power cycle and whatever the server did.       *)
GreenFacesRed ==
  \A r \in Roads : <<r, "green">> \in lit =>
    /\ <<Other(r), "red">> \in lit
    /\ <<Other(r), "green">> \notin lit
    /\ <<Other(r), "yellow">> \notin lit

(* Between switches the lamps are exactly those of main_road_state, and that *)
(* is the configuration the client holds: the callback's test against its    *)
(* own copy never leaves a lamp behind.                                      *)
Steady(state) == {<<RoadOf(state), "green">>, <<Other(RoadOf(state)), "red">>}

SteadyLamps ==
  /\ at = "idle" => lit = Steady(main_road_state)
  /\ at = "idle" /\ phase \in {"connecting", "running"} => main_road_state = config

(* The driver implements the promise of Intersection.                        *)
Crossing == INSTANCE Intersection WITH open <- {r \in Roads : <<r, "green">> \in lit}
ImplementsIntersection == Crossing!Spec

(* When the server settles while the client runs, the lamps settle on the    *)
(* server's state, however many states went by unseen.                       *)
FollowsServer ==
  \A state \in BOOLEAN :
    <>[](server = state /\ phase = "running") => <>[](lit = Steady(state))
=============================================================================

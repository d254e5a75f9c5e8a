------------------------- MODULE StreetLightDriver -------------------------
(***************************************************************************)
(* The firmware of a street light (EC19D) that drives the lamps of up to   *)
(* six zones.  The configuration is a list of zone settings; the callback  *)
(* walks the list and remembers the state of each entry by its POSITION in *)
(* light_states, while it writes the pin of the entry's ZONE.  What the    *)
(* lists are is left to the module that composes this one with a server.   *)
(***************************************************************************)
EXTENDS Naturals, Sequences

CONSTANTS
  LIGHT_ZONES_COUNT,   \* 6 in the firmware; lists are no longer than this
  MaxResets            \* power cycles in one behaviour

VARIABLES
  lamps,          \* lamps[k]: the pin light_zones[k] is on
  light_states,   \* what the firmware believes of them
  config,         \* the list the client holds and persists
  i,              \* the position the callback has reached
  phase,          \* where the firmware is
  resets

driverVars == <<lamps, light_states, config, i, phase, resets>>

Indices == 0 .. LIGHT_ZONES_COUNT - 1
AllOff == [k \in Indices |-> FALSE]

DriverTypeOK ==
  /\ lamps \in [Indices -> BOOLEAN]
  /\ light_states \in [Indices -> BOOLEAN]
  /\ i \in 0 .. LIGHT_ZONES_COUNT
  /\ phase \in {"create", "callback", "waiting", "dead"}
  /\ resets \in Nat

-----------------------------------------------------------------------------
DriverInit(persisted) ==
  /\ lamps = AllOff
  /\ light_states = AllOff
  /\ config = persisted
  /\ i = 0
  /\ phase = "create"
  /\ resets = MaxResets

\* The callback is called with the list `config'`.
StartCallback ==
  /\ i' = 0
  /\ phase' = "callback"
  /\ UNCHANGED light_states

\* APP_main: the client exists; every pin is written off and the persisted
\* configuration is applied before the client is started.
Boot ==
  /\ phase = "create"
  /\ lamps' = AllOff
  /\ StartCallback
  /\ UNCHANGED <<config, resets>>

\* kaa_client_create fails: APP_main returns.
CreateFails ==
  /\ phase = "create"
  /\ phase' = "dead"
  /\ UNCHANGED <<lamps, light_states, config, i, resets>>

\* The client (external) has fetched a configuration: it is stored and the
\* callback runs on the client's own thread, so never twice at a time.
Deliver(list) ==
  /\ phase = "waiting"
  /\ config # list
  /\ config' = list
  /\ StartCallback
  /\ UNCHANGED <<lamps, resets>>

\* Mutant: the pin, too, is taken by position.
ApplyEntryByPosition ==
  /\ phase = "callback" /\ i < Len(config)
  /\ lamps' = [lamps EXCEPT ![i] = config[i + 1].on]
  /\ light_states' = [light_states EXCEPT ![i] = config[i + 1].on]
  /\ i' = i + 1
  /\ UNCHANGED <<config, phase, resets>>

\* One turn of the while loop: the entry at position i.
ApplyEntry ==
  /\ phase = "callback" /\ i < Len(config)
  /\ LET e == config[i + 1]
         changes == e.zone_id \in Indices /\ light_states[i] # e.on
     IN /\ lamps' = IF changes THEN [lamps EXCEPT ![e.zone_id] = e.on] ELSE lamps
        /\ light_states' = IF changes THEN [light_states EXCEPT ![i] = e.on]
                                      ELSE light_states
  /\ i' = i + 1
  /\ UNCHANGED <<config, phase, resets>>

\* One turn of the for loop: the positions past the end of the list.
SwitchOffRest ==
  /\ phase = "callback" /\ i >= Len(config) /\ i < LIGHT_ZONES_COUNT
  /\ lamps' = IF light_states[i] THEN [lamps EXCEPT ![i] = FALSE] ELSE lamps
  /\ light_states' = [light_states EXCEPT ![i] = FALSE]
  /\ i' = i + 1
  /\ UNCHANGED <<config, phase, resets>>

CallbackReturns ==
  /\ phase = "callback" /\ i = LIGHT_ZONES_COUNT
  /\ phase' = "waiting"
  /\ UNCHANGED <<lamps, light_states, config, i, resets>>

\* Power is lost and comes back: lamps off, RAM gone, configuration kept.
PowerCycle ==
  /\ resets > 0
  /\ resets' = resets - 1
  /\ lamps' = AllOff
  /\ light_states' = AllOff
  /\ i' = 0
  /\ phase' = "create"
  /\ UNCHANGED config

Apply == Boot \/ CreateFails \/ ApplyEntry \/ SwitchOffRest \/ CallbackReturns
=============================================================================

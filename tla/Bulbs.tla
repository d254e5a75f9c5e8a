------------------------------- MODULE Bulbs -------------------------------
(***************************************************************************)
(* The light bulbs (light.c).  One thread per bulb dims it by switching    *)
(* its pin; the thread of the Kaa client (external) handles the events:    *)
(* it changes brightness, state, mode or position, rewrites the file that  *)
(* holds them, and tells whoever subscribes (who that is, and the name of  *)
(* the device, are left out).  A file is truncated when it is              *)
(* opened, its first half reaches the disk at the fseek and the rest when  *)
(* it is closed, so a crash may leave it empty or half written.  After a   *)
(* restart the files are loaded when the endpoint is attached to its user; *)
(* events are delivered to attached endpoints only.  Left out: an event    *)
(* for a bulb that is not there, for which get_builb_index returns -1 and  *)
(* the setters write outside their arrays (undefined), and a file that     *)
(* cannot be opened.                                                       *)
(***************************************************************************)
EXTENDS Integers

CONSTANTS
  Bulb,          \* the bulbs (gpios_count)
  Requests,      \* the brightness an event may ask for, any integer
  MaxRequests,   \* events that change something
  MaxCrashes

ASSUME BulbsAssumption ==
  /\ Requests \subseteq Int
  /\ MaxRequests \in Nat /\ MaxCrashes \in Nat

VARIABLES
  brightness, bulbs_state, operation_mode, last_position,
  doing,       \* where the event thread is
  lit,         \* the bulbs' pins
  at, percents,       \* where each bulb's thread is, and the brightness it read
  bulbsFile, geoFile, \* brightness_state and geofencing_state
  told,        \* the bulbs and the geofencing state as they were last sent to subscribers
  cutOff,      \* until the next message: the bulbs a crash kept from being saved and told, and
               \* whether one cut a rewrite of geofencing_state off
  requests, crashes

vars == <<brightness, bulbs_state, operation_mode, last_position, doing, lit, at, percents,
          bulbsFile, geoFile, told, cutOff, requests, crashes>>

bulbs == <<brightness, bulbs_state>>
geo == <<operation_mode, last_position>>
pwm == <<lit, at, percents>>
files == <<bulbsFile, geoFile>>
subscribers == <<told, cutOff>>
bounds == <<requests, crashes>>

Modes == {"on", "off", "geofencing"}
Positions == {"home", "near", "away"}
Sizes == {"none", "half", "full"}    \* "none": absent or empty

BulbSteps == {"openBulbs", "flushBrightness", "closeBulbs", "sendBulbs"}
GeoSteps == {"openGeo", "flushPosition", "closeGeo", "sendGeo"}
LoadSteps == {"attaching", "loadStates", "loadMode", "loadPosition"}
PwmSteps == {"read", "state", "mode", "fencing", "position", "light", "dark"}

BulbValues == [Bulb -> 0 .. 100] \X [Bulb -> BOOLEAN]
GeoValues == Modes \X Positions

TypeOK ==
  /\ brightness \in [Bulb -> 0 .. 100] /\ bulbs_state \in [Bulb -> BOOLEAN]
  /\ operation_mode \in Modes /\ last_position \in Positions
  /\ doing \in {"down", "idle", "deinit"} \cup LoadSteps \cup BulbSteps \cup GeoSteps
  /\ lit \in [Bulb -> BOOLEAN]
  /\ at \in [Bulb -> PwmSteps] /\ percents \in [Bulb -> 0 .. 100]
  /\ bulbsFile \in [size : Sizes, brightness : [Bulb -> 0 .. 100], bulbs_state : [Bulb -> BOOLEAN]]
  /\ geoFile \in [size : Sizes, position : Positions, mode : Modes]
  /\ told \in [bulbs : BulbValues, geo : GeoValues]
  /\ cutOff \in [bulbs : SUBSET BulbValues, geo : BOOLEAN]
  /\ requests \in 0 .. MaxRequests /\ crashes \in 0 .. MaxCrashes

\* What the program starts with: full brightness, and ENUM_BULB_STATUS_ON,
\* which is zero like the array.
Full == [b \in Bulb |-> 100]
AllOn == [b \in Bulb |-> TRUE]
GeoAtStart == <<"off", "away">>

Init ==
  /\ brightness = Full /\ bulbs_state = AllOn
  /\ operation_mode = "off" /\ last_position = "away"
  /\ doing = "attaching"
  /\ lit = [b \in Bulb |-> FALSE]
  /\ at = [b \in Bulb |-> "read"] /\ percents = Full
  /\ bulbsFile = [size |-> "none", brightness |-> Full, bulbs_state |-> AllOn]
  /\ geoFile = [size |-> "none", position |-> "away", mode |-> "off"]
  /\ told = [bulbs |-> bulbs, geo |-> geo]
  /\ cutOff = [bulbs |-> {}, geo |-> FALSE] /\ requests = 0 /\ crashes = 0

-----------------------------------------------------------------------------
\* The thread of a bulb, brightness_loop: each read of what the event thread
\* writes, and each write of the pin, is a step.
Pwm(b, from, to) ==
  /\ at[b] = from /\ doing # "down"
  /\ at' = [at EXCEPT ![b] = to]
  /\ UNCHANGED <<bulbs, geo, doing, files, subscribers, bounds>>

\* The brightness read decides how a bulb shines that is to shine.
Shining(b) == IF percents[b] > 0 THEN "light" ELSE "dark"

ReadBrightness(b) ==
  /\ Pwm(b, "read", "state")
  /\ percents' = [percents EXCEPT ![b] = brightness[b]]
  /\ UNCHANGED lit

\* Mutant: the mode and the position do not matter.
ReadStateOnly(b) ==
  /\ Pwm(b, "state", IF bulbs_state[b] THEN Shining(b) ELSE "dark")
  /\ UNCHANGED <<lit, percents>>

ReadState(b) ==
  /\ Pwm(b, "state", IF bulbs_state[b] THEN "mode" ELSE "dark")
  /\ UNCHANGED <<lit, percents>>

\* is_operational reads the mode once for each of its comparisons, and the
\* position only under geofencing; all three without a mutex.
ReadMode(b) ==
  /\ Pwm(b, "mode", IF operation_mode = "on" THEN Shining(b) ELSE "fencing")
  /\ UNCHANGED <<lit, percents>>

ReadModeAgain(b) ==
  /\ Pwm(b, "fencing", IF operation_mode = "geofencing" THEN "position" ELSE "dark")
  /\ UNCHANGED <<lit, percents>>

ReadPosition(b) ==
  /\ Pwm(b, "position", IF last_position = "home" THEN Shining(b) ELSE "dark")
  /\ UNCHANGED <<lit, percents>>

\* Below full brightness a dark part of the period follows.
SetPin(b) ==
  /\ Pwm(b, "light", IF percents[b] < 100 THEN "dark" ELSE "read")
  /\ lit' = [lit EXCEPT ![b] = TRUE]
  /\ UNCHANGED percents

ClearPin(b) ==
  /\ Pwm(b, "dark", "read")
  /\ lit' = [lit EXCEPT ![b] = FALSE]
  /\ UNCHANGED percents

Dim(b) ==
  \/ ReadBrightness(b) \/ ReadState(b) \/ ReadMode(b) \/ ReadModeAgain(b)
  \/ ReadPosition(b) \/ SetPin(b) \/ ClearPin(b)

-----------------------------------------------------------------------------
\* The events.
\* Mutant: no upper bound.
ClampBelow(percent) == IF percent < 0 THEN 0 ELSE percent

Clamp(percent) == IF percent < 0 THEN 0 ELSE IF percent > 100 THEN 100 ELSE percent

Handle(next) ==
  /\ doing = "idle" /\ requests < MaxRequests
  /\ doing' = next /\ requests' = requests + 1
  /\ UNCHANGED <<pwm, files, subscribers, crashes>>

OnBrightnessRequest(b, percent) ==
  /\ Handle("openBulbs")
  /\ brightness' = [brightness EXCEPT ![b] = Clamp(percent)]
  /\ UNCHANGED <<bulbs_state, geo>>

OnStatusRequest(b, status) ==
  /\ Handle("openBulbs")
  /\ bulbs_state' = [bulbs_state EXCEPT ![b] = status]
  /\ UNCHANGED <<brightness, geo>>

\* process_operation_mode with the mode or the position as it is; it does
\* nothing more when nothing changes.
OnGeoUpdate ==
  /\ doing = "idle" /\ requests < MaxRequests /\ requests' = requests + 1
  /\ \/ last_position' \in Positions /\ UNCHANGED operation_mode
     \/ operation_mode' \in Modes /\ UNCHANGED last_position
  /\ doing' = IF geo' = geo THEN "idle" ELSE "openGeo"
  /\ UNCHANGED <<bulbs, pwm, files, subscribers, crashes>>

\* A subscription or a request for the list is answered with what there is.
OnListRequest ==
  /\ doing = "idle"
  /\ told' = [told EXCEPT !.bulbs = bulbs]
  /\ cutOff' = [cutOff EXCEPT !.bulbs = {}]
  /\ UNCHANGED <<bulbs, geo, doing, pwm, files, bounds>>

Go(from, to) ==
  /\ doing = from /\ doing' = to
  /\ UNCHANGED <<bulbs, geo, pwm, bounds>>

\* persist_bulbs_state.
PersistBulbs ==
  /\ \/ Go("openBulbs", "flushBrightness") /\ bulbsFile' = [bulbsFile EXCEPT !.size = "none"]
     \/ /\ Go("flushBrightness", "closeBulbs")
        /\ bulbsFile' = [bulbsFile EXCEPT !.size = "half", !.brightness = brightness]
     \/ /\ Go("closeBulbs", "sendBulbs")
        /\ bulbsFile' = [bulbsFile EXCEPT !.size = "full", !.bulbs_state = bulbs_state]
  /\ UNCHANGED <<geoFile, subscribers>>

\* persist_geofencing_state.
PersistGeo ==
  /\ \/ Go("openGeo", "flushPosition") /\ geoFile' = [geoFile EXCEPT !.size = "none"]
     \/ /\ Go("flushPosition", "closeGeo")
        /\ geoFile' = [geoFile EXCEPT !.size = "half", !.position = last_position]
     \/ /\ Go("closeGeo", "sendGeo")
        /\ geoFile' = [geoFile EXCEPT !.size = "full", !.mode = operation_mode]
  /\ UNCHANGED <<bulbsFile, subscribers>>

SendBulbs ==
  /\ Go("sendBulbs", "idle")
  /\ told' = [told EXCEPT !.bulbs = bulbs]
  /\ cutOff' = [cutOff EXCEPT !.bulbs = {}]
  /\ UNCHANGED files

\* A change of the geofencing state sends the list of bulbs, too.
SendGeo ==
  /\ Go("sendGeo", "idle")
  /\ told' = [bulbs |-> bulbs, geo |-> geo]
  /\ cutOff' = [bulbs |-> {}, geo |-> FALSE]
  /\ UNCHANGED files

-----------------------------------------------------------------------------
\* load_previous_state_if_any, when the endpoint is attached: what a short
\* file does not hold keeps the value it has.  The bulbs' threads run meanwhile.
Load(from, to) ==
  /\ doing = from /\ doing' = to
  /\ UNCHANGED <<pwm, files, subscribers, bounds>>

LoadBrightness ==
  /\ Load("attaching", "loadStates")
  /\ brightness' = IF bulbsFile.size = "none" THEN brightness ELSE bulbsFile.brightness
  /\ UNCHANGED <<bulbs_state, geo>>

\* Mutant: the states are not read back.
LoadStatesForgotten ==
  /\ Load("loadStates", "loadMode")
  /\ UNCHANGED <<bulbs, geo>>

LoadStates ==
  /\ Load("loadStates", "loadMode")
  /\ bulbs_state' = IF bulbsFile.size = "full" THEN bulbsFile.bulbs_state ELSE bulbs_state
  /\ UNCHANGED <<brightness, geo>>

\* process_operation_mode with what the file holds writes the mode first, and
\* rewrites the file if either differed from what main started with.
LoadMode ==
  /\ Load("loadMode", "loadPosition")
  /\ operation_mode' = IF geoFile.size = "full" THEN geoFile.mode ELSE operation_mode
  /\ UNCHANGED <<bulbs, last_position>>

LoadPosition ==
  /\ last_position' = IF geoFile.size = "none" THEN last_position ELSE geoFile.position
  /\ UNCHANGED <<bulbs, operation_mode>>
  /\ Load("loadPosition", IF geo' = GeoAtStart THEN "idle" ELSE "openGeo")

\* kaa_on_attach_failed stops the client, and main goes on to deinit_bulbs.
AttachFails ==
  /\ doing = "attaching" /\ doing' = "deinit"
  /\ brightness' = [b \in Bulb |-> 0]
  /\ UNCHANGED <<bulbs_state, geo, pwm, files, subscribers, bounds>>

\* main returns, or the process dies: only the files and the pins are left.
Down ==
  /\ doing' = "down"
  /\ UNCHANGED <<bulbs, geo, pwm, files, told, requests>>

Exit == doing = "deinit" /\ Down /\ UNCHANGED <<cutOff, crashes>>

\* A file that was not opened yet is still the old one.
Crash ==
  /\ doing # "down" /\ crashes < MaxCrashes /\ crashes' = crashes + 1
  /\ cutOff' = [bulbs |-> IF doing \in BulbSteps \ {"openBulbs"} THEN {bulbs} ELSE cutOff.bulbs,
                geo |-> cutOff.geo \/ doing \in GeoSteps \ {"openGeo"}]
  /\ Down

\* main up to the start of the client: init_bulbs drives the pins low.
Boot ==
  /\ doing = "down" /\ doing' = "attaching"
  /\ brightness' = Full /\ bulbs_state' = AllOn
  /\ operation_mode' = "off" /\ last_position' = "away"
  /\ lit' = [b \in Bulb |-> FALSE] /\ at' = [b \in Bulb |-> "read"]
  /\ UNCHANGED <<percents, files, subscribers, bounds>>

-----------------------------------------------------------------------------
Event ==
  \/ \E b \in Bulb : \E percent \in Requests : OnBrightnessRequest(b, percent)
  \/ \E b \in Bulb : \E status \in BOOLEAN : OnStatusRequest(b, status)
  \/ OnGeoUpdate \/ OnListRequest

Client ==
  \/ PersistBulbs \/ PersistGeo \/ SendBulbs \/ SendGeo
  \/ LoadBrightness \/ LoadStates \/ LoadMode \/ LoadPosition

Next ==
  \/ Event \/ Client \/ AttachFails \/ Exit \/ Crash \/ Boot
  \/ \E b \in Bulb : Dim(b)

Spec == Init /\ [][Next]_vars

\* The threads of the bulbs run; that anything else ever happens is not assumed.
FairSpec == Spec /\ \A b \in Bulb : WF_vars(Dim(b))

-----------------------------------------------------------------------------
\* What a rewrite of brightness_state that was to save these bulbs leaves when it
\* is cut off: all of them, their brightness, or nothing; the rest is as at start-up.
BulbsLeft(saving) == {saving, <<saving[1], AllOn>>, <<Full, AllOn>>}

\* Between events the bulbs are as the subscribers were last told, whatever
\* crashes and restarts came between, unless a crash came between the opening of
\* the file to rewrite it (for an event, or geofencing_state after it was loaded)
\* and the message, and no message followed yet.  Then all the file held may be gone,
\* what was told long ago of the other bulbs included: the bulbs may have what was
\* being saved, or its brightness with the states of start-up, or start-up's
\* everything; mode and position, which are told again when any were loaded, those
\* of start-up.  The other file loses nothing.
ToldUnlessCutOff ==
  doing = "idle" =>
    /\ bulbs \in {told.bulbs} \cup UNION {BulbsLeft(saving) : saving \in cutOff.bulbs}
    /\ geo = told.geo \/ (cutOff.geo /\ geo = GeoAtStart)

Operational ==
  \/ operation_mode = "on"
  \/ operation_mode = "geofencing" /\ last_position = "home"

Shines(b) == bulbs_state[b] /\ Operational /\ brightness[b] > 0

\* A bulb that is switched off, dimmed to nothing or left without its owner at
\* home goes dark, and one that should shine lights up, although its thread
\* reads brightness, state, mode (twice) and position at different times and writes
\* the pin after that, from values that may no longer hold.
PinFollowsState ==
  \A b \in Bulb :
    /\ ~Shines(b) ~> ~lit[b] \/ Shines(b) \/ doing = "down"
    /\ Shines(b) ~> lit[b] \/ ~Shines(b) \/ doing = "down"
=============================================================================

---------------------------- MODULE BulbsProofs ----------------------------
(***************************************************************************)
(* Proof of what is left, after any number of events, crashes and reloads, *)
(* of what the subscribers of the light bulbs were told.                   *)
(***************************************************************************)
EXTENDS Bulbs, TLAPS

\* What load_previous_state_if_any makes of a file after main has started.
BulbsOn(file) ==
  <<IF file.size = "none" THEN Full ELSE file.brightness,
    IF file.size = "full" THEN file.bulbs_state ELSE AllOn>>
GeoOn(file) ==
  <<IF file.size = "full" THEN file.mode ELSE "off",
    IF file.size = "none" THEN "away" ELSE file.position>>

\* Outside a rewrite brightness_state says what the bulbs do and what was told,
\* or is what a rewrite left that was cut off.
BulbsInv ==
  /\ doing = "attaching" => bulbs = <<Full, AllOn>>
  /\ doing = "loadStates" => bulbs = <<BulbsOn(bulbsFile)[1], AllOn>>
  /\ doing \in {"loadMode", "loadPosition", "idle", "sendBulbs"} \cup GeoSteps =>
       bulbs = BulbsOn(bulbsFile)
  /\ doing = "flushBrightness" => bulbsFile.size = "none"
  /\ doing = "closeBulbs" => bulbsFile.size = "half" /\ bulbsFile.brightness = brightness
  /\ doing \in BulbSteps \ {"openBulbs"} \/
       BulbsOn(bulbsFile) \in
         {told.bulbs} \cup UNION {BulbsLeft(saving) : saving \in cutOff.bulbs}

\* The same of geofencing_state; what was loaded is told, unless it is start-up's.
GeoInv ==
  /\ doing \in LoadSteps \ {"loadPosition"} => geo = GeoAtStart
  /\ doing = "loadPosition" => geo = <<GeoOn(geoFile)[1], "away">>
  /\ doing = "closeGeo" => geoFile.position = last_position
  /\ doing = "sendGeo" => geo = GeoOn(geoFile)
  /\ doing \in GeoSteps \ {"openGeo"} \/ cutOff.geo \/ told.geo = GeoOn(geoFile)
  /\ doing \in {"idle"} \cup BulbSteps => geo = told.geo \/ (cutOff.geo /\ geo = GeoAtStart)

IInv == TypeOK /\ BulbsInv /\ GeoInv

\* TypeOK in parts.
BulbsType == brightness \in [Bulb -> 0 .. 100] /\ bulbs_state \in [Bulb -> BOOLEAN]
GeoType == operation_mode \in Modes /\ last_position \in Positions
DoingType ==
  doing \in {"down", "idle", "deinit"} \cup LoadSteps \cup BulbSteps \cup GeoSteps
PwmType ==
  /\ lit \in [Bulb -> BOOLEAN]
  /\ at \in [Bulb -> PwmSteps] /\ percents \in [Bulb -> 0 .. 100]
FileType ==
  /\ bulbsFile \in [size : Sizes, brightness : [Bulb -> 0 .. 100], bulbs_state : [Bulb -> BOOLEAN]]
  /\ geoFile \in [size : Sizes, position : Positions, mode : Modes]
ToldType ==
  /\ told \in [bulbs : BulbValues, geo : GeoValues]
  /\ cutOff \in [bulbs : SUBSET BulbValues, geo : BOOLEAN]
BoundsType == requests \in 0 .. MaxRequests /\ crashes \in 0 .. MaxCrashes

LEMMA TypeParts ==
  /\ TypeOK <=> /\ BulbsType /\ GeoType /\ DoingType /\ PwmType
                /\ FileType /\ ToldType /\ BoundsType
  /\ TypeOK' <=> /\ BulbsType' /\ GeoType' /\ DoingType' /\ PwmType'
                 /\ FileType' /\ ToldType' /\ BoundsType'
  BY DEF TypeOK, BulbsType, GeoType, DoingType, PwmType, FileType, ToldType, BoundsType

LEMMA FullType == Full \in [Bulb -> 0 .. 100] /\ AllOn \in [Bulb -> BOOLEAN]
  BY DEF Full, AllOn

-----------------------------------------------------------------------------
LEMMA InitIInv == Init => IInv
<1> SUFFICES ASSUME Init PROVE IInv
  OBVIOUS
<1>1. BulbsType /\ GeoType /\ DoingType
  BY FullType DEF Init, BulbsType, GeoType, DoingType, LoadSteps, Modes, Positions
<1>2. PwmType
  BY FullType DEF Init, PwmType, PwmSteps
<1>3. FileType
  BY FullType DEF Init, FileType, Sizes, Positions, Modes
<1>4. told = [bulbs |-> <<Full, AllOn>>, geo |-> <<"off", "away">>]
  BY DEF Init, bulbs, geo
<1>5. ToldType
  BY <1>4, FullType DEF Init, ToldType, BulbValues, GeoValues, Modes, Positions
<1>6. BoundsType
  BY BulbsAssumption DEF Init, BoundsType
<1>7. BulbsInv /\ GeoInv
  BY <1>4 DEF Init, BulbsInv, GeoInv, BulbsOn, GeoOn, GeoAtStart, bulbs, geo,
              BulbSteps, GeoSteps, LoadSteps
<1> QED
  BY <1>1, <1>2, <1>3, <1>5, <1>6, <1>7, TypeParts DEF IInv

\* The threads of the bulbs only write the pins.
LEMMA DimIInv == ASSUME IInv, NEW b \in Bulb, Dim(b) PROVE IInv'
<1> USE DEF bulbs, geo, files, subscribers, bounds
<1>1. BulbsType /\ PwmType
  BY TypeParts DEF IInv
<1>2. PwmType'
  <2>1. ASSUME NEW from, NEW to \in PwmSteps, Pwm(b, from, to)
        PROVE  at' \in [Bulb -> PwmSteps]
    BY <1>1, <2>1 DEF Pwm, PwmType
  <2>2. Shining(b) \in PwmSteps
    BY DEF Shining, PwmSteps
  <2>3. at' \in [Bulb -> PwmSteps]
    BY <2>1, <2>2 DEF Dim, ReadBrightness, ReadState, ReadMode, ReadModeAgain, ReadPosition,
                      SetPin, ClearPin, PwmSteps
  <2>4. lit' \in [Bulb -> BOOLEAN] /\ percents' \in [Bulb -> 0 .. 100]
    BY <1>1 DEF Dim, ReadBrightness, ReadState, ReadMode, ReadModeAgain, ReadPosition,
                SetPin, ClearPin, BulbsType, PwmType
  <2> QED
    BY <2>3, <2>4 DEF PwmType
<1>3. UNCHANGED <<brightness, bulbs_state, operation_mode, last_position, doing, bulbsFile,
                  geoFile, told, cutOff, requests, crashes>>
  BY DEF Dim, ReadBrightness, ReadState, ReadMode, ReadModeAgain, ReadPosition,
         SetPin, ClearPin, Pwm
<1> QED
  BY <1>2, <1>3, TypeParts DEF IInv, BulbsInv, GeoInv, BulbsType, GeoType, DoingType,
                               FileType, ToldType, BoundsType, BulbsOn, GeoOn

\* An event that changes something leaves "idle", where nothing need be saved yet.
LEMMA EventIInv == ASSUME IInv, Event PROVE IInv'
<1> USE DEF bulbs, geo, pwm, files, subscribers, bounds, BulbSteps, GeoSteps, LoadSteps
<1>1. BulbsType /\ GeoType /\ DoingType /\ PwmType /\ FileType /\ ToldType /\ BoundsType
  BY TypeParts DEF IInv
<1>2. ASSUME NEW b \in Bulb,
             \/ \E percent \in Requests : OnBrightnessRequest(b, percent)
             \/ \E status \in BOOLEAN : OnStatusRequest(b, status)
      PROVE  IInv'
  <2>1. /\ doing = "idle" /\ doing' = "openBulbs" /\ requests' \in 0 .. MaxRequests
        /\ UNCHANGED <<operation_mode, last_position, lit, at, percents, bulbsFile, geoFile,
                       told, cutOff, crashes>>
    BY <1>1, <1>2, BulbsAssumption DEF OnBrightnessRequest, OnStatusRequest, Handle, BoundsType
  <2>2. \A percent \in Requests : Clamp(percent) \in 0 .. 100
    BY BulbsAssumption DEF Clamp
  <2>3. BulbsType'
    BY <1>1, <1>2, <2>2 DEF OnBrightnessRequest, OnStatusRequest, BulbsType
  <2>4. TypeOK'
    BY <1>1, <2>1, <2>3, TypeParts DEF GeoType, DoingType, PwmType, FileType, ToldType, BoundsType
  <2>5. BulbsInv' /\ GeoInv'
    BY <2>1 DEF IInv, BulbsInv, GeoInv, GeoOn
  <2> QED
    BY <2>4, <2>5 DEF IInv
<1>3. CASE OnGeoUpdate
  <2>1. /\ doing = "idle" /\ doing' \in {"idle", "openGeo"} /\ requests' \in 0 .. MaxRequests
        /\ UNCHANGED <<brightness, bulbs_state, lit, at, percents, bulbsFile, geoFile,
                       told, cutOff, crashes>>
    BY <1>1, <1>3, BulbsAssumption DEF OnGeoUpdate, BoundsType
  <2>2. GeoType'
    BY <1>1, <1>3 DEF OnGeoUpdate, GeoType
  <2>3. doing' = "idle" => UNCHANGED <<operation_mode, last_position>>
    BY <1>3 DEF OnGeoUpdate
  <2>4. TypeOK'
    BY <1>1, <2>1, <2>2, TypeParts DEF BulbsType, DoingType, PwmType, FileType, ToldType, BoundsType
  <2>5. BulbsInv' /\ GeoInv'
    BY <2>1, <2>3 DEF IInv, BulbsInv, GeoInv, BulbsOn, GeoOn
  <2> QED
    BY <2>4, <2>5 DEF IInv
<1>4. CASE OnListRequest
  <2>1. /\ doing = "idle" /\ cutOff' = [cutOff EXCEPT !.bulbs = {}]
        /\ UNCHANGED <<brightness, bulbs_state, operation_mode, last_position, doing, lit, at,
                       percents, bulbsFile, geoFile, requests, crashes>>
    BY <1>4 DEF OnListRequest
  <2>2. told' = [told EXCEPT !.bulbs = <<brightness, bulbs_state>>]
    BY <1>4 DEF OnListRequest
  <2>3. ToldType' /\ told'.bulbs = <<brightness, bulbs_state>> /\ told'.geo = told.geo
    BY <1>1, <2>1, <2>2 DEF ToldType, BulbValues, GeoValues, BulbsType
  <2>4. TypeOK'
    BY <1>1, <2>1, <2>3, TypeParts DEF BulbsType, GeoType, DoingType, PwmType, FileType, BoundsType
  <2>5. BulbsInv' /\ GeoInv'
    BY <2>1, <2>3 DEF IInv, BulbsInv, GeoInv, BulbsOn, GeoOn
  <2> QED
    BY <2>4, <2>5 DEF IInv
<1> QED
  BY <1>2, <1>3, <1>4 DEF Event

\* Saving and telling.
LEMMA SaveIInv ==
  ASSUME IInv, PersistBulbs \/ PersistGeo \/ SendBulbs \/ SendGeo PROVE IInv'
<1> USE DEF bulbs, geo, pwm, files, subscribers, bounds, BulbSteps, GeoSteps, LoadSteps
<1>1. BulbsType /\ GeoType /\ DoingType /\ PwmType /\ FileType /\ ToldType /\ BoundsType
  BY TypeParts DEF IInv
<1>2. UNCHANGED <<brightness, bulbs_state, operation_mode, last_position, lit, at, percents,
                  requests, crashes>>
  BY DEF PersistBulbs, PersistGeo, SendBulbs, SendGeo, Go
<1>3. BulbsType' /\ GeoType' /\ PwmType' /\ BoundsType'
  BY <1>1, <1>2 DEF BulbsType, GeoType, PwmType, BoundsType
<1>4. DoingType'
  BY DEF PersistBulbs, PersistGeo, SendBulbs, SendGeo, Go, DoingType
<1>5. CASE PersistBulbs
  <2>1. UNCHANGED <<geoFile, told, cutOff>>
    BY <1>5 DEF PersistBulbs
  <2>2. \/ doing = "openBulbs" /\ doing' = "flushBrightness" /\ bulbsFile'.size = "none"
        \/ doing = "flushBrightness" /\ doing' = "closeBulbs" /\ bulbsFile'.size = "half"
             /\ bulbsFile'.brightness = brightness
        \/ doing = "closeBulbs" /\ doing' = "sendBulbs" /\ bulbsFile'.size = "full"
             /\ bulbsFile'.bulbs_state = bulbs_state /\ bulbsFile'.brightness = bulbsFile.brightness
    BY <1>1, <1>5 DEF PersistBulbs, Go, FileType
  <2>3. FileType' /\ ToldType'
    BY <1>1, <1>5, <2>1 DEF PersistBulbs, FileType, ToldType, BulbsType, Sizes
  <2>4. BulbsInv' /\ GeoInv'
    BY <1>2, <2>1, <2>2 DEF IInv, BulbsInv, GeoInv, BulbsOn, GeoOn
  <2> QED
    BY <1>3, <1>4, <2>3, <2>4, TypeParts DEF IInv
<1>6. CASE PersistGeo
  <2>1. UNCHANGED <<bulbsFile, told, cutOff>>
    BY <1>6 DEF PersistGeo
  <2>2. \/ doing = "openGeo" /\ doing' = "flushPosition"
        \/ doing = "flushPosition" /\ doing' = "closeGeo" /\ geoFile'.position = last_position
        \/ doing = "closeGeo" /\ doing' = "sendGeo" /\ geoFile'.size = "full"
             /\ geoFile'.mode = operation_mode /\ geoFile'.position = geoFile.position
    BY <1>1, <1>6 DEF PersistGeo, Go, FileType
  <2>3. FileType' /\ ToldType'
    BY <1>1, <1>6, <2>1 DEF PersistGeo, FileType, ToldType, GeoType, Sizes
  <2>4. BulbsInv' /\ GeoInv'
    BY <1>2, <2>1, <2>2 DEF IInv, BulbsInv, GeoInv, BulbsOn, GeoOn
  <2> QED
    BY <1>3, <1>4, <2>3, <2>4, TypeParts DEF IInv
<1>7. CASE SendBulbs
  <2>1. /\ doing = "sendBulbs" /\ doing' = "idle" /\ cutOff' = [cutOff EXCEPT !.bulbs = {}]
        /\ UNCHANGED <<bulbsFile, geoFile>>
    BY <1>7 DEF SendBulbs, Go
  <2>2. told' = [told EXCEPT !.bulbs = <<brightness, bulbs_state>>]
    BY <1>7 DEF SendBulbs
  <2>3. ToldType' /\ told'.bulbs = <<brightness, bulbs_state>> /\ told'.geo = told.geo
    BY <1>1, <2>1, <2>2 DEF ToldType, BulbValues, GeoValues, BulbsType
  <2>4. FileType'
    BY <1>1, <2>1 DEF FileType
  <2>5. BulbsInv' /\ GeoInv'
    BY <1>2, <2>1, <2>3 DEF IInv, BulbsInv, GeoInv, BulbsOn, GeoOn
  <2> QED
    BY <1>3, <1>4, <2>3, <2>4, <2>5, TypeParts DEF IInv
<1>8. CASE SendGeo
  <2>1. /\ doing = "sendGeo" /\ doing' = "idle" /\ cutOff' = [bulbs |-> {}, geo |-> FALSE]
        /\ UNCHANGED <<bulbsFile, geoFile>>
    BY <1>8 DEF SendGeo, Go
  <2>2. told' = [bulbs |-> <<brightness, bulbs_state>>, geo |-> <<operation_mode, last_position>>]
    BY <1>8 DEF SendGeo
  <2>3. ToldType' /\ FileType'
    BY <1>1, <2>1, <2>2 DEF ToldType, BulbValues, GeoValues, FileType, BulbsType, GeoType
  <2>4. BulbsInv' /\ GeoInv'
    BY <1>2, <2>1, <2>2 DEF IInv, BulbsInv, GeoInv, BulbsOn, GeoOn
  <2> QED
    BY <1>3, <1>4, <2>3, <2>4, TypeParts DEF IInv
<1> QED
  BY <1>5, <1>6, <1>7, <1>8

\* Loading, step by step.
LEMMA LoadIInv ==
  ASSUME IInv, LoadBrightness \/ LoadStates \/ LoadMode \/ LoadPosition PROVE IInv'
<1> USE DEF bulbs, geo, pwm, files, subscribers, bounds, BulbSteps, GeoSteps, LoadSteps
<1>1. BulbsType /\ GeoType /\ DoingType /\ PwmType /\ FileType /\ ToldType /\ BoundsType
  BY TypeParts DEF IInv
<1>2. UNCHANGED <<lit, at, percents, bulbsFile, geoFile, told, cutOff, requests, crashes>>
  BY DEF LoadBrightness, LoadStates, LoadMode, LoadPosition, Load
<1>3. PwmType' /\ FileType' /\ ToldType' /\ BoundsType'
  BY <1>1, <1>2 DEF PwmType, FileType, ToldType, BoundsType
<1>4. BulbsType' /\ GeoType' /\ DoingType'
  BY <1>1 DEF LoadBrightness, LoadStates, LoadMode, LoadPosition, Load,
              BulbsType, GeoType, DoingType, FileType
<1>5. BulbsInv' /\ GeoInv'
  <2>1. CASE LoadBrightness
    BY <1>2, <2>1 DEF LoadBrightness, Load, IInv, BulbsInv, GeoInv, BulbsOn, GeoOn
  <2>2. CASE LoadStates
    BY <1>2, <2>2 DEF LoadStates, Load, IInv, BulbsInv, GeoInv, BulbsOn, GeoOn
  <2>3. CASE LoadMode
    BY <1>2, <2>3 DEF LoadMode, Load, IInv, BulbsInv, GeoInv, BulbsOn, GeoOn, GeoAtStart
  <2>4. CASE LoadPosition
    BY <1>2, <2>4 DEF LoadPosition, Load, IInv, BulbsInv, GeoInv, BulbsOn, GeoOn, GeoAtStart
  <2> QED
    BY <2>1, <2>2, <2>3, <2>4
<1> QED
  BY <1>3, <1>4, <1>5, TypeParts DEF IInv

\* The end of the program, in order or not, and its start.
LEMMA LifeIInv == ASSUME IInv, AttachFails \/ Exit \/ Crash \/ Boot PROVE IInv'
<1> USE DEF bulbs, geo, pwm, files, subscribers, bounds, BulbSteps, GeoSteps, LoadSteps
<1>1. BulbsType /\ GeoType /\ DoingType /\ PwmType /\ FileType /\ ToldType /\ BoundsType
  BY TypeParts DEF IInv
<1>2. UNCHANGED <<percents, bulbsFile, geoFile, told, requests>>
  BY DEF AttachFails, Exit, Crash, Boot, Down
<1>3. FileType'
  BY <1>1, <1>2 DEF FileType
<1>4. PwmType'
  BY <1>1, <1>2 DEF AttachFails, Exit, Crash, Boot, Down, PwmType, PwmSteps
<1>5. DoingType'
  BY DEF AttachFails, Exit, Crash, Boot, Down, DoingType
<1>6. BoundsType'
  BY <1>1, <1>2, BulbsAssumption DEF AttachFails, Exit, Crash, Boot, Down, BoundsType
<1>7. BulbsType' /\ GeoType'
  BY <1>1, FullType DEF AttachFails, Exit, Crash, Boot, Down, BulbsType, GeoType, Modes, Positions
<1>8. CASE Crash
  <2>1. ToldType'
    BY <1>1, <1>2, <1>8 DEF Crash, BulbsType, ToldType, BulbValues
  <2>2. CASE doing \in BulbSteps \ {"openBulbs"}
    <3>1. cutOff'.bulbs = {<<brightness, bulbs_state>>} /\ (cutOff'.geo <=> cutOff.geo)
      BY <2>2, <1>8 DEF Crash
    <3>2. BulbsOn(bulbsFile) \in BulbsLeft(<<brightness, bulbs_state>>)
      BY <2>2 DEF IInv, BulbsInv, BulbsOn, BulbsLeft
    <3>3. BulbsInv' /\ GeoInv'
      BY <1>2, <1>8, <2>2, <3>1, <3>2 DEF Crash, Down, IInv, BulbsInv, GeoInv, BulbsOn, GeoOn
    <3> QED
      BY <1>3, <1>4, <1>5, <1>6, <1>7, <2>1, <3>3, TypeParts DEF IInv
  <2>3. CASE doing \notin BulbSteps \ {"openBulbs"}
    <3>1. cutOff'.bulbs = cutOff.bulbs
            /\ cutOff'.geo = (cutOff.geo \/ doing \in GeoSteps \ {"openGeo"})
      BY <2>3, <1>8 DEF Crash
    <3>2. BulbsInv' /\ GeoInv'
      BY <1>2, <1>8, <2>3, <3>1 DEF Crash, Down, IInv, BulbsInv, GeoInv, BulbsOn, GeoOn
    <3> QED
      BY <1>3, <1>4, <1>5, <1>6, <1>7, <2>1, <3>2, TypeParts DEF IInv
  <2> QED
    BY <2>2, <2>3
<1>9. CASE AttachFails \/ Exit \/ Boot
  <2>1. ToldType'
    BY <1>1, <1>2, <1>9 DEF AttachFails, Exit, Boot, ToldType
  <2>2. BulbsInv' /\ GeoInv'
    BY <1>2, <1>9 DEF AttachFails, Exit, Boot, Down, IInv, BulbsInv, GeoInv, BulbsOn, GeoOn,
                      GeoAtStart
  <2> QED
    BY <1>3, <1>4, <1>5, <1>6, <1>7, <2>1, <2>2, TypeParts DEF IInv
<1> QED
  BY <1>8, <1>9

LEMMA Inductive == Spec => []IInv
<1>1. IInv /\ UNCHANGED vars => IInv'
  BY DEF IInv, TypeOK, BulbsInv, GeoInv, BulbsOn, GeoOn, bulbs, geo, vars
<1>2. IInv /\ [Next]_vars => IInv'
  BY <1>1, DimIInv, EventIInv, SaveIInv, LoadIInv, LifeIInv DEF Next, Client
<1> QED
  BY <1>2, InitIInv, PTL DEF Spec

-----------------------------------------------------------------------------
(* The types of light.c's globals, of its files and of what it tells.        *)
THEOREM TypeCorrect == Spec => []TypeOK
  BY Inductive, PTL DEF IInv

(* persist_bulbs_state and persist_geofencing_state come before every        *)
(* message, so load_previous_state_if_any finds what was told; a rewrite that  *)
(* a crash cut off has lost it, and leaves no more than the property allows.   *)
THEOREM WhatWasToldIsKeptUnlessCutOff == Spec => []ToldUnlessCutOff
<1>1. IInv => ToldUnlessCutOff
  BY DEF IInv, BulbsInv, GeoInv, BulbSteps, GeoSteps, ToldUnlessCutOff
<1> QED
  BY <1>1, Inductive, PTL
=============================================================================

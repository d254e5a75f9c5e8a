----------------------------- MODULE RfidReader -----------------------------
(***************************************************************************)
(* The connected car (STM32, Kaa C client): a reader on a serial line      *)
(* sends one frame per tag the car drives over,                            *)
(*     guard, RFID_SKIP_LEFT bytes, RFID_LENGTH hex digits,                *)
(*     RFID_SKIP_RIGHT checksum bytes, guard,                              *)
(* and process, called in the client's loop, takes one byte at a time      *)
(* through the states of readRFID.  The line (external) drops bytes when   *)
(* the loop is too slow for its buffer; no checksum is ever looked at.     *)
(* A new tag is logged, and the zone it lies in is announced to the owner. *)
(***************************************************************************)
EXTENDS Integers, Sequences

CONSTANTS
  Tags,             \* what a frame may say
  Garbled,          \* the value of digits that come from no one frame
  Configurations,   \* lists of zones: sequences of [id, tags]
  RFID_MAX_NUMBER,  \* 0xFFFFFFFF, taken to mean that no tag was detected yet
  NoConfiguration,  \* the NULL of kaa_configuration_manager_get_configuration
  RFID_LENGTH, RFID_SKIP_LEFT, RFID_SKIP_RIGHT,   \* 8, 2, 2
  MaxLost           \* bytes the line may drop in one behaviour

ASSUME ReaderAssumption ==
  /\ RFID_LENGTH \in Nat \ {0}
  /\ RFID_SKIP_LEFT \in Nat \ {0}
  /\ RFID_SKIP_RIGHT \in Nat \ {0}
  /\ Garbled \notin Tags \cup {RFID_MAX_NUMBER}
  /\ MaxLost \in Nat

VARIABLES
  frame, pos,            \* the line: the frame being sent and its next byte
  rfid_state, rfid_counter,
  rfid_buffer,           \* what the digits read so far say
  last_detected_rfid,
  current_zone_id,
  configuration,
  logged,                \* the last tag in the log collector
  position,              \* the last position announced to the owner
  running,               \* the client has not been stopped
  skipped,               \* history: bytes lost since the guard the read started with
  lost,                  \* history: bytes lost in all
  since,                 \* history: bytes sent since a byte was lost, up to two frames
  excuses                \* history: what went wrong since the last tag, or the last zone

line == <<frame, pos>>
reader == <<rfid_state, rfid_counter, rfid_buffer>>
car == <<last_detected_rfid, current_zone_id, logged, position>>
readerVars == <<frame, pos, rfid_state, rfid_counter, rfid_buffer, last_detected_rfid,
          current_zone_id, configuration, logged, position, running,
          skipped, lost, since, excuses>>

FirstDigit == 1 + RFID_SKIP_LEFT
FrameLength == FirstDigit + RFID_LENGTH + RFID_SKIP_RIGHT + 1

UNKNOWN_GEOFENCING_ZONE_ID == "UNKNOWN"
Zones == {"HOME", "NEAR"}
ReadStates == {"WAIT_START", "LEFT_GUARD", "READ", "RIGHT_GUARD", "WAIT_FINISH"}

ReaderTypeOK ==
  /\ frame \in Tags /\ pos \in 0 .. FrameLength - 1
  /\ rfid_state \in ReadStates
  /\ rfid_counter \in Nat /\ (rfid_state = "READ" => rfid_counter < RFID_LENGTH)
  /\ rfid_buffer \in Tags \cup {Garbled}
  /\ last_detected_rfid \in Tags \cup {Garbled, RFID_MAX_NUMBER}
  /\ current_zone_id \in Zones \cup {UNKNOWN_GEOFENCING_ZONE_ID}
  /\ configuration \in Configurations \cup {NoConfiguration}
  /\ logged \in Tags \cup {Garbled, RFID_MAX_NUMBER}
  /\ position \in {"HOME", "NEAR", "AWAY", "NONE"}
  /\ running \in BOOLEAN
  /\ skipped \in Nat /\ lost \in 0 .. MaxLost /\ since \in 0 .. 2 * FrameLength
  /\ excuses \subseteq {"log", "event", "configuration"}

ReaderInit ==
  /\ frame \in Tags /\ pos \in 0 .. FrameLength - 1   \* the reader was on before us
  /\ rfid_state = "WAIT_START" /\ rfid_counter = 0
  /\ rfid_buffer = Garbled
  /\ last_detected_rfid = RFID_MAX_NUMBER
  /\ current_zone_id = UNKNOWN_GEOFENCING_ZONE_ID
  /\ configuration \in Configurations \cup {NoConfiguration}
  /\ logged = RFID_MAX_NUMBER /\ position = "NONE"
  /\ running = TRUE
  /\ skipped = 0 /\ lost = 0 /\ since = 0
  /\ excuses = {}

-----------------------------------------------------------------------------
(* The line moves on by a byte; after the last one another tag is read.      *)
NextByte ==
  \/ pos < FrameLength - 1 /\ pos' = pos + 1 /\ UNCHANGED frame
  \/ pos = FrameLength - 1 /\ pos' = 0 /\ frame' \in Tags

\* ... and process takes the byte.
TakeByte ==
  /\ running
  /\ NextByte
  /\ since' = IF since < 2 * FrameLength THEN since + 1 ELSE since

\* ... and the byte is dropped.
LoseByte ==
  /\ running
  /\ lost < MaxLost
  /\ NextByte
  /\ lost' = lost + 1
  /\ skipped' = IF rfid_state = "WAIT_START" THEN 0 ELSE skipped + 1
  /\ since' = 0
  /\ UNCHANGED <<reader, car, configuration, running, excuses>>

\* Mutant: one byte more than the state's number.
CountOneMore(state, bytes, next) ==
  /\ rfid_state = state
  /\ IF rfid_counter + 1 > bytes
       THEN rfid_counter' = 0 /\ rfid_state' = next
       ELSE rfid_counter' = rfid_counter + 1 /\ UNCHANGED rfid_state

\* readRFID in one of the states that count bytes.
Count(state, bytes, next) ==
  /\ rfid_state = state
  /\ IF rfid_counter + 1 >= bytes
       THEN rfid_counter' = 0 /\ rfid_state' = next
       ELSE rfid_counter' = rfid_counter + 1 /\ UNCHANGED rfid_state

\* Mutant: any byte is taken for the guard.
WaitStartAnyByte ==
  /\ rfid_state = "WAIT_START"
  /\ TakeByte
  /\ rfid_counter' = 0 /\ rfid_state' = "LEFT_GUARD"
  /\ skipped' = 0
  /\ UNCHANGED <<rfid_buffer, car, configuration, running, lost, excuses>>

WaitStart ==
  /\ rfid_state = "WAIT_START"
  /\ TakeByte
  /\ IF pos = 0
       THEN rfid_counter' = 0 /\ rfid_state' = "LEFT_GUARD"
       ELSE UNCHANGED <<rfid_counter, rfid_state>>
  /\ skipped' = 0
  /\ UNCHANGED <<rfid_buffer, car, configuration, running, lost, excuses>>

LeftGuard ==
  /\ TakeByte
  /\ Count("LEFT_GUARD", RFID_SKIP_LEFT, "READ")
  /\ UNCHANGED <<rfid_buffer, car, configuration, running, skipped, lost, excuses>>

\* A digit is stored: the buffer says a tag while all digits are that tag's, in place.
Read ==
  /\ TakeByte
  /\ Count("READ", RFID_LENGTH, "RIGHT_GUARD")
  /\ rfid_buffer' = IF pos = FirstDigit + rfid_counter /\ (rfid_counter = 0 \/ rfid_buffer = frame)
                      THEN frame ELSE Garbled
  /\ UNCHANGED <<car, configuration, running, skipped, lost, excuses>>

RightGuard ==
  /\ TakeByte
  /\ Count("RIGHT_GUARD", RFID_SKIP_RIGHT, "WAIT_FINISH")
  /\ UNCHANGED <<rfid_buffer, car, configuration, running, skipped, lost, excuses>>

-----------------------------------------------------------------------------
(* What is done with a tag.  The log record, or the event, may fail to be    *)
(* allocated or accepted; neither is ever tried again.                       *)

\* sendRFIDLog.
SendRFIDLog(rfid, added) == logged' = IF added THEN rfid ELSE logged

\* checkFencingPosition's search: the id of the first zone that lists the tag.
ZoneOf(rfid, zones) ==
  LET first == {id \in Zones : \E k \in DOMAIN zones :
                  /\ zones[k].id = id /\ rfid \in zones[k].tags
                  /\ \A n \in 1 .. k - 1 : rfid \notin zones[n].tags}
  IN IF first = {} THEN UNKNOWN_GEOFENCING_ZONE_ID ELSE CHOOSE id \in first : TRUE

PositionOf(zone) == IF zone = UNKNOWN_GEOFENCING_ZONE_ID THEN "AWAY" ELSE zone

\* Mutant: the zone announced is not remembered.
NotifyWithoutRecord(zone, sent) ==
  /\ position' = IF zone # current_zone_id /\ sent THEN PositionOf(zone) ELSE position
  /\ UNCHANGED current_zone_id

\* notifyOfNewFencingZone: the zone is taken over before the event is sent.
NotifyOfNewFencingZone(zone, sent) ==
  /\ current_zone_id' = zone
  /\ position' = IF zone # current_zone_id /\ sent THEN PositionOf(zone) ELSE position

CheckFencingPosition(rfid, sent) ==
  IF configuration = NoConfiguration
    THEN UNCHANGED <<current_zone_id, position>>
    ELSE NotifyOfNewFencingZone(ZoneOf(rfid, configuration), sent)

\* What the outcome of this tag excuses; a lost event, until the zone changes.
Excuses(added, sent) ==
  (IF added THEN {} ELSE {"log"})
    \cup (IF configuration = NoConfiguration THEN {"configuration"} ELSE {})
    \cup (IF current_zone_id' = current_zone_id THEN excuses \cap {"event"}
                                               ELSE IF sent THEN {} ELSE {"event"})

\* Mutant: the last byte is not looked at.
WaitFinishAnyByte ==
  /\ rfid_state = "WAIT_FINISH"
  /\ TakeByte
  /\ rfid_counter' = 0 /\ rfid_state' = "WAIT_START"
  /\ skipped' = 0
  /\ IF rfid_buffer # last_detected_rfid
       THEN /\ last_detected_rfid' = rfid_buffer
            /\ SendRFIDLog(rfid_buffer, TRUE)
            /\ CheckFencingPosition(rfid_buffer, TRUE)
            /\ excuses' = Excuses(TRUE, TRUE)
       ELSE UNCHANGED <<car, excuses>>
  /\ UNCHANGED <<rfid_buffer, configuration, running, lost>>

WaitFinish ==
  /\ rfid_state = "WAIT_FINISH"
  /\ TakeByte
  /\ rfid_counter' = 0 /\ rfid_state' = "WAIT_START"
  /\ skipped' = 0
  /\ IF pos = FrameLength - 1 /\ rfid_buffer # last_detected_rfid
       THEN /\ last_detected_rfid' = rfid_buffer
            /\ \E added, sent \in BOOLEAN :
                 /\ SendRFIDLog(rfid_buffer, added)
                 /\ CheckFencingPosition(rfid_buffer, sent)
                 /\ excuses' = Excuses(added, sent)
       ELSE UNCHANGED <<car, excuses>>
  /\ UNCHANGED <<rfid_buffer, configuration, running, lost>>

\* The client receives another list of zones; the car's zone is not looked up again.
Configure ==
  /\ running
  /\ configuration' \in Configurations \ {configuration}
  /\ excuses' = excuses \cup {"configuration"}
  /\ UNCHANGED <<line, reader, car, running, skipped, lost, since>>

\* 'S' on the console stops the client, and with it the loop that reads.
Stop ==
  /\ running
  /\ running' = FALSE
  /\ UNCHANGED <<line, reader, car, configuration, skipped, lost, since, excuses>>

Byte == WaitStart \/ LeftGuard \/ Read \/ RightGuard \/ WaitFinish

ReaderNext == Byte \/ LoseByte \/ Configure \/ Stop

ReaderSpec == ReaderInit /\ [][ReaderNext]_readerVars

-----------------------------------------------------------------------------
(* The reader never invents a tag: digits of two frames are taken for a tag  *)
(* only after a whole frame's worth of bytes has been lost, though nothing   *)
(* but the two guards is ever tested.                                        *)
NoPhantomTag == last_detected_rfid = Garbled => lost >= FrameLength

(* The reader is in step with the line: it is as far in its frame as the     *)
(* line is, or waits between frames.                                         *)
Progress ==
  CASE rfid_state = "WAIT_START" -> 0
    [] rfid_state = "LEFT_GUARD" -> 1 + rfid_counter
    [] rfid_state = "READ" -> FirstDigit + rfid_counter
    [] rfid_state = "RIGHT_GUARD" -> FirstDigit + RFID_LENGTH + rfid_counter
    [] rfid_state = "WAIT_FINISH" -> FrameLength - 1

(* Whatever was lost, two frames later the reader is in step again: at most  *)
(* two tags are missed.                                                      *)
Resynchronises == since >= 2 * FrameLength - 2 => pos = Progress

(* The log ends with the tag detected last, and the owner knows where the    *)
(* car is: the position announced is that of the first zone listing that     *)
(* tag, unless a send failed or the configuration was absent or has changed. *)
(* An owner who was never told anything has a car that was in no zone.       *)
OwnerKnowsPosition ==
  last_detected_rfid # RFID_MAX_NUMBER =>
    /\ "log" \notin excuses => logged = last_detected_rfid
    /\ excuses \subseteq {"log"} =>
         LET zone == ZoneOf(last_detected_rfid, configuration)
         IN \/ position = PositionOf(zone)
            \/ position = "NONE" /\ zone = UNKNOWN_GEOFENCING_ZONE_ID
=============================================================================

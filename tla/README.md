# Formal models of the Kaa sample applications

TLA+ models of the stateful programs in this repository, the TLC
configurations that check them on small instances, and TLAPS proofs of their
most important properties for every value of the constants. Paths below are
relative to the repository's root.

The repository is a collection of applications built on the Kaa SDK. The SDK
and the Kaa server are not part of it; they are modelled from how the
applications use them and marked external. What carries logic of its own is
the *City Lights* demo (a controller in Java, two firmwares and a car in C),
the *IoT World* devices and the Twitter LED board. City Lights is the one system here whose parts
act on each other through several hops: a car reads RFID tags and reports
them, the controller turns reports into server configurations, and the traffic
light and the street lights poll those configurations. The other programs are
each modelled by themselves, with the events and notifications they receive
arriving at any time.

## 1. Inventory

### City Lights controller (`src/citylights-controller/source/java`)

State: `TrafficLightState` (three volatile flags: `mainRoadState`,
`carPending`, `pedestrianPending`), `StreetLightState` (the zone the car is
in), the timers of a single-threaded scheduled executor, and the monitor of
`ControllerResource.class`.

Operations: one REST resource starts a new thread per report; that thread runs
`processRfidLog` or `processTrafficLog` inside the monitor. `main` calls
`startSwitchTimer` once. The executor's switch timer and walk timer run
*outside* the monitor and enter it only to re-arm.

Interaction: each decision becomes a REST call to the Kaa server (edit and
activate a configuration of an endpoint group), which may fail before or after
the server has taken it over; failures are logged and dropped.

Hard: reports reordered on their way to the monitor; a timer that checks the
flags, then acts on the server while a report is being handled; chains of
timers that must neither die out nor breed; failed calls and restarts that
leave server and controller in disagreement.

Correct when: the light never stops changing while nobody is pending; a
pedestrian's request always has someone to end it; the server holds the main
road closed during a walk and open for a car; exactly the zone of the car's
last tag is lit, and never two zones.

### Traffic light firmware (`src/econais/ec19d/trafficlights-driver`)

State: seven pins, `main_road_state`, the persisted configuration, `ip_connected`.
`switch_lights` writes the pins one by one with pauses of seconds in between; it
runs at boot, when the persisted configuration is restored and in the
configuration callback. Hard: power loss between any two pins, server states
that come and go while a switch is running. Correct when: green always faces
red, one road at a time is open, and the lamps settle on the server's state.

### Street light firmware (`src/econais/ec19d/streetlight-driver`)

State: a pin per zone, `light_states` indexed by the *position* in the received
list, the persisted list. Hard: the list is the concatenation of the entries of
several endpoint groups, so a position may come to mean another zone; the light
sees only some of the lists. Correct when: exactly the configured lamps burn
after each callback, and the street settles on the zone of the car's last tag.

### Connected car (`src/connectedcar/source/c`)

State: the byte-wise frame reader (`rfid_state`, `rfid_counter`, `rfid_buffer`),
the last tag, the current geofencing zone, the configuration. Hard: bytes
dropped by the serial buffer, with no checksum ever looked at; a log record or
an event that fails and is never sent again; the configuration replaced between
two tags. Correct when: no tag is made up, the reader falls into step again
after any loss, and the owner's idea of the position matches the last tag.

### IoT World (`src/iotworld/source`)

*Music player* (`musicplayer/java`). State: operation mode, position and song
id (persisted), the pending status, the field `player`, and every player that
was ever made and still runs on a thread of its own. Operations: play, pause,
stop, operation mode and position on the callback thread; `onEndOfMedia` on the
thread of the player whose song ended. Hard: only `resetPlayer` is synchronized,
and both threads read and write the field around it. Correct when exactly the
newest player plays, on the song remembered, when it was asked to and is allowed
to, and geofencing resumes exactly what it paused.

*Irrigation* (`irrigation/java`). State: the scheduled future, the watering task
on the executor's thread, its interrupt status, the relay, the status sent to
subscribers. Operations: attach, control request, start request and detach cancel
the task *with interruption* and schedule another; the run opens the relay,
sleeps, closes it. Hard: the interruption falls on any statement of the run,
sending a status or writing the pin may throw, also in the handler. Correct when
there is one schedule, and water runs only inside a run that announced it.

*Light bulbs* (`light/light.c`). State: brightness and state of each bulb, the
operation mode and position, two state files, one PWM thread per bulb.
Operations: the events change a value, rewrite the file, tell the subscribers;
the files are loaded after a restart once the endpoint is attached. Hard: a file
is truncated and rewritten in two parts; the PWM thread reads the values one
after the other, mode and position under no mutex. Correct when a crash loses what
was told only if it cuts a rewrite off, and then no more than that file, and when the
pins follow the state.

*Photo player* (`photoplayer/java`). State: mode, position, pending status, the
field `player`, and per show an index, the current and the next image, a thread and
a pool of one thread. Operations: start, upload, delete, pause, mode and position on
the callback thread; the show's thread moves from photo to photo; the pool stores
each picture it has read as current or next. Hard: the three threads share volatile
fields and nothing else; a show is stopped by a flag and an interruption that
`repaint` may swallow. Correct when the photo shown is the one of the number told,
a show goes on, and a stopped one ends.

*Fan* (C): one status and two handlers. *Climate, smart home* (Android, iOS):
user interfaces over the same events.

### Twitter LED board (`src/twitterled/twitterboard`)

State: the queue of notifications, the queue of wake-ups, the configuration,
`default.ppm` and `text.ppm`, the process that drives the matrix. Operations:
the board's thread takes, draws, shows and waits; the callbacks put a
notification and then a wake-up, or a configuration, an image and a wake-up;
`shutdown` sets a flag and interrupts. Hard: the thread may run between any two
of these; every exception, the interruption included, is swallowed by the loop.
Correct when no wake-up is lost, every notification is shown or overtaken by a
newer one, and shutdown always ends the thread.

### Twitter monitor (`src/twitterled/twittermonitor`)

State: one worker thread per configuration, between the Twitter stream and the
Kaa server. Operation: `onConfigurationUpdate` interrupts the worker and starts
another. Hard: `init` makes the same call itself. Correct when one worker runs,
on the newest configuration.

### Others

Connected car emulator (console loop), event chat (rooms in a user interface),
power plant (periodic samples), telemetry monitor (server-side log appender
with statistics), OTA sample, one sample per SDK feature, analytics data
generators, the demo builders, scripts, documentation and vendored code. None of
them is modelled; the reason for each is in `PROJECT.json` under `components`.
They have next to no state of their own, the telemetry monitor excepted.

## 2. Modules

| module | models | state and actions in terms of the code |
|---|---|---|
| `TrafficController` | `ControllerResource`, traffic half; `TrafficLightState`; `ControllerApplication.main` | one action per volatile access and per half of a REST call; `pc`/`holder` say where the thread in the monitor is, `exec` where the executor is; `threads` are reports waiting for the monitor; armed timers are counted by what they will set |
| `StreetLightController` | `ControllerResource.processStreetLights` | one action per REST call and per turn of the loop over the zones; `enabled`/`listed` are the groups' configurations on the server |
| `Intersection` | what a crossing promises (abstract) | at most one road open; closed before another opens |
| `TrafficLightDriver` | traffic light `application.c` | one action per pin write, per stage of `APP_main`, per poll, and a power cycle anywhere |
| `StreetLightDriver` | street light `application.c` | one action per entry of the list, per position past its end, boot, callback return, power cycle |
| `StreetLights` | controller + server groups + light | extends `StreetLightController` and instantiates `StreetLightDriver`; the server's list in between, said by what it contains (`IsListOf`): an entry for each group that has one, in the order of the groups |
| `RfidReader` | `main.cpp` of the car | one action per byte and state of `readRFID`, a byte lost, a new configuration, stop |
| `MusicPlayer` | `MusicPlayerApplication`, `MusicPlayer`, `MusicPlayerState` | one action per stage of a callback (`doing`) and per stage of each player's `onEndOfMedia` (`ending`), divided where the field `player` or the monitor is read or written; a restart |
| `Irrigation` | `IMSController` and its task | one action per statement of the run that can be interrupted or throw; one per request, `StopCurrentTask`, `ScheduleTask`; `state` is what the executor knows of each task |
| `Bulbs` | `light.c` | one action per event, per stage of rewriting each file and of loading them, per read (brightness, state, mode, mode again, position) and write of the pin by a bulb's thread; crash, exit, boot |
| `SlideShow` | `PhotoPlayerApplication`, `SlideShow`, `PhotoLibrary` (upload, delete) | one record per show with its fields, the place of its thread (`at`) and of its pool (`poolAt`); one action per access the other threads can see; the callbacks in the stages of `doing` |
| `LedBoard` | `BoardController` | one action per statement of `run` that blocks, draws, displays or decides; two or three per callback, two for `shutdown` |
| `CityLightsProofs` | | theorems about `TrafficController` and `RfidReader` |
| `StreetLightsProofs` | | theorems about `StreetLightController` and about its composition `StreetLights` |
| `TrafficLightDriverProofs`, `MusicPlayerProofs`, `IrrigationProofs`, `BulbsProofs`, `SlideShowProofs`, `LedBoardProofs` | | theorems about the module named |
| `MCController`, `MCDriver`, `MCStreetController`, `MCStreetLights`, `MCRfidReader`, `MCMusicPlayer`, `MCIrrigation`, `MCBulbs`, `MCSlideShow`, `MCLedBoard` | | instances for TLC |

Each module holds, next to some of its actions, an operator commented as
*Mutant*: the action as a plausible bug would have it. No specification uses
them; for every checked property there is at least one whose substitution makes
TLC report that property, which shows that the property depends on the code.

### What is abstracted

- Durations. The delays of the timers are configuration values and a REST call
  has no bound on its time, so any armed timer may fire next. In the driver the
  pauses of `switch_lights` are simply places where other things happen.
- The REST client. Looking up the group and the schema, editing and activating
  a configuration are one step that changes the server's state; a call that
  throws does so either before or after that step.
- Reports. A tag is one of `mainRoadAllowTags` or not; the only traffic event
  the schema has is BUTTON. A report that makes the handler throw has no effect
  on the state and is left out.
- Bytes. The reader's buffer is a tag as long as every digit read so far was the
  digit of that tag in its place, and `Garbled` otherwise. A guard is never
  taken for another byte: it is assumed of the reader (external) that everything
  between the guards is text, as the conversion of the digits from base 16
  suggests, while the guards are the control bytes 2 and 3.
- The Kaa client (external). It keeps the newest configuration in persistent
  storage and calls the callback with it on a thread of its own, so two
  callbacks never overlap; it may miss states of the server between two polls.
  The connection set-up of the street light is folded into the fact that a poll
  need not happen. In the IoT World devices and the LED board its callbacks run
  one at a time, on a thread of its own.
- The music. How long a song lasts is open: it may end at any moment after it
  began. Volume, seeking, the playlist sent to subscribers and their list are left
  out: they read what is modelled and change none of it.
- The watering. A delay may elapse and a pulse may end at any time; of the
  interval only whether it is zero matters, since the executor refuses that one.
  The amounts of water are left out, and so is the computation of the first delay.
- The bulbs' files. A file is empty after it was opened, holds its first half from
  the `fseek` on and all of it once closed; it can always be opened. Who subscribes and
  the device's name are left out. Of the PWM period only its bright and dark part remain.
  An event for a bulb that is not there is left out: `get_builb_index` returns -1 for it
  and `set_brightness` and `set_bulb_state` write outside their arrays, which is undefined.
- The slide show. A photo is its index in its album; how long it is shown is open.
  The panels of the frame, thumbnails and status updates are left out. The test of
  `nextImage` and the write of the index are one step, and so are the painting and
  the request for the next preview, as nothing the other threads do between them
  can be told apart. `resumePlayback` never has to make a show, because a pending
  PLAYING has one. A start is only for an album that the library has, with a photo in
  it: the code refuses no other, but stops the old show and installs one of a null
  album, whose first use throws (section 5). An upload that throws while its file is
  written, or while the thumbnail is made after the album has grown, begins no show and
  is left out. The library's root is taken for an
  absolute path: under a relative one the id of the album of uploads and
  `getUploadsAlbumId` differ, and a deletion neither stops its show nor removes it.
- The LED board. The scrolling time may be over at any moment; an image is the
  number of the notification and the colours it was drawn with; a configuration is
  whether `queueSize` is 0, the colours, and the default message.

### History variables

Some promises hold only as long as nothing has gone wrong that the code makes
no attempt to repair. These variables record exactly that, and what the properties they
appear in say of the hazard itself is then nothing: PROJECT.json names a hazard's
properties only where they reach it. No guard reads them,
except that `lost` is also what the bound `MaxLost` is compared with.

- `excused` (`TrafficController`): the newest update of the server failed, or
  was carried out by the executor after a car or a pedestrian had become pending
  (the executor tests the flags and calls the server outside the monitor, so this
  really happens), or no update has been made since start-up. It ends with the
  next update that succeeds and overtakes nothing.
- `clean` (`StreetLightController`): no call has failed since the zone was last
  unknown. The handler switches all zones off whenever the zone is unknown.
- `aligned` (`StreetLights`): since boot, no position of the list through which
  a lamp is lit has come to mean another zone. Without it
  `LampsFollowConfiguration` fails: a group that gets its first entry while a
  lamp further down the list is lit shifts the positions, and the lamp is then
  switched off at the wrong pin. It needs a group without an entry, so it is a
  matter of the first updates after the groups were created.
- `skipped`, `lost`, `since`, `excuses` (`RfidReader`): bytes lost since the
  guard a read began with, bytes lost in all, bytes since the last loss, and which
  sends failed or configurations changed since the tag, or the zone, was new.
- `overlapped` (`MusicPlayer`): since the program was started, a song has ended
  while a callback or the end of another song was at work. Without it
  `PlaysAsAsked` fails, see section 5.
- `astray`, `swallowed` (`SlideShow`): shows that the pool of another show played,
  that were initialised again while they ran, or whose album grew under them; shows
  whose interruption met `repaint`. Without any one of the three parts of `astray`
  TLC finds a wrong picture, see section 5.
- `told`, `cutOff` (`Bulbs`): what was last sent, and, until the next message, what was
  being saved when the program crashed between the opening of a file to rewrite it and
  the message. A crash before the opening is no exception. `ToldUnlessCutOff` says what
  is left in that case rather than exempting it.

## 3. Runs

| run | question | bounds |
|---|---|---|
| `traffic_safety` | Does any interleaving of reports, main and timers stall the light, strand a pedestrian, open the road during a walk, hold up a car, or breed timers? | reports arrive while fewer than 3 threads and timers are outstanding, 1 failing call, 1 restart; 2.6 million states |
| `traffic_liveness` | Does the light alternate, does a car get and keep the road, does a walk end? | backlog 1, 1 failing call |
| `traffic_driver` | Does the pin-by-pin firmware implement the abstract crossing and follow the server? | 2 power cycles, the server changes without bound |
| `street_controller` | Does the lit zone follow the car, one zone at a time, and do failures heal? | 3 zones, tags in none, one and two zones, 2 failing calls, 1 restart |
| `street_lights` | Does the street show what the controller meant? | 2 zones whose groups are in reverse order, 1 failing call, 1 restart, 1 power cycle |
| `rfid_reader` | Does the reader make up tags, get back into step, keep its owner informed? | frames of 6 bytes (2 digits, 1 byte on either side), up to 6 lost bytes, 3 tags, 2 configurations |
| `music_player` | Is the music what was asked for, after any mix of requests, refusals and ends of songs? | 2 songs, 3 players between two starts; 485,000 states |
| `irrigation` | Can replacing the task leave two schedules, or the water running? | 3 tasks, 2 exceptions; 2,564 states |
| `bulbs` | When does a crash lose what was told and how much of it, do the pins follow? | 2 bulbs, requests of -1, 50 and 101 percent, 2 changes, 1 crash; 453,000 states |
| `slide_show` | Is the photo shown the one of the number told, and is the next one on its way? | 2 shows, 3 events, an album of 3 photos and one of uploads that grows from 1 to 3; 3.5 million states |
| `slide_show_live` | Does a show go on, does a stopped one end? | 2 shows, 2 events, albums of 2 and 1 photos, 1 unreadable photo |
| `led_board` | Can a wake-up or a notification be lost, does shutdown end the thread? | 2 notifications, 1 new configuration, 1 exception; 263,000 states |

Why these are enough. *Traffic*: with three threads or timers outstanding a
report and a timer can overlap while another report waits, so every pair of
places in the code is reached together (each action and every disjunct fires);
the proofs cover all bounds. The liveness run uses a backlog of one, which still
lets a car arrive during a walk, a button be pressed during a stay and a report
overlap the executor, because a timer that is *running* is not counted; two
outstanding make the temporal check too slow. *Driver*: state there is finite but
for the number of power cycles, and the second cycle already starts from a state
that a first one left behind. *Streets*: tag 11 lies in two zones, so that the
light moves on within one report; the reversed order of groups separates
positions from zones; the initial server state is arbitrary, so groups with and
without entries occur. *Reader*: a phantom tag does appear once six bytes, a
whole frame, are lost, so the bound in `NoPhantomTag` is reached and is tight; so
is the bound of `Resynchronises`. `RFID_MAX_NUMBER` is one of the tags, as in the
code, where eight digits can spell 0xFFFFFFFF. *Music player*: the race between
a callback and an end of song needs two players, and the third shows what a
later request does to the one forgotten; two songs tell the next from the same.
*Irrigation*: one task is cancelled in its run, its successor before its run, and
a third lives on; two exceptions let the handler fail after the run did. *Bulbs*:
two bulbs whose values differ show a mixed-up index or a half-written file; the
second change finds the file the first one left, and the crash may come in either;
each of the three outcomes that `BulbsLeft` allows is reached.
*Slide show*: three photos tell the next from the one before; two shows are what one
needs to be played by the other's pool; three events make a start, a pause and a
resumption. The one-photo album is the one whose thread waits for ever, so that the
interruption alone can end it. *LED board*: two notifications are what skipping
needs, one configuration that may change colours, message and `queueSize` meets them in every order, and an
exception may fall on any drawing or display. Deadlock is checked in every run but
`rfid_reader`, where the console's `S` stops the program, and `led_board`, where
`shutdown` does. In `Bulbs` and `SlideShow` the check says little: an event that
changes nothing (`OnListRequest`, `OnInfoRequest`) is possible whenever the callback
thread is idle, so that only a callback that cannot go on would be found; that the
threads go on is what the liveness properties say.

### What the properties say

`traffic_safety`: `NoStall`, `PedestrianNeverStranded`, `CrossingProtected`,
`CarHasRightOfWay`, `TimersNeverMultiply`. The third and fourth are promises
about the *server* in terms of the controller's flags, and so about every path
that updates one and not the other. `traffic_liveness`: `LightAlternates`,
`CarHoldsLight`, `CarGetsGreen`, `WalkEnds`. `traffic_driver`: `GreenFacesRed`,
`SteadyLamps`, `ImplementsIntersection` (refinement), `FollowsServer`.
`street_controller`: `LitZoneFollowsTag`, `OneZoneAtATime`, `Heals`.
`street_lights`: `LampsFollowConfiguration`, `StreetSettles`. `rfid_reader`:
`NoPhantomTag`, `Resynchronises`, `OwnerKnowsPosition`. `music_player`:
`PlaysAsAsked`, which relates every player ever made to the last request, to mode
and position, and to the remembered song. `irrigation`: `OneSchedule`,
`ValveClosedWhenIdle`, `CancelReachesItsRun` (the interruption is that of the task on
the thread, and lasts until the pulse sees it), `CancelStopsWater` (liveness). `bulbs`:
`ToldUnlessCutOff`, over both files and any crash: what was told comes back unless the
crash cut a rewrite off, and what may be there in that case; and `PinFollowsState`
(liveness). `slide_show` and `slide_show_live`:
`PictureMatchesNumber`, `NextIsComing` (the request made in `repaint` stays in the
pool until it is stored, which is what `ShowGoesOn` rests on), `StopIsNotLost` (an
interruption is taken from a thread that is to stop only where the thread then sees
the flag, or `repaint` has logged it: what `StoppedShowEnds` rests on), `ShowGoesOn`
and `StoppedShowEnds` (liveness). `led_board`:
`SteadyBoardIsCurrent` (no lost wake-up), `NoNotificationIsLost` and
`BoardEndsWhenTold` (what the next two rest on), `NotificationsAreShown` and `ShutdownEnds`
(liveness). Each module has a type invariant besides. All of them are proved; only
those of `RfidReader` and `Bulbs` are run as well, because they also say that an index
into a buffer and a brightness stay in range.

### Fairness

- A thread that can run does (weak fairness of the steps of the thread in the
  monitor, of the executor, of the light's callback and of `switch_lights`).
- A thread that waits for the monitor is not passed over for ever (strong
  fairness of the entries). Java promises no order, but `HotSpot`'s monitors hand
  over to their waiters; without it nothing could be said of a report at all.
- A client that runs keeps polling (strong fairness of `Poll`, as the server may
  be seen to change and change back in between).
- The LED board's thread, a callback that has begun and the second half of
  `shutdown` go on (weak fairness). So do the irrigation's executor, `StopCurrentTask`
  and `ScheduleTask`; that a pulse ends by itself is *not* assumed, as the duration
  is configured, so `CancelStopsWater` rests on the interruption alone.
- Every thread of the slide show and a callback that has begun are fair (weakly).
- Of the bulbs only the PWM threads are fair. `MusicPlayer` has no liveness
  property and needs no fairness.
- Nothing makes a report, an event or a notification arrive, a call fail, a byte get lost,
  a process restart or be told to end, power fail, or an IP address be acquired.

## 4. Proofs

All proofs are for every value of the constants under the named assumptions
(`BoundsAssumption`, `ResetsAssumption`, `ReaderAssumption`, `LibraryAssumption`,
`IrrigationBounds`, `BulbsAssumption`, `BoardBounds`, `AlbumAssumption`,
`OrderAssumption` and those of `StreetLightController`), which say little more than
that the bounds are natural numbers and that every zone has one group; TLC evaluates
them in the runs. Every proof module also proves the type invariants.

`CityLightsProofs` proves, of `TrafficController`, the type invariant and the five
safety properties. None is inductive as it stands. `MonitorInv` ties
`holder` to the places its kind of thread can be, and `exec = "locked"` to the
executor holding the monitor; `CarFlagInv` says what `carPending` and
`pedestrianPending` are at each of those places, which is where it is used that
`carPending` is written only inside the monitor while the executor may lower
`pedestrianPending` at any time; `DepartureInv` covers the window in which a
leaving car has already closed the road but still counts as pending, without
which `CrossingProtected` breaks when the flag is lowered. `IInv` is their
conjunction with the properties; each conjunct has its own lemma with a step per
action. `ChainsDoNotMultiply` is an action property from the same invariant.

`TrafficLightDriverProofs` proves `GreenFacesRed`, `SteadyLamps` and that the
firmware implements `Intersection`. The invariant says, for each pin about to be
written, which lamps burn, and relates `main_road_state`, `config` and `allow` to
the phase of `APP_main`; the step of the refinement is then by pin: turning the
closing road's green off is `Close`, turning the other's on is `Open`, a power
cycle is `Close` or a stutter and everything else stutters.

`StreetLightsProofs` proves `LitZoneFollowsTag` and `OneZoneAtATime` of the
controller. `StepInv` says what the index and the remembered zone are at each step of
the handler, `LitInv` which zones are on there while no call has failed, and
`FollowInv` that the loop over the zones has lit the last one it passed that lists
the tag; at the loop's end that is the maximum the property names.
`StreetImplementsController` shows that every step of the composition is one of the
controller or leaves it alone, so both hold at the end of the chain, too. For the
lamps, `Distinct` says that no zone is twice in the list a light holds, which comes
from the groups being in some order without repetition; `LightInv` says that, as long
as `aligned` holds, a pin burns exactly when the position of its zone's entry is set
in `light_states`, and that the positions the callback has passed, or all of them
while the light waits, are as the list says. `LampsFollowConfiguration` is the two
together. The property alone is not inductive: it says nothing of the entries the
callback has yet to reach, nor of pins without an entry.

`CityLightsProofs` also proves, of `RfidReader`, `NoPhantomTag` and `Resynchronises`
for frames of any length. `OffsetInv` says how far the line is ahead of a read that
has lost fewer bytes than a frame, which makes a garbled tag need a full frame of
losses; `BufferInv` says that a read without a loss holds the frame's own digits;
`SinceInv` bounds the bytes since the last loss by the reader's progress, and in
the wait for the next guard by the line's. `OwnerInv` relates the last tag, the
zone and the owner's position at every step of a tag's handling, which gives
`OwnerKnowsPosition`.

`MusicPlayerProofs` proves `PlaysAsAsked` for any library and number of players.
`UseInv` says that whoever is about to use the field finds a player there;
`AloneInv` describes, for a history without overlap, the music at every stage of a
callback (`CallbackInv`) and of an end of song (`EndInv`), and `Settled` between
them. It is needed because the property speaks only of quiet states, and says
nothing of how one is reached.

`IrrigationProofs` proves `OneSchedule` and `ValveClosedWhenIdle`. `ScheduleInv`
says that only the newest task is live, and none is between cancelling and
scheduling; `RunInv` what each place of the run knows of valve and status. For
`CancelReachesItsRun`, `CancelInv` adds that the thread's task is the only one that
runs, so that cancelling a task that is delayed interrupts nobody, and that the task to
be scheduled next is unknown to the executor, so that it cannot be the one on the thread.

`BulbsProofs` proves `ToldUnlessCutOff` for any set of bulbs and any number of crashes.
`BulbsInv` and `GeoInv` say that between two changes memory equals what the file
would be loaded as, a short file standing for the values of start-up; that what
was told equals that, too, unless a rewrite is in progress or was cut off, and which
values the file can have then; and what each half of a rewrite has already put there.
That mode and position can only be those of start-up after a cut comes from the load,
which tells whatever else it finds.

`LedBoardProofs` proves `SteadyBoardIsCurrent`. `WaitInv` covers the window between
the test of the queue and the wait, in which the wake-up for what came meanwhile is
in the queue or about to be put; `DrawnInv` says that a message drawn in old colours
has a wake-up coming that draws it again, whatever other wake-ups stand before it.
`QueueInv`, for `NoNotificationIsLost`, adds what the two image files hold: the default
image is no notification, and between drawing and showing a message nothing else is
drawn. `BoardEndsWhenTold` is inductive by itself.

`SlideShowProofs` proves `PictureMatchesNumber`, `NextIsComing` and `StopIsNotLost` for
any albums and any number of shows, requests and unreadable photos. `Handshake` is the protocol of one
show that is neither stopped nor astray: what its pool still has to read is the current
photo, save that the last task may be the next one while the thread waits for it; what
the pool found out by comparing (`poolAt`) still holds when it stores, because the
index moves only after the next picture is there and then nothing is left to read; and
the thread is before its first photo until a pool has stored it. `ShowInv` holds of
every show whatever its history: the index is within the album, only a stopped show is
interrupted or ends, every show but the newest is stopped, and whoever is about to be
started by another show's pool is in `astray`. It needs `CallbackInv`, which says what
each stage of a callback relies on (an old show is stopped before it is replaced, a
pending play request has a show). Each record lemma (`TopKeeps`,
`MoveIndexKeeps`, `GenerateGoesOn`, ...) treats one access of one show; `OwnStep` and `ChangeShow` lift it to all
shows. `WaitInv` adds the task that will bring the next photo, and `DeletedInv` that a
show of a deleted album is stopped, which is why the deletion cannot take that photo
away from a show that waits for it. `StopIsNotLost` is inductive once `IInv` is known:
`Obeys` says of every access of a show's own thread or pool that it leaves a stopped
thread its interruption, or takes it where the loop is gone round or `repaint` logs it.

Only model-checked: all liveness properties, as the prover does not handle fairness
and `ENABLED`. Every safety invariant and action property that a run checks has a
theorem.

## 5. Observations about the code

Things the models show, which the properties above state around rather than
forbid, as the repository nowhere says otherwise:

- The switch timer checks the pending flags and updates the server without the
  monitor (`ControllerResource.java:230`). A report in between is overtaken: the
  road may open under a pedestrian, until the walk ends. `excused` marks it.
- The same for a second button press just before the walk timer lowers
  `pedestrianPending`: it starts another walk timer but loses its flag.
- After a failed update `mainRoad` and the server disagree; the light then skips
  one change and recovers (`LightAlternates` holds through failures).
- A failed switch-off of a street zone leaves it lit until the car has been
  outside every zone (`Heals`).
- A street light's positions may shift when a group gets its first entry
  (`aligned` above); a list longer than the number of pins would run past
  `light_states`, which is left out of the model: there is a group per zone.
- A tag read again after its zone was moved by a new configuration is dropped as
  the same tag, so the owner keeps the old position until another tag is read.
- *Music player*. A song that ends while a play request is being handled lets both
  threads call `resetPlayer`; the request then writes its own player back to the
  field, and the other one goes on playing with nobody to stop it (`overlapped`).
  `stop` calls `setSongId(null)`, which the `Properties` of the state refuse with an
  exception (`MusicPlayerApplication.java:227`), so the song stays remembered and the
  originator is not answered. A status update is compared and remembered by the
  status thread and the callback thread without a lock (lines 401-408), so that a
  listener may keep a stale one.
- *Irrigation*. An interval of zero makes the executor refuse the new task after the
  old one was cancelled. `IMSController.java:98` compares an absolute time with a
  remaining delay, so the second branch is hardly ever taken. A control
  request during a watering computes the next time from the watering before, as the
  one it is about to abort has not ended, so the next may begin at once. An exception
  while the handler reports the abort ends the schedule until the next request.
- *Light bulbs*. A file is truncated before it is rewritten (`light.c:192`, `208`), so a
  crash between that and the close loses what it held: a bulb that was told 50 percent
  long ago comes up at 100 because an event for *another* bulb was being saved, and the
  geofencing mode is lost by a crash while it is only loaded, as loading rewrites its
  file. Subscribers are not told of it. `is_operational` reads the mode twice: a mode that
  goes from GEOFENCING to ON between the two reads lets a bulb go dark for a period though
  it should shine before and after. "Geofencing state persisted successfully" is logged
  even if the file could not be opened.
  `deinit` does not wait for the PWM threads, so a bulb may stay lit after the end
  of the program. The subscribers are not persisted.
- *Photo player*. `onInitCompleted` plays whichever show is the newest by then
  (`PhotoPlayerApplication.java:397`): when one start request follows another quickly,
  the first show's pool plays the second before its first photo is there, and the
  screen stays empty for five seconds. It also plays without asking whether it is
  allowed, so a mode OFF that comes while the first photo is read does not stop it;
  and it is not paused when its owner leaves home (`handleStateUpdate` has no branch
  for it, unlike the music player's).
  A show resumed by geofencing is only initialised again, which starts it the first
  time but never clears `paused`; a preview read for that may be stored as the next
  image of a show that has moved on, and is then shown under the wrong number. An
  upload grows the list under the show of the same album. An album of one photo
  never gets a next image, so its thread waits until it is interrupted, and for ever
  if `repaint` logged that interruption (line 276 of `SlideShow.java`). The pools are
  never shut down. A start for an album the library does not have, the uploads after
  their deletion for one, is not refused: the old show is stopped, and the pool of the new
  one, or a later callback, throws on its null album (lines 228 and 326).
- *LED board*. With `queueSize` 0, two notifications in quick succession leave a
  wake-up behind that cuts the second message short; it is shown all the same. An
  image drawn by the starting thread from the configuration it found may overwrite
  that of a newer one; the wake-up then shows the older message
  (`SteadyBoardIsCurrent` speaks of the file, not of the newest configuration). A
  message whose drawing throws is lost.
- *Not modelled, seen while reading*. The fan's `current_status` is never assigned,
  so every answer says the same (`fan.c:57`). The Twitter monitor's `init` calls `onConfigurationUpdate` itself, beside the callback:
  two workers, or the older configuration's, may be left.

## 6. Not modelled, and plan

Left out for good: user interfaces, console loops, build-time tools, vendored
code (the bulk of the repository's lines), the Wi-Fi profile code of the
firmwares, the one-call SDK samples, the data generators.

- *CityLights*, the composition of `TrafficController` with `TrafficLightDriver`.
  The property the two would share, one road open at a time whatever the controller
  does, is already proved: `ImplementsIntersection` holds for a server that changes
  at will. What is left is liveness (the lamps settle on green for a car that
  stays), and the product of both state spaces with the strong fairness of the
  monitor is beyond a run of a few minutes.
- *Twitter monitor*. Its only state is the worker, between two external services.
- *Telemetry monitor*. `previousFailed` and the statistics are shared by the log
  appender's threads without a lock, so what they hold is arithmetic on samples; no
  other component acts on it.
- *Fan*. Two handlers and a pin, with nothing that relates them.
- The controller's start-up with an invalid configuration (it is logged and the
  thread goes on), the traffic light's button record, and lists longer than
  `light_states`: undefined behaviour or an exception that ends the thread.

Next, in this order: invariants that the liveness properties rest on, proved as
`NextIsComing` is for `ShowGoesOn`, `StopIsNotLost` for `StoppedShowEnds`,
`CancelReachesItsRun` for `CancelStopsWater` and `BoardEndsWhenTold` for `ShutdownEnds`
(a walk of the traffic light, a lamp that is to settle), and `CityLights` with a controller
reduced to what its properties promise.

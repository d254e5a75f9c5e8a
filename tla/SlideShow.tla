----------------------------- MODULE SlideShow -----------------------------
(***************************************************************************)
(* The photo player (PhotoPlayerApplication, SlideShow).  Every slide show *)
(* has a thread that moves from photo to photo and a pool of one thread    *)
(* that reads the photos; the callbacks of the Kaa client (external: one   *)
(* callback thread) replace, pause and resume the show.  The threads share *)
(* the volatile fields of a show and nothing else, so one step is about    *)
(* one access to them.  A photo is its index in its album; the status      *)
(* messages, thumbnails and the panels of the frame are left out, and the  *)
(* time a photo is shown may end at any moment.  The library's root is an  *)
(* absolute path, so that an album has one id.  Left out: a start for an   *)
(* album the library does not have, which the code does not refuse (it     *)
(* stops the old show and installs one of a null album, whose use throws), *)
(* and an upload that throws (it begins no show).                          *)
(***************************************************************************)
EXTENDS Integers, Sequences

CONSTANTS
  Album, Uploads,  \* the library's albums, and the one uploads go to
  Photos,          \* how many photos each has at first
  MaxPhotos,       \* how many Uploads may grow to
  MaxShows,        \* slide shows in one behaviour
  MaxRequests,     \* events in one behaviour that change something
  MaxFaults        \* photos that cannot be read

ASSUME AlbumAssumption ==
  /\ Uploads \in Album
  /\ Photos \in [Album -> 0 .. MaxPhotos]
  /\ MaxPhotos \in Nat /\ MaxShows \in Nat /\ MaxRequests \in Nat /\ MaxFaults \in Nat

VARIABLES
  photos,          \* how many photos each album of the library has
  mode, position,  \* PhotoPlayerState
  pendingStatus,
  player,          \* the newest show, 0 before the first
  doing,           \* where the callback is
  show,            \* the fields of each show, its thread and its pool
  astray,          \* history: shows played by another's pool, initialised while they run, or
                   \* whose album grew
  swallowed,       \* history: shows whose interruption was lost in repaint
  requests, faults

vars == <<photos, mode, position, pendingStatus, player, doing, show, astray, swallowed,
          requests, faults>>

state == <<photos, mode, position, pendingStatus>>
history == <<astray, swallowed>>

None == -1
Index == 0 .. MaxPhotos - 1
Modes == {"ON", "OFF", "GEOFENCING"}
Positions == {"HOME", "AWAY"}   \* AWAY stands for NEAR, too: only HOME is ever asked for

Steps == [step : {"idle", "stop", "interrupt", "replace", "delete", "init", "pause"},
          then : {"replace", "delete"}, album : Album, last : BOOLEAN, init : BOOLEAN]

At(step) == [step |-> step, then |-> "delete", album |-> Uploads, last |-> FALSE, init |-> FALSE]
Idle == At("idle")

Shows == 1 .. MaxShows

ShowRecord ==
  [album : Album, size : 0 .. MaxPhotos, deleted : BOOLEAN, currentIndex : Index,
   currentImage : Index \cup {None}, nextImage : Index \cup {None},
   initialized : BOOLEAN, status : {"null", "PLAYING", "PAUSED"},
   at : {"new", "top", "paint", "show", "image", "clear", "ended"},
   paused : BOOLEAN, stopped : BOOLEAN, interrupted : BOOLEAN,
   screen : Index \cup {None},
   pool : Seq(Index), poolAt : {"idle", "current", "next", "check", "play", "start"},
   plays : 0 .. MaxShows]

TypeOK ==
  /\ photos \in [Album -> 0 .. MaxPhotos]
  /\ mode \in Modes /\ position \in Positions
  /\ pendingStatus \in {"PLAYING", "PAUSED"}
  /\ player \in 0 .. MaxShows
  /\ show \in Seq(ShowRecord) /\ Len(show) = player
  /\ doing \in Steps
  /\ astray \subseteq Shows /\ swallowed \subseteq Shows
  /\ requests \in 0 .. MaxRequests /\ faults \in 0 .. MaxFaults

Init ==
  /\ photos = Photos
  /\ mode = "ON" /\ position \in Positions
  /\ pendingStatus = "PAUSED"
  /\ player = 0 /\ show = <<>>
  /\ doing = Idle
  /\ astray = {} /\ swallowed = {} /\ requests = 0 /\ faults = 0

isPlaybackAllowed == mode = "ON" \/ (mode = "GEOFENCING" /\ position = "HOME")

-----------------------------------------------------------------------------
\* The callbacks.
Receive == doing = Idle /\ requests < MaxRequests /\ requests' = requests + 1

\* resetSlideshow begins: the old show is to be stopped, then replaced.
Reset(album, last, init) ==
  [step |-> IF player = 0 THEN "replace" ELSE "stop", then |-> "replace",
   album |-> album, last |-> last, init |-> init]

\* onEvent(StartSlideShowRequest), only with an album of the library (a guard of
\* the model, not of the code): initialised at once only when allowed.
OnStart(album) ==
  /\ Receive /\ player < MaxShows
  /\ photos[album] > 0
  /\ pendingStatus' = "PLAYING"
  /\ doing' = Reset(album, FALSE, isPlaybackAllowed)
  /\ UNCHANGED <<photos, mode, position, player, show, history, faults>>

\* onEvent(PhotoUploadRequest): the album grows, also under a show of it, and the
\* photo is shown without asking for permission.
OnUpload ==
  /\ Receive /\ player < MaxShows
  /\ photos[Uploads] < MaxPhotos
  /\ photos' = [photos EXCEPT ![Uploads] = @ + 1]
  /\ LET growing == {s \in DOMAIN show : show[s].album = Uploads /\ ~show[s].deleted}
     IN /\ show' = [s \in DOMAIN show |->
                      IF s \in growing THEN [show[s] EXCEPT !.size = @ + 1] ELSE show[s]]
        /\ astray' = astray \cup growing
  /\ doing' = Reset(Uploads, TRUE, TRUE)
  /\ UNCHANGED <<mode, position, pendingStatus, player, swallowed, faults>>

\* onEvent(DeleteUploadedPhotosRequest): a show of them is stopped first.
OnDelete ==
  /\ Receive
  /\ doing' = At(IF player # 0 /\ show[player].album = Uploads THEN "stop" ELSE "delete")
  /\ UNCHANGED <<state, player, show, history, faults>>

\* SlideShow.stop: the flag first, then the interruption.
SetStopped ==
  /\ doing.step = "stop"
  /\ doing' = [doing EXCEPT !.step = "interrupt"]
  /\ show' = [show EXCEPT ![player].stopped = TRUE]
  /\ UNCHANGED <<state, player, history, requests, faults>>

\* Mutant: only the flag is set, and a thread that waits for a photo is left waiting.
InterruptForgotten ==
  /\ doing.step = "interrupt"
  /\ doing' = [doing EXCEPT !.step = doing.then]
  /\ UNCHANGED <<state, player, show, history, requests, faults>>

\* A thread that has not been started, or has ended, ignores it.
Interrupt ==
  /\ doing.step = "interrupt"
  /\ doing' = [doing EXCEPT !.step = doing.then]
  /\ show' = [show EXCEPT ![player].interrupted = (show[player].at \notin {"new", "ended"})]
  /\ UNCHANGED <<state, player, history, requests, faults>>

NewShow(album, last) ==
  [album |-> album, size |-> photos[album], deleted |-> FALSE,
   currentIndex |-> IF last THEN photos[album] - 1 ELSE 0,
   currentImage |-> None, nextImage |-> None, initialized |-> FALSE, status |-> "null",
   at |-> "new", paused |-> FALSE, stopped |-> FALSE, interrupted |-> FALSE,
   screen |-> None, pool |-> <<>>, poolAt |-> "idle", plays |-> 0]

Replace ==
  /\ doing.step = "replace"
  /\ show' = Append(show, NewShow(doing.album, doing.last))
  /\ player' = player + 1
  /\ doing' = IF doing.init THEN At("init") ELSE Idle
  /\ UNCHANGED <<state, history, requests, faults>>

\* The files and the library's album go; a show keeps its list of names.
DeleteUploads ==
  /\ doing.step = "delete" /\ doing' = Idle
  /\ photos' = [photos EXCEPT ![Uploads] = 0]
  /\ show' = [s \in DOMAIN show |-> [show[s] EXCEPT !.deleted = @ \/ show[s].album = Uploads]]
  /\ UNCHANGED <<mode, position, pendingStatus, player, history, requests, faults>>

\* SlideShow.init: a preview of whatever photo is the current one by now.
InitShow ==
  /\ doing.step = "init" /\ doing' = Idle
  /\ show' = [show EXCEPT ![player].pool = Append(@, show[player].currentIndex)]
  /\ astray' = IF show[player].at = "new" THEN astray ELSE astray \cup {player}
  /\ UNCHANGED <<state, player, swallowed, requests, faults>>

\* SlideShow.pause, its two halves.
PauseShow ==
  /\ show' = [show EXCEPT ![player].status = "PAUSED"]
  /\ doing' = At("pause")

SetPaused ==
  /\ doing.step = "pause" /\ doing' = Idle
  /\ show' = [show EXCEPT ![player].paused = TRUE]
  /\ UNCHANGED <<state, player, history, requests, faults>>

\* onEvent(PauseSlideShowRequest).
OnPause ==
  /\ Receive
  /\ pendingStatus' = "PAUSED"
  /\ IF player # 0 /\ show[player].status # "PAUSED" THEN PauseShow ELSE UNCHANGED <<show, doing>>
  /\ UNCHANGED <<photos, mode, position, player, history, faults>>

\* handleStateUpdate: pendingStatus is PLAYING only when there is a show, which
\* resumePlayback therefore never has to make.
HandleStateUpdate ==
  CASE mode' = "OFF" /\ player # 0 /\ show[player].status = "PLAYING" -> PauseShow
    [] isPlaybackAllowed' /\ pendingStatus = "PLAYING" /\ show[player].status # "PLAYING" ->
         doing' = At("init") /\ UNCHANGED show
    [] OTHER -> UNCHANGED <<show, doing>>

\* onEvent(OperationModeUpdateRequest), onEvent(GeoFencingPositionUpdate).
OnGeoUpdate ==
  /\ Receive
  /\ \/ mode' \in Modes /\ UNCHANGED position
     \/ position' \in Positions /\ UNCHANGED mode
  /\ HandleStateUpdate
  /\ UNCHANGED <<photos, pendingStatus, player, history, faults>>

\* Requests for the device's info, the albums, the status or the geofencing are
\* answered with what there is.
OnInfoRequest == doing = Idle /\ UNCHANGED vars

-----------------------------------------------------------------------------
\* The thread of a pool: buildPreview and onPreviewGenerated.
PoolStep(s, from) == s \in DOMAIN show /\ show[s].pool # <<>> /\ show[s].poolAt = from

Preview(s) == Head(show[s].pool)
Done(r) == [r EXCEPT !.pool = Tail(@), !.poolAt = "idle"]

\* A photo that is not there, or cannot be read, is only logged.  A deleted one
\* may be there again when others were uploaded since.
PreviewFails(s) ==
  /\ PoolStep(s, "idle")
  /\ \/ (Preview(s) >= show[s].size \/ show[s].deleted) /\ UNCHANGED faults
     \/ faults < MaxFaults /\ faults' = faults + 1
  /\ show' = [show EXCEPT ![s] = Done(@)]
  /\ UNCHANGED <<state, player, doing, history, requests>>

\* The picture is ready, and compared with the index the show has by now ...
Generate(s) ==
  /\ PoolStep(s, "idle")
  /\ Preview(s) < show[s].size
  /\ show[s].deleted => photos[Uploads] > 0
  /\ show' = [show EXCEPT ![s].poolAt =
                IF show[s].currentIndex = Preview(s) THEN "current" ELSE "next"]
  /\ UNCHANGED <<state, player, doing, history, requests, faults>>

\* ... stored ...
Store(s) ==
  /\ \/ PoolStep(s, "current")
        /\ show' = [show EXCEPT ![s].currentImage = Preview(s), ![s].poolAt = "check"]
     \/ PoolStep(s, "next")
        /\ show' = [show EXCEPT ![s].nextImage = Preview(s), ![s].poolAt = "check"]
  /\ UNCHANGED <<state, player, doing, history, requests, faults>>

\* ... and compared again.
Complete(s) ==
  /\ PoolStep(s, "check")
  /\ show' = IF show[s].currentIndex = Preview(s) /\ ~show[s].initialized
               THEN [show EXCEPT ![s].initialized = TRUE, ![s].poolAt = "play"]
               ELSE [show EXCEPT ![s] = Done(@)]
  /\ UNCHANGED <<state, player, doing, history, requests, faults>>

\* onInitCompleted plays the show that is the player's by now, allowed or not.
PlayPlayer(s) ==
  /\ PoolStep(s, "play")
  /\ show' = [[show EXCEPT ![player].status = "PLAYING"]
                      EXCEPT ![s].poolAt = "start", ![s].plays = player]
  /\ astray' = IF player = s THEN astray ELSE astray \cup {player}
  /\ UNCHANGED <<state, player, doing, swallowed, requests, faults>>

Started(r) == [r EXCEPT !.paused = FALSE, !.at = IF @ = "new" THEN "top" ELSE @]

StartThread(s) ==
  /\ PoolStep(s, "start")
  /\ show' = [[show EXCEPT ![s] = Done(@)] EXCEPT ![show[s].plays] = Started(@)]
  /\ UNCHANGED <<state, player, doing, history, requests, faults>>

Pool(s) ==
  PreviewFails(s) \/ Generate(s) \/ Store(s) \/ Complete(s) \/ PlayPlayer(s) \/ StartThread(s)

-----------------------------------------------------------------------------
\* The thread of a show: SlideShowThread.run.
Thread(s, from, next) ==
  /\ s \in DOMAIN show /\ show[s].at = from
  /\ show' = [show EXCEPT ![s] = next]
  /\ UNCHANGED <<state, player, doing, astray, requests, faults>>

\* The loop's condition and the test of the pause.
Top(s) ==
  /\ Thread(s, "top", [show[s] EXCEPT !.at = IF show[s].stopped THEN "ended" ELSE "paint"])
  /\ show[s].stopped \/ ~show[s].paused
  /\ UNCHANGED swallowed

\* Mutant: the album is taken to have one photo more than it has.
NextIndexTooLate(r) == IF r.currentIndex = r.size THEN 0 ELSE r.currentIndex + 1

NextIndex(r) == IF r.currentIndex = r.size - 1 THEN 0 ELSE r.currentIndex + 1

\* repaint logs an interruption and goes on (the event queue paints all the
\* same); then the next photo is asked for.
Repaint(s) ==
  /\ Thread(s, "paint", [show[s] EXCEPT !.screen = show[s].currentImage, !.interrupted = FALSE,
                                        !.pool = Append(@, NextIndex(show[s])), !.at = "show"])
  /\ swallowed' = IF show[s].interrupted THEN swallowed \cup {s} ELSE swallowed

\* The photo's time is over and the next one is there.
MoveIndex(s) ==
  /\ Thread(s, "show", [show[s] EXCEPT !.currentIndex = NextIndex(show[s]), !.at = "image"])
  /\ show[s].nextImage # None
  /\ UNCHANGED swallowed

\* The sleep that shows a photo and the one that waits for the next throw when
\* they are interrupted; the loop is then gone round.
Interrupted(s) ==
  /\ Thread(s, "show", [show[s] EXCEPT !.interrupted = FALSE, !.at = "top"])
  /\ show[s].interrupted
  /\ UNCHANGED swallowed

MoveImage(s) ==
  /\ Thread(s, "image", [show[s] EXCEPT !.currentImage = show[s].nextImage, !.at = "clear"])
  /\ UNCHANGED swallowed

\* Mutant: the picture stays in nextImage.
ClearNextForgotten(s) ==
  /\ Thread(s, "clear", [show[s] EXCEPT !.at = "top"])
  /\ UNCHANGED swallowed

ClearNext(s) ==
  /\ Thread(s, "clear", [show[s] EXCEPT !.nextImage = None, !.at = "top"])
  /\ UNCHANGED swallowed

Run(s) == Top(s) \/ Repaint(s) \/ MoveIndex(s) \/ Interrupted(s) \/ MoveImage(s) \/ ClearNext(s)

-----------------------------------------------------------------------------
Request ==
  \/ \E album \in Album : OnStart(album)
  \/ OnUpload \/ OnDelete \/ OnPause \/ OnGeoUpdate \/ OnInfoRequest

Callback == SetStopped \/ Interrupt \/ Replace \/ DeleteUploads \/ InitShow \/ SetPaused

Next == Request \/ Callback \/ \E s \in Shows : Pool(s) \/ Run(s)

Spec == Init /\ [][Next]_vars

\* Every thread is scheduled, and a callback that has begun goes on.
FairSpec ==
  /\ Spec /\ WF_vars(Callback)
  /\ \A s \in Shows : WF_vars(Pool(s)) /\ WF_vars(Run(s))

-----------------------------------------------------------------------------
\* While a photo is shown it is the one whose number the subscribers are told,
\* and the one that waits is its successor, although the index, the two images
\* and the comparison in the pool are separate accesses of different threads;
\* save for shows played by another's pool, initialised again while they run,
\* or whose album grew before they were stopped.
PictureMatchesNumber ==
  \A s \in DOMAIN show :
    s \notin astray /\ ~show[s].stopped /\ show[s].at = "show" =>
      /\ show[s].screen = show[s].currentIndex
      /\ show[s].nextImage \in {None, NextIndex(show[s])}

\* A show of two photos or more that waits for its next photo has it coming:
\* the pool, however many previews of the current photo it has before it, is yet
\* to read and to store it, so that the request made in repaint is never lost;
\* save for the same shows, and when a photo could not be read.
Coming(r) ==
  \E k \in 1 .. Len(r.pool) :
    r.pool[k] = NextIndex(r) /\ (k = 1 => r.poolAt \in {"idle", "next"})

NextIsComing ==
  \A s \in DOMAIN show :
    /\ show[s].at = "show" /\ show[s].nextImage = None /\ show[s].size > 1
    /\ s \notin astray /\ ~show[s].stopped /\ faults = 0
    => Coming(show[s])

\* A thread that is to stop has its interruption before it wherever it is in its
\* loop, or stop is still at it, or repaint has logged it: nothing else, neither
\* the moves of the loop nor the start of a thread that was stopped before,
\* takes the interruption away.
Working == {"paint", "show", "image", "clear"}

StopIsNotLost ==
  \A s \in DOMAIN show :
    show[s].stopped /\ show[s].at \in Working =>
      \/ show[s].interrupted \/ s \in swallowed
      \/ s = player /\ doing.step = "interrupt"

\* A show of two photos or more goes on to its next photo, unless it is stopped
\* or a photo cannot be read: the handshake over nextImage never blocks.
Showing(i) ==
  {s \in DOMAIN show : show[s].at = "show" /\ show[s].currentIndex = i /\ show[s].size > 1}
Moved(i) == {s \in DOMAIN show : show[s].currentIndex # i \/ show[s].stopped}

ShowGoesOn ==
  \A s \in Shows : \A i \in Index : s \in Showing(i) ~> s \in Moved(i) \/ faults > 0

\* The thread of a stopped show ends, although the interruption may meet any
\* statement of its loop, unless repaint swallowed it.
Stopping == {s \in DOMAIN show : show[s].stopped /\ show[s].at # "new"}
Ended == {s \in DOMAIN show : show[s].at = "ended"}

StoppedShowEnds == \A s \in Shows : s \in Stopping ~> s \in Ended \cup swallowed
=============================================================================

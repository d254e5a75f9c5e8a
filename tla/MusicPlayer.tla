---------------------------- MODULE MusicPlayer ----------------------------
(***************************************************************************)
(* The music player (MusicPlayerApplication).  The callbacks of the Kaa    *)
(* client (external: one callback thread) play, pause and stop, and allow  *)
(* or forbid the music by operation mode and position; a song that ends    *)
(* calls onEndOfMedia on the thread of its own player (the mp3 library,    *)
(* external), which starts the next one.  Every song has a new player;     *)
(* only resetPlayer is synchronized, and its callers' reads and writes of  *)
(* the field `player' are not.  Volume, seeking and the status updates to  *)
(* the subscribers are left out: they only read what is kept here.         *)
(***************************************************************************)
EXTENDS Naturals

CONSTANTS
  NumSongs,     \* songs 1 .. NumSongs in the order of the library
  MaxPlayers    \* players made between two starts of the program

ASSUME LibraryAssumption == NumSongs \in Nat \ {0} /\ MaxPlayers \in Nat

VARIABLES
  mode, position, songId,   \* MusicPlayerState, which is persisted; songId 0 is none
  pendingStatus,
  player,        \* the field; 0 is null
  made,          \* players made so far
  status, song,  \* of each player
  listening,     \* the players that will call onEndOfMedia
  doing,         \* where the callback is
  request,       \* the song of the play request in hand; 0 is not in the library
  returned,      \* what resetPlayer returned to it
  ending, next,  \* where each player's onEndOfMedia is, and the song it starts
  overlapped     \* history: an onEndOfMedia was not alone

vars == <<mode, position, songId, pendingStatus, player, made, status, song, listening,
          doing, request, returned, ending, next, overlapped>>

state == <<mode, position, songId>>
players == <<player, made, status, song, listening>>
callback == <<doing, request, returned>>
ends == <<ending, next>>

Players == 1 .. MaxPlayers
Songs == 1 .. NumSongs
Modes == {"ON", "OFF", "GEOFENCING"}
Positions == {"HOME", "NEAR", "AWAY"}
Statuses == {"PLAYING", "PAUSED", "STOPPED"}

TypeOK ==
  /\ mode \in Modes /\ position \in Positions /\ songId \in 0 .. NumSongs
  /\ pendingStatus \in Statuses
  /\ player \in 0 .. made /\ made \in 0 .. MaxPlayers
  /\ status \in [Players -> Statuses] /\ song \in [Players -> 0 .. NumSongs]
  /\ listening \subseteq Players
  /\ doing \in {"idle", "reset", "assign", "play", "save", "update"}
  /\ request \in 0 .. NumSongs /\ returned \in 0 .. made
  /\ ending \in [Players -> {"none", "check", "reset", "play", "save"}]
  /\ next \in [Players -> 0 .. NumSongs]
  /\ overlapped \in BOOLEAN

Stopped == [p \in Players |-> "STOPPED"]
NotEnding == [p \in Players |-> "none"]
NoSong == [p \in Players |-> 0]

Init ==
  /\ mode = "OFF" /\ position = "AWAY" /\ songId = 0
  /\ pendingStatus = "STOPPED"
  /\ player = 0 /\ made = 0 /\ status = Stopped /\ song = NoSong /\ listening = {}
  /\ doing = "idle" /\ request = 0 /\ returned = 0
  /\ ending = NotEnding /\ next = NoSong
  /\ overlapped = FALSE

isPlaybackAllowed == mode = "ON" \/ (mode = "GEOFENCING" /\ position = "HOME")

Quiet == doing = "idle" /\ \A p \in Players : ending[p] = "none"

\* getNext: the first song after the last one, or after one it does not have.
NextSong(s) == IF s < NumSongs THEN s + 1 ELSE 1

\* resetPlayer, which holds the monitor: the player in the field is silenced
\* and replaced.
ResetPlayer(s) ==
  /\ made < MaxPlayers
  /\ made' = made + 1 /\ player' = made'
  /\ status' = [p \in Players |-> IF p \in {player, made'} THEN "STOPPED" ELSE status[p]]
  /\ song' = [song EXCEPT ![made'] = s]
  /\ listening' = (listening \ {player}) \cup {made'}

SetStatus(p, s) ==
  /\ status' = [status EXCEPT ![p] = s]
  /\ UNCHANGED <<player, made, song, listening>>

-----------------------------------------------------------------------------
\* The callbacks.
Receive(first) ==
  /\ doing = "idle" /\ doing' = first
  /\ overlapped' = (overlapped \/ ~Quiet)
  /\ UNCHANGED ends

\* onEvent(PlayRequest): a paused player of the same song is kept.
OnPlay(s) ==
  /\ made < MaxPlayers
  /\ IF player # 0 /\ status[player] = "PAUSED" /\ song[player] = s
       THEN Receive("play") /\ pendingStatus' = "PLAYING"
       ELSE Receive("reset") /\ UNCHANGED pendingStatus
  /\ request' = s
  /\ UNCHANGED <<state, players, returned>>

\* A song the library does not have ends the callback with an exception.
Reset ==
  /\ doing = "reset"
  /\ \/ request # 0 /\ ResetPlayer(request) /\ doing' = "assign" /\ returned' = player'
     \/ request = 0 /\ doing' = "idle" /\ UNCHANGED <<players, returned>>
  /\ UNCHANGED <<state, pendingStatus, request, ends, overlapped>>

\* The field is written once more, outside the monitor.
Assign ==
  /\ doing = "assign" /\ doing' = "play"
  /\ player' = returned
  /\ pendingStatus' = "PLAYING"
  /\ UNCHANGED <<state, made, status, song, listening, request, returned, ends, overlapped>>

Play ==
  /\ doing = "play" /\ doing' = "save"
  /\ IF isPlaybackAllowed THEN SetStatus(player, "PLAYING") ELSE UNCHANGED players
  /\ UNCHANGED <<state, pendingStatus, request, returned, ends, overlapped>>

Save ==
  /\ doing = "save" /\ doing' = "idle"
  /\ songId' = request
  /\ UNCHANGED <<mode, position, pendingStatus, players, request, returned, ends, overlapped>>

\* onEvent(PauseRequest) and onEvent(StopRequest): with no player an exception
\* ends the callback, and stop's setSongId(null) throws, too; the pending status stays.
OnPauseOrStop(s) ==
  /\ Receive("idle")
  /\ pendingStatus' = s
  /\ IF player = 0 THEN UNCHANGED players ELSE SetStatus(player, s)
  /\ UNCHANGED <<state, request, returned>>

\* onEvent(OperationModeUpdateRequest), onEvent(GeoFencingPositionUpdate).
OnGeoUpdate ==
  /\ Receive("update")
  /\ \/ mode' \in Modes /\ UNCHANGED position
     \/ position' \in Positions /\ UNCHANGED mode
  /\ UNCHANGED <<songId, pendingStatus, players, request, returned>>

\* Mutant: a position that forbids the music does not pause it, only the mode OFF does.
HandleStateUpdateModeOnly ==
  /\ doing = "update" /\ doing' = "idle"
  /\ CASE mode = "OFF" /\ player # 0 /\ status[player] = "PLAYING" ->
            SetStatus(player, "PAUSED")
       [] isPlaybackAllowed /\ pendingStatus = "PLAYING" -> SetStatus(player, "PLAYING")
       [] OTHER -> UNCHANGED players
  /\ UNCHANGED <<state, pendingStatus, request, returned, ends, overlapped>>

\* handleStateUpdate; a pending PLAYING has a player, which resumePlayback need not make.
HandleStateUpdate ==
  /\ doing = "update" /\ doing' = "idle"
  /\ CASE ~isPlaybackAllowed /\ player # 0 /\ status[player] = "PLAYING" ->
            SetStatus(player, "PAUSED")
       [] isPlaybackAllowed /\ pendingStatus = "PLAYING" -> SetStatus(player, "PLAYING")
       [] OTHER -> UNCHANGED players
  /\ UNCHANGED <<state, pendingStatus, request, returned, ends, overlapped>>

-----------------------------------------------------------------------------
\* The players' threads.  A song ends; only a player with a listener tells.
SongEnds(p) ==
  /\ status[p] = "PLAYING" /\ ending[p] = "none"
  /\ SetStatus(p, "STOPPED")
  /\ IF p \in listening
       THEN ending' = [ending EXCEPT ![p] = "check"] /\ overlapped' = (overlapped \/ ~Quiet)
       ELSE UNCHANGED <<ending, overlapped>>
  /\ UNCHANGED <<state, pendingStatus, callback, next>>

\* onEndOfMedia, first its permission and the song to come ...
CheckPermission(p) ==
  /\ ending[p] = "check"
  /\ IF isPlaybackAllowed
       THEN /\ ending' = [ending EXCEPT ![p] = "reset"]
            /\ next' = [next EXCEPT ![p] = NextSong(songId)]
       ELSE ending' = [ending EXCEPT ![p] = "none"] /\ UNCHANGED next
  /\ UNCHANGED <<state, pendingStatus, players, callback, overlapped>>

\* ... then the monitor ...
ResetToNext(p) ==
  /\ ending[p] = "reset" /\ ending' = [ending EXCEPT ![p] = "play"]
  /\ ResetPlayer(next[p])
  /\ UNCHANGED <<state, pendingStatus, callback, next, overlapped>>

\* ... then whatever player is in the field by now.
PlayNext(p) ==
  /\ ending[p] = "play" /\ ending' = [ending EXCEPT ![p] = "save"]
  /\ SetStatus(player, "PLAYING")
  /\ UNCHANGED <<state, pendingStatus, callback, next, overlapped>>

SaveNext(p) ==
  /\ ending[p] = "save" /\ ending' = [ending EXCEPT ![p] = "none"]
  /\ songId' = next[p]
  /\ UNCHANGED <<mode, position, pendingStatus, players, callback, next, overlapped>>

-----------------------------------------------------------------------------
\* The program is stopped or killed and started again.
Restart ==
  /\ pendingStatus' = "STOPPED"
  /\ player' = 0 /\ made' = 0 /\ status' = Stopped /\ song' = NoSong /\ listening' = {}
  /\ doing' = "idle" /\ request' = 0 /\ returned' = 0
  /\ ending' = NotEnding /\ next' = NoSong
  /\ overlapped' = FALSE
  /\ UNCHANGED state

Callback ==
  \/ \E s \in 0 .. NumSongs : OnPlay(s)
  \/ Reset \/ Assign \/ Play \/ Save
  \/ \E s \in {"PAUSED", "STOPPED"} : OnPauseOrStop(s)
  \/ OnGeoUpdate \/ HandleStateUpdate

EndOfMedia(p) ==
  SongEnds(p) \/ CheckPermission(p) \/ ResetToNext(p) \/ PlayNext(p) \/ SaveNext(p)

Next == Callback \/ Restart \/ \E p \in Players : EndOfMedia(p)

Spec == Init /\ [][Next]_vars

-----------------------------------------------------------------------------
\* As long as no song has ended while a callback (or another song's end) was
\* at work, the music is what was asked for: between callbacks the newest
\* player, and no forgotten one, plays exactly when the last request was to
\* play and mode and position allow it, and it plays the song the state
\* remembers, after any mix of requests, refusals, ends of songs and restarts.
PlaysAsAsked ==
  Quiet /\ ~overlapped =>
    /\ {p \in Players : status[p] = "PLAYING"} =
         IF isPlaybackAllowed /\ pendingStatus = "PLAYING" THEN {player} ELSE {}
    /\ player # 0 => song[player] = songId
=============================================================================

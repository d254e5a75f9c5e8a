------------------------- MODULE MusicPlayerProofs -------------------------
(***************************************************************************)
(* Proof that the music is what was asked for as long as no song ends      *)
(* while a callback is at work, for any library and number of players.     *)
(***************************************************************************)
EXTENDS MusicPlayer, TLAPS

Playing == {p \in Players : status[p] = "PLAYING"}

\* What holds of the music when everything is quiet.
Settled ==
  /\ Playing = IF isPlaybackAllowed /\ pendingStatus = "PLAYING" THEN {player} ELSE {}
  /\ player # 0 => song[player] = songId

\* The player in the field is the one that has been asked to play.
FieldInv ==
  /\ pendingStatus = "PLAYING" => player # 0
  /\ player # 0 => player \in listening
  /\ Playing \subseteq {player}

\* Where a callback that is alone has brought the music.
CallbackInv ==
  /\ doing = "update" =>
       /\ Playing # {} => pendingStatus = "PLAYING"
       /\ player # 0 => song[player] = songId
  /\ doing = "reset" => Settled
  /\ doing \in {"assign", "play", "save"} => player # 0 /\ song[player] = request
  /\ doing = "assign" => returned = player
  /\ doing \in {"assign", "play"} => Playing = {}
  /\ doing \in {"play", "save"} => pendingStatus = "PLAYING"
  /\ doing = "save" => Playing = IF isPlaybackAllowed THEN {player} ELSE {}

\* ... and the onEndOfMedia of player p, which is alone too.
EndInv(p) ==
  ending[p] # "none" =>
    /\ doing = "idle" /\ \A q \in Players : ending[q] # "none" => q = p
    /\ isPlaybackAllowed /\ pendingStatus = "PLAYING"
    /\ Playing = IF ending[p] = "save" THEN {player} ELSE {}
    /\ ending[p] \in {"play", "save"} => song[player] = next[p]

AloneInv ==
  ~overlapped => /\ FieldInv /\ CallbackInv
                 /\ Quiet => Settled
                 /\ \A p \in Players : EndInv(p)

\* What the types leave out: whoever is about to use the field finds a player in it.
UseInv ==
  /\ pendingStatus = "PLAYING" \/ doing = "play" => player # 0
  /\ doing = "assign" => returned # 0
  /\ \A p \in Players : ending[p] = "play" => player # 0

IInv == TypeOK /\ UseInv /\ AloneInv

-----------------------------------------------------------------------------
\* The next song is in the library.
LEMMA NextSongType == \A s \in 0 .. NumSongs : NextSong(s) \in Songs
  BY LibraryAssumption DEF NextSong, Songs

\* What resetPlayer does to the field and to the players that make a sound.
LEMMA Replaced ==
  ASSUME TypeOK, NEW s \in 0 .. NumSongs, ResetPlayer(s)
  PROVE  /\ made' \in Players /\ player' = made' /\ made' > made
         /\ status' \in [Players -> Statuses] /\ song' \in [Players -> 0 .. NumSongs]
         /\ listening' \subseteq Players
         /\ song'[player'] = s /\ player' \in listening'
         /\ Playing' = Playing \ {player, player'}
<1>1. made \in Nat /\ MaxPlayers \in Nat
  BY LibraryAssumption DEF TypeOK
<1>2. made' \in Players /\ player' = made' /\ made' > made
  BY <1>1, LibraryAssumption DEF ResetPlayer, Players
<1>3. status' = [p \in Players |-> IF p \in {player, made'} THEN "STOPPED" ELSE status[p]]
  BY DEF ResetPlayer
<1>4. status' \in [Players -> Statuses]
  BY <1>3 DEF TypeOK, Statuses
<1>5. song' \in [Players -> 0 .. NumSongs] /\ song'[player'] = s
  BY <1>2 DEF ResetPlayer, TypeOK
<1>6. listening' \subseteq Players /\ player' \in listening'
  BY <1>2 DEF ResetPlayer, TypeOK
<1>7. Playing' = Playing \ {player, player'}
  BY <1>2, <1>3 DEF Playing
<1> QED
  BY <1>2, <1>4, <1>5, <1>6, <1>7

\* ... and what a call of one player does.
LEMMA StatusSet ==
  ASSUME TypeOK, NEW p \in Players, NEW s \in Statuses, SetStatus(p, s)
  PROVE  /\ status' \in [Players -> Statuses] /\ UNCHANGED <<player, made, song, listening>>
         /\ Playing' = IF s = "PLAYING" THEN Playing \cup {p} ELSE Playing \ {p}
  BY DEF SetStatus, TypeOK, Playing, Statuses

\* The field names a player.
LEMMA FieldType == TypeOK /\ player # 0 => player \in Players
  BY LibraryAssumption DEF TypeOK, Players

-----------------------------------------------------------------------------
LEMMA InitIInv == Init => IInv
<1> SUFFICES ASSUME Init PROVE IInv
  OBVIOUS
<1>1. overlapped \in BOOLEAN
  BY DEF Init
<1>2. status \in [Players -> Statuses] /\ song \in [Players -> 0 .. NumSongs]
        /\ next \in [Players -> 0 .. NumSongs]
        /\ ending \in [Players -> {"none", "check", "reset", "play", "save"}]
  BY LibraryAssumption DEF Init, Stopped, NoSong, NotEnding, Statuses
<1>3. songId \in 0 .. NumSongs /\ made \in 0 .. MaxPlayers /\ player \in 0 .. made
        /\ request \in 0 .. NumSongs /\ returned \in 0 .. made
  BY LibraryAssumption DEF Init
<1>4. TypeOK
  BY <1>1, <1>2, <1>3 DEF Init, TypeOK, Modes, Positions, Statuses
<1>5. Playing = {} /\ \A p \in Players : ending[p] = "none"
  BY DEF Init, Playing, Stopped, NotEnding
<1> QED
  BY <1>4, <1>5 DEF Init, IInv, UseInv, AloneInv, FieldInv, CallbackInv, EndInv, Settled,
                    isPlaybackAllowed

-----------------------------------------------------------------------------
\* The types of the players, of the callback and of the ends of songs.
PlayersOK ==
  /\ player \in 0 .. made /\ made \in 0 .. MaxPlayers
  /\ status \in [Players -> Statuses] /\ song \in [Players -> 0 .. NumSongs]
  /\ listening \subseteq Players

StateOK ==
  /\ mode \in Modes /\ position \in Positions /\ songId \in 0 .. NumSongs
  /\ pendingStatus \in Statuses

CallbackOK ==
  /\ doing \in {"idle", "reset", "assign", "play", "save", "update"}
  /\ request \in 0 .. NumSongs /\ returned \in 0 .. made

EndsOK ==
  /\ ending \in [Players -> {"none", "check", "reset", "play", "save"}]
  /\ next \in [Players -> 0 .. NumSongs]

LEMMA Parts == TypeOK <=> PlayersOK /\ StateOK /\ CallbackOK /\ EndsOK /\ overlapped \in BOOLEAN
  BY DEF TypeOK, PlayersOK, StateOK, CallbackOK, EndsOK

LEMMA ReplacedOK ==
  ASSUME TypeOK, NEW s \in 0 .. NumSongs, ResetPlayer(s)
  PROVE  PlayersOK' /\ returned \in 0 .. made' /\ player' # 0 /\ player' \in 0 .. made'
<1>1. made' \in Players /\ player' = made' /\ made' > made
        /\ status' \in [Players -> Statuses] /\ song' \in [Players -> 0 .. NumSongs]
        /\ listening' \subseteq Players
  BY Replaced
<1>2. made \in Nat /\ MaxPlayers \in Nat /\ returned \in 0 .. made
  BY LibraryAssumption DEF TypeOK
<1>3. made' \in 0 .. MaxPlayers /\ player' \in 0 .. made' /\ player' # 0
        /\ returned \in 0 .. made'
  BY <1>1, <1>2 DEF Players
<1> QED
  BY <1>1, <1>3 DEF PlayersOK

LEMMA StatusSetOK ==
  ASSUME TypeOK, NEW p \in Players, NEW s \in Statuses, SetStatus(p, s)
  PROVE  PlayersOK' /\ UNCHANGED <<player, made>>
  BY StatusSet DEF PlayersOK, TypeOK

\* What a step of a callback keeps of the types ...
LEMMA TypeCallback ==
  ASSUME TypeOK, UseInv, Callback
  PROVE  TypeOK' /\ UseInv'
<1> USE DEF state, players, callback, ends
<1>0. PlayersOK /\ StateOK /\ CallbackOK /\ EndsOK /\ overlapped \in BOOLEAN
  BY Parts
<1>a. (overlapped \/ ~Quiet) \in BOOLEAN
  BY <1>0
<1>1. ASSUME NEW s \in 0 .. NumSongs, OnPlay(s) PROVE TypeOK' /\ UseInv'
  <2>1. overlapped' \in BOOLEAN
    BY <1>1, <1>a DEF OnPlay, Receive
  <2>2. PlayersOK' /\ EndsOK'
    BY <1>0, <1>1 DEF OnPlay, Receive, PlayersOK, EndsOK
  <2>3. StateOK'
    BY <1>0, <1>1 DEF OnPlay, StateOK, Statuses
  <2>4. CallbackOK'
    BY <1>0, <1>1 DEF OnPlay, Receive, CallbackOK
  <2>5. UseInv'
    BY <1>1 DEF OnPlay, Receive, UseInv
  <2> QED
    BY <2>1, <2>2, <2>3, <2>4, <2>5 DEF TypeOK, PlayersOK, StateOK, CallbackOK, EndsOK
<1>2. ASSUME Reset PROVE TypeOK' /\ UseInv'
  <2>1. StateOK' /\ EndsOK' /\ overlapped' \in BOOLEAN
    BY <1>0, <1>2 DEF Reset, StateOK, EndsOK
  <2>2. CASE request # 0
    <3>1. request \in 0 .. NumSongs /\ ResetPlayer(request) /\ doing' = "assign" /\ returned' = player'
            /\ UNCHANGED <<request, pendingStatus, ending>>
      BY <1>0, <1>2, <2>2 DEF Reset, CallbackOK
    <3>2. PlayersOK' /\ player' # 0 /\ player' \in 0 .. made'
      BY <3>1, ReplacedOK
    <3>3. CallbackOK' /\ UseInv'
      BY <1>0, <3>1, <3>2 DEF CallbackOK, UseInv
    <3> QED
      BY <2>1, <3>2, <3>3 DEF TypeOK, PlayersOK, StateOK, CallbackOK, EndsOK
  <2>3. CASE request = 0
    <3>1. doing' = "idle" /\ UNCHANGED <<player, made, status, song, listening, returned, request,
                                          pendingStatus, ending>>
      BY <1>2, <2>3 DEF Reset
    <3>2. PlayersOK' /\ CallbackOK' /\ UseInv'
      BY <1>0, <3>1 DEF PlayersOK, CallbackOK, UseInv
    <3> QED
      BY <2>1, <3>2 DEF TypeOK, PlayersOK, StateOK, CallbackOK, EndsOK
  <2> QED
    BY <2>2, <2>3
<1>3. ASSUME Assign PROVE TypeOK' /\ UseInv'
  <2>1. PlayersOK' /\ EndsOK' /\ overlapped' \in BOOLEAN
    BY <1>0, <1>3 DEF Assign, PlayersOK, CallbackOK, EndsOK
  <2>2. StateOK' /\ CallbackOK'
    BY <1>0, <1>3 DEF Assign, StateOK, CallbackOK, Statuses
  <2>3. UseInv'
    BY <1>3 DEF Assign, UseInv
  <2> QED
    BY <2>1, <2>2, <2>3 DEF TypeOK, PlayersOK, StateOK, CallbackOK, EndsOK
<1>4. ASSUME Play PROVE TypeOK' /\ UseInv'
  <2>1. PlayersOK' /\ UNCHANGED <<player, made>>
    <3>1. player \in Players
      BY <1>4, FieldType DEF Play, UseInv
    <3>2. CASE isPlaybackAllowed
      BY <1>4, <3>1, <3>2, StatusSetOK DEF Play, Statuses
    <3>3. CASE ~isPlaybackAllowed
      BY <1>0, <1>4, <3>3 DEF Play, PlayersOK
    <3> QED
      BY <3>2, <3>3
  <2>2. StateOK' /\ EndsOK' /\ overlapped' \in BOOLEAN
    BY <1>0, <1>4 DEF Play, StateOK, EndsOK
  <2>3. CallbackOK' /\ UseInv'
    BY <1>0, <1>4, <2>1 DEF Play, CallbackOK, UseInv
  <2> QED
    BY <2>1, <2>2, <2>3 DEF TypeOK, PlayersOK, StateOK, CallbackOK, EndsOK
<1>5. ASSUME Save PROVE TypeOK' /\ UseInv'
  <2>1. PlayersOK' /\ EndsOK' /\ overlapped' \in BOOLEAN
    BY <1>0, <1>5 DEF Save, PlayersOK, EndsOK
  <2>2. StateOK' /\ CallbackOK' /\ UseInv'
    BY <1>0, <1>5 DEF Save, StateOK, CallbackOK, UseInv
  <2> QED
    BY <2>1, <2>2 DEF TypeOK, PlayersOK, StateOK, CallbackOK, EndsOK
<1>6. ASSUME NEW s \in {"PAUSED", "STOPPED"}, OnPauseOrStop(s) PROVE TypeOK' /\ UseInv'
  <2>1. PlayersOK' /\ UNCHANGED <<player, made>>
    <3>1. CASE player = 0
      BY <1>0, <1>6, <3>1 DEF OnPauseOrStop, PlayersOK
    <3>2. CASE player # 0
      BY <1>6, <3>2, FieldType, StatusSetOK DEF OnPauseOrStop, Statuses
    <3> QED
      BY <3>1, <3>2
  <2>2. overlapped' \in BOOLEAN
    BY <1>6, <1>a DEF OnPauseOrStop, Receive
  <2>3. StateOK' /\ EndsOK'
    BY <1>0, <1>6 DEF OnPauseOrStop, Receive, StateOK, EndsOK, Statuses
  <2>4. CallbackOK' /\ UseInv'
    BY <1>0, <1>6, <2>1 DEF OnPauseOrStop, Receive, CallbackOK, UseInv
  <2> QED
    BY <2>1, <2>2, <2>3, <2>4 DEF TypeOK, PlayersOK, StateOK, CallbackOK, EndsOK
<1>7. ASSUME OnGeoUpdate PROVE TypeOK' /\ UseInv'
  <2>1. overlapped' \in BOOLEAN
    BY <1>7, <1>a DEF OnGeoUpdate, Receive
  <2>2. PlayersOK' /\ EndsOK'
    BY <1>0, <1>7 DEF OnGeoUpdate, Receive, PlayersOK, EndsOK
  <2>3. StateOK'
    BY <1>0, <1>7 DEF OnGeoUpdate, StateOK
  <2>4. CallbackOK' /\ UseInv'
    BY <1>0, <1>7 DEF OnGeoUpdate, Receive, CallbackOK, UseInv
  <2> QED
    BY <2>1, <2>2, <2>3, <2>4 DEF TypeOK, PlayersOK, StateOK, CallbackOK, EndsOK
<1>8. ASSUME HandleStateUpdate PROVE TypeOK' /\ UseInv'
  <2>1. PlayersOK' /\ UNCHANGED <<player, made>>
    <3>1. CASE ~isPlaybackAllowed /\ player # 0 /\ status[player] = "PLAYING"
      BY <1>8, <3>1, FieldType, StatusSetOK DEF HandleStateUpdate, Statuses
    <3>2. CASE isPlaybackAllowed /\ pendingStatus = "PLAYING"
      <4>1. player \in Players
        BY <3>2, FieldType DEF UseInv
      <4> QED
        BY <1>8, <3>2, <4>1, StatusSetOK DEF HandleStateUpdate, Statuses
    <3>3. CASE /\ ~(~isPlaybackAllowed /\ player # 0 /\ status[player] = "PLAYING")
               /\ ~(isPlaybackAllowed /\ pendingStatus = "PLAYING")
      BY <1>0, <1>8, <3>3 DEF HandleStateUpdate, PlayersOK
    <3> QED
      BY <3>1, <3>2, <3>3
  <2>2. StateOK' /\ EndsOK' /\ overlapped' \in BOOLEAN
    BY <1>0, <1>8 DEF HandleStateUpdate, StateOK, EndsOK
  <2>3. CallbackOK' /\ UseInv'
    BY <1>0, <1>8, <2>1 DEF HandleStateUpdate, CallbackOK, UseInv
  <2> QED
    BY <2>1, <2>2, <2>3 DEF TypeOK, PlayersOK, StateOK, CallbackOK, EndsOK
<1> QED
  BY <1>1, <1>2, <1>3, <1>4, <1>5, <1>6, <1>7, <1>8 DEF Callback

\* ... a step of a song's end ...
LEMMA TypeEnd ==
  ASSUME TypeOK, UseInv, NEW p \in Players, EndOfMedia(p)
  PROVE  TypeOK' /\ UseInv'
<1> USE DEF state, players, callback, ends
<1>0. PlayersOK /\ StateOK /\ CallbackOK /\ EndsOK /\ overlapped \in BOOLEAN
  BY Parts
<1>a. (overlapped \/ ~Quiet) \in BOOLEAN
  BY <1>0
<1>1. ASSUME SongEnds(p) PROVE TypeOK' /\ UseInv'
  <2>1. PlayersOK' /\ UNCHANGED <<player, made>>
    BY <1>1, StatusSetOK DEF SongEnds, Statuses
  <2>2. overlapped' \in BOOLEAN
    BY <1>0, <1>1, <1>a DEF SongEnds
  <2>3. ending' = ending \/ ending' = [ending EXCEPT ![p] = "check"]
    BY <1>1 DEF SongEnds
  <2>4. StateOK' /\ EndsOK' /\ CallbackOK'
    BY <1>0, <1>1, <2>1, <2>3 DEF SongEnds, StateOK, EndsOK, CallbackOK
  <2>5. UseInv'
    BY <1>0, <1>1, <2>1, <2>3 DEF SongEnds, UseInv, EndsOK
  <2> QED
    BY <2>1, <2>2, <2>4, <2>5 DEF TypeOK, PlayersOK, StateOK, CallbackOK, EndsOK
<1>2. ASSUME CheckPermission(p) PROVE TypeOK' /\ UseInv'
  <2>1. songId \in 0 .. NumSongs
    BY <1>0 DEF StateOK
  <2>2. NextSong(songId) \in 0 .. NumSongs
    BY <2>1, NextSongType, LibraryAssumption DEF Songs
  <2>3. \/ ending' = [ending EXCEPT ![p] = "reset"] /\ next' = [next EXCEPT ![p] = NextSong(songId)]
        \/ ending' = [ending EXCEPT ![p] = "none"] /\ next' = next
    BY <1>2 DEF CheckPermission
  <2>4. EndsOK' /\ UseInv'
    BY <1>0, <1>2, <2>2, <2>3 DEF CheckPermission, EndsOK, UseInv
  <2>5. PlayersOK' /\ StateOK' /\ CallbackOK' /\ overlapped' \in BOOLEAN
    BY <1>0, <1>2 DEF CheckPermission, PlayersOK, StateOK, CallbackOK
  <2> QED
    BY <2>4, <2>5 DEF TypeOK, PlayersOK, StateOK, CallbackOK, EndsOK
<1>3. ASSUME ResetToNext(p) PROVE TypeOK' /\ UseInv'
  <2>1. next[p] \in 0 .. NumSongs /\ ResetPlayer(next[p])
    BY <1>0, <1>3 DEF ResetToNext, EndsOK
  <2>2. PlayersOK' /\ returned \in 0 .. made' /\ player' # 0
    BY <2>1, ReplacedOK
  <2>3. StateOK' /\ CallbackOK' /\ overlapped' \in BOOLEAN
    BY <1>0, <1>3, <2>2 DEF ResetToNext, StateOK, CallbackOK
  <2>4. EndsOK' /\ UseInv'
    BY <1>0, <1>3, <2>2 DEF ResetToNext, EndsOK, UseInv
  <2> QED
    BY <2>2, <2>3, <2>4 DEF TypeOK, PlayersOK, StateOK, CallbackOK, EndsOK
<1>4. ASSUME PlayNext(p) PROVE TypeOK' /\ UseInv'
  <2>1. PlayersOK' /\ UNCHANGED <<player, made>>
    <3>1. player \in Players
      BY <1>4, FieldType DEF PlayNext, UseInv
    <3> QED
      BY <1>4, <3>1, StatusSetOK DEF PlayNext, Statuses
  <2>2. StateOK' /\ CallbackOK' /\ overlapped' \in BOOLEAN
    BY <1>0, <1>4, <2>1 DEF PlayNext, StateOK, CallbackOK
  <2>3. EndsOK' /\ UseInv'
    BY <1>0, <1>4, <2>1 DEF PlayNext, EndsOK, UseInv
  <2> QED
    BY <2>1, <2>2, <2>3 DEF TypeOK, PlayersOK, StateOK, CallbackOK, EndsOK
<1>5. ASSUME SaveNext(p) PROVE TypeOK' /\ UseInv'
  <2>1. PlayersOK' /\ CallbackOK' /\ overlapped' \in BOOLEAN
    BY <1>0, <1>5 DEF SaveNext, PlayersOK, CallbackOK
  <2>2. StateOK'
    BY <1>0, <1>5 DEF SaveNext, StateOK, EndsOK
  <2>3. EndsOK' /\ UseInv'
    BY <1>0, <1>5 DEF SaveNext, EndsOK, UseInv
  <2> QED
    BY <2>1, <2>2, <2>3 DEF TypeOK, PlayersOK, StateOK, CallbackOK, EndsOK
<1> QED
  BY <1>1, <1>2, <1>3, <1>4, <1>5 DEF EndOfMedia

\* ... and a start of the program, which leaves everything quiet but the state.
LEMMA RestartIInv ==
  ASSUME TypeOK, Restart PROVE IInv'
<1> USE DEF state
<1>1. overlapped' \in BOOLEAN
  BY DEF Restart
<1>2. status' \in [Players -> Statuses] /\ song' \in [Players -> 0 .. NumSongs]
        /\ next' \in [Players -> 0 .. NumSongs]
        /\ ending' \in [Players -> {"none", "check", "reset", "play", "save"}]
  BY LibraryAssumption DEF Restart, Stopped, NoSong, NotEnding, Statuses
<1>3. made' \in 0 .. MaxPlayers /\ player' \in 0 .. made'
        /\ request' \in 0 .. NumSongs /\ returned' \in 0 .. made'
  BY LibraryAssumption DEF Restart
<1>4. mode' \in Modes /\ position' \in Positions /\ songId' \in 0 .. NumSongs
  BY DEF Restart, TypeOK
<1>5. TypeOK'
  BY <1>1, <1>2, <1>3, <1>4 DEF Restart, TypeOK, Statuses
<1>6. Playing' = {} /\ \A p \in Players : ending'[p] = "none"
  BY DEF Restart, Playing, Stopped, NotEnding
<1> QED
  BY <1>5, <1>6 DEF Restart, IInv, UseInv, AloneInv, FieldInv, CallbackInv, EndInv, Settled,
                    isPlaybackAllowed

-----------------------------------------------------------------------------
\* An action of a callback, alone, finds no song's end at work.
LEMMA CallbackAlone ==
  ASSUME AloneInv, ~overlapped, doing # "idle"
  PROVE  FieldInv /\ CallbackInv /\ \A p \in Players : ending[p] = "none"
  BY DEF AloneInv, EndInv

\* The same, for the one that is about to begin: everything is quiet.
LEMMA BeginsQuiet ==
  ASSUME NEW first, Receive(first), AloneInv, ~overlapped'
  PROVE  /\ ~overlapped /\ FieldInv /\ Settled /\ doing' = first
         /\ \A p \in Players : ending[p] = "none" /\ ending'[p] = "none"
  BY DEF Receive, AloneInv, Quiet, ends

\* No end of a song is at work afterwards: what is left to show of AloneInv.
LEMMA NoEnd ==
  ASSUME \A p \in Players : ending'[p] = "none",
         FieldInv', CallbackInv', doing' = "idle" => Settled'
  PROVE  AloneInv'
  BY DEF AloneInv, EndInv, Quiet

LEMMA AloneCallback ==
  ASSUME TypeOK, UseInv, AloneInv, Callback, ~overlapped'
  PROVE  AloneInv'
<1> USE DEF state, players, callback, ends
<1>1. ASSUME NEW s \in 0 .. NumSongs, OnPlay(s) PROVE AloneInv'
  <2>1. \E first : Receive(first)
    BY <1>1 DEF OnPlay
  <2>2. /\ FieldInv /\ Settled
        /\ \A p \in Players : ending'[p] = "none"
    BY <2>1, BeginsQuiet
  <2>3. Playing' = Playing /\ UNCHANGED <<player, made, status, song, listening, songId, mode, position>>
          /\ request' = s
    BY <1>1 DEF OnPlay, Playing
  <2>4. CASE player # 0 /\ status[player] = "PAUSED" /\ song[player] = s
    <3>1. doing' = "play" /\ pendingStatus' = "PLAYING"
      BY <1>1, <2>4 DEF OnPlay, Receive
    <3>2. Playing = {}
      BY <2>2, <2>4 DEF FieldInv, Playing
    <3>3. FieldInv' /\ CallbackInv'
      BY <2>2, <2>3, <2>4, <3>1, <3>2 DEF FieldInv, CallbackInv
    <3> QED
      BY <2>2, <3>1, <3>3, NoEnd
  <2>5. CASE ~(player # 0 /\ status[player] = "PAUSED" /\ song[player] = s)
    <3>1. doing' = "reset" /\ pendingStatus' = pendingStatus
      BY <1>1, <2>5 DEF OnPlay, Receive
    <3>2. Settled'
      BY <2>2, <2>3, <3>1 DEF Settled, isPlaybackAllowed
    <3>3. FieldInv' /\ CallbackInv'
      BY <2>2, <2>3, <3>1, <3>2 DEF FieldInv, CallbackInv
    <3> QED
      BY <2>2, <3>1, <3>3, NoEnd
  <2> QED
    BY <2>4, <2>5
<1>2. ASSUME Reset PROVE AloneInv'
  <2>1. /\ FieldInv /\ Settled /\ \A p \in Players : ending'[p] = "none"
        /\ pendingStatus' = pendingStatus /\ request' = request
    BY <1>2, CallbackAlone DEF Reset, CallbackInv
  <2>2. CASE request # 0
    <3>1. request \in 0 .. NumSongs /\ ResetPlayer(request) /\ doing' = "assign" /\ returned' = player'
      BY <1>2, <2>2 DEF Reset, TypeOK
    <3>2. /\ player' \in Players /\ player' # 0 /\ song'[player'] = request /\ player' \in listening'
          /\ Playing' = Playing \ {player, player'}
      BY <3>1, Replaced, LibraryAssumption DEF Players
    <3>3. Playing' = {}
      BY <2>1, <3>2 DEF FieldInv
    <3>4. FieldInv' /\ CallbackInv'
      BY <2>1, <3>1, <3>2, <3>3 DEF FieldInv, CallbackInv
    <3> QED
      BY <2>1, <3>1, <3>4, NoEnd
  <2>3. CASE request = 0
    <3>1. doing' = "idle" /\ UNCHANGED <<player, made, status, song, listening, songId, mode, position>>
      BY <1>2, <2>3 DEF Reset
    <3>2. Settled' /\ FieldInv' /\ CallbackInv'
      BY <2>1, <3>1 DEF Settled, FieldInv, CallbackInv, Playing, isPlaybackAllowed
    <3> QED
      BY <2>1, <3>2, NoEnd
  <2> QED
    BY <2>2, <2>3
<1>3. ASSUME Assign PROVE AloneInv'
  <2>1. /\ FieldInv /\ CallbackInv /\ \A p \in Players : ending'[p] = "none"
        /\ doing = "assign" /\ doing' = "play" /\ player' = player /\ pendingStatus' = "PLAYING"
        /\ UNCHANGED <<status, song, listening, songId, mode, position, request>>
    BY <1>3, CallbackAlone DEF Assign, CallbackInv
  <2>2. FieldInv' /\ CallbackInv'
    BY <2>1 DEF FieldInv, CallbackInv, Playing
  <2> QED
    BY <2>1, <2>2, NoEnd
<1>4. ASSUME Play PROVE AloneInv'
  <2>1. /\ FieldInv /\ CallbackInv /\ \A p \in Players : ending'[p] = "none"
        /\ doing = "play" /\ doing' = "save"
        /\ UNCHANGED <<songId, mode, position, request, pendingStatus>>
    BY <1>4, CallbackAlone DEF Play
  <2>2. player \in Players
    BY <2>1, FieldType DEF CallbackInv
  <2>3. /\ UNCHANGED <<player, song, listening>>
        /\ Playing' = IF isPlaybackAllowed THEN {player} ELSE {}
    <3>1. CASE isPlaybackAllowed
      BY <1>4, <2>1, <2>2, <3>1, StatusSet DEF Play, CallbackInv, Statuses
    <3>2. CASE ~isPlaybackAllowed
      BY <1>4, <2>1, <3>2 DEF Play, CallbackInv, Playing
    <3> QED
      BY <3>1, <3>2
  <2>4. FieldInv' /\ CallbackInv'
    BY <2>1, <2>3 DEF FieldInv, CallbackInv, isPlaybackAllowed
  <2> QED
    BY <2>1, <2>4, NoEnd
<1>5. ASSUME Save PROVE AloneInv'
  <2>1. /\ FieldInv /\ CallbackInv /\ \A p \in Players : ending'[p] = "none"
        /\ doing = "save" /\ doing' = "idle" /\ songId' = request
        /\ UNCHANGED <<mode, position, request, pendingStatus, player, status, song, listening>>
    BY <1>5, CallbackAlone DEF Save
  <2>2. FieldInv' /\ CallbackInv' /\ Settled'
    BY <2>1 DEF FieldInv, CallbackInv, Settled, Playing, isPlaybackAllowed
  <2> QED
    BY <2>1, <2>2, NoEnd
<1>6. ASSUME NEW s \in {"PAUSED", "STOPPED"}, OnPauseOrStop(s) PROVE AloneInv'
  <2>1. Receive("idle")
    BY <1>6 DEF OnPauseOrStop
  <2>2. /\ FieldInv /\ Settled /\ doing' = "idle"
        /\ \A p \in Players : ending'[p] = "none"
    BY <2>1, BeginsQuiet
  <2>3. /\ UNCHANGED <<player, song, listening, songId, mode, position>>
        /\ pendingStatus' = s /\ Playing' = {}
    <3>1. CASE player = 0
      BY <1>6, <2>2, <3>1, LibraryAssumption DEF OnPauseOrStop, FieldInv, Playing, Players
    <3>2. CASE player # 0
      <4>1. player \in Players /\ s \in Statuses /\ SetStatus(player, s)
        BY <1>6, <3>2, FieldType DEF OnPauseOrStop, Statuses
      <4>2. UNCHANGED <<player, song, listening>> /\ Playing' = Playing \ {player}
        BY <4>1, StatusSet
      <4> QED
        BY <1>6, <2>2, <4>2 DEF OnPauseOrStop, FieldInv
    <3> QED
      BY <3>1, <3>2
  <2>4. FieldInv' /\ CallbackInv' /\ Settled'
    BY <2>2, <2>3 DEF FieldInv, CallbackInv, Settled
  <2> QED
    BY <2>2, <2>4, NoEnd
<1>7. ASSUME OnGeoUpdate PROVE AloneInv'
  <2>1. Receive("update")
    BY <1>7 DEF OnGeoUpdate
  <2>2. /\ FieldInv /\ Settled /\ doing' = "update"
        /\ \A p \in Players : ending'[p] = "none"
    BY <2>1, BeginsQuiet
  <2>3. UNCHANGED <<player, status, song, listening, songId, pendingStatus>>
    BY <1>7 DEF OnGeoUpdate
  <2>4. FieldInv' /\ CallbackInv'
    BY <2>2, <2>3 DEF FieldInv, CallbackInv, Settled, Playing
  <2> QED
    BY <2>2, <2>4, NoEnd
<1>8. ASSUME HandleStateUpdate PROVE AloneInv'
  <2>1. /\ FieldInv /\ CallbackInv /\ \A p \in Players : ending'[p] = "none"
        /\ doing = "update" /\ doing' = "idle"
        /\ UNCHANGED <<songId, mode, position, request, pendingStatus>>
    BY <1>8, CallbackAlone DEF HandleStateUpdate
  <2>2. /\ UNCHANGED <<player, song, listening>>
        /\ Playing' = IF isPlaybackAllowed /\ pendingStatus = "PLAYING" THEN {player} ELSE {}
    <3>1. CASE ~isPlaybackAllowed /\ player # 0 /\ status[player] = "PLAYING"
      <4>1. player \in Players /\ SetStatus(player, "PAUSED")
        BY <1>8, <3>1, FieldType DEF HandleStateUpdate
      <4>2. UNCHANGED <<player, song, listening>> /\ Playing' = Playing \ {player}
        BY <4>1, StatusSet DEF Statuses
      <4> QED
        BY <2>1, <3>1, <4>2 DEF FieldInv
    <3>2. CASE isPlaybackAllowed /\ pendingStatus = "PLAYING"
      <4>1. player \in Players /\ SetStatus(player, "PLAYING")
        BY <1>8, <2>1, <3>2, FieldType DEF HandleStateUpdate, FieldInv
      <4>2. UNCHANGED <<player, song, listening>> /\ Playing' = Playing \cup {player}
        BY <4>1, StatusSet DEF Statuses
      <4> QED
        BY <2>1, <3>2, <4>2 DEF FieldInv
    <3>3. CASE /\ ~(~isPlaybackAllowed /\ player # 0 /\ status[player] = "PLAYING")
               /\ ~(isPlaybackAllowed /\ pendingStatus = "PLAYING")
      <4>1. UNCHANGED <<player, status, song, listening>> /\ Playing' = Playing
        BY <1>8, <3>3 DEF HandleStateUpdate, Playing
      <4>2. Playing = {}
        <5>1. CASE isPlaybackAllowed
          BY <2>1, <3>3, <5>1 DEF CallbackInv
        <5>2. CASE ~isPlaybackAllowed
          BY <2>1, <3>3, <5>2, LibraryAssumption DEF FieldInv, Playing, Players
        <5> QED
          BY <5>1, <5>2
      <4> QED
        BY <3>3, <4>1, <4>2
    <3> QED
      BY <3>1, <3>2, <3>3
  <2>3. FieldInv' /\ CallbackInv' /\ Settled'
    BY <2>1, <2>2 DEF FieldInv, CallbackInv, Settled, isPlaybackAllowed
  <2> QED
    BY <2>1, <2>3, NoEnd
<1> QED
  BY <1>1, <1>2, <1>3, <1>4, <1>5, <1>6, <1>7, <1>8 DEF Callback

\* An end of a song that is alone goes from its check to its save and leaves the
\* music of the next song behind.
LEMMA AloneEnd ==
  ASSUME TypeOK, UseInv, AloneInv, NEW p \in Players, EndOfMedia(p), ~overlapped'
  PROVE  AloneInv'
<1> USE DEF state, players, callback, ends
<1>0. ~overlapped /\ FieldInv /\ CallbackInv /\ EndInv(p) /\ (Quiet => Settled)
        /\ ending \in [Players -> {"none", "check", "reset", "play", "save"}]
        /\ next \in [Players -> 0 .. NumSongs]
  BY DEF EndOfMedia, SongEnds, CheckPermission, ResetToNext, PlayNext, SaveNext, AloneInv, TypeOK
<1>1. CASE SongEnds(p)
  <2>1. /\ status[p] = "PLAYING" /\ SetStatus(p, "STOPPED")
        /\ UNCHANGED <<songId, mode, position, pendingStatus, doing, request, returned, next>>
    BY <1>1 DEF SongEnds
  <2>2. UNCHANGED <<player, made, song, listening>> /\ Playing' = Playing \ {p}
    BY <2>1, StatusSet DEF Statuses
  <2>3. p = player /\ p \in listening /\ Playing = {p}
    <3>1. p \in Playing /\ Playing \subseteq {player} /\ p # 0
      BY <1>0, <2>1, LibraryAssumption DEF FieldInv, Playing, Players
    <3>2. p = player /\ Playing = {p}
      BY <3>1
    <3> QED
      BY <1>0, <3>1, <3>2 DEF FieldInv
  <2>4. Quiet /\ ending' = [ending EXCEPT ![p] = "check"]
    BY <1>1, <2>3 DEF SongEnds
  <2>5. isPlaybackAllowed /\ pendingStatus = "PLAYING" /\ Playing' = {}
    BY <1>0, <2>2, <2>3, <2>4 DEF Settled
  <2>6. doing' = "idle" /\ ending'[p] = "check" /\ \A q \in Players : ending'[q] # "none" => q = p
    BY <1>0, <2>1, <2>4 DEF Quiet
  <2>7. FieldInv' /\ CallbackInv'
    BY <1>0, <2>1, <2>2, <2>3, <2>5, <2>6 DEF FieldInv, CallbackInv
  <2> QED
    BY <2>1, <2>5, <2>6, <2>7 DEF AloneInv, EndInv, Quiet, isPlaybackAllowed
<1>2. CASE CheckPermission(p)
  <2>1. /\ doing = "idle" /\ isPlaybackAllowed /\ pendingStatus = "PLAYING" /\ Playing = {}
        /\ \A q \in Players : ending[q] # "none" => q = p
    BY <1>0, <1>2 DEF CheckPermission, EndInv
  <2>2. /\ ending' = [ending EXCEPT ![p] = "reset"]
        /\ UNCHANGED <<songId, mode, position, pendingStatus, doing, request, returned,
                       player, made, status, song, listening>>
    BY <1>2, <2>1 DEF CheckPermission
  <2>3. ending'[p] = "reset" /\ \A q \in Players : ending'[q] # "none" => q = p
    BY <1>0, <2>1, <2>2
  <2>4. FieldInv' /\ CallbackInv' /\ Playing' = {}
    BY <1>0, <2>1, <2>2 DEF FieldInv, CallbackInv, Playing
  <2> QED
    BY <2>1, <2>2, <2>3, <2>4 DEF AloneInv, EndInv, Quiet, isPlaybackAllowed
<1>3. CASE ResetToNext(p)
  <2>1. /\ doing = "idle" /\ isPlaybackAllowed /\ pendingStatus = "PLAYING" /\ Playing = {}
        /\ \A q \in Players : ending[q] # "none" => q = p
    BY <1>0, <1>3 DEF ResetToNext, EndInv
  <2>2. /\ ending' = [ending EXCEPT ![p] = "play"] /\ ResetPlayer(next[p]) /\ next[p] \in 0 .. NumSongs
        /\ UNCHANGED <<songId, mode, position, pendingStatus, doing, request, returned, next>>
    BY <1>0, <1>3 DEF ResetToNext
  <2>3. /\ player' # 0 /\ song'[player'] = next[p] /\ player' \in listening'
        /\ Playing' = {}
    BY <2>1, <2>2, Replaced, LibraryAssumption DEF Players
  <2>4. ending'[p] = "play" /\ \A q \in Players : ending'[q] # "none" => q = p
    BY <1>0, <2>1, <2>2
  <2>5. FieldInv' /\ CallbackInv'
    BY <2>1, <2>2, <2>3 DEF FieldInv, CallbackInv
  <2> QED
    BY <2>1, <2>2, <2>3, <2>4, <2>5 DEF AloneInv, EndInv, Quiet, isPlaybackAllowed
<1>4. CASE PlayNext(p)
  <2>1. /\ doing = "idle" /\ isPlaybackAllowed /\ pendingStatus = "PLAYING" /\ Playing = {}
        /\ song[player] = next[p]
        /\ \A q \in Players : ending[q] # "none" => q = p
    BY <1>0, <1>4 DEF PlayNext, EndInv
  <2>2. player \in Players
    BY <2>1, <1>0, FieldType DEF FieldInv
  <2>3. /\ ending' = [ending EXCEPT ![p] = "save"] /\ SetStatus(player, "PLAYING")
        /\ UNCHANGED <<songId, mode, position, pendingStatus, doing, request, returned, next>>
    BY <1>4 DEF PlayNext
  <2>4. UNCHANGED <<player, song, listening>> /\ Playing' = {player}
    BY <2>1, <2>2, <2>3, StatusSet DEF Statuses
  <2>5. ending'[p] = "save" /\ \A q \in Players : ending'[q] # "none" => q = p
    BY <1>0, <2>1, <2>3
  <2>6. FieldInv' /\ CallbackInv'
    BY <1>0, <2>1, <2>3, <2>4 DEF FieldInv, CallbackInv
  <2> QED
    BY <2>1, <2>3, <2>4, <2>5, <2>6 DEF AloneInv, EndInv, Quiet, isPlaybackAllowed
<1>5. CASE SaveNext(p)
  <2>1. /\ doing = "idle" /\ isPlaybackAllowed /\ pendingStatus = "PLAYING" /\ Playing = {player}
        /\ song[player] = next[p]
        /\ \A q \in Players : ending[q] # "none" => q = p
    BY <1>0, <1>5 DEF SaveNext, EndInv
  <2>2. /\ ending' = [ending EXCEPT ![p] = "none"] /\ songId' = next[p]
        /\ UNCHANGED <<mode, position, pendingStatus, doing, request, returned,
                       player, made, status, song, listening>>
    BY <1>5 DEF SaveNext
  <2>3. \A q \in Players : ending'[q] = "none"
    BY <1>0, <2>1, <2>2
  <2>4. FieldInv' /\ CallbackInv' /\ Settled'
    BY <1>0, <2>1, <2>2 DEF FieldInv, CallbackInv, Settled, Playing, isPlaybackAllowed
  <2> QED
    BY <2>3, <2>4, NoEnd
<1> QED
  BY <1>1, <1>2, <1>3, <1>4, <1>5 DEF EndOfMedia

-----------------------------------------------------------------------------
LEMMA Inductive == IInv /\ [Next]_vars => IInv'
<1> SUFFICES ASSUME IInv, [Next]_vars PROVE IInv'
  OBVIOUS
<1>0. TypeOK /\ UseInv /\ AloneInv
  BY DEF IInv
<1>1. CASE Callback
  <2>1. TypeOK' /\ UseInv'
    BY <1>0, <1>1, TypeCallback
  <2>2. AloneInv'
    <3>1. CASE overlapped'
      BY <3>1 DEF AloneInv
    <3>2. CASE ~overlapped'
      BY <1>0, <1>1, <3>2, AloneCallback
    <3> QED
      BY <3>1, <3>2
  <2> QED
    BY <2>1, <2>2 DEF IInv
<1>2. CASE Restart
  BY <1>0, <1>2, RestartIInv
<1>3. CASE \E p \in Players : EndOfMedia(p)
  <2>1. PICK p \in Players : EndOfMedia(p)
    BY <1>3
  <2>2. TypeOK' /\ UseInv'
    BY <1>0, <2>1, TypeEnd
  <2>3. AloneInv'
    <3>1. CASE overlapped'
      BY <3>1 DEF AloneInv
    <3>2. CASE ~overlapped'
      BY <1>0, <2>1, <3>2, AloneEnd
    <3> QED
      BY <3>1, <3>2
  <2> QED
    BY <2>2, <2>3 DEF IInv
<1>4. CASE UNCHANGED vars
  <2>1. TypeOK' /\ UseInv'
    BY <1>0, <1>4 DEF vars, TypeOK, UseInv
  <2>2. AloneInv'
    BY <1>0, <1>4 DEF vars, AloneInv, FieldInv, CallbackInv, EndInv, Quiet, Settled, Playing,
                      isPlaybackAllowed
  <2> QED
    BY <2>1, <2>2 DEF IInv
<1> QED
  BY <1>1, <1>2, <1>3, <1>4 DEF Next

\* Every variable stays in its type, however callbacks and ends of songs interleave.
THEOREM TypeCorrect == Spec => []TypeOK
<1>1. IInv => TypeOK
  BY DEF IInv
<1> QED
  BY InitIInv, Inductive, <1>1, PTL DEF Spec

\* Between callbacks exactly the player that was asked for plays, and the state
\* remembers its song, as long as no song has ended while a callback was at work.
THEOREM MusicIsAsAsked == Spec => []PlaysAsAsked
<1>1. IInv => PlaysAsAsked
  BY DEF IInv, AloneInv, PlaysAsAsked, Settled, Playing
<1> QED
  BY InitIInv, Inductive, <1>1, PTL DEF Spec
=============================================================================

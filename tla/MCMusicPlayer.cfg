SPECIFICATION Spec
CONSTANTS
  NumSongs = 2
  MaxPlayers = 3
INVARIANTS
  PlaysAsAsked

--------------------------- MODULE MCMusicPlayer ---------------------------
(* MusicPlayer for TLC; the library and the bound are given by the cfg. *)
EXTENDS MusicPlayer
=============================================================================

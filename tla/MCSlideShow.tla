----------------------------- MODULE MCSlideShow -----------------------------
(* The photo player on an album of LibrarySize photos and an album of uploads *)
(* that begins with one.                                                     *)
EXTENDS SlideShow

CONSTANTS library, uploads, LibrarySize

MCAlbum == {library, uploads}
MCPhotos == [a \in MCAlbum |-> IF a = library THEN LibrarySize ELSE 1]
=============================================================================

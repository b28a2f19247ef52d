--------------------------- MODULE MCPlaylistWait ---------------------------
(* Instances of PlaylistWait for TLC. *)
EXTENDS PlaylistWait

CONSTANTS g1, g2, h1

TwoReaders == {g1, g2}
OneUpload == {h1}
=============================================================================

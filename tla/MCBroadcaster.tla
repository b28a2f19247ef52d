--------------------------- MODULE MCBroadcaster ---------------------------
(* Broadcaster with a few starts, for TLC. *)
EXTENDS Broadcaster
=============================================================================

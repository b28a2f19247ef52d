--------------------------- MODULE MCActivation ---------------------------
(* Instances of Activation for TLC. *)
EXTENDS Activation

CONSTANTS loop, relay

OneLoop == {loop}
OneRelay == {relay}
=============================================================================

---------------------------- MODULE MCRoomPlane ----------------------------
(***************************************************************************)
(* Instances of RoomPlane for TLC: one guest who reads and posts, and two  *)
(* bodies, so that content can change and change back under a tag a guest  *)
(* holds.  The bodies are alike: the Mac shows b1 first.                   *)
(***************************************************************************)
EXTENDS RoomPlane

CONSTANTS g1, feed, b1, b2

OneGuest == {g1}
OneKind == {feed}
TwoBodies == {b1, b2}

ShownInit == Init /\ state[feed] = b1
ShownSpec == ShownInit /\ [][Next]_vars /\ Fairness
=============================================================================

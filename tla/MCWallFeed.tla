----------------------------- MODULE MCWallFeed -----------------------------
(* Instances of WallFeed for TLC. *)
EXTENDS WallFeed

CONSTANTS p1

OnePost == {p1}
FewStamps == 0..2
TwoPolls == {"loop", "forced"}
=============================================================================

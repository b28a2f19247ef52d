---------------------------- MODULE MCEventStore ----------------------------
(* Instances of EventStore for TLC. *)
EXTENDS EventStore

CONSTANTS p1, c1, m1, t1, tonight, later

OnePost == {p1}
OneReply == {c1}
OnePhoto == {m1}
OneTrack == {t1}
TwoParties == {tonight, later}
Symmetry == Permutations(TwoParties)
=============================================================================

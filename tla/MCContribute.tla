---------------------------- MODULE MCContribute ----------------------------
(***************************************************************************)
(* Instances of Contribute for TLC: two rooms, so that a target change can *)
(* leave a cycle talking to the old one, and two assets, so that a restart *)
(* can fall into the middle of a push.  What is alike is told apart once:  *)
(* symmetry sets would not be sound for Recovers.                          *)
(***************************************************************************)
EXTENDS Contribute

CONSTANTS r1, r2, a1, a2

TwoRooms == {r1, r2}
TwoAssets == {a1, a2}

\* The rooms are alike until one of them is the target: it is r1.
FirstRoom == generation <= 1 /\ target = NoRoom => target' \in {NoRoom, r1}

\* PageAssets (roomsnapshot.go:277-312) always gives the assets in one order.
FirstAsset == pc = "asset" /\ item'.kind = "asset" /\ item'.name = a2 => a1 \notin todo

OrderedNext == Next /\ FirstRoom /\ FirstAsset
OrderedSpec == Init /\ [][OrderedNext]_vars /\ WF_vars(Loop)
=============================================================================

---------------------------- MODULE MCOriginRoom ----------------------------
(***************************************************************************)
(* Instances of OriginRoom for TLC: a store of a few objects, so that      *)
(* everything is evicted soon.                                             *)
(***************************************************************************)
EXTENDS OriginRoom, TLC

CONSTANTS a1, p1, p2

OneAsset == {a1}
TwoPhotos == {p1, p2}

PhotoSymmetry == Permutations(Photos)
=============================================================================

---------------------------- MODULE MCRelayMode -----------------------------
(* Instances of RelayMode for TLC. *)
EXTENDS RelayMode, TLC

CONSTANTS n1, n2, o1, o2, w1

TwoNetworks == {n1, n2}
TwoTargets == {o1, o2}
OneWorker == {w1}
DirectOrRelay == {"auto", "direct", "relay"}
BothReaches == {"wifi", "cloud"}

Symmetry == Permutations(Networks) \union Permutations(Targets) \union Permutations(Workers)
=============================================================================

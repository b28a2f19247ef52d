------------------------- MODULE MCCertificatePairs -------------------------
(* Instances of CertificatePairs for TLC. *)
EXTENDS CertificatePairs

CONSTANTS app, previous

TwoCallers == {app, previous}
ThreePairs == 1..3
=============================================================================

------------------------ MODULE CertificateRegister ------------------------
(***************************************************************************)
(* What internal/activate promises about the certificate of this machine:  *)
(* one register.  It holds a complete pair of certificate and key, or none. *)
(* It is only ever replaced whole, by a later pair that is not due for      *)
(* renewal, and never while the one it holds is not due either.  Damage to *)
(* the disk may take it back to an earlier pair or empty it, and a write   *)
(* that the disk refuses leaves it alone.                                  *)
(*                                                                         *)
(* The promise bears any number of crashes, two refused writes and one     *)
(* damage.  Beyond them it is void: a pair of an older build that three    *)
(* times could not be published gives way to the broker's although it is   *)
(* not due, and a manifest damaged while it is being pointed back is       *)
(* written again.                                                          *)
(***************************************************************************)
EXTENDS Integers

CONSTANTS
  Pair,   \* the pairs the broker issues, numbered in the order it does
  None    \* no pair

VARIABLES
  held,       \* the pair the next caller would be given
  remaining,  \* of each pair: 2 outside the renewal window, 1 inside it, 0 expired
  refused,    \* writes the disk refused
  damaged     \* files the disk damaged

vars == <<held, remaining, refused, damaged>>

Due(g) == remaining[g] < 2

Init ==
  /\ held \in Pair \cup {None} /\ remaining \in [Pair -> 0..2]
  /\ refused = 0 /\ damaged = 0

Renew ==
  \E g \in Pair :
    /\ ~Due(g)
    /\ held # None => Due(held) /\ held < g
    /\ held' = g
    /\ UNCHANGED <<remaining, refused, damaged>>

Refuse == refused' = refused + 1 /\ UNCHANGED <<held, remaining, damaged>>

Damage ==
  /\ damaged' = damaged + 1
  /\ held' \in {held, None} \cup {g \in Pair : held # None /\ g < held}
  /\ UNCHANGED <<remaining, refused>>

Age == remaining' \in [Pair -> 0..2] /\ UNCHANGED <<held, refused, damaged>>

Void ==
  /\ refused > 2 \/ damaged > 1
  /\ held' \in Pair \cup {None} /\ refused' \in Nat /\ damaged' \in Nat
  /\ UNCHANGED remaining

Next == Renew \/ Refuse \/ Damage \/ Age \/ Void

Spec == Init /\ [][Next]_vars
=============================================================================

----------------------------- MODULE FeedSource -----------------------------
(***************************************************************************)
(* What the event store (internal/event) promises to those who follow its  *)
(* wall: a set of posts guests may see, each with the stamp of its last    *)
(* change.  A stamp is larger than every one given out before, the         *)
(* revision moves with every visible change, and only a restart or a       *)
(* change of party may set the stamps back.  A restart draws a revision    *)
(* nobody has seen; a change of party moves it a moment after the wall.    *)
(***************************************************************************)
EXTENDS Integers

CONSTANTS
  Post,   \* the posts
  Stamp   \* the stamps, numbers from 0

ASSUME StampsAreNumbers == Stamp \subseteq Nat

VARIABLES
  shown,     \* of each post guests may see, the stamp of its last change
  clock,     \* the largest stamp given out
  revision,  \* the start of the source, and how often the wall changed since
  owed       \* a change of party has not moved the revision yet

SourceInit ==
  /\ \E S \in SUBSET Post : shown \in [S -> Stamp]
  /\ clock \in Stamp
  /\ \A p \in DOMAIN shown : shown[p] \in 1..clock
  /\ revision \in Nat \X Nat
  /\ owed \in BOOLEAN

Moved == <<revision[1], revision[2] + 1>>

\* Something happened to the posts S: guests see all of them or, when S is empty, none.
Activity(S) ==
  /\ clock' = clock + 1
  /\ clock' \in Stamp
  /\ shown' = [p \in DOMAIN shown \cup S |-> IF p \in S THEN clock' ELSE shown[p]]
  /\ revision' = Moved
  /\ UNCHANGED owed

Withdraw(p) ==
  /\ p \in DOMAIN shown
  /\ clock' = clock + 1
  /\ clock' \in Stamp
  /\ shown' = [q \in DOMAIN shown \ {p} |-> shown[q]]
  /\ revision' = Moved
  /\ UNCHANGED owed

\* A stamp is taken for a change that is then refused.
Refuse == clock' = clock + 1 /\ clock' \in Stamp /\ UNCHANGED <<shown, revision, owed>>

\* Something other than the posts changed: the track, the switches, the crowd's taps.
Stir == revision' = Moved /\ UNCHANGED <<shown, clock, owed>>

Elsewhere ==
  /\ \E S \in SUBSET Post : shown' \in [S -> Stamp]
  /\ clock' \in Stamp
  /\ \A p \in DOMAIN shown' : shown'[p] \in 1..clock'

Restart == Elsewhere /\ revision' = <<revision[1] + 1, 0>> /\ owed' = FALSE

Switch == Elsewhere /\ owed' = TRUE /\ UNCHANGED revision

Announce == owed /\ owed' = FALSE /\ revision' = Moved /\ UNCHANGED <<shown, clock>>

SourceNext ==
  \/ \E S \in SUBSET Post : Activity(S)
  \/ \E p \in Post : Withdraw(p)
  \/ Refuse \/ Stir \/ Restart \/ Switch \/ Announce

SourceSpec == SourceInit /\ [][SourceNext]_<<shown, clock, revision, owed>>
=============================================================================

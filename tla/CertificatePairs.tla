-------------------------- MODULE CertificatePairs --------------------------
(***************************************************************************)
(* The certificate files of internal/activate (state.go and                *)
(* ensureWildcardCertificate in activate.go).  A pair is published in five *)
(* durable steps - its generation file, the manifest that names it and the *)
(* one before, and three symbolic links for older builds - under a file    *)
(* lock that any crash releases.  Callers in several processes look for a  *)
(* pair, fetch one from the broker outside the lock, look again and only   *)
(* then publish.                                                           *)
(*                                                                         *)
(* A generation's file is named by the digest of its content, so a pair is *)
(* its own generation.  The temporary files that a crash leaves, and their *)
(* cleaning, hold nothing a reader is ever shown and are left out.         *)
(***************************************************************************)
EXTENDS Integers

CONSTANTS
  Caller,      \* attempts, each in a process of its own (one process admits one)
  Pair,        \* the pairs the broker issues, numbered in the order it does
  None,        \* no pair
  Link,        \* a legacy name that is a link to live-current.pem
  MaxCrashes,  \* bound: attempts that end at any point, by a crash or a deadline
  MaxErrors,   \* bound: writes the disk refuses
  MaxDamage    \* bound: files the disk damages

ASSUME PairsAreNumbered == Pair \subseteq Nat /\ 1 \in Pair /\ None \notin Pair
ASSUME LinkIsNoPair == Link # None /\ Link \notin Pair
ASSUME NobodyCalls == None \notin Caller
ASSUME BoundsAreNumbers == MaxCrashes \in Nat /\ MaxErrors \in Nat /\ MaxDamage \in Nat

VARIABLES
  file,       \* live-pairs/<generation>.pem
  manifest,   \* live-pair.json
  alias,      \* the generation live-current.pem leads to
  legacy,     \* live-cert.pem and live-key.pem: the pair a regular file is half of, or Link
  lock,       \* who holds .certificate.lock
  pc,         \* where each caller is
  purpose,    \* "cached" when the process starts, any pair that still serves; then "ensure"
  task,       \* why it writes: "refresh", "repair", "migrate" or "publish"
  todo,       \* the pair it writes about
  fetched,    \* what the broker gave it in this attempt
  issued,     \* the pair the broker serves
  remaining,  \* of each pair: 2 outside the renewal window, 1 inside it, 0 expired
  mishaps     \* what went wrong so far

disk == <<file, manifest, alias, legacy>>
calls == <<pc, purpose, task, todo, fetched>>
vars == <<disk, lock, calls, issued, remaining, mishaps>>

Names == {"cert", "key"}
Mishaps == {"crash", "error", "damage"}
Manifest(state, g, h) == [is |-> state, current |-> g, previous |-> h]

Tasks == {"refresh", "repair", "migrate", "publish"}
Writing == {"repair", "file", "manifest", "alias", "cert", "key"}
Locked == Writing \cup {"look", "found", "missed"}

\* What an older build left: nothing, a pair, or the certificate it wrote first.
LegacyFiles ==
  {[n \in Names |-> None], [n \in Names |-> 1], [n \in Names |-> IF n = "cert" THEN 1 ELSE None]}

Init ==
  /\ file = [g \in Pair |-> "absent"]
  /\ manifest = Manifest("absent", None, None)
  /\ alias = None
  /\ legacy \in LegacyFiles
  /\ lock = None
  /\ pc = [c \in Caller |-> "idle"]
  /\ purpose = [c \in Caller |-> "cached"]
  /\ task = [c \in Caller |-> "refresh"]
  /\ todo = [c \in Caller |-> None]
  /\ fetched = [c \in Caller |-> None]
  /\ issued = 1
  /\ remaining = [g \in Pair |-> 2]
  /\ mishaps = [m \in Mishaps |-> 0]

-----------------------------------------------------------------------------
(* What a reader of the disk finds.                                        *)

Due(g) == remaining[g] < 2
Whole(g) == g # None /\ file[g] = "whole"

\* What opening one of the legacy names leads to.
Shown(n) == IF legacy[n] = Link THEN alias ELSE legacy[n]

LegacyPair ==
  IF legacy["cert"] = legacy["key"] /\ legacy["cert"] \in Pair THEN legacy["cert"] ELSE None

\* What currentCertificatePairLocked would return now.
Held ==
  CASE manifest.is = "absent" ->
         IF LegacyPair # None /\ file[LegacyPair] # "damaged" THEN LegacyPair ELSE None
    [] manifest.is = "damaged" -> None
    [] manifest.is = "good" ->
         IF Whole(manifest.current) THEN manifest.current
         ELSE IF Whole(manifest.previous) THEN manifest.previous ELSE None

-----------------------------------------------------------------------------
(* A caller's steps.                                                       *)

Goto(c, place) == pc' = [pc EXCEPT ![c] = place]
Work(c, place, why, g) ==
  /\ Goto(c, place)
  /\ task' = [task EXCEPT ![c] = why]
  /\ todo' = [todo EXCEPT ![c] = g]

\* The attempt is over and the lock, if it holds it, free. A process starts with
\* what is cached (CachedCertReady) and its activation loop then asks for more.
EndAs(c, next) ==
  /\ Work(c, "idle", "refresh", None)
  /\ purpose' = [purpose EXCEPT ![c] = next]
  /\ fetched' = [fetched EXCEPT ![c] = None]
  /\ lock' = IF lock = c THEN None ELSE lock

End(c) == EndAs(c, "ensure")

Miss(c) == Work(c, "missed", "refresh", None) /\ UNCHANGED <<lock, purpose, fetched>>

\* What becomes of an attempt whose write failed. Renewing the links of a pair
\* that was found is passed over; to look is then to find nothing.
Failed(c) ==
  CASE task[c] = "refresh" -> Goto(c, "found") /\ UNCHANGED <<lock, purpose, task, todo, fetched>>
    [] task[c] \in {"repair", "migrate"} -> Miss(c)
    [] task[c] = "publish" -> End(c)

Call(c) ==
  /\ pc[c] = "idle"
  /\ Goto(c, "lock")
  /\ UNCHANGED <<disk, lock, purpose, task, todo, fetched, issued, remaining, mishaps>>

Lock_LooksOnce(c) ==
  /\ pc[c] = "lock" /\ lock = None
  /\ lock' = c
  /\ Goto(c, IF fetched[c] = None THEN "look" ELSE "missed")
  /\ UNCHANGED <<disk, purpose, task, todo, fetched, issued, remaining, mishaps>>

Lock(c) ==                                  \* lockCertificateState
  /\ pc[c] = "lock" /\ lock = None
  /\ lock' = c
  /\ Goto(c, "look")
  /\ UNCHANGED <<disk, purpose, task, todo, fetched, issued, remaining, mishaps>>

LookNext_LeavesLinks(c) ==
  CASE manifest.is = "absent" /\ LegacyPair # None -> Work(c, "file", "migrate", LegacyPair)
    [] manifest.is = "good" /\ Whole(manifest.current) -> Work(c, "found", "refresh", manifest.current)
    [] manifest.is = "good" /\ ~Whole(manifest.current) /\ Whole(manifest.previous) ->
         Work(c, "repair", "repair", manifest.previous)
    [] OTHER -> Work(c, "missed", "refresh", None)

\* A legacy pair is published as it is (migrateLegacyCertificatePairLocked); a
\* whole current generation has its links renewed; a lost one gives way to the
\* generation before it.
LookNext(c) ==
  CASE manifest.is = "absent" /\ LegacyPair # None -> Work(c, "file", "migrate", LegacyPair)
    [] manifest.is = "good" /\ Whole(manifest.current) -> Work(c, "alias", "refresh", manifest.current)
    [] manifest.is = "good" /\ ~Whole(manifest.current) /\ Whole(manifest.previous) ->
         Work(c, "repair", "repair", manifest.previous)
    [] OTHER -> Work(c, "missed", "refresh", None)

Look(c) ==                                  \* currentCertificatePairLocked
  /\ pc[c] = "look"
  /\ LookNext(c)
  /\ UNCHANGED <<disk, lock, purpose, fetched, issued, remaining, mishaps>>

Repair(c) ==                                \* the manifest is pointed back
  /\ pc[c] = "repair"
  /\ manifest' = Manifest("good", todo[c], None)
  /\ Goto(c, "alias")
  /\ UNCHANGED <<file, alias, legacy, lock, purpose, task, todo, fetched, issued, remaining, mishaps>>

\* publishCertificatePairLocked: a file that is there with other content is
\* taken for a collision of digests, and is an error.
WriteFile(c) ==
  /\ pc[c] = "file"
  /\ IF file[todo[c]] = "damaged"
       THEN Failed(c) /\ UNCHANGED file
       ELSE /\ file' = [file EXCEPT ![todo[c]] = "whole"]
            /\ Goto(c, "manifest")
            /\ UNCHANGED <<lock, purpose, task, todo, fetched>>
  /\ UNCHANGED <<manifest, alias, legacy, issued, remaining, mishaps>>

\* An unreadable manifest is one that names nothing.
NextManifest(g) ==
  IF manifest.current = g THEN manifest ELSE Manifest("good", g, manifest.current)

WriteManifest(c) ==
  /\ pc[c] = "manifest"
  /\ manifest' = NextManifest(todo[c])
  /\ Goto(c, "alias")
  /\ UNCHANGED <<file, alias, legacy, lock, purpose, task, todo, fetched, issued, remaining, mishaps>>

WriteAlias(c) ==                            \* updateLegacyCertificateAliasesLocked
  /\ pc[c] = "alias"
  /\ alias' = todo[c]
  /\ Goto(c, "cert")
  /\ UNCHANGED <<file, manifest, legacy, lock, purpose, task, todo, fetched, issued, remaining, mishaps>>

WriteLink(c) ==
  /\ pc[c] \in Names
  /\ legacy' = [legacy EXCEPT ![pc[c]] = Link]
  /\ Goto(c, IF pc[c] = "cert" THEN "key" ELSE "found")
  /\ UNCHANGED <<file, manifest, alias, lock, purpose, task, todo, fetched, issued, remaining, mishaps>>

Enough_WhileItServes(c, g) == remaining[g] > 0

Enough(c, g) == IF purpose[c] = "ensure" THEN ~Due(g) ELSE remaining[g] > 0

\* A pair was found or published: it is returned if it serves the purpose, and
\* otherwise this is a miss.
Found(c) ==
  /\ pc[c] = "found"
  /\ IF task[c] = "publish" \/ Enough(c, todo[c]) THEN End(c) ELSE Miss(c)
  /\ UNCHANGED <<disk, issued, remaining, mishaps>>

\* Nothing usable: fetch, or publish what was fetched.
Missed(c) ==
  /\ pc[c] = "missed"
  /\ CASE fetched[c] # None ->
            Work(c, "file", "publish", fetched[c]) /\ UNCHANGED <<lock, purpose, fetched>>
       [] fetched[c] = None /\ purpose[c] = "cached" -> End(c)
       [] fetched[c] = None /\ purpose[c] = "ensure" ->
            Goto(c, "fetch") /\ lock' = None /\ UNCHANGED <<purpose, task, todo, fetched>>
  /\ UNCHANGED <<disk, issued, remaining, mishaps>>

\* The request to the broker, without the lock. A pair that is due is refused.
Fetch(c) ==
  /\ pc[c] = "fetch"
  /\ IF Due(issued) THEN End(c)
     ELSE /\ Goto(c, "lock")
          /\ fetched' = [fetched EXCEPT ![c] = issued]
          /\ UNCHANGED <<lock, purpose, task, todo>>
  /\ UNCHANGED <<disk, issued, remaining, mishaps>>

-----------------------------------------------------------------------------
(* What goes wrong, and what happens elsewhere.                            *)

Count(m, bound) == mishaps[m] < bound /\ mishaps' = [mishaps EXCEPT ![m] = @ + 1]

Crash(c) ==
  /\ pc[c] # "idle" /\ Count("crash", MaxCrashes)
  /\ EndAs(c, "cached")
  /\ UNCHANGED <<disk, issued, remaining>>

WriteFails(c) ==
  /\ pc[c] \in Writing /\ Count("error", MaxErrors)
  /\ Failed(c)
  /\ UNCHANGED <<disk, issued, remaining>>

DamageFile ==
  /\ Count("damage", MaxDamage)
  /\ \E g \in Pair : file[g] = "whole" /\ file' = [file EXCEPT ![g] = "damaged"]
  /\ UNCHANGED <<manifest, alias, legacy, lock, calls, issued, remaining>>

DamageManifest ==
  /\ Count("damage", MaxDamage)
  /\ manifest.is = "good" /\ manifest' = Manifest("damaged", None, None)
  /\ UNCHANGED <<file, alias, legacy, lock, calls, issued, remaining>>

\* The broker renews its pair.
Issue ==
  /\ issued + 1 \in Pair
  /\ issued' = issued + 1
  /\ UNCHANGED <<disk, lock, calls, remaining, mishaps>>

\* Pairs expire in the order they were issued; the last one of the instance
\* stays. An attempt lasts seconds and the window thirty days, so none ages
\* while it is on its way.
Age(g) ==
  /\ g + 1 \in Pair /\ g <= issued /\ remaining[g] > 0
  /\ \A h \in Pair : h < g => remaining[h] < remaining[g]
  /\ \A c \in Caller : fetched[c] # g
  /\ remaining' = [remaining EXCEPT ![g] = @ - 1]
  /\ UNCHANGED <<disk, lock, calls, issued, mishaps>>

Step(c) ==
  \/ Lock(c) \/ Look(c) \/ Repair(c) \/ WriteFile(c) \/ WriteManifest(c) \/ WriteAlias(c)
  \/ WriteLink(c) \/ Found(c) \/ Missed(c) \/ Fetch(c)

Next ==
  \/ \E c \in Caller : Call(c) \/ Step(c) \/ Crash(c) \/ WriteFails(c)
  \/ DamageFile \/ DamageManifest \/ Issue
  \/ \E g \in Pair : Age(g)

Spec == Init /\ [][Next]_vars

\* The activation loop calls again and again, the lock is polled, and the broker
\* renews its pair in time.
Fairness ==
  /\ \A c \in Caller : WF_vars(Call(c) \/ Step(c))
  /\ WF_vars(Issue)

FairSpec == Spec /\ Fairness

-----------------------------------------------------------------------------
(* Properties.                                                             *)

\* Every part of the state keeps its type, and the lock is held by the one
\* caller between its taking and its release.
TypeOK ==
  /\ file \in [Pair -> {"absent", "whole", "damaged"}]
  /\ manifest \in [is : {"absent", "damaged", "good"}, current : Pair \cup {None},
                   previous : Pair \cup {None}]
  /\ alias \in Pair \cup {None}
  /\ legacy \in [Names -> Pair \cup {None, Link}]
  /\ lock \in Caller \cup {None}
  /\ pc \in [Caller -> Locked \cup {"idle", "lock", "fetch"}]
  /\ \A c \in Caller : pc[c] \in Locked <=> lock = c
  /\ purpose \in [Caller -> {"ensure", "cached"}]
  /\ task \in [Caller -> Tasks]
  /\ todo \in [Caller -> Pair \cup {None}]
  /\ fetched \in [Caller -> Pair \cup {None}]
  /\ issued \in Pair
  /\ remaining \in [Pair -> 0..2]
  /\ mishaps \in [Mishaps -> 0..(MaxCrashes + MaxErrors + MaxDamage)]

\* The certificate and the key that an older build opens by their fixed names
\* are never halves of two pairs (state.go:160), whatever crashes in between;
\* refused writes and damage aside.
HalvesAgree ==
  mishaps["error"] = 0 /\ mishaps["damage"] = 0 /\ None \notin {Shown("cert"), Shown("key")}
    => Shown("cert") = Shown("key")

\* Whoever looks, and however often a publication was cut short, the disk
\* behaves as one register that is replaced whole, as long as it refused no
\* more than two writes and was damaged no more than once.
Register ==
  INSTANCE CertificateRegister WITH
    held <- Held, refused <- mishaps["error"], damaged <- mishaps["damage"]
IsRegister == Register!Spec

\* A caller that keeps asking comes to hold a pair that is not due, unless the
\* broker's own pair is one whose file was damaged here: publishing that one is
\* refused for good (state.go:198).
Renews == <>[](file[issued] # "damaged") => <>[](Held # None /\ ~Due(Held))
=============================================================================

----------------------- MODULE CertificatePairsProofs -----------------------
(***************************************************************************)
(* Proofs about CertificatePairs for any number of processes, pairs,       *)
(* crashes, refused writes and damages: an older build never opens halves  *)
(* of two pairs, and the disk behaves as the register of                   *)
(* CertificateRegister.                                                    *)
(*                                                                         *)
(* The invariants are layered: types and the lock (TypeOK), what the disk  *)
(* holds whoever writes (Kept), what the holder of the lock may rely on    *)
(* (Flow), when what is held is due (Renewing), and the legacy names       *)
(* (Halves).                                                               *)
(***************************************************************************)
EXTENDS CertificatePairs, TLAPS

-----------------------------------------------------------------------------
(* Types and the lock.                                                     *)

Places == Locked \cup {"idle", "lock", "fetch"}

Disk ==
  /\ file \in [Pair -> {"absent", "whole", "damaged"}]
  /\ manifest \in [is : {"absent", "damaged", "good"}, current : Pair \cup {None},
                   previous : Pair \cup {None}]
  /\ alias \in Pair \cup {None}
  /\ legacy \in [Names -> Pair \cup {None, Link}]

Attempts ==
  /\ lock \in Caller \cup {None}
  /\ pc \in [Caller -> Places]
  /\ \A c \in Caller : pc[c] \in Locked <=> lock = c
  /\ purpose \in [Caller -> {"ensure", "cached"}]
  /\ task \in [Caller -> Tasks]
  /\ todo \in [Caller -> Pair \cup {None}]
  /\ fetched \in [Caller -> Pair \cup {None}]

World ==
  /\ issued \in Pair
  /\ remaining \in [Pair -> 0..2]
  /\ mishaps \in [Mishaps -> 0..(MaxCrashes + MaxErrors + MaxDamage)]

LEMMA TypeParts == TypeOK <=> Disk /\ Attempts /\ World
BY DEF TypeOK, Disk, Attempts, World, Places

\* The holder of the lock moves on.
LEMMA MoveKeepsAttempts ==
  ASSUME Attempts, NEW c \in Caller, pc[c] \in Locked, NEW place \in Locked,
         NEW why \in Tasks, NEW g \in Pair \cup {None}, Work(c, place, why, g),
         UNCHANGED <<lock, purpose, fetched>>
  PROVE  Attempts'
<1>1. pc' \in [Caller -> Places] /\ pc'[c] = place /\ \A d \in Caller \ {c} : pc'[d] = pc[d]
  BY DEF Attempts, Work, Goto, Places
<1>2. \A d \in Caller : pc'[d] \in Locked <=> lock' = d
  BY <1>1 DEF Attempts
<1>3. task' \in [Caller -> Tasks] /\ todo' \in [Caller -> Pair \cup {None}]
  BY DEF Attempts, Work
<1> QED
  BY <1>1, <1>2, <1>3 DEF Attempts

LEMMA GotoKeepsAttempts ==
  ASSUME Attempts, NEW c \in Caller, pc[c] \in Locked, NEW place \in Locked,
         Goto(c, place), UNCHANGED <<lock, purpose, task, todo, fetched>>
  PROVE  Attempts'
<1>1. pc' \in [Caller -> Places] /\ pc'[c] = place /\ \A d \in Caller \ {c} : pc'[d] = pc[d]
  BY DEF Attempts, Goto, Places
<1> QED
  BY <1>1 DEF Attempts

\* An attempt ends, whether or not it holds the lock.
LEMMA EndKeepsAttempts ==
  ASSUME Attempts, NEW c \in Caller, NEW next \in {"ensure", "cached"}, EndAs(c, next)
  PROVE  Attempts'
<1>1. pc' \in [Caller -> Places] /\ pc'[c] = "idle" /\ \A d \in Caller \ {c} : pc'[d] = pc[d]
  BY DEF Attempts, EndAs, Work, Goto, Places
<1>2. lock' \in Caller \cup {None}
  BY DEF Attempts, EndAs
<1>3. \A d \in Caller : pc'[d] \in Locked <=> lock' = d
  BY <1>1, NobodyCalls DEF Attempts, EndAs, Locked, Writing
<1>4. task' \in [Caller -> Tasks] /\ todo' \in [Caller -> Pair \cup {None}]
  BY DEF Attempts, EndAs, Work, Tasks
<1>5. purpose' \in [Caller -> {"ensure", "cached"}] /\ fetched' \in [Caller -> Pair \cup {None}]
  BY DEF Attempts, EndAs
<1> QED
  BY <1>1, <1>2, <1>3, <1>4, <1>5 DEF Attempts

LEMMA MissKeepsAttempts ==
  ASSUME Attempts, NEW c \in Caller, pc[c] \in Locked, Miss(c)
  PROVE  Attempts'
<1>1. "missed" \in Locked /\ "refresh" \in Tasks
  BY DEF Locked, Tasks
<1> QED
  BY <1>1, MoveKeepsAttempts DEF Miss

LEMMA FailedKeepsAttempts ==
  ASSUME Attempts, NEW c \in Caller, pc[c] \in Locked, Failed(c)
  PROVE  Attempts'
<1>1. task[c] \in Tasks
  BY DEF Attempts
<1>2. CASE task[c] = "refresh"
  <2>1. Goto(c, "found") /\ UNCHANGED <<lock, purpose, task, todo, fetched>> /\ "found" \in Locked
    BY <1>2 DEF Failed, Locked
  <2> QED
    BY <2>1, GotoKeepsAttempts
<1>3. CASE task[c] \in {"repair", "migrate"}
  BY <1>3, MissKeepsAttempts DEF Failed
<1>4. CASE task[c] = "publish"
  BY <1>4, EndKeepsAttempts DEF Failed, End
<1> QED
  BY <1>1, <1>2, <1>3, <1>4 DEF Tasks

LEMMA LegacyPairIsPair == Disk => LegacyPair \in Pair \cup {None}
BY DEF LegacyPair

LEMMA LookKeepsAttempts ==
  ASSUME Disk, Attempts, NEW c \in Caller, Look(c)
  PROVE  Attempts'
<1>1. pc[c] \in Locked /\ LookNext(c) /\ UNCHANGED <<lock, purpose, fetched>>
  BY DEF Look, Locked
<1>2. {"file", "alias", "repair", "missed"} \subseteq Locked /\ Tasks = {"refresh", "repair", "migrate", "publish"}
  BY DEF Locked, Writing, Tasks
<1>3. LegacyPair \in Pair \cup {None} /\ manifest.current \in Pair \cup {None}
      /\ manifest.previous \in Pair \cup {None}
  BY LegacyPairIsPair DEF Disk
<1>4. \E place \in Locked, why \in Tasks, g \in Pair \cup {None} : Work(c, place, why, g)
  <2>1. CASE manifest.is = "absent" /\ LegacyPair # None
    BY <1>1, <1>2, <1>3, <2>1 DEF LookNext
  <2>2. CASE manifest.is = "good" /\ Whole(manifest.current)
    BY <1>1, <1>2, <1>3, <2>2 DEF LookNext
  <2>3. CASE manifest.is = "good" /\ ~Whole(manifest.current) /\ Whole(manifest.previous)
    BY <1>1, <1>2, <1>3, <2>3 DEF LookNext
  <2>4. CASE /\ ~(manifest.is = "absent" /\ LegacyPair # None)
             /\ ~(manifest.is = "good" /\ Whole(manifest.current))
             /\ ~(manifest.is = "good" /\ ~Whole(manifest.current) /\ Whole(manifest.previous))
    BY <1>1, <1>2, <2>4 DEF LookNext
  <2> QED
    BY <2>1, <2>2, <2>3, <2>4
<1> QED
  BY <1>1, <1>4, MoveKeepsAttempts

LEMMA FoundKeepsAttempts ==
  ASSUME Attempts, NEW c \in Caller, Found(c)
  PROVE  Attempts'
<1>1. pc[c] \in Locked
  BY DEF Found, Locked
<1> QED
  BY <1>1, EndKeepsAttempts, MissKeepsAttempts DEF Found, End

LEMMA MissedKeepsAttempts ==
  ASSUME Attempts, NEW c \in Caller, Missed(c)
  PROVE  Attempts'
<1>1. pc[c] \in Locked /\ "file" \in Locked /\ "publish" \in Tasks /\ "fetch" \notin Locked
  BY DEF Missed, Locked, Writing, Tasks
<1>2. CASE fetched[c] # None
  <2>1. Work(c, "file", "publish", fetched[c]) /\ UNCHANGED <<lock, purpose, fetched>>
    BY <1>2 DEF Missed
  <2>2. fetched[c] \in Pair \cup {None}
    BY DEF Attempts
  <2> QED
    BY <1>1, <2>1, <2>2, MoveKeepsAttempts
<1>3. CASE fetched[c] = None /\ purpose[c] = "cached"
  BY <1>3, EndKeepsAttempts DEF Missed, End
<1>4. CASE fetched[c] = None /\ purpose[c] = "ensure"
  <2>1. Goto(c, "fetch") /\ lock' = None /\ UNCHANGED <<purpose, task, todo, fetched>>
    BY <1>4 DEF Missed
  <2>2. pc' \in [Caller -> Places] /\ pc'[c] = "fetch" /\ \A d \in Caller \ {c} : pc'[d] = pc[d]
    BY <2>1 DEF Attempts, Goto, Places
  <2> QED
    BY <1>1, <2>1, <2>2, NobodyCalls DEF Attempts
<1> QED
  BY <1>2, <1>3, <1>4 DEF Attempts

\* A caller outside the lock asks for it, takes it, or asks the broker.
LEMMA OutsideKeepsAttempts ==
  ASSUME Attempts, issued \in Pair, NEW c \in Caller, Call(c) \/ Lock(c) \/ Fetch(c)
  PROVE  Attempts'
<1> {"idle", "lock", "fetch"} \cap Locked = {} /\ "look" \in Locked
  BY DEF Locked, Writing
<1>1. CASE Call(c)
  BY <1>1 DEF Call, Attempts, Goto, Places
<1>2. CASE Lock(c)
  <2>1. pc' \in [Caller -> Places] /\ pc'[c] = "look" /\ \A d \in Caller \ {c} : pc'[d] = pc[d]
    BY <1>2 DEF Lock, Attempts, Goto, Places
  <2> QED
    BY <1>2, <2>1, NobodyCalls DEF Attempts, Lock
<1>3. CASE Fetch(c)
  <2>1. CASE Due(issued)
    BY <1>3, <2>1, EndKeepsAttempts DEF Fetch, End
  <2>2. CASE ~Due(issued)
    BY <1>3, <2>2 DEF Fetch, Attempts, Goto, Places
  <2> QED
    BY <2>1, <2>2
<1> QED
  BY <1>1, <1>2, <1>3

\* A step that writes to the disk, then moves on.
LEMMA WritingKeepsAttempts ==
  ASSUME Attempts, NEW c \in Caller,
         Repair(c) \/ WriteFile(c) \/ WriteManifest(c) \/ WriteAlias(c) \/ WriteLink(c)
  PROVE  Attempts'
<1>1. pc[c] \in Locked
  BY DEF Repair, WriteFile, WriteManifest, WriteAlias, WriteLink, Names, Locked, Writing
<1>2. CASE WriteFile(c) /\ file[todo[c]] = "damaged"
  BY <1>1, <1>2, FailedKeepsAttempts DEF WriteFile
<1>3. CASE ~(WriteFile(c) /\ file[todo[c]] = "damaged")
  <2>1. \E place \in {"alias", "manifest", "cert", "key", "found"} :
          Goto(c, place) /\ UNCHANGED <<lock, purpose, task, todo, fetched>>
    BY <1>3 DEF Repair, WriteFile, WriteManifest, WriteAlias, WriteLink, Names
  <2>2. {"alias", "manifest", "cert", "key", "found"} \subseteq Locked
    BY DEF Locked, Writing
  <2> QED
    BY <1>1, <2>1, <2>2, GotoKeepsAttempts
<1> QED
  BY <1>2, <1>3

LEMMA MishapKeepsAttempts ==
  ASSUME Attempts, NEW c \in Caller, Crash(c) \/ WriteFails(c)
  PROVE  Attempts'
<1>1. CASE Crash(c)
  BY <1>1, EndKeepsAttempts DEF Crash
<1>2. CASE WriteFails(c)
  <2>1. pc[c] \in Locked
    BY <1>2 DEF WriteFails, Locked
  <2> QED
    BY <1>2, <2>1, FailedKeepsAttempts DEF WriteFails
<1> QED
  BY <1>1, <1>2

\* A step of a caller that the disk does not refuse.
LEMMA StepKeepsTypes == \A c \in Caller : TypeOK /\ Step(c) => TypeOK'
<1> SUFFICES ASSUME NEW c \in Caller, TypeOK, Step(c) PROVE TypeOK'
  OBVIOUS
<1>1. Disk /\ Attempts /\ World /\ issued \in Pair /\ todo[c] \in Pair \cup {None}
  BY TypeParts DEF World, Attempts
<1>2. Attempts'
  BY <1>1, LookKeepsAttempts, FoundKeepsAttempts, MissedKeepsAttempts, OutsideKeepsAttempts,
     WritingKeepsAttempts DEF Step
<1>3. World'
  BY <1>1 DEF Step, World, Lock, Look, Repair, WriteFile, WriteManifest, WriteAlias, WriteLink,
     Found, Missed, Fetch
<1>4. Disk'
  <2>1. CASE Lock(c) \/ Look(c) \/ Found(c) \/ Missed(c) \/ Fetch(c)
    BY <1>1, <2>1 DEF Disk, disk, Lock, Look, Found, Missed, Fetch
  <2>2. CASE Repair(c)
    BY <1>1, <2>2 DEF Disk, Repair, Manifest
  <2>3. CASE WriteFile(c)
    BY <1>1, <2>3 DEF Disk, WriteFile
  <2>4. CASE WriteManifest(c)
    <3>1. NextManifest(todo[c]) \in [is : {"absent", "damaged", "good"}, current : Pair \cup {None},
                                     previous : Pair \cup {None}]
      BY <1>1 DEF Disk, NextManifest, Manifest
    <3> QED
      BY <1>1, <2>4, <3>1 DEF Disk, WriteManifest
  <2>5. CASE WriteAlias(c)
    BY <1>1, <2>5 DEF Disk, WriteAlias
  <2>6. CASE WriteLink(c)
    BY <1>1, <2>6 DEF Disk, WriteLink
  <2> QED
    BY <2>1, <2>2, <2>3, <2>4, <2>5, <2>6 DEF Step
<1> QED
  BY <1>2, <1>3, <1>4 DEF TypeOK, Disk, Attempts, World, Places

LEMMA CountKeepsType ==
  ASSUME World, NEW m \in Mishaps,
         NEW bound \in {MaxCrashes, MaxErrors, MaxDamage}, Count(m, bound)
  PROVE  /\ mishaps' \in [Mishaps -> 0..(MaxCrashes + MaxErrors + MaxDamage)]
         /\ mishaps[m] \in Nat /\ mishaps'[m] = mishaps[m] + 1
         /\ \A n \in Mishaps \ {m} : mishaps'[n] = mishaps[n]
<1>1. mishaps[m] \in 0..(MaxCrashes + MaxErrors + MaxDamage) /\ mishaps[m] < bound
  BY DEF World, Count
<1>2. mishaps[m] + 1 \in 0..(MaxCrashes + MaxErrors + MaxDamage)
  BY <1>1, BoundsAreNumbers
<1>3. mishaps' = [mishaps EXCEPT ![m] = mishaps[m] + 1]
  BY DEF Count
<1> QED
  BY <1>1, <1>2, <1>3, BoundsAreNumbers DEF World

\* What a caller does outside Step, and what happens elsewhere.
LEMMA OtherKeepsTypes ==
  ASSUME TypeOK,
         \/ \E c \in Caller : Call(c) \/ Crash(c) \/ WriteFails(c)
         \/ DamageFile \/ DamageManifest \/ Issue
         \/ \E g \in Pair : Age(g)
         \/ UNCHANGED vars
  PROVE  TypeOK'
<1>1. Disk /\ Attempts /\ World /\ issued \in Pair
  BY TypeParts DEF World
<1>2. Attempts'
  <2>1. CASE \E c \in Caller : Call(c) \/ Crash(c) \/ WriteFails(c)
    BY <1>1, <2>1, OutsideKeepsAttempts, MishapKeepsAttempts
  <2>2. CASE UNCHANGED <<calls, lock>>
    BY <1>1, <2>2 DEF Attempts, calls
  <2> QED
    BY <2>1, <2>2 DEF DamageFile, DamageManifest, Issue, Age, vars
<1>3. Disk'
  <2>1. CASE UNCHANGED disk
    BY <1>1, <2>1 DEF Disk, disk
  <2>2. CASE DamageFile
    BY <1>1, <2>2 DEF Disk, DamageFile
  <2>3. CASE DamageManifest
    BY <1>1, <2>3 DEF Disk, DamageManifest, Manifest
  <2> QED
    BY <2>1, <2>2, <2>3 DEF Call, Crash, WriteFails, Issue, Age, vars
<1>4. World'
  <2>1. CASE UNCHANGED mishaps
    <3>1. issued' \in Pair
      BY <1>1, <2>1 DEF Call, Crash, WriteFails, DamageFile, DamageManifest, Issue, Age, vars
    <3>2. remaining' \in [Pair -> 0..2]
      <4>1. CASE \E g \in Pair : Age(g)
        <5>1. PICK g \in Pair : remaining[g] > 0 /\ remaining' = [remaining EXCEPT ![g] = @ - 1]
          BY <4>1 DEF Age
        <5>2. remaining[g] - 1 \in 0..2
          BY <1>1, <5>1 DEF World
        <5> QED
          BY <1>1, <5>1, <5>2 DEF World
      <4>2. CASE UNCHANGED remaining
        BY <1>1, <4>2 DEF World
      <4> QED
        BY <4>1, <4>2 DEF Call, Crash, WriteFails, DamageFile, DamageManifest, Issue, vars
    <3> QED
      BY <1>1, <2>1, <3>1, <3>2 DEF World
  <2>2. CASE \/ Count("crash", MaxCrashes) \/ Count("error", MaxErrors) \/ Count("damage", MaxDamage)
    <3>1. mishaps' \in [Mishaps -> 0..(MaxCrashes + MaxErrors + MaxDamage)]
      BY <1>1, <2>2, CountKeepsType DEF Mishaps
    <3>2. UNCHANGED <<issued, remaining>>
      <4>1. CASE \E c \in Caller : Crash(c) \/ WriteFails(c)
        BY <4>1 DEF Crash, WriteFails
      <4>2. CASE DamageFile \/ DamageManifest
        BY <4>2 DEF DamageFile, DamageManifest
      <4>3. CASE UNCHANGED mishaps
        <5>1. \A m \in Mishaps : mishaps[m] \in Int
          BY <1>1, BoundsAreNumbers DEF World
        <5> QED
          BY <1>1, <2>2, <4>3, <5>1, CountKeepsType DEF Mishaps
      <4> QED
        BY <4>1, <4>2, <4>3 DEF Call, Issue, Age, vars
    <3> QED
      BY <1>1, <3>1, <3>2 DEF World
  <2> QED
    BY <2>1, <2>2 DEF Call, Crash, WriteFails, DamageFile, DamageManifest, Issue, Age, vars
<1> QED
  BY <1>2, <1>3, <1>4 DEF TypeOK, Disk, Attempts, World, Places

LEMMA TypesStart == Init => TypeOK
<1> SUFFICES ASSUME Init PROVE TypeOK
  OBVIOUS
<1>1. Disk
  BY PairsAreNumbered DEF Init, Disk, Manifest, LegacyFiles, Names
<1>2. Attempts
  BY NobodyCalls DEF Init, Attempts, Places, Tasks, Locked, Writing
<1>3. World
  BY PairsAreNumbered, BoundsAreNumbers DEF Init, World
<1> QED
  BY <1>1, <1>2, <1>3, TypeParts

LEMMA NextKeepsTypes == TypeOK /\ [Next]_vars => TypeOK'
BY StepKeepsTypes, OtherKeepsTypes DEF Next

\* Every part of the state keeps its type, and only the holder of the lock is
\* between its taking and its release.
THEOREM TypeCorrect == Spec => []TypeOK
BY TypesStart, NextKeepsTypes, PTL DEF Spec

-----------------------------------------------------------------------------
(* What the disk holds, and what the holder of the lock may rely on.       *)

Refused == mishaps["error"]
Damaged == mishaps["damage"]

\* Pairs expire in their order, each damage is counted, a manifest names files
\* that were written, and the key's name becomes a link after the certificate's.
Kept ==
  /\ \A g, h \in Pair : g < h => remaining[g] <= remaining[h]
  /\ \A g \in Pair : file[g] = "damaged" => Damaged > 0
  /\ \A g, h \in Pair : file[g] = "damaged" /\ file[h] = "damaged" /\ g # h => Damaged > 1
  /\ manifest.is = "damaged" => Damaged > 0
  /\ manifest.is = "good" => manifest.current \in Pair /\ file[manifest.current] # "absent"
  /\ manifest.is # "good" => manifest.current = None /\ manifest.previous = None
  /\ manifest.previous # None => file[manifest.previous] # "absent"
  /\ legacy["key"] = Link => legacy["cert"] = Link

Linking == {"alias", "cert", "key"}

Holder(c) ==
  /\ pc[c] \in Writing \cup {"found"} => todo[c] \in Pair
  /\ pc[c] = "repair" =>
       /\ task[c] = "repair" /\ file[todo[c]] # "absent"
       /\ \/ Damaged > 1
          \/ manifest.is = "good" /\ manifest.previous = todo[c] /\ file[manifest.current] = "damaged"
  /\ pc[c] \in {"file", "manifest"} =>
       \/ task[c] = "migrate" /\ manifest.is = "absent" /\ LegacyPair = todo[c]
       \/ task[c] = "publish" /\ fetched[c] = todo[c]
  /\ pc[c] \in Linking \cup {"manifest", "found"} => file[todo[c]] # "absent"
  /\ pc[c] \in Linking \cup {"found"} =>
       \/ manifest.is = "damaged"
       \/ manifest.is = "good" /\ manifest.current = todo[c]
  /\ pc[c] \in {"cert", "key"} => alias = todo[c]
  /\ pc[c] = "key" => legacy["cert"] = Link

\* Only a pair that is not due is fetched, and it does not age on its way.
Fetching(c) ==
  /\ fetched[c] # None => purpose[c] = "ensure" /\ ~Due(fetched[c])
  /\ pc[c] = "fetch" => purpose[c] = "ensure"

Flow == \A c \in Caller : (pc[c] \in Locked => Holder(c)) /\ Fetching(c)

DiskInv == TypeOK /\ Kept /\ Flow

\* A step of one caller, which held the lock when it began, asks for nothing
\* of the others but that it leaves them alone.
Alone(c) ==
  \A d \in Caller \ {c} : pc'[d] = pc[d] /\ task'[d] = task[d] /\ todo'[d] = todo[d]
                          /\ fetched'[d] = fetched[d] /\ purpose'[d] = purpose[d]

LEMMA FlowByHolder ==
  ASSUME Attempts, Flow, NEW c \in Caller, pc[c] \in Locked, Alone(c), UNCHANGED remaining,
         pc'[c] \in Locked => Holder(c)', Fetching(c)'
  PROVE  Flow'
<1>1. \A d \in Caller \ {c} : pc[d] \notin Locked
  BY DEF Attempts
<1>2. \A d \in Caller \ {c} : pc'[d] \notin Locked /\ Fetching(d)'
  BY <1>1 DEF Alone, Flow, Fetching, Due
<1> QED
  BY <1>2 DEF Flow

\* A step of a caller outside the lock, or of nobody: the disk stays.
LEMMA FlowByOutsider ==
  ASSUME Flow, NEW c \in Caller, Alone(c), UNCHANGED <<disk, remaining>>, Damaged' = Damaged,
         pc'[c] \in Locked => Holder(c)', Fetching(c)'
  PROVE  Flow'
<1>1. ASSUME NEW d \in Caller \ {c} PROVE (pc'[d] \in Locked => Holder(d)') /\ Fetching(d)'
  <2>1. (pc[d] \in Locked => Holder(d)) /\ Fetching(d)
    BY DEF Flow
  <2>2. Fetching(d)'
    BY <2>1 DEF Alone, Fetching, Due
  <2>3. pc'[d] \in Locked => Holder(d)'
    BY <2>1 DEF Alone, Holder, disk, LegacyPair
  <2> QED
    BY <2>2, <2>3
<1> QED
  BY <1>1 DEF Flow

LEMMA KeptStays ==
  ASSUME Kept, UNCHANGED <<disk, remaining>>, Damaged' = Damaged
  PROVE  Kept'
BY DEF Kept, disk

\* How a caller's move reads at one place.
LEMMA WorkAt ==
  ASSUME Attempts, NEW c \in Caller, NEW place, NEW why, NEW g, Work(c, place, why, g),
         UNCHANGED <<purpose, fetched>>
  PROVE  pc'[c] = place /\ task'[c] = why /\ todo'[c] = g /\ Alone(c)
BY DEF Attempts, Work, Goto, Alone

LEMMA GotoAt ==
  ASSUME Attempts, NEW c \in Caller, NEW place, Goto(c, place),
         UNCHANGED <<purpose, task, todo, fetched>>
  PROVE  pc'[c] = place /\ Alone(c)
BY DEF Attempts, Goto, Alone

LEMMA EndAt ==
  ASSUME Attempts, NEW c \in Caller, NEW next, EndAs(c, next)
  PROVE  /\ pc'[c] = "idle" /\ fetched'[c] = None /\ purpose'[c] = next /\ Alone(c)
         /\ pc'[c] \notin Locked /\ Fetching(c)'
<1>1. /\ pc'[c] = "idle" /\ fetched'[c] = None /\ purpose'[c] = next /\ Alone(c)
  BY DEF Attempts, EndAs, Work, Goto, Alone
<1> QED
  BY <1>1 DEF Fetching, Locked, Writing

\* Where an attempt is after a write that failed.
LEMMA FailedAt ==
  ASSUME Attempts, NEW c \in Caller, Failed(c)
  PROVE  /\ Alone(c)
         /\ \/ task[c] = "refresh" /\ pc'[c] = "found" /\ todo'[c] = todo[c] /\ task'[c] = task[c]
               /\ UNCHANGED <<purpose, fetched>>
            \/ task[c] \in {"repair", "migrate"} /\ pc'[c] = "missed" /\ UNCHANGED <<purpose, fetched>>
            \/ task[c] = "publish" /\ pc'[c] = "idle" /\ fetched'[c] = None /\ purpose'[c] = "ensure"
<1>1. task[c] \in Tasks
  BY DEF Attempts
<1>2. CASE task[c] = "refresh"
  BY <1>2, GotoAt DEF Failed
<1>3. CASE task[c] \in {"repair", "migrate"}
  BY <1>3, WorkAt DEF Failed, Miss
<1>4. CASE task[c] = "publish"
  BY <1>4, EndAt DEF Failed, End
<1> QED
  BY <1>1, <1>2, <1>3, <1>4 DEF Tasks

\* A refused write leaves the disk alone, and the attempt where it may rely on less.
LEMMA FailedKeepsFlow ==
  ASSUME TypeOK, Flow, NEW c \in Caller, pc[c] \in Writing, Failed(c),
         UNCHANGED <<disk, remaining>>, Damaged' = Damaged
  PROVE  Flow'
<1>1. Attempts /\ pc[c] \in Locked /\ Holder(c) /\ Fetching(c)
  BY TypeParts DEF Flow, Locked
<1>2. Alone(c)
  BY <1>1, FailedAt
<1>3. Fetching(c)'
  BY <1>1, FailedAt DEF Fetching, Due
<1>4. pc'[c] \in Locked => Holder(c)'
  <2>1. CASE task[c] = "refresh"
    <3>1. pc'[c] = "found" /\ todo'[c] = todo[c]
      BY <1>1, <2>1, FailedAt
    <3>2. pc[c] \in Linking
      BY <1>1, <2>1 DEF Holder, Writing, Linking
    <3> QED
      BY <1>1, <3>1, <3>2 DEF Holder, Linking, disk, Writing
  <2>2. CASE task[c] \in {"repair", "migrate"}
    <3>1. pc'[c] = "missed"
      BY <1>1, <2>2, FailedAt
    <3> QED
      BY <3>1 DEF Holder, Linking, Writing
  <2>3. CASE task[c] = "publish"
    <3>1. pc'[c] = "idle"
      BY <1>1, <2>3, FailedAt
    <3> QED
      BY <3>1 DEF Locked, Writing
  <2> QED
    BY <1>1, <2>1, <2>2, <2>3 DEF Attempts, Tasks
<1> QED
  BY <1>1, <1>2, <1>3, <1>4, FlowByHolder

LEMMA LookKeepsDisk == \A c \in Caller : DiskInv /\ Look(c) => Kept' /\ Flow'
<1> SUFFICES ASSUME NEW c \in Caller, DiskInv, Look(c) PROVE Kept' /\ Flow'
  OBVIOUS
<1>1. /\ Attempts /\ Disk /\ pc[c] \in Locked /\ Holder(c) /\ Fetching(c) /\ LookNext(c)
      /\ UNCHANGED <<disk, lock, purpose, fetched, issued, remaining, mishaps>>
  BY TypeParts DEF DiskInv, Flow, Look, Locked
<1>2. Kept'
  BY <1>1, KeptStays DEF DiskInv, Damaged
<1>3. CASE manifest.is = "absent" /\ LegacyPair # None
  <2>1. Work(c, "file", "migrate", LegacyPair)
    BY <1>1, <1>3 DEF LookNext
  <2>2. pc'[c] = "file" /\ task'[c] = "migrate" /\ todo'[c] = LegacyPair /\ Alone(c)
    BY <1>1, <2>1, WorkAt
  <2>3. Holder(c)'
    BY <1>1, <1>3, <2>2, LegacyPairIsPair DEF Holder, Linking, disk, LegacyPair
  <2> QED
    BY <1>1, <1>2, <2>2, <2>3, FlowByHolder DEF DiskInv, Fetching, Due
<1>4. CASE manifest.is = "good" /\ Whole(manifest.current)
  <2>1. Work(c, "alias", "refresh", manifest.current)
    BY <1>1, <1>4 DEF LookNext
  <2>2. pc'[c] = "alias" /\ task'[c] = "refresh" /\ todo'[c] = manifest.current /\ Alone(c)
    BY <1>1, <2>1, WorkAt
  <2>3. Holder(c)'
    BY <1>1, <1>4, <2>2 DEF Holder, Linking, disk, Whole, DiskInv, Kept
  <2> QED
    BY <1>1, <1>2, <2>2, <2>3, FlowByHolder DEF DiskInv, Fetching, Due
<1>5. CASE manifest.is = "good" /\ ~Whole(manifest.current) /\ Whole(manifest.previous)
  <2>1. Work(c, "repair", "repair", manifest.previous)
    BY <1>1, <1>5 DEF LookNext
  <2>2. pc'[c] = "repair" /\ task'[c] = "repair" /\ todo'[c] = manifest.previous /\ Alone(c)
    BY <1>1, <2>1, WorkAt
  <2>3. file[manifest.current] = "damaged" /\ file[manifest.previous] = "whole"
        /\ manifest.previous \in Pair
    BY <1>1, <1>5, PairsAreNumbered DEF DiskInv, Kept, Disk, Whole
  <2>4. Holder(c)'
    BY <1>1, <1>5, <2>2, <2>3 DEF Holder, Linking, disk
  <2> QED
    BY <1>1, <1>2, <2>2, <2>4, FlowByHolder DEF DiskInv, Fetching, Due
<1>6. CASE /\ ~(manifest.is = "absent" /\ LegacyPair # None)
           /\ ~(manifest.is = "good" /\ Whole(manifest.current))
           /\ ~(manifest.is = "good" /\ ~Whole(manifest.current) /\ Whole(manifest.previous))
  <2>1. Work(c, "missed", "refresh", None)
    BY <1>1, <1>6 DEF LookNext
  <2>2. pc'[c] = "missed" /\ Alone(c)
    BY <1>1, <2>1, WorkAt
  <2>3. Holder(c)'
    BY <2>2 DEF Holder, Linking, Writing
  <2> QED
    BY <1>1, <1>2, <2>2, <2>3, FlowByHolder DEF DiskInv, Fetching, Due
<1> QED
  BY <1>3, <1>4, <1>5, <1>6

\* Steps that leave the disk alone.
LEMMA QuietKeepsDisk ==
  \A c \in Caller : DiskInv /\ (Call(c) \/ Lock(c) \/ Found(c) \/ Missed(c) \/ Fetch(c) \/ Crash(c)
                                \/ WriteFails(c)) => Kept' /\ Flow'
<1> SUFFICES ASSUME NEW c \in Caller, DiskInv,
                    Call(c) \/ Lock(c) \/ Found(c) \/ Missed(c) \/ Fetch(c) \/ Crash(c) \/ WriteFails(c)
             PROVE  Kept' /\ Flow'
  OBVIOUS
<1>1. Attempts /\ World /\ (pc[c] \in Locked => Holder(c)) /\ Fetching(c)
  BY TypeParts DEF DiskInv, Flow
<1>2. UNCHANGED <<disk, remaining>> /\ Damaged' = Damaged
  <2>1. CASE Crash(c) \/ WriteFails(c)
    BY <1>1, <2>1 DEF Crash, WriteFails, Count, World, Mishaps, Damaged
  <2>2. CASE ~(Crash(c) \/ WriteFails(c))
    BY <2>2 DEF Call, Lock, Found, Missed, Fetch, Damaged
  <2> QED
    BY <2>1, <2>2
<1>3. Kept'
  BY <1>2, KeptStays DEF DiskInv
<1>4. CASE Call(c)
  <2>1. pc'[c] = "lock" /\ Alone(c)
    BY <1>1, <1>4, GotoAt DEF Call
  <2> QED
    BY <1>1, <1>2, <1>3, <1>4, <2>1, FlowByOutsider DEF DiskInv, Call, Fetching, Due, Locked, Writing
<1>5. CASE Lock(c)
  <2>1. pc'[c] = "look" /\ Alone(c)
    BY <1>1, <1>5, GotoAt DEF Lock
  <2>2. Holder(c)'
    BY <2>1 DEF Holder, Linking, Writing
  <2> QED
    BY <1>1, <1>2, <1>3, <1>5, <2>1, <2>2, FlowByOutsider DEF DiskInv, Lock, Fetching, Due
<1>6. CASE Found(c)
  <2>1. CASE End(c)
    BY <1>1, <1>2, <1>3, <2>1, EndAt, FlowByOutsider DEF DiskInv, End
  <2>2. CASE Miss(c)
    <3>1. pc'[c] = "missed" /\ Alone(c) /\ UNCHANGED <<purpose, fetched>>
      BY <1>1, <2>2, WorkAt DEF Miss
    <3>2. Holder(c)' /\ Fetching(c)'
      BY <1>1, <1>2, <3>1 DEF Holder, Linking, Writing, Fetching, Due
    <3> QED
      BY <1>2, <1>3, <3>1, <3>2, FlowByOutsider DEF DiskInv
  <2> QED
    BY <1>6, <2>1, <2>2 DEF Found
<1>7. CASE Missed(c)
  <2>1. CASE fetched[c] # None
    <3>1. Work(c, "file", "publish", fetched[c]) /\ UNCHANGED <<lock, purpose, fetched>>
      BY <1>7, <2>1 DEF Missed
    <3>2. pc'[c] = "file" /\ task'[c] = "publish" /\ todo'[c] = fetched[c] /\ Alone(c)
      BY <1>1, <3>1, WorkAt
    <3>3. Holder(c)' /\ Fetching(c)'
      BY <1>1, <1>2, <2>1, <3>1, <3>2 DEF Holder, Linking, Fetching, Due, Attempts
    <3> QED
      BY <1>2, <1>3, <3>2, <3>3, FlowByOutsider DEF DiskInv
  <2>2. CASE fetched[c] = None /\ purpose[c] = "cached"
    <3>1. End(c)
      BY <1>7, <2>2 DEF Missed
    <3> QED
      BY <1>1, <1>2, <1>3, <3>1, EndAt, FlowByOutsider DEF DiskInv, End
  <2>3. CASE fetched[c] = None /\ purpose[c] = "ensure"
    <3>1. Goto(c, "fetch") /\ UNCHANGED <<purpose, task, todo, fetched>>
      BY <1>7, <2>3 DEF Missed
    <3>2. pc'[c] = "fetch" /\ Alone(c)
      BY <1>1, <3>1, GotoAt
    <3>3. pc'[c] \notin Locked /\ Fetching(c)'
      BY <1>1, <1>2, <2>3, <3>1, <3>2 DEF Locked, Writing, Fetching
    <3> QED
      BY <1>2, <1>3, <3>2, <3>3, FlowByOutsider DEF DiskInv
  <2> QED
    BY <1>1, <2>1, <2>2, <2>3 DEF Attempts
<1>8. CASE Fetch(c)
  <2>1. CASE Due(issued)
    <3>1. End(c)
      BY <1>8, <2>1 DEF Fetch
    <3> QED
      BY <1>1, <1>2, <1>3, <3>1, EndAt, FlowByOutsider DEF DiskInv, End
  <2>2. CASE ~Due(issued)
    <3>1. /\ pc[c] = "fetch" /\ Goto(c, "lock") /\ fetched' = [fetched EXCEPT ![c] = issued]
          /\ UNCHANGED <<purpose, task, todo>>
      BY <1>8, <2>2 DEF Fetch
    <3>2. pc'[c] = "lock" /\ Alone(c) /\ fetched'[c] = issued
      BY <1>1, <3>1 DEF Attempts, Goto, Alone
    <3>3. pc'[c] \notin Locked /\ Fetching(c)'
      BY <1>1, <1>2, <2>2, <3>1, <3>2 DEF Locked, Writing, Fetching, Due
    <3> QED
      BY <1>2, <1>3, <3>2, <3>3, FlowByOutsider DEF DiskInv
  <2> QED
    BY <2>1, <2>2
<1>9. CASE Crash(c)
  BY <1>1, <1>2, <1>3, <1>9, EndAt, FlowByOutsider DEF DiskInv, Crash
<1>10. CASE WriteFails(c)
  BY <1>2, <1>3, <1>10, FailedKeepsFlow DEF DiskInv, WriteFails
<1> QED
  BY <1>4, <1>5, <1>6, <1>7, <1>8, <1>9, <1>10

\* The five writes of a publication, in their order.
LEMMA RepairKeepsDisk == \A c \in Caller : DiskInv /\ Repair(c) => Kept' /\ Flow'
<1> SUFFICES ASSUME NEW c \in Caller, DiskInv, Repair(c) PROVE Kept' /\ Flow'
  OBVIOUS
<1>1. /\ Attempts /\ Disk /\ pc[c] = "repair" /\ pc[c] \in Locked /\ Holder(c) /\ Fetching(c)
      /\ manifest' = Manifest("good", todo[c], None) /\ Goto(c, "alias")
      /\ UNCHANGED <<file, alias, legacy, lock, purpose, task, todo, fetched, issued, remaining, mishaps>>
  BY TypeParts DEF DiskInv, Flow, Repair, Locked, Writing
<1>2. pc'[c] = "alias" /\ Alone(c)
  BY <1>1, GotoAt
<1>3. todo[c] \in Pair /\ file[todo[c]] # "absent"
  BY <1>1 DEF Holder, Writing
<1>4. manifest'.is = "good" /\ manifest'.current = todo[c] /\ manifest'.previous = None
  BY <1>1 DEF Manifest
<1>5. Kept'
  BY <1>1, <1>3, <1>4 DEF DiskInv, Kept, Damaged
<1>6. Holder(c)' /\ Fetching(c)'
  BY <1>1, <1>2, <1>3, <1>4 DEF Holder, Linking, Fetching, Due
<1> QED
  BY <1>1, <1>2, <1>5, <1>6, FlowByHolder DEF DiskInv

LEMMA WriteFileKeepsDisk == \A c \in Caller : DiskInv /\ WriteFile(c) => Kept' /\ Flow'
<1> SUFFICES ASSUME NEW c \in Caller, DiskInv, WriteFile(c) PROVE Kept' /\ Flow'
  OBVIOUS
<1>1. /\ Attempts /\ Disk /\ pc[c] = "file" /\ pc[c] \in Locked /\ pc[c] \in Writing
      /\ Holder(c) /\ Fetching(c)
      /\ UNCHANGED <<manifest, alias, legacy, issued, remaining, mishaps>>
  BY TypeParts DEF DiskInv, Flow, WriteFile, Locked, Writing
<1>2. CASE file[todo[c]] = "damaged"
  <2>1. Failed(c) /\ UNCHANGED <<disk, remaining>> /\ Damaged' = Damaged
    BY <1>1, <1>2 DEF WriteFile, disk, Damaged
  <2> QED
    BY <1>1, <2>1, FailedKeepsFlow, KeptStays DEF DiskInv
<1>3. CASE file[todo[c]] # "damaged"
  <2>1. /\ file' = [file EXCEPT ![todo[c]] = "whole"] /\ Goto(c, "manifest")
        /\ UNCHANGED <<lock, purpose, task, todo, fetched>>
    BY <1>3 DEF WriteFile
  <2>2. pc'[c] = "manifest" /\ Alone(c)
    BY <1>1, <2>1, GotoAt
  <2>3. /\ todo[c] \in Pair /\ file'[todo[c]] = "whole"
        /\ \A g \in Pair \ {todo[c]} : file'[g] = file[g]
    BY <1>1, <2>1 DEF Holder, Disk
  <2>4. Kept'
    <3>1. /\ UNCHANGED <<manifest, legacy, remaining>> /\ Damaged' = Damaged
          /\ \A g \in Pair : file'[g] = "damaged" => file[g] = "damaged"
          /\ \A g \in Pair : file[g] # "absent" => file'[g] # "absent"
          /\ manifest.previous \in Pair \cup {None}
      BY <1>1, <2>3 DEF Damaged, Disk, Manifest
    <3>2. QED
      BY <3>1, PairsAreNumbered DEF DiskInv, Kept
  <2>5. Holder(c)' /\ Fetching(c)'
    BY <1>1, <2>1, <2>2, <2>3 DEF Holder, Linking, Writing, Fetching, Due, LegacyPair
  <2> QED
    BY <1>1, <2>2, <2>4, <2>5, FlowByHolder DEF DiskInv
<1> QED
  BY <1>2, <1>3

LEMMA WriteManifestKeepsDisk == \A c \in Caller : DiskInv /\ WriteManifest(c) => Kept' /\ Flow'
<1> SUFFICES ASSUME NEW c \in Caller, DiskInv, WriteManifest(c) PROVE Kept' /\ Flow'
  OBVIOUS
<1>1. /\ Attempts /\ Disk /\ pc[c] = "manifest" /\ pc[c] \in Locked /\ Holder(c) /\ Fetching(c)
      /\ manifest' = NextManifest(todo[c]) /\ Goto(c, "alias")
      /\ UNCHANGED <<file, alias, legacy, lock, purpose, task, todo, fetched, issued, remaining, mishaps>>
  BY TypeParts DEF DiskInv, Flow, WriteManifest, Locked, Writing
<1>2. pc'[c] = "alias" /\ Alone(c)
  BY <1>1, GotoAt
<1>3. todo[c] \in Pair /\ file[todo[c]] # "absent"
  BY <1>1 DEF Holder, Writing, Linking
<1>4. /\ manifest'.is = "good" /\ manifest'.current = todo[c]
      /\ manifest'.previous \in {manifest.current, manifest.previous}
  <2>1. CASE manifest.current = todo[c]
    BY <1>1, <1>3, <2>1, PairsAreNumbered DEF NextManifest, DiskInv, Kept, Disk
  <2>2. CASE manifest.current # todo[c]
    BY <1>1, <2>2 DEF NextManifest, Manifest
  <2> QED
    BY <2>1, <2>2
<1>5. Kept'
  <2>1. manifest.current = None \/ file[manifest.current] # "absent"
    BY <1>1 DEF DiskInv, Kept, Disk
  <2> QED
    BY <1>1, <1>3, <1>4, <2>1 DEF DiskInv, Kept, Damaged
<1>6. Holder(c)' /\ Fetching(c)'
  BY <1>1, <1>2, <1>3, <1>4 DEF Holder, Linking, Fetching, Due
<1> QED
  BY <1>1, <1>2, <1>5, <1>6, FlowByHolder DEF DiskInv

LEMMA WriteLinksKeepDisk == \A c \in Caller : DiskInv /\ (WriteAlias(c) \/ WriteLink(c)) => Kept' /\ Flow'
<1> SUFFICES ASSUME NEW c \in Caller, DiskInv, WriteAlias(c) \/ WriteLink(c) PROVE Kept' /\ Flow'
  OBVIOUS
<1>1. /\ Attempts /\ Disk /\ pc[c] \in Linking /\ pc[c] \in Locked /\ Holder(c) /\ Fetching(c)
      /\ UNCHANGED <<file, manifest, lock, purpose, task, todo, fetched, issued, remaining, mishaps>>
  BY TypeParts DEF DiskInv, Flow, WriteAlias, WriteLink, Names, Linking, Locked, Writing
<1>2. CASE WriteAlias(c)
  <2>1. pc[c] = "alias" /\ alias' = todo[c] /\ pc'[c] = "cert" /\ Alone(c) /\ UNCHANGED legacy
    BY <1>1, <1>2, GotoAt DEF WriteAlias
  <2>2. Kept'
    BY <1>1, <2>1 DEF DiskInv, Kept, Damaged
  <2>3. Holder(c)' /\ Fetching(c)'
    BY <1>1, <2>1 DEF Holder, Linking, Writing, Fetching, Due
  <2> QED
    BY <1>1, <2>1, <2>2, <2>3, FlowByHolder DEF DiskInv
<1>3. CASE WriteLink(c)
  <2>1. /\ pc[c] \in Names /\ legacy' = [legacy EXCEPT ![pc[c]] = Link]
        /\ pc'[c] = (IF pc[c] = "cert" THEN "key" ELSE "found") /\ Alone(c) /\ UNCHANGED alias
    BY <1>1, <1>3, GotoAt DEF WriteLink
  <2>2. legacy'["cert"] = Link
    BY <1>1, <2>1 DEF Holder, Names, Disk
  <2>3. Kept'
    BY <1>1, <2>1, <2>2 DEF DiskInv, Kept, Damaged
  <2>4. Holder(c)' /\ Fetching(c)'
    BY <1>1, <2>1, <2>2 DEF Holder, Linking, Writing, Fetching, Due, Names
  <2> QED
    BY <1>1, <2>1, <2>3, <2>4, FlowByHolder DEF DiskInv
<1> QED
  BY <1>2, <1>3

LEMMA DamageIsCounted ==
  ASSUME TypeOK, DamageFile \/ DamageManifest
  PROVE  Damaged \in Nat /\ Damaged' = Damaged + 1 /\ Refused' = Refused
<1>1. World /\ Count("damage", MaxDamage)
  BY TypeParts DEF DamageFile, DamageManifest
<1>2. "damage" \in Mishaps /\ "error" \in Mishaps
  BY DEF Mishaps
<1> QED
  BY <1>1, <1>2, CountKeepsType DEF Damaged, Refused

LEMMA DamageKeepsDisk == DiskInv /\ (DamageFile \/ DamageManifest) => Kept' /\ Flow'
<1> SUFFICES ASSUME DiskInv, DamageFile \/ DamageManifest PROVE Kept' /\ Flow'
  OBVIOUS
<1>1. Disk /\ Damaged \in Nat /\ Damaged' = Damaged + 1
      /\ UNCHANGED <<alias, legacy, lock, pc, purpose, task, todo, fetched, issued, remaining>>
  BY TypeParts, DamageIsCounted DEF DiskInv, DamageFile, DamageManifest, calls
<1>2. \A c \in Caller : Fetching(c)'
  BY <1>1 DEF DiskInv, Flow, Fetching, Due
<1>3. CASE DamageFile
  <2>1. PICK g \in Pair : file[g] = "whole" /\ file' = [file EXCEPT ![g] = "damaged"]
    BY <1>3 DEF DamageFile
  <2>2. /\ UNCHANGED manifest
        /\ \A h \in Pair : /\ file'[h] = "absent" => file[h] = "absent"
                           /\ file[h] = "damaged" => file'[h] = "damaged"
                           /\ h # g => file'[h] = file[h]
    BY <1>1, <1>3, <2>1 DEF Disk, DamageFile
  <2>3. Kept'
    <3>1. \A h, k \in Pair : file'[h] = "damaged" /\ file'[k] = "damaged" /\ h # k => Damaged' > 1
      <4> SUFFICES ASSUME NEW h \in Pair, NEW k \in Pair, file'[h] = "damaged", file'[k] = "damaged", h # k
                   PROVE  Damaged' > 1
        OBVIOUS
      <4>1. file[h] = "damaged" \/ file[k] = "damaged"
        BY <2>2
      <4> QED
        BY <1>1, <4>1 DEF DiskInv, Kept
    <3>2. \A n \in {manifest.current, manifest.previous} : n \in Pair \cup {None}
      BY <1>1 DEF Disk
    <3> QED
      BY <1>1, <2>2, <3>1, <3>2 DEF DiskInv, Kept
  <2>4. ASSUME NEW c \in Caller, pc'[c] \in Locked PROVE Holder(c)'
    <3>1. Holder(c)
      BY <1>1, <2>4 DEF DiskInv, Flow
    <3>2. pc[c] \in Linking \cup {"manifest", "found", "repair"} => todo[c] \in Pair
      BY <3>1 DEF Holder, Linking, Writing
    <3>3. pc[c] = "repair" => manifest.current \in Pair \/ Damaged > 1
      BY <3>1 DEF Holder, DiskInv, Kept
    <3> QED
      BY <1>1, <2>2, <3>1, <3>2, <3>3 DEF Holder, LegacyPair
  <2> QED
    BY <1>2, <2>3, <2>4 DEF Flow
<1>4. CASE DamageManifest
  <2>1. /\ manifest.is = "good" /\ UNCHANGED file
        /\ manifest'.is = "damaged" /\ manifest'.current = None /\ manifest'.previous = None
    BY <1>4 DEF DamageManifest, Manifest
  <2>2. Kept'
    BY <1>1, <2>1 DEF DiskInv, Kept
  <2>3. ASSUME NEW c \in Caller, pc'[c] \in Locked PROVE Holder(c)'
    <3>1. Holder(c)
      BY <1>1, <2>3 DEF DiskInv, Flow
    <3>2. pc[c] = "repair" => Damaged' > 1
      BY <1>1, <2>1, <3>1 DEF Holder, DiskInv, Kept
    <3> QED
      BY <1>1, <2>1, <3>1, <3>2 DEF Holder, LegacyPair
  <2> QED
    BY <1>2, <2>2, <2>3 DEF Flow
<1> QED
  BY <1>3, <1>4

\* The broker renews, time passes, or nothing happens.
LEMMA ElsewhereKeepsDisk ==
  ASSUME DiskInv, Issue \/ (\E g \in Pair : Age(g)) \/ UNCHANGED vars
  PROVE  Kept' /\ Flow'
<1>1. UNCHANGED <<disk, calls, mishaps>>
  BY DEF Issue, Age, vars
<1>2. \A c \in Caller : fetched[c] # None => ~Due(fetched[c])'
  <2>1. CASE \E g \in Pair : Age(g)
    <3>1. PICK g \in Pair : Age(g)
      BY <2>1
    <3>2. \A h \in Pair \ {g} : remaining'[h] = remaining[h]
      BY <3>1 DEF DiskInv, TypeOK, Age
    <3>3. \A c \in Caller : fetched[c] # g /\ fetched[c] \in Pair \cup {None}
      BY <3>1 DEF Age, DiskInv, TypeOK
    <3> QED
      BY <1>1, <3>2, <3>3 DEF DiskInv, Flow, Fetching, Due, calls
  <2>2. CASE UNCHANGED remaining
    BY <1>1, <2>2 DEF DiskInv, Flow, Fetching, Due, calls
  <2> QED
    BY <2>1, <2>2 DEF Issue, vars
<1>3. Flow'
  BY <1>1, <1>2 DEF DiskInv, Flow, Holder, Fetching, disk, calls, LegacyPair, Damaged
<1>4. \A g, h \in Pair : g < h => remaining'[g] <= remaining'[h]
  <2>1. CASE \E g \in Pair : Age(g)
    <3>1. PICK g \in Pair : Age(g)
      BY <2>1
    <3>2. /\ remaining'[g] = remaining[g] - 1 /\ \A h \in Pair \ {g} : remaining'[h] = remaining[h]
          /\ \A h \in Pair : h < g => remaining[h] < remaining[g]
          /\ \A h \in Pair : remaining[h] \in 0..2
      BY <3>1 DEF DiskInv, TypeOK, Age
    <3> QED
      BY <3>2, PairsAreNumbered DEF DiskInv, Kept
  <2>2. CASE UNCHANGED remaining
    BY <2>2 DEF DiskInv, Kept
  <2> QED
    BY <2>1, <2>2 DEF Issue, vars
<1>5. Kept'
  BY <1>1, <1>4 DEF DiskInv, Kept, disk, Damaged
<1> QED
  BY <1>3, <1>5

LEMMA DiskInvStarts == Init => DiskInv
<1> SUFFICES ASSUME Init PROVE DiskInv
  OBVIOUS
<1>1. Kept
  BY PairsAreNumbered, LinkIsNoPair DEF Init, Kept, Manifest, LegacyFiles, Names, Damaged, Mishaps
<1>2. Flow
  BY NobodyCalls DEF Init, Flow, Holder, Fetching, Locked, Writing
<1> QED
  BY <1>1, <1>2, TypesStart DEF DiskInv

LEMMA NextKeepsDiskInv == DiskInv /\ [Next]_vars => DiskInv'
<1> SUFFICES ASSUME DiskInv, [Next]_vars PROVE DiskInv'
  OBVIOUS
<1>1. TypeOK'
  BY NextKeepsTypes DEF DiskInv
<1>2. Kept' /\ Flow'
  <2>1. CASE \E c \in Caller : Call(c) \/ Step(c) \/ Crash(c) \/ WriteFails(c)
    BY <2>1, LookKeepsDisk, QuietKeepsDisk, RepairKeepsDisk, WriteFileKeepsDisk,
       WriteManifestKeepsDisk, WriteLinksKeepDisk DEF Step
  <2>2. CASE DamageFile \/ DamageManifest
    BY <2>2, DamageKeepsDisk
  <2>3. CASE Issue \/ (\E g \in Pair : Age(g)) \/ UNCHANGED vars
    BY <2>3, ElsewhereKeepsDisk
  <2> QED
    BY <2>1, <2>2, <2>3 DEF Next
<1> QED
  BY <1>1, <1>2 DEF DiskInv

-----------------------------------------------------------------------------
(* When what is held is due.                                               *)

Bearable == Refused < 3 /\ Damaged < 2
HeldIsDue == Held = None \/ Due(Held)

\* About to publish, or to miss and then publish, what was fetched.
Replacing(c) ==
  /\ fetched[c] # None
  /\ \/ pc[c] = "missed"
     \/ pc[c] \in {"file", "manifest"} /\ task[c] = "publish"

\* A pair of an older build is still not published only because writes were refused.
OldBuild(c) ==
  /\ purpose[c] = "ensure" => Refused > 0
  /\ fetched[c] # None \/ pc[c] = "fetch" => Refused > 1
  /\ pc[c] = "missed" => Refused > 0 /\ (purpose[c] = "ensure" => Refused > 1)
  /\ Replacing(c) => Refused > 2

Renewing ==
  /\ Bearable =>
       /\ manifest.previous # None /\ file[manifest.previous] = "whole" =>
            Due(manifest.previous) /\ manifest.previous < manifest.current
       /\ \A c \in Caller :
            /\ Replacing(c) => HeldIsDue
            /\ pc[c] \in Writing /\ task[c] = "repair" => Due(todo[c])
            /\ pc[c] \in Linking /\ task[c] = "migrate" /\ fetched[c] # None =>
                 Refused > 1 \/ file[todo[c]] = "damaged"
  /\ manifest.is = "absent" /\ Held # None => \A c \in Caller : OldBuild(c)

-----------------------------------------------------------------------------
(* The names an older build opens.                                         *)

\* While the key is still a file of that build, everything is about its pair.
Halves ==
  Refused = 0 /\ Damaged = 0 /\ legacy["key"] \in Pair =>
    /\ legacy["cert"] \in {legacy["key"], Link}
    /\ legacy["cert"] = Link => alias = legacy["key"] /\ manifest.is = "good"
    /\ manifest.is = "good" => manifest.current = legacy["key"]
    /\ \A c \in Caller :
         /\ fetched[c] = None /\ pc[c] \notin {"missed", "found", "fetch", "repair"}
         /\ pc[c] \in Writing => todo[c] = legacy["key"]

LEMMA HalvesStart == Init => Halves
<1> SUFFICES ASSUME Init PROVE Halves
  OBVIOUS
<1>1. legacy["key"] \in Pair => legacy["cert"] = legacy["key"]
  BY PairsAreNumbered DEF Init, LegacyFiles, Names
<1>2. legacy["key"] # Link
  BY LinkIsNoPair, PairsAreNumbered DEF Init, LegacyFiles, Names
<1> QED
  BY <1>1, <1>2 DEF Init, Halves, Manifest, Writing

LEMMA MishapsGrow ==
  ASSUME TypeOK, [Next]_vars
  PROVE  /\ Refused \in Nat /\ Damaged \in Nat
         /\ Refused' \in {Refused, Refused + 1} /\ Damaged' \in {Damaged, Damaged + 1}
<1>1. World /\ Refused \in Nat /\ Damaged \in Nat
  BY TypeParts, BoundsAreNumbers DEF World, Refused, Damaged, Mishaps
<1>2. CASE \E c \in Caller : Crash(c) \/ WriteFails(c)
  BY <1>1, <1>2, CountKeepsType DEF Crash, WriteFails, Refused, Damaged, Mishaps
<1>3. CASE DamageFile \/ DamageManifest
  BY <1>1, <1>3, DamageIsCounted
<1>4. CASE UNCHANGED mishaps
  BY <1>1, <1>4 DEF Refused, Damaged
<1> QED
  BY <1>2, <1>3, <1>4 DEF Next, Step, Call, Lock, Look, Repair, WriteFile, WriteManifest,
     WriteAlias, WriteLink, Found, Missed, Fetch, Issue, Age, vars

\* What a caller that moves must bring with it.
LEMMA HalvesByCaller ==
  ASSUME DiskInv, Halves, NEW c \in Caller, Alone(c), Refused = 0, Damaged = 0, legacy["key"] \in Pair,
         legacy' = legacy,
         manifest' = manifest \/ (manifest'.is = "good" /\ manifest'.current = legacy["key"]),
         alias' = alias \/ alias' = legacy["key"],
         fetched'[c] = None, pc'[c] \notin {"missed", "found", "fetch", "repair"},
         pc'[c] \in Writing => todo'[c] = legacy["key"]
  PROVE  Halves'
BY DEF Halves, Alone

\* The same for one that leaves the disk alone.
LEMMA HalvesByReader ==
  ASSUME DiskInv, Halves, NEW c \in Caller, Alone(c), Refused = 0, Damaged = 0, legacy["key"] \in Pair,
         legacy' = legacy, manifest' = manifest, alias' = alias,
         fetched'[c] = None, pc'[c] \notin {"missed", "found", "fetch", "repair"},
         pc'[c] \in Writing => todo'[c] = legacy["key"]
  PROVE  Halves'
BY HalvesByCaller

LEMMA HalvesByStep ==
  ASSUME DiskInv, Halves, NEW c \in Caller, Step(c), Refused = 0, Damaged = 0,
         legacy["key"] \in Pair, legacy'["key"] = legacy["key"]
  PROVE  Halves'
<1> DEFINE k == legacy["key"]
<1>1. /\ Attempts /\ Disk /\ (pc[c] \in Locked => Holder(c))
      /\ fetched[c] = None /\ pc[c] \notin {"missed", "found", "fetch", "repair"}
      /\ pc[c] \in Writing => todo[c] = k
      /\ legacy["cert"] \in {k, Link} /\ (legacy["cert"] = Link => alias = k /\ manifest.is = "good")
      /\ manifest.is = "good" => manifest.current = k
  BY TypeParts DEF DiskInv, Flow, Halves
<1>2. (\A g \in Pair : file[g] # "damaged") /\ manifest.is # "damaged" /\ k # None
  BY PairsAreNumbered DEF DiskInv, Kept
<1>3. CASE Lock(c)
  <2>1. pc'[c] = "look" /\ Alone(c) /\ fetched'[c] = None
        /\ legacy' = legacy /\ manifest' = manifest /\ alias' = alias
    BY <1>1, <1>3, GotoAt DEF Lock, disk
  <2>2. pc'[c] \notin Writing
    BY <2>1 DEF Writing
  <2> QED
    BY <2>1, <2>2, HalvesByReader
<1>4. CASE Look(c)
  <2>1. fetched'[c] = None /\ legacy' = legacy /\ manifest' = manifest /\ alias' = alias
    BY <1>1, <1>4 DEF Look, disk
  <2>2. CASE manifest.is = "absent"
    <3>1. LegacyPair = k
      BY <1>1, <2>2 DEF LegacyPair
    <3>2. Work(c, "file", "migrate", k) /\ UNCHANGED <<purpose, fetched>>
      BY <1>2, <1>4, <2>2, <3>1 DEF Look, LookNext
    <3>3. pc'[c] = "file" /\ todo'[c] = k /\ Alone(c)
      BY <1>1, <3>2, WorkAt
    <3> QED
      BY <2>1, <3>3, HalvesByReader
  <2>3. CASE manifest.is = "good"
    <3>1. Whole(manifest.current) /\ manifest.current = k
      BY <1>1, <1>2, <2>3 DEF Whole, DiskInv, Kept, Disk
    <3>2. Work(c, "alias", "refresh", k) /\ UNCHANGED <<purpose, fetched>>
      BY <1>4, <2>3, <3>1 DEF Look, LookNext
    <3>3. pc'[c] = "alias" /\ todo'[c] = k /\ Alone(c)
      BY <1>1, <3>2, WorkAt
    <3> QED
      BY <2>1, <3>3, HalvesByReader
  <2> QED
    BY <1>1, <1>2, <2>2, <2>3 DEF Disk
<1>5. CASE WriteFile(c)
  <2>1. todo[c] = k /\ file[k] # "damaged"
    BY <1>1, <1>2, <1>5 DEF WriteFile, Writing
  <2>2. Goto(c, "manifest") /\ UNCHANGED <<purpose, task, todo, fetched>>
        /\ legacy' = legacy /\ manifest' = manifest /\ alias' = alias
    BY <1>5, <2>1 DEF WriteFile
  <2>3. pc'[c] = "manifest" /\ Alone(c)
    BY <1>1, <2>2, GotoAt
  <2> QED
    BY <1>1, <2>1, <2>2, <2>3, HalvesByReader
<1>6. CASE WriteManifest(c)
  <2>1. /\ todo[c] = k /\ Goto(c, "alias") /\ manifest' = NextManifest(k)
        /\ UNCHANGED <<alias, legacy, purpose, task, todo, fetched>>
    BY <1>1, <1>6 DEF WriteManifest, Writing
  <2>2. manifest' = manifest \/ (manifest'.is = "good" /\ manifest'.current = k)
    BY <2>1 DEF NextManifest, Manifest
  <2>3. pc'[c] = "alias" /\ Alone(c)
    BY <1>1, <2>1, GotoAt
  <2> QED
    BY <1>1, <2>1, <2>2, <2>3, HalvesByCaller
<1>7. CASE WriteAlias(c)
  <2>1. /\ todo[c] = k /\ Goto(c, "cert") /\ alias' = k
        /\ legacy' = legacy /\ manifest' = manifest /\ UNCHANGED <<purpose, task, todo, fetched>>
    BY <1>1, <1>7 DEF WriteAlias, Writing
  <2>2. pc'[c] = "cert" /\ Alone(c)
    BY <1>1, <2>1, GotoAt
  <2> QED
    BY <1>1, <2>1, <2>2, HalvesByCaller
<1>8. CASE WriteLink(c)
  <2>1. pc[c] = "cert"
    BY <1>8, LinkIsNoPair, <1>1 DEF WriteLink, Names, Disk
  <2>2. /\ todo[c] = k /\ Goto(c, "key") /\ legacy'["cert"] = Link
        /\ UNCHANGED <<manifest, alias, purpose, task, todo, fetched>>
    BY <1>1, <1>8, <2>1 DEF WriteLink, Writing, Names, Disk
  <2>3. alias = k /\ manifest.is = "good"
    BY <1>1, <1>2, <2>1, <2>2 DEF Holder, Linking, Locked, Writing
  <2>4. pc'[c] = "key" /\ Alone(c)
    BY <1>1, <2>2, GotoAt
  <2> QED
    BY <1>1, <2>2, <2>3, <2>4 DEF Halves, Alone
<1>9. ~(Repair(c) \/ Found(c) \/ Missed(c) \/ Fetch(c))
  BY <1>1 DEF Repair, Found, Missed, Fetch
<1> QED
  BY <1>3, <1>4, <1>5, <1>6, <1>7, <1>8, <1>9 DEF Step

LEMMA NextKeepsHalves == DiskInv /\ Halves /\ [Next]_vars => Halves'
<1> SUFFICES ASSUME DiskInv, Halves, [Next]_vars, Refused' = 0, Damaged' = 0, legacy'["key"] \in Pair
             PROVE  Halves'
  BY DEF Halves
<1>1. Refused = 0 /\ Damaged = 0 /\ TypeOK /\ Attempts /\ Disk
  BY MishapsGrow, TypeParts DEF DiskInv
<1>2. legacy["key"] \in Pair /\ legacy'["key"] = legacy["key"]
  <2>1. \A n \in Names : legacy'[n] \in {legacy[n], Link}
    BY <1>1 DEF Next, Step, Disk, disk, Call, Crash, WriteFails, DamageFile, DamageManifest, Issue, Age,
       Lock, Look, Repair, WriteFile, WriteManifest, WriteAlias, WriteLink, Found, Missed, Fetch, vars
  <2> QED
    BY <2>1, LinkIsNoPair DEF Names
<1>3. CASE \E c \in Caller : Step(c)
  BY <1>1, <1>2, <1>3, HalvesByStep
<1>4. CASE \E c \in Caller : Call(c)
  <2>1. PICK c \in Caller : Call(c)
    BY <1>4
  <2>2. pc'[c] = "lock" /\ Alone(c) /\ fetched'[c] = None
        /\ legacy' = legacy /\ manifest' = manifest /\ alias' = alias
    BY <1>1, <1>2, <2>1, GotoAt DEF Call, Halves, disk
  <2>3. pc'[c] \notin Writing
    BY <2>2 DEF Writing
  <2> QED
    BY <1>1, <1>2, <2>2, <2>3, HalvesByReader
<1>5. CASE \E c \in Caller : Crash(c)
  <2>1. PICK c \in Caller : EndAs(c, "cached") /\ legacy' = legacy /\ manifest' = manifest /\ alias' = alias
    BY <1>5 DEF Crash, disk
  <2>2. pc'[c] = "idle" /\ Alone(c) /\ fetched'[c] = None
    BY <1>1, <2>1, EndAt
  <2>3. pc'[c] \notin Writing
    BY <2>2 DEF Writing
  <2> QED
    BY <1>1, <1>2, <2>1, <2>2, <2>3, HalvesByReader
<1>6. ~(\E c \in Caller : WriteFails(c))
  BY <1>1, CountKeepsType, TypeParts DEF WriteFails, Refused, Mishaps
<1>7. ~(DamageFile \/ DamageManifest)
  BY <1>1, DamageIsCounted
<1>8. CASE Issue \/ (\E g \in Pair : Age(g)) \/ UNCHANGED vars
  BY <1>1, <1>2, <1>8 DEF Halves, Issue, Age, vars, disk, calls
<1> QED
  BY <1>3, <1>4, <1>5, <1>6, <1>7, <1>8 DEF Next

LEMMA DiskInvHolds == Spec => []DiskInv
BY DiskInvStarts, NextKeepsDiskInv, PTL DEF Spec

\* What an older build opens by the two fixed names are never halves of two
\* pairs (state.go:160), wherever any number of crashes cut a publication short;
\* refused writes and damage aside.
THEOREM HalvesMatch == Spec => []HalvesAgree
<1>1. DiskInv /\ Halves => HalvesAgree
  <2> SUFFICES ASSUME DiskInv, Halves, Refused = 0, Damaged = 0,
                      Shown("cert") # None, Shown("key") # None
               PROVE  Shown("cert") = Shown("key")
    BY DEF HalvesAgree, Refused, Damaged
  <2>1. legacy["cert"] \in Pair \cup {None, Link} /\ legacy["key"] \in Pair \cup {None, Link}
    BY DEF DiskInv, TypeOK, Names
  <2>2. CASE legacy["key"] = Link
    BY <2>2 DEF DiskInv, Kept, Shown
  <2>3. CASE legacy["key"] \in Pair
    BY <2>3, LinkIsNoPair DEF Halves, Shown
  <2> QED
    BY <2>1, <2>2, <2>3, LinkIsNoPair DEF Shown
<1> QED
  BY <1>1, HalvesStart, NextKeepsHalves, DiskInvHolds, PTL DEF Spec

-----------------------------------------------------------------------------
(* What is held, as the writes and the damages change it.                  *)

HeldIs ==
  /\ manifest.is \in {"absent", "damaged", "good"} /\ Held \in Pair \cup {None}
  /\ manifest.is = "absent" =>
       Held = IF LegacyPair # None /\ file[LegacyPair] # "damaged" THEN LegacyPair ELSE None
  /\ manifest.is = "damaged" => Held = None
  /\ manifest.is = "good" =>
       Held = IF Whole(manifest.current) THEN manifest.current
              ELSE IF Whole(manifest.previous) THEN manifest.previous ELSE None

LEMMA HeldByCase == Disk => HeldIs
<1> SUFFICES ASSUME Disk PROVE HeldIs
  OBVIOUS
<1>1. manifest.is \in {"absent", "damaged", "good"} /\ LegacyPair \in Pair \cup {None}
      /\ manifest.current \in Pair \cup {None} /\ manifest.previous \in Pair \cup {None}
  BY LegacyPairIsPair DEF Disk
<1>2. CASE manifest.is = "absent"
  BY <1>1, <1>2 DEF HeldIs, Held
<1>3. CASE manifest.is = "damaged"
  BY <1>1, <1>3 DEF HeldIs, Held
<1>4. CASE manifest.is = "good"
  BY <1>1, <1>4 DEF HeldIs, Held
<1> QED
  BY <1>1, <1>2, <1>3, <1>4

LEMMA HeldByCaseNext == Disk' => HeldIs'
BY HeldByCase, PTL

LEMMA HeldStays == UNCHANGED disk => Held' = Held
BY DEF disk, Held, LegacyPair, Whole

\* Held is due, at worst by way of the generation before: while the current one
\* is due, or lost.
LEMMA CurrentDecides ==
  ASSUME DiskInv, Renewing, Bearable, manifest.is # "absent",
         manifest.current # None /\ file[manifest.current] = "whole" => Due(manifest.current)
  PROVE  HeldIsDue
<1>1. HeldIs
  BY HeldByCase, TypeParts DEF DiskInv
<1> QED
  BY <1>1 DEF HeldIs, HeldIsDue, Renewing, Whole

\* Repair points the manifest at what was already held.
LEMMA RepairKeepsHeld == \A c \in Caller : DiskInv /\ Bearable /\ Repair(c) => Held' = Held
<1> SUFFICES ASSUME NEW c \in Caller, DiskInv, Bearable, Repair(c) PROVE Held' = Held
  OBVIOUS
<1>1. Holder(c) /\ HeldIs /\ HeldIs' /\ pc[c] = "repair"
  BY HeldByCase, HeldByCaseNext, NextKeepsTypes, TypeParts, StepKeepsTypes
     DEF DiskInv, Flow, Repair, Locked, Writing, Step, TypeOK, Disk
<1>2. manifest.is = "good" /\ manifest.previous = todo[c] /\ file[manifest.current] = "damaged"
      /\ Damaged \in Nat
  BY <1>1, TypeParts, BoundsAreNumbers DEF Holder, Bearable, DiskInv, World, Damaged, Mishaps
<1>3. manifest'.is = "good" /\ manifest'.current = todo[c] /\ manifest'.previous = None /\ file' = file
  BY DEF Repair, Manifest
<1> QED
  BY <1>1, <1>2, <1>3 DEF HeldIs, Whole

\* A generation's file is written before anything names it.
LEMMA WriteFileKeepsHeld == \A c \in Caller : DiskInv /\ WriteFile(c) => Held' = Held
<1> SUFFICES ASSUME NEW c \in Caller, DiskInv, WriteFile(c) PROVE Held' = Held
  OBVIOUS
<1>1. Holder(c) /\ Disk /\ HeldIs /\ HeldIs' /\ todo[c] \in Pair
  BY HeldByCase, HeldByCaseNext, TypeParts, StepKeepsTypes
     DEF DiskInv, Flow, WriteFile, Locked, Writing, Step, TypeOK, Disk, Holder
<1>2. UNCHANGED <<manifest, legacy>> /\ LegacyPair' = LegacyPair
  BY DEF WriteFile, LegacyPair
<1>3. CASE file[todo[c]] = "damaged"
  BY <1>1, <1>2, <1>3, HeldStays DEF WriteFile, disk
<1>4. CASE file[todo[c]] # "damaged"
  <2>1. \A g \in Pair : /\ file[g] = "damaged" <=> file'[g] = "damaged"
                        /\ file[g] # "absent" => file'[g] = file[g]
    BY <1>1, <1>4 DEF WriteFile, Disk
  <2>2. /\ manifest.current # None => file[manifest.current] # "absent" /\ manifest.current \in Pair
        /\ manifest.previous # None => file[manifest.previous] # "absent" /\ manifest.previous \in Pair
    BY <1>1 DEF DiskInv, Kept, Disk
  <2>3. LegacyPair \in Pair \cup {None}
    BY <1>1, LegacyPairIsPair
  <2> QED
    BY <1>1, <1>2, <2>1, <2>2, <2>3 DEF HeldIs, Whole
<1> QED
  BY <1>3, <1>4

\* The links come after the manifest.
LEMMA LinksKeepHeld == \A c \in Caller : DiskInv /\ (WriteAlias(c) \/ WriteLink(c)) => Held' = Held
<1> SUFFICES ASSUME NEW c \in Caller, DiskInv, WriteAlias(c) \/ WriteLink(c) PROVE Held' = Held
  OBVIOUS
<1>1. Holder(c) /\ pc[c] \in Linking /\ UNCHANGED <<file, manifest>>
  BY DEF DiskInv, Flow, WriteAlias, WriteLink, Names, Linking, Locked, Writing
<1>2. HeldIs /\ HeldIs'
  BY HeldByCase, HeldByCaseNext, TypeParts, StepKeepsTypes DEF DiskInv, Step, TypeOK, Disk
<1> QED
  BY <1>1, <1>2 DEF HeldIs, Holder, Whole

\* Only the manifest replaces what is held: by a later pair that is not due.
LEMMA ManifestReplaces ==
  \A c \in Caller : DiskInv /\ Renewing /\ Bearable /\ WriteManifest(c) =>
    \/ Held' = Held
    \/ /\ Held' \in Pair /\ ~Due(Held')
       /\ Held # None => Due(Held) /\ Held < Held'
<1> SUFFICES ASSUME NEW c \in Caller, DiskInv, Renewing, Bearable, WriteManifest(c)
             PROVE  \/ Held' = Held
                    \/ /\ Held' \in Pair /\ ~Due(Held')
                       /\ Held # None => Due(Held) /\ Held < Held'
  OBVIOUS
<1> DEFINE g == todo[c]
<1>1. Holder(c) /\ Fetching(c) /\ HeldIs /\ HeldIs' /\ Disk /\ pc[c] = "manifest" /\ g \in Pair
      /\ file[g] # "absent" /\ file' = file /\ manifest' = NextManifest(g)
  BY HeldByCase, HeldByCaseNext, TypeParts, StepKeepsTypes
     DEF DiskInv, Flow, WriteManifest, Locked, Writing, Linking, Step, TypeOK, Disk, Holder
<1>2. Damaged \in Nat /\ Damaged < 2 /\ Refused \in Nat /\ Refused < 3
  BY TypeParts, BoundsAreNumbers DEF Bearable, DiskInv, World, Damaged, Refused, Mishaps
<1>3. CASE manifest.current = g
  <2>1. manifest' = manifest
    BY <1>1, <1>3 DEF NextManifest
  <2>2. manifest.is = "good"
    BY <1>1, <1>3, PairsAreNumbered DEF DiskInv, Kept, HeldIs
  <2> QED
    BY <1>1, <2>1, <2>2 DEF HeldIs, Whole
<1>4. CASE manifest.current # g
  <2>1. manifest'.is = "good" /\ manifest'.current = g /\ manifest'.previous = manifest.current
    BY <1>1, <1>4 DEF NextManifest, Manifest
  <2>2. g # None /\ file[g] \in {"whole", "damaged"}
    BY <1>1, PairsAreNumbered DEF Disk
  <2>3. CASE task[c] = "migrate" /\ manifest.is = "absent" /\ LegacyPair = g
    <3>1. manifest.current = None
      BY <2>3 DEF DiskInv, Kept
    <3> QED
      BY <1>1, <2>1, <2>2, <2>3, <3>1 DEF HeldIs, Whole
  <2>4. CASE task[c] = "publish" /\ fetched[c] = g
    <3>1. ~Due(g) /\ Replacing(c) /\ HeldIsDue
      BY <1>1, <2>2, <2>4 DEF Fetching, Replacing, Renewing
    <3>2. CASE file[g] = "whole"
      <4>1. Held' = g /\ Due(Held') = Due(g)
        BY <1>1, <2>1, <2>2, <3>2 DEF HeldIs, Whole, Due
      <4>2. Held # None => Held < g
        <5>1. SUFFICES ASSUME Held \in Pair, Due(Held), ~(Held < g) PROVE FALSE
          BY <1>1, <3>1 DEF HeldIs, HeldIsDue
        <5>2. Held = g \/ g < Held
          <6>1. g \in Nat /\ Held \in Nat
            BY <1>1, <5>1, PairsAreNumbered
          <6> HIDE DEF g
          <6> QED
            BY <5>1, <6>1
        <5>3. remaining[g] <= remaining[Held] /\ remaining[g] \in 0..2 /\ remaining[Held] \in 0..2
          BY <1>1, <5>1, <5>2 DEF DiskInv, Kept, TypeOK
        <5> QED
          BY <3>1, <5>1, <5>3 DEF Due
      <4> QED
        BY <1>1, <3>1, <4>1, <4>2 DEF HeldIsDue
    <3>3. CASE file[g] = "damaged"
      <4>1. Held' = IF Whole(manifest.current) THEN manifest.current ELSE None
        BY <1>1, <2>1, <2>2, <3>3 DEF HeldIs, Whole
      <4>2. CASE manifest.is = "absent"
        <5>1. Held = None
          BY <1>2, <3>1, <4>2 DEF Renewing, OldBuild
        <5> QED
          BY <4>1, <4>2, <5>1 DEF DiskInv, Kept, Whole
      <4>3. CASE manifest.is = "damaged"
        BY <1>1, <4>1, <4>3 DEF DiskInv, Kept, Whole, HeldIs
      <4>4. CASE manifest.is = "good"
        <5>1. Whole(manifest.current)
          <6>1. /\ manifest.current \in Pair /\ file[manifest.current] # "absent"
                /\ file[g] = "damaged" /\ file[manifest.current] = "damaged" => Damaged > 1
            BY <1>1, <1>4, <4>4 DEF DiskInv, Kept
          <6>2. file[manifest.current] # "damaged"
            BY <1>2, <3>3, <6>1
          <6> QED
            BY <1>1, <6>1, <6>2, PairsAreNumbered DEF Whole, Disk
        <5> QED
          BY <1>1, <4>1, <4>4, <5>1 DEF HeldIs
      <4> QED
        BY <1>1, <4>2, <4>3, <4>4 DEF HeldIs
    <3> QED
      BY <2>2, <3>2, <3>3
  <2> QED
    BY <1>1, <2>3, <2>4 DEF Holder
<1> QED
  BY <1>3, <1>4

\* Damage takes what is held back to the generation before, or to none.
LEMMA DamageLoses ==
  ASSUME DiskInv, Renewing, Bearable, DamageFile \/ DamageManifest
  PROVE  /\ Held' \in {Held, None} \cup {g \in Pair : Held # None /\ g < Held}
         /\ HeldIsDue => Held' = None \/ Due(Held')
         /\ manifest.is = "absent" => Held' \in {Held, None}
<1>1. Disk /\ HeldIs /\ HeldIs' /\ UNCHANGED <<legacy, remaining>> /\ LegacyPair' = LegacyPair
  BY HeldByCase, HeldByCaseNext, TypeParts, OtherKeepsTypes
     DEF DiskInv, TypeOK, Disk, DamageFile, DamageManifest, LegacyPair
<1>2. CASE DamageManifest
  <2>1. manifest.is = "good" /\ manifest'.is = "damaged"
    BY <1>2 DEF DamageManifest, Manifest
  <2> QED
    BY <1>1, <2>1 DEF HeldIs
<1>3. CASE DamageFile
  <2>1. UNCHANGED manifest /\ \A g \in Pair : file'[g] \in {file[g], "damaged"}
    BY <1>1, <1>3 DEF DamageFile, Disk
  <2>2. LegacyPair \in Pair \cup {None} /\ manifest.current \in Pair \cup {None}
        /\ manifest.previous \in Pair \cup {None}
    BY <1>1, LegacyPairIsPair DEF Disk
  <2>3. CASE manifest.is = "absent"
    BY <1>1, <2>1, <2>2, <2>3 DEF HeldIs, HeldIsDue, Due
  <2>4. CASE manifest.is = "damaged"
    BY <1>1, <2>1, <2>4 DEF HeldIs
  <2>5. CASE manifest.is = "good"
    <3>1. Whole(manifest.current)' => Whole(manifest.current)
      BY <2>1, <2>2 DEF Whole
    <3>2. Whole(manifest.previous)' => Whole(manifest.previous)
      BY <2>1, <2>2 DEF Whole
    <3>3. Whole(manifest.previous) => Due(manifest.previous) /\ manifest.previous < manifest.current
      BY DEF Renewing, Whole
    <3>4. Whole(manifest.previous) => manifest.previous \in Pair /\ manifest.current # None
      BY <2>2, <2>5, PairsAreNumbered DEF Whole, DiskInv, Kept
    <3> QED
      BY <1>1, <2>1, <2>5, <3>1, <3>2, <3>3, <3>4 DEF HeldIs, HeldIsDue, Due
  <2> QED
    BY <1>1, <2>3, <2>4, <2>5 DEF HeldIs
<1> QED
  BY <1>2, <1>3

-----------------------------------------------------------------------------
(* When what is held is due: the steps of Renewing.                        *)

\* What Renewing asks of one caller.
CallerRenews(c) ==
  /\ Replacing(c) => HeldIsDue
  /\ pc[c] \in Writing /\ task[c] = "repair" => Due(todo[c])
  /\ pc[c] \in Linking /\ task[c] = "migrate" /\ fetched[c] # None =>
       Refused > 1 \/ file[todo[c]] = "damaged"

PreviousIsDue ==
  manifest.previous # None /\ file[manifest.previous] = "whole" =>
    Due(manifest.previous) /\ manifest.previous < manifest.current

LEMMA RenewingParts ==
  Renewing <=> /\ Bearable => PreviousIsDue /\ \A c \in Caller : CallerRenews(c)
               /\ manifest.is = "absent" /\ Held # None => \A c \in Caller : OldBuild(c)
BY DEF Renewing, PreviousIsDue, CallerRenews

LEMMA RenewingPartsNext ==
  Renewing' <=> /\ Bearable' => PreviousIsDue' /\ \A c \in Caller : CallerRenews(c)'
                /\ manifest'.is = "absent" /\ Held' # None => \A c \in Caller : OldBuild(c)'
BY DEF Renewing, PreviousIsDue, CallerRenews

LEMMA BearableBefore ==
  ASSUME TypeOK, [Next]_vars, Bearable'
  PROVE  Bearable /\ Refused \in Nat /\ Damaged \in Nat
BY MishapsGrow DEF Bearable

\* A step that leaves the disk alone.
LEMMA RenewingByReader ==
  ASSUME DiskInv, Renewing, [Next]_vars, NEW c \in Caller, Alone(c), UNCHANGED <<disk, remaining>>,
         Bearable /\ Bearable' => CallerRenews(c)',
         manifest.is = "absent" /\ Held # None => OldBuild(c)'
  PROVE  Renewing'
<1>1. Held' = Held /\ Refused \in Nat /\ Refused' \in {Refused, Refused + 1}
  BY HeldStays, MishapsGrow DEF DiskInv
<1>2. ASSUME Bearable' PROVE PreviousIsDue' /\ \A d \in Caller : CallerRenews(d)'
  <2>1. Bearable /\ PreviousIsDue /\ \A d \in Caller : CallerRenews(d)
    BY <1>2, BearableBefore, RenewingParts DEF DiskInv
  <2>2. PreviousIsDue'
    BY <2>1 DEF PreviousIsDue, Due, disk
  <2>3. ASSUME NEW d \in Caller \ {c} PROVE CallerRenews(d)'
    BY <1>1, <2>1 DEF CallerRenews, Alone, Replacing, HeldIsDue, Due, disk
  <2> QED
    BY <1>2, <2>1, <2>2, <2>3
<1>3. ASSUME manifest'.is = "absent", Held' # None PROVE \A d \in Caller : OldBuild(d)'
  <2>1. manifest.is = "absent" /\ Held # None /\ \A d \in Caller : OldBuild(d)
    BY <1>1, <1>3, RenewingParts DEF disk
  <2>2. ASSUME NEW d \in Caller \ {c} PROVE OldBuild(d)'
    BY <1>1, <2>1 DEF OldBuild, Alone, Replacing
  <2> QED
    BY <2>1, <2>2
<1> QED
  BY <1>2, <1>3, RenewingPartsNext

\* A step of the holder of the lock that writes.
LEMMA RenewingByWriter ==
  ASSUME DiskInv, Renewing, [Next]_vars, NEW c \in Caller, Alone(c), pc[c] \in Locked,
         UNCHANGED <<remaining, mishaps>>,
         Bearable => PreviousIsDue' /\ CallerRenews(c)',
         manifest'.is = "absent" /\ Held' # None => manifest.is = "absent" /\ Held # None /\ OldBuild(c)'
  PROVE  Renewing'
<1>1. Refused' = Refused /\ Damaged' = Damaged
  BY DEF Refused, Damaged
<1>2. \A d \in Caller \ {c} : pc'[d] = pc[d] /\ pc[d] \notin Locked
  BY DEF Alone, DiskInv, TypeOK
<1>3. \A d \in Caller \ {c} : CallerRenews(d)'
  BY <1>2 DEF CallerRenews, Replacing, Linking, Locked, Writing
<1>4. ASSUME Bearable' PROVE PreviousIsDue' /\ \A d \in Caller : CallerRenews(d)'
  BY <1>1, <1>3, <1>4 DEF Bearable
<1>5. ASSUME manifest'.is = "absent", Held' # None PROVE \A d \in Caller : OldBuild(d)'
  <2>1. OldBuild(c)' /\ \A d \in Caller : OldBuild(d)
    BY <1>5, RenewingParts
  <2>2. ASSUME NEW d \in Caller \ {c} PROVE OldBuild(d)'
    BY <1>1, <2>1 DEF OldBuild, Alone, Replacing
  <2> QED
    BY <2>1, <2>2
<1> QED
  BY <1>4, <1>5, RenewingPartsNext

\* Damage, the broker and time leave the callers alone.
LEMMA RenewingByWorld ==
  ASSUME DiskInv, Renewing, DamageFile \/ DamageManifest \/ Issue \/ (\E g \in Pair : Age(g)) \/ UNCHANGED vars
  PROVE  Renewing'
<1>1. UNCHANGED <<calls, lock, legacy>> /\ [Next]_vars /\ Disk /\ Refused' = Refused
  BY TypeParts, DamageIsCounted
     DEF DiskInv, DamageFile, DamageManifest, Issue, Age, vars, disk, Next, Refused
<1>2. \A g \in Pair : Due(g) => Due(g)'
  <2>1. CASE \E g \in Pair : Age(g)
    <3>1. PICK g \in Pair : Age(g)
      BY <2>1
    <3>2. /\ remaining'[g] = remaining[g] - 1 /\ \A h \in Pair \ {g} : remaining'[h] = remaining[h]
          /\ remaining[g] \in 0..2
      BY <3>1 DEF DiskInv, TypeOK, Age
    <3> QED
      BY <3>2 DEF Due
  <2>2. CASE UNCHANGED remaining
    BY <2>2 DEF Due
  <2> QED
    BY <2>1, <2>2 DEF DamageFile, DamageManifest, Issue, vars
<1>3. /\ manifest' = manifest \/ (manifest'.previous = None /\ manifest'.is = "damaged")
      /\ \A g \in Pair : file'[g] \in {file[g], "damaged"}
  <2>1. CASE DamageFile
    <3>1. PICK g \in Pair : file' = [file EXCEPT ![g] = "damaged"]
      BY <2>1 DEF DamageFile
    <3> QED
      BY <1>1, <2>1, <3>1 DEF DamageFile, Disk
  <2>2. CASE DamageManifest
    BY <2>2 DEF DamageManifest, Manifest
  <2>3. CASE UNCHANGED disk
    BY <2>3 DEF disk
  <2> QED
    BY <2>1, <2>2, <2>3 DEF Issue, Age, vars
<1>4. ASSUME Bearable' PROVE PreviousIsDue' /\ \A d \in Caller : CallerRenews(d)'
  <2>1. Bearable /\ PreviousIsDue /\ \A d \in Caller : CallerRenews(d)
    BY <1>1, <1>4, BearableBefore, RenewingParts DEF DiskInv
  <2>2. manifest.previous \in Pair \cup {None}
    BY <1>1 DEF Disk
  <2>3. PreviousIsDue'
    BY <1>2, <1>3, <2>1, <2>2 DEF PreviousIsDue, Due
  <2>4. HeldIsDue => HeldIsDue'
    <3>1. CASE DamageFile \/ DamageManifest
      <4>1. UNCHANGED remaining /\ (HeldIsDue => Held' = None \/ Due(Held'))
        BY <2>1, <3>1, DamageLoses DEF DamageFile, DamageManifest
      <4> QED
        BY <4>1 DEF HeldIsDue, Due
    <3>2. CASE UNCHANGED disk
      <4>1. Held' = Held /\ Held \in Pair \cup {None}
        BY <1>1, <3>2, HeldStays, HeldByCase DEF HeldIs
      <4> QED
        BY <1>2, <4>1 DEF HeldIsDue, Due
    <3> QED
      BY <3>1, <3>2 DEF Issue, Age, vars
  <2>5. ASSUME NEW d \in Caller PROVE CallerRenews(d)'
    <3>1. Replacing(d)' <=> Replacing(d)
      BY <1>1 DEF Replacing, calls
    <3>2. pc[d] \in Writing => todo[d] \in Pair
      BY DEF DiskInv, Flow, Holder, Locked
    <3>3. pc'[d] = pc[d] /\ task'[d] = task[d] /\ todo'[d] = todo[d] /\ fetched'[d] = fetched[d]
      BY <1>1 DEF calls
    <3>4. Linking \subseteq Writing
      BY DEF Linking, Writing
    <3> QED
      BY <1>1, <1>2, <1>3, <2>1, <2>4, <3>1, <3>2, <3>3, <3>4 DEF CallerRenews, Due
  <2> QED
    BY <2>3, <2>5
<1>5. ASSUME manifest'.is = "absent", Held' # None PROVE \A d \in Caller : OldBuild(d)'
  <2>1. manifest.is = "absent"
    BY <1>3, <1>5
  <2>2. Held # None
    <3>1. CASE UNCHANGED disk
      BY <1>5, <3>1, HeldStays
    <3>2. CASE DamageFile
      <4>1. HeldIs /\ HeldIs' /\ UNCHANGED <<manifest, legacy>>
        BY <1>1, <3>2, HeldByCase, HeldByCaseNext, TypeParts, OtherKeepsTypes DEF DiskInv, DamageFile,
           TypeOK, Disk
      <4>2. LegacyPair' = LegacyPair /\ LegacyPair \in Pair \cup {None}
        BY <1>1, <4>1, LegacyPairIsPair DEF LegacyPair
      <4> QED
        BY <1>3, <1>5, <2>1, <4>1, <4>2 DEF HeldIs
    <3>3. CASE DamageManifest
      BY <1>5, <3>3 DEF DamageManifest, Manifest
    <3> QED
      BY <3>1, <3>2, <3>3 DEF Issue, Age, vars
  <2> QED
    BY <1>1, <2>1, <2>2, RenewingParts DEF OldBuild, Replacing, calls
<1> QED
  BY <1>4, <1>5, RenewingPartsNext

\* A refused write leaves an attempt that had fetched with a pair that is due,
\* or counts as one write too many.
LEMMA FailedRenews ==
  ASSUME DiskInv, Renewing, NEW c \in Caller, pc[c] \in Writing, Failed(c),
         UNCHANGED <<disk, remaining>>,
         \/ Refused' = Refused + 1
         \/ pc[c] = "file" /\ file[todo[c]] = "damaged" /\ Refused' = Refused
  PROVE  /\ Bearable /\ Bearable' => CallerRenews(c)'
         /\ manifest.is = "absent" /\ Held # None => OldBuild(c)'
<1>1. Attempts /\ Disk /\ Holder(c) /\ Fetching(c) /\ HeldIs /\ pc[c] \in Locked /\ todo[c] \in Pair
  BY TypeParts, HeldByCase DEF DiskInv, Flow, Locked, Holder
<1>2. Refused \in Nat /\ Damaged \in Nat
  BY TypeParts, BoundsAreNumbers DEF DiskInv, World, Refused, Damaged, Mishaps
<1>3. Held' = Held
  BY HeldStays
<1>4. CASE task[c] = "refresh"
  <2>1. pc'[c] = "found" /\ UNCHANGED <<purpose, fetched>>
    BY <1>1, <1>4, FailedAt
  <2>2. CallerRenews(c)'
    BY <2>1 DEF CallerRenews, Replacing, Linking, Writing
  <2>3. OldBuild(c) => OldBuild(c)'
    BY <1>2, <2>1 DEF OldBuild, Replacing
  <2> QED
    BY <2>2, <2>3, RenewingParts
<1>5. CASE task[c] = "publish"
  <2>1. pc'[c] = "idle" /\ fetched'[c] = None /\ purpose'[c] = "ensure"
    BY <1>1, <1>5, FailedAt
  <2>2. CallerRenews(c)'
    BY <2>1 DEF CallerRenews, Replacing, Linking, Writing
  <2>3. manifest.is = "absent" /\ Held # None => Refused' > 0
    <3>1. SUFFICES ASSUME manifest.is = "absent", Held # None, pc[c] = "file" PROVE Refused > 0
      BY <1>2
    <3>2. Replacing(c)
      BY <1>1, <1>5, <3>1, PairsAreNumbered DEF Holder, Replacing
    <3> QED
      BY <1>2, <3>1, <3>2 DEF Renewing, OldBuild
  <2> QED
    BY <2>1, <2>2, <2>3 DEF OldBuild, Replacing
<1>6. CASE task[c] \in {"repair", "migrate"}
  <2>1. pc'[c] = "missed" /\ UNCHANGED <<purpose, fetched>>
    BY <1>1, <1>6, FailedAt
  <2>2. ASSUME Bearable, Bearable', fetched[c] # None PROVE HeldIsDue
    <3>1. CASE pc[c] \in Linking
      <4>1. Bearable' => Refused' < 3 /\ Refused' = Refused + 1
        BY <3>1 DEF Bearable, Linking
      <4>2. Due(todo[c]) \/ file[todo[c]] = "damaged"
        BY <1>2, <1>6, <2>2, <3>1, <4>1 DEF Renewing, Linking, Writing
      <4>3. manifest.is # "absent" /\ (manifest.current # None => manifest.current = todo[c])
        BY <1>1, <3>1 DEF Holder, DiskInv, Kept
      <4> QED
        BY <1>1, <2>2, <4>2, <4>3, CurrentDecides
    <3>2. CASE pc[c] = "repair"
      <4>1. manifest.is = "good" /\ file[manifest.current] = "damaged"
        BY <1>1, <1>2, <2>2, <3>2 DEF Holder, Bearable
      <4> QED
        BY <2>2, <4>1, CurrentDecides
    <3>3. CASE pc[c] \in {"file", "manifest"}
      <4>1. manifest.is = "absent" /\ LegacyPair = todo[c]
        BY <1>1, <1>6, <3>3 DEF Holder
      <4>2. CASE Held # None
        <5>1. Refused > 1
          BY <2>2, <4>1, <4>2 DEF Renewing, OldBuild
        <5>2. file[todo[c]] # "damaged"
          BY <1>1, <4>1, <4>2 DEF HeldIs
        <5> QED
          BY <1>2, <2>2, <5>1, <5>2 DEF Bearable
      <4> QED
        BY <4>2 DEF HeldIsDue
    <3> QED
      BY <3>1, <3>2, <3>3 DEF Writing, Linking
  <2>3. Bearable /\ Bearable' => CallerRenews(c)'
    BY <1>3, <2>1, <2>2 DEF CallerRenews, Replacing, HeldIsDue, Due, Linking, Writing
  <2>4. ASSUME manifest.is = "absent", Held # None PROVE OldBuild(c)'
    <3>1. Refused' = Refused + 1
      <4>1. SUFFICES ASSUME pc[c] = "file", file[todo[c]] = "damaged" PROVE FALSE
        OBVIOUS
      <4>2. LegacyPair = todo[c]
        BY <1>1, <1>6, <4>1 DEF Holder
      <4> QED
        BY <1>1, <2>4, <4>1, <4>2 DEF HeldIs
    <3>2. OldBuild(c)
      BY <2>4 DEF Renewing
    <3>3. fetched[c] # None => Refused > 1
      BY <3>2 DEF OldBuild
    <3>4. purpose[c] = "ensure" => Refused > 0
      BY <3>2 DEF OldBuild
    <3> QED
      BY <1>2, <2>1, <3>1, <3>3, <3>4 DEF OldBuild, Replacing
  <2> QED
    BY <2>3, <2>4
<1> QED
  BY <1>1, <1>4, <1>5, <1>6 DEF Attempts, Tasks

LEMMA LookRenews == \A c \in Caller : DiskInv /\ Renewing /\ Look(c) => Renewing'
<1> SUFFICES ASSUME NEW c \in Caller, DiskInv, Renewing, Look(c) PROVE Renewing'
  OBVIOUS
<1>1. /\ Attempts /\ HeldIs /\ LookNext(c) /\ [Next]_vars /\ pc[c] = "look"
      /\ UNCHANGED <<disk, lock, purpose, fetched, remaining, mishaps>>
  BY TypeParts, HeldByCase DEF DiskInv, Look, Next, Step
<1>2. Held' = Held /\ Refused' = Refused
  BY <1>1, HeldStays DEF Refused
<1>3. CASE manifest.is = "absent" /\ LegacyPair # None
  <2>1. Work(c, "file", "migrate", LegacyPair)
    BY <1>1, <1>3 DEF LookNext
  <2>2. pc'[c] = "file" /\ task'[c] = "migrate" /\ Alone(c)
    BY <1>1, <2>1, WorkAt
  <2>3. CallerRenews(c)' /\ (OldBuild(c) => OldBuild(c)')
    BY <1>1, <1>2, <2>2 DEF CallerRenews, Replacing, Linking, OldBuild
  <2> QED
    BY <1>1, <2>2, <2>3, RenewingByReader, RenewingParts
<1>4. CASE manifest.is = "good" /\ Whole(manifest.current)
  <2>1. Work(c, "alias", "refresh", manifest.current)
    BY <1>1, <1>4 DEF LookNext
  <2>2. pc'[c] = "alias" /\ task'[c] = "refresh" /\ Alone(c)
    BY <1>1, <2>1, WorkAt
  <2>3. CallerRenews(c)'
    BY <2>2 DEF CallerRenews, Replacing
  <2> QED
    BY <1>1, <1>4, <2>2, <2>3, RenewingByReader
<1>5. CASE manifest.is = "good" /\ ~Whole(manifest.current) /\ Whole(manifest.previous)
  <2>1. Work(c, "repair", "repair", manifest.previous)
    BY <1>1, <1>5 DEF LookNext
  <2>2. pc'[c] = "repair" /\ task'[c] = "repair" /\ todo'[c] = manifest.previous /\ Alone(c)
    BY <1>1, <2>1, WorkAt
  <2>3. Bearable => Due(manifest.previous)
    BY <1>5 DEF Renewing, Whole
  <2>4. Bearable => CallerRenews(c)'
    BY <1>1, <2>2, <2>3 DEF CallerRenews, Replacing, Linking, Due
  <2> QED
    BY <1>1, <1>5, <2>2, <2>4, RenewingByReader
<1>6. CASE /\ ~(manifest.is = "absent" /\ LegacyPair # None)
           /\ ~(manifest.is = "good" /\ Whole(manifest.current))
           /\ ~(manifest.is = "good" /\ ~Whole(manifest.current) /\ Whole(manifest.previous))
  <2>1. Work(c, "missed", "refresh", None)
    BY <1>1, <1>6 DEF LookNext
  <2>2. pc'[c] = "missed" /\ task'[c] = "refresh" /\ Alone(c)
    BY <1>1, <2>1, WorkAt
  <2>3. Held = None
    BY <1>1, <1>6 DEF HeldIs
  <2>4. CallerRenews(c)'
    BY <1>2, <2>2, <2>3 DEF CallerRenews, HeldIsDue
  <2> QED
    BY <1>1, <2>2, <2>3, <2>4, RenewingByReader
<1> QED
  BY <1>3, <1>4, <1>5, <1>6

\* A pair that was found wanting is due; and a fetch follows a miss.
LEMMA QuietRenews ==
  \A c \in Caller : DiskInv /\ Renewing /\ (Call(c) \/ Lock(c) \/ Found(c) \/ Missed(c) \/ Fetch(c)
                                            \/ Crash(c)) => Renewing'
<1> SUFFICES ASSUME NEW c \in Caller, DiskInv, Renewing,
                    Call(c) \/ Lock(c) \/ Found(c) \/ Missed(c) \/ Fetch(c) \/ Crash(c)
             PROVE  Renewing'
  OBVIOUS
<1>1. /\ Attempts /\ Disk /\ HeldIs /\ (pc[c] \in Locked => Holder(c)) /\ Fetching(c) /\ [Next]_vars
      /\ manifest.is = "absent" /\ Held # None => OldBuild(c)
      /\ Bearable => CallerRenews(c)
  BY TypeParts, HeldByCase, RenewingParts DEF DiskInv, Flow, Next, Step
<1>2. UNCHANGED <<disk, remaining>> /\ Held' = Held
  BY HeldStays DEF Call, Lock, Found, Missed, Fetch, Crash
<1>3. Refused' = Refused /\ Refused \in Nat
  <2>1. CASE Crash(c)
    BY <2>1, CountKeepsType, TypeParts, BoundsAreNumbers DEF Crash, DiskInv, World, Refused, Mishaps
  <2>2. CASE UNCHANGED mishaps
    BY <2>2, TypeParts, BoundsAreNumbers DEF DiskInv, World, Refused, Mishaps
  <2> QED
    BY <2>1, <2>2 DEF Call, Lock, Found, Missed, Fetch
<1>4. CASE Call(c) \/ Lock(c)
  <2>1. pc'[c] \in {"lock", "look"} /\ Alone(c) /\ UNCHANGED <<purpose, fetched>>
    BY <1>1, <1>4, GotoAt DEF Call, Lock
  <2>2. CallerRenews(c)' /\ (OldBuild(c) => OldBuild(c)')
    BY <1>3, <2>1 DEF CallerRenews, Replacing, Linking, Writing, OldBuild
  <2> QED
    BY <1>1, <1>2, <2>1, <2>2, RenewingByReader
<1>5. ASSUME NEW next \in {"ensure", "cached"}, EndAs(c, next),
             manifest.is = "absent" /\ Held # None /\ next = "ensure" => Refused > 0
      PROVE  Renewing'
  <2>1. pc'[c] = "idle" /\ fetched'[c] = None /\ purpose'[c] = next /\ Alone(c)
    BY <1>1, <1>5, EndAt
  <2>2. CallerRenews(c)' /\ (manifest.is = "absent" /\ Held # None => OldBuild(c)')
    BY <1>3, <1>5, <2>1 DEF CallerRenews, Replacing, Linking, Writing, OldBuild
  <2> QED
    BY <1>1, <1>2, <2>1, <2>2, RenewingByReader
<1>6. CASE Found(c)
  <2>1. pc[c] = "found" /\ Holder(c)
    BY <1>1, <1>6 DEF Found, Locked
  <2>2. manifest.is # "absent" /\ (manifest.current # None => manifest.current = todo[c])
    BY <2>1 DEF Holder, DiskInv, Kept
  <2>3. CASE End(c)
    BY <1>5, <2>2, <2>3 DEF End
  <2>4. CASE Miss(c) /\ ~Enough(c, todo[c])
    <3>1. pc'[c] = "missed" /\ task'[c] = "refresh" /\ Alone(c) /\ UNCHANGED <<purpose, fetched>>
      BY <1>1, <2>4, WorkAt DEF Miss
    <3>2. ASSUME Bearable, fetched[c] # None PROVE HeldIsDue
      <4>1. Due(todo[c])
        BY <1>1, <2>4, <3>2 DEF Fetching, Enough
      <4> QED
        BY <2>2, <3>2, <4>1, CurrentDecides
    <3>3. Bearable => CallerRenews(c)'
      BY <1>2, <3>1, <3>2 DEF CallerRenews, Replacing, HeldIsDue, Due
    <3> QED
      BY <1>1, <1>2, <2>2, <3>1, <3>3, RenewingByReader
  <2> QED
    BY <1>6, <2>3, <2>4 DEF Found
<1>7. CASE Missed(c)
  <2>1. pc[c] = "missed"
    BY <1>7 DEF Missed
  <2>2. CASE fetched[c] # None
    <3>1. Work(c, "file", "publish", fetched[c]) /\ UNCHANGED <<purpose, fetched>>
      BY <1>7, <2>2 DEF Missed
    <3>2. pc'[c] = "file" /\ task'[c] = "publish" /\ Alone(c)
      BY <1>1, <3>1, WorkAt
    <3>3. Replacing(c)
      BY <2>1, <2>2 DEF Replacing
    <3>4. Bearable => CallerRenews(c)'
      BY <1>1, <1>2, <3>2, <3>3 DEF CallerRenews, HeldIsDue, Due, Linking
    <3>5. OldBuild(c) => OldBuild(c)'
      BY <1>3, <3>1, <3>2, <3>3 DEF OldBuild
    <3> QED
      BY <1>1, <1>2, <3>2, <3>4, <3>5, RenewingByReader
  <2>3. CASE fetched[c] = None /\ purpose[c] = "cached"
    <3>1. End(c)
      BY <1>7, <2>3 DEF Missed
    <3> QED
      BY <1>1, <1>5, <2>1, <3>1 DEF End, OldBuild
  <2>4. CASE fetched[c] = None /\ purpose[c] = "ensure"
    <3>1. Goto(c, "fetch") /\ UNCHANGED <<purpose, task, todo, fetched>>
      BY <1>7, <2>4 DEF Missed
    <3>2. pc'[c] = "fetch" /\ Alone(c)
      BY <1>1, <3>1, GotoAt
    <3>3. CallerRenews(c)' /\ (OldBuild(c) => OldBuild(c)')
      BY <1>3, <2>1, <2>4, <3>1, <3>2 DEF CallerRenews, Replacing, Linking, Writing, OldBuild
    <3> QED
      BY <1>1, <1>2, <3>2, <3>3, RenewingByReader
  <2> QED
    BY <1>1, <2>2, <2>3, <2>4 DEF Attempts
<1>8. CASE Fetch(c)
  <2>1. pc[c] = "fetch"
    BY <1>8 DEF Fetch
  <2>2. CASE Due(issued)
    <3>1. End(c)
      BY <1>8, <2>2 DEF Fetch
    <3>2. OldBuild(c) => Refused > 0
      BY <1>3, <2>1 DEF OldBuild
    <3> QED
      BY <1>1, <1>5, <3>1, <3>2 DEF End
  <2>3. CASE ~Due(issued)
    <3>1. /\ Goto(c, "lock") /\ fetched' = [fetched EXCEPT ![c] = issued]
          /\ UNCHANGED <<purpose, task, todo>>
      BY <1>8, <2>3 DEF Fetch
    <3>2. pc'[c] = "lock" /\ Alone(c)
      BY <1>1, <3>1 DEF Attempts, Goto, Alone
    <3>3. CallerRenews(c)' /\ (OldBuild(c) => OldBuild(c)')
      BY <1>3, <2>1, <3>1, <3>2 DEF CallerRenews, Replacing, Linking, Writing, OldBuild
    <3> QED
      BY <1>1, <1>2, <3>2, <3>3, RenewingByReader
  <2> QED
    BY <2>2, <2>3
<1>9. CASE Crash(c)
  BY <1>5, <1>9 DEF Crash
<1> QED
  BY <1>4, <1>6, <1>7, <1>8, <1>9

LEMMA WriteFailsRenews == \A c \in Caller : DiskInv /\ Renewing /\ WriteFails(c) => Renewing'
<1> SUFFICES ASSUME NEW c \in Caller, DiskInv, Renewing, WriteFails(c) PROVE Renewing'
  OBVIOUS
<1>1. /\ pc[c] \in Writing /\ Failed(c) /\ UNCHANGED <<disk, remaining>> /\ [Next]_vars
      /\ Refused' = Refused + 1 /\ Attempts
  BY CountKeepsType, TypeParts DEF DiskInv, WriteFails, Next, Refused, Mishaps
<1>2. Alone(c)
  BY <1>1, FailedAt
<1> QED
  BY <1>1, <1>2, FailedRenews, RenewingByReader

LEMMA RepairRenews == \A c \in Caller : DiskInv /\ Renewing /\ Repair(c) => Renewing'
<1> SUFFICES ASSUME NEW c \in Caller, DiskInv, Renewing, Repair(c) PROVE Renewing'
  OBVIOUS
<1>1. /\ Attempts /\ pc[c] = "repair" /\ pc[c] \in Locked /\ Holder(c) /\ [Next]_vars
      /\ manifest'.is = "good" /\ manifest'.previous = None /\ Goto(c, "alias")
      /\ UNCHANGED <<file, purpose, task, todo, fetched, remaining, mishaps>>
  BY TypeParts DEF DiskInv, Flow, Repair, Next, Step, Locked, Writing, Manifest
<1>2. pc'[c] = "alias" /\ Alone(c)
  BY <1>1, GotoAt
<1>3. Bearable => PreviousIsDue' /\ CallerRenews(c)'
  <2>1. task[c] = "repair" /\ pc[c] \in Writing
    BY <1>1 DEF Holder, Writing
  <2> QED
    BY <1>1, <1>2, <2>1 DEF PreviousIsDue, CallerRenews, Replacing, Renewing, Due
<1> QED
  BY <1>1, <1>2, <1>3, RenewingByWriter

LEMMA WriteFileRenews == \A c \in Caller : DiskInv /\ Renewing /\ WriteFile(c) => Renewing'
<1> SUFFICES ASSUME NEW c \in Caller, DiskInv, Renewing, WriteFile(c) PROVE Renewing'
  OBVIOUS
<1>1. /\ Attempts /\ Disk /\ pc[c] = "file" /\ pc[c] \in Locked /\ pc[c] \in Writing /\ Holder(c)
      /\ todo[c] \in Pair /\ [Next]_vars /\ UNCHANGED <<manifest, alias, legacy, remaining, mishaps>>
  BY TypeParts DEF DiskInv, Flow, WriteFile, Next, Step, Locked, Writing, Holder
<1>2. Refused' = Refused /\ Held' = Held
  BY WriteFileKeepsHeld DEF WriteFile, Refused
<1>3. CASE file[todo[c]] = "damaged"
  <2>1. Failed(c) /\ UNCHANGED <<disk, remaining>>
    BY <1>1, <1>3 DEF WriteFile, disk
  <2>2. Alone(c)
    BY <1>1, <2>1, FailedAt
  <2> QED
    BY <1>1, <1>2, <1>3, <2>1, <2>2, FailedRenews, RenewingByReader
<1>4. CASE file[todo[c]] # "damaged"
  <2>1. /\ file' = [file EXCEPT ![todo[c]] = "whole"] /\ Goto(c, "manifest")
        /\ UNCHANGED <<purpose, task, todo, fetched>>
    BY <1>4 DEF WriteFile
  <2>2. pc'[c] = "manifest" /\ Alone(c)
    BY <1>1, <2>1, GotoAt
  <2>3. Bearable => PreviousIsDue'
    <3>1. SUFFICES ASSUME Bearable, manifest.previous \in Pair, file'[manifest.previous] = "whole"
                   PROVE  Due(manifest.previous) /\ manifest.previous < manifest.current
      BY <1>1 DEF PreviousIsDue, Disk, Due
    <3>2. file[manifest.previous] # "absent"
      BY <3>1, PairsAreNumbered DEF DiskInv, Kept
    <3>3. file[manifest.previous] = "whole"
      BY <1>1, <1>4, <2>1, <3>1, <3>2 DEF Disk
    <3> QED
      BY <3>1, <3>3, PairsAreNumbered DEF Renewing
  <2>4. Replacing(c)' <=> Replacing(c)
    BY <1>1, <2>1, <2>2 DEF Replacing
  <2>5. Bearable => CallerRenews(c)'
    <3>1. task[c] # "repair"
      BY <1>1 DEF Holder
    <3> QED
      BY <1>1, <1>2, <2>1, <2>2, <2>4, <3>1 DEF CallerRenews, Renewing, HeldIsDue, Due, Linking
  <2>6. OldBuild(c) => OldBuild(c)'
    BY <1>2, <2>1, <2>2, <2>4 DEF OldBuild
  <2> QED
    BY <1>1, <1>2, <2>2, <2>3, <2>5, <2>6, RenewingByWriter, RenewingParts
<1> QED
  BY <1>3, <1>4

\* The generation that a publication leaves behind was held, hence due.
LEMMA WriteManifestRenews == \A c \in Caller : DiskInv /\ Renewing /\ WriteManifest(c) => Renewing'
<1> SUFFICES ASSUME NEW c \in Caller, DiskInv, Renewing, WriteManifest(c) PROVE Renewing'
  OBVIOUS
<1> DEFINE g == todo[c]
<1>1. /\ Attempts /\ Disk /\ HeldIs /\ pc[c] = "manifest" /\ pc[c] \in Locked /\ Holder(c) /\ Fetching(c)
      /\ g \in Pair /\ [Next]_vars /\ manifest' = NextManifest(g) /\ Goto(c, "alias")
      /\ UNCHANGED <<file, purpose, task, todo, fetched, remaining, mishaps>>
  BY TypeParts, HeldByCase DEF DiskInv, Flow, WriteManifest, Next, Step, Locked, Writing, Holder
<1>2. pc'[c] = "alias" /\ Alone(c) /\ task'[c] = task[c]
  BY <1>1, GotoAt
<1>3. manifest'.is = "good"
  BY <1>1, PairsAreNumbered DEF NextManifest, Manifest, DiskInv, Kept, HeldIs
<1>4. Bearable => PreviousIsDue'
  <2> SUFFICES ASSUME Bearable PROVE PreviousIsDue'
    OBVIOUS
  <2>1. CASE manifest.current = g
    BY <1>1, <2>1 DEF NextManifest, PreviousIsDue, Renewing, Due
  <2>2. CASE manifest.current # g
    <3>1. manifest'.previous = manifest.current /\ manifest'.current = g
      BY <1>1, <2>2 DEF NextManifest, Manifest
    <3>2. SUFFICES ASSUME manifest.current \in Pair, file[manifest.current] = "whole"
                   PROVE  Due(manifest.current) /\ manifest.current < g
      BY <1>1, <3>1 DEF PreviousIsDue, Disk, Due
    <3>3. manifest.is = "good" /\ Held = manifest.current /\ Held # None
      BY <1>1, <3>2, PairsAreNumbered DEF DiskInv, Kept, HeldIs, Whole
    <3>4. task[c] = "publish" /\ fetched[c] = g /\ ~Due(g) /\ Due(Held)
      BY <1>1, <3>3, PairsAreNumbered DEF Holder, Fetching, Replacing, Renewing, HeldIsDue
    <3>5. Held < g
      <4>1. Held \in Pair /\ Held \in Nat /\ g \in Nat /\ remaining[Held] \in 0..2 /\ remaining[g] \in 0..2
        BY <1>1, <3>2, <3>3, PairsAreNumbered DEF DiskInv, TypeOK
      <4>2. g < Held => remaining[g] <= remaining[Held]
        BY <1>1, <4>1 DEF DiskInv, Kept
      <4>3. Held # g
        BY <3>4
      <4> HIDE DEF g
      <4> QED
        BY <3>4, <4>1, <4>2, <4>3 DEF Due
    <3> QED
      BY <3>3, <3>4, <3>5
  <2> QED
    BY <2>1, <2>2
<1>5. Bearable => CallerRenews(c)'
  <2>1. task[c] # "repair" /\ ~Replacing(c)'
    BY <1>1, <1>2 DEF Holder, Replacing
  <2>2. ASSUME Bearable, task[c] = "migrate", fetched[c] # None
        PROVE  Refused > 1 \/ file[g] = "damaged"
    <3>1. manifest.is = "absent" /\ LegacyPair = g
      BY <1>1, <2>2 DEF Holder
    <3>2. CASE Held # None
      BY <2>2, <3>1, <3>2 DEF Renewing, OldBuild
    <3>3. CASE Held = None
      BY <1>1, <3>1, <3>3, PairsAreNumbered DEF HeldIs
    <3> QED
      BY <3>2, <3>3
  <2> QED
    BY <1>1, <1>2, <2>1, <2>2 DEF CallerRenews, Refused
<1> QED
  BY <1>1, <1>2, <1>3, <1>4, <1>5, RenewingByWriter

LEMMA WriteLinksRenew == \A c \in Caller : DiskInv /\ Renewing /\ (WriteAlias(c) \/ WriteLink(c)) => Renewing'
<1> SUFFICES ASSUME NEW c \in Caller, DiskInv, Renewing, WriteAlias(c) \/ WriteLink(c) PROVE Renewing'
  OBVIOUS
<1>1. /\ Attempts /\ pc[c] \in Linking /\ pc[c] \in Writing /\ pc[c] \in Locked /\ Holder(c) /\ [Next]_vars
      /\ UNCHANGED <<file, manifest, purpose, task, todo, fetched, remaining, mishaps>>
  BY TypeParts
     DEF DiskInv, Flow, WriteAlias, WriteLink, Names, Next, Step, Linking, Locked, Writing
<1>2. pc'[c] \in {"cert", "key", "found"} /\ Alone(c)
  BY <1>1, GotoAt DEF WriteAlias, WriteLink
<1>3. Bearable => PreviousIsDue' /\ CallerRenews(c)'
  BY <1>1, <1>2 DEF PreviousIsDue, CallerRenews, Replacing, Renewing, Due, Refused
<1>4. manifest.is # "absent"
  BY <1>1 DEF Holder
<1> QED
  BY <1>1, <1>2, <1>3, <1>4, RenewingByWriter

LEMMA NextKeepsRenewing == DiskInv /\ Renewing /\ [Next]_vars => Renewing'
<1> SUFFICES ASSUME DiskInv, Renewing, [Next]_vars PROVE Renewing'
  OBVIOUS
<1>1. CASE \E c \in Caller : Call(c) \/ Step(c) \/ Crash(c) \/ WriteFails(c)
  BY <1>1, LookRenews, QuietRenews, WriteFailsRenews, RepairRenews, WriteFileRenews,
     WriteManifestRenews, WriteLinksRenew DEF Step
<1>2. CASE DamageFile \/ DamageManifest \/ Issue \/ (\E g \in Pair : Age(g)) \/ UNCHANGED vars
  BY <1>2, RenewingByWorld
<1> QED
  BY <1>1, <1>2 DEF Next

LEMMA RenewingStarts == Init => Renewing
BY NobodyCalls DEF Init, Renewing, Manifest, Replacing, OldBuild, Linking, Writing

-----------------------------------------------------------------------------
(* The register.                                                           *)

LEMMA RegisterStarts == Init => Register!Init
<1> SUFFICES ASSUME Init PROVE Register!Init
  OBVIOUS
<1>1. Held \in Pair \cup {None} /\ remaining \in [Pair -> 0..2]
  BY TypesStart, HeldByCase, TypeParts DEF HeldIs, World
<1> QED
  BY <1>1 DEF Init, Register!Init, Mishaps

\* Each step of the files is one step of the register, or none.
LEMMA StepIsRegisters == DiskInv /\ Renewing /\ [Next]_vars => [Register!Next]_Register!vars
<1> SUFFICES ASSUME DiskInv, Renewing, [Next]_vars PROVE [Register!Next]_Register!vars
  OBVIOUS
<1>1. /\ Refused \in Nat /\ Damaged \in Nat /\ Refused' \in Nat /\ Damaged' \in Nat
      /\ Held' \in Pair \cup {None} /\ remaining' \in [Pair -> 0..2]
  <2>1. Disk' /\ World'
    BY NextKeepsTypes DEF DiskInv, TypeOK, Disk, World
  <2> QED
    BY <2>1, MishapsGrow, HeldByCaseNext DEF DiskInv, HeldIs, World
<1>2. CASE UNCHANGED <<disk, remaining, mishaps>>
  BY <1>2, HeldStays DEF Register!vars
<1>3. CASE \E c \in Caller : Crash(c)
  <2>1. UNCHANGED <<disk, remaining>> /\ Refused' = Refused /\ Damaged' = Damaged
    BY <1>3, CountKeepsType, TypeParts DEF Crash, DiskInv, Refused, Damaged, Mishaps
  <2> QED
    BY <2>1, HeldStays DEF Register!vars, Refused, Damaged
<1>4. CASE \E c \in Caller : WriteFails(c)
  <2>1. UNCHANGED <<disk, remaining>> /\ Refused' = Refused + 1 /\ Damaged' = Damaged
    BY <1>4, CountKeepsType, TypeParts DEF WriteFails, DiskInv, Refused, Damaged, Mishaps
  <2> QED
    BY <2>1, HeldStays DEF Register!Next, Register!Refuse, Refused, Damaged
<1>5. CASE ~Bearable
  <2>1. CASE UNCHANGED remaining
    BY <1>1, <1>5, <2>1 DEF Register!Next, Register!Void, Bearable, Refused, Damaged
  <2>2. CASE \E g \in Pair : Age(g)
    <3>1. Held' = Held /\ UNCHANGED mishaps
      BY <2>2, HeldStays DEF Age
    <3> QED
      BY <1>1, <3>1 DEF Register!Next, Register!Age
  <2> QED
    BY <2>1, <2>2 DEF Next, Step, Call, Crash, WriteFails, Lock, Look, Repair, WriteFile, WriteManifest,
       WriteAlias, WriteLink, Found, Missed, Fetch, DamageFile, DamageManifest, Issue, vars
<1>6. CASE Bearable /\ \E c \in Caller : WriteManifest(c)
  <2>1. PICK c \in Caller : WriteManifest(c)
    BY <1>6
  <2>2. UNCHANGED <<remaining, mishaps>>
    BY <2>1 DEF WriteManifest
  <2>3. \/ Held' = Held
        \/ /\ Held' \in Pair /\ ~Due(Held')
           /\ Held # None => Due(Held) /\ Held < Held'
    BY <1>6, <2>1, ManifestReplaces
  <2> QED
    BY <2>2, <2>3 DEF Register!Next, Register!Renew, Register!Due, Register!vars, Due
<1>7. CASE Bearable /\ \E c \in Caller : Repair(c) \/ WriteFile(c) \/ WriteAlias(c) \/ WriteLink(c)
  <2>1. Held' = Held
    BY <1>7, RepairKeepsHeld, WriteFileKeepsHeld, LinksKeepHeld
  <2>2. UNCHANGED <<remaining, mishaps>>
    BY <1>7 DEF Repair, WriteFile, WriteAlias, WriteLink
  <2> QED
    BY <2>1, <2>2 DEF Register!vars
<1>8. CASE Bearable /\ (DamageFile \/ DamageManifest)
  <2>1. Held' \in {Held, None} \cup {g \in Pair : Held # None /\ g < Held}
    BY <1>8, DamageLoses
  <2>2. Damaged' = Damaged + 1 /\ Refused' = Refused /\ UNCHANGED remaining
    BY <1>8, DamageIsCounted DEF DiskInv, DamageFile, DamageManifest
  <2> QED
    BY <2>1, <2>2 DEF Register!Next, Register!Damage, Refused, Damaged
<1>9. CASE \E g \in Pair : Age(g)
  <2>1. Held' = Held /\ UNCHANGED mishaps
    BY <1>9, HeldStays DEF Age
  <2> QED
    BY <1>1, <2>1 DEF Register!Next, Register!Age
<1> QED
  BY <1>2, <1>3, <1>4, <1>5, <1>6, <1>7, <1>8, <1>9
     DEF Next, Step, Call, Lock, Look, Found, Missed, Fetch, Issue, vars

\* However often a publication is cut short, and whoever looks, the disk behaves
\* as one register that is replaced whole, by a later pair that is not due and
\* only when the one it holds is (state.go:158-161); no more than two refused
\* writes and one damage are assumed.
THEOREM DiskIsRegister == Spec => IsRegister
<1> QED
  BY RegisterStarts, RenewingStarts, StepIsRegisters, NextKeepsRenewing, DiskInvHolds, PTL
     DEF Spec, IsRegister, Register!Spec
=============================================================================

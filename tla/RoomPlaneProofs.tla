-------------------------- MODULE RoomPlaneProofs --------------------------
(***************************************************************************)
(* Proofs about RoomPlane for every set of guests, kinds and bodies and    *)
(* every bound: types, no lost wakeup, the meaning of a tag within one     *)
(* incarnation of a room, and the delivery of guest writes at most once    *)
(* and in order.                                                           *)
(***************************************************************************)
EXTENDS RoomPlane, TLAPS

-----------------------------------------------------------------------------
(* The inductive invariant of the readers.                                 *)

\* No version was issued that the plane's counter has not reached, and what is
\* published has a version: 0 stays the version of nothing.
VersionsIssued ==
  \A p \in Planes, k \in Kinds :
    /\ planes[p].ver[k] <= planes[p].counter
    /\ planes[p].snap[k] # NoBody => planes[p].ver[k] # 0

\* Body b under version v is what plane p holds, or held under an older version.
Names(p, v, b) ==
  /\ v <= planes[p].counter
  /\ planes[p].snap[Feed] # NoBody /\ v = planes[p].ver[Feed] => b = planes[p].snap[Feed]

TagsName == \A g \in Readers : from[g] # 0 => Names(from[g], tag[g], seen[g])

\* A parked guest's answer in hand is what its tag names on the plane it asked.
ParkedName ==
  \A g \in Readers : reader[g].pc = "parked" =>
    /\ Names(reader[g].at, tag[g], reader[g].body)
    /\ reader[g].wake <= planes[reader[g].at].wake

ReadInv == VersionsIssued /\ TagsName /\ ParkedName /\ NoLostWakeup

-----------------------------------------------------------------------------
(* The inductive invariant of the writes.                                  *)

\* Every write of s precedes every write of t that the same plane accepted.
Precede(s, t) ==
  \A i \in 1..Len(s), j \in 1..Len(t) : s[i].plane = t[j].plane => s[i].n < t[j].n
Ordered(s) ==
  \A i, j \in 1..Len(s) : i < j /\ s[i].plane = s[j].plane => s[i].n < s[j].n
Below(s, m) == \A i \in 1..Len(s) : s[i].n <= m
OnlyOf(s, p) == \A i \in 1..Len(s) : s[i].plane = p

\* The queue w of plane p, behind the drained writes d, the applied ones a and
\* the last number m given out.
QueueInv(w, p, d, a, m) ==
  /\ Ordered(w) /\ Below(w, m) /\ OnlyOf(w, p)
  /\ Precede(d, w) /\ Precede(a, w)

WriteInv ==
  /\ \A p \in Planes : QueueInv(planes[p].writes, p, digest, applied, posts)
  /\ Ordered(digest) /\ Below(digest, posts)
  /\ Ordered(applied) /\ Below(applied, posts) /\ Precede(applied, digest)
  /\ digest # <<>> => pc = "apply"

-----------------------------------------------------------------------------
(* Types.                                                                  *)

\* The plane's operations, and a plane nobody has touched.
LEMMA PlaneTypes ==
  /\ NewPlane \in Plane
  /\ \A P \in Plane, k \in Kinds, b \in Bodies \union {NoBody} : Published(P, k, b) \in Plane
  /\ \A P \in Plane : Emptied(P) \in Plane
  /\ \A P \in Plane, s \in Seq(Write) : [P EXCEPT !.writes = s] \in Plane
<1>1. NewPlane \in Plane
  BY DEF NewPlane, Plane
<1>2. ASSUME NEW P \in Plane, NEW k \in Kinds, NEW b \in Bodies \union {NoBody}
      PROVE  Published(P, k, b) \in Plane
  <2>1. P.counter + 1 \in Nat /\ P.wake + 1 \in Nat
    BY DEF Plane
  <2>2. [P.snap EXCEPT ![k] = b] \in [Kinds -> Bodies \union {NoBody}]
    BY DEF Plane
  <2>3. [P.ver EXCEPT ![k] = P.counter + 1] \in [Kinds -> Nat]
    BY <2>1 DEF Plane
  <2>4. QED
    BY <2>1, <2>2, <2>3 DEF Published, Plane
<1>3. ASSUME NEW P \in Plane PROVE Emptied(P) \in Plane
  <2>1. P.counter \in Nat /\ P.wake + 1 \in Nat
    BY DEF Plane
  <2>2. QED
    BY <1>1, <2>1 DEF Emptied, Plane
<1>4. ASSUME NEW P \in Plane, NEW s \in Seq(Write) PROVE [P EXCEPT !.writes = s] \in Plane
  BY DEF Plane
<1>5. QED
  BY <1>1, <1>2, <1>3, <1>4

\* New and the page's first load build well-typed states.
LEMMA InitType == Init => TypeOK
<1> SUFFICES ASSUME Init PROVE TypeOK
  OBVIOUS
<1>1. TypeOrigin
  BY PlaneTypes, PlaneBounds DEF Init, TypeOrigin
<1>2. TypeMac
  BY KindsAssumption DEF Init, TypeMac
<1>3. TypeFlight
  BY PlaneBounds DEF Init, TypeFlight
<1>4. TypeReaders
  BY PlaneBounds DEF Init, TypeReaders, Request, Away
<1>5. TypePages /\ TypePosts
  BY PlaneBounds DEF Init, TypePages, TypePosts
<1>6. QED
  BY <1>1, <1>2, <1>3, <1>4, <1>5 DEF Init, TypeOK

\* What is left alone keeps its type.
LEMMA Frames ==
  /\ TypeOrigin /\ UNCHANGED origin => TypeOrigin'
  /\ TypeMac /\ UNCHANGED <<state, changes, todo, bodies, kind, digest, applied>> => TypeMac'
  /\ TypeFlight /\ UNCHANGED <<pc, at>> => TypeFlight'
  /\ TypeReaders /\ UNCHANGED reader => TypeReaders'
  /\ TypePages /\ UNCHANGED page => TypePages'
  /\ TypePosts /\ UNCHANGED <<poster, posts>> => TypePosts'
<1>1. TypeOrigin /\ UNCHANGED origin => TypeOrigin'
  BY DEF TypeOrigin, origin
<1>2. TypeMac /\ UNCHANGED <<state, changes, todo, bodies, kind, digest, applied>> => TypeMac'
  BY DEF TypeMac
<1>3. TypeFlight /\ UNCHANGED <<pc, at>> => TypeFlight'
  BY DEF TypeFlight
<1>4. TypeReaders /\ UNCHANGED reader => TypeReaders'
  BY DEF TypeReaders
<1>5. TypePages /\ UNCHANGED page => TypePages'
  BY DEF TypePages, page
<1>6. TypePosts /\ UNCHANGED <<poster, posts>> => TypePosts'
  BY DEF TypePosts
<1>7. QED
  BY <1>1, <1>2, <1>3, <1>4, <1>5, <1>6

\* Store.Room routes an upload to a plane.
LEMMA RouteTypes ==
  ASSUME TypeOrigin, NEW p \in Planes, Route(p)
  PROVE  p \in 1..MaxPlanes /\ p # 0 /\ live' \in 0..MaxPlanes /\ made' \in 0..MaxPlanes
  BY PlaneBounds DEF Route, TypeOrigin, Planes

\* A reader is answered, told to come back, or kept.
LEMMA AnswerTypes ==
  ASSUME TypeReaders, TypePages, NEW g \in Readers
  PROVE  /\ NotReady(g) => TypeReaders' /\ TypePages'
         /\ \A b \in Bodies \union {NoBody}, v \in Nat : Answer(g, b, v) => TypeReaders' /\ TypePages'
<1>1. Away \in Request /\ Away.at = 0 /\ Away.pc = "away"
  BY PlaneBounds DEF Away, Request
<1>2. NotReady(g) => TypeReaders' /\ TypePages'
  BY <1>1, Frames DEF NotReady, TypeReaders
<1>3. ASSUME NEW b \in Bodies \union {NoBody}, NEW v \in Nat, Answer(g, b, v)
      PROVE  TypeReaders' /\ TypePages'
  <2>1. TypeReaders'
    BY <1>1, <1>3 DEF Answer, TypeReaders
  <2>2. reader[g].at \in 0..MaxPlanes
    BY DEF TypeReaders, Request
  <2>3. TypePages'
    BY <1>3, <2>2 DEF Answer, TypePages
  <2>4. QED
    BY <2>1, <2>3
<1>4. QED
  BY <1>2, <1>3

\* One case per action of the loop, the handlers and the guests.
LEMMA TypeStep == TypeOK /\ [Next]_vars => TypeOK'
<1> SUFFICES ASSUME TypeOK, [Next]_vars PROVE TypeOK'
  OBVIOUS
<1> USE Frames DEF TypeOK, guests, Fault
<1>1. ASSUME NEW k \in Kinds, NEW b \in Bodies, Change(k, b) PROVE TypeOK'
  BY <1>1 DEF Change, TypeMac, cycle
<1>2. CASE BeginCycle
  BY <1>2 DEF BeginCycle, TypeMac, TypeFlight
<1>3. ASSUME NEW k \in Kinds, SendSnapshot(k) PROVE TypeOK'
  <2>1. PICK p \in Planes : Route(p) /\ at' = p
    BY <1>3 DEF SendSnapshot
  <2>2. TypeOrigin' /\ TypeFlight'
    BY <1>3, <2>1, RouteTypes DEF SendSnapshot, TypeOrigin, TypeFlight
  <2>3. TypeMac'
    BY <1>3 DEF SendSnapshot, TypeMac
  <2>4. QED
    BY <1>3, <2>2, <2>3 DEF SendSnapshot
<1>4. CASE StoreSnapshot
  <2>1. at \in Planes /\ kind \in Kinds /\ bodies[kind] \in Bodies \union {NoBody}
    BY <1>4, PlaneBounds DEF StoreSnapshot, TypeFlight, TypeMac, Planes
  <2>2. TypeOrigin'
    BY <1>4, <2>1, PlaneTypes DEF StoreSnapshot, TypeOrigin
  <2>3. QED
    BY <1>4, <2>2, PlaneBounds DEF StoreSnapshot, TypeMac, TypeFlight
<1>5. CASE SendDrain
  BY <1>5 DEF SendDrain, TypeFlight, TypeOrigin, origin
<1>6. CASE DrainPlane
  <2>1. at \in Planes
    BY <1>6, PlaneBounds DEF DrainPlane, TypeFlight, Planes
  <2>2. <<>> \in Seq(Write) /\ planes[at].writes \in Seq(Write)
    BY <2>1 DEF TypeOrigin, Plane
  <2>3. TypeOrigin'
    BY <1>6, <2>1, <2>2, PlaneTypes DEF DrainPlane, TypeOrigin
  <2>4. QED
    BY <1>6, <2>2, <2>3, PlaneBounds DEF DrainPlane, TypeMac, TypeFlight
<1>7. CASE ApplyWrite
  BY <1>7 DEF ApplyWrite, TypeMac
<1>8. CASE EndCycle
  BY <1>8 DEF EndCycle, TypeFlight
<1>9. CASE Abandon
  BY <1>9 DEF Abandon, TypeMac, TypeFlight
<1>10. CASE MediaUpload
  <2>1. PICK p \in Planes : Route(p)
    BY <1>10 DEF MediaUpload
  <2>2. QED
    BY <1>10, <2>1, RouteTypes DEF MediaUpload, TypeOrigin, mac, cycle
<1>11. CASE Sweep
  <2>1. live \in Planes
    BY <1>11, PlaneBounds DEF Sweep, TypeOrigin, Planes
  <2>2. TypeOrigin'
    BY <1>11, <2>1, PlaneTypes, PlaneBounds DEF Sweep, TypeOrigin
  <2>3. QED
    BY <1>11, <2>2 DEF Sweep, mac, cycle
<1>12. ASSUME NEW g \in Readers, Ask(g) PROVE TypeOK'
  <2>1. TypeReaders'
    BY <1>12 DEF Ask, TypeReaders, TypeOrigin, Request, Away
  <2>2. QED
    BY <1>12, <2>1 DEF Ask, mac, cycle
<1>13. ASSUME NEW g \in Readers, Read(g) \/ Check(g) PROVE TypeOK'
  <2>1. reader[g].at \in Planes
    BY <1>13, PlaneBounds DEF Read, Check, TypeReaders, Request, Planes
  <2>2. /\ planes[reader[g].at].snap[Feed] \in Bodies \union {NoBody}
        /\ planes[reader[g].at].ver[Feed] \in Nat /\ planes[reader[g].at].wake \in Nat
    BY <2>1, KindsAssumption DEF TypeOrigin, Plane
  <2>3. TypeReaders' /\ TypePages'
    <3>1. CASE NotReady(g)
      BY <3>1, AnswerTypes
    <3>2. CASE Answer(g, planes[reader[g].at].snap[Feed], planes[reader[g].at].ver[Feed])
      BY <3>2, <2>2, AnswerTypes
    <3>3. CASE reader' = [reader EXCEPT ![g].pc = "check"] /\ UNCHANGED page
      BY <1>13, <3>3 DEF TypeReaders, Request, Read, Check
    <3>4. CASE /\ reader' = [reader EXCEPT ![g].pc = "parked", ![g].wake = planes[reader[g].at].wake,
                                           ![g].body = planes[reader[g].at].snap[Feed]]
               /\ UNCHANGED page
      BY <1>13, <2>2, <3>4 DEF TypeReaders, Request, Read, Check
    <3>5. QED
      BY <1>13, <3>1, <3>2, <3>3, <3>4 DEF Read, Check
  <2>4. QED
    BY <1>13, <2>3 DEF Read, Check, mac, cycle
<1>14. ASSUME NEW g \in Readers, Woken(g) PROVE TypeOK'
  <2>1. TypeReaders'
    BY <1>14 DEF Woken, TypeReaders, Request
  <2>2. QED
    BY <1>14, <2>1 DEF Woken, mac, cycle
<1>15. ASSUME NEW g \in Readers, Deadline(g) PROVE TypeOK'
  <2>1. reader[g].body \in Bodies \union {NoBody} /\ tag[g] \in Nat
    BY DEF TypeReaders, TypePages, Request
  <2>2. TypeReaders' /\ TypePages'
    BY <1>15, <2>1, AnswerTypes DEF Deadline
  <2>3. QED
    BY <1>15, <2>2 DEF Deadline, mac, cycle
<1>16. ASSUME NEW g \in Readers, Disconnect(g) PROVE TypeOK'
  <2>1. TypeReaders' /\ TypePages'
    BY <1>16, AnswerTypes DEF Disconnect, NotReady
  <2>2. QED
    BY <1>16, <2>1 DEF Disconnect, mac, cycle
<1>17. ASSUME NEW g \in Posters, StartPost(g) PROVE TypeOK'
  <2>1. TypePosts'
    BY <1>17 DEF StartPost, TypePosts, TypeOrigin
  <2>2. QED
    BY <1>17, <2>1 DEF StartPost, mac, cycle
<1>18. ASSUME NEW g \in Posters, Enqueue(g) PROVE TypeOK'
  <2>1. poster[g] \in Planes
    BY <1>18, PlaneBounds DEF Enqueue, TypePosts, Planes
  <2>2. TypePosts'
    BY <1>18, PlaneBounds DEF Enqueue, TypePosts
  <2>3. TypeOrigin'
    <3>1. CASE UNCHANGED planes
      BY <1>18, <3>1 DEF Enqueue, origin
    <3>2. CASE planes' = [planes EXCEPT ![poster[g]].writes
                            = Append(@, [plane |-> poster[g], n |-> posts + 1])]
      <4>1. [plane |-> poster[g], n |-> posts + 1] \in Write
        BY <2>1 DEF Write, TypePosts
      <4>2. Append(planes[poster[g]].writes, [plane |-> poster[g], n |-> posts + 1]) \in Seq(Write)
        BY <2>1, <4>1 DEF TypeOrigin, Plane
      <4>3. QED
        BY <1>18, <2>1, <3>2, <4>2, PlaneTypes DEF Enqueue, TypeOrigin
    <3>3. QED
      BY <1>18, <3>1, <3>2 DEF Enqueue
  <2>4. QED
    BY <1>18, <2>2, <2>3 DEF Enqueue, mac, cycle
<1>19. CASE UNCHANGED vars
  BY <1>19 DEF vars, mac, cycle
<1>20. QED
  BY <1>1, <1>2, <1>3, <1>4, <1>5, <1>6, <1>7, <1>8, <1>9, <1>10, <1>11, <1>12, <1>13, <1>14,
     <1>15, <1>16, <1>17, <1>18, <1>19 DEF Next, PlaneLoop, Poll

-----------------------------------------------------------------------------
(* Readers.                                                                *)

\* What an operation on a plane may do to the feed: leave it, empty it, or give
\* it a version above every version issued; and it wakes whoever was parked.
Grows(P, Q) ==
  /\ P.counter <= Q.counter /\ P.wake <= Q.wake
  /\ Q.snap[Feed] # NoBody =>
       \/ Q.snap[Feed] = P.snap[Feed] /\ Q.ver[Feed] = P.ver[Feed]
       \/ Q.ver[Feed] > P.counter
  /\ Q.wake = P.wake => Q.snap[Feed] = P.snap[Feed] /\ Q.ver[Feed] = P.ver[Feed]

Issues(P) ==
  \A k \in Kinds : P.ver[k] <= P.counter /\ (P.snap[k] # NoBody => P.ver[k] # 0)

\* Publish, Reset, Enqueue and Drain are such operations.
LEMMA PlanesGrow ==
  ASSUME NEW P \in Plane, Issues(P)
  PROVE  /\ Grows(P, P)
         /\ \A k \in Kinds, b \in Bodies \union {NoBody} :
              Grows(P, Published(P, k, b)) /\ Issues(Published(P, k, b))
         /\ Grows(P, Emptied(P)) /\ Issues(Emptied(P))
         /\ \A q \in Seq(Write) : Grows(P, [P EXCEPT !.writes = q]) /\ Issues([P EXCEPT !.writes = q])
<1>0. P.counter \in Nat /\ P.wake \in Nat /\ P.ver[Feed] \in Nat
  BY KindsAssumption DEF Plane
<1>1. Grows(P, P)
  BY <1>0 DEF Grows
<1>2. ASSUME NEW k \in Kinds, NEW b \in Bodies \union {NoBody}, P.snap[k] # b
      PROVE  Grows(P, Published(P, k, b)) /\ Issues(Published(P, k, b))
  <2> DEFINE Q == Published(P, k, b)
  <2>1. /\ Q.snap = [P.snap EXCEPT ![k] = b] /\ Q.ver = [P.ver EXCEPT ![k] = P.counter + 1]
        /\ Q.counter = P.counter + 1 /\ Q.wake = P.wake + 1
    BY <1>2 DEF Published, Plane
  <2>2. \A j \in Kinds : j # k => Q.snap[j] = P.snap[j] /\ Q.ver[j] = P.ver[j]
    BY <2>1 DEF Plane
  <2>3. Q.snap[k] = b /\ Q.ver[k] = P.counter + 1
    BY <2>1 DEF Plane
  <2>4. Grows(P, Q)
    BY <1>0, <2>1, <2>2, <2>3, KindsAssumption DEF Grows
  <2>5. Issues(Q)
    <3>1. \A j \in Kinds : P.ver[j] \in Nat
      BY DEF Plane
    <3>2. QED
      BY <1>0, <2>1, <2>2, <2>3, <3>1 DEF Issues
  <2>6. QED
    BY <2>4, <2>5
<1>3. ASSUME NEW k \in Kinds, NEW b \in Bodies \union {NoBody}, P.snap[k] = b
      PROVE  Grows(P, Published(P, k, b)) /\ Issues(Published(P, k, b))
  BY <1>1, <1>3 DEF Published
<1>4. Grows(P, Emptied(P)) /\ Issues(Emptied(P))
  <2>1. /\ Emptied(P).counter = P.counter /\ Emptied(P).wake = P.wake + 1
        /\ \A k \in Kinds : Emptied(P).snap[k] = NoBody /\ Emptied(P).ver[k] = 0
    BY DEF Emptied, NewPlane
  <2>2. QED
    BY <1>0, <2>1, KindsAssumption DEF Grows, Issues
<1>5. ASSUME NEW q \in Seq(Write)
      PROVE  Grows(P, [P EXCEPT !.writes = q]) /\ Issues([P EXCEPT !.writes = q])
  BY <1>0 DEF Grows, Issues, Plane
<1>6. QED
  BY <1>1, <1>2, <1>3, <1>4, <1>5

\* While planes only grow, tags go on naming what their guests show, and no
\* parked guest misses a wake-up.
LEMMA GrowthKeeps ==
  ASSUME TypeOK, TypeOK', ReadInv, UNCHANGED <<reader, page>>,
         \A p \in Planes : Grows(planes[p], planes'[p]) /\ Issues(planes'[p])
  PROVE  ReadInv'
<1> USE DEF TypeOK
<1>1. VersionsIssued'
  BY DEF VersionsIssued, Issues
<1>2. ASSUME NEW p \in Planes, NEW v \in Nat, NEW b, Names(p, v, b) PROVE Names(p, v, b)'
  <2>1. /\ planes[p].counter \in Nat /\ planes'[p].counter \in Nat /\ planes'[p].ver[Feed] \in Nat
        /\ planes[p].counter <= planes'[p].counter
    BY KindsAssumption DEF Grows, TypeOrigin, Plane
  <2>2. CASE planes'[p].snap[Feed] = planes[p].snap[Feed] /\ planes'[p].ver[Feed] = planes[p].ver[Feed]
    BY <1>2, <2>1, <2>2 DEF Names, Grows
  <2>3. CASE planes'[p].snap[Feed] # NoBody => planes'[p].ver[Feed] > planes[p].counter
    BY <1>2, <2>1, <2>3 DEF Names, Grows
  <2>4. QED
    BY <2>2, <2>3 DEF Grows
<1>3. TagsName'
  BY <1>2 DEF ReadInv, TagsName, TypePages, Planes, page
<1>4. ASSUME NEW g \in Readers, reader[g].pc = "parked"
      PROVE  /\ Names(reader[g].at, tag[g], reader[g].body)'
             /\ reader[g].wake <= planes'[reader[g].at].wake
             /\ planes'[reader[g].at].wake = reader[g].wake =>
                  /\ planes'[reader[g].at].snap[Feed] # NoBody
                  /\ planes'[reader[g].at].ver[Feed] = tag[g]
  <2>1. reader[g].at \in Planes /\ reader[g].wake \in Nat /\ tag[g] \in Nat
    BY <1>4, PlaneBounds DEF TypeReaders, TypePages, Request, Planes
  <2>2. /\ Names(reader[g].at, tag[g], reader[g].body)
        /\ reader[g].wake <= planes[reader[g].at].wake
        /\ planes[reader[g].at].wake = reader[g].wake =>
             /\ planes[reader[g].at].snap[Feed] # NoBody
             /\ planes[reader[g].at].ver[Feed] = tag[g]
    BY <1>4 DEF ReadInv, ParkedName, NoLostWakeup
  <2>3. planes[reader[g].at].wake \in Nat /\ planes'[reader[g].at].wake \in Nat
    BY <2>1 DEF TypeOrigin, Plane
  <2>4. Names(reader[g].at, tag[g], reader[g].body)'
    BY <1>2, <2>1, <2>2 DEF Names, page
  <2>5. QED
    BY <2>1, <2>2, <2>3, <2>4 DEF Grows
<1>5. ParkedName' /\ NoLostWakeup'
  BY <1>4 DEF ParkedName, NoLostWakeup, Names, page
<1>6. QED
  BY <1>1, <1>3, <1>5 DEF ReadInv

\* An answer read from a plane names what that plane holds.
LEMMA AnswerKeeps ==
  ASSUME TypeOK, ReadInv, NEW g \in Readers, reader[g].at \in Planes,
         NEW b, NEW v \in Nat, Names(reader[g].at, v, b), Answer(g, b, v), UNCHANGED planes
  PROVE  ReadInv'
<1> USE DEF TypeOK
<1>1. /\ reader'[g].pc = "away" /\ tag'[g] = v /\ seen'[g] = b /\ from'[g] = reader[g].at
      /\ \A h \in Readers : h # g => reader'[h] = reader[h] /\ tag'[h] = tag[h]
                                    /\ seen'[h] = seen[h] /\ from'[h] = from[h]
  BY DEF Answer, TypeReaders, TypePages, Away
<1>2. VersionsIssued' /\ TagsName'
  BY <1>1 DEF ReadInv, VersionsIssued, TagsName, Names
<1>3. ParkedName' /\ NoLostWakeup'
  BY <1>1 DEF ReadInv, ParkedName, NoLostWakeup, Names
<1>4. QED
  BY <1>2, <1>3 DEF ReadInv

\* A reader that is not parked afterwards keeps everything.
LEMMA MoveKeeps ==
  ASSUME TypeOK, ReadInv, NEW g \in Readers, UNCHANGED <<planes, page>>,
         reader' = [reader EXCEPT ![g] = reader'[g]], reader'[g].pc # "parked"
  PROVE  ReadInv'
<1>1. \A h \in Readers : h # g => reader'[h] = reader[h]
  BY DEF TypeOK, TypeReaders
<1>2. QED
  BY <1>1 DEF ReadInv, VersionsIssued, TagsName, ParkedName, NoLostWakeup, Names, page

\* One case per action: those that change a plane make it grow, the others move
\* one reader or none.
LEMMA ReadStep == TypeOK /\ TypeOK' /\ ReadInv /\ [Next]_vars => ReadInv'
<1> SUFFICES ASSUME TypeOK, TypeOK', ReadInv, [Next]_vars PROVE ReadInv'
  OBVIOUS
<1>p. \A p \in Planes : planes[p] \in Plane /\ Issues(planes[p]) /\ Grows(planes[p], planes[p])
  <2>1. \A p \in Planes : planes[p] \in Plane /\ Issues(planes[p])
    BY DEF ReadInv, VersionsIssued, Issues, TypeOK, TypeOrigin
  <2>2. QED
    BY <2>1, PlanesGrow
<1>q. ASSUME UNCHANGED <<planes, reader, page>> PROVE ReadInv'
  BY <1>p, <1>q, GrowthKeeps
<1>r. ASSUME NEW q \in Planes, NEW Q, planes' = [planes EXCEPT ![q] = Q], UNCHANGED <<reader, page>>,
             Grows(planes[q], Q) /\ Issues(Q)
      PROVE  ReadInv'
  <2>1. \A p \in Planes : planes'[p] = IF p = q THEN Q ELSE planes[p]
    BY <1>r DEF TypeOK, TypeOrigin
  <2>2. \A p \in Planes : Grows(planes[p], planes'[p]) /\ Issues(planes'[p])
    BY <1>p, <1>r, <2>1
  <2>3. QED
    BY <1>r, <2>2, GrowthKeeps
<1> USE DEF guests, mac, origin
<1>1. ASSUME NEW k \in Kinds, NEW b \in Bodies, Change(k, b) PROVE ReadInv'
  BY <1>1, <1>q DEF Change
<1>2. CASE BeginCycle
  BY <1>2, <1>q DEF BeginCycle
<1>3. ASSUME NEW k \in Kinds, SendSnapshot(k) PROVE ReadInv'
  BY <1>3, <1>q DEF SendSnapshot
<1>4. CASE StoreSnapshot
  <2>1. at \in Planes /\ kind \in Kinds /\ bodies[kind] \in Bodies \union {NoBody}
    BY <1>4, PlaneBounds DEF StoreSnapshot, TypeOK, TypeFlight, TypeMac, Planes
  <2>2. /\ Grows(planes[at], Published(planes[at], kind, bodies[kind]))
        /\ Issues(Published(planes[at], kind, bodies[kind]))
    BY <1>p, <2>1, PlanesGrow
  <2>3. QED
    BY <1>4, <1>r, <2>1, <2>2 DEF StoreSnapshot
<1>5. CASE SendDrain
  BY <1>5, <1>q DEF SendDrain
<1>6. CASE DrainPlane
  <2>1. at \in Planes
    BY <1>6, PlaneBounds DEF DrainPlane, TypeOK, TypeFlight, Planes
  <2>2. /\ Grows(planes[at], [planes[at] EXCEPT !.writes = <<>>])
        /\ Issues([planes[at] EXCEPT !.writes = <<>>])
    <3>1. <<>> \in Seq(Write)
      OBVIOUS
    <3>2. QED
      BY <1>p, <2>1, <3>1, PlanesGrow
  <2>3. QED
    BY <1>6, <1>r, <2>1, <2>2 DEF DrainPlane
<1>7. CASE ApplyWrite
  BY <1>7, <1>q DEF ApplyWrite
<1>8. CASE EndCycle
  BY <1>8, <1>q DEF EndCycle
<1>9. CASE Abandon
  BY <1>9, <1>q DEF Abandon
<1>10. CASE MediaUpload
  BY <1>10, <1>q DEF MediaUpload
<1>11. CASE Sweep
  <2>1. live \in Planes
    BY <1>11, PlaneBounds DEF Sweep, TypeOK, TypeOrigin, Planes
  <2>2. Grows(planes[live], Emptied(planes[live])) /\ Issues(Emptied(planes[live]))
    BY <1>p, <2>1, PlanesGrow
  <2>3. QED
    BY <1>11, <1>r, <2>1, <2>2 DEF Sweep
<1>12. ASSUME NEW g \in Readers, Ask(g) PROVE ReadInv'
  <2>1. reader'[g].pc = "read" /\ reader' = [reader EXCEPT ![g] = reader'[g]]
    BY <1>12 DEF Ask, Away, TypeOK, TypeReaders
  <2>2. QED
    BY <1>12, <2>1, MoveKeeps DEF Ask
<1>13. ASSUME NEW g \in Readers, NotReady(g), UNCHANGED planes PROVE ReadInv'
  <2>1. reader'[g].pc = "away" /\ reader' = [reader EXCEPT ![g] = reader'[g]]
    BY <1>13 DEF NotReady, Away, TypeOK, TypeReaders
  <2>2. QED
    BY <1>13, <2>1, MoveKeeps DEF NotReady
<1>14. ASSUME NEW g \in Readers, Read(g) \/ Check(g) PROVE ReadInv'
  <2>1. reader[g].at \in Planes
    BY <1>14, PlaneBounds DEF Read, Check, TypeOK, TypeReaders, Request, Planes
  <2> DEFINE P == planes[reader[g].at]
  <2>2. P.ver[Feed] \in Nat /\ P.wake \in Nat /\ P.counter \in Nat /\ P.ver[Feed] <= P.counter
    BY <1>p, <2>1, KindsAssumption DEF Plane, Issues
  <2>3. Names(reader[g].at, P.ver[Feed], P.snap[Feed])
    BY <2>2 DEF Names
  <2>4. CASE NotReady(g)
    BY <1>14, <1>13, <2>4 DEF Read, Check
  <2>5. CASE Answer(g, P.snap[Feed], P.ver[Feed])
    BY <1>14, <2>1, <2>2, <2>3, <2>5, AnswerKeeps DEF Read, Check
  <2>6. CASE reader' = [reader EXCEPT ![g].pc = "check"] /\ UNCHANGED page
    <3>1. reader'[g].pc = "check" /\ reader' = [reader EXCEPT ![g] = reader'[g]]
      BY <2>6 DEF TypeOK, TypeReaders, Request
    <3>2. QED
      BY <1>14, <2>6, <3>1, MoveKeeps DEF Read, Check
  <2>7. CASE /\ reader' = [reader EXCEPT ![g].pc = "parked", ![g].wake = P.wake,
                                         ![g].body = P.snap[Feed]]
             /\ UNCHANGED page /\ P.snap[Feed] # NoBody /\ tag[g] = P.ver[Feed]
    <3>1. /\ reader'[g].wake = P.wake /\ reader'[g].body = P.snap[Feed]
          /\ reader'[g].at = reader[g].at
          /\ \A h \in Readers : h # g => reader'[h] = reader[h]
      BY <2>7 DEF TypeOK, TypeReaders, Request
    <3>2. UNCHANGED planes
      BY <1>14 DEF Read, Check
    <3>3. Names(reader[g].at, tag[g], P.snap[Feed])
      BY <2>3, <2>7
    <3>4. VersionsIssued' /\ TagsName'
      BY <2>7, <3>2 DEF ReadInv, VersionsIssued, TagsName, Names, page
    <3>5. ASSUME NEW h \in Readers, reader'[h].pc = "parked"
          PROVE  /\ Names(reader[h].at, tag[h], reader[h].body)'
                 /\ reader'[h].wake <= planes'[reader'[h].at].wake
                 /\ planes'[reader'[h].at].wake = reader'[h].wake =>
                      /\ planes'[reader'[h].at].snap[Feed] # NoBody
                      /\ planes'[reader'[h].at].ver[Feed] = tag'[h]
      <4>1. CASE h = g
        <5>1. /\ reader'[h].at = reader[g].at /\ reader'[h].wake = P.wake /\ reader'[h].body = P.snap[Feed]
              /\ UNCHANGED <<planes, tag>> /\ tag[h] = P.ver[Feed] /\ P.snap[Feed] # NoBody
          BY <2>7, <3>1, <3>2, <4>1 DEF page
        <5>2. Names(reader[h].at, tag[h], reader[h].body)'
          BY <3>3, <4>1, <5>1 DEF Names
        <5>3. QED
          BY <2>2, <5>1, <5>2
      <4>2. CASE h # g
        <5>1. reader'[h] = reader[h] /\ UNCHANGED <<planes, tag>>
          BY <2>7, <3>1, <3>2, <4>2 DEF page
        <5>2. QED
          BY <3>5, <5>1 DEF ReadInv, ParkedName, NoLostWakeup, Names
      <4>3. QED
        BY <4>1, <4>2
    <3>6. QED
      BY <3>4, <3>5 DEF ReadInv, ParkedName, NoLostWakeup
  <2>8. QED
    BY <1>14, <2>4, <2>5, <2>6, <2>7 DEF Read, Check
<1>15. ASSUME NEW g \in Readers, Woken(g) PROVE ReadInv'
  <2>1. reader'[g].pc = "check" /\ reader' = [reader EXCEPT ![g] = reader'[g]]
    BY <1>15 DEF Woken, TypeOK, TypeReaders, Request
  <2>2. QED
    BY <1>15, <2>1, MoveKeeps DEF Woken
<1>16. ASSUME NEW g \in Readers, Deadline(g) PROVE ReadInv'
  <2>1. reader[g].at \in Planes /\ tag[g] \in Nat
    BY <1>16, PlaneBounds DEF Deadline, TypeOK, TypeReaders, TypePages, Request, Planes
  <2>2. Names(reader[g].at, tag[g], reader[g].body)
    BY <1>16 DEF Deadline, ReadInv, ParkedName
  <2>3. QED
    BY <1>16, <2>1, <2>2, AnswerKeeps DEF Deadline
<1>17. ASSUME NEW g \in Readers, Disconnect(g) PROVE ReadInv'
  BY <1>17, <1>13 DEF Disconnect, NotReady
<1>18. ASSUME NEW g \in Posters, StartPost(g) PROVE ReadInv'
  BY <1>18, <1>q DEF StartPost
<1>19. ASSUME NEW g \in Posters, Enqueue(g) PROVE ReadInv'
  <2>1. CASE UNCHANGED planes
    BY <1>19, <2>1, <1>q DEF Enqueue
  <2>2. CASE planes' = [planes EXCEPT ![poster[g]].writes
                          = Append(@, [plane |-> poster[g], n |-> posts + 1])]
    <3>1. poster[g] \in Planes
      BY <1>19, PlaneBounds DEF Enqueue, TypeOK, TypePosts, Planes
    <3>2. Append(planes[poster[g]].writes, [plane |-> poster[g], n |-> posts + 1]) \in Seq(Write)
      <4>1. [plane |-> poster[g], n |-> posts + 1] \in Write
        BY <3>1 DEF Write, TypeOK, TypePosts
      <4>2. QED
        BY <1>p, <3>1, <4>1 DEF Plane
    <3>3. QED
      BY <1>19, <1>p, <1>r, <2>2, <3>1, <3>2, PlanesGrow DEF Enqueue
  <2>3. QED
    BY <1>19, <2>1, <2>2 DEF Enqueue
<1>20. CASE UNCHANGED vars
  BY <1>20, <1>q DEF vars
<1>21. QED
  BY <1>1, <1>2, <1>3, <1>4, <1>5, <1>6, <1>7, <1>8, <1>9, <1>10, <1>11, <1>12, <1>14,
     <1>15, <1>16, <1>17, <1>18, <1>19, <1>20 DEF Next, PlaneLoop, Poll

-----------------------------------------------------------------------------
(* Writes.                                                                 *)

\* Publishing leaves the queue alone; a reset empties it.
LEMMA QueueOf ==
  ASSUME NEW P \in Plane
  PROVE  /\ \A k, b : Published(P, k, b).writes = P.writes
         /\ Emptied(P).writes = <<>>
  BY DEF Published, Emptied, NewPlane, Plane

\* Nothing precedes, and is preceded by, anything.
LEMMA EmptyWrites ==
  \A s, m, p : /\ Ordered(<<>>) /\ Below(<<>>, m) /\ OnlyOf(<<>>, p)
               /\ Precede(<<>>, s) /\ Precede(s, <<>>)
  BY DEF Ordered, Below, OnlyOf, Precede

\* A queue of one plane precedes every queue of another.
LEMMA OtherPlane ==
  ASSUME NEW s, NEW t, NEW p, NEW q, p # q, OnlyOf(s, p), OnlyOf(t, q)
  PROVE  Precede(s, t)
  BY DEF OnlyOf, Precede

\* Taking the first write off.
LEMMA TailWrites ==
  ASSUME NEW s \in Seq(Write), s # <<>>, Ordered(s)
  PROVE  /\ Ordered(Tail(s))
         /\ \A m : Below(s, m) => Below(Tail(s), m)
         /\ \A t : Precede(t, s) => Precede(t, Tail(s))
         /\ \A t : Precede(s, t) => Precede(Tail(s), t)
<1> DEFINE u == Tail(s)
<1>1. Len(s) \in Nat /\ Len(u) = Len(s) - 1 /\ \A i \in 1..Len(u) : i + 1 \in 1..Len(s) /\ u[i] = s[i + 1]
  OBVIOUS
<1> HIDE DEF u
<1>2. Ordered(u)
  <2> SUFFICES ASSUME NEW i \in 1..Len(u), NEW j \in 1..Len(u), i < j, u[i].plane = u[j].plane
               PROVE  u[i].n < u[j].n
    BY DEF Ordered
  <2>1. i + 1 \in 1..Len(s) /\ j + 1 \in 1..Len(s) /\ i + 1 < j + 1
    BY <1>1
  <2>2. QED
    BY <1>1, <2>1 DEF Ordered
<1>3. /\ \A m : Below(s, m) => Below(u, m)
      /\ \A t : Precede(t, s) => Precede(t, u)
      /\ \A t : Precede(s, t) => Precede(u, t)
  BY <1>1 DEF Below, Precede
<1>4. QED
  BY <1>2, <1>3 DEF u

\* Moving the first write of s to the end of r, all of which precedes s.
LEMMA MoveWrite ==
  ASSUME NEW r \in Seq(Write), NEW s \in Seq(Write), s # <<>>,
         Ordered(r), Ordered(s), Precede(r, s)
  PROVE  /\ Ordered(Append(r, Head(s))) /\ Precede(Append(r, Head(s)), Tail(s))
         /\ \A m : Below(r, m) /\ Below(s, m) => Below(Append(r, Head(s)), m)
         /\ \A t : Precede(r, t) /\ Precede(s, t) => Precede(Append(r, Head(s)), t)
<1> DEFINE u == Tail(s)
           v == Append(r, Head(s))
<1>1. /\ Len(s) \in Nat /\ 1 \in 1..Len(s)
      /\ Len(u) = Len(s) - 1 /\ \A i \in 1..Len(u) : i + 1 \in 1..Len(s) /\ u[i] = s[i + 1]
  OBVIOUS
<1>2. /\ Len(r) \in Nat /\ Len(v) = Len(r) + 1 /\ v[Len(r) + 1] = s[1]
      /\ \A i \in 1..Len(r) : v[i] = r[i]
  OBVIOUS
<1> HIDE DEF u, v
<1>3. \A i \in 1..Len(v) : i \in 1..Len(r) \/ i = Len(r) + 1
  BY <1>2
<1>4. Ordered(v)
  <2> SUFFICES ASSUME NEW i \in 1..Len(v), NEW j \in 1..Len(v), i < j, v[i].plane = v[j].plane
               PROVE  v[i].n < v[j].n
    BY DEF Ordered
  <2>1. CASE j \in 1..Len(r)
    <3>1. i \in 1..Len(r)
      BY <1>2, <2>1
    <3>2. QED
      BY <1>2, <2>1, <3>1 DEF Ordered
  <2>2. CASE j = Len(r) + 1
    <3>1. i \in 1..Len(r)
      BY <1>2, <2>2
    <3>2. QED
      BY <1>1, <1>2, <2>2, <3>1 DEF Precede
  <2>3. QED
    BY <1>3, <2>1, <2>2
<1>5. Precede(v, u)
  <2> SUFFICES ASSUME NEW i \in 1..Len(v), NEW j \in 1..Len(u), v[i].plane = u[j].plane
               PROVE  v[i].n < u[j].n
    BY DEF Precede
  <2>1. j + 1 \in 1..Len(s) /\ u[j] = s[j + 1] /\ 1 < j + 1
    BY <1>1
  <2>2. CASE i \in 1..Len(r)
    BY <1>2, <2>1, <2>2 DEF Precede
  <2>3. CASE i = Len(r) + 1
    BY <1>1, <1>2, <2>1, <2>3 DEF Ordered
  <2>4. QED
    BY <1>3, <2>2, <2>3
<1>6. /\ \A m : Below(r, m) /\ Below(s, m) => Below(v, m)
      /\ \A t : Precede(r, t) /\ Precede(s, t) => Precede(v, t)
  BY <1>1, <1>2, <1>3 DEF Below, Precede
<1>7. QED
  BY <1>4, <1>5, <1>6 DEF u, v

\* A number above every number given out.
LEMMA NewWrite ==
  ASSUME NEW r \in Seq(Write), NEW s \in Seq(Write), NEW x \in Write, NEW m \in Nat,
         x.n = m + 1, Below(r, m), Below(s, m)
  PROVE  /\ Ordered(s) => Ordered(Append(s, x))
         /\ Below(Append(s, x), m + 1) /\ Below(r, m + 1)
         /\ \A p : OnlyOf(s, p) /\ x.plane = p => OnlyOf(Append(s, x), p)
         /\ Precede(r, s) => Precede(r, Append(s, x))
<1> DEFINE v == Append(s, x)
<1>1. /\ Len(s) \in Nat /\ Len(v) = Len(s) + 1 /\ v[Len(s) + 1] = x
      /\ \A i \in 1..Len(s) : v[i] = s[i]
  OBVIOUS
<1>2. /\ \A i \in 1..Len(s) : s[i].n \in Nat /\ s[i].n < x.n /\ s[i].n <= m + 1
      /\ \A i \in 1..Len(r) : r[i].n \in Nat /\ r[i].n < x.n /\ r[i].n <= m + 1
  <2>1. /\ \A i \in 1..Len(s) : s[i] \in Write
        /\ \A i \in 1..Len(r) : r[i] \in Write
    OBVIOUS
  <2>2. QED
    BY <2>1 DEF Below, Write
<1> HIDE DEF v
<1>3. \A i \in 1..Len(v) : i \in 1..Len(s) \/ i = Len(s) + 1
  BY <1>1
<1>4. Ordered(s) => Ordered(v)
  <2> SUFFICES ASSUME Ordered(s), NEW i \in 1..Len(v), NEW j \in 1..Len(v), i < j,
                      v[i].plane = v[j].plane
               PROVE  v[i].n < v[j].n
    BY DEF Ordered
  <2>1. i \in 1..Len(s)
    BY <1>1, <1>3
  <2>2. QED
    BY <1>1, <1>2, <1>3, <2>1 DEF Ordered
<1>5. Below(v, m + 1) /\ Below(r, m + 1)
  BY <1>1, <1>2, <1>3 DEF Below
<1>6. /\ \A p : OnlyOf(s, p) /\ x.plane = p => OnlyOf(v, p)
      /\ Precede(r, s) => Precede(r, v)
  BY <1>1, <1>2, <1>3 DEF OnlyOf, Precede
<1>7. QED
  BY <1>4, <1>5, <1>6 DEF v

\* A step that touches no write in hand and, at most, empties queues.
LEMMA IdleWrites ==
  ASSUME WriteInv, UNCHANGED <<digest, applied, posts>>,
         \A p \in Planes : planes'[p].writes \in {<<>>, planes[p].writes},
         digest # <<>> => pc' = "apply"
  PROVE  WriteInv'
<1>1. ASSUME NEW p \in Planes
      PROVE  QueueInv(planes'[p].writes, p, digest, applied, posts)
  <2>1. QueueInv(planes[p].writes, p, digest, applied, posts)
    BY DEF WriteInv
  <2>2. QueueInv(<<>>, p, digest, applied, posts)
    BY EmptyWrites DEF QueueInv
  <2>3. QED
    BY <2>1, <2>2
<1>2. QED
  BY <1>1 DEF WriteInv

\* Drain takes a whole queue in one lock section.
LEMMA DrainWrites ==
  ASSUME TypeOK, WriteInv, DrainPlane
  PROVE  WriteInv'
<1> DEFINE w(p) == planes[p].writes
<1>1. at \in Planes
  BY PlaneBounds DEF DrainPlane, TypeOK, TypeFlight, Planes
<1>2. /\ digest' = w(at) /\ planes'[at].writes = <<>>
      /\ \A p \in Planes : p # at => planes'[p].writes = w(p)
      /\ pc' = "apply" /\ UNCHANGED <<applied, posts>>
  BY <1>1 DEF DrainPlane, guests, TypeOK, TypeOrigin, Plane
<1>3. \A p \in Planes : QueueInv(w(p), p, digest, applied, posts)
  BY DEF WriteInv
<1> HIDE DEF w
<1>4. ASSUME NEW p \in Planes PROVE QueueInv(planes'[p].writes, p, w(at), applied, posts)
  <2>1. CASE p = at
    BY <1>2, <2>1, EmptyWrites DEF QueueInv
  <2>2. CASE p # at
    <3>1. OnlyOf(w(at), at) /\ OnlyOf(w(p), p)
      BY <1>1, <1>3 DEF QueueInv
    <3>2. Precede(w(at), w(p))
      BY <2>2, <3>1, OtherPlane
    <3>3. QED
      BY <1>2, <1>3, <2>2, <3>2 DEF QueueInv
  <2>3. QED
    BY <2>1, <2>2
<1>5. Ordered(w(at)) /\ Below(w(at), posts) /\ Precede(applied, w(at))
  BY <1>1, <1>3 DEF QueueInv
<1>6. QED
  BY <1>2, <1>4, <1>5 DEF WriteInv

\* The loop applies the drained writes one by one.
LEMMA ApplyWrites ==
  ASSUME TypeOK, WriteInv, ApplyWrite
  PROVE  WriteInv'
<1> DEFINE d == Tail(digest)
           a == Append(applied, Head(digest))
<1>1. digest \in Seq(Write) /\ applied \in Seq(Write) /\ digest # <<>>
  BY DEF ApplyWrite, TypeOK, TypeMac
<1>2. /\ digest' = d /\ applied' = a
      /\ UNCHANGED <<planes, posts>> /\ pc' = "apply"
  BY DEF ApplyWrite, origin, guests
<1>3. /\ Ordered(digest) /\ Below(digest, posts)
      /\ Ordered(applied) /\ Below(applied, posts) /\ Precede(applied, digest)
  BY DEF WriteInv
<1>4. /\ Ordered(d) /\ Below(d, posts)
      /\ \A t : Precede(digest, t) => Precede(d, t)
  BY <1>1, <1>3, TailWrites
<1>5. /\ Ordered(a) /\ Below(a, posts) /\ Precede(a, d)
      /\ \A t : Precede(applied, t) /\ Precede(digest, t) => Precede(a, t)
  BY <1>1, <1>3, MoveWrite
<1> HIDE DEF d, a
<1>6. \A p \in Planes : QueueInv(planes[p].writes, p, d, a, posts)
  BY <1>4, <1>5 DEF WriteInv, QueueInv
<1>7. QED
  BY <1>2, <1>4, <1>5, <1>6 DEF WriteInv

\* A new write gets a number above every number given out.
LEMMA EnqueueWrites ==
  ASSUME TypeOK, WriteInv, NEW g \in Posters, Enqueue(g)
  PROVE  WriteInv'
<1>1. poster[g] \in Planes /\ posts \in Nat /\ digest \in Seq(Write) /\ applied \in Seq(Write)
  BY PlaneBounds DEF Enqueue, TypeOK, TypePosts, TypeMac, Planes
<1>2. UNCHANGED <<digest, applied, pc>>
  BY DEF Enqueue, mac, cycle
<1>3. CASE UNCHANGED <<planes, posts>>
  BY <1>2, <1>3 DEF WriteInv
<1>4. CASE /\ planes' = [planes EXCEPT ![poster[g]].writes
                            = Append(@, [plane |-> poster[g], n |-> posts + 1])]
           /\ posts' = posts + 1
  <2> DEFINE q == poster[g]
             x == [plane |-> q, n |-> posts + 1]
             w(p) == planes[p].writes
             v == Append(w(q), x)
  <2>1. x \in Write /\ x.n = posts + 1 /\ x.plane = q
    BY <1>1 DEF Write
  <2>2. \A p \in Planes : w(p) \in Seq(Write)
    BY DEF TypeOK, TypeOrigin, Plane
  <2>3. /\ planes'[q].writes = v
        /\ \A p \in Planes : p # q => planes'[p].writes = w(p)
    BY <1>1, <1>4 DEF TypeOK, TypeOrigin, Plane
  <2>4. \A p \in Planes : QueueInv(w(p), p, digest, applied, posts)
    BY DEF WriteInv
  <2>5. q \in Planes
    BY <1>1
  <2>v. v = Append(w(q), x)
    OBVIOUS
  <2> HIDE DEF x, q, w, v
  <2>6. Below(digest, posts) /\ Below(applied, posts)
    BY DEF WriteInv
  <2>7. Below(digest, posts + 1) /\ Below(applied, posts + 1)
    <3>1. Below(w(q), posts)
      BY <2>4, <2>5 DEF QueueInv
    <3>2. QED
      BY <1>1, <2>1, <2>2, <2>5, <2>6, <3>1, NewWrite
  <2>8. ASSUME NEW p \in Planes PROVE QueueInv(planes'[p].writes, p, digest, applied, posts + 1)
    <3>1. w(p) \in Seq(Write) /\ Below(w(p), posts) /\ Ordered(w(p)) /\ OnlyOf(w(p), p)
          /\ Precede(digest, w(p)) /\ Precede(applied, w(p))
      BY <2>2, <2>4 DEF QueueInv
    <3>2. CASE p # q
      <4>1. Below(w(p), posts + 1)
        BY <1>1, <2>1, <3>1, NewWrite
      <4>2. QED
        BY <2>3, <3>1, <3>2, <4>1 DEF QueueInv
    <3>3. CASE p = q
      <4>1. /\ Ordered(v) /\ Below(v, posts + 1) /\ OnlyOf(v, p)
            /\ Precede(digest, v) /\ Precede(applied, v)
        BY <1>1, <2>1, <2>6, <2>v, <3>1, <3>3, NewWrite
      <4>2. QED
        BY <2>3, <3>3, <4>1 DEF QueueInv
    <3>4. QED
      BY <3>2, <3>3
  <2>9. /\ Ordered(digest) /\ Ordered(applied) /\ Precede(applied, digest)
        /\ digest # <<>> => pc = "apply"
    BY DEF WriteInv
  <2>10. QED
    BY <1>2, <1>4, <2>7, <2>8, <2>9 DEF WriteInv
<1>5. QED
  BY <1>3, <1>4 DEF Enqueue

\* One step preserves the write invariant.
LEMMA WriteStep ==
  ASSUME TypeOK, WriteInv, [Next]_vars
  PROVE  WriteInv'
<1>p. \A p \in Planes : planes[p] \in Plane
  BY DEF TypeOK, TypeOrigin
<1>q. ASSUME UNCHANGED <<planes, digest, applied, posts>>, pc # "apply" \/ pc' = "apply"
      PROVE  WriteInv'
  BY <1>q DEF WriteInv
<1>1. CASE BeginCycle
  BY <1>1, <1>q DEF BeginCycle, origin, guests
<1>2. ASSUME NEW k \in Kinds, SendSnapshot(k) PROVE WriteInv'
  BY <1>2, <1>q DEF SendSnapshot, guests
<1>3. CASE StoreSnapshot
  <2>1. at \in Planes /\ digest = <<>>
    BY <1>3, PlaneBounds DEF StoreSnapshot, TypeOK, TypeFlight, Planes, WriteInv
  <2>2. Published(planes[at], kind, bodies[kind]).writes = planes[at].writes
    BY <1>p, <2>1, QueueOf
  <2>3. \A p \in Planes : planes'[p].writes = planes[p].writes
    BY <1>3, <2>1, <2>2 DEF StoreSnapshot, TypeOK, TypeOrigin
  <2>4. UNCHANGED <<digest, applied, posts>>
    BY <1>3 DEF StoreSnapshot, guests
  <2>5. QED
    BY <2>1, <2>3, <2>4, IdleWrites
<1>4. CASE SendDrain
  BY <1>4, <1>q DEF SendDrain, origin, guests
<1>5. CASE DrainPlane
  BY <1>5, DrainWrites
<1>6. CASE ApplyWrite
  BY <1>6, ApplyWrites
<1>7. CASE EndCycle
  BY <1>7 DEF EndCycle, origin, guests, WriteInv
<1>8. CASE Abandon
  <2>1. /\ digest' = <<>> /\ UNCHANGED <<planes, applied, posts>>
    BY <1>8 DEF Abandon, origin, guests
  <2>2. ASSUME NEW p \in Planes PROVE QueueInv(planes[p].writes, p, <<>>, applied, posts)
    BY EmptyWrites DEF WriteInv, QueueInv
  <2>3. /\ Ordered(<<>>) /\ Below(<<>>, posts) /\ Precede(applied, <<>>)
        /\ Ordered(applied) /\ Below(applied, posts)
    BY EmptyWrites DEF WriteInv
  <2>4. QED
    BY <2>1, <2>2, <2>3 DEF WriteInv
<1>9. ASSUME NEW k \in Kinds, NEW b \in Bodies, Change(k, b) PROVE WriteInv'
  BY <1>9 DEF Change, origin, cycle, guests, WriteInv
<1>10. CASE MediaUpload
  BY <1>10 DEF MediaUpload, mac, cycle, guests, WriteInv
<1>11. CASE Sweep
  <2>1. live \in Planes
    BY <1>11, PlaneBounds DEF Sweep, TypeOK, TypeOrigin, Planes
  <2>2. Emptied(planes[live]).writes = <<>>
    BY <1>p, <2>1, QueueOf
  <2>3. \A p \in Planes : planes'[p].writes \in {<<>>, planes[p].writes}
    BY <1>11, <2>1, <2>2 DEF Sweep, TypeOK, TypeOrigin
  <2>4. UNCHANGED <<digest, applied, posts, pc>>
    BY <1>11 DEF Sweep, mac, cycle, guests
  <2>5. QED
    BY <2>3, <2>4, IdleWrites DEF WriteInv
<1>12. ASSUME NEW g \in Readers, Poll(g) \/ Disconnect(g) PROVE WriteInv'
  BY <1>12 DEF Poll, Ask, Read, Check, Woken, Deadline, Disconnect, origin, mac, cycle, WriteInv
<1>13. ASSUME NEW g \in Posters, StartPost(g) PROVE WriteInv'
  BY <1>13 DEF StartPost, origin, mac, cycle, WriteInv
<1>14. ASSUME NEW g \in Posters, Enqueue(g) PROVE WriteInv'
  BY <1>14, EnqueueWrites
<1>15. CASE UNCHANGED vars
  BY <1>15 DEF vars, origin, mac, cycle, guests, WriteInv
<1>16. QED
  BY <1>1, <1>2, <1>3, <1>4, <1>5, <1>6, <1>7, <1>8, <1>9, <1>10, <1>11, <1>12, <1>13,
     <1>14, <1>15 DEF Next, PlaneLoop

-----------------------------------------------------------------------------
(* The theorems.                                                           *)

\* Nothing is published, held or queued at first.
LEMMA InitInvs == Init => ReadInv /\ WriteInv
<1> SUFFICES ASSUME Init PROVE ReadInv /\ WriteInv
  OBVIOUS
<1>1. /\ \A p \in Planes : planes[p] = NewPlane
      /\ \A g \in Readers : reader[g].pc # "parked" /\ from[g] = 0
      /\ digest = <<>> /\ applied = <<>>
  BY DEF Init, Away
<1>2. ReadInv
  BY <1>1 DEF ReadInv, VersionsIssued, TagsName, ParkedName, NoLostWakeup, NewPlane
<1>3. WriteInv
  <2>1. \A p \in Planes : planes[p].writes = <<>>
    BY <1>1 DEF NewPlane
  <2>2. QED
    BY <1>1, <2>1, EmptyWrites DEF WriteInv, QueueInv
<1>4. QED
  BY <1>2, <1>3

\* The inductive invariant: types, the readers' part and the writes' part.
LEMMA PlaneInvariant == Spec => [](TypeOK /\ ReadInv /\ WriteInv)
<1> DEFINE Inv == TypeOK /\ ReadInv /\ WriteInv
<1>1. Init => Inv
  BY InitType, InitInvs
<1>2. Inv /\ [Next]_vars => Inv'
  BY TypeStep, ReadStep, WriteStep
<1>3. QED
  BY <1>1, <1>2, PTL DEF Spec

(***************************************************************************)
(* Planes, requests, pages and queues stay well-typed, and exactly the     *)
(* requests in flight have been routed (roomplane.go:93-127,               *)
(* plane.go:58-84).                                                        *)
(***************************************************************************)
THEOREM TypeCorrect == Spec => []TypeOK
BY PlaneInvariant, PTL

(***************************************************************************)
(* No guest waits for news that is already there: WaitFor takes the wake   *)
(* channel together with the version it compares (roomplane.go:185-207).   *)
(***************************************************************************)
THEOREM NoGuestMissesNews == Spec => []NoLostWakeup
<1>1. TypeOK /\ ReadInv /\ WriteInv => NoLostWakeup
  BY DEF ReadInv
<1>2. QED
  BY <1>1, PlaneInvariant, PTL

(***************************************************************************)
(* A tag that is current names the bytes the page shows, for as long as    *)
(* the page talks to the plane that gave it the tag (roomplane.go:105-110, *)
(* 131-160).                                                               *)
(***************************************************************************)
THEOREM TagsAreHonest == Spec => []TagNamesContent
<1>1. TypeOK /\ ReadInv /\ WriteInv => TagNamesContent
  BY DEF ReadInv, TagsName, Names, TagNamesContent, Current
<1>2. QED
  BY <1>1, PlaneInvariant, PTL

(***************************************************************************)
(* The Mac applies the writes one plane accepted in the order it accepted  *)
(* them and none of them twice, whatever drains are lost (roomplane.go:    *)
(* 243-295, plane.go:209-247).                                             *)
(***************************************************************************)
THEOREM WritesAppliedOnce == Spec => []AppliedInOrder
<1>1. TypeOK /\ ReadInv /\ WriteInv => AppliedInOrder
  BY DEF WriteInv, Ordered, AppliedInOrder
<1>2. QED
  BY <1>1, PlaneInvariant, PTL
=============================================================================

----------------------------- MODULE RoomPlane -----------------------------
(***************************************************************************)
(* The room API of a relayed party: the in-memory plane the origin keeps   *)
(* per room (internal/roomplane), the origin's handlers around it          *)
(* (internal/origin), the Mac's publish-and-drain loop                     *)
(* (internal/contribute/plane.go) and the guests who long-poll the feed    *)
(* and post.                                                               *)
(*                                                                         *)
(* The origin is a read replica.  A guest echoes the version it last saw   *)
(* and is PARKED while that is current; a publish of different bytes gives *)
(* the kind a new version and closes the plane's wake channel.  Guest      *)
(* writes queue in the plane until the Mac's next drain takes them all.    *)
(*                                                                         *)
(* Handlers look a room up and use it later, so a plane that the sweep     *)
(* dropped in between is still read, written and drained: planes are       *)
(* numbered in the order they are made, and "live" is the one the store    *)
(* maps, 0 for none.  A wake channel is a number; it is closed when the    *)
(* plane's current one is another.                                         *)
(***************************************************************************)
EXTENDS Naturals, Sequences, FiniteSets

CONSTANTS
  Readers,    \* guests with the feed open
  Posters,    \* guests posting
  Kinds,      \* snapshot kinds: the feed, the status
  Feed,       \* the kind guests long-poll
  Bodies,     \* what a snapshot may say
  NoBody,     \* not published
  MaxQueue,   \* maxQueuedWrites
  MaxPlanes,  \* bound: planes made
  MaxChanges, \* bound: changes of what the Mac publishes
  MaxPosts,   \* bound: writes accepted
  MaxFaults   \* bound: lost exchanges, abandoned cycles, reloaded pages

ASSUME KindsAssumption == Feed \in Kinds /\ NoBody \notin Bodies
ASSUME PlaneBounds ==
  /\ MaxQueue \in Nat /\ MaxPlanes \in Nat /\ MaxChanges \in Nat
  /\ MaxPosts \in Nat /\ MaxFaults \in Nat

VARIABLES
  \* The origin
  planes,   \* every plane ever made
  live,     \* the one the store maps, 0 for none
  made,     \* planes made so far
  \* The Mac: what it would publish now, and RunPlane's cycle
  state,    \* kind -> body
  changes,
  pc,       \* where the cycle is
  todo,     \* kinds this cycle still has to publish
  bodies,   \* the snapshots it rendered when it began
  at,       \* the plane the request in flight was routed to
  kind,     \* the kind being published
  digest,   \* drained writes still to be applied
  applied,  \* writes applied so far, in order
  \* The guests' pages
  reader,   \* each guest's feed request
  tag,      \* ETag it holds, 0 for none
  seen,     \* body it shows
  from,     \* the plane that answered it last
  poster,   \* the plane its post was routed to, 0 for none
  posts,    \* writes accepted so far
  faults

origin == <<planes, live, made>>
cycle  == <<pc, todo, bodies, at, kind, digest, applied>>
mac    == <<state, changes, cycle>>
page   == <<tag, seen, from>>
guests == <<reader, page, poster, posts>>
vars == <<origin, mac, guests, faults>>

Planes == 1..MaxPlanes
NewPlane == [snap |-> [k \in Kinds |-> NoBody], ver |-> [k \in Kinds |-> 0],
             counter |-> 0, wake |-> 0, writes |-> <<>>]
Away == [pc |-> "away", at |-> 0, wake |-> 0, body |-> NoBody]

Init ==
  /\ planes = [p \in Planes |-> NewPlane] /\ live = 0 /\ made = 0
  /\ state \in [Kinds -> Bodies] /\ changes = 0
  /\ pc = "idle" /\ todo = {} /\ bodies = [k \in Kinds |-> NoBody]
  /\ at = 0 /\ kind = Feed /\ digest = <<>> /\ applied = <<>>
  /\ reader = [g \in Readers |-> Away]
  /\ tag = [g \in Readers |-> 0] /\ seen = [g \in Readers |-> NoBody]
  /\ from = [g \in Readers |-> 0]
  /\ poster = [g \in Posters |-> 0] /\ posts = 0 /\ faults = 0

Fault == faults < MaxFaults /\ faults' = faults + 1

-----------------------------------------------------------------------------
(* The plane.                                                              *)

\* The slip: parked readers are not woken.
Published_Silently(P, k, b) ==
  IF P.snap[k] = b THEN P
  ELSE [P EXCEPT !.snap[k] = b, !.counter = @ + 1, !.ver[k] = P.counter + 1]
\* The slip: each kind counts its own versions, which Reset forgets.
Published_OwnCount(P, k, b) ==
  IF P.snap[k] = b THEN P
  ELSE [P EXCEPT !.snap[k] = b, !.ver[k] = @ + 1, !.wake = @ + 1]

\* Publish: the same bytes are no news.
Published(P, k, b) ==
  IF P.snap[k] = b THEN P
  ELSE [P EXCEPT !.snap[k] = b, !.counter = @ + 1, !.ver[k] = P.counter + 1,
                 !.wake = @ + 1]

\* Reset: the version counter survives.
Emptied(P) == [NewPlane EXCEPT !.counter = P.counter, !.wake = P.wake + 1]

\* Store.Room(token, true): made by the first upload of any kind.
Route(p) ==
  IF live # 0 THEN p = live /\ UNCHANGED <<live, made>>
  ELSE p = made + 1 /\ p \in Planes /\ live' = p /\ made' = p

-----------------------------------------------------------------------------
(* The Mac: planeCycleTo.                                                  *)

Change(k, b) ==                  \* something happens at the party
  /\ changes < MaxChanges /\ state[k] # b
  /\ state' = [state EXCEPT ![k] = b] /\ changes' = changes + 1
  /\ UNCHANGED <<origin, cycle, guests, faults>>

\* The slip: only what this Mac has not published yet is published.
BeginCycle_News ==
  /\ pc = "idle"
  /\ pc' = "publish" /\ todo' = {k \in Kinds : bodies[k] # state[k]} /\ bodies' = state
  /\ UNCHANGED <<state, changes, at, kind, digest, applied, origin, guests, faults>>

BeginCycle ==                    \* every kind, changed or not
  /\ pc = "idle"
  /\ pc' = "publish" /\ todo' = Kinds /\ bodies' = state
  /\ UNCHANGED <<state, changes, at, kind, digest, applied, origin, guests, faults>>

SendSnapshot(k) ==               \* planePublish, up to Store.Room
  /\ pc = "publish" /\ k \in todo
  /\ \E p \in Planes : Route(p) /\ at' = p
  /\ pc' = "store" /\ kind' = k
  /\ UNCHANGED <<state, changes, todo, bodies, digest, applied, planes, guests, faults>>

StoreSnapshot ==                 \* Plane().Publish
  /\ pc = "store"
  /\ planes' = [planes EXCEPT ![at] = Published(@, kind, bodies[kind])]
  /\ pc' = "publish" /\ todo' = todo \ {kind} /\ at' = 0
  /\ UNCHANGED <<state, changes, bodies, kind, digest, applied, live, made, guests, faults>>

SendDrain ==                     \* planeDrain: no room is an empty digest
  /\ pc = "publish" /\ todo = {}
  /\ IF live = 0 THEN pc' = "apply" ELSE pc' = "drain"
  /\ at' = live
  /\ UNCHANGED <<state, changes, todo, bodies, kind, digest, applied, origin, guests, faults>>

DrainPlane ==                    \* Drain: the queue is handed over
  /\ pc = "drain"
  /\ digest' = planes[at].writes
  /\ planes' = [planes EXCEPT ![at].writes = <<>>]
  /\ pc' = "apply" /\ at' = 0
  /\ UNCHANGED <<state, changes, todo, bodies, kind, applied, live, made, guests, faults>>

ApplyWrite ==
  /\ pc = "apply" /\ digest # <<>>
  /\ applied' = Append(applied, Head(digest)) /\ digest' = Tail(digest)
  /\ UNCHANGED <<state, changes, pc, todo, bodies, at, kind, origin, guests, faults>>

EndCycle ==
  /\ pc = "apply" /\ digest = <<>>
  /\ pc' = "idle"
  /\ UNCHANGED <<state, changes, todo, bodies, at, kind, digest, applied, origin, guests, faults>>

\* The slip: writes a cycle could not apply are queued again, behind newer ones.
Abandon_PutsBack ==
  LET queue == planes[live].writes \o digest IN
  /\ pc \in {"publish", "apply"} /\ Fault
  /\ planes' = IF live # 0 /\ Len(queue) <= MaxQueue
               THEN [planes EXCEPT ![live].writes = queue] ELSE planes
  /\ pc' = "idle" /\ todo' = {} /\ digest' = <<>>
  /\ UNCHANGED <<state, changes, bodies, at, kind, applied, live, made, guests>>

\* A publish fails, the digest is lost on its way, or the target changed under
\* the cycle: it ends, and drained writes it still holds are gone.
Abandon ==
  /\ pc \in {"publish", "apply"} /\ Fault
  /\ pc' = "idle" /\ todo' = {} /\ digest' = <<>>
  /\ UNCHANGED <<state, changes, bodies, at, kind, applied, origin, guests>>

-----------------------------------------------------------------------------
(* The origin around the plane.                                            *)

MediaUpload ==                   \* Handler.upload makes the room as well
  /\ live = 0
  /\ \E p \in Planes : Route(p)
  /\ UNCHANGED <<planes, mac, guests, faults>>

Sweep ==                         \* Store.Sweep: Reset, then forget the room
  /\ live # 0 /\ made < MaxPlanes
  /\ planes' = [planes EXCEPT ![live] = Emptied(@)]
  /\ live' = 0
  /\ UNCHANGED <<made, mac, guests, faults>>

-----------------------------------------------------------------------------
(* A guest's feed request: roomAPI, ReadVersioned, WaitFor.                *)

Answer(g, body, ver) ==          \* 200: the page takes the tag and the body
  /\ reader' = [reader EXCEPT ![g] = Away]
  /\ tag' = [tag EXCEPT ![g] = ver] /\ seen' = [seen EXCEPT ![g] = body]
  /\ from' = [from EXCEPT ![g] = reader[g].at]

NotReady(g) ==                   \* 503: the page keeps its tag and retries
  reader' = [reader EXCEPT ![g] = Away] /\ UNCHANGED page

Ask(g) ==
  /\ reader[g].pc = "away" /\ live # 0
  /\ reader' = [reader EXCEPT ![g] = [Away EXCEPT !.pc = "read", !.at = live]]
  /\ UNCHANGED <<page, poster, posts, origin, mac, faults>>

\* A tag that names the current version parks, if it still does in WaitFor.
Read(g) ==
  LET P == planes[reader[g].at] IN
  /\ reader[g].pc = "read"
  /\ CASE P.snap[Feed] = NoBody -> NotReady(g)
       [] P.snap[Feed] # NoBody /\ tag[g] = P.ver[Feed] ->
            reader' = [reader EXCEPT ![g].pc = "check"] /\ UNCHANGED page
       [] OTHER -> Answer(g, P.snap[Feed], P.ver[Feed])
  /\ UNCHANGED <<poster, posts, origin, mac, faults>>

\* WaitFor's read section takes the wake channel together with the version.
Check(g) ==
  LET P == planes[reader[g].at] IN
  /\ reader[g].pc = "check"
  /\ CASE P.snap[Feed] = NoBody -> NotReady(g)
       [] P.snap[Feed] # NoBody /\ tag[g] = P.ver[Feed] ->
            /\ reader' = [reader EXCEPT ![g].pc = "parked", ![g].wake = P.wake,
                                        ![g].body = P.snap[Feed]]
            /\ UNCHANGED page
       [] OTHER -> Answer(g, P.snap[Feed], P.ver[Feed])
  /\ UNCHANGED <<poster, posts, origin, mac, faults>>

Woken(g) ==
  /\ reader[g].pc = "parked" /\ planes[reader[g].at].wake # reader[g].wake
  /\ reader' = [reader EXCEPT ![g].pc = "check"]
  /\ UNCHANGED <<page, poster, posts, origin, mac, faults>>

\* planeParkMax passes: the answer is what was read before parking.
Deadline(g) ==
  /\ reader[g].pc = "parked"
  /\ Answer(g, reader[g].body, tag[g])
  /\ UNCHANGED <<poster, posts, origin, mac, faults>>

Disconnect(g) ==                 \* the answer never arrives
  /\ reader[g].pc # "away" /\ Fault
  /\ reader' = [reader EXCEPT ![g] = Away]
  /\ UNCHANGED <<page, poster, posts, origin, mac>>

-----------------------------------------------------------------------------
(* A guest's write: roomAPI POST, Enqueue.                                 *)

StartPost(g) ==
  /\ poster[g] = 0 /\ live # 0
  /\ posts + Cardinality({h \in Posters : poster[h] # 0}) < MaxPosts
  /\ poster' = [poster EXCEPT ![g] = live]
  /\ UNCHANGED <<reader, page, posts, origin, mac, faults>>

Enqueue(g) ==
  /\ poster[g] # 0
  /\ LET p == poster[g] IN
     IF Len(planes[p].writes) < MaxQueue
     THEN /\ planes' = [planes EXCEPT ![p].writes = Append(@, [plane |-> p, n |-> posts + 1])]
          /\ posts' = posts + 1
     ELSE UNCHANGED <<planes, posts>>         \* 503: room is busy
  /\ poster' = [poster EXCEPT ![g] = 0]
  /\ UNCHANGED <<reader, page, live, made, mac, faults>>

-----------------------------------------------------------------------------
PlaneLoop ==
  \/ BeginCycle \/ \E k \in Kinds : SendSnapshot(k)
  \/ StoreSnapshot \/ SendDrain \/ DrainPlane \/ ApplyWrite \/ EndCycle

Poll(g) == Ask(g) \/ Read(g) \/ Check(g) \/ Woken(g) \/ Deadline(g)

Next ==
  \/ PlaneLoop \/ Abandon
  \/ \E k \in Kinds, b \in Bodies : Change(k, b)
  \/ MediaUpload \/ Sweep
  \/ \E g \in Readers : Poll(g) \/ Disconnect(g)
  \/ \E g \in Posters : StartPost(g) \/ Enqueue(g)

Spec == Init /\ [][Next]_vars

\* RunPlane's goroutine runs, handlers and timers of the origin run, and pages
\* go on polling (listener.html re-polls 150 ms after every answer).
Fairness ==
  /\ WF_vars(PlaneLoop)
  /\ \A g \in Readers : WF_vars(Poll(g))
  /\ \A g \in Posters : WF_vars(Enqueue(g))

FairSpec == Spec /\ Fairness

-----------------------------------------------------------------------------
Write == [plane : Planes, n : Nat]
Plane == [snap : [Kinds -> Bodies \union {NoBody}], ver : [Kinds -> Nat],
          counter : Nat, wake : Nat, writes : Seq(Write)]
Request == [pc : {"away", "read", "check", "parked"}, at : 0..MaxPlanes,
            wake : Nat, body : Bodies \union {NoBody}]

TypeOrigin == planes \in [Planes -> Plane] /\ live \in 0..MaxPlanes /\ made \in 0..MaxPlanes
TypeMac ==
  /\ state \in [Kinds -> Bodies] /\ changes \in Nat
  /\ bodies \in [Kinds -> Bodies \union {NoBody}] /\ todo \in SUBSET Kinds
  /\ kind \in Kinds /\ digest \in Seq(Write) /\ applied \in Seq(Write)
TypeFlight ==
  /\ pc \in {"idle", "publish", "store", "drain", "apply"}
  /\ at \in 0..MaxPlanes /\ (at # 0 <=> pc \in {"store", "drain"})
TypeReaders ==
  /\ reader \in [Readers -> Request]
  /\ \A g \in Readers : reader[g].at # 0 <=> reader[g].pc # "away"
TypePages ==
  /\ tag \in [Readers -> Nat] /\ seen \in [Readers -> Bodies \union {NoBody}]
  /\ from \in [Readers -> 0..MaxPlanes]
TypePosts == poster \in [Posters -> 0..MaxPlanes] /\ posts \in Nat

\* The values the planes, the loop and the pages may take (roomplane.go:93-127,
\* plane.go:58-84); exactly the requests in flight have been routed to a plane.
TypeOK ==
  /\ TypeOrigin /\ TypeMac /\ TypeFlight /\ TypeReaders /\ TypePages /\ TypePosts
  /\ faults \in Nat

(***************************************************************************)
(* A guest parks only on what it has: while its wake channel is open, the  *)
(* feed is still at the version it holds.  A publish or a reset between    *)
(* the read of the version and the select cannot be missed (WaitFor,       *)
(* roomplane.go:185-207).                                                  *)
(***************************************************************************)
NoLostWakeup ==
  \A g \in Readers :
    reader[g].pc = "parked" /\ planes[reader[g].at].wake = reader[g].wake =>
      /\ planes[reader[g].at].snap[Feed] # NoBody
      /\ planes[reader[g].at].ver[Feed] = tag[g]

(***************************************************************************)
(* Within one incarnation of a room a version names one content: a guest   *)
(* whose tag is the current version shows the current bytes, so parking it *)
(* keeps nothing from it (roomplane.go:105-110).                           *)
(***************************************************************************)
Current(g, p) ==
  planes[p].snap[Feed] # NoBody /\ tag[g] = planes[p].ver[Feed] =>
    seen[g] = planes[p].snap[Feed]
TagNamesContent == \A g \in Readers : from[g] # 0 => Current(g, from[g])

(***************************************************************************)
(* Each accepted write reaches the Mac at most once, and those accepted by *)
(* one plane in the order they were accepted, whatever drains are lost     *)
(* (Drain, roomplane.go:262-295).                                          *)
(***************************************************************************)
AppliedInOrder ==
  \A i, j \in 1..Len(applied) :
    i < j /\ applied[i].plane = applied[j].plane => applied[i].n < applied[j].n

(***************************************************************************)
(* When the party, the faults and the sweeps come to rest, every guest who *)
(* keeps polling shows what the Mac shows, and no write is left waiting in *)
(* the plane that the store maps.  The Mac is never told that a plane is   *)
(* new: what fills it again is that every cycle republishes every kind     *)
(* (plane.go:132-141). A plane that was swept while a post to it was read  *)
(* is excepted: handler.go:468 accepts the post and nobody drains that     *)
(* plane any more, so it never arrives.                                    *)
(***************************************************************************)
GuestsCatchUp ==
  <>[](/\ live # 0 /\ planes[live].writes = <<>>
       /\ \A g \in Readers : seen[g] = state[Feed])
=============================================================================

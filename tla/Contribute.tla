----------------------------- MODULE Contribute -----------------------------
(***************************************************************************)
(* The media half of the contribution manager (internal/contribute): the   *)
(* loop that reads this Mac's own LL-HLS stream on loopback and uploads to *)
(* the relay origin the media it references, then the guest page, then the *)
(* page's assets, then the playlist - and the origin rooms those uploads   *)
(* land in, as far as the manager can tell them apart.                     *)
(*                                                                         *)
(* The hard part is that the manager keeps BELIEFS about a remote store:   *)
(* "sent", "pageSent" and "assetsRev" say what it need not upload again.   *)
(* The store is emptied by a restart or by an idle sweep without telling   *)
(* the Mac; only the epoch that rides on each PUT response reveals it.     *)
(* Meanwhile the room, the credential and the enabled flag change under    *)
(* the running cycle, requests and replies are lost, and the local muxer   *)
(* forgets the session the manager reads it with.                          *)
(*                                                                         *)
(* One action is one step between two points where another goroutine or    *)
(* the network may intervene: a lock section of Manager.mu, or one HTTP    *)
(* exchange split into its arrival at the origin and its reply.            *)
(*                                                                         *)
(* Data is abstracted: a media object is a number (0 the EXT-X-MAP init    *)
(* segment, n > 0 the n-th segment), an asset body is the revision it was  *)
(* built from, a playlist is the last complete segment it lists.           *)
(***************************************************************************)
EXTENDS Naturals

CONSTANTS
  Rooms,      \* relay rooms the broker may assign
  NoRoom,     \* the empty target: no relay origin yet
  Assets,     \* static files the guest page references
  Window,     \* segments the local playlist lists
  MaxHead,    \* bound: segments the muxer produces
  MaxRev,     \* bound: revisions of the page's assets
  MaxGen,     \* bound: SetEnabled and SetTarget calls
  MaxEpoch,   \* bound: room incarnations after which none is lost any more
  MaxFaults   \* bound: failed fetches, lost requests or replies, muxer reloads

ASSUME RoomsAssumption == NoRoom \notin Rooms
ASSUME BoundsAssumption ==
  /\ Window \in Nat /\ MaxHead \in Nat \ {0} /\ MaxRev \in Nat
  /\ MaxGen \in Nat /\ MaxEpoch \in Nat /\ MaxFaults \in Nat

VARIABLES
  \* Manager, under Manager.mu
  enabled,      \* contribution is on
  generation,   \* bumped by every change of enabled or target
  target,       \* the room being pushed to
  originEpoch,  \* last incarnation of it seen on a reply, 0 for none
  sent,         \* media believed to be on the origin
  pageSent,     \* the guest page is believed to be there
  assetsRev,    \* revision of the assets believed to be there, 0 for none
  variant,      \* the media playlist's name is cached
  failStreak,   \* consecutive failed cycles
  running,      \* Status.Running
  \* Manager.Run's cycle, its local variables
  pc,           \* where the loop is
  cyc,          \* the frozen relayTarget: room and generation
  snap,         \* head of the media playlist this cycle read, 0 for none
  todo,         \* media or assets this cycle still has to look at
  fingerprint,  \* AssetsRev() as this cycle read it
  bodyRev,      \* revision the bodies returned by Assets() have
  item,         \* the object being uploaded
  reply,        \* epoch on the reply to that upload
  failed,       \* the cycle returned an error
  \* This Mac's MediaMTX and guest page
  head,         \* last complete segment
  session,      \* the session cookie: "none", "good", or "stale"
  rev,          \* current revision of the page's assets
  \* The origin
  room,         \* what each room's current incarnation holds
  epochs,       \* incarnations created so far
  \* History
  kept,         \* the rooms held what was believed of them when the cycle began
  pushed,       \* the incarnation that last acknowledged each asset, 0 for none
  \* The environment
  faults        \* faults injected so far

manager == <<enabled, generation, target>>
beliefs == <<originEpoch, sent, pageSent, assetsRev>>
health  == <<failStreak, running>>
locals  == <<cyc, snap, todo, fingerprint, bodyRev, item, reply, failed>>
source  == <<head, session, rev>>
origin  == <<room, epochs, kept, pushed>>
vars == <<manager, beliefs, variant, health, pc, locals, source, origin, faults>>

failResetAfter == 3

InitSegment == 0                 \* the EXT-X-MAP object
Objects == 0..(MaxHead + 1)      \* the init segment, the segments, one hint

\* What the playlist references when h is the last complete segment.
Required(h) == {InitSegment} \union {n \in 1..h : n + Window > h}
Listed(h) == Required(h) \union {h + 1}   \* h + 1: EXT-X-PRELOAD-HINT

Item == [kind : {"media"}, name : Objects] \union [kind : {"asset"}, name : Assets]
        \union [kind : {"none", "page", "playlist"}, name : {InitSegment}]
Nothing == [kind |-> "none", name |-> InitSegment]

Room == [epoch : Nat, media : SUBSET Objects, page : BOOLEAN,
         assets : [Assets -> Nat], playlist : Nat]
Absent == [epoch |-> 0, media |-> {}, page |-> FALSE,
           assets |-> [a \in Assets |-> 0], playlist |-> 0]

Idle == [room |-> NoRoom, gen |-> 0]

Init ==
  /\ enabled = FALSE /\ generation = 0 /\ target = NoRoom
  /\ originEpoch = 0 /\ sent = {} /\ pageSent = FALSE /\ assetsRev = 0
  /\ variant = FALSE /\ failStreak = 0 /\ running = FALSE
  /\ pc = "idle" /\ cyc = Idle /\ snap = 0 /\ todo = {}
  /\ fingerprint = 0 /\ bodyRev = 0 /\ item = Nothing /\ reply = 0
  /\ failed = FALSE
  /\ head = 1 /\ session = "none" /\ rev = 1
  /\ room = [r \in Rooms |-> Absent] /\ epochs = 0 /\ kept = TRUE
  /\ pushed = [a \in Assets |-> 0]
  /\ faults = 0

-----------------------------------------------------------------------------
(* Lifecycle: SetEnabled (relay mode) and SetTarget (broker registration). *)

(* Definitions named <Definition>_<Slip> are slips of the code that the    *)
(* properties must catch: each can stand in for the definition it precedes *)
(* or follows in the text below.                                           *)

ForgetTarget_KeepsMedia == UNCHANGED sent /\ pageSent' = FALSE /\ assetsRev' = 0

ForgetTarget ==                  \* resetTargetStateLocked
  sent' = {} /\ pageSent' = FALSE /\ assetsRev' = 0

Invalidate ==                    \* invalidateLocked: cancels the active cycle
  /\ generation < MaxGen
  /\ generation' = generation + 1

SetEnabled(on) ==
  /\ enabled # on
  /\ enabled' = on
  /\ Invalidate
  /\ IF on THEN UNCHANGED <<sent, pageSent, assetsRev, variant, failStreak, running>>
           ELSE ForgetTarget /\ variant' = FALSE /\ failStreak' = 0 /\ running' = FALSE
  /\ UNCHANGED <<target, originEpoch, pc, locals, source, origin, faults>>

\* A target that did not change is ignored; t = target here is a new publish
\* credential for the same room, which adoptTarget treats as a new target.
SetTarget(t) ==
  /\ t = NoRoom => target # NoRoom
  /\ target' = t
  /\ Invalidate
  /\ ForgetTarget /\ originEpoch' = 0
  /\ failStreak' = 0 /\ running' = FALSE
  /\ UNCHANGED <<enabled, variant, pc, locals, source, origin, faults>>

-----------------------------------------------------------------------------
(* The cycle.                                                              *)

Current == generation = cyc.gen  \* generationIsCurrent

ClearLocals ==
  /\ cyc' = Idle /\ snap' = 0 /\ todo' = {} /\ fingerprint' = 0
  /\ bodyRev' = 0 /\ item' = Nothing /\ reply' = 0 /\ failed' = FALSE

\* errStaleCycle, or a cancelled context: noteCycleAt records nothing.
Retire == pc' = "idle" /\ ClearLocals

\* The cycle returns an error that Run records.
Fail ==
  /\ pc' = "note" /\ failed' = TRUE
  /\ UNCHANGED <<cyc, snap, todo, fingerprint, bodyRev, item, reply>>

Goto(label) ==
  pc' = label /\ UNCHANGED <<cyc, snap, todo, fingerprint, bodyRev, item, reply, failed>>

\* putTo up to the request leaving: a stale generation never starts one.
StartPut(it) ==
  IF Current
  THEN pc' = "wire" /\ item' = it
       /\ UNCHANGED <<cyc, snap, todo, fingerprint, bodyRev, reply, failed>>
  ELSE Retire

Fault == faults < MaxFaults /\ faults' = faults + 1

Resolve ==
  /\ pc = "idle" /\ enabled
  /\ pc' = "begin"
  /\ cyc' = [room |-> target, gen |-> generation]
  /\ kept' = (target # NoRoom => sent \subseteq room[target].media)
  /\ UNCHANGED <<manager, beliefs, variant, health, snap, todo, fingerprint,
                 bodyRev, item, reply, failed, source, room, epochs, pushed, faults>>

BeginOperation ==
  /\ pc = "begin"
  /\ IF enabled /\ Current THEN Goto("master") ELSE Retire
  /\ UNCHANGED <<manager, beliefs, variant, health, source, origin, faults>>

\* The invalidation cancelled the context: whatever HTTP exchange the cycle is
\* in may return an error at once.
Cancelled ==
  /\ pc \notin {"idle", "begin"} /\ ~Current
  /\ Retire
  /\ UNCHANGED <<manager, beliefs, variant, health, source, origin, faults>>

NoOrigin ==                      \* errNoOrigin
  /\ pc = "master" /\ cyc.room = NoRoom
  /\ Fail
  /\ UNCHANGED <<manager, beliefs, variant, health, source, origin, faults>>

\* The multivariant playlist, fetched only while its variant is not cached. A
\* jar without a cookie gets a working session; a jar whose cookie the muxer no
\* longer knows need not get a new one.
FetchMaster ==
  /\ pc = "master" /\ cyc.room # NoRoom
  /\ IF ~Current THEN Retire /\ UNCHANGED <<variant, session>>
     ELSE /\ Goto("playlist")
          /\ variant' = TRUE
          /\ session' \in IF variant THEN {session}
                          ELSE IF session = "stale" THEN {"stale", "good"} ELSE {"good"}
  /\ UNCHANGED <<manager, beliefs, health, head, rev, origin, faults>>

\* The media playlist needs the session; without it the muxer answers 401.
FetchPlaylist ==
  /\ pc = "playlist"
  /\ IF session = "good"
     THEN /\ pc' = "media"
          /\ snap' = head
          /\ todo' = Listed(head)
          /\ UNCHANGED <<cyc, fingerprint, bodyRev, item, reply, failed>>
     ELSE Fail
  /\ UNCHANGED <<manager, beliefs, variant, health, source, origin, faults>>

\* Any local fetch may fail: muxer restarting, object rolled out of the window.
FetchFails ==
  /\ \/ pc = "master" /\ cyc.room # NoRoom /\ ~variant
     \/ pc = "playlist"
  /\ Fail /\ Fault
  /\ UNCHANGED <<manager, beliefs, variant, health, source, origin>>

\* One name of the playlist: skip it when it was sent, else read it and upload.
UploadMedia(n) ==
  /\ pc = "media" /\ n \in todo
  /\ IF ~Current THEN Retire
     ELSE IF n \in sent
     THEN pc' = pc /\ todo' = todo \ {n}
          /\ UNCHANGED <<cyc, snap, fingerprint, bodyRev, item, reply, failed>>
     ELSE StartPut([kind |-> "media", name |-> n])
  /\ UNCHANGED <<manager, beliefs, variant, health, source, origin, faults>>

\* The slip: an object that cannot be read is passed over, required or not.
MediaUnreadable_PassesOver(n) ==
  /\ pc = "media" /\ n \in todo \ sent /\ Current
  /\ pc' = pc /\ todo' = todo \ {n}
  /\ UNCHANGED <<cyc, snap, fingerprint, bodyRev, item, reply, failed>>
  /\ Fault
  /\ UNCHANGED <<manager, beliefs, variant, health, source, origin>>

\* A required object that cannot be read fails the cycle, so the previous
\* playable snapshot stays; a preload hint is passed over.
MediaUnreadable(n) ==
  /\ pc = "media" /\ n \in todo \ sent /\ Current
  /\ IF n \in Required(snap) THEN Fail
     ELSE pc' = pc /\ todo' = todo \ {n}
          /\ UNCHANGED <<cyc, snap, fingerprint, bodyRev, item, reply, failed>>
  /\ Fault
  /\ UNCHANGED <<manager, beliefs, variant, health, source, origin>>

MediaDone ==
  /\ pc = "media" /\ todo = {}
  /\ Goto("page")
  /\ UNCHANGED <<manager, beliefs, variant, health, source, origin, faults>>

UploadPage ==
  /\ pc = "page"
  /\ IF ~Current THEN Retire
     ELSE IF pageSent THEN Goto("assets")
     ELSE StartPut([kind |-> "page", name |-> InitSegment])
  /\ UNCHANGED <<manager, beliefs, variant, health, source, origin, faults>>

\* AssetsRev() is read before Assets() builds the bodies it fingerprints.
CheckAssets ==
  /\ pc = "assets"
  /\ IF ~Current THEN Retire
     ELSE /\ pc' = IF rev = assetsRev THEN "publish" ELSE "bodies"
          /\ fingerprint' = rev
          /\ UNCHANGED <<cyc, snap, todo, bodyRev, item, reply, failed>>
  /\ UNCHANGED <<manager, beliefs, variant, health, source, origin, faults>>

ReadAssets ==
  /\ pc = "bodies"
  /\ pc' = "asset" /\ bodyRev' = rev /\ todo' = Assets
  /\ UNCHANGED <<cyc, snap, fingerprint, item, reply, failed>>
  /\ UNCHANGED <<manager, beliefs, variant, health, source, origin, faults>>

UploadAsset(a) ==
  /\ pc = "asset" /\ a \in todo
  /\ StartPut([kind |-> "asset", name |-> a])
  /\ UNCHANGED <<manager, beliefs, variant, health, source, origin, faults>>

\* The slip: the fingerprint is read after the bodies it stands for.
AssetsDone_LateFingerprint ==
  /\ pc = "asset" /\ todo = {}
  /\ IF ~Current THEN Retire /\ UNCHANGED assetsRev
     ELSE Goto("publish") /\ assetsRev' = rev
  /\ UNCHANGED <<manager, originEpoch, sent, pageSent, variant, health, source,
                 origin, faults>>

AssetsDone ==
  /\ pc = "asset" /\ todo = {}
  /\ IF ~Current THEN Retire /\ UNCHANGED assetsRev
     ELSE Goto("publish") /\ assetsRev' = fingerprint
  /\ UNCHANGED <<manager, originEpoch, sent, pageSent, variant, health, source,
                 origin, faults>>

UploadPlaylist ==
  /\ pc = "publish"
  /\ StartPut([kind |-> "playlist", name |-> InitSegment])
  /\ UNCHANGED <<manager, beliefs, variant, health, source, origin, faults>>

-----------------------------------------------------------------------------
(* The upload in flight.                                                   *)

\* Store.Room(token, create): the first upload after a loss makes a new room.
Incarnation(r) ==
  IF room[r].epoch = 0 THEN [Absent EXCEPT !.epoch = epochs + 1] ELSE room[r]

Stored(R) ==
  CASE item.kind = "media" -> [R EXCEPT !.media = @ \union {item.name}]
    [] item.kind = "page"  -> [R EXCEPT !.page = TRUE]
    [] item.kind = "asset" -> [R EXCEPT !.assets[item.name] = bodyRev]
    [] OTHER               -> [R EXCEPT !.playlist = snap]

OriginAccepts ==                 \* Handler.upload
  /\ pc = "wire" /\ cyc.room # NoRoom
  /\ room' = [room EXCEPT ![cyc.room] = Stored(Incarnation(cyc.room))]
  /\ epochs' = IF room[cyc.room].epoch = 0 THEN epochs + 1 ELSE epochs
  /\ reply' = Incarnation(cyc.room).epoch
  /\ pc' = "reply"
  /\ UNCHANGED <<manager, beliefs, variant, health, source, kept, pushed, faults>>
  /\ UNCHANGED <<cyc, snap, todo, fingerprint, bodyRev, item, failed>>

\* The request never arrives ("wire"), is refused before the room is looked up,
\* or its reply is lost although the origin stored the object ("reply").
PutFails ==
  /\ pc \in {"wire", "reply"}
  /\ Fail /\ Fault
  /\ UNCHANGED <<manager, beliefs, variant, health, source, origin>>

ObserveEpoch ==                  \* observeEpochAt
  /\ pc = "reply"
  /\ IF ~Current THEN Retire /\ UNCHANGED beliefs
     ELSE /\ Goto("mark")
          /\ originEpoch' = reply
          /\ IF originEpoch \in {0, reply}
             THEN UNCHANGED <<sent, pageSent, assetsRev>>
             ELSE ForgetTarget
  /\ UNCHANGED <<manager, variant, health, source, origin, faults>>

\* The lock section after a successful upload.
MarkSent ==
  /\ pc = "mark"
  /\ IF ~Current THEN Retire /\ UNCHANGED <<sent, pageSent, pushed>>
     ELSE /\ pc' = CASE item.kind = "media" -> "media"
                     [] item.kind = "page"  -> "assets"
                     [] item.kind = "asset" -> "asset"
                     [] OTHER               -> "note"
          /\ sent' = CASE item.kind = "media"    -> sent \union {item.name}
                       [] item.kind = "playlist" -> sent \intersect Listed(snap)
                       [] OTHER                  -> sent
          /\ pageSent' = (pageSent \/ item.kind = "page")
          /\ pushed' = [a \in Assets |-> IF item.kind = "asset" /\ a = item.name THEN reply ELSE pushed[a]]
          /\ todo' = IF item.kind \in {"media", "asset"} THEN todo \ {item.name} ELSE todo
          /\ item' = Nothing /\ reply' = 0
          /\ UNCHANGED <<cyc, snap, fingerprint, bodyRev, failed>>
  /\ UNCHANGED <<manager, originEpoch, assetsRev, variant, health, source, room, epochs, kept, faults>>

-----------------------------------------------------------------------------
(* The end of a cycle: recordCycle.                                        *)

\* The slip: a result is recorded without asking whose it is.
NoteSuccess_Unguarded ==
  /\ pc = "note" /\ ~failed
  /\ Retire
  /\ running' = TRUE /\ failStreak' = 0
  /\ UNCHANGED <<manager, beliefs, variant, source, origin, faults>>

NoteSuccess ==
  /\ pc = "note" /\ ~failed
  /\ Retire
  /\ IF Current THEN running' = TRUE /\ failStreak' = 0 ELSE UNCHANGED health
  /\ UNCHANGED <<manager, beliefs, variant, source, origin, faults>>

ResetDue == failStreak + 1 >= failResetAfter    \* needsReset

ResetSession_KeepsJar == UNCHANGED session /\ failStreak' = 0 /\ ForgetTarget
ResetSession ==                  \* resetSessionLocked: a new cookie jar
  session' = "none" /\ failStreak' = 0 /\ ForgetTarget

\* The third failure in a row also discards the cookie jar and every belief.
NoteFailure ==
  /\ pc = "note" /\ failed
  /\ Retire
  /\ IF ~Current
     THEN UNCHANGED <<beliefs, variant, health, session>>
     ELSE /\ running' = FALSE /\ variant' = FALSE
          /\ UNCHANGED originEpoch
          /\ IF ResetDue
             THEN ResetSession
             ELSE /\ failStreak' = failStreak + 1
                  /\ UNCHANGED <<session, sent, pageSent, assetsRev>>
  /\ UNCHANGED <<manager, head, rev, origin, faults>>

-----------------------------------------------------------------------------
(* What happens around the loop.                                           *)

Advance ==                       \* the muxer completes a segment
  /\ head < MaxHead
  /\ head' = head + 1
  /\ UNCHANGED <<manager, beliefs, variant, health, pc, locals, session, rev,
                 origin, faults>>

ChangeAssets ==                  \* the DJ swaps the avatar or the cover
  /\ rev < MaxRev
  /\ rev' = rev + 1
  /\ UNCHANGED <<manager, beliefs, variant, health, pc, locals, head, session,
                 origin, faults>>

MuxerReload ==                   \* MediaMTX forgets its HLS sessions
  /\ session = "good" /\ Fault
  /\ session' = "stale"
  /\ UNCHANGED <<manager, beliefs, variant, health, pc, locals, head, rev, origin>>

Lose(S) ==
  /\ epochs < MaxEpoch
  /\ \E r \in S : room[r].epoch # 0
  /\ room' = [r \in Rooms |-> IF r \in S THEN Absent ELSE room[r]] /\ kept' = FALSE
  /\ UNCHANGED <<manager, beliefs, variant, health, pc, locals, source, epochs, pushed, faults>>

OriginRestart == Lose(Rooms)
Sweep(r) == Lose({r})            \* no upload for two minutes: a sleeping Mac

Loop ==
  \/ Resolve \/ BeginOperation \/ NoOrigin \/ FetchMaster \/ FetchPlaylist
  \/ \E n \in Objects : UploadMedia(n)
  \/ MediaDone \/ UploadPage \/ CheckAssets \/ ReadAssets
  \/ \E a \in Assets : UploadAsset(a)
  \/ AssetsDone \/ UploadPlaylist
  \/ OriginAccepts \/ ObserveEpoch \/ MarkSent \/ NoteSuccess \/ NoteFailure

Next ==
  \/ Loop
  \/ Cancelled \/ FetchFails \/ PutFails
  \/ \E n \in Objects : MediaUnreadable(n)
  \/ \E on \in BOOLEAN : SetEnabled(on)
  \/ \E t \in Rooms \union {NoRoom} : SetTarget(t)
  \/ Advance \/ ChangeAssets \/ MuxerReload
  \/ OriginRestart \/ \E r \in Rooms : Sweep(r)

Spec == Init /\ [][Next]_vars

\* Run's goroutine keeps running and the origin answers; nothing is assumed of
\* the DJ, the broker, the muxer, the origin's restarts or the faults.
FairSpec == Spec /\ WF_vars(Loop)

-----------------------------------------------------------------------------
Labels == {"idle", "begin", "master", "playlist", "media", "page", "assets", "bodies",
           "asset", "publish", "wire", "reply", "mark", "note"}
Cycle == [room : Rooms \union {NoRoom}, gen : Nat]

TypeManager ==
  enabled \in BOOLEAN /\ generation \in Nat /\ target \in Rooms \union {NoRoom}
TypeBeliefs ==
  originEpoch \in Nat /\ sent \in SUBSET Objects /\ pageSent \in BOOLEAN /\ assetsRev \in Nat
TypeHealth ==
  failStreak \in 0..(failResetAfter - 1) /\ running \in BOOLEAN
TypeLoop ==
  /\ pc \in Labels /\ cyc \in Cycle /\ snap \in 0..MaxHead
  /\ todo \in SUBSET (Objects \union Assets) /\ fingerprint \in Nat /\ bodyRev \in Nat
  /\ item \in Item /\ reply \in Nat /\ failed \in BOOLEAN
TypeSource ==
  head \in 1..MaxHead /\ session \in {"none", "good", "stale"} /\ rev \in Nat
TypeOrigin ==
  /\ room \in [Rooms -> Room] /\ epochs \in Nat /\ kept \in BOOLEAN
  /\ pushed \in [Assets -> Nat]

\* The values every variable of the manager, its loop and the origin may take
\* (Manager's fields, contribute.go:173-228). In particular the failure streak
\* never reaches failResetAfter: the reset empties it in the same lock section.
TypeOK ==
  /\ TypeManager /\ TypeBeliefs /\ TypeHealth /\ TypeLoop /\ TypeSource /\ TypeOrigin
  /\ variant \in BOOLEAN /\ faults \in Nat

\* The room being pushed to is the incarnation the manager last heard from.
Known == target # NoRoom /\ originEpoch # 0 /\ room[target].epoch = originEpoch

(***************************************************************************)
(* Whatever the manager will skip because it was already sent is on the    *)
(* incarnation it believes it is talking to (contribute.go:695, :716-722,  *)
(* :1079-1082): no restart, lost reply or target change leaves a media     *)
(* object or the guest page marked as sent and absent.                     *)
(***************************************************************************)
SentIsStored == Known => sent \subseteq room[target].media
PageIsStored == Known /\ pageSent => room[target].page
BeliefsHold  == SentIsStored /\ PageIsStored

(***************************************************************************)
(* The same for the page's assets: the origin holds every asset, at least  *)
(* as new as the revision the manager believes it pushed (:757-782).  The  *)
(* assets of one push that went to two incarnations are excepted: those    *)
(* the first one took are lost with it, and the cycle does not send them   *)
(* again.                                                                  *)
(***************************************************************************)
OneIncarnation == \A a, b \in Assets : pushed[a] = pushed[b]

AssetsAreStored ==
  Known /\ OneIncarnation => \A a \in Assets : room[target].assets[a] >= assetsRev

(***************************************************************************)
(* Status.Running is what the console shows for "this Mac is sending"      *)
(* (contribute.go:86-88): a cycle that outlives a disable or a room change *)
(* never revives it (noteCycleAt, :522-535).                               *)
(***************************************************************************)
RunningOnlyWhileSending == running => enabled /\ target # NoRoom

(***************************************************************************)
(* Media before the playlist that names it (contribute.go:610-613): while  *)
(* the origin keeps its rooms, no room is given a playlist requiring an    *)
(* object it does not hold, whatever was unreadable, skipped as sent, lost *)
(* or retargeted on the way.  A room lost inside the cycle is excepted:    *)
(* the cycle goes on, and the next one sends the media again.              *)
(***************************************************************************)
MediaBeforePlaylist ==
  [][\A r \in Rooms :
       kept /\ room'[r].playlist \notin {0, room[r].playlist} =>
         Required(room'[r].playlist) \subseteq room'[r].media]_vars

(***************************************************************************)
(* Once the faults, the restarts and the DJ's changes have stopped, an     *)
(* enabled contribution reaches and keeps a room a guest can listen in:    *)
(* current playable playlist, page and assets, console says running. This  *)
(* covers a muxer that forgot the session (failResetAfter) and an origin   *)
(* that was emptied (observeEpochAt). Excepted is what a push loses when a *)
(* restart falls between two of its assets (contribute.go:765-780): the    *)
(* assets the old incarnation took are not sent to the new one, unless     *)
(* they change again.                                                      *)
(***************************************************************************)
LeftBehind(a) ==
  /\ pushed[a] # room[target].epoch
  /\ \E b \in Assets : pushed[b] = room[target].epoch

Delivered ==
  LET R == room[target] IN
  /\ R.playlist = head /\ Required(head) \subseteq R.media
  /\ R.page /\ \A a \in Assets : R.assets[a] = rev \/ LeftBehind(a)
  /\ running
Recovers == <>[](enabled /\ target # NoRoom => Delivered)
=============================================================================

# PartyParty: a TLA+ verification project

PartyParty turns a DJ's Mac into a low-latency radio for the room. The Mac
captures audio, encodes LL-HLS (ffmpeg into a local MediaMTX) and serves a guest
page on the Wi-Fi. When guests cannot reach the Mac directly it *contributes* the
stream and the room's state to a relay origin on the internet, which serves the
same page to them. This directory models the parts of that program whose
correctness depends on the order of events: who believes what about whom, and what
happens when a message is lost, a process restarts or two callers meet.

Paths below are relative to `src/`; `contribute.go` is
`internal/contribute/contribute.go`, and so on.

## 1. Inventory

| Component | State it keeps | Operations | Hard behaviour | What makes it correct |
|---|---|---|---|---|
| Contribution manager, `contribute.go` | enabled flag, target room and credential, generation, beliefs about the origin (`sent`, `pageSent`, `assetsRev`, `originEpoch`), cached variant, failure streak, status | `SetEnabled`, `SetTarget`, `Run`'s cycle, `noteCycle` | the target changes under a running cycle; the origin loses everything without telling; requests and replies are lost; the muxer forgets the session | nothing is skipped that the origin does not hold; media goes before the playlist; late results do not count; it recovers by itself |
| Plane loop, `contribute/plane.go` | nothing of its own; a commit gate in the manager | publish every snapshot, drain, apply | a callback of the old room while the target changes; a digest that is lost | guests' writes arrive once, in order |
| Room plane, `roomplane.go` | snapshots and versions, wake channel, write queue, presence | `Publish`, `ReadVersioned`, `WaitFor`, `Enqueue`, `Drain`, `Reset`, `Beat` | parked reads against publishes; destructive drain; a swept room starting over | no lost wakeup; a tag names one content; writes applied once and in order |
| Origin room, `origin/origin.go`, `origin/handler.go` | media and its eviction order, pins, photos, playlist, epoch | `PutMedia`, `Pin`, `PinSticky`, `PutPlaylist`, `PutPhoto`, `dropPhoto`, `Playlist`, `Sweep` | handlers of several lock sections interleave; eviction at the cap; blocking reload with a deadline | what the playlist needs is there; memory is bounded; readers are released |
| Clock calibration, `contribute/clock.go`, `roomplane/clock.go` | one anchor per room | four-timestamp exchange, publish, extrapolate | rounding, asymmetric delays, late publication | the error is within the uncertainty published with it |
| Connection mode, `relay/relay.go`, `relay/mode.go` | evidence, registration, verdicts per network, preferences on disk, pending decision | registration loop, console requests, `OnTarget`/`OnPush` callbacks | decisions delivered after the lock is released, by several callers | the mode can be served and rests on evidence of this network; no decision is lost, and the last one arrives |
| Broadcaster, `broadcast/broadcast.go` | set state, generation, the published ffmpeg and capture helper, what to replay | `Start`, `Stop`, `fail`, the waiter, automatic restarts, `Status` | a start goes on for seconds while others come and go; restarts decided under the lock begin after it; processes that outlive their handles | a Stop holds; a set that is on has an encoder; no encoder without a handle; every Go Live is answered |
| Media server, `mediamtx/mediamtx.go` | one child process | start, stop, restart | forgetting a process that still runs | one process on the port |
| Activation, `activate/activate.go`, the supervisor in `main.go` | `install.json` and its lock, the host shown, the relay's credentials | register, recover a forgotten install, remember the host, commit a result | two loops use one install that either may replace across a request; the broker forgets, moves or does not answer | one replacement; nothing committed for a replaced install; both loops converge |
| Certificates, `activate/state.go` | generation files, a manifest, three links | look, migrate, repair, publish, fetch | a crash between any of five durable steps; two processes; a damaged disk | readers see one whole pair, renewed in time |
| Event store, `event/event.go` | the wall in memory, its journal, photos, stamps and revision | a handler and a replay per kind of line | a torn or refused write, a restart, a thumbnail that comes late | the wall is what its journal says; guests can follow it |
| Party selection, `event/party.go` | which party is open, `current.json`, `party.json` | resume, join, publish the link | check then act; restarts in between | a night is resumed; a joiner keeps the host's link |
| Guest feed, `server/feed.go`, `feedTick` in the pages | parked requests; the page's tag, cursor and posts | long poll, draw | subscription against snapshot, two polls of one page, cut answers | the page ends up showing the wall |
| Peers, `peers/` | directory of nearby rooms | browse, probe | probe rounds are awaited | little interleaves |
| Console server, statistics, schedule, limits, `server/` ... | request state over the above | HTTP routes, health watch, long poll | concurrent `Start`/`Stop` requests | covered by the component each route calls |
| Machine facts, Mac app, web pages, broker, origin service | user interface, system calls, the Cloudflare worker | | I/O | not modelled, or inputs of a model |

How they interact: the relay manager tells the contribution manager the target
(`OnTarget`) and whether to push (`OnPush`); the contribution manager talks HTTP to
the origin, which keeps an origin room and, in it, a room plane; guests talk to the
origin; the plane loop carries snapshots up and guests' writes down. On the Mac the
activation loop gives the server its name and certificate and the relay loop its
credentials, both from one install; guests on the Wi-Fi follow the event store through
the feed.
`PROJECT.json` lists every component with its status, and 39 places in the code that
are hard to test with the properties that watch them.

## 2. Modules

| Module | Models | Proofs |
|---|---|---|
| `Contribute` | `Manager.cycle` and everything that changes under it | `MacProofs` |
| `RoomPlane` | the plane, the handlers around it, `planeCycleTo`, guests' polls and posts | `RoomPlaneProofs` |
| `OriginRoom` | eviction, pins, sticky assets, photos, the handlers' sections | `OriginRoomProofs` |
| `PlaylistWait` | the blocking playlist reload: lock, condition variable, timers | `LongPollProofs` |
| `ClockCalibration` | the exchange, the anchor, the time told to guests | `RelayProofs` |
| `Broadcaster` | starts, Stops, restarts and the processes they leave | `BroadcasterProofs` |
| `RelayMode` | evidence, decision, preferences, delivery of the callbacks | `RelayProofs` |
| `Activation` | the install, the two loops that use it, results and commits | `ActivationProofs` |
| `CertificateRegister` | abstract: one register that holds a whole pair | |
| `CertificatePairs` | the files behind it; implements `CertificateRegister` | `CertificatePairsProofs` |
| `FeedSource` | abstract: stamps and revision, as those who follow the wall need them | |
| `EventStore` | the wall, its journal and the party; implements `FeedSource` | `MacProofs` |
| `WallFeed` | the long poll and the page, over a `FeedSource` | `LongPollProofs` |

The guest feed is verified in two halves that meet in `FeedSource`: `EventStore` is
shown to implement it (`IsFeedSource`), and `WallFeed` extends it, so that what holds of
a page over any `FeedSource` holds over the store without the product of the two.
Both halves are proved as well as run.

Three proof modules extend two components each, which share no name and no state:
`MacProofs` (`Contribute` and `EventStore`, what the Mac keeps of its own), `RelayProofs`
(`RelayMode` and `ClockCalibration`, what it learns through the relay) and `LongPollProofs`
(`PlaylistWait` and `WallFeed`, the two requests that are held until there is news). That
is why the specifications of `ClockCalibration`, `EventStore` and `WallFeed` are called
`ClockSpec`, `StoreSpec` and `FeedSpec`.

`MC<Module>` instantiates a module for TLC. In every module one action is one step
between two points where something else can intervene: a section under a lock, one
half of an HTTP exchange, one file operation. A definition named
`<Definition>_<Slip>` is a plausible bug of that definition; nothing uses it, and it
is there so that each property can be shown to fail when the code slips.

### Contribute

`manager`, `beliefs`, `health` are the fields of `Manager` under `mu`; `pc` and
`locals` are `Run`'s goroutine inside one cycle; `source` is the local muxer and page;
`room` is what each relay room's current incarnation holds. An upload is three actions:
`StartPut` (within `UploadMedia`, `UploadPage`, `UploadAsset`, `UploadPlaylist`) sends
it, `OriginAccepts` stores it, creating the incarnation if need be, and `ObserveEpoch`
reads the epoch on the reply; `PutFails` loses the request or the reply, before or
after the store. `MarkSent` is the lock section after `putTo` that re-checks the
generation. `SetEnabled` and `SetTarget` invalidate the cycle, which ends through
`Cancelled` at any later point, or runs on until it notices. `NoteSuccess` and
`NoteFailure` are `recordCycle` with its guard; the third failure in a row resets the
session. Media is a number, an asset body the revision it was built from, a playlist
its last segment. `kept` and `pushed` are history: whether no room was lost since the
cycle began, and the incarnation that last acknowledged each asset.

### RoomPlane

Handlers fetch the `*Room` and use it later, so planes are numbered and a dropped plane
can still be read, written and drained. A wake channel is a number; it is closed when
the plane's is another. A guest's request is `Ask`, `Read`, `Check`, parked, then
`Woken` or `Deadline`; `Disconnect` loses the answer. `Abandon` is every early end of
the Mac's cycle, including a drained digest that never arrives.

### OriginRoom and PlaylistWait

`OriginRoom` has the lock sections of `upload` and `relayPhotoUpload` as separate
actions. The Mac in it keeps the contract that `Contribute` shows it keeps: it
uploads what its playlist requires before the playlist, does not repeat what was
acknowledged, may repeat what was not, and does not run more than `Lag` segments ahead
of the playlist it has published. `PlaylistWait` has Go's `sync.Cond` as the code uses it:
the reader holds the lock from check to `Wait`, `Broadcast` is outside the lock, and
so is the timer's.

### RelayMode

Every caller (the registration loop; `Workers`, which are console requests and the
activation supervisor) changes the evidence and decides in one section (`Recompute`),
then reads and saves preferences, flushes (`Flush`) and delivers (`Deliver`), all
interleaved. `vouched` is history: the networks where a guest's report reached
the Mac, or where a report came while the DJ insisted on direct; `crossed` is too: whether
another decision was being delivered when the last one was taken.

### Broadcaster

Every start is a goroutine, `start[n]`, numbered in the order of the calls; its `pc` is
the point of `startInternal` it has reached, `mine` is `myGen`, and `ffmpeg[n]` and
`capture[n]` are the processes it launched. `b.cmd` and `b.helper` name the start
whose process is published. Each of its sections under `b.mu` is an action (`StopFirst`, `Begin`,
`Adopt`, `FormatHeard`, `Publish` or `Withdraw`, `Fail` in `HelperFails` and
`LaunchFails`) and so is each launch between them. `Reap` is the goroutine
that waits for the ffmpeg of a start; `Grace` is the kill 1.5 s after a Stop. `GoLive` is the DJ's
request; `TryAutoRestart`, `Recover` with `Replay`, and `Rescue` are the four
ways the program starts by itself (`Recover` is both `RecoverPipeline` and
`ReviveAfterCrash`), their throttles and the health watch's thresholds being choices.
Two things are merged: the signals of `Stop` with its section, and the killing of
the helper with the section of the waiter. `stopped`, `want` and `heard` are
history; `want` is "crossed" after a Stop that met a call on its way, of which nobody can say
which was the later. Two devices stand for those with a capture helper ("mac") and those without.

### ClockCalibration

Time is integer ticks, `Quantum` of them to a millisecond; `theta` is the origin's clock
minus the Mac's. `Ms` is `UnixMilli`'s rounding down. All of `Rtt`, `Offset` and
`Estimate` follow the arithmetic of `clock.go` with doubled offsets so that halves
stay integers.

### Activation

An identity is the id of an install and the base its host is named under; that pair is
also the generation that results are checked against. `pc` is where a loop is:
`Begin` to `Register` is `loadOrRegisterInstall`, with the file lock held across the
registration; `Post` is the address update of the activation loop and the registration
of the relay loop; `Recover` and the second `Post` are `recoverUnknownInstall`.
`Remember`, `Certificate` and `Finish` end an attempt, `Fallback` and `Cached` are what
`main` makes of a failed one, `Commit` and `CommitRelay` the two commits. Waiting for
the lock can time out at each of its places (`LockTimesOut`). The disk's certificate is
reduced to the base it is valid under and whether it is due.

### CertificatePairs and CertificateRegister

One durable step is one action: the generation file, the manifest, `live-current.pem`
and the two links that older builds open; `task` says why it is written, which decides
what a failure means. `Crash` ends an attempt at any point and frees the lock, as the
kernel does; `WriteFails` is a refused write; `DamageFile` and `DamageManifest` are the
disk's. `Held` is what `currentCertificatePairLocked` would return now, read off the
disk: the refinement maps the register's `held` to it, so that the steps of a
publication between two writes are stutters and exactly the one that replaces the
manifest renews.

The register promises this of a disk that refuses no more than two writes and is damaged no
more than once, however many attempts crash; beyond that its promise is void (`Void`). The
limits are the code's: a pair of an older build whose migration is refused three times (in
the look a process starts with, and in both looks of the attempt after it) is replaced
although it is not due, and a manifest that is damaged while it is being pointed back after
another damage is written over with the pair before, due or not.

### EventStore and FeedSource

A line of the journal is a record; `Applied` is what the handler makes of it in memory
and `Replayed` what a start does, because they are separate code. `Land` says what a
write leaves on disk: nothing, a part of the line, the line without its newline, or
all of it, after which `Sync` may still fail; the file is "torn" until the next
write closes it. `refused` remembers the lines whose operation was answered with an
error, so that `WallIsReplay` can compare the wall with the accepted ones. `AddPost` looks
for its photo before the lock, `SaveMedia` may put it in the folder of the party that
was open before (`noted`), and `MakeThumb` is the one worker with its file and then its
line. JoinParty is five steps. `FeedSource` keeps of all this the posts that guests see
with their stamps, the largest stamp, and the revision as the start that drew it and its
moves since; `shown` is mapped to the posts that are neither deleted nor hidden.

### WallFeed

`polls` are the requests of one page: its loop, and the one after a write of its guest,
each "sent", "parked", "captured" (subscribed), "answered". `Capture` is the
subscription, `Snapshot` the read under the store's lock, `Receive` all of `feedTick`
after the answer: tag, cursor, nodes that go, posts that are placed. `Cut` is an answer of
which only the headers came, `Lose` a request or an answer that did not, `Clear` the two
handlers that redraw the wall. `spoiled` marks a page that drew an older answer over a
newer one or cleared a wall its tag still vouches for (section 6, 15 and 16); properties
are about the others.

## 3. Runs

| Run | Shows | Bounds |
|---|---|---|
| `contribute` | beliefs are true, media precedes the playlist, the status is honest, the contribution converges | two rooms, two assets, 2 segments and asset revisions, 3 changes of target or flag, 2 incarnations, 1 fault |
| `room_plane` | no lost wakeup, honest tags, ordered writes, guests converge | one guest who reads and posts, one kind, 2 bodies, 2 planes, queue of 2, 3 posts, 2 changes, 1 fault |
| `origin_room` | page and assets survive, the oldest goes first, memory bounded, refused photos vanish | store of 2, 2 photos, room for 1, queue of 1 |
| `playlist_wait` | nobody stays parked on a superseded playlist | 2 readers, 1 upload at a time, media sequence numbers 0 and 1, parts 0 and 1 |
| `relay_mode` | mode, verdicts and decisions | 2 networks, 2 relay rooms, the loop and one request; preferences auto, direct, relay |
| `broadcaster` | a Stop holds, a set that is on has an encoder, no orphan, every Go Live answered, honest blame, "stopping" ends | 2 starts of any origin, 2 Stops of the DJ |
| `clock_calibration` | both error bounds | 3 ticks a millisecond, offsets -4..4, round trips to 5, 9 ticks |
| `certificate_pairs` | the disk is a register, no mixed halves, renewal | 2 callers, 3 pairs, 1 crash, 1 refused write, 1 damaged file, what older builds left |
| `activation` | one replacement, identity kept, current commits, convergence | one loop of each kind, 2 bases, 2 installs forgotten, 1 lost request, 1 renewal |
| `event_store` | wall and journal agree, the joiner's link, the store is a `FeedSource` | one post, comment, photo and track, two own parties and another's, 3 lines in a journal, 2 failed writes, restarts or joins |
| `wall_feed` | a cursor misses nothing, the page catches up | one post, 2 stamps, both polls, 1 move of the revision in each start, 2 mishaps |
| `event_store_night` | a disagreement (section 6, 1) | one line, one restart |

Why the bounds are enough. An event that matters once may happen once more than the
scenario needs: two incarnations make one loss and one rebirth, two changes under a
cycle make a stale result and a fresh one, three consecutive failures need no more
than a stale session and the fault that is there. What small numbers cannot show is
covered by the proofs where there are some: `RoomPlane` is checked with one kind of
snapshot and proved for any number of kinds, readers and posters. A queue of two holds two
writes of a plane, a drain takes both in one digest, and a third post finds the queue full or
comes while the digest is on its way, so that their order could be lost. `contribute` has
two assets, so that a restart can fall between those of one push. What that loses (section
6, 2) is excepted by name: in `Recovers` by `LeftBehind`, an asset that an older incarnation
took in a push of which the present one took another; in `AssetsAreStored`, which is proved
for any number of assets, by `OneIncarnation`. In `broadcaster` two
starts make every pair that can meet: one at work and one that supersedes it, one
published and one that replaces it, and each brings a Stop of its own; three or more are
covered by the proofs, of everything but `StoppingEnds`. In `relay_mode` the preference
`local` is left out to keep the run short; it decides like `direct` without internet.

In `certificate_pairs` three pairs are the one an older build left, the one that
replaces it and the one that replaces that; two callers are one that fetched and one
that published meanwhile; and one mishap of each kind can meet the two others. In
`activation` an install that is forgotten twice is one that is forgotten again while
the first replacement is under way. In `event_store` one post suffices because a line
touches one post, except that of a thumbnail, which touches those of one photo; three
lines are a torn one, the one after it and one that changes what they made. `wall_feed`
draws one post because posts do not depend on one another on the page; two mishaps are,
say, a forced poll and a cut answer, or a restart under a forced poll.

Deadlock is not checked: every model stops when its bounds are used up, and the programs
modelled are servers that wait. Symmetry is used where the set is a set of model values
and no liveness is checked: photos, networks, targets, parties. `contribute` and
`room_plane` check liveness, so what is alike there is told apart by the start instead
(`MCContribute`, `MCRoomPlane`): the first target is `r1`, the first body shown is `b1`; and
the assets of a push go in one order, as `PageAssets` (`server/roomsnapshot.go`) gives
them. The type invariants are proved for every module that is run (section 4); the runs
spend themselves on the rest.

### Fairness

* `Contribute`: weak fairness of `Loop`, the steps of the one goroutine of `Run` and the
  origin's answer to it. A goroutine that can run does, and requests have timeouts, so a
  request ends in a reply or in a failure. Nothing is assumed of faults,
  restarts, the DJ or the muxer.
* `RoomPlane`: weak fairness of the Mac's loop (a ticker), of each guest's poll (the page
  polls again 150 ms after each answer) and of each post under way.
* `PlaylistWait`: weak fairness of each reader's wait, each upload's broadcast, the
  clock and the timers; strong fairness of `Store` and `Check`, which acquire a
  `sync.Mutex`: its starvation mode hands a lock that keeps being released to the
  waiter in the end. Nothing obliges the Mac to publish; `PublishesReleaseTheLate`
  says what happens if it does.
* `CertificatePairs`: weak fairness of each caller's next step (the activation loop calls
  again, `lockCertificateState` polls) and of the broker's renewal of its own pair.
* `Activation`: weak fairness of each loop's next step; nothing of the broker's memory or
  the faults, which are bounded.
* `WallFeed`: weak fairness of the handler (a parked request ends after 25 seconds), of
  the arrival of its answer, of the page's loop and of the announcement after a change of
  party, the next call of the goroutine that made the change.
* `Broadcaster`: weak fairness of the delayed kill, of the death of a process that was
  sent SIGKILL, and of the waiter. Nothing makes an encoder heed the interrupt, and no start
  has to go on.

## 4. Proofs

All theorems hold for every value of the constants under the modules' `ASSUME`s,
which only say that bounds are naturals and that special values are distinct.

* `MacProofs`, of `Contribute`: `TypeCorrect`, `BeliefsAreTrue` (`BeliefsHold`: `SentIsStored` and
  `PageIsStored`), `RunningIsHonest`. The inductive invariant `BeliefInv` adds to the
  properties that epochs are issued in order (`EpochsIssued`), that a cycle of
  the current generation talks to the current target (`CycleIsCurrent`) and has one
  (`CycleHasRoom`), that a reply names an incarnation that holds the object as long as
  it lives (`ReplyIsTrue`), that the mark is made under the epoch just observed
  (`MarkFollowsReply`), and that nothing is believed of a room that never answered
  (`FreshTarget`). `SentIsStored` alone is not inductive: the step that marks needs all of
  these. `PlaylistsArePlayable` (`MediaBeforePlaylist`) adds that the media the cycle
  has passed are in its room unless the room was lost meanwhile (`CycleKept`).
  `AssetsAreTrue` (`AssetsAreStored`) adds `AssetStore` and `AssetLoop`: an incarnation that
  acknowledged an asset holds it as new as the revision believed (`BelievedIsHeld`), and,
  while the push goes on, as new as the fingerprint it will record (`PushedIsHeld`), because
  the bodies are read after the fingerprint (`BodiesAreNewer`); and a revision is believed
  only if the incarnation last heard from acknowledged one of the assets
  (`BelievedIsHere`). If one incarnation took them all, it is that one.
* `MacProofs`, of `EventStore`: `StoreTypeCorrect`, `MemoryIsReplay` (`WallIsReplay`), `JoinedLinkStays`
  (`JoinerKeepsLink`) and `StoreFeeds` (`IsFeedSource`, the refinement: each handler, accepted or
  refused, each stage of a join and each restart is a step of `FeedSource` or a
  stutter), for any posts, comments, photos, tracks and parties and journals of any length.
  `EventInv` says that the journals are lines (`Journals`), that no stamp on the wall is later
  than the last one given out (`Memory`), that the wall is the replay of the accepted lines
  (`Agrees`), and what the link is at each stage of a join and for the party that a restart
  would resume (`Links`). The replay is a recursive function of the position in the journal.
  What it is at a position follows from its value at the one before, so its facts - that a
  replay depends on no line after the position, that void lines change nothing,
  that the replay of lines makes a wall - are proved by taking the least position
  at which one would fail (`LeastNumber`), since the prover has no induction rule it can use.
  One lemma for each kind of line then shows that the handler and the replay of the line
  it wrote agree (`HandlersAgree`).
* `RoomPlaneProofs`: `TypeCorrect`, `NoGuestMissesNews`, `TagsAreHonest`,
  `WritesAppliedOnce`. Reads rest on `ReadInv`: versions are never beyond the counter,
  and a tag with the body shown under it is what the plane holds or held under
  an older version (`Names`). Every operation of a plane only lets it grow in that sense
  (`PlanesGrow`, `GrowthKeeps`). Writes rest on `WriteInv`: the writes applied, drained
  and queued are three consecutive stretches of one order (`QueueInv`).
* `OriginRoomProofs`, of `OriginRoom`: `TypeCorrect`; `PageStays` (the page and sticky
  assets, once stored, are never evicted) from `Pins`; `RefusalIsClean` from `Traces`, which
  says where a photo may be at each point of its upload; `MemoryIsBounded` and `WindowRolls`
  (`OldestGoes`) from `Room`: the order lists each stored name once (`Listed`), and the pins
  are the page, the assets, the photos kept and one name more (`PinsNamed`), so that what
  `PutMedia` leaves beside them bounds the room. How much the eviction keeps is a fact about
  positions in a list; it is proved by taking the least position where it would fail
  (`LeastIn`), since the prover has no induction.
* `LongPollProofs`, of `PlaylistWait`: `WaitTypeCorrect` and `NoPublishIsLost` (`NoLostPublish`), from
  `Turns` (who holds the lock) and `ArmedSawNothing` (between check and wait no publish was
  stored).
* `LongPollProofs`, of `WallFeed`: `WallTypeCorrect` and `NothingIsMissed` (`NothingBehindCursor`), for any
  posts and stamps and any number of moves and mishaps. A tag of this start of the Mac vouches for the cursor
  whichever of its revisions it names (`Ours`), since stamps have only grown since. So
  the invariant `WallInv` says what an answer under way is right about (`AnswersHold`: every post not changed
  since it was cut is among its ids and, if later than what the request had, among its
  posts), which of two answers is the older (`AnswersOrdered`), that the cursor is behind
  the wall and behind every answer that does not come out of turn (`CursorBehind`), that a
  request relies on no more than the page has (`SinceBehind`), and, what all that is for,
  that the page has drawn everything up to its cursor (`Drawn`).
* `RelayProofs`, of `ClockCalibration`: `ClockTypeCorrect`, `OffsetBounded` and `SourceTimeBounded`, for every clock
  offset, delay, tick rate and number of exchanges, from what each timestamp says about
  the instant it was taken at (`Timestamps`) and what each anchor keeps of it
  (`Anchors`). The second has one more millisecond than the published
  uncertainty: publication rounds down again.

* `BroadcasterProofs`: `TypeCorrect`, `StopIsKept`, `OnMeansEncoding`, `NothingOrphaned`,
  `AnswerComes`, `BlameIsFair`, for any number of starts and Stops. They rest on `Inv`: no two
  sections take the same generation (`Generations`), a process is as far as its start
  (`Processes`), the published encoder that nobody has signalled is newer than every Stop
  a start has made (`PublishedIsNewest`), while the newest generation is a start's the
  set is on or failed (`NewestShows`), a DJ who wants to be live has a start coming or
  the newest one (`WantedIsComing`), and the newest tap that was heard counts as up
  (`HeardIsUp`). `NoOrphan` needs besides that an overlap of two starts, once there,
  stays (`OverlapStays`).

* `RelayProofs`, of `RelayMode`: `TypeCorrect`, `RoomIsServiceable` (`ModeIsServiceable`), `NoStaleDirect`
  (`DirectIsVouchedHere`), `MemoryIsVouched` (`RememberedIsVouched`), `DecisionsAreFlushed`
  (`NoDecisionLost`), `LastDecisionArrives` (`DecisionArrives`), for any networks, rooms and
  console requests. None is inductive alone: the mode is always the one the present
  evidence decides (`ModeIsDecided`), there is internet only once there was a registration
  (`NetIsRegistered`), and a proven path was proven on the network of the registration
  (`ProofIsVouched`). The last rests on `Deliveries`: what waits is what was decided last
  (`PendingIsNewest`); if it was taken while no other was being delivered, at most one
  delivery is under way (`OneDelivers`), and unless that decision still waits, it is what is
  being delivered (`DeliversNewest`).
* `ActivationProofs`: `TypeCorrect`, `ReplacedOnce` (`OneReplacement`), `IdentityStays`
  (`IdentityKept`), `NothingStaleIsCommitted` (`CommitsAreCurrent`), for any number of loops of either
  kind. They rest on `Ids`: whoever registers has seen the install on record refused
  (`Replacing`, `Refused`), the record is never older than what an attempt uses
  (`RecordIsNewest`), and a host that an attempt would show is of no install older than the
  one its result is of (`Posted`, `HostIsLater`); so a result whose owner is on record names
  a host of that very install. `ReplacedOnce` counts besides: every install given out is known
  or was forgotten, and each one this Mac does not use cost a lost answer (`Accounted`).
* `CertificatePairsProofs`: `TypeCorrect`, `HalvesMatch` (`HalvesAgree`), `DiskIsRegister` (`IsRegister`,
  the refinement: the initial states map to the register's and each step to one of its
  steps or a stutter), for any number of processes, pairs and crashes. The invariants are
  layered: what the disk holds whoever writes (`Kept`), what the holder of the lock may rely
  on at each place (`Flow`), when what is held is due (`Renewing`), and what the legacy names lead
  to (`Halves`).

The assumptions on constants are named in the modules that declare them: that special
values are none of the ordinary ones (`NoRoomIsNoTarget`, `LinkIsNoPair`, `NobodyCalls`, `IdsDiffer`,
`NoneIsNoTag`, ...), that bounds are naturals (`BoundsAreNumbers`, `StoreBounds`, ...), that stamps
are numbers, that a page has a loop and at most one forced poll, that there is a first pair
and a first base, and that the origin may store at least one medium (`MaxMedia` is 512 in the code).

Only model-checked, and why. The liveness properties (`Recovers`, `GuestsCatchUp`,
`PublishesReleaseTheLate`, `StoppingEnds`, `Renews`, `Converges`, `CatchesUp`): liveness under fairness is out
of the prover's reach. Every other property of a passing run is a theorem.
`NightIsResumed` is violated (section 6, 1), so there is nothing to prove.
`OriginRoom`'s eviction loop is written in closed form with `CHOOSE` over positions
instead of recursion, so that it can be used in a proof.

## 5. What is left out

Of the modelled components: bodies, MIME types, authorization, CORS, compression and
limits on sizes; partial segments (a media object is a segment of
the window, the init segment or the preload hint); presence and listener delay in the plane; room
health (`Store.Health`); the retry and refresh intervals of the registration loop and its broker exchange, whose
result is an input; verdict ages, which are a choice between "still good" and "too
old"; `OnMode`, which only updates the console; clocks that step or drift.

Of the broadcaster also the delivery mode and the mirror directory, which nothing but
tests changes, the settings of the encoder and when they are resolved, the log, and the
count of three revivals in the health watch.

Of activation: the HTTP of the broker, bring-your-own certificates, the trust store, the
polling intervals, the loading of a renewed certificate (section 6, 22). Of the
certificates: temporary files and their cleaning, which no reader is shown, and what makes
a pair valid, which is `remaining`. Of the event store: profile, features, guests' names
and counts, which are settings written whole; a failed write of `party.json` or
`current.json`; images, EXIF, thumbnails' pixels, the recap page and the cloud bundle, which
are conversions; two joins at once. Of the feed: the
merge of peers' walls, a guest's view of her own hidden posts, the import of the relay
room's writes.

### Not modelled

With the reason, in `PROJECT.json`: the media server supervisor (its effect on a set is an
encoder's death in `Broadcaster`), peers, the console server's routes, statistics,
schedule, machine facts, the origin service, the Mac app, the broker's own storage; the
commit gate of the plane loop is one mutex around a callback. External to the Go program
and modelled from its use: the muxer's playlist, the broker's answers, what the disk keeps
of a write.

## 6. Disagreements between the code and what is said of it

The first is shown by a run. Of the others, 2 to 15, 18 and 23 were refuted by TLC in the
same modules, with the formula that is given where it says more than the text; the rest
were read off the code.

1. A night that is not resumed (`event_store_night`). `current.json` says when its party
   was last current, but is written only when a party is opened or joined: `TouchParty`
   (`party.go:173`) has no caller. A restart more than eight hours after the start of
   the app opens a new party, whatever was posted minutes before, against
   `party.go:30-32` ("a crash resumes the same night") and 171-172 ("Called when a set
   starts").
2. Assets lost across a restart (`AssetsAreStored` without `OneIncarnation`). The asset
   loop (`contribute.go:765-780`) records `assetsRev` at its end even when an origin
   restart in the middle made `observeEpochAt` clear it, so assets sent before the
   restart are not sent to the new incarnation. `contribute.go:1079-1082` says
   everything must be. `Recovers` and `AssetsAreStored` except exactly this.
3. Photos evicted. `Pin` replaces the set of pins on every playlist and keeps only the
   sticky names (`origin.go:200-213`); photos (`origin.go:146`) are in the replaced set,
   against `origin.go:140-141`.
4. A reader past its deadline (`late[g] ~> reader[g] = "idle"`). The timer of a blocking
   reload broadcasts without the lock (`origin.go:291`); between the deadline check and
   the registration in `Wait` it wakes nobody, and the reader stays parked until the
   next publish, against `origin.go:282-283`.
5. A decision overtaken. `flushModeChange` delivers after unlocking
   (`relay.go:286-299`), so "push" can be delivered after "do not push" and stay,
   against `main.go:301-304`. `DecisionArrives` excepts exactly this (`crossed`).
6. Two starts that prepare at once both launch an encoder, and the first one's is left
   without a handle, against `broadcast.go:670-673`. `NoOrphan` excepts exactly this.
   For the same reason a Stop that falls between a start's own `Stop` (509) and its
   `gen++` (539) does not make it abort, against 798.
7. A tag that is used again (`Current(g, live)`). A swept room starts its versions at 0
   again (`origin.go:382-383` drops the room that `Reset` was to keep the counter for),
   so a guest's old tag can name new content, against `roomplane.go:307-310`.
8. A post nobody reads (`<>[](planes[p].writes = <<>>)` of every plane). A post read
   while its room is swept is queued in a plane nobody drains and answered 202, against
   `handler.go:469-470`. `GuestsCatchUp` says nothing of such a post.
9. A cycle that notices a restart in its middle goes on and publishes a playlist whose
   first media went to the old incarnation (`contribute.go:784`, against 610-613). The
   next cycle repairs it. `MediaBeforePlaylist` excepts exactly this.
10. A guest's photo refreshes `lastPublish` (`origin.go:137`), so a room the Mac left
    can look live, against `origin.go:390-391`.
11. A push before its target
    (`[][~contrib.enabled /\ contrib'.enabled => contrib.target = reg.target]_vars`).
    Another caller's flush can start the push before `OnTarget` has delivered the new
    target (`relay.go:455-462`, against 71-74).
12. Two preferences saved at once lose one on disk: `saveOverride` and `saveReach` read
    and write the file without a lock (`mode.go:266-316`, against `relay.go:189`, 214).
13. A failed report while the DJ asks for direct is remembered as direct
    (`relay.go:638`, against 635-637). `RememberedIsVouched` allows exactly this.
14. The relay preference pushes media of a Wi-Fi-only room (`mode.go:137-145`, against
    43-44), and the local preference does not stop the push of a room with cloud reach
    (`relay.go:270-271`, against `mode.go:53`).
15. Two polls of one page (the loop's and the one forced by a write) are not ordered: an
    older answer drawn over a newer one leaves a post out while the tag holds, until the
    next full answer (`listener.html`, `dj.html`; `wall.html` has one loop).
16. A change of the switches makes the page clear its wall although the answer that
    brought it was incremental (`listener.html:4028-4037`), "see more" (3955) clears it
    and waits for the poll it forces, and an answer of which only the headers came keeps
    the new tag with the old cursor. Such a page is short of posts until its next full
    answer.
17. A photo posted through the relay can be lost from its post: its bytes are imported
    asynchronously (`server/roomsnapshot.go:129-215`), the post that follows is applied
    at once, and `AddPost` drops media that is not there yet (`event.go:1279-1298`),
    against `event.go:1103-1104`.
18. A post left behind. `JoinParty` checks that its party is empty and switches later: a
    post in between stays in the abandoned one, against `party.go:340-343`.
19. A thumbnail made between `AddPost`'s look for it and its lock finds no post to mark,
    and is never recorded.
20. A write whose `Sync` fails after all of it arrived is reported as failed and comes
    back at the next start.
21. A damaged generation file makes publishing the same pair fail as a "digest
    collision" (`state.go:198`) until the broker issues another. `Renews` excepts
    exactly this.
22. A certificate that is renewed while the host stays is not loaded by the running
    server (`main.go:487-506`), against 635; and a cached result without an install
    snapshot can show the name of a replaced install (`activate.go:748-751`), which
    `CommitsAreCurrent` excepts.
23. A set that comes back after Stop. The automatic restarts decide under the lock and
    begin in a goroutine of their own (`broadcast.go:286`, 325, 361); a Stop in between
    finds nothing to tell them, against 350-351.

## 7. Plan

The model is as complete as section 5 says, and what it says of safety is proved. What
the proofs could still add:

1. The two halves of the guest feed meet in `FeedSource`: state what that gives of the
   page over the store as one theorem.
2. `MediaBeforePlaylist` and `AssetsAreStored` rest on what the origin does with an
   upload, which `OriginRoom` models with its evictions: show that a room that follows
   `OriginRoom` keeps what `Contribute` believes of it within the window.
3. Smaller steps where a leaf of a proof takes the prover long.

## 8. Reproducing

    tlc -workers 2 -config Contribute.cfg MCContribute.tla
    tlapm MacProofs.tla

`PROJECT.json` names the module and configuration of every run, and for each
property a slip under which it fails.

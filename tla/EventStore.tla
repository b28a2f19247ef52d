----------------------------- MODULE EventStore -----------------------------
(***************************************************************************)
(* The event store of the Mac (internal/event): the wall in memory, the    *)
(* journal on disk that produces it, and the party it belongs to.  Every   *)
(* operation is validated against the wall, written as one line of the     *)
(* journal and only then applied; a write may fail, or the process die, at *)
(* any byte.  A start replays the journal of the party it resumes, and a   *)
(* Mac that joins another's party replays its own copy of that one.        *)
(*                                                                         *)
(* The two halves of an operation - what the handler does to the wall      *)
(* (Applied) and what the replay makes of its line (Replayed) - are        *)
(* separate code and are modelled separately.  Texts, names and reactions  *)
(* of the crowd that are never journalled are left out.                    *)
(***************************************************************************)
EXTENDS Integers, Sequences, FiniteSets, SequencesExt

CONSTANTS
  Post, Reply, Photo, Track,  \* what guests and the DJ add; every id is new
  Mine,         \* the ids this Mac can give to a party
  Theirs,       \* the party of another Mac on this network
  None,
  MaxLines,     \* bound: lines of a journal
  MaxMishaps    \* bound: failed writes, restarts and attempts to join, together

ASSUME StoreBounds == MaxLines \in Nat \ {0} /\ MaxMishaps \in Nat
ASSUME IdsDiffer == Theirs \notin Mine /\ None \notin Mine \cup {Theirs} \cup Photo \cup Track

VARIABLES
  journal,  \* .state/posts.jsonl of each party, its lines
  file,     \* whether it is "absent", "ended" by a newline, or "torn"
  uploads,  \* the photos in the folder of each party
  thumbs,   \* those a thumbnail lies in its .state for
  link,     \* party.json of the other's party: whose link it holds, None before it exists
  noted,    \* current.json: the party to resume
  busy,     \* the party of the last accepted change, while that is within the idle window
  dir,      \* the open party
  wall,     \* posts, track and setlist in memory
  clock,    \* lastActivity
  revision, \* notifyID: the start that drew it, and its moves since
  owed,     \* use has replaced the wall and not yet called changed
  joining,  \* how far JoinParty has come
  refused,  \* lines of the open journal whose operation was refused
  mishaps   \* failures, restarts and joins so far

disk == <<journal, file, uploads, thumbs, link, noted>>
memory == <<dir, wall, clock, revision, owed>>
storeVars == <<disk, busy, memory, joining, refused, mishaps>>

Party == Mine \cup {Theirs}
Cut == [op |-> "cut"]
Empty == [posts |-> <<>>, now |-> None, played |-> <<>>]
Merge(f, g) == [x \in DOMAIN f \cup DOMAIN g |-> IF x \in DOMAIN g THEN g[x] ELSE f[x]]

-----------------------------------------------------------------------------
\* The lines, and what the handlers and the replay make of them.

NewPost(m, thumb, a) ==
  [act |-> a, photo |-> m, thumb |-> thumb, deleted |-> FALSE, hidden |-> FALSE,
   replies |-> {}, muted |-> {}, likes |-> 0]

\* What one line does to the post it names.
Changed(x, l) ==
  CASE l.op = "delete"         -> [x EXCEPT !.deleted = TRUE]
    [] l.op = "mod"            -> [x EXCEPT !.hidden = l.hide]
    [] l.op = "comment"        -> [x EXCEPT !.replies = @ \cup {l.reply}]
    [] l.op = "comment-mod"    -> [x EXCEPT !.muted = IF l.hide THEN @ \cup {l.reply} ELSE @ \ {l.reply}]
    [] l.op = "comment-delete" -> [x EXCEPT !.replies = @ \ {l.reply}, !.muted = @ \ {l.reply}]
    [] l.op = "post-reaction"  -> [x EXCEPT !.likes = @ + 1]

OnPost == {"delete", "mod", "comment", "comment-mod", "comment-delete", "post-reaction"}

\* rotateTrackLocked: the track that ends joins the setlist.
Rotated(w) == IF w.now = None THEN w.played ELSE Append(w.played, w.now)

Retracked(w, l) ==
  CASE l.op = "track-current" -> [w EXCEPT !.played = Rotated(w), !.now = l.track]
    [] l.op = "track-clear"   -> [w EXCEPT !.played = Rotated(w), !.now = None]
    [] l.op = "track-drop"    ->
         [w EXCEPT !.now = IF @ = l.track THEN None ELSE @,
                   !.played = SelectSeq(@, LAMBDA t : t # l.track)]

OnTrack == {"track-current", "track-clear", "track-drop"}

\* SetMediaThumb marks the posts that stand and do not show the thumbnail yet.
Unmarked(w, m) == {p \in DOMAIN w.posts : w.posts[p].photo = m /\ ~w.posts[p].deleted /\ ~w.posts[p].thumb}

Marked(w, S, a) ==
  [w EXCEPT !.posts = [p \in DOMAIN @ |-> IF p \in S THEN [@[p] EXCEPT !.thumb = TRUE, !.act = a] ELSE @[p]]]

\* The wall after the handler of a line has applied it.
Applied(w, l) ==
  CASE l.op = "post"    -> [w EXCEPT !.posts = Merge(@, [p \in {l.post} |-> NewPost(l.photo, l.thumb, l.act)])]
    [] l.op \in OnPost  -> [w EXCEPT !.posts[l.post] = [Changed(@, l) EXCEPT !.act = l.act]]
    [] l.op = "thumb"   -> Marked(w, Unmarked(w, l.photo), l.act)
    [] l.op \in OnTrack -> Retracked(w, l)

AtLeast(x, a) == [x EXCEPT !.act = IF @ < a THEN a ELSE @]

\* The wall after use has read a line: an unreadable one, or one about no post, changes nothing.
Replayed(w, l) ==
  CASE l.op = "post"    -> Applied(w, l)
    [] l.op \in OnPost  ->
         IF l.post \in DOMAIN w.posts THEN [w EXCEPT !.posts[l.post] = AtLeast(Changed(@, l), l.act)] ELSE w
    [] l.op = "thumb"   ->
         [w EXCEPT !.posts = [p \in DOMAIN @ |->
            IF @[p].photo = l.photo THEN AtLeast([@[p] EXCEPT !.thumb = TRUE], l.act) ELSE @[p]]]
    [] l.op \in OnTrack -> Retracked(w, l)
    [] OTHER            -> w

\* The wall after the lines, but for those in S.
ReplayBut(lines, S) ==
  LET after[i \in 0..Len(lines)] ==
        IF i = 0 THEN Empty ELSE IF i \in S THEN after[i - 1] ELSE Replayed(after[i - 1], lines[i])
  IN after[Len(lines)]

Replay(lines) == ReplayBut(lines, {})

LastActivity(w) == LET acts == {w.posts[p].act : p \in DOMAIN w.posts} IN Max(acts \cup {0})

-----------------------------------------------------------------------------
\* Starting, and writing a line.

\* Nothing in the folder but what the app puts there itself.
PartyIsEmpty(q) == file[q] = "absent" /\ uploads[q] = {}

Visited == {<<>>} \cup {<<[op |-> "post", post |-> p, photo |-> None, thumb |-> FALSE, act |-> 1]>> : p \in Post}

\* The first start; this Mac may have been in the other's party before.
StoreInit ==
  /\ dir \in Mine
  /\ \E before \in Visited :
       /\ journal = [q \in Party |-> IF q = Theirs THEN before ELSE <<>>]
       /\ file = [q \in Party |-> IF q = Theirs /\ before # <<>> THEN "ended" ELSE "absent"]
       /\ link = IF before = <<>> THEN None ELSE "theirs"
  /\ uploads = [q \in Party |-> {}]
  /\ thumbs = [q \in Party |-> {}]
  /\ noted = dir
  /\ busy = None
  /\ wall = Empty
  /\ clock = 0
  /\ revision = <<0, 0>>
  /\ owed = FALSE
  /\ joining = "idle"
  /\ refused = {}
  /\ mishaps = 0

Moved == <<revision[1], revision[2] + 1>>

NextActivity_WallClock == clock

NextActivity == clock + 1

\* What is left of a write: nothing (the file perhaps created, the torn line before it
\* closed), a part of the line, all of it but the newline, or the whole line.
Land_Fuses(l, how) ==
  /\ journal' = [journal EXCEPT ![dir] =
       IF how = "nothing" THEN @
       ELSE IF file[dir] = "torn" THEN Append(Front(@), Cut)
       ELSE Append(@, IF how = "cut" THEN Cut ELSE l)]
  /\ file' = [file EXCEPT ![dir] = IF how = "nothing" THEN @ ELSE IF how = "whole" THEN "ended" ELSE "torn"]

Land(l, how) ==
  /\ journal' = [journal EXCEPT ![dir] =
       IF how = "nothing" THEN @ ELSE Append(@, IF how = "cut" THEN Cut ELSE l)]
  /\ \E now \in (CASE how = "nothing" -> {file[dir], "ended"}
                   [] how = "whole"   -> {"ended"}
                   [] OTHER           -> {"torn"}) : file' = [file EXCEPT ![dir] = now]

Accept(l) ==
  /\ Land(l, "whole")
  /\ wall' = Applied(wall, l)
  /\ revision' = Moved
  /\ busy' = dir
  /\ UNCHANGED <<refused, mishaps>>

\* The write or its Sync fails: the caller is told so, whatever the disk has kept.
Refuse(l) ==
  /\ mishaps < MaxMishaps
  /\ \E how \in {"nothing", "cut", "unended", "whole"} :
       /\ Land(l, how)
       /\ refused' = IF how = "nothing" THEN refused ELSE refused \cup {Len(journal[dir]) + 1}
  /\ mishaps' = mishaps + 1
  /\ UNCHANGED <<wall, revision, busy>>

Write(l) ==
  /\ Len(journal[dir]) < MaxLines
  /\ Accept(l) \/ Refuse(l)
  /\ UNCHANGED <<uploads, link, noted, dir, owed, joining>>

\* A line about the posts takes a stamp, refused or not; one about the track does not.
Stamped(l) == Write(l) /\ clock' = NextActivity /\ UNCHANGED thumbs

Unstamped(l) == Write(l) /\ UNCHANGED <<clock, thumbs>>

-----------------------------------------------------------------------------
\* The operations.

Standing == {p \in DOMAIN wall.posts : ~wall.posts[p].deleted}

Fresh(p) == \A q \in Party : \A i \in DOMAIN journal[q] : journal[q][i].op = "post" => journal[q][i].post # p

\* AddPost looks for the photo it was given, and for its thumbnail, before it takes the
\* lock: in the party then open, and perhaps before the file was there.  A photo it does
\* not find is left out of the post.
Found == {[photo |-> None, thumb |-> FALSE]} \cup
  UNION {[photo : uploads[q], thumb : {FALSE}] \cup [photo : uploads[q] \cap thumbs[q], thumb : {TRUE}] : q \in {dir, noted}}

AddPost(p, found) ==
  /\ Fresh(p)
  /\ Stamped([op |-> "post", post |-> p, photo |-> found.photo, thumb |-> found.thumb, act |-> NextActivity])

AddComment(p, c) ==
  /\ p \in Standing
  /\ \A q \in Party : \A i \in DOMAIN journal[q] : journal[q][i].op = "comment" => journal[q][i].reply # c
  /\ Stamped([op |-> "comment", post |-> p, reply |-> c, act |-> NextActivity])

AddPostReaction(p) ==
  /\ p \in Standing
  /\ Stamped([op |-> "post-reaction", post |-> p, act |-> NextActivity])

SetPostState(p, hide) ==
  /\ p \in Standing
  /\ Stamped([op |-> "mod", post |-> p, hide |-> hide, act |-> NextActivity])

SetCommentState(p, c, hide) ==
  /\ p \in Standing
  /\ c \in wall.posts[p].replies
  /\ Stamped([op |-> "comment-mod", post |-> p, reply |-> c, hide |-> hide, act |-> NextActivity])

DeleteComment(p, c) ==
  /\ p \in Standing
  /\ c \in wall.posts[p].replies
  /\ Stamped([op |-> "comment-delete", post |-> p, reply |-> c, act |-> NextActivity])

Delete(p) ==
  /\ p \in Standing
  /\ Stamped([op |-> "delete", post |-> p, act |-> NextActivity])

\* By the DJ, or by the recognizer when it hears another track than the one that plays.
SetCurrentTrack(t) == Unstamped([op |-> "track-current", track |-> t])

ClearCurrentTrack == wall.now # None /\ Unstamped([op |-> "track-clear"])

DropTrack(t) ==
  /\ wall.now = t \/ t \in Range(wall.played)
  /\ Unstamped([op |-> "track-drop", track |-> t])

-----------------------------------------------------------------------------
\* Photos and their thumbnails.

\* SaveMedia and ImportMedia read which party is open, receive the bytes, and link the
\* file into the folder of that party, which need not be the open one any more.
SaveMedia(m) ==
  /\ \A q \in Party : m \notin uploads[q]
  /\ \E q \in {dir, noted} : uploads' = [uploads EXCEPT ![q] = @ \cup {m}]
  /\ UNCHANGED <<journal, file, thumbs, link, noted, busy, memory, joining, refused, mishaps>>

\* The one worker makes a thumbnail beside the file it was given, then SetMediaThumb
\* records it, if that party is open and a post shows the photo without it.  (What an
\* AddPost does in between is what it does before, or after with an early look; a change
\* of party in between leaves the thumbnail unrecorded.)
MakeThumb(m) ==
  \E q \in Party :
    /\ m \in uploads[q] \ thumbs[q]
    /\ thumbs' = [thumbs EXCEPT ![q] = @ \cup {m}]
    /\ \/ /\ q = dir /\ Unmarked(wall, m) # {}
          /\ Write([op |-> "thumb", photo |-> m, act |-> NextActivity])
          /\ clock' = NextActivity
       \/ /\ q # dir \/ Unmarked(wall, m) = {}
          /\ UNCHANGED <<journal, file, uploads, link, noted, busy, memory, joining, refused, mishaps>>

-----------------------------------------------------------------------------
\* Parties.

\* SetJoinURL: a Mac publishes its own link, unless party.json says it has joined.  (In a
\* party of its own there is no other link to keep.)
SetJoinURL_Always ==
  /\ dir = Theirs
  /\ link' = "ours"
  /\ UNCHANGED <<journal, file, uploads, thumbs, noted, busy, memory, joining, refused, mishaps>>

SetJoinURL ==
  /\ dir = Theirs
  /\ link # "theirs"
  /\ link' = "ours"
  /\ UNCHANGED <<journal, file, uploads, thumbs, noted, busy, memory, joining, refused, mishaps>>

\* JoinParty, one at a time: this Mac's party must be empty when it looks.
JoinLooks ==
  /\ joining = "idle"
  /\ mishaps < MaxMishaps
  /\ dir # Theirs
  /\ PartyIsEmpty(dir)
  /\ joining' = "empty"
  /\ mishaps' = mishaps + 1
  /\ UNCHANGED <<disk, busy, memory, refused>>

\* use replays the journal of the other party and puts the result in place.  (Nothing is
\* written to that journal meanwhile: it is not the open one.)
JoinSwitches ==
  /\ joining = "empty"
  /\ dir' = Theirs
  /\ wall' = Replay(journal[Theirs])
  /\ clock' = LastActivity(wall')
  /\ owed' = TRUE
  /\ busy' = None
  /\ refused' = {}
  /\ joining' = "switched"
  /\ UNCHANGED <<disk, revision, mishaps>>

JoinAnnounces ==
  /\ owed
  /\ owed' = FALSE
  /\ revision' = Moved
  /\ UNCHANGED <<disk, busy, dir, wall, clock, joining, refused, mishaps>>

JoinNames ==
  /\ joining = "switched"
  /\ ~owed
  /\ link' = "theirs"
  /\ joining' = "named"
  /\ UNCHANGED <<journal, file, uploads, thumbs, noted, busy, memory, refused, mishaps>>

JoinNotes ==
  /\ joining = "named"
  /\ noted' = Theirs
  /\ revision' = Moved
  /\ joining' = "idle"
  /\ UNCHANGED <<journal, file, uploads, thumbs, link, busy, dir, wall, clock, owed, refused, mishaps>>

\* chooseParty resumes the noted party if it was noted lately or is empty.
Resumed(stale) ==
  IF ~stale \/ PartyIsEmpty(noted) THEN {noted} ELSE {q \in Mine \ {noted} : PartyIsEmpty(q)}

\* The process dies, in the middle of anything, and starts again.  The idle window may
\* have passed since current.json was written (stale), and since the last change (quiet).
Restart ==
  /\ mishaps < MaxMishaps
  /\ mishaps' = mishaps + 1
  /\ \E stale, quiet \in BOOLEAN :
       /\ quiet => stale
       /\ dir' \in Resumed(stale)
       /\ busy' = IF quiet THEN None ELSE busy
  /\ wall' = Replay(journal[dir'])
  /\ noted' = dir'
  /\ clock' = LastActivity(wall')
  /\ revision' = <<revision[1] + 1, 0>>
  /\ owed' = FALSE
  /\ refused' = {}
  /\ joining' = "idle"
  /\ UNCHANGED <<journal, file, uploads, thumbs, link>>

-----------------------------------------------------------------------------
Changes ==
  \/ \E p \in Post, found \in Found : AddPost(p, found)
  \/ \E p \in Post : AddPostReaction(p) \/ Delete(p)
  \/ \E p \in Post, hide \in BOOLEAN : SetPostState(p, hide)
  \/ \E p \in Post, c \in Reply : AddComment(p, c) \/ DeleteComment(p, c)
  \/ \E p \in Post, c \in Reply, hide \in BOOLEAN : SetCommentState(p, c, hide)
  \/ \E t \in Track : SetCurrentTrack(t) \/ DropTrack(t)
  \/ ClearCurrentTrack
  \/ \E m \in Photo : SaveMedia(m) \/ MakeThumb(m)

Parties ==
  \/ SetJoinURL
  \/ JoinLooks \/ JoinSwitches \/ JoinAnnounces \/ JoinNames \/ JoinNotes
  \/ Restart

StoreNext == Changes \/ Parties

StoreSpec == StoreInit /\ [][StoreNext]_storeVars

-----------------------------------------------------------------------------
\* The variables keep their types, and a journal its bound.
StoreTypeOK ==
  /\ \A q \in Party : Len(journal[q]) <= MaxLines
  /\ file \in [Party -> {"absent", "ended", "torn"}]
  /\ uploads \in [Party -> SUBSET Photo] /\ thumbs \in [Party -> SUBSET Photo]
  /\ link \in {None, "ours", "theirs"}
  /\ noted \in Party /\ dir \in Party /\ busy \in Party \cup {None}
  /\ owed \in BOOLEAN
  /\ DOMAIN wall.posts \subseteq Post /\ wall.now \in Track \cup {None}
  /\ clock \in Nat /\ revision \in Nat \X Nat
  /\ joining \in {"idle", "empty", "switched", "named"}

\* What a wall shows of the posts that stand, and the tracks.
Content(w) ==
  [posts |-> [p \in {q \in DOMAIN w.posts : ~w.posts[q].deleted} |-> [w.posts[p] EXCEPT !.act = 0]],
   now |-> w.now, played |-> w.played]

\* The lines of the open journal that record no accepted operation.
Void == {i \in DOMAIN journal[dir] : i \in refused \/ journal[dir][i] = Cut}

\* The wall is what a restart would make of the lines whose operations were accepted:
\* nothing acknowledged is lost to a torn line, nothing deleted or hidden comes back, and
\* the handlers and the replay agree, whatever failed or crashed before (use and the
\* handlers of event.go; appendLine's "torn last line must not eat the next record").
WallIsReplay == Content(wall) = Content(ReplayBut(journal[dir], Void))

\* A Mac in another's party hands out that party's link, not its own, whenever its own
\* is published while it joins (SetJoinURL and JoinParty in party.go).
JoinerKeepsLink == dir = Theirs /\ joining = "idle" => link = "theirs"

\* What guests may see, for those who follow the wall.
Shown == [p \in {q \in Standing : ~wall.posts[q].hidden} |-> wall.posts[p].act]

Feed == INSTANCE FeedSource WITH Stamp <- Nat, shown <- Shown

\* The store keeps the promise of FeedSource: stamps only grow and the revision moves in
\* the step that changes the wall (nextActivityLocked, changed and every handler).
IsFeedSource == Feed!SourceSpec

\* A start within the idle window of the last change resumes the party it was made in
\* (party.go: "a party stays current until this long after its last activity").
NightIsResumed == busy # None => dir = busy
=============================================================================

---------------------------- MODULE LongPollProofs ----------------------------
(***************************************************************************)
(* Proofs about the two requests that are held until there is news: the    *)
(* blocking reload of a room's playlist (PlaylistWait), for any number of  *)
(* readers and of overlapping uploads, and the poll of a Mac's wall        *)
(* (WallFeed), for any posts and stamps and any number of moves and        *)
(* mishaps.  The modules share no name, and no state.                      *)
(*                                                                         *)
(* NoLostPublish is not inductive: a reader about to wait has looked at    *)
(* the playlist some steps ago.  What makes it so is that the reader keeps *)
(* the lock meanwhile, so that what it saw still holds (ArmedSawNothing).  *)
(*                                                                         *)
(* NothingBehindCursor rests on what an answer under way says of the wall  *)
(* as it is now (AnswerHolds), and on which of two such answers is the     *)
(* older (AnswersOrdered).                                                 *)
(***************************************************************************)
EXTENDS PlaylistWait, WallFeed, TLAPS

ReaderPlaces == {"idle", "asking", "armed", "parked", "woken"}

\* Who is where.
Turns ==
  /\ reader \in [Readers -> ReaderPlaces] /\ upload \in [Handlers -> {"none", "sent", "stored"}]
  /\ want \in [Readers -> Wants]
  /\ \A g \in Readers : reader[g] = "armed" <=> lock = g

\* A reader between its check and its wait has not been overtaken by a publish.
ArmedSawNothing == \A g \in Readers : reader[g] = "armed" => ~Has(playlist, want[g])

WaitInv == Turns /\ ArmedSawNothing /\ NoLostPublish

\* The rest of the type invariant.
WaitValues ==
  /\ lock \in Readers \union {Free}
  /\ playlist \in Playlists /\ muxer \in Playlists /\ body \in [Handlers -> Playlists]
  /\ late \in [Readers -> BOOLEAN] /\ timer \in [Readers -> BOOLEAN]

-----------------------------------------------------------------------------
(* The values of the variables.                                            *)

LEMMA WaitValuesStart ==
  ASSUME Init
  PROVE  WaitValues
<1>1. NoPlaylist \in Playlists
  BY WaitBounds, FreeIsNobody DEF NoPlaylist, Playlists
<1>2. QED
  BY <1>1 DEF Init, WaitValues

LEMMA WaitValuesStep ==
  ASSUME Turns, WaitValues, [Next]_vars
  PROVE  WaitValues'
<1>1. CASE Part
  <2>1. muxer' = [muxer EXCEPT !.parts = @ + 1] /\ muxer.parts < MaxPart
    BY <1>1 DEF Part
  <2>2. muxer' \in Playlists
    BY <2>1, WaitBounds, FreeIsNobody DEF WaitValues, Playlists
  <2>3. QED
    BY <1>1, <2>2 DEF Part, WaitValues
<1>2. CASE Segment
  <2>1. muxer' \in Playlists
    BY <1>2, WaitBounds, FreeIsNobody DEF Segment, WaitValues, Playlists
  <2>2. QED
    BY <1>2, <2>1 DEF Segment, WaitValues
<1>3. CASE \E h \in Handlers : Send(h) \/ Store(h) \/ Broadcast(h)
  BY <1>3 DEF Send, Store, Broadcast, WaitValues
<1>4. CASE \E g \in Readers : Check(g) \/ Park(g) \/ Deadline(g) \/ TimerFires(g)
  BY <1>4 DEF Check, Park, Deadline, TimerFires, WaitValues
<1>5. CASE \E g \in Readers, w \in Wants : Ask(g, w)
  BY <1>5 DEF Ask, WaitValues
<1>6. CASE UNCHANGED vars
  BY <1>6 DEF vars, WaitValues
<1>7. QED
  BY <1>1, <1>2, <1>3, <1>4, <1>5, <1>6 DEF Next

-----------------------------------------------------------------------------
(* The readers.                                                            *)

LEMMA WaitStarts ==
  ASSUME Init
  PROVE  WaitInv
<1>1. [msn |-> -1, part |-> -1] \in Wants
  BY WaitBounds, FreeIsNobody DEF Wants
<1>2. Turns
  BY <1>1, WaitBounds, FreeIsNobody DEF Init, Turns, ReaderPlaces
<1>3. QED
  BY <1>2 DEF Init, WaitInv, ArmedSawNothing, NoLostPublish

\* A broadcast moves exactly the parked readers on.
LEMMA WokenMoves ==
  ASSUME Turns
  PROVE  /\ Woken(reader) \in [Readers -> ReaderPlaces]
         /\ \A g \in Readers : /\ Woken(reader)[g] # "parked"
                               /\ Woken(reader)[g] = "armed" <=> reader[g] = "armed"
BY DEF Turns, ReaderPlaces, Woken

LEMMA WaitStep ==
  ASSUME WaitInv, [Next]_vars
  PROVE  WaitInv'
<1> USE DEF WaitInv
<1>1. CASE Part \/ Segment \/ (\E g \in Readers : Deadline(g)) \/ UNCHANGED vars
  <2>1. UNCHANGED <<lock, playlist, upload, reader, want>>
    BY <1>1 DEF Part, Segment, Deadline, vars
  <2>2. QED
    BY <2>1 DEF Turns, ArmedSawNothing, NoLostPublish
<1>2. ASSUME NEW h \in Handlers, Send(h)
      PROVE  WaitInv'
  <2>1. /\ upload[h] = "none" /\ upload' = [upload EXCEPT ![h] = "sent"]
        /\ UNCHANGED <<lock, playlist, reader, want>>
    BY <1>2 DEF Send
  <2>2. \A k \in Handlers : upload[k] = "stored" => upload'[k] = "stored"
    BY <2>1 DEF Turns
  <2>3. QED
    BY <2>1, <2>2 DEF Turns, ArmedSawNothing, NoLostPublish
<1>3. ASSUME NEW h \in Handlers, Store(h)
      PROVE  WaitInv'
  <2>1. /\ lock = Free /\ upload' = [upload EXCEPT ![h] = "stored"]
        /\ UNCHANGED <<lock, reader, want>>
    BY <1>3 DEF Store
  <2>2. upload'[h] = "stored" /\ Turns'
    BY <2>1 DEF Turns
  <2>3. \A g \in Readers : reader'[g] # "armed"
    BY <2>1, WaitBounds, FreeIsNobody DEF Turns
  <2>4. QED
    BY <2>2, <2>3 DEF ArmedSawNothing, NoLostPublish
<1>4. ASSUME NEW h \in Handlers, Broadcast(h)
      PROVE  WaitInv'
  <2>1. /\ reader' = Woken(reader) /\ upload' = [upload EXCEPT ![h] = "none"]
        /\ UNCHANGED <<lock, playlist, want>>
    BY <1>4 DEF Broadcast
  <2>2. QED
    BY <2>1, WokenMoves DEF Turns, ArmedSawNothing, NoLostPublish
<1>5. ASSUME NEW g \in Readers, TimerFires(g)
      PROVE  WaitInv'
  <2>1. reader' = Woken(reader) /\ UNCHANGED <<lock, playlist, upload, want>>
    BY <1>5 DEF TimerFires
  <2>2. QED
    BY <2>1, WokenMoves DEF Turns, ArmedSawNothing, NoLostPublish
<1>6. ASSUME NEW g \in Readers, Check(g)
      PROVE  WaitInv'
  <2>1. /\ lock = Free /\ reader[g] \in {"asking", "woken"}
        /\ UNCHANGED <<playlist, upload, want>>
        /\ \/ reader' = [reader EXCEPT ![g] = "idle"] /\ UNCHANGED lock
           \/ /\ reader' = [reader EXCEPT ![g] = "armed"] /\ lock' = g
              /\ ~Has(playlist, want[g])
    BY <1>6 DEF Check
  <2>2. Turns'
    BY <2>1, WaitBounds, FreeIsNobody DEF Turns, ReaderPlaces
  <2>3. ArmedSawNothing' /\ NoLostPublish'
    BY <2>1 DEF Turns, ArmedSawNothing, NoLostPublish
  <2>4. QED
    BY <2>2, <2>3
<1>7. ASSUME NEW g \in Readers, Park(g)
      PROVE  WaitInv'
  <2>1. /\ reader[g] = "armed" /\ reader' = [reader EXCEPT ![g] = "parked"]
        /\ lock' = Free /\ UNCHANGED <<playlist, upload, want>>
    BY <1>7 DEF Park
  <2>2. Turns'
    BY <2>1, WaitBounds, FreeIsNobody DEF Turns, ReaderPlaces
  <2>3. ArmedSawNothing' /\ NoLostPublish'
    BY <2>1 DEF Turns, ArmedSawNothing, NoLostPublish
  <2>4. QED
    BY <2>2, <2>3
<1>8. ASSUME NEW g \in Readers, NEW w \in Wants, Ask(g, w)
      PROVE  WaitInv'
  <2>1. /\ reader[g] = "idle" /\ reader' = [reader EXCEPT ![g] = "asking"]
        /\ want' = [want EXCEPT ![g] = w] /\ UNCHANGED <<lock, playlist, upload>>
    BY <1>8 DEF Ask
  <2>2. Turns'
    BY <2>1 DEF Turns, ReaderPlaces
  <2>3. ArmedSawNothing' /\ NoLostPublish'
    BY <2>1 DEF Turns, ArmedSawNothing, NoLostPublish
  <2>4. QED
    BY <2>2, <2>3
<1>9. QED
  BY <1>1, <1>2, <1>3, <1>4, <1>5, <1>6, <1>7, <1>8 DEF Next

\* The room, its uploads and its readers keep their types, and a reader holds
\* the lock exactly between its check and its wait (origin.go:58-84, 261-294).
THEOREM WaitTypeCorrect == Spec => []TypeOK
<1>1. Init => WaitInv /\ WaitValues
  BY WaitStarts, WaitValuesStart
<1>2. WaitInv /\ WaitValues /\ [Next]_vars => WaitInv' /\ WaitValues'
  BY WaitStep, WaitValuesStep DEF WaitInv
<1>3. WaitInv /\ WaitValues => TypeOK
  BY DEF WaitInv, WaitValues, Turns, ReaderPlaces, TypeOK
<1>4. QED
  BY <1>1, <1>2, <1>3, PTL DEF Spec

\* A reader parked although the playlist has its part has a broadcast coming,
\* however uploads overlap (origin.go:233-244, 261-294).
THEOREM NoPublishIsLost == Spec => []NoLostPublish
<1>1. Init => WaitInv
  BY WaitStarts
<1>2. WaitInv /\ [Next]_vars => WaitInv'
  BY WaitStep
<1>3. WaitInv => NoLostPublish
  BY DEF WaitInv
<1>4. QED
  BY <1>1, <1>2, <1>3, PTL DEF Spec

-----------------------------------------------------------------------------
(* The wall.                                                               *)

LEMMA FeedAssumptions ==
  /\ Stamp \subseteq Nat
  /\ "loop" \in Poller /\ Poller \subseteq {"loop", "forced"}
  /\ None \notin Nat \X Nat
BY StampsAreNumbers, LoopPolls, NoneIsNoTag

\* A tag drawn since the Mac started.  Stamps have only grown since then, so such a tag
\* vouches for as much as the newest one.
Ours(t) == t # None /\ t[1] = revision[1]

\* The answer to f will be drawn over what the page has.
Builds(f) ==
  \/ polls[f].at = "sent" /\ Ours(polls[f].tag)
  \/ polls[f].at \in {"parked", "captured"} /\ ~polls[f].full
  \/ polls[f].at = "answered" /\ Ours(polls[f].token) /\ ~polls[f].full

\* What the page has is of use: its tag is, or a request relies on it.
InUse == ~spoiled /\ on /\ (Ours(tag) \/ \E f \in Poller : Builds(f))

\* Tags and tokens are of this start or an earlier one.
Past(t) == t # None => t[1] <= revision[1]

TagsArePast ==
  /\ Past(tag)
  /\ \A f \in Poller :
       /\ polls[f].at = "sent" => Past(polls[f].tag)
       /\ polls[f].at = "answered" => Past(polls[f].token)

\* The Mac forgets its requests when it restarts, and a full answer is cut at no stamp.
Requested ==
  \A f \in Poller :
    /\ polls[f].at \in {"parked", "captured"} => Ours(polls[f].token)
    /\ polls[f].at \in {"parked", "captured", "answered"} /\ polls[f].full => polls[f].since = 0
    /\ Builds(f) => on

Stamped == \A p \in DOMAIN shown : shown[p] \in 1..clock

\* An answer of this start is right about every post that has not changed since.
AnswerHolds(f) ==
  /\ polls[f].cursor <= clock
  /\ \A p \in DOMAIN shown : shown[p] <= polls[f].cursor =>
       /\ p \in polls[f].ids
       /\ p \in DOMAIN polls[f].posts => polls[f].posts[p] = shown[p]
       /\ shown[p] > polls[f].since => p \in DOMAIN polls[f].posts

AnswersHold == \A f \in Poller : polls[f].at = "answered" /\ Ours(polls[f].token) => AnswerHolds(f)

\* Of two answers under way the one that is over none is the older.
AnswersOrdered ==
  \A f, g \in Poller :
    /\ f # g /\ polls[f].at = "answered" /\ polls[g].at = "answered"
    /\ Ours(polls[f].token) /\ ~polls[f].over
    => Ours(polls[g].token) /\ polls[f].cursor <= polls[g].cursor

\* The cursor is behind the wall and behind every answer that is not tardy.
CursorBehind ==
  InUse =>
    /\ newest <= clock
    /\ \A g \in Poller : polls[g].at = "answered" /\ ~polls[g].late =>
         Ours(polls[g].token) /\ newest <= polls[g].cursor

\* A request relies on no more than the page has.
SinceBehind == \A f \in Poller : Builds(f) /\ ~spoiled => polls[f].since <= newest

Drawn == InUse => \A p \in DOMAIN shown : shown[p] > newest \/ Stated(p)

Answers == AnswersHold /\ AnswersOrdered

Cursor == CursorBehind /\ SinceBehind /\ Drawn

WallInv == FeedTypeOK /\ TagsArePast /\ Requested /\ Stamped /\ Answers /\ Cursor

-----------------------------------------------------------------------------
(* Types.                                                                  *)

LEMMA RequestFields ==
  ASSUME NEW r \in Requests
  PROVE  /\ r.at \in {"idle", "sent", "parked", "captured", "answered"}
         /\ r.at = "sent" => r.since \in Nat /\ r.tag \in Tags
         /\ r.at \in {"parked", "captured", "answered"} =>
              r.since \in Nat /\ r.full \in BOOLEAN /\ r.token \in Nat \X Nat
         /\ r.at = "answered" =>
              /\ r.cursor \in Stamp /\ r.posts \in Walls /\ r.ids \in SUBSET Post
              /\ r.over \in BOOLEAN /\ r.late \in BOOLEAN
<1>1. CASE r = Idle
  BY <1>1 DEF Idle
<1>2. CASE r \in [at : {"sent"}, since : Nat, tag : Tags]
  BY <1>2
<1>3. CASE r \in [at : {"parked", "captured"}, since : Nat, full : BOOLEAN, token : Nat \X Nat]
  BY <1>3
<1>4. CASE r \in [at : {"answered"}, since : Nat, full : BOOLEAN, token : Nat \X Nat, cursor : Stamp,
                  posts : Walls, ids : SUBSET Post, over : BOOLEAN, late : BOOLEAN]
  BY <1>4
<1> QED
  BY <1>1, <1>2, <1>3, <1>4 DEF Requests

LEMMA EmptyWall == <<>> \in Walls /\ DOMAIN <<>> = {}
<1>1. <<>> \in [{} -> Stamp]
  OBVIOUS
<1>2. {} \in SUBSET Post
  OBVIOUS
<1> QED
  BY <1>1, <1>2 DEF Walls

LEMMA WallsBySets ==
  ASSUME NEW w
  PROVE  w \in Walls <=> \E S \in SUBSET Post : w \in [S -> Stamp]
BY DEF Walls

LEMMA Restricting ==
  ASSUME NEW w \in Walls, NEW S \in SUBSET DOMAIN w
  PROVE  Restricted(w, S) \in Walls
<1>1. DOMAIN w \in SUBSET Post /\ w \in [DOMAIN w -> Stamp]
  BY WallsBySets
<1>2. Restricted(w, S) \in [S -> Stamp] /\ S \in SUBSET Post
  BY <1>1 DEF Restricted
<1> QED
  BY <1>2, WallsBySets

LEMMA Merging ==
  ASSUME NEW v \in Walls, NEW w \in Walls
  PROVE  Merge(v, w) \in Walls
<1>1. /\ DOMAIN v \in SUBSET Post /\ v \in [DOMAIN v -> Stamp]
      /\ DOMAIN w \in SUBSET Post /\ w \in [DOMAIN w -> Stamp]
  BY WallsBySets
<1>2. /\ Merge(v, w) \in [DOMAIN v \cup DOMAIN w -> Stamp]
      /\ DOMAIN v \cup DOMAIN w \in SUBSET Post
  BY <1>1 DEF Merge
<1> QED
  BY <1>2, WallsBySets

\* What a change of the Mac's wall leaves: what it had, at the stamps it had it, or later ones.
Advances ==
  /\ clock' \in Stamp /\ clock <= clock' /\ shown' \in Walls
  /\ revision' \in Nat \X Nat /\ revision'[1] = revision[1] /\ owed' \in BOOLEAN
  /\ \A p \in DOMAIN shown' :
       /\ shown'[p] \in 1..clock'
       /\ (p \in DOMAIN shown /\ shown'[p] = shown[p]) \/ clock < shown'[p]

LEMMA MovesKeepStart ==
  ASSUME FeedTypeOK
  PROVE  Moved \in Nat \X Nat /\ Moved[1] = revision[1]
BY DEF FeedTypeOK, Moved

LEMMA ChangeAdvances ==
  ASSUME FeedTypeOK, Stamped, Change
  PROVE  Advances
<1> USE FeedAssumptions
<1>0. /\ shown \in Walls /\ clock \in Stamp /\ clock \in Nat /\ owed \in BOOLEAN
      /\ revision \in Nat \X Nat
      /\ Moved \in Nat \X Nat /\ Moved[1] = revision[1]
  BY MovesKeepStart DEF FeedTypeOK
<1>1. DOMAIN shown \in SUBSET Post /\ shown \in [DOMAIN shown -> Stamp]
  BY <1>0, WallsBySets
<1>2. ASSUME NEW S \in SUBSET Post, Activity(S) PROVE Advances
  <2>1. clock' = clock + 1 /\ clock' \in Stamp /\ revision' = Moved /\ owed' = owed
    BY <1>2 DEF Activity
  <2>2. shown' = [p \in DOMAIN shown \cup S |-> IF p \in S THEN clock' ELSE shown[p]]
    BY <1>2 DEF Activity
  <2>3. shown' \in [DOMAIN shown \cup S -> Stamp] /\ DOMAIN shown \cup S \in SUBSET Post
    BY <1>1, <2>1, <2>2
  <2>4. shown' \in Walls
    BY <2>3, WallsBySets
  <2> QED
    BY <1>0, <2>1, <2>2, <2>4 DEF Advances, Stamped
<1>3. ASSUME NEW q \in Post, Withdraw(q) PROVE Advances
  <2>1. clock' = clock + 1 /\ clock' \in Stamp /\ revision' = Moved /\ owed' = owed
    BY <1>3 DEF Withdraw
  <2>2. shown' = [p \in DOMAIN shown \ {q} |-> shown[p]]
    BY <1>3 DEF Withdraw
  <2>3. shown' \in [DOMAIN shown \ {q} -> Stamp] /\ DOMAIN shown \ {q} \in SUBSET Post
    BY <1>1, <2>2
  <2>4. shown' \in Walls
    BY <2>3, WallsBySets
  <2> QED
    BY <1>0, <2>1, <2>2, <2>4 DEF Advances, Stamped
<1>4. CASE Refuse \/ Stir \/ Announce
  <2>1. shown' = shown /\ clock' \in Stamp /\ clock <= clock'
    BY <1>0, <1>4 DEF Refuse, Stir, Announce
  <2>4. owed' \in BOOLEAN
    BY <1>0, <1>4, Zenon DEF Refuse, Stir, Announce
  <2>2. revision' = revision \/ revision' = Moved
    BY <1>4 DEF Refuse, Stir, Announce
  <2>3. clock' \in Nat
    BY <2>1
  <2> QED
    BY <1>0, <2>1, <2>2, <2>3, <2>4 DEF Advances, Stamped
<1>5. CASE clock = 0 /\ Switch
  <2>1. /\ clock' \in Stamp /\ revision' = revision /\ owed' = TRUE
        /\ \A p \in DOMAIN shown' : shown'[p] \in 1..clock'
    BY <1>5 DEF Switch, Elsewhere
  <2>2. shown' \in Walls
    BY <1>5, WallsBySets DEF Switch, Elsewhere
  <2> QED
    BY <1>0, <1>5, <2>1, <2>2 DEF Advances
<1> QED
  BY <1>2, <1>3, <1>4, <1>5 DEF Change

\* A request after a step is one of the forms Requests lists.
LEMMA RequestsHold ==
  ASSUME NEW since \in Nat, NEW full \in BOOLEAN, NEW token \in Nat \X Nat, NEW t \in Tags,
         NEW place \in {"parked", "captured"}
  PROVE  /\ Idle \in Requests
         /\ [at |-> "sent", since |-> since, tag |-> t] \in Requests
         /\ [at |-> place, since |-> since, full |-> full, token |-> token] \in Requests
BY DEF Requests

LEMMA AnswersAreRequests ==
  ASSUME NEW since \in Nat, NEW full \in BOOLEAN, NEW token \in Nat \X Nat, NEW cursor \in Stamp,
         NEW sent \in Walls, NEW ids \in SUBSET Post, NEW over \in BOOLEAN, NEW tardy \in BOOLEAN
  PROVE  [at |-> "answered", full |-> full, since |-> since, token |-> token, cursor |-> cursor,
          posts |-> sent, ids |-> ids, over |-> over, late |-> tardy] \in Requests
BY DEF Requests

LEMMA OneRequest ==
  ASSUME FeedTypeOK, NEW f \in Poller, NEW r \in Requests, polls' = [polls EXCEPT ![f] = r]
  PROVE  /\ polls' \in [Poller -> Requests] /\ polls'[f] = r
         /\ \A g \in Poller : g # f => polls'[g] = polls[g]
<1>1. polls \in [Poller -> Requests]
  BY DEF FeedTypeOK
<1> QED
  BY <1>1

\* An answer that is told it is tardy keeps all it says.
LEMMA Retold ==
  ASSUME NEW r \in Requests, r.at = "answered", NEW tardy \in BOOLEAN
  PROVE  LET s == [r EXCEPT !.late = tardy, !.over = FALSE]
         IN /\ s \in Requests
            /\ s.at = "answered" /\ s.since = r.since /\ s.full = r.full /\ s.token = r.token
            /\ s.cursor = r.cursor /\ s.posts = r.posts /\ s.ids = r.ids
            /\ s.over = FALSE /\ s.late = tardy
<1> DEFINE S == [at : {"answered"}, since : Nat, full : BOOLEAN, token : Nat \X Nat, cursor : Stamp,
                 posts : Walls, ids : SUBSET Post, over : BOOLEAN, late : BOOLEAN]
           s == [r EXCEPT !.late = tardy, !.over = FALSE]
<1>1. r \in S
  BY DEF Requests, Idle
<1>2. s \in S
  BY <1>1
<1>3. s \in Requests
  BY <1>2 DEF Requests
<1> QED
  BY <1>1, <1>3

LEMMA AnswerTaken ==
  ASSUME FeedTypeOK, NEW f \in Poller, polls[f].at = "answered", polls' = Answered(f)
  PROVE  /\ polls' \in [Poller -> Requests] /\ polls'[f] = Idle /\ polls'[f].at = "idle"
         /\ \A g \in Poller : g # f /\ polls[g].at # "answered" => polls'[g] = polls[g]
         /\ \A g \in Poller : g # f /\ polls[g].at = "answered" =>
              LET r == polls[g]  s == polls'[g]
              IN /\ s.at = "answered" /\ s.since = r.since /\ s.full = r.full /\ s.token = r.token
                 /\ s.cursor = r.cursor /\ s.posts = r.posts /\ s.ids = r.ids
                 /\ s.over = FALSE /\ s.late = (r.late \/ polls[f].over)
<1>1. polls \in [Poller -> Requests]
  BY DEF FeedTypeOK
<1>2. DOMAIN polls' = Poller /\ polls'[f] = Idle
  BY DEF Answered
<1>3. Idle \in Requests
  BY DEF Requests
<1>4. ASSUME NEW g \in Poller, g # f, polls[g].at # "answered" PROVE polls'[g] = polls[g]
  BY <1>4 DEF Answered
<1>5. ASSUME NEW g \in Poller, g # f, polls[g].at = "answered"
      PROVE  /\ polls'[g] \in Requests
             /\ LET r == polls[g]  s == polls'[g]
                IN /\ s.at = "answered" /\ s.since = r.since /\ s.full = r.full /\ s.token = r.token
                   /\ s.cursor = r.cursor /\ s.posts = r.posts /\ s.ids = r.ids
                   /\ s.over = FALSE /\ s.late = (r.late \/ polls[f].over)
  <2>1. polls[g].late \in BOOLEAN /\ polls[f].over \in BOOLEAN
    BY <1>1, <1>5, RequestFields
  <2> DEFINE tardy == polls[g].late \/ polls[f].over
  <2>2. tardy \in BOOLEAN
    BY <2>1
  <2>3. polls'[g] = [polls[g] EXCEPT !.late = tardy, !.over = FALSE]
    BY <1>5 DEF Answered
  <2> HIDE DEF tardy
  <2>5. polls[g] \in Requests
    BY <1>1
  <2>4. LET r == polls[g]  s == [polls[g] EXCEPT !.late = tardy, !.over = FALSE]
        IN /\ s \in Requests
           /\ s.at = "answered" /\ s.since = r.since /\ s.full = r.full /\ s.token = r.token
           /\ s.cursor = r.cursor /\ s.posts = r.posts /\ s.ids = r.ids
           /\ s.over = FALSE /\ s.late = tardy
    BY <1>5, <2>2, <2>5, Retold
  <2> QED
    BY <2>3, <2>4 DEF tardy
<1>6. polls' \in [Poller -> Requests]
  <2>1. \A g \in Poller : polls'[g] \in Requests
    BY <1>1, <1>2, <1>3, <1>4, <1>5
  <2>2. polls' = [g \in Poller |-> polls'[g]]
    BY DEF Answered
  <2> QED
    BY <2>1, <2>2
<1>7. polls'[f].at = "idle"
  BY <1>2 DEF Idle
<1> QED
  BY <1>2, <1>4, <1>5, <1>6, <1>7

SourceTyped ==
  shown \in Walls /\ clock \in Stamp /\ revision \in Nat \X Nat /\ owed \in BOOLEAN

PageTyped ==
  on \in BOOLEAN /\ tag \in Tags /\ newest \in Nat /\ nodes \in Walls /\ spoiled \in BOOLEAN

PollsTyped ==
  /\ polls \in [Poller -> Requests]
  /\ \A f \in Poller : polls[f].at = "parked" => ~polls[f].full

LEMMA TypedInParts == FeedTypeOK <=> SourceTyped /\ PageTyped /\ PollsTyped /\ mishaps \in Nat
BY DEF FeedTypeOK, SourceTyped, PageTyped, PollsTyped

LEMMA TypedInPartsAfter ==
  FeedTypeOK' <=> SourceTyped' /\ PageTyped' /\ PollsTyped' /\ mishaps' \in Nat
BY DEF FeedTypeOK, SourceTyped, PageTyped, PollsTyped

\* What a restart leaves.
Restarts ==
  /\ clock' \in Stamp /\ shown' \in Walls /\ revision' \in Nat \X Nat /\ owed' \in BOOLEAN
  /\ revision'[1] = revision[1] + 1
  /\ \A p \in DOMAIN shown' : shown'[p] \in 1..clock'

LEMMA MacRestartsAnew ==
  ASSUME FeedTypeOK, MacRestarts
  PROVE  /\ Restarts
         /\ polls' \in [Poller -> Requests]
         /\ \A f \in Poller :
              IF polls[f].at \in {"parked", "captured"} THEN polls'[f] = Idle
              ELSE polls'[f] = polls[f]
<1>1. /\ clock' \in Stamp /\ owed' = FALSE /\ revision' = <<revision[1] + 1, 0>>
      /\ \A p \in DOMAIN shown' : shown'[p] \in 1..clock'
  BY DEF MacRestarts, Restart, Elsewhere
<1>2. shown' \in Walls
  BY WallsBySets DEF MacRestarts, Restart, Elsewhere
<1>3. revision \in Nat \X Nat /\ polls \in [Poller -> Requests]
  BY DEF FeedTypeOK
<1>4. Idle \in Requests
  BY DEF Requests
<1>5. polls' = [f \in Poller |-> IF polls[f].at \in {"parked", "captured"} THEN Idle ELSE polls[f]]
  BY DEF MacRestarts
<1>6. revision' \in Nat \X Nat /\ revision'[1] = revision[1] + 1
  BY <1>1, <1>3
<1>7. polls' \in [Poller -> Requests]
  BY <1>3, <1>4, <1>5
<1>8. Restarts
  BY <1>1, <1>2, <1>6 DEF Restarts
<1> QED
  BY <1>5, <1>7, <1>8

\* The requests after each step of the handler and the page; all others stay.
CapturedAs(f) ==
  [at |-> IF polls[f].tag = revision THEN "parked" ELSE "captured",
   since |-> IF polls[f].tag = revision THEN polls[f].since ELSE 0,
   full |-> polls[f].tag # revision, token |-> revision]

SnapshotAs(f) ==
  [at |-> "answered", full |-> polls[f].full, since |-> polls[f].since, token |-> polls[f].token,
   cursor |-> clock,
   posts |-> Restricted(shown, {p \in DOMAIN shown : shown[p] > polls[f].since}),
   ids |-> DOMAIN shown,
   over |-> \E g \in Other(f) : polls[g].at = "answered", late |-> FALSE]

SentAs == [at |-> "sent", since |-> newest, tag |-> IF on THEN tag ELSE None]

Others(f) == \A g \in Poller : g # f => polls'[g] = polls[g]

LEMMA CaptureEffect ==
  ASSUME FeedTypeOK, NEW f \in Poller, Capture(f)
  PROVE  polls' \in [Poller -> Requests] /\ polls'[f] = CapturedAs(f) /\ Others(f)
<1>1. polls[f].since \in Nat
  BY RequestFields DEF FeedTypeOK, Capture
<1>2. revision \in Nat \X Nat
  BY DEF FeedTypeOK
<1> DEFINE place == IF polls[f].tag = revision THEN "parked" ELSE "captured"
           since == IF polls[f].tag = revision THEN polls[f].since ELSE 0
           full == polls[f].tag # revision
<1>3. place \in {"parked", "captured"} /\ since \in Nat /\ full \in BOOLEAN
  BY <1>1
<1>4. CapturedAs(f) = [at |-> place, since |-> since, full |-> full, token |-> revision]
  BY DEF CapturedAs
<1> HIDE DEF place, since, full
<1>5. CapturedAs(f) \in Requests
  BY <1>2, <1>3, <1>4 DEF Requests
<1>6. polls' = [polls EXCEPT ![f] = CapturedAs(f)]
  BY DEF Capture, CapturedAs
<1> QED
  BY <1>5, <1>6, OneRequest DEF Others

LEMMA UnparkEffect ==
  ASSUME FeedTypeOK, NEW f \in Poller, Unpark(f)
  PROVE  /\ polls' \in [Poller -> Requests] /\ Others(f)
         /\ polls'[f].at = "captured" /\ polls'[f].since = polls[f].since
         /\ polls'[f].full = polls[f].full /\ polls'[f].token = revision
<1> DEFINE S == [at : {"parked", "captured"}, since : Nat, full : BOOLEAN, token : Nat \X Nat]
           r == [polls[f] EXCEPT !.at = "captured", !.token = revision]
<1>1. polls \in [Poller -> Requests] /\ revision \in Nat \X Nat /\ polls[f].at = "parked"
  BY DEF FeedTypeOK, Unpark
<1>2. polls[f] \in S
  <2>1. polls[f] \in Requests
    BY <1>1
  <2> QED
    BY <1>1, <2>1 DEF Requests, Idle
<1>3. r \in S
  BY <1>1, <1>2
<1>4. /\ r.at = "captured" /\ r.since = polls[f].since
      /\ r.full = polls[f].full /\ r.token = revision
  BY <1>2
<1>5. r \in Requests
  BY <1>3 DEF Requests
<1>6. polls' = [polls EXCEPT ![f] = r]
  BY <1>1 DEF Unpark
<1> HIDE DEF r
<1> QED
  BY <1>4, <1>5, <1>6, OneRequest DEF Others

LEMMA SnapshotEffect ==
  ASSUME FeedTypeOK, NEW f \in Poller, Snapshot(f)
  PROVE  polls' \in [Poller -> Requests] /\ polls'[f] = SnapshotAs(f) /\ Others(f)
<1>1. polls \in [Poller -> Requests] /\ shown \in Walls /\ clock \in Stamp
  BY DEF FeedTypeOK
<1>2. polls[f].since \in Nat /\ polls[f].full \in BOOLEAN /\ polls[f].token \in Nat \X Nat
  BY <1>1, RequestFields DEF Snapshot
<1> DEFINE S == {p \in DOMAIN shown : shown[p] > polls[f].since}
           o == \E g \in Other(f) : polls[g].at = "answered"
<1>3. Restricted(shown, S) \in Walls
  BY <1>1, Restricting
<1>4. DOMAIN shown \in SUBSET Post
  BY <1>1, WallsBySets
<1>5. o \in BOOLEAN
  OBVIOUS
<1>6. SnapshotAs(f) \in Requests
  <2>1. SnapshotAs(f) =
          [at |-> "answered", full |-> polls[f].full, since |-> polls[f].since, token |-> polls[f].token,
           cursor |-> clock, posts |-> Restricted(shown, S), ids |-> DOMAIN shown, over |-> o, late |-> FALSE]
    BY DEF SnapshotAs
  <2> DEFINE q == polls[f]
             sent == Restricted(shown, S)
             ids == DOMAIN shown
  <2>2. /\ q.since \in Nat /\ q.full \in BOOLEAN /\ q.token \in Nat \X Nat
        /\ sent \in Walls /\ ids \in SUBSET Post /\ clock \in Stamp /\ o \in BOOLEAN
    BY <1>1, <1>2, <1>3, <1>4
  <2>3. SnapshotAs(f) =
          [at |-> "answered", full |-> q.full, since |-> q.since, token |-> q.token,
           cursor |-> clock, posts |-> sent, ids |-> ids, over |-> o, late |-> FALSE]
    BY <2>1
  <2> HIDE DEF S, o, q, sent, ids
  <2>4. [at |-> "answered", full |-> q.full, since |-> q.since, token |-> q.token,
         cursor |-> clock, posts |-> sent, ids |-> ids, over |-> o, late |-> FALSE] \in Requests
    BY <2>2, AnswersAreRequests
  <2> QED
    BY <2>3, <2>4
<1>7. polls' = [polls EXCEPT ![f] = SnapshotAs(f)]
  BY DEF Snapshot, SnapshotAs
<1> QED
  BY <1>6, <1>7, OneRequest DEF Others

LEMMA SendEffect ==
  ASSUME FeedTypeOK, NEW f \in Poller, PollFeed(f)
  PROVE  polls' \in [Poller -> Requests] /\ polls'[f] = SentAs /\ Others(f)
<1>1. newest \in Nat /\ tag \in Tags /\ None \in Tags
  BY DEF FeedTypeOK, Tags
<1>2. SentAs \in Requests
  BY <1>1 DEF SentAs, Requests
<1>3. polls' = [polls EXCEPT ![f] = SentAs]
  BY DEF PollFeed, SentAs
<1> QED
  BY <1>2, <1>3, OneRequest DEF Others

\* Which requests, answers and pages each step leaves, as the parts of the invariant ask it.
Drawing(f, switched) == IF switched /\ on THEN <<>> ELSE Restricted(nodes, DOMAIN nodes \cap polls[f].ids)

LEMMA DrawingIsWall ==
  ASSUME FeedTypeOK, NEW f \in Poller, NEW switched \in BOOLEAN
  PROVE  Drawing(f, switched) \in Walls
<1>1. nodes \in Walls /\ DOMAIN nodes \cap polls[f].ids \in SUBSET DOMAIN nodes
  BY DEF FeedTypeOK
<1>2. Restricted(nodes, DOMAIN nodes \cap polls[f].ids) \in Walls
  BY <1>1, Restricting
<1> QED
  BY <1>2, EmptyWall DEF Drawing

LEMMA ReceiveTyped ==
  ASSUME FeedTypeOK, NEW f \in Poller, NEW switched \in BOOLEAN, Receive(f, switched)
  PROVE  FeedTypeOK'
<1>1. polls \in [Poller -> Requests] /\ polls[f].at = "answered" /\ polls' = Answered(f)
  BY DEF FeedTypeOK, Receive
<1>2. /\ polls[f].cursor \in Stamp /\ polls[f].posts \in Walls /\ polls[f].late \in BOOLEAN
      /\ polls[f].token \in Nat \X Nat
  BY <1>1, RequestFields
<1>3. PollsTyped'
  <2>1. polls' \in [Poller -> Requests]
    BY <1>1, AnswerTaken
  <2>2. ASSUME NEW g \in Poller, polls'[g].at = "parked" PROVE ~polls'[g].full
    <3>1. g # f
      BY <1>1, <2>2, AnswerTaken
    <3>2. polls'[g] = polls[g]
      BY <1>1, <2>2, <3>1, AnswerTaken
    <3> QED
      BY <2>2, <3>2 DEF FeedTypeOK
  <2> QED
    BY <2>1, <2>2 DEF PollsTyped
<1>4. SourceTyped'
  BY DEF FeedTypeOK, SourceTyped, Receive, source
<1>5. newest' \in Nat
  BY <1>2, FeedAssumptions DEF FeedTypeOK, Receive, Larger
<1>6. nodes' \in Walls
  <2>1. nodes' = Merge(Drawing(f, switched), polls[f].posts)
    BY DEF Receive, Drawing
  <2> QED
    BY <1>2, <2>1, DrawingIsWall, Merging
<1>7. on' \in BOOLEAN /\ tag' \in Tags
  BY <1>2 DEF Receive, Draw, Tags
<1>8. spoiled' \in BOOLEAN
  <2>1. spoiled \in BOOLEAN /\ on \in BOOLEAN
    BY DEF FeedTypeOK
  <2> QED
    BY <2>1, Zenon DEF Receive
<1>9. mishaps' \in Nat
  BY DEF FeedTypeOK, Receive
<1> QED
  BY <1>3, <1>4, <1>5, <1>6, <1>7, <1>8, <1>9, TypedInPartsAfter DEF PageTyped

LEMMA CutTyped ==
  ASSUME FeedTypeOK, NEW f \in Poller, Cut(f)
  PROVE  FeedTypeOK'
<1>1. polls \in [Poller -> Requests] /\ polls[f].at = "answered" /\ polls' = Answered(f)
  BY DEF FeedTypeOK, Cut
<1>2. polls[f].token \in Nat \X Nat /\ polls[f].full \in BOOLEAN
  BY <1>1, RequestFields
<1>3. PollsTyped'
  <2>1. polls' \in [Poller -> Requests]
    BY <1>1, AnswerTaken
  <2>2. ASSUME NEW g \in Poller, polls'[g].at = "parked" PROVE ~polls'[g].full
    <3>1. g # f
      BY <1>1, <2>2, AnswerTaken
    <3>2. polls'[g] = polls[g]
      BY <1>1, <2>2, <3>1, AnswerTaken
    <3> QED
      BY <2>2, <3>2 DEF FeedTypeOK
  <2> QED
    BY <2>1, <2>2 DEF PollsTyped
<1>4. SourceTyped'
  BY DEF FeedTypeOK, SourceTyped, Cut, source
<1>5. PageTyped'
  BY <1>2 DEF FeedTypeOK, PageTyped, Cut, Draw, Tags
<1>6. mishaps' \in Nat
  BY DEF FeedTypeOK, Cut
<1> QED
  BY <1>3, <1>4, <1>5, <1>6, TypedInPartsAfter

LEMMA ServeTyped ==
  ASSUME FeedTypeOK, NEW f \in Poller, Serve(f)
  PROVE  FeedTypeOK'
<1>1. UNCHANGED <<source, page, mishaps>>
  BY DEF Serve, Capture, Unpark, Snapshot
<1>2. SourceTyped' /\ PageTyped' /\ mishaps' \in Nat
  BY <1>1 DEF FeedTypeOK, SourceTyped, PageTyped, source, page
<1>3. /\ polls' \in [Poller -> Requests] /\ Others(f)
      /\ polls'[f].at = "parked" => ~polls'[f].full
  <2>1. CASE Capture(f)
    <3>1. CapturedAs(f).at = "parked" => ~CapturedAs(f).full
      BY DEF CapturedAs
    <3> QED
      BY <2>1, <3>1, CaptureEffect
  <2>2. CASE Unpark(f)
    BY <2>2, UnparkEffect
  <2>3. CASE Snapshot(f)
    <3>1. SnapshotAs(f).at = "answered"
      BY DEF SnapshotAs
    <3> QED
      BY <2>3, <3>1, SnapshotEffect
  <2> QED
    BY <2>1, <2>2, <2>3 DEF Serve
<1>4. PollsTyped'
  BY <1>3 DEF FeedTypeOK, PollsTyped, Others
<1> QED
  BY <1>2, <1>4, TypedInPartsAfter

LEMMA LoseEffect ==
  ASSUME FeedTypeOK, NEW f \in Poller, Lose(f)
  PROVE  /\ polls' \in [Poller -> Requests] /\ Others(f) /\ polls'[f] = Idle
         /\ UNCHANGED <<source, page>>
<1>1. Idle \in Requests
  BY DEF Requests
<1> QED
  BY <1>1, OneRequest DEF Lose, Others

LEMMA ClearEffect ==
  ASSUME FeedTypeOK, Clear
  PROVE  /\ polls' \in [Poller -> Requests] /\ Others("forced") /\ "forced" \in Poller
         /\ polls'["forced"] = [at |-> "sent", since |-> 0, tag |-> tag]
<1> DEFINE r == [at |-> "sent", since |-> 0, tag |-> tag]
<1>1. r \in Requests
  BY DEF Requests, FeedTypeOK
<1>2. "forced" \in Poller /\ polls' = [polls EXCEPT !["forced"] = r]
  BY DEF Clear
<1> HIDE DEF r
<1>3. polls' \in [Poller -> Requests] /\ Others("forced") /\ polls'["forced"] = r
  BY <1>1, <1>2, OneRequest DEF Others
<1> QED
  BY <1>2, <1>3 DEF r

LEMMA SendingTyped ==
  ASSUME FeedTypeOK, Loop \/ PollAgain
  PROVE  FeedTypeOK'
<1>1. PICK f \in Poller : PollFeed(f)
  BY FeedAssumptions DEF Loop, PollAgain
<1>2. PollsTyped'
  BY <1>1, SendEffect DEF FeedTypeOK, PollsTyped, Others, SentAs
<1>3. SourceTyped' /\ PageTyped'
  BY <1>1 DEF FeedTypeOK, SourceTyped, PageTyped, PollFeed, source, page
<1>4. mishaps' \in Nat
  BY DEF FeedTypeOK, Loop, PollAgain
<1> QED
  BY <1>2, <1>3, <1>4, TypedInPartsAfter

LEMMA LosingTyped ==
  ASSUME FeedTypeOK, Clear \/ \E f \in Poller : Lose(f)
  PROVE  FeedTypeOK'
<1>1. CASE Clear
  <2>1. PollsTyped'
    BY <1>1, ClearEffect DEF FeedTypeOK, PollsTyped, Others
  <2>2. SourceTyped' /\ on' = on /\ tag' = tag /\ newest' = 0 /\ nodes' = <<>> /\ spoiled' = TRUE
    BY <1>1 DEF FeedTypeOK, SourceTyped, Clear, source
  <2>3. PageTyped'
    BY <2>2, EmptyWall DEF FeedTypeOK, PageTyped
  <2>4. mishaps' \in Nat
    BY <1>1 DEF FeedTypeOK, Clear
  <2> QED
    BY <2>1, <2>2, <2>3, <2>4, TypedInPartsAfter
<1>2. ASSUME NEW f \in Poller, Lose(f) PROVE FeedTypeOK'
  <2>1. PollsTyped'
    BY <1>2, LoseEffect DEF FeedTypeOK, PollsTyped, Others, Idle
  <2>2. SourceTyped' /\ PageTyped'
    BY <1>2, LoseEffect DEF FeedTypeOK, SourceTyped, PageTyped, source, page
  <2>3. mishaps' \in Nat
    BY <1>2 DEF FeedTypeOK, Lose
  <2> QED
    BY <2>1, <2>2, <2>3, TypedInPartsAfter
<1> QED
  BY <1>1, <1>2

LEMMA MacTyped ==
  ASSUME FeedTypeOK, Stamped, Change \/ MacRestarts
  PROVE  FeedTypeOK'
<1>1. CASE Change
  <2>1. SourceTyped'
    BY <1>1, ChangeAdvances DEF SourceTyped, Advances
  <2>2. UNCHANGED <<page, polls, mishaps>>
    BY <1>1 DEF Change
  <2>3. PageTyped' /\ PollsTyped' /\ mishaps' \in Nat
    BY <2>2 DEF FeedTypeOK, PageTyped, PollsTyped, page
  <2> QED
    BY <2>1, <2>3, TypedInPartsAfter
<1>2. CASE MacRestarts
  <2>1. SourceTyped'
    BY <1>2, MacRestartsAnew DEF SourceTyped, Restarts
  <2>2. PollsTyped'
    BY <1>2, MacRestartsAnew DEF FeedTypeOK, PollsTyped, Idle
  <2>3. PageTyped' /\ mishaps' \in Nat
    BY <1>2 DEF FeedTypeOK, PageTyped, MacRestarts, page
  <2> QED
    BY <2>1, <2>2, <2>3, TypedInPartsAfter
<1> QED
  BY <1>1, <1>2

LEMMA WallTypesStep ==
  ASSUME FeedTypeOK, Stamped, [FeedNext]_feedVars
  PROVE  FeedTypeOK'
<1>1. CASE FeedNext
  BY <1>1, MacTyped, SendingTyped, LosingTyped, ServeTyped, ReceiveTyped, CutTyped DEF FeedNext
<1>2. CASE UNCHANGED feedVars
  BY <1>2 DEF FeedTypeOK, feedVars, source, page
<1> QED
  BY <1>1, <1>2

-----------------------------------------------------------------------------
(* Tags, requests and stamps.                                              *)

Books == TagsArePast /\ Requested /\ Stamped

\* The Mac's wall moves on, and nobody asks.
LEMMA AdvanceKeeps ==
  ASSUME FeedTypeOK, WallInv, Advances, UNCHANGED <<page, polls>>
  PROVE  Books' /\ Answers' /\ Cursor'
<1>1. /\ revision'[1] = revision[1] /\ clock <= clock' /\ clock \in Nat /\ clock' \in Nat
      /\ \A p \in DOMAIN shown' :
           shown'[p] \in 1..clock' /\ ((p \in DOMAIN shown /\ shown'[p] = shown[p]) \/ clock < shown'[p])
  BY FeedAssumptions DEF Advances, FeedTypeOK
<1>2. /\ on' = on /\ tag' = tag /\ newest' = newest /\ nodes' = nodes /\ spoiled' = spoiled
      /\ polls' = polls
  BY DEF page
<1>3. TagsArePast'
  BY <1>1, <1>2 DEF WallInv, TagsArePast, Past
<1>4. Requested'
  BY <1>1, <1>2 DEF WallInv, Requested, Ours, Builds
<1>5. Stamped'
  BY <1>1 DEF Stamped
<1>6. AnswersHold'
  <2> SUFFICES ASSUME NEW f \in Poller, polls'[f].at = "answered", Ours(polls[f].token)'
               PROVE  AnswerHolds(f)'
    BY DEF AnswersHold
  <2>1. AnswerHolds(f)
    BY <1>1, <1>2 DEF WallInv, Answers, AnswersHold, Ours
  <2>2. polls[f].cursor \in Nat
    BY <1>2, RequestFields, FeedAssumptions DEF FeedTypeOK
  <2>3. polls'[f].cursor <= clock'
    BY <1>1, <1>2, <2>1, <2>2 DEF AnswerHolds
  <2>4. ASSUME NEW p \in DOMAIN shown', shown'[p] <= polls'[f].cursor
        PROVE  /\ p \in polls'[f].ids
               /\ p \in DOMAIN polls'[f].posts => polls'[f].posts[p] = shown'[p]
               /\ shown'[p] > polls'[f].since => p \in DOMAIN polls'[f].posts
    <3>1. p \in DOMAIN shown /\ shown'[p] = shown[p]
      BY <1>1, <1>2, <2>1, <2>2, <2>4 DEF AnswerHolds
    <3> QED
      BY <1>2, <2>1, <2>4, <3>1 DEF AnswerHolds
  <2> QED
    BY <2>3, <2>4 DEF AnswerHolds
<1>7. AnswersOrdered'
  BY <1>1, <1>2 DEF WallInv, Answers, AnswersOrdered, Ours
<1>8. InUse' => InUse
  BY <1>1, <1>2 DEF InUse, Ours, Builds
<1>9. CursorBehind'
  <2>1. newest \in Nat
    BY DEF FeedTypeOK
  <2> QED
    BY <1>1, <1>2, <1>8, <2>1 DEF WallInv, Cursor, CursorBehind, Ours
<1>10. SinceBehind'
  BY <1>1, <1>2 DEF WallInv, Cursor, SinceBehind, Builds, Ours
<1>11. Drawn'
  <2> SUFFICES ASSUME InUse', NEW p \in DOMAIN shown'
               PROVE  shown'[p] > newest' \/ (p \in DOMAIN nodes' /\ nodes'[p] = shown'[p])
    BY DEF Drawn, Stated
  <2>1. InUse /\ newest <= clock /\ newest \in Nat
    BY <1>8 DEF WallInv, Cursor, CursorBehind, FeedTypeOK
  <2>2. CASE p \in DOMAIN shown /\ shown'[p] = shown[p]
    BY <1>2, <2>1, <2>2 DEF WallInv, Cursor, Drawn, Stated
  <2>3. CASE clock < shown'[p]
    BY <1>1, <1>2, <2>1, <2>3
  <2> QED
    BY <1>1, <2>2, <2>3
<1> QED
  BY <1>3, <1>4, <1>5, <1>6, <1>7, <1>9, <1>10, <1>11 DEF Books, Answers, Cursor

\* A restarted Mac knows no tag: what pages and answers have is of no use.
LEMMA RestartKeeps ==
  ASSUME FeedTypeOK, WallInv, MacRestarts
  PROVE  Books' /\ Answers' /\ Cursor'
<1>1. /\ revision'[1] = revision[1] + 1 /\ revision[1] \in Nat
      /\ \A p \in DOMAIN shown' : shown'[p] \in 1..clock'
  BY MacRestartsAnew DEF Restarts, FeedTypeOK
<1>2. on' = on /\ tag' = tag /\ newest' = newest /\ nodes' = nodes /\ spoiled' = spoiled
  BY DEF MacRestarts, page
<1>3. \A f \in Poller : IF polls[f].at \in {"parked", "captured"} THEN polls'[f].at = "idle"
                      ELSE polls'[f] = polls[f]
  BY MacRestartsAnew DEF Idle
<1>4. /\ Past(tag) /\ tag \in Tags
      /\ \A f \in Poller :
           /\ polls[f].at = "sent" => Past(polls[f].tag) /\ polls[f].tag \in Tags
           /\ polls[f].at = "answered" => Past(polls[f].token) /\ polls[f].token \in Nat \X Nat
  BY RequestFields DEF WallInv, TagsArePast, FeedTypeOK
<1>5. ASSUME NEW t \in Tags, Past(t) PROVE Past(t)' /\ ~(t # None /\ t[1] = revision'[1])
  BY <1>1, <1>5 DEF Past, Tags
<1>6. Nat \X Nat \subseteq Tags
  BY DEF Tags
<1>7. /\ ~Ours(tag)'
      /\ \A f \in Poller :
           /\ polls'[f].at \notin {"parked", "captured"}
           /\ polls'[f].at = "sent" => Past(polls[f].tag)' /\ ~Ours(polls[f].tag)'
           /\ polls'[f].at = "answered" => Past(polls[f].token)' /\ ~Ours(polls[f].token)'
  BY <1>2, <1>3, <1>4, <1>5, <1>6 DEF Ours, Past
<1>8. \A f \in Poller : ~Builds(f)'
  BY <1>7 DEF Builds
<1>9. ~InUse'
  BY <1>7, <1>8 DEF InUse
<1>10. TagsArePast'
  BY <1>2, <1>4, <1>5, <1>7 DEF TagsArePast, Past
<1>11. Requested'
  <2>1. \A f \in Poller :
          polls[f].at \in {"parked", "captured", "answered"} /\ polls[f].full => polls[f].since = 0
    BY DEF WallInv, Requested
  <2> QED
    BY <1>3, <1>7, <1>8, <2>1 DEF Requested
<1>12. Stamped'
  BY <1>1 DEF Stamped
<1>13. Answers'
  BY <1>7 DEF Answers, AnswersHold, AnswersOrdered
<1>14. Cursor'
  BY <1>8, <1>9 DEF Cursor, CursorBehind, SinceBehind, Drawn
<1> QED
  BY <1>10, <1>11, <1>12, <1>13, <1>14 DEF Books

-----------------------------------------------------------------------------
(* The handler and the page's requests.                                    *)

\* No answer comes or goes, and what now builds on the page did so before, or the page
\* is in use with what the new request asks for.
LEMMA RequestKeeps ==
  ASSUME FeedTypeOK, WallInv, NEW f \in Poller, Others(f),
         UNCHANGED <<source, on, tag, nodes, newest, spoiled>>,
         polls[f].at # "answered", polls'[f].at # "answered",
         Builds(f)' => /\ Builds(f) \/ (on /\ Ours(tag))
                       /\ polls'[f].since = polls[f].since \/ polls'[f].since = newest
                       /\ ~Builds(f) => polls'[f].since = newest
  PROVE  Stamped' /\ Answers' /\ Cursor' /\ \A g \in Poller : Builds(g)' => on'
<1>1. /\ shown' = shown /\ clock' = clock /\ revision' = revision /\ on' = on /\ tag' = tag
      /\ newest' = newest /\ nodes' = nodes /\ spoiled' = spoiled
      /\ \A g \in Poller : g # f => polls'[g] = polls[g]
  BY DEF source, Others
<1>2. \A g \in Poller : g # f => (Builds(g)' <=> Builds(g))
  BY <1>1 DEF Builds, Ours
<1>3. \A g \in Poller : polls'[g].at = "answered" => polls'[g] = polls[g] /\ g # f
  BY <1>1
<1>4. Stamped'
  BY <1>1 DEF WallInv, Stamped
<1>5. AnswersHold'
  BY <1>1, <1>3 DEF WallInv, Answers, AnswersHold, AnswerHolds, Ours
<1>6. AnswersOrdered'
  BY <1>1, <1>3 DEF WallInv, Answers, AnswersOrdered, Ours
<1>7. InUse' => InUse
  BY <1>1, <1>2 DEF InUse, Ours
<1>8. CursorBehind'
  BY <1>1, <1>3, <1>7 DEF WallInv, Cursor, CursorBehind, Ours
<1>9. SinceBehind'
  <2>1. newest \in Nat
    BY DEF FeedTypeOK
  <2>2. ASSUME NEW g \in Poller, Builds(g)', ~spoiled' PROVE polls'[g].since <= newest'
    <3>1. CASE g # f
      BY <1>1, <1>2, <2>2, <3>1 DEF WallInv, Cursor, SinceBehind
    <3>2. CASE g = f /\ polls'[f].since = newest
      BY <1>1, <2>1, <3>2
    <3>3. CASE g = f /\ Builds(f) /\ polls'[f].since = polls[f].since
      BY <1>1, <2>2, <3>3 DEF WallInv, Cursor, SinceBehind
    <3> QED
      BY <2>2, <3>1, <3>2, <3>3
  <2> QED
    BY <2>2 DEF SinceBehind
<1>10. Drawn'
  BY <1>1, <1>7 DEF WallInv, Cursor, Drawn, Stated
<1>11. \A g \in Poller : Builds(g)' => on'
  BY <1>1, <1>2 DEF WallInv, Requested
<1> QED
  BY <1>4, <1>5, <1>6, <1>8, <1>9, <1>10, <1>11 DEF Answers, Cursor

\* A tag that holds is of this start.
LEMMA HeldIsOurs ==
  ASSUME FeedTypeOK
  PROVE  Ours(revision) /\ \A t \in Tags : t = revision => Ours(t)
BY FeedAssumptions DEF FeedTypeOK, Ours

LEMMA CaptureKeeps ==
  ASSUME FeedTypeOK, WallInv, NEW f \in Poller, Capture(f)
  PROVE  Books' /\ Answers' /\ Cursor'
<1>1. /\ polls[f].at = "sent" /\ UNCHANGED <<source, page>>
      /\ Others(f) /\ polls'[f] = CapturedAs(f)
  BY CaptureEffect DEF Capture
<1>2. /\ shown' = shown /\ clock' = clock /\ revision' = revision /\ on' = on /\ tag' = tag
      /\ newest' = newest /\ nodes' = nodes /\ spoiled' = spoiled
      /\ \A g \in Poller : g # f => polls'[g] = polls[g]
  BY <1>1 DEF source, page, Others
<1>3. /\ polls'[f].at \in {"parked", "captured"} /\ polls'[f].token = revision
      /\ polls'[f].full = (polls[f].tag # revision)
      /\ polls'[f].since = IF polls[f].tag = revision THEN polls[f].since ELSE 0
  BY <1>1 DEF CapturedAs
<1>4. Builds(f)' => Builds(f) /\ polls'[f].since = polls[f].since
  <2>1. polls[f].tag \in Tags
    BY <1>1, RequestFields DEF FeedTypeOK
  <2>2. Builds(f)' => polls[f].tag = revision
    BY <1>3 DEF Builds
  <2> QED
    BY <1>1, <1>3, <2>1, <2>2, HeldIsOurs DEF Builds
<1>5. Stamped' /\ Answers' /\ Cursor' /\ \A g \in Poller : Builds(g)' => on'
  BY <1>1, <1>2, <1>3, <1>4, RequestKeeps
<1>6. TagsArePast'
  BY <1>2, <1>3 DEF WallInv, TagsArePast, Past
<1>7. Requested'
  <2>1. Ours(revision)
    BY HeldIsOurs
  <2> QED
    BY <1>2, <1>3, <1>5, <2>1 DEF WallInv, Requested, Ours
<1> QED
  BY <1>5, <1>6, <1>7 DEF Books

LEMMA UnparkKeeps ==
  ASSUME FeedTypeOK, WallInv, NEW f \in Poller, Unpark(f)
  PROVE  Books' /\ Answers' /\ Cursor'
<1>1. polls[f].at = "parked" /\ UNCHANGED <<source, page>> /\ ~polls[f].full
  BY DEF Unpark, FeedTypeOK
<1>2. /\ shown' = shown /\ clock' = clock /\ revision' = revision /\ on' = on /\ tag' = tag
      /\ newest' = newest /\ nodes' = nodes /\ spoiled' = spoiled
  BY <1>1 DEF source, page
<1>3. /\ polls'[f].at = "captured" /\ polls'[f].token = revision
      /\ polls'[f].full = polls[f].full /\ polls'[f].since = polls[f].since /\ Others(f)
  BY UnparkEffect
<1>4. Builds(f) /\ polls'[f].since = polls[f].since
  BY <1>1, <1>3 DEF Builds
<1>5. Stamped' /\ Answers' /\ Cursor' /\ \A g \in Poller : Builds(g)' => on'
  BY <1>1, <1>2, <1>3, <1>4, RequestKeeps
<1>6. TagsArePast'
  BY <1>2, <1>3 DEF WallInv, TagsArePast, Past, Others
<1>7. Requested'
  <2>1. Ours(revision)
    BY HeldIsOurs
  <2> QED
    BY <1>1, <1>2, <1>3, <1>5, <2>1 DEF WallInv, Requested, Ours, Others
<1> QED
  BY <1>5, <1>6, <1>7 DEF Books

LEMMA SendKeeps ==
  ASSUME FeedTypeOK, WallInv, NEW f \in Poller, PollFeed(f)
  PROVE  Books' /\ Answers' /\ Cursor'
<1>1. polls[f].at = "idle" /\ UNCHANGED <<source, page>>
  BY DEF PollFeed
<1>2. /\ shown' = shown /\ clock' = clock /\ revision' = revision /\ on' = on /\ tag' = tag
      /\ newest' = newest /\ nodes' = nodes /\ spoiled' = spoiled
  BY <1>1 DEF source, page
<1>3. /\ polls'[f].at = "sent" /\ polls'[f].since = newest
      /\ polls'[f].tag = IF on THEN tag ELSE None
      /\ Others(f)
  BY SendEffect DEF SentAs
<1>4. Builds(f)' => on /\ Ours(tag)
  BY <1>2, <1>3 DEF Builds, Ours
<1>5. Stamped' /\ Answers' /\ Cursor' /\ \A g \in Poller : Builds(g)' => on'
  BY <1>1, <1>2, <1>3, <1>4, RequestKeeps
<1>6. TagsArePast'
  BY <1>2, <1>3 DEF WallInv, TagsArePast, Past, Others
<1>7. Requested'
  BY <1>2, <1>3, <1>5 DEF WallInv, Requested, Ours, Others
<1> QED
  BY <1>5, <1>6, <1>7 DEF Books

\* A snapshot is as new as the wall, and no older than any answer under way.
LEMMA SnapshotKeeps ==
  ASSUME FeedTypeOK, WallInv, NEW f \in Poller, Snapshot(f)
  PROVE  Books' /\ Answers' /\ Cursor'
<1>1. polls[f].at = "captured" /\ UNCHANGED <<source, page>>
  BY DEF Snapshot
<1>2. /\ shown' = shown /\ clock' = clock /\ revision' = revision /\ on' = on /\ tag' = tag
      /\ newest' = newest /\ nodes' = nodes /\ spoiled' = spoiled
  BY <1>1 DEF source, page
<1>3. polls'[f] = SnapshotAs(f) /\ \A g \in Poller : g # f => polls'[g] = polls[g]
  BY SnapshotEffect DEF Others
<1>4. /\ polls'[f].at = "answered" /\ polls'[f].full = polls[f].full /\ polls'[f].since = polls[f].since
      /\ polls'[f].token = polls[f].token /\ polls'[f].cursor = clock /\ polls'[f].ids = DOMAIN shown
      /\ polls'[f].late = FALSE
  BY <1>3 DEF SnapshotAs
<1>5. polls'[f].over <=> \E g \in Other(f) : polls[g].at = "answered"
  BY <1>3 DEF SnapshotAs
<1>6. polls'[f].posts = Restricted(shown, {p \in DOMAIN shown : shown[p] > polls[f].since})
  BY <1>3 DEF SnapshotAs
<1>7. Ours(polls[f].token) /\ (polls[f].full => polls[f].since = 0) /\ polls[f].token \in Nat \X Nat
  BY <1>1, RequestFields DEF WallInv, Requested, FeedTypeOK
<1>8. clock \in Nat /\ newest \in Nat
  BY FeedAssumptions DEF FeedTypeOK
<1>9. \A g \in Poller : Builds(g)' => Builds(g)
  BY <1>1, <1>2, <1>3, <1>4 DEF Builds, Ours
<1>10. TagsArePast'
  <2>1. Past(polls[f].token)
    BY <1>7 DEF Ours, Past, FeedTypeOK
  <2> QED
    BY <1>2, <1>3, <1>4, <2>1 DEF WallInv, TagsArePast, Past
<1>11. Requested'
  BY <1>2, <1>3, <1>4, <1>7, <1>9 DEF WallInv, Requested, Ours
<1>12. Stamped'
  BY <1>2 DEF WallInv, Stamped
<1>13. AnswersHold'
  <2>1. AnswerHolds(f)'
    <3>1. ASSUME NEW p \in DOMAIN shown
          PROVE  /\ p \in polls'[f].ids
                 /\ p \in DOMAIN polls'[f].posts => polls'[f].posts[p] = shown[p]
                 /\ shown[p] > polls'[f].since => p \in DOMAIN polls'[f].posts
      BY <1>4, <1>6 DEF Restricted
    <3> QED
      BY <1>2, <1>4, <1>8, <3>1 DEF AnswerHolds
  <2> QED
    BY <1>2, <1>3, <2>1 DEF WallInv, Answers, AnswersHold, AnswerHolds, Ours
<1>14. AnswersOrdered'
  <2> SUFFICES ASSUME NEW g \in Poller, NEW h \in Poller, g # h,
                      polls'[g].at = "answered", polls'[h].at = "answered",
                      Ours(polls[g].token)', ~polls'[g].over
               PROVE  Ours(polls[h].token)' /\ polls'[g].cursor <= polls'[h].cursor
    BY DEF AnswersOrdered
  <2>1. CASE g = f
    BY <1>3, <1>5, <2>1 DEF Other
  <2>2. CASE h = f
    <3>1. polls[g].cursor <= clock
      BY <1>2, <1>3, <2>2 DEF WallInv, Answers, AnswersHold, AnswerHolds, Ours
    <3> QED
      BY <1>2, <1>3, <1>4, <1>7, <2>2, <3>1 DEF Ours
  <2>3. CASE g # f /\ h # f
    BY <1>2, <1>3, <2>3 DEF WallInv, Answers, AnswersOrdered, Ours
  <2> QED
    BY <2>1, <2>2, <2>3
<1>15. InUse' => InUse
  BY <1>2, <1>9 DEF InUse, Ours
<1>16. CursorBehind'
  BY <1>2, <1>3, <1>4, <1>7, <1>15 DEF WallInv, Cursor, CursorBehind, Ours
<1>17. SinceBehind'
  BY <1>2, <1>3, <1>4, <1>9 DEF WallInv, Cursor, SinceBehind
<1>18. Drawn'
  BY <1>2, <1>15 DEF WallInv, Cursor, Drawn, Stated
<1> QED
  BY <1>10, <1>11, <1>12, <1>13, <1>14, <1>16, <1>17, <1>18 DEF Books, Answers, Cursor

LEMMA LoseKeeps ==
  ASSUME FeedTypeOK, WallInv, NEW f \in Poller, Lose(f)
  PROVE  Books' /\ Answers' /\ Cursor'
<1>1. /\ shown' = shown /\ clock' = clock /\ revision' = revision /\ on' = on /\ tag' = tag
      /\ newest' = newest /\ nodes' = nodes /\ spoiled' = spoiled
      /\ polls'[f].at = "idle" /\ \A g \in Poller : g # f => polls'[g] = polls[g]
  BY LoseEffect DEF source, page, Others, Idle
<1>2. \A g \in Poller : polls'[g].at # "idle" => polls'[g] = polls[g]
  BY <1>1
<1>3. \A g \in Poller : Builds(g)' => Builds(g) /\ polls'[g] = polls[g]
  BY <1>1, <1>2 DEF Builds, Ours
<1>4. InUse' => InUse
  BY <1>1, <1>3 DEF InUse, Ours
<1>5. TagsArePast'
  BY <1>1, <1>2 DEF WallInv, TagsArePast, Past
<1>6. Requested'
  BY <1>1, <1>2, <1>3 DEF WallInv, Requested, Ours
<1>7. Stamped'
  BY <1>1 DEF WallInv, Stamped
<1>8. AnswersHold'
  BY <1>1, <1>2 DEF WallInv, Answers, AnswersHold, AnswerHolds, Ours
<1>9. AnswersOrdered'
  BY <1>1, <1>2 DEF WallInv, Answers, AnswersOrdered, Ours
<1>10. CursorBehind'
  BY <1>1, <1>2, <1>4 DEF WallInv, Cursor, CursorBehind, Ours
<1>11. SinceBehind'
  BY <1>1, <1>3 DEF WallInv, Cursor, SinceBehind
<1>12. Drawn'
  BY <1>1, <1>4 DEF WallInv, Cursor, Drawn, Stated
<1> QED
  BY <1>5, <1>6, <1>7, <1>8, <1>9, <1>10, <1>11, <1>12 DEF Books, Answers, Cursor

LEMMA ClearKeeps ==
  ASSUME FeedTypeOK, WallInv, Clear
  PROVE  Books' /\ Answers' /\ Cursor'
<1>1. /\ on /\ polls["forced"].at = "idle" /\ UNCHANGED <<source, on, tag>> /\ spoiled' = TRUE
      /\ "forced" \in Poller /\ Others("forced")
      /\ polls'["forced"] = [at |-> "sent", since |-> 0, tag |-> tag]
  BY ClearEffect DEF Clear
<1>2. /\ shown' = shown /\ clock' = clock /\ revision' = revision /\ on' = on /\ tag' = tag
      /\ polls'["forced"].at = "sent" /\ polls'["forced"].tag = tag
      /\ \A g \in Poller : g # "forced" => polls'[g] = polls[g]
  BY <1>1 DEF source, Others
<1>3. TagsArePast'
  BY <1>2 DEF WallInv, TagsArePast, Past
<1>4. \A g \in Poller : Builds(g)' => on'
  BY <1>1, <1>2 DEF WallInv, Requested, Builds, Ours
<1>5. Requested'
  BY <1>2, <1>4 DEF WallInv, Requested, Ours
<1>6. Stamped'
  BY <1>2 DEF WallInv, Stamped
<1>7. \A g \in Poller : polls'[g].at = "answered" => polls'[g] = polls[g]
  BY <1>2
<1>8. AnswersHold'
  BY <1>2, <1>7 DEF WallInv, Answers, AnswersHold, AnswerHolds, Ours
<1>9. AnswersOrdered'
  BY <1>2, <1>7 DEF WallInv, Answers, AnswersOrdered, Ours
<1>10. Cursor'
  BY <1>1 DEF InUse, Cursor, CursorBehind, SinceBehind, Drawn
<1> QED
  BY <1>3, <1>5, <1>6, <1>8, <1>9, <1>10 DEF Books, Answers

-----------------------------------------------------------------------------
(* The page takes an answer.                                               *)

\* What the other poll's request still is; on', tag' and the page are as the step has them.
LEMMA TakingKeeps ==
  ASSUME FeedTypeOK, WallInv, NEW f \in Poller, polls[f].at = "answered",
         UNCHANGED source, polls' = Answered(f), tag' = polls[f].token, on => on'
  PROVE  /\ Books' /\ Answers'
         /\ ~Builds(f)' /\ \A g \in Poller : Builds(g)' => Builds(g) /\ polls'[g].since = polls[g].since
<1>1. shown' = shown /\ clock' = clock /\ revision' = revision
  BY DEF source
<1>2. /\ polls'[f].at = "idle"
      /\ \A g \in Poller : g # f /\ polls[g].at # "answered" => polls'[g] = polls[g]
      /\ \A g \in Poller : g # f /\ polls[g].at = "answered" =>
           LET r == polls[g]  s == polls'[g]
           IN /\ s.at = "answered" /\ s.since = r.since /\ s.full = r.full /\ s.token = r.token
              /\ s.cursor = r.cursor /\ s.posts = r.posts /\ s.ids = r.ids
              /\ s.over = FALSE /\ s.late = (r.late \/ polls[f].over)
  BY AnswerTaken
<1>3. ~Builds(f)' /\ \A g \in Poller : Builds(g)' => Builds(g) /\ polls'[g].since = polls[g].since
  BY <1>1, <1>2 DEF Builds, Ours
<1>4. TagsArePast'
  <2>1. Past(polls[f].token)
    BY DEF WallInv, TagsArePast
  <2>2. \A g \in Poller :
          /\ polls'[g].at = "sent" => Past(polls'[g].tag)
          /\ polls'[g].at = "answered" => Past(polls'[g].token)
    BY <1>2 DEF WallInv, TagsArePast
  <2> QED
    BY <1>1, <2>1, <2>2 DEF TagsArePast, Past
<1>5. Requested'
  <2>1. \A g \in Poller :
          /\ polls'[g].at \in {"parked", "captured"} => Ours(polls'[g].token)
          /\ polls'[g].at \in {"parked", "captured", "answered"} /\ polls'[g].full => polls'[g].since = 0
    BY <1>2 DEF WallInv, Requested
  <2>2. \A g \in Poller : Builds(g)' => on'
    BY <1>3 DEF WallInv, Requested
  <2> QED
    BY <1>1, <2>1, <2>2 DEF Requested, Ours
<1>6. Stamped'
  BY <1>1 DEF WallInv, Stamped
<1>7. AnswersHold'
  <2> SUFFICES ASSUME NEW g \in Poller, polls'[g].at = "answered", Ours(polls[g].token)'
               PROVE  AnswerHolds(g)'
    BY DEF AnswersHold
  <2>1. g # f /\ polls[g].at = "answered"
    BY <1>2
  <2>2. /\ polls'[g].since = polls[g].since /\ polls'[g].token = polls[g].token
        /\ polls'[g].cursor = polls[g].cursor /\ polls'[g].posts = polls[g].posts
        /\ polls'[g].ids = polls[g].ids
    BY <1>2, <2>1
  <2>3. AnswerHolds(g)
    BY <1>1, <2>1, <2>2 DEF WallInv, Answers, AnswersHold, Ours
  <2> QED
    BY <1>1, <2>2, <2>3 DEF AnswerHolds
<1>8. AnswersOrdered'
  <2>1. \A g, h \in Poller : g # f /\ h # f => g = h
    BY FeedAssumptions
  <2> QED
    BY <1>2, <2>1 DEF AnswersOrdered
<1> QED
  BY <1>3, <1>4, <1>5, <1>6, <1>7, <1>8 DEF Books, Answers

LEMMA CutKeeps ==
  ASSUME FeedTypeOK, WallInv, NEW f \in Poller, Cut(f)
  PROVE  Books' /\ Answers' /\ Cursor'
<1>1. /\ polls[f].at = "answered" /\ polls' = Answered(f) /\ tag' = polls[f].token
      /\ spoiled' = (spoiled \/ polls[f].full)
      /\ UNCHANGED <<source, on, newest, nodes>>
  BY DEF Cut, Draw
<1>2. /\ Books' /\ Answers'
      /\ ~Builds(f)' /\ \A g \in Poller : Builds(g)' => Builds(g) /\ polls'[g].since = polls[g].since
  BY <1>1, TakingKeeps
<1>3. /\ shown' = shown /\ clock' = clock /\ revision' = revision
      /\ on' = on /\ newest' = newest /\ nodes' = nodes
  BY <1>1 DEF source
<1>4. InUse' => InUse
  <2> SUFFICES ASSUME InUse' PROVE InUse
    OBVIOUS
  <2>1. ~spoiled /\ ~polls[f].full /\ on
    <3>1. ~spoiled' /\ on'
      BY DEF InUse
    <3>2. ~spoiled /\ ~polls[f].full
      BY <1>1, <3>1, Zenon
    <3> QED
      BY <1>3, <3>1, <3>2
  <2>2. Ours(polls[f].token) \/ \E g \in Poller : Builds(g)
    BY <1>1, <1>2, <1>3 DEF InUse, Ours
  <2>3. \E g \in Poller : Builds(g)
    BY <1>1, <2>1, <2>2 DEF Builds
  <2> QED
    BY <2>1, <2>3 DEF InUse
<1>5. CursorBehind'
  <2> SUFFICES ASSUME InUse'
               PROVE  /\ newest' <= clock'
                      /\ \A g \in Poller : polls'[g].at = "answered" /\ ~polls'[g].late =>
                           Ours(polls[g].token)' /\ newest' <= polls'[g].cursor
    BY DEF CursorBehind
  <2>1. /\ newest <= clock
        /\ \A g \in Poller : polls[g].at = "answered" /\ ~polls[g].late =>
             Ours(polls[g].token) /\ newest <= polls[g].cursor
    BY <1>4 DEF WallInv, Cursor, CursorBehind
  <2>2. \A g \in Poller : polls'[g].at = "answered" /\ ~polls'[g].late =>
          /\ polls[g].at = "answered" /\ ~polls[g].late
          /\ polls'[g].token = polls[g].token /\ polls'[g].cursor = polls[g].cursor
    BY <1>1, AnswerTaken
  <2> QED
    BY <1>3, <2>1, <2>2 DEF Ours
<1>6. SinceBehind'
  BY <1>1, <1>2, <1>3 DEF WallInv, Cursor, SinceBehind
<1>7. Drawn'
  BY <1>3, <1>4 DEF WallInv, Cursor, Drawn, Stated
<1> QED
  BY <1>2, <1>5, <1>6, <1>7 DEF Cursor

\* The page after a receipt, of a page it leaves in use.
LEMMA ReceiveKeeps ==
  ASSUME FeedTypeOK, WallInv, NEW f \in Poller, NEW switched \in BOOLEAN,
         Receive(f, switched)
  PROVE  Books' /\ Answers' /\ Cursor'
<1> DEFINE a == polls[f]
           clear == switched /\ on
<1>1. /\ a.at = "answered" /\ polls' = Answered(f) /\ tag' = a.token /\ on' = TRUE
      /\ UNCHANGED source
      /\ newest' = IF a.full THEN a.cursor ELSE Larger(IF clear THEN 0 ELSE newest, a.cursor)
      /\ nodes' = Merge(IF clear THEN <<>> ELSE Restricted(nodes, DOMAIN nodes \cap a.ids), a.posts)
      /\ spoiled' = IF a.late THEN TRUE
                    ELSE IF a.since > 0 \/ newest' > a.cursor THEN spoiled \/ clear
                    ELSE spoiled /\ \E g \in Other(f) : polls[g].at # "idle"
  BY DEF Receive, Draw
<1>2. /\ Books' /\ Answers'
      /\ ~Builds(f)' /\ \A g \in Poller : Builds(g)' => Builds(g) /\ polls'[g].since = polls[g].since
  BY <1>1, TakingKeeps
<1>3. shown' = shown /\ clock' = clock /\ revision' = revision
  BY <1>1 DEF source
<1>4. /\ a.cursor \in Nat /\ a.since \in Nat /\ a.full \in BOOLEAN /\ newest \in Nat /\ clock \in Nat
      /\ a.full => a.since = 0
  BY <1>1, RequestFields, FeedAssumptions DEF WallInv, Requested, FeedTypeOK
<1>5. ASSUME InUse'
      PROVE  /\ newest' <= clock'
             /\ \A g \in Poller : polls'[g].at = "answered" /\ ~polls'[g].late =>
                  Ours(polls[g].token)' /\ newest' <= polls'[g].cursor
             /\ \A g \in Poller : Builds(g)' => polls'[g].since <= newest'
             /\ \A p \in DOMAIN shown' : shown'[p] > newest' \/ Stated(p)'
  \* It was on time, and is of this start.
  <2>1. ~a.late /\ ~spoiled'
    BY <1>1, <1>5 DEF InUse
  <2>2. \A g \in Poller : Builds(g)' => g # f /\ Builds(g) /\ on
    BY <1>2 DEF WallInv, Requested
  <2>3. (\E g \in Poller : Builds(g)') => ~spoiled
    <3>1. ASSUME NEW g \in Poller, Builds(g)' PROVE g \in Other(f) /\ polls[g].at # "idle"
      BY <2>2, <3>1 DEF Builds, Other
    <3> QED
      BY <1>1, <2>1, <3>1
  <2>4. Ours(a.token)
    <3>1. CASE \E g \in Poller : Builds(g)'
      <4>1. InUse
        BY <2>2, <2>3, <3>1 DEF InUse
      <4> QED
        BY <1>1, <2>1, <4>1 DEF WallInv, Cursor, CursorBehind
    <3>2. CASE ~\E g \in Poller : Builds(g)'
      BY <1>1, <1>3, <1>5, <3>2 DEF InUse, Ours
    <3> QED
      BY <3>1, <3>2
  <2>5. AnswerHolds(f)
    BY <1>1, <2>4 DEF WallInv, Answers, AnswersHold
  \* When the page was in use it was behind this answer.
  <2>6. InUse => newest <= a.cursor
    BY <1>1, <2>1 DEF WallInv, Cursor, CursorBehind
  <2>7. a.since > 0 \/ newest' > a.cursor => InUse /\ ~clear /\ ~a.full
    <3>1. ASSUME a.since > 0 \/ newest' > a.cursor PROVE ~spoiled /\ ~clear /\ ~a.full
      <4>1. spoiled' = (spoiled \/ clear)
        BY <1>1, <2>1, <3>1
      <4>2. a.full => a.since = 0 /\ newest' = a.cursor
        BY <1>1, <1>4
      <4>3. ~spoiled /\ ~clear
        <5> HIDE DEF clear
        <5> QED
          BY <2>1, <4>1, Zenon
      <4> QED
        BY <1>4, <3>1, <4>2, <4>3
    <3>2. ASSUME ~a.full PROVE Builds(f) /\ on
      BY <1>1, <2>4, <3>2 DEF Builds, WallInv, Requested
    <3> QED
      BY <3>1, <3>2 DEF InUse
  <2>8. newest' = a.cursor
    BY <1>1, <1>4, <2>6, <2>7 DEF Larger
  <2>9. newest' <= clock'
    BY <1>3, <2>5, <2>8 DEF AnswerHolds
  <2>10. ASSUME NEW g \in Poller, polls'[g].at = "answered", ~polls'[g].late
         PROVE  Ours(polls[g].token)' /\ newest' <= polls'[g].cursor
    <3>1. g # f /\ polls[g].at = "answered"
      BY <1>1, <2>10, AnswerTaken
    <3>2. /\ polls'[g].token = polls[g].token /\ polls'[g].cursor = polls[g].cursor
          /\ ~a.over
      BY <1>1, <2>10, <3>1, AnswerTaken
    <3>3. Ours(polls[g].token) /\ a.cursor <= polls[g].cursor
      BY <1>1, <2>4, <3>1, <3>2 DEF WallInv, Answers, AnswersOrdered
    <3> QED
      BY <1>3, <2>8, <3>2, <3>3 DEF Ours
  <2>11. ASSUME NEW g \in Poller, Builds(g)' PROVE polls'[g].since <= newest'
    <3>1. InUse /\ Builds(g) /\ ~spoiled /\ polls'[g].since = polls[g].since
      BY <1>2, <2>2, <2>3, <2>11 DEF InUse
    <3>2. polls[g].since <= newest
      BY <3>1 DEF WallInv, Cursor, SinceBehind
    <3>3. polls[g].since \in Nat
      <4>1. polls[g] \in Requests /\ polls[g].at \in {"sent", "parked", "captured", "answered"}
        BY <3>1 DEF Builds, FeedTypeOK
      <4> QED
        BY <4>1, RequestFields
    <3> QED
      BY <1>4, <2>6, <2>8, <3>1, <3>2, <3>3
  <2>12. ASSUME NEW p \in DOMAIN shown, ~(shown[p] > newest')
         PROVE  p \in DOMAIN nodes' /\ nodes'[p] = shown[p]
    <3>1. shown[p] \in Nat /\ shown[p] > 0 /\ shown[p] <= a.cursor
      BY <1>4, <2>8, <2>12 DEF WallInv, Stamped
    <3>2. /\ p \in a.ids
          /\ p \in DOMAIN a.posts => a.posts[p] = shown[p]
          /\ shown[p] > a.since => p \in DOMAIN a.posts
      BY <2>5, <3>1 DEF AnswerHolds
    <3>3. CASE p \in DOMAIN a.posts
      BY <1>1, <3>2, <3>3 DEF Merge
    <3>4. CASE p \notin DOMAIN a.posts
      <4>1. shown[p] <= a.since /\ a.since > 0
        BY <1>4, <3>1, <3>2, <3>4
      <4>2. InUse /\ ~clear /\ ~a.full
        BY <2>7, <4>1
      <4>3. a.since <= newest
        BY <1>1, <2>4, <4>2 DEF Builds, InUse, WallInv, Cursor, SinceBehind
      <4>4. p \in DOMAIN nodes /\ nodes[p] = shown[p]
        <5>1. ~(shown[p] > newest)
          BY <1>4, <3>1, <4>1, <4>3
        <5> QED
          BY <4>2, <5>1 DEF WallInv, Cursor, Drawn, Stated
      <4>5. nodes' = Merge(Restricted(nodes, DOMAIN nodes \cap a.ids), a.posts)
        BY <1>1, <4>2
      <4> QED
        BY <3>2, <3>4, <4>4, <4>5 DEF Merge, Restricted
    <3> QED
      BY <3>3, <3>4
  <2>13. \A p \in DOMAIN shown' : shown'[p] > newest' \/ Stated(p)'
    BY <1>3, <2>12 DEF Stated
  <2> QED
    BY <2>9, <2>10, <2>11, <2>13
<1>6. CursorBehind' /\ Drawn'
  BY <1>5 DEF CursorBehind, Drawn
<1>7. SinceBehind'
  <2> SUFFICES ASSUME NEW g \in Poller, Builds(g)', ~spoiled'
               PROVE  polls'[g].since <= newest'
    BY DEF SinceBehind
  <2>1. InUse'
    BY <1>1 DEF InUse
  <2> QED
    BY <1>5, <2>1
<1> QED
  BY <1>2, <1>6, <1>7 DEF Cursor

-----------------------------------------------------------------------------
LEMMA WallStart ==
  ASSUME FeedInit
  PROVE  WallInv
<1>1. /\ clock \in Stamp /\ revision = <<0, 0>> /\ owed = FALSE /\ on = FALSE /\ tag = None
      /\ newest = 0 /\ nodes = [p \in {} |-> 0] /\ spoiled = FALSE /\ mishaps = 0
      /\ polls = [f \in Poller |-> Idle]
      /\ \A p \in DOMAIN shown : shown[p] \in 1..clock
  BY DEF FeedInit, SourceInit
<1>2. shown \in Walls
  BY WallsBySets DEF FeedInit, SourceInit
<1>3. nodes \in Walls
  <2>1. nodes \in [{} -> Stamp] /\ {} \in SUBSET Post
    BY <1>1
  <2> QED
    BY <2>1, WallsBySets
<1>4. Idle \in Requests /\ \A f \in Poller : polls[f].at = "idle"
  BY <1>1 DEF Requests, Idle
<1>5. SourceTyped /\ PageTyped /\ mishaps \in Nat
  BY <1>1, <1>2, <1>3 DEF SourceTyped, PageTyped, Tags
<1>6. PollsTyped
  BY <1>1, <1>4 DEF PollsTyped
<1>7. \A f \in Poller : ~Builds(f)
  BY <1>4 DEF Builds
<1>8. TagsArePast /\ Requested /\ Stamped
  BY <1>1, <1>4, <1>7 DEF TagsArePast, Past, Requested, Stamped
<1>9. Answers
  BY <1>4 DEF Answers, AnswersHold, AnswersOrdered
<1>10. Cursor
  BY <1>1, <1>7 DEF Cursor, InUse, CursorBehind, SinceBehind, Drawn
<1> QED
  BY <1>5, <1>6, <1>8, <1>9, <1>10, TypedInParts DEF WallInv

LEMMA WallStep ==
  ASSUME WallInv, [FeedNext]_feedVars
  PROVE  WallInv'
<1>1. FeedTypeOK /\ FeedTypeOK'
  BY WallTypesStep DEF WallInv
<1>2. Books' /\ Answers' /\ Cursor'
  <2>1. CASE Change
    BY <1>1, <2>1, ChangeAdvances, AdvanceKeeps DEF WallInv, Change
  <2>2. CASE MacRestarts
    BY <1>1, <2>2, RestartKeeps
  <2>3. CASE Loop \/ PollAgain
    BY <1>1, <2>3, SendKeeps, FeedAssumptions DEF Loop, PollAgain
  <2>4. CASE Clear
    BY <1>1, <2>4, ClearKeeps
  <2>5. ASSUME NEW f \in Poller,
               Serve(f) \/ Cut(f) \/ Lose(f)
                 \/ \E switched \in BOOLEAN : Receive(f, switched)
        PROVE  Books' /\ Answers' /\ Cursor'
    BY <1>1, <2>5, CaptureKeeps, UnparkKeeps, SnapshotKeeps, CutKeeps, LoseKeeps, ReceiveKeeps
       DEF Serve
  <2>6. CASE UNCHANGED feedVars
    <3>1. UNCHANGED <<source, page, polls>>
      BY <2>6 DEF feedVars
    <3>2. Advances
      <4>1. clock \in Nat
        BY <1>1, FeedAssumptions DEF FeedTypeOK
      <4> QED
        BY <1>1, <3>1, <4>1 DEF Advances, WallInv, Stamped, FeedTypeOK, source
    <3> QED
      BY <1>1, <3>1, <3>2, AdvanceKeeps
  <2> QED
    BY <2>1, <2>2, <2>3, <2>4, <2>5, <2>6 DEF FeedNext
<1> QED
  BY <1>1, <1>2 DEF WallInv, Books

\* The wall, the page and its requests stay well-typed: whatever the handler answers has one of
\* the forms the page's script expects (feed.go:112-268, pollFeed in listener.html).
THEOREM WallTypeCorrect == FeedSpec => []FeedTypeOK
<1>1. WallInv => FeedTypeOK
  BY DEF WallInv
<1> QED
  BY <1>1, WallStart, WallStep, PTL DEF FeedSpec

\* While the tag of a page holds, the page has drawn every post at or behind its cursor: the
\* incremental answers of FeedFor leave nothing out, whatever restarts, switches of party,
\* lost and cut answers, and however the page's two requests cross each other.
THEOREM NothingIsMissed == FeedSpec => []NothingBehindCursor
<1>1. ASSUME WallInv PROVE NothingBehindCursor
  BY <1>1, HeldIsOurs DEF WallInv, Cursor, Drawn, InUse, NothingBehindCursor, FeedTypeOK
<1>2. WallInv => NothingBehindCursor
  BY <1>1
<1> QED
  BY <1>2, WallStart, WallStep, PTL DEF FeedSpec
=============================================================================

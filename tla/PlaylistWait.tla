---------------------------- MODULE PlaylistWait ----------------------------
(***************************************************************************)
(* The blocking playlist reload of the relay origin (internal/origin,      *)
(* Room.Playlist and Room.PutPlaylist).  A player asks for a part that may *)
(* not exist yet and is held on a condition variable until a playlist with *)
(* that part is published or its deadline passes.                          *)
(*                                                                         *)
(* sync.Cond has no timed wait, so each reader arms a timer that           *)
(* broadcasts.  A publisher broadcasts after it has released the room's    *)
(* lock, and a timer without ever taking it: what this module is about is  *)
(* which wakeups that can lose.                                            *)
(***************************************************************************)
EXTENDS Integers

CONSTANTS
  Readers,   \* requests for the playlist
  Handlers,  \* playlist uploads the origin may be handling at once
  MaxMSN,    \* bound: segments the muxer completes
  MaxPart    \* bound: parts of one segment

Free == "free"

ASSUME WaitBounds == MaxMSN \in Nat /\ MaxPart \in Nat
ASSUME FreeIsNobody == Free \notin Readers

VARIABLES
  lock,      \* the reader holding Room.mu between its check and its wait, or Free
  playlist,  \* the playlist stored, or NoPlaylist
  muxer,     \* the playlist the Mac's muxer would serve now
  upload,    \* where each playlist upload is
  body,      \* the playlist it carries
  reader,    \* where each request is
  want,      \* the position it asks for
  late,      \* its deadline has passed
  timer      \* its timer has yet to fire

vars == <<lock, playlist, muxer, upload, body, reader, want, late, timer>>

\* A playlist is known by its incomplete last segment and that segment's parts.
\* The playlist of a muxer that has produced nothing is not served.
Playlists == [msn : 0..MaxMSN, parts : 0..MaxPart]
NoPlaylist == [msn |-> 0, parts |-> 0]

\* A negative part asks for the whole segment, a negative sequence for nothing.
Wants == [msn : (-1)..(MaxMSN + 1), part : (-1)..MaxPart]

Has(p, w) ==                     \* playlistHas
  w.msn < p.msn \/ (w.msn = p.msn /\ w.part \in 0..(p.parts - 1))

Init ==
  /\ lock = Free /\ playlist = NoPlaylist /\ muxer = NoPlaylist
  /\ upload = [h \in Handlers |-> "none"] /\ body = [h \in Handlers |-> NoPlaylist]
  /\ reader = [g \in Readers |-> "idle"]
  /\ want = [g \in Readers |-> [msn |-> -1, part |-> -1]]
  /\ late = [g \in Readers |-> FALSE] /\ timer = [g \in Readers |-> FALSE]

\* cond.Broadcast: whoever is parked now.
Woken(r) == [g \in Readers |-> IF r[g] = "parked" THEN "woken" ELSE r[g]]

-----------------------------------------------------------------------------
(* The Mac.                                                                *)

Part ==
  /\ muxer.parts < MaxPart /\ muxer' = [muxer EXCEPT !.parts = @ + 1]
  /\ UNCHANGED <<lock, playlist, upload, body, reader, want, late, timer>>

Segment ==
  /\ muxer.parts > 0 /\ muxer.msn < MaxMSN
  /\ muxer' = [msn |-> muxer.msn + 1, parts |-> 0]
  /\ UNCHANGED <<lock, playlist, upload, body, reader, want, late, timer>>

Send(h) ==
  /\ upload[h] = "none" /\ muxer # NoPlaylist
  /\ upload' = [upload EXCEPT ![h] = "sent"] /\ body' = [body EXCEPT ![h] = muxer]
  /\ UNCHANGED <<lock, playlist, muxer, reader, want, late, timer>>

\* The slip: no broadcast follows.
Store_Silently(h) ==
  /\ upload[h] = "sent" /\ lock = Free
  /\ playlist' = body[h] /\ upload' = [upload EXCEPT ![h] = "none"]
  /\ UNCHANGED <<lock, muxer, body, reader, want, late, timer>>

Store(h) ==                      \* PutPlaylist's lock section
  /\ upload[h] = "sent" /\ lock = Free
  /\ playlist' = body[h] /\ upload' = [upload EXCEPT ![h] = "stored"]
  /\ UNCHANGED <<lock, muxer, body, reader, want, late, timer>>

Broadcast(h) ==                  \* and its broadcast, after the section
  /\ upload[h] = "stored" /\ upload' = [upload EXCEPT ![h] = "none"]
  /\ reader' = Woken(reader)
  /\ UNCHANGED <<lock, playlist, muxer, body, want, late, timer>>

-----------------------------------------------------------------------------
(* A reader.                                                               *)

Ask(g, w) ==
  /\ reader[g] = "idle"
  /\ reader' = [reader EXCEPT ![g] = "asking"] /\ want' = [want EXCEPT ![g] = w]
  /\ late' = [late EXCEPT ![g] = FALSE]
  /\ UNCHANGED <<lock, playlist, muxer, upload, body, timer>>

\* The slip: only a new part answers.
Check_IgnoresDeadline(g) ==
  /\ reader[g] \in {"asking", "woken"} /\ lock = Free
  /\ IF playlist = NoPlaylist \/ Has(playlist, want[g])
     THEN /\ reader' = [reader EXCEPT ![g] = "idle"]
          /\ timer' = [timer EXCEPT ![g] = FALSE] /\ UNCHANGED lock
     ELSE /\ reader' = [reader EXCEPT ![g] = "armed"]
          /\ timer' = [timer EXCEPT ![g] = TRUE] /\ lock' = g
  /\ UNCHANGED <<playlist, muxer, upload, body, want, late>>

\* One turn of the loop: answer (or report that there is no playlist), or arm
\* the timer and keep the lock for the wait.  A woken reader stops its timer.
Check(g) ==
  /\ reader[g] \in {"asking", "woken"} /\ lock = Free
  /\ IF playlist = NoPlaylist \/ Has(playlist, want[g]) \/ late[g]
     THEN /\ reader' = [reader EXCEPT ![g] = "idle"]
          /\ timer' = [timer EXCEPT ![g] = FALSE] /\ UNCHANGED lock
     ELSE /\ reader' = [reader EXCEPT ![g] = "armed"]
          /\ timer' = [timer EXCEPT ![g] = TRUE] /\ lock' = g
  /\ UNCHANGED <<playlist, muxer, upload, body, want, late>>

Park(g) ==                       \* cond.Wait joins the list and releases the lock
  /\ reader[g] = "armed" /\ reader' = [reader EXCEPT ![g] = "parked"]
  /\ lock' = Free
  /\ UNCHANGED <<playlist, muxer, upload, body, want, late, timer>>

Deadline(g) ==
  /\ reader[g] # "idle" /\ ~late[g] /\ late' = [late EXCEPT ![g] = TRUE]
  /\ UNCHANGED <<lock, playlist, muxer, upload, body, reader, want, timer>>

TimerFires(g) ==                 \* AfterFunc's own goroutine, without the lock
  /\ timer[g] /\ late[g] /\ timer' = [timer EXCEPT ![g] = FALSE]
  /\ reader' = Woken(reader)
  /\ UNCHANGED <<lock, playlist, muxer, upload, body, want, late>>

-----------------------------------------------------------------------------
Next ==
  \/ Part \/ Segment
  \/ \E h \in Handlers : Send(h) \/ Store(h) \/ Broadcast(h)
  \/ \E g \in Readers : Check(g) \/ Park(g) \/ Deadline(g) \/ TimerFires(g)
  \/ \E g \in Readers, w \in Wants : Ask(g, w)

\* Goroutines run, time passes, and a lock that keeps being released is had in
\* the end (sync.Mutex's starvation mode).  Nothing obliges the Mac to publish.
Fairness ==
  /\ \A h \in Handlers : SF_vars(Store(h)) /\ WF_vars(Broadcast(h))
  /\ \A g \in Readers :
       /\ SF_vars(Check(g)) /\ WF_vars(Park(g))
       /\ WF_vars(Deadline(g)) /\ WF_vars(TimerFires(g))

Spec == Init /\ [][Next]_vars
FairSpec == Spec /\ Fairness

-----------------------------------------------------------------------------
\* The values of the room, its uploads and its readers; a reader holds the lock
\* exactly between its check and its wait (origin.go:58-84, 261-294).
TypeOK ==
  /\ lock \in Readers \union {Free}
  /\ playlist \in Playlists /\ muxer \in Playlists
  /\ upload \in [Handlers -> {"none", "sent", "stored"}]
  /\ body \in [Handlers -> Playlists]
  /\ reader \in [Readers -> {"idle", "asking", "armed", "parked", "woken"}]
  /\ want \in [Readers -> Wants]
  /\ late \in [Readers -> BOOLEAN] /\ timer \in [Readers -> BOOLEAN]
  /\ \A g \in Readers : reader[g] = "armed" <=> lock = g

(***************************************************************************)
(* No publish is lost: a reader parked although its part is in the         *)
(* playlist has a broadcast coming (origin.go:233-244, 261-294).           *)
(***************************************************************************)
NoLostPublish ==
  \A g \in Readers :
    reader[g] = "parked" /\ Has(playlist, want[g]) => \E h \in Handlers : upload[h] = "stored"

(***************************************************************************)
(* While the Mac goes on publishing, no reader is held much past its       *)
(* deadline, with whatever playlist there is (origin.go:274-281).          *)
(***************************************************************************)
PublishesReleaseTheLate ==
  []<>(\E h \in Handlers : upload[h] = "stored") =>
    \A g \in Readers : late[g] ~> reader[g] = "idle"
=============================================================================

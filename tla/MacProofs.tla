----------------------------- MODULE MacProofs -----------------------------
(***************************************************************************)
(* Proofs about two parts of the Mac, for every set of values and every    *)
(* bound: the event store (EventStore) and the contribution manager        *)
(* (Contribute).                                                           *)
(*                                                                         *)
(* Of the event store: type correctness, that the wall in memory is what a *)
(* restart would make of the accepted lines of the journal, that a Mac in  *)
(* another's party keeps that party's link, and that the store implements  *)
(* FeedSource.  Of the manager: type correctness, that what it skips as    *)
(* already sent - media, page, assets - is on the origin incarnation it    *)
(* talks to, that no playlist goes before its media, and that it never     *)
(* claims to be running when it is not.                                    *)
(***************************************************************************)
EXTENDS Contribute, EventStore, WellFoundedInduction, TLAPS

-----------------------------------------------------------------------------
(* Replaying.                                                              *)

LEMMA LeastNumber ==
  ASSUME NEW T \in SUBSET Nat, T # {}
  PROVE  \E x \in T : \A y \in T : x <= y
<1> DEFINE R == OpToRel(<, Nat)
<1>1. IsWellFoundedOn(R, Nat)
  BY NatLessThanWellFounded
<1>2. \A x, y \in Nat : <<y, x>> \in R <=> y < x
  BY DEF OpToRel
<1>3. PICK x \in T : \A y \in T : ~ (<<y, x>> \in R)
  BY <1>1, WFMin
<1>4. \A y \in T : ~ (y < x)
  BY <1>2, <1>3, Zenon
<1> QED
  BY <1>4

\* What line i makes of wall w.
Effect(s, S, i, w) == IF i \in S THEN w ELSE Replayed(w, s[i])

\* r lists the walls after the first 0, 1, ..., n lines.
Runs(r, s, S, n) == r = [i \in 0..n |-> IF i = 0 THEN Empty ELSE Effect(s, S, i, r[i - 1])]

LEMMA RunsStepwise ==
  ASSUME NEW r, NEW s, NEW S, NEW n \in Nat, Runs(r, s, S, n)
  PROVE  /\ DOMAIN r = 0..n /\ r[0] = Empty
         /\ \A i \in 1..n : r[i] = Effect(s, S, i, r[i - 1])
<1> DEFINE F == [i \in 0..n |-> IF i = 0 THEN Empty ELSE Effect(s, S, i, r[i - 1])]
<1>1. r = F
  BY DEF Runs
<1>2. DOMAIN F = 0..n /\ F[0] = Empty /\ \A i \in 1..n : F[i] = Effect(s, S, i, r[i - 1])
  OBVIOUS
<1> QED
  BY <1>1, <1>2

LEMMA RunExtends ==
  ASSUME NEW r, NEW s, NEW S, NEW n \in Nat, Runs(r, s, S, n)
  PROVE  \E q : Runs(q, s, S, n + 1)
<1> DEFINE q == [i \in 0..(n + 1) |-> IF i = n + 1 THEN Effect(s, S, n + 1, r[n]) ELSE r[i]]
           F == [i \in 0..(n + 1) |-> IF i = 0 THEN Empty ELSE Effect(s, S, i, q[i - 1])]
<1>1. DOMAIN r = 0..n /\ r[0] = Empty /\ \A i \in 1..n : r[i] = Effect(s, S, i, r[i - 1])
  BY RunsStepwise
<1>2. ASSUME NEW i \in 0..(n + 1) PROVE q[i] = F[i]
  <2>1. CASE i = 0
    BY <1>1, <2>1
  <2>2. CASE i = n + 1
    BY <1>1, <2>2
  <2>3. CASE i \in 1..n
    BY <1>1, <2>3
  <2> QED
    BY <2>1, <2>2, <2>3
<1>3. q = F
  BY <1>2
<1> QED
  BY <1>3 DEF Runs

LEMMA RunExists ==
  ASSUME NEW s, NEW S, NEW n \in Nat
  PROVE  \E r : Runs(r, s, S, n)
<1> DEFINE T == {m \in Nat : ~\E r : Runs(r, s, S, m)}
<1>1. SUFFICES ASSUME T # {} PROVE FALSE
  OBVIOUS
<1>2. PICK m \in T : \A y \in T : m <= y
  BY <1>1, LeastNumber
<1>3. m # 0
  <2> DEFINE r == [i \in 0..0 |-> Empty]
  <2>1. r = [i \in 0..0 |-> IF i = 0 THEN Empty ELSE Effect(s, S, i, r[i - 1])]
    OBVIOUS
  <2>2. Runs(r, s, S, 0)
    BY <2>1 DEF Runs
  <2> QED
    BY <2>2
<1>4. m - 1 \in Nat /\ m - 1 \notin T
  BY <1>2, <1>3
<1>5. PICK r : Runs(r, s, S, m - 1)
  BY <1>4
<1>6. \E q : Runs(q, s, S, (m - 1) + 1)
  BY <1>4, <1>5, RunExtends
<1> QED
  BY <1>4, <1>6

\* Two runs are equal as long as their lines have the same effects.
LEMMA RunsAgree ==
  ASSUME NEW r, NEW s, NEW S, NEW n \in Nat, Runs(r, s, S, n),
         NEW q, NEW t, NEW T, NEW k \in Nat, Runs(q, t, T, k),
         NEW m \in 0..n, m <= k,
         \A i \in 1..m : \A w : Effect(s, S, i, w) = Effect(t, T, i, w)
  PROVE  r[m] = q[m]
<1> DEFINE D == {i \in 0..m : r[i] # q[i]}
<1>1. SUFFICES ASSUME D # {} PROVE FALSE
  OBVIOUS
<1>2. D \in SUBSET Nat
  OBVIOUS
<1>3. PICK i \in D : \A y \in D : i <= y
  BY <1>1, <1>2, LeastNumber
<1>4. /\ r[0] = Empty /\ \A j \in 1..n : r[j] = Effect(s, S, j, r[j - 1])
      /\ q[0] = Empty /\ \A j \in 1..k : q[j] = Effect(t, T, j, q[j - 1])
  BY RunsStepwise
<1>5. i \in 1..m
  BY <1>3, <1>4
<1>6. i - 1 \in 0..m /\ i - 1 \notin D
  BY <1>3, <1>5
<1>7. r[i - 1] = q[i - 1]
  BY <1>6
<1> QED
  BY <1>3, <1>4, <1>5, <1>7

LEMMA ReplayIsRun ==
  ASSUME NEW s, NEW S, Len(s) \in Nat, NEW r, Runs(r, s, S, Len(s))
  PROVE  ReplayBut(s, S) = r[Len(s)]
<1> DEFINE Good(f) == f = [i \in 0..Len(s) |-> IF i = 0 THEN Empty ELSE IF i \in S THEN f[i - 1]
                                               ELSE Replayed(f[i - 1], s[i])]
           a == CHOOSE f : Good(f)
<1>1. Good(r)
  BY DEF Runs, Effect
<1>2. Good(a)
  BY <1>1
<1>3. Runs(a, s, S, Len(s))
  BY <1>2 DEF Runs, Effect
<1>4. a[Len(s)] = r[Len(s)]
  BY <1>3, RunsAgree
<1>5. ReplayBut(s, S) = a[Len(s)]
  BY DEF ReplayBut
<1> QED
  BY <1>4, <1>5

LEMMA ReplayOfNothing ==
  ASSUME NEW S
  PROVE  ReplayBut(<<>>, S) = Empty
<1>1. Len(<<>>) = 0 /\ 0 \in Nat
  OBVIOUS
<1>2. PICK r : Runs(r, <<>>, S, 0)
  BY RunExists, <1>1
<1>3. ReplayBut(<<>>, S) = r[0]
  BY <1>1, <1>2, ReplayIsRun
<1> QED
  BY <1>1, <1>2, <1>3, RunsStepwise

LEMMA ReplayAppends ==
  ASSUME NEW A, NEW s \in Seq(A), NEW l \in A, NEW S
  PROVE  ReplayBut(Append(s, l), S) =
           IF Len(s) + 1 \in S THEN ReplayBut(s, S) ELSE Replayed(ReplayBut(s, S), l)
<1> DEFINE n == Len(s)
           t == Append(s, l)
<1>1. n \in Nat /\ n + 1 \in Nat /\ Len(t) = n + 1 /\ t[n + 1] = l /\ \A i \in 1..n : t[i] = s[i]
  OBVIOUS
<1> HIDE DEF n, t
<1>2. PICK r : Runs(r, t, S, n + 1)
  BY <1>1, RunExists
<1>3. PICK q : Runs(q, s, S, n)
  BY <1>1, RunExists
<1>4. ReplayBut(t, S) = r[n + 1] /\ ReplayBut(s, S) = q[n]
  <2>1. ReplayBut(t, S) = r[n + 1]
    BY <1>1, <1>2, ReplayIsRun
  <2>2. ReplayBut(s, S) = q[n]
    BY <1>1, <1>3, ReplayIsRun DEF n
  <2> QED
    BY <2>1, <2>2
<1>5. q[n] = r[n]
  <2>1. n \in 0..n /\ n <= n + 1
    BY <1>1
  <2>2. \A i \in 1..n : \A w : Effect(s, S, i, w) = Effect(t, S, i, w)
    BY <1>1 DEF Effect
  <2> QED
    BY <1>1, <1>2, <1>3, <2>1, <2>2, RunsAgree
<1>6. r[n + 1] = Effect(t, S, n + 1, r[n])
  <2>1. n + 1 \in 1..(n + 1) /\ (n + 1) - 1 = n
    BY <1>1
  <2> QED
    BY <1>1, <1>2, <2>1, RunsStepwise
<1> QED
  BY <1>1, <1>4, <1>5, <1>6 DEF Effect, n, t

\* Lines with the same effects make the same wall.
LEMMA ReplaysAgree ==
  ASSUME NEW s, Len(s) \in Nat, NEW S, NEW T,
         \A i \in 1..Len(s) : \A w : Effect(s, S, i, w) = Effect(s, T, i, w)
  PROVE  ReplayBut(s, S) = ReplayBut(s, T)
<1>1. PICK r : Runs(r, s, S, Len(s))
  BY RunExists
<1>2. PICK q : Runs(q, s, T, Len(s))
  BY RunExists
<1>3. r[Len(s)] = q[Len(s)]
  BY <1>1, <1>2, RunsAgree
<1> QED
  BY <1>1, <1>2, <1>3, ReplayIsRun

-----------------------------------------------------------------------------
(* Walls and lines.                                                        *)

Posted == [act : Nat \ {0}, photo : Photo \cup {None}, thumb : BOOLEAN, deleted : BOOLEAN,
           hidden : BOOLEAN, replies : SUBSET Reply, muted : SUBSET Reply, likes : Nat]

PostMaps == UNION {[S -> Posted] : S \in SUBSET Post}

IsWall(w) ==
  /\ w = [posts |-> w.posts, now |-> w.now, played |-> w.played]
  /\ w.posts \in PostMaps
  /\ w.now \in Track \cup {None}

Stamp == Nat \ {0}

\* The lines of a journal.
Lines ==
  {Cut}
  \cup [op : {"post"}, post : Post, photo : Photo \cup {None}, thumb : BOOLEAN, act : Stamp]
  \cup [op : {"delete", "post-reaction"}, post : Post, act : Stamp]
  \cup [op : {"mod"}, post : Post, hide : BOOLEAN, act : Stamp]
  \cup [op : {"comment", "comment-delete"}, post : Post, reply : Reply, act : Stamp]
  \cup [op : {"comment-mod"}, post : Post, reply : Reply, hide : BOOLEAN, act : Stamp]
  \cup [op : {"thumb"}, photo : Photo, act : Stamp]
  \cup [op : {"track-current", "track-drop"}, track : Track]
  \cup [op : {"track-clear"}]

LEMMA PostMapsBySets ==
  ASSUME NEW g
  PROVE  g \in PostMaps <=> \E S \in SUBSET Post : g \in [S -> Posted]
BY DEF PostMaps

LEMMA PostMapIs ==
  ASSUME NEW g \in PostMaps
  PROVE  DOMAIN g \in SUBSET Post /\ g \in [DOMAIN g -> Posted]
BY PostMapsBySets

LEMMA EmptyIsWall == IsWall(Empty) /\ DOMAIN Empty.posts = {}
<1>1. <<>> \in [{} -> Posted]
  OBVIOUS
<1>2. {} \in SUBSET Post
  OBVIOUS
<1>3. <<>> \in PostMaps /\ DOMAIN <<>> = {}
  BY <1>1, <1>2, PostMapsBySets
<1> QED
  BY <1>3 DEF Empty, IsWall

LEMMA WithPosts ==
  ASSUME NEW w, IsWall(w), NEW g \in PostMaps
  PROVE  LET v == [w EXCEPT !.posts = g] IN
         IsWall(v) /\ v.posts = g /\ v.now = w.now /\ v.played = w.played
<1>1. PICK a, b, c : w = [posts |-> a, now |-> b, played |-> c]
  BY DEF IsWall
<1>2. [w EXCEPT !.posts = g] = [posts |-> g, now |-> w.now, played |-> w.played]
  BY <1>1
<1> QED
  BY <1>2 DEF IsWall

LEMMA PutPost ==
  ASSUME NEW w, IsWall(w), NEW p \in DOMAIN w.posts, NEW y \in Posted
  PROVE  LET v == [w EXCEPT !.posts[p] = y] IN
         /\ IsWall(v) /\ v.now = w.now /\ v.played = w.played
         /\ v.posts = [w.posts EXCEPT ![p] = y]
<1> DEFINE g == [w.posts EXCEPT ![p] = y]
<1>1. DOMAIN w.posts \in SUBSET Post /\ w.posts \in [DOMAIN w.posts -> Posted]
  BY PostMapIs DEF IsWall
<1>2. g \in [DOMAIN w.posts -> Posted]
  BY <1>1
<1>3. g \in PostMaps
  BY <1>1, <1>2, PostMapsBySets
<1>4. [w EXCEPT !.posts[p] = y] = [w EXCEPT !.posts = g]
  OBVIOUS
<1> HIDE DEF g
<1>5. LET v == [w EXCEPT !.posts = g] IN IsWall(v) /\ v.posts = g /\ v.now = w.now /\ v.played = w.played
  BY <1>3, WithPosts
<1> QED
  BY <1>4, <1>5 DEF g

LEMMA LineIs ==
  ASSUME NEW l \in Lines
  PROVE  /\ l.op \in {"cut", "post", "thumb"} \cup OnPost \cup OnTrack
         /\ l.op = "cut" <=> l = Cut
         /\ l.op \in {"post"} \cup OnPost => l.post \in Post
         /\ l.op \in {"post", "thumb"} \cup OnPost => l.act \in Nat \ {0}
         /\ l.op \in {"post", "thumb"} => l.photo \in Photo \cup {None}
         /\ l.op = "post" => l.thumb \in BOOLEAN
         /\ l.op \in {"mod", "comment-mod"} => l.hide \in BOOLEAN
         /\ l.op \in {"comment", "comment-mod", "comment-delete"} => l.reply \in Reply
         /\ l.op \in {"track-current", "track-drop"} => l.track \in Track
BY DEF Lines, Stamp, Cut, OnPost, OnTrack

LEMMA NewPostType ==
  ASSUME NEW m \in Photo \cup {None}, NEW th \in BOOLEAN, NEW a \in Nat \ {0}
  PROVE  NewPost(m, th, a) \in Posted
BY DEF NewPost, Posted

\* What a line changes of a post depends on nothing but the post and the line.
LEMMA ChangedType ==
  ASSUME NEW l \in Lines, l.op \in OnPost, NEW x \in Posted
  PROVE  /\ Changed(x, l) \in Posted
         /\ Changed(x, l).act = x.act
         /\ Changed(x, l).photo = x.photo
         /\ Changed(x, l).deleted = (x.deleted \/ l.op = "delete")
<1> USE LineIs DEF Posted
<1>1. CASE l.op = "delete"
  BY <1>1 DEF Changed
<1>2. CASE l.op = "mod"
  BY <1>2 DEF Changed
<1>3. CASE l.op = "comment"
  BY <1>3 DEF Changed
<1>4. CASE l.op = "comment-mod"
  BY <1>4 DEF Changed
<1>5. CASE l.op = "comment-delete"
  BY <1>5 DEF Changed
<1>6. CASE l.op = "post-reaction"
  BY <1>6 DEF Changed
<1> QED
  BY <1>1, <1>2, <1>3, <1>4, <1>5, <1>6 DEF OnPost

\* Posts that look alike differ in their stamps only.
Alike(x, y) ==
  /\ x.photo = y.photo /\ x.thumb = y.thumb /\ x.deleted = y.deleted /\ x.hidden = y.hidden
  /\ x.replies = y.replies /\ x.muted = y.muted /\ x.likes = y.likes

LEMMA AlikeIsEqual ==
  ASSUME NEW x \in Posted, NEW y \in Posted
  PROVE  Alike(x, y) <=> [x EXCEPT !.act = 0] = [y EXCEPT !.act = 0]
<1>1. \A z \in Posted : [z EXCEPT !.act = 0] =
        [act |-> 0, photo |-> z.photo, thumb |-> z.thumb, deleted |-> z.deleted,
         hidden |-> z.hidden, replies |-> z.replies, muted |-> z.muted, likes |-> z.likes]
  BY DEF Posted
<1>2. ASSUME Alike(x, y) PROVE [x EXCEPT !.act = 0] = [y EXCEPT !.act = 0]
  BY <1>1, <1>2 DEF Alike
<1>3. ASSUME [x EXCEPT !.act = 0] = [y EXCEPT !.act = 0] PROVE Alike(x, y)
  BY <1>1, <1>3 DEF Alike
<1> QED
  BY <1>2, <1>3

LEMMA StampType ==
  ASSUME NEW x \in Posted, NEW a \in Nat \ {0}
  PROVE  /\ [x EXCEPT !.act = a] \in Posted /\ Alike([x EXCEPT !.act = a], x)
         /\ [x EXCEPT !.act = a].act = a
         /\ AtLeast(x, a) \in Posted /\ Alike(AtLeast(x, a), x)
         /\ AtLeast(x, a).act \in {a, x.act} /\ AtLeast(x, a).act >= a
BY DEF Posted, Alike, AtLeast

LEMMA ThumbType ==
  ASSUME NEW x \in Posted
  PROVE  LET y == [x EXCEPT !.thumb = TRUE] IN
         /\ y \in Posted /\ y.act = x.act /\ y.photo = x.photo
         /\ y.thumb = TRUE /\ y.deleted = x.deleted /\ y.hidden = x.hidden
         /\ y.replies = x.replies /\ y.muted = x.muted /\ y.likes = x.likes
         /\ x.thumb = TRUE => y = x
BY DEF Posted

LEMMA ChangedAlike ==
  ASSUME NEW l \in Lines, l.op \in OnPost, NEW x \in Posted, NEW y \in Posted, Alike(x, y)
  PROVE  Alike(Changed(x, l), Changed(y, l))
<1> USE LineIs DEF Posted, Alike
<1>1. CASE l.op = "delete"
  BY <1>1 DEF Changed
<1>2. CASE l.op = "mod"
  BY <1>2 DEF Changed
<1>3. CASE l.op = "comment"
  BY <1>3 DEF Changed
<1>4. CASE l.op = "comment-mod"
  BY <1>4 DEF Changed
<1>5. CASE l.op = "comment-delete"
  BY <1>5 DEF Changed
<1>6. CASE l.op = "post-reaction"
  BY <1>6 DEF Changed
<1> QED
  BY <1>1, <1>2, <1>3, <1>4, <1>5, <1>6 DEF OnPost

-----------------------------------------------------------------------------
(* What one line makes of a wall, by its handler and on replay.            *)

\* A line is of one kind.
LEMMA KindsDiffer ==
  ASSUME NEW o
  PROVE  /\ o = "post" => o \notin OnPost /\ o # "thumb" /\ o \notin OnTrack
         /\ o \in OnPost => o # "post" /\ o # "thumb" /\ o \notin OnTrack
         /\ o = "thumb" => o # "post" /\ o \notin OnPost /\ o \notin OnTrack
         /\ o \in OnTrack => o # "post" /\ o # "thumb" /\ o \notin OnPost
         /\ o = "cut" => o # "post" /\ o # "thumb" /\ o \notin OnPost /\ o \notin OnTrack
BY DEF OnPost, OnTrack

LEMMA PostIsAdded ==
  ASSUME NEW w, IsWall(w), NEW l \in Lines, l.op = "post"
  PROVE  LET v == Replayed(w, l) IN
         /\ v = Applied(w, l) /\ IsWall(v) /\ v.now = w.now /\ v.played = w.played
         /\ v.posts = [q \in DOMAIN w.posts \cup {l.post} |->
                        IF q = l.post THEN NewPost(l.photo, l.thumb, l.act) ELSE w.posts[q]]
<1> DEFINE y == NewPost(l.photo, l.thumb, l.act)
           g == [q \in DOMAIN w.posts \cup {l.post} |-> IF q = l.post THEN y ELSE w.posts[q]]
<1>1. y \in Posted /\ l.post \in Post
  BY LineIs, NewPostType
<1>2. Applied(w, l) = [w EXCEPT !.posts = Merge(@, [q \in {l.post} |-> y])]
  BY KindsDiffer, Zenon DEF Applied
<1>3. Replayed(w, l) = Applied(w, l)
  BY KindsDiffer, Zenon DEF Replayed
<1> HIDE DEF y
<1>4. DOMAIN w.posts \in SUBSET Post /\ w.posts \in [DOMAIN w.posts -> Posted]
  BY PostMapIs DEF IsWall
<1>5. g \in [DOMAIN w.posts \cup {l.post} -> Posted] /\ DOMAIN w.posts \cup {l.post} \in SUBSET Post
  BY <1>1, <1>4
<1>6. g \in PostMaps
  BY <1>5, PostMapsBySets
<1>7. Merge(w.posts, [q \in {l.post} |-> y]) = g
  BY DEF Merge
<1>8. Applied(w, l) = [w EXCEPT !.posts = g]
  BY <1>2, <1>7
<1> HIDE DEF g
<1>9. LET v == [w EXCEPT !.posts = g] IN IsWall(v) /\ v.posts = g /\ v.now = w.now /\ v.played = w.played
  BY <1>6, WithPosts
<1> QED
  BY <1>3, <1>8, <1>9, Zenon DEF g, y

LEMMA PostIsChanged ==
  ASSUME NEW w, IsWall(w), NEW l \in Lines, l.op \in OnPost, l.post \in DOMAIN w.posts
  PROVE  LET v == Applied(w, l) IN
         /\ IsWall(v) /\ v.now = w.now /\ v.played = w.played
         /\ v.posts = [w.posts EXCEPT ![l.post] = [Changed(w.posts[l.post], l) EXCEPT !.act = l.act]]
<1> DEFINE y == [Changed(w.posts[l.post], l) EXCEPT !.act = l.act]
<1>1. w.posts[l.post] \in Posted
  BY PostMapIs DEF IsWall
<1>2. y \in Posted
  BY <1>1, LineIs, ChangedType, StampType
<1>3. Applied(w, l) = [w EXCEPT !.posts[l.post] = y]
  BY KindsDiffer, Zenon DEF Applied
<1> HIDE DEF y
<1> QED
  BY <1>2, <1>3, PutPost DEF y

LEMMA PostIsReplayed ==
  ASSUME NEW w, IsWall(w), NEW l \in Lines, l.op \in OnPost, l.post \in DOMAIN w.posts
  PROVE  LET v == Replayed(w, l) IN
         /\ IsWall(v) /\ v.now = w.now /\ v.played = w.played
         /\ v.posts = [w.posts EXCEPT ![l.post] = AtLeast(Changed(w.posts[l.post], l), l.act)]
<1> DEFINE y == AtLeast(Changed(w.posts[l.post], l), l.act)
<1>1. w.posts[l.post] \in Posted
  BY PostMapIs DEF IsWall
<1>2. y \in Posted
  BY <1>1, LineIs, ChangedType, StampType
<1>3. Replayed(w, l) = [w EXCEPT !.posts[l.post] = y]
  BY KindsDiffer, Zenon DEF Replayed
<1> HIDE DEF y
<1> QED
  BY <1>2, <1>3, PutPost DEF y

LEMMA ThumbIsMarked ==
  ASSUME NEW w, IsWall(w), NEW l \in Lines, l.op = "thumb"
  PROVE  LET v == Applied(w, l) IN
         /\ IsWall(v) /\ v.now = w.now /\ v.played = w.played
         /\ v.posts = [p \in DOMAIN w.posts |->
                        IF p \in Unmarked(w, l.photo) THEN [w.posts[p] EXCEPT !.thumb = TRUE, !.act = l.act]
                        ELSE w.posts[p]]
<1> DEFINE g == [p \in DOMAIN w.posts |->
                  IF p \in Unmarked(w, l.photo) THEN [w.posts[p] EXCEPT !.thumb = TRUE, !.act = l.act]
                  ELSE w.posts[p]]
<1>1. DOMAIN w.posts \in SUBSET Post /\ w.posts \in [DOMAIN w.posts -> Posted]
  BY PostMapIs DEF IsWall
<1>2. \A x \in Posted : [x EXCEPT !.thumb = TRUE, !.act = l.act] \in Posted
  BY LineIs DEF Posted
<1>3. g \in [DOMAIN w.posts -> Posted]
  BY <1>1, <1>2
<1>4. g \in PostMaps
  BY <1>1, <1>3, PostMapsBySets
<1>5. Applied(w, l) = [w EXCEPT !.posts = g]
  BY KindsDiffer, Zenon DEF Applied, Marked
<1> HIDE DEF g
<1>6. LET v == [w EXCEPT !.posts = g] IN IsWall(v) /\ v.posts = g /\ v.now = w.now /\ v.played = w.played
  BY <1>4, WithPosts
<1> QED
  BY <1>5, <1>6, Zenon DEF g

LEMMA ThumbIsReplayed ==
  ASSUME NEW w, IsWall(w), NEW l \in Lines, l.op = "thumb"
  PROVE  LET v == Replayed(w, l) IN
         /\ IsWall(v) /\ v.now = w.now /\ v.played = w.played
         /\ v.posts = [p \in DOMAIN w.posts |->
                        IF w.posts[p].photo = l.photo
                        THEN AtLeast([w.posts[p] EXCEPT !.thumb = TRUE], l.act) ELSE w.posts[p]]
<1> DEFINE g == [p \in DOMAIN w.posts |->
                  IF w.posts[p].photo = l.photo
                  THEN AtLeast([w.posts[p] EXCEPT !.thumb = TRUE], l.act) ELSE w.posts[p]]
<1>1. DOMAIN w.posts \in SUBSET Post /\ w.posts \in [DOMAIN w.posts -> Posted]
  BY PostMapIs DEF IsWall
<1>2. \A x \in Posted : AtLeast([x EXCEPT !.thumb = TRUE], l.act) \in Posted
  BY LineIs, ThumbType, StampType
<1>3. g \in [DOMAIN w.posts -> Posted]
  BY <1>1, <1>2
<1>4. g \in PostMaps
  BY <1>1, <1>3, PostMapsBySets
<1>5. Replayed(w, l) = [w EXCEPT !.posts = g]
  BY KindsDiffer, Zenon DEF Replayed
<1> HIDE DEF g
<1>6. LET v == [w EXCEPT !.posts = g] IN IsWall(v) /\ v.posts = g /\ v.now = w.now /\ v.played = w.played
  BY <1>4, WithPosts
<1> QED
  BY <1>5, <1>6, Zenon DEF g

LEMMA TracksTurn ==
  ASSUME NEW w, IsWall(w), NEW l \in Lines, l.op \in OnTrack
  PROVE  /\ Applied(w, l) = Retracked(w, l) /\ Replayed(w, l) = Retracked(w, l)
         /\ IsWall(Retracked(w, l)) /\ Retracked(w, l).posts = w.posts
<1>1. Applied(w, l) = Retracked(w, l) /\ Replayed(w, l) = Retracked(w, l)
  BY KindsDiffer, Zenon DEF Applied, Replayed
<1>2. PICK a, b, c : w = [posts |-> a, now |-> b, played |-> c]
  BY DEF IsWall
<1> DEFINE With(t, s) == [posts |-> w.posts, now |-> t, played |-> s]
<1>3. \A t \in Track \cup {None} : \A s : IsWall(With(t, s)) /\ With(t, s).posts = w.posts
  BY DEF IsWall
<1>4. \E t \in Track \cup {None} : \E s : Retracked(w, l) = With(t, s)
  <2>1. CASE l.op = "track-current"
    <3>1. Retracked(w, l) = [w EXCEPT !.played = Rotated(w), !.now = l.track]
      BY <2>1 DEF Retracked
    <3> QED
      BY <1>2, <2>1, <3>1, LineIs
  <2>2. CASE l.op = "track-clear"
    <3>1. Retracked(w, l) = [w EXCEPT !.played = Rotated(w), !.now = None]
      BY <2>2 DEF Retracked
    <3> QED
      BY <1>2, <3>1
  <2>3. CASE l.op = "track-drop"
    <3> DEFINE Kept(t) == t # l.track
    <3>1. Retracked(w, l) = [w EXCEPT !.now = IF w.now = l.track THEN None ELSE w.now,
                                      !.played = SelectSeq(w.played, Kept)]
      BY <2>3, Zenon DEF Retracked
    <3>2. w.now \in Track \cup {None}
      BY DEF IsWall
    <3> HIDE DEF Kept
    <3> QED
      BY <1>2, <3>1, <3>2
  <2> QED
    BY <2>1, <2>2, <2>3 DEF OnTrack
<1> HIDE DEF With
<1> QED
  BY <1>1, <1>3, <1>4

-----------------------------------------------------------------------------
(* What a replay makes is a wall, with stamps below some number.           *)

Below(w, b) == \A p \in DOMAIN w.posts : w.posts[p].act <= b

LEMMA OneKind ==
  ASSUME NEW l \in Lines
  PROVE  l = Cut \/ l.op = "post" \/ l.op \in OnPost \/ l.op = "thumb" \/ l.op \in OnTrack
BY LineIs

LEMMA CutChangesNothing ==
  ASSUME NEW w
  PROVE  Replayed(w, Cut) = w
<1>1. Cut.op = "cut"
  BY DEF Cut
<1> QED
  BY <1>1, KindsDiffer, Zenon DEF Replayed

LEMMA NoSuchPost ==
  ASSUME NEW w, NEW l \in Lines, l.op \in OnPost, l.post \notin DOMAIN w.posts
  PROVE  Replayed(w, l) = w
BY KindsDiffer, Zenon DEF Replayed

LEMMA ReplayedIsWall ==
  ASSUME NEW w, IsWall(w), NEW l \in Lines, NEW b \in Nat, Below(w, b)
  PROVE  IsWall(Replayed(w, l)) /\ \E c \in Nat : Below(Replayed(w, l), c)
<1> DEFINE v == Replayed(w, l)
<1>1. DOMAIN w.posts \in SUBSET Post /\ \A p \in DOMAIN w.posts : w.posts[p] \in Posted
  BY PostMapIs DEF IsWall
<1>2. \A x \in Posted : x.act \in Nat
  BY DEF Posted
<1>3. CASE l = Cut \/ (l.op \in OnPost /\ l.post \notin DOMAIN w.posts)
  BY <1>3, CutChangesNothing, NoSuchPost
<1>4. CASE l.op = "post"
  <2>1. IsWall(v) /\ v.posts = [q \in DOMAIN w.posts \cup {l.post} |->
                        IF q = l.post THEN NewPost(l.photo, l.thumb, l.act) ELSE w.posts[q]]
    BY <1>4, PostIsAdded, Zenon
  <2>2. NewPost(l.photo, l.thumb, l.act).act = l.act
    BY DEF NewPost
  <2>3. l.act \in Nat
    BY <1>4, LineIs
  <2>4. Below(v, b + l.act)
    <3> SUFFICES ASSUME NEW p \in DOMAIN v.posts PROVE v.posts[p].act <= b + l.act
      BY DEF Below
    <3> HIDE DEF v
    <3>1. CASE p = l.post
      BY <2>1, <2>2, <2>3, <3>1
    <3>2. CASE p # l.post
      BY <1>1, <1>2, <2>1, <2>3, <3>2 DEF Below
    <3> QED
      BY <3>1, <3>2
  <2> QED
    BY <2>1, <2>3, <2>4
<1>5. CASE l.op \in OnPost /\ l.post \in DOMAIN w.posts
  <2> DEFINE y == AtLeast(Changed(w.posts[l.post], l), l.act)
  <2>1. IsWall(v) /\ v.posts = [w.posts EXCEPT ![l.post] = y]
    BY <1>5, PostIsReplayed
  <2>2. l.act \in Nat
    BY <1>5, LineIs
  <2>3. y.act <= b + l.act
    <3>1. w.posts[l.post] \in Posted /\ w.posts[l.post].act <= b
      BY <1>1, <1>5 DEF Below
    <3>2. Changed(w.posts[l.post], l) \in Posted /\ Changed(w.posts[l.post], l).act <= b
      BY <1>5, <3>1, ChangedType
    <3>3. y.act \in {l.act, Changed(w.posts[l.post], l).act}
      BY <1>5, <3>2, LineIs, StampType
    <3> QED
      BY <1>2, <2>2, <3>2, <3>3
  <2> HIDE DEF v, y
  <2>4. Below(v, b + l.act)
    BY <1>1, <1>2, <2>1, <2>2, <2>3 DEF Below
  <2> QED
    BY <2>1, <2>2, <2>4 DEF v
<1>6. CASE l.op = "thumb"
  <2> DEFINE y(p) == AtLeast([w.posts[p] EXCEPT !.thumb = TRUE], l.act)
  <2>1. IsWall(v) /\ v.posts = [p \in DOMAIN w.posts |-> IF w.posts[p].photo = l.photo THEN y(p) ELSE w.posts[p]]
    BY <1>6, ThumbIsReplayed, Zenon
  <2>2. l.act \in Nat
    BY <1>6, LineIs
  <2>3. \A p \in DOMAIN w.posts : y(p).act <= b + l.act
    <3> TAKE p \in DOMAIN w.posts
    <3> DEFINE x == [w.posts[p] EXCEPT !.thumb = TRUE]
    <3>1. w.posts[p] \in Posted /\ w.posts[p].act <= b
      BY <1>1 DEF Below
    <3>2. x \in Posted /\ x.act <= b
      BY <3>1, ThumbType
    <3>3. y(p).act \in {l.act, x.act}
      BY <1>6, <3>2, LineIs, StampType
    <3>4. x.act \in Nat
      BY <1>2, <3>2
    <3> HIDE DEF x, y
    <3> QED
      BY <2>2, <3>2, <3>3, <3>4
  <2> HIDE DEF v, y
  <2>4. Below(v, b + l.act)
    BY <1>1, <1>2, <2>1, <2>2, <2>3 DEF Below
  <2> QED
    BY <2>1, <2>2, <2>4 DEF v
<1>7. CASE l.op \in OnTrack
  BY <1>7, TracksTurn DEF Below
<1> QED
  BY <1>3, <1>4, <1>5, <1>6, <1>7, OneKind

LEMMA ReplayIsWall ==
  ASSUME NEW s \in Seq(Lines), NEW S
  PROVE  IsWall(ReplayBut(s, S)) /\ \E b \in Nat : Below(ReplayBut(s, S), b)
<1> DEFINE n == Len(s)
           Good(w) == IsWall(w) /\ \E b \in Nat : Below(w, b)
<1>1. n \in Nat /\ \A i \in 1..n : s[i] \in Lines
  OBVIOUS
<1>2. PICK r : Runs(r, s, S, n)
  BY <1>1, RunExists
<1>3. ReplayBut(s, S) = r[n]
  BY <1>1, <1>2, ReplayIsRun
<1>4. r[0] = Empty /\ \A i \in 1..n : r[i] = Effect(s, S, i, r[i - 1])
  BY <1>1, <1>2, RunsStepwise
<1>5. Good(Empty)
  BY EmptyIsWall DEF Below
<1>6. \A w : \A i \in 1..n : Good(w) => Good(Effect(s, S, i, w))
  BY <1>1, ReplayedIsWall DEF Effect
<1> DEFINE T == {i \in 0..n : ~Good(r[i])}
<1> HIDE DEF n, Good
<1>7. T = {}
  <2> SUFFICES ASSUME T # {} PROVE FALSE
    OBVIOUS
  <2>0. T \in SUBSET Nat
    BY <1>1
  <2>1. PICK i \in T : \A j \in T : i <= j
    BY <2>0, LeastNumber
  <2>2. i \in 1..n /\ i - 1 \in 0..n
    BY <1>1, <1>4, <1>5, <2>1
  <2>3. Good(r[i - 1])
    BY <2>1, <2>2
  <2>4. Good(Effect(s, S, i, r[i - 1]))
    BY <1>6, <2>2, <2>3
  <2> QED
    BY <1>4, <2>1, <2>2, <2>4
<1> QED
  BY <1>1, <1>3, <1>7 DEF Good

-----------------------------------------------------------------------------
(* The handlers and the replay agree.                                      *)

Stands(w, p) == p \in DOMAIN w.posts /\ ~w.posts[p].deleted

\* Two walls that show the same, whatever their stamps and their deleted posts.
Same(v, w) ==
  /\ v.now = w.now /\ v.played = w.played
  /\ \A p \in Post : Stands(v, p) <=> Stands(w, p)
  /\ \A p \in Post : Stands(v, p) => Alike(v.posts[p], w.posts[p])

LEMMA PostsAre ==
  ASSUME NEW w, IsWall(w)
  PROVE  DOMAIN w.posts \subseteq Post /\ \A p \in DOMAIN w.posts : w.posts[p] \in Posted
BY PostMapIs DEF IsWall

LEMMA SameIsContent ==
  ASSUME NEW v, IsWall(v), NEW w, IsWall(w)
  PROVE  Same(v, w) <=> Content(v) = Content(w)
<1> DEFINE D(u) == {q \in DOMAIN u.posts : ~u.posts[q].deleted}
           g(u) == [p \in D(u) |-> [u.posts[p] EXCEPT !.act = 0]]
<1>1. /\ DOMAIN v.posts \subseteq Post /\ \A p \in DOMAIN v.posts : v.posts[p] \in Posted
      /\ DOMAIN w.posts \subseteq Post /\ \A p \in DOMAIN w.posts : w.posts[p] \in Posted
  BY PostsAre
<1>2. /\ Content(v) = [posts |-> g(v), now |-> v.now, played |-> v.played]
      /\ Content(w) = [posts |-> g(w), now |-> w.now, played |-> w.played]
  BY Zenon DEF Content
<1>3. Content(v) = Content(w) <=> g(v) = g(w) /\ v.now = w.now /\ v.played = w.played
  <2> HIDE DEF g
  <2> QED
    BY <1>2
<1>4. \A p \in Post : p \in D(v) <=> Stands(v, p)
  BY <1>1 DEF Stands
<1>5. \A p \in Post : p \in D(w) <=> Stands(w, p)
  BY <1>1 DEF Stands
<1>6. \A p \in D(v) \cap D(w) : Alike(v.posts[p], w.posts[p]) <=> g(v)[p] = g(w)[p]
  <2> TAKE p \in D(v) \cap D(w)
  <2>1. v.posts[p] \in Posted /\ w.posts[p] \in Posted
    BY <1>1
  <2>2. g(v)[p] = [v.posts[p] EXCEPT !.act = 0] /\ g(w)[p] = [w.posts[p] EXCEPT !.act = 0]
    OBVIOUS
  <2> HIDE DEF g
  <2> QED
    BY <2>1, <2>2, AlikeIsEqual
<1>7. DOMAIN g(v) = D(v) /\ DOMAIN g(w) = D(w)
  OBVIOUS
<1>8. g(v) = g(w) <=> D(v) = D(w) /\ \A p \in D(v) : g(v)[p] = g(w)[p]
  OBVIOUS
<1>9. D(v) \subseteq Post /\ D(w) \subseteq Post
  BY <1>1
<1> HIDE DEF D, g
<1> QED
  BY <1>3, <1>4, <1>5, <1>6, <1>8, <1>9 DEF Same

\* What a handler asks of the wall before it writes its line.
Valid(w, l) == l # Cut /\ (l.op \in OnPost => Stands(w, l.post))

LEMMA AppliedIsWall ==
  ASSUME NEW w, IsWall(w), NEW l \in Lines, Valid(w, l)
  PROVE  IsWall(Applied(w, l))
<1>1. CASE l.op = "post"
  BY <1>1, PostIsAdded
<1>2. CASE l.op \in OnPost
  BY <1>2, PostIsChanged DEF Valid, Stands
<1>3. CASE l.op = "thumb"
  BY <1>3, ThumbIsMarked
<1>4. CASE l.op \in OnTrack
  BY <1>4, TracksTurn
<1> QED
  BY <1>1, <1>2, <1>3, <1>4, OneKind DEF Valid

LEMMA TracksAgree ==
  ASSUME NEW v, IsWall(v), NEW w, IsWall(w), NEW l \in Lines, l.op \in OnTrack,
         v.now = w.now, v.played = w.played
  PROVE  Retracked(v, l).now = Retracked(w, l).now /\ Retracked(v, l).played = Retracked(w, l).played
<1>1. Rotated(v) = Rotated(w)
  BY DEF Rotated
<1>2. /\ v = [posts |-> v.posts, now |-> v.now, played |-> v.played]
      /\ w = [posts |-> w.posts, now |-> w.now, played |-> w.played]
  BY DEF IsWall
<1>3. CASE l.op = "track-current"
  <2>1. /\ Retracked(v, l) = [v EXCEPT !.played = Rotated(v), !.now = l.track]
        /\ Retracked(w, l) = [w EXCEPT !.played = Rotated(w), !.now = l.track]
    BY <1>3 DEF Retracked
  <2> QED
    BY <1>1, <1>2, <2>1
<1>4. CASE l.op = "track-clear"
  <2>1. /\ Retracked(v, l) = [v EXCEPT !.played = Rotated(v), !.now = None]
        /\ Retracked(w, l) = [w EXCEPT !.played = Rotated(w), !.now = None]
    BY <1>4 DEF Retracked
  <2> QED
    BY <1>1, <1>2, <2>1
<1>5. CASE l.op = "track-drop"
  <2> DEFINE Kept(t) == t # l.track
  <2>1. /\ Retracked(v, l) = [v EXCEPT !.now = IF v.now = l.track THEN None ELSE v.now,
                                       !.played = SelectSeq(v.played, Kept)]
        /\ Retracked(w, l) = [w EXCEPT !.now = IF w.now = l.track THEN None ELSE w.now,
                                       !.played = SelectSeq(w.played, Kept)]
    BY <1>5, Zenon DEF Retracked
  <2>2. SelectSeq(v.played, Kept) = SelectSeq(w.played, Kept)
    OBVIOUS
  <2> DEFINE sv == SelectSeq(v.played, Kept)
             sw == SelectSeq(w.played, Kept)
  <2> HIDE DEF sv, sw
  <2> QED
    BY <1>2, <2>1, <2>2 DEF sv, sw
<1> QED
  BY <1>3, <1>4, <1>5 DEF OnTrack

LEMMA HandlersAgree ==
  ASSUME NEW v, IsWall(v), NEW w, IsWall(w), Same(v, w), NEW l \in Lines, Valid(v, l)
  PROVE  Same(Applied(v, l), Replayed(w, l))
<1> DEFINE av == Applied(v, l)
           rw == Replayed(w, l)
<1>1. /\ DOMAIN v.posts \subseteq Post /\ \A p \in DOMAIN v.posts : v.posts[p] \in Posted
      /\ DOMAIN w.posts \subseteq Post /\ \A p \in DOMAIN w.posts : w.posts[p] \in Posted
  BY PostsAre
<1>2. \A x : Alike(x, x)
  BY DEF Alike
<1>3. CASE l.op = "post"
  <2> DEFINE y == NewPost(l.photo, l.thumb, l.act)
  <2>1. /\ av.now = v.now /\ av.played = v.played /\ rw.now = w.now /\ rw.played = w.played
        /\ av.posts = [q \in DOMAIN v.posts \cup {l.post} |-> IF q = l.post THEN y ELSE v.posts[q]]
        /\ rw.posts = [q \in DOMAIN w.posts \cup {l.post} |-> IF q = l.post THEN y ELSE w.posts[q]]
    BY <1>3, PostIsAdded
  <2>2. ~y.deleted
    BY DEF NewPost
  <2> HIDE DEF av, rw, y
  <2>3. \A p \in Post : Stands(av, p) <=> Stands(rw, p)
    BY <2>1, <2>2 DEF Same, Stands
  <2>4. \A p \in Post : Stands(av, p) => Alike(av.posts[p], rw.posts[p])
    BY <1>2, <2>1, <2>2, <2>3 DEF Same, Stands
  <2> QED
    BY <2>1, <2>3, <2>4 DEF Same, av, rw
<1>4. CASE l.op \in OnPost
  <2> DEFINE x == [Changed(v.posts[l.post], l) EXCEPT !.act = l.act]
             y == AtLeast(Changed(w.posts[l.post], l), l.act)
  <2>1. l.post \in Post /\ Stands(v, l.post) /\ Stands(w, l.post)
    BY <1>1, <1>4 DEF Valid, Stands, Same
  <2>2. /\ av.now = v.now /\ av.played = v.played /\ rw.now = w.now /\ rw.played = w.played
        /\ av.posts = [v.posts EXCEPT ![l.post] = x]
        /\ rw.posts = [w.posts EXCEPT ![l.post] = y]
    BY <1>4, <2>1, PostIsChanged, PostIsReplayed DEF Stands
  <2>3. Alike(x, y)
    <3>1. v.posts[l.post] \in Posted /\ w.posts[l.post] \in Posted /\ Alike(v.posts[l.post], w.posts[l.post])
      BY <1>1, <2>1 DEF Stands, Same
    <3>2. /\ Changed(v.posts[l.post], l) \in Posted /\ Changed(w.posts[l.post], l) \in Posted
          /\ Alike(Changed(v.posts[l.post], l), Changed(w.posts[l.post], l))
      BY <1>4, <3>1, ChangedType, ChangedAlike
    <3>3. Alike(x, Changed(v.posts[l.post], l)) /\ Alike(y, Changed(w.posts[l.post], l))
      BY <1>4, <3>2, LineIs, StampType
    <3> HIDE DEF x, y
    <3> QED
      BY <3>2, <3>3 DEF Alike
  <2> HIDE DEF av, rw, x, y
  <2>4. /\ \A p : Stands(av, p) <=> IF p = l.post THEN ~x.deleted ELSE Stands(v, p)
        /\ \A p : Stands(rw, p) <=> IF p = l.post THEN ~y.deleted ELSE Stands(w, p)
    BY <2>1, <2>2 DEF Stands
  <2>5. \A p \in Post : Stands(av, p) <=> Stands(rw, p)
    BY <2>3, <2>4 DEF Same, Alike
  <2>6. \A p \in Post : Stands(av, p) => Alike(av.posts[p], rw.posts[p])
    <3> SUFFICES ASSUME NEW p \in Post, Stands(av, p) PROVE Alike(av.posts[p], rw.posts[p])
      OBVIOUS
    <3>1. CASE p = l.post
      <4>1. av.posts[p] = x /\ rw.posts[p] = y
        BY <2>1, <2>2, <3>1 DEF Stands
      <4> QED
        BY <2>3, <4>1
    <3>2. CASE p # l.post
      <4>1. Stands(v, p) /\ Stands(w, p)
        BY <2>4, <2>5, <3>2
      <4>2. av.posts[p] = v.posts[p] /\ rw.posts[p] = w.posts[p]
        BY <2>2, <3>2, <4>1 DEF Stands
      <4> QED
        BY <4>1, <4>2 DEF Same
    <3> QED
      BY <3>1, <3>2
  <2> QED
    BY <2>2, <2>5, <2>6 DEF Same, av, rw
<1>5. CASE l.op = "thumb"
  <2> DEFINE U == Unmarked(v, l.photo)
             x(p) == [v.posts[p] EXCEPT !.thumb = TRUE, !.act = l.act]
             y(p) == AtLeast([w.posts[p] EXCEPT !.thumb = TRUE], l.act)
  <2>1. /\ av.now = v.now /\ av.played = v.played
        /\ av.posts = [p \in DOMAIN v.posts |-> IF p \in U THEN x(p) ELSE v.posts[p]]
    BY <1>5, ThumbIsMarked
  <2>2. /\ rw.now = w.now /\ rw.played = w.played
        /\ rw.posts = [p \in DOMAIN w.posts |-> IF w.posts[p].photo = l.photo THEN y(p) ELSE w.posts[p]]
    BY <1>5, ThumbIsReplayed
  <2>3. l.act \in Nat \ {0}
    BY <1>5, LineIs
  <2>4. \A p \in DOMAIN v.posts : /\ x(p).photo = v.posts[p].photo /\ x(p).thumb = TRUE
                                  /\ x(p).deleted = v.posts[p].deleted /\ x(p).hidden = v.posts[p].hidden
                                  /\ x(p).replies = v.posts[p].replies /\ x(p).muted = v.posts[p].muted
                                  /\ x(p).likes = v.posts[p].likes
    BY <1>1 DEF Posted
  <2>5. \A p \in DOMAIN w.posts : /\ y(p).photo = w.posts[p].photo /\ y(p).thumb = TRUE
                                  /\ y(p).deleted = w.posts[p].deleted /\ y(p).hidden = w.posts[p].hidden
                                  /\ y(p).replies = w.posts[p].replies /\ y(p).muted = w.posts[p].muted
                                  /\ y(p).likes = w.posts[p].likes
    <3> TAKE p \in DOMAIN w.posts
    <3> DEFINE z == [w.posts[p] EXCEPT !.thumb = TRUE]
    <3>1. w.posts[p] \in Posted
      BY <1>1
    <3>2. /\ z \in Posted /\ z.photo = w.posts[p].photo /\ z.thumb = TRUE
          /\ z.deleted = w.posts[p].deleted /\ z.hidden = w.posts[p].hidden
          /\ z.replies = w.posts[p].replies /\ z.muted = w.posts[p].muted /\ z.likes = w.posts[p].likes
      BY <3>1, ThumbType
    <3>3. Alike(y(p), z)
      BY <2>3, <3>2, StampType
    <3> HIDE DEF y, z
    <3> QED
      BY <3>2, <3>3 DEF Alike
  <2>6. \A p : p \in U <=> p \in DOMAIN v.posts /\ v.posts[p].photo = l.photo /\ ~v.posts[p].deleted /\ ~v.posts[p].thumb
    BY DEF Unmarked
  <2> HIDE DEF av, rw, x, y, U
  <2>7. /\ \A p : Stands(av, p) <=> Stands(v, p)
        /\ \A p : Stands(rw, p) <=> Stands(w, p)
    BY <2>1, <2>2, <2>4, <2>5, <2>6 DEF Stands
  <2>8. \A p \in Post : Stands(av, p) => Alike(av.posts[p], rw.posts[p])
    <3> SUFFICES ASSUME NEW p \in Post, Stands(av, p) PROVE Alike(av.posts[p], rw.posts[p])
      OBVIOUS
    <3>1. Stands(v, p) /\ Stands(w, p) /\ Alike(v.posts[p], w.posts[p])
      BY <2>7 DEF Same
    <3>2. p \in DOMAIN v.posts /\ p \in DOMAIN w.posts /\ ~v.posts[p].deleted
      BY <3>1 DEF Stands
    <3>3. v.posts[p].thumb \in BOOLEAN
      BY <1>1, <3>2 DEF Posted
    <3>4. CASE v.posts[p].photo # l.photo
      <4>1. av.posts[p] = v.posts[p] /\ rw.posts[p] = w.posts[p]
        BY <2>1, <2>2, <2>6, <3>1, <3>2, <3>4 DEF Alike
      <4> QED
        BY <3>1, <4>1
    <3>5. CASE v.posts[p].photo = l.photo /\ ~v.posts[p].thumb
      <4>1. av.posts[p] = x(p) /\ rw.posts[p] = y(p)
        BY <2>1, <2>2, <2>6, <3>1, <3>2, <3>5 DEF Alike
      <4>2. /\ x(p).photo = v.posts[p].photo /\ x(p).thumb = TRUE /\ x(p).deleted = v.posts[p].deleted
            /\ x(p).hidden = v.posts[p].hidden /\ x(p).replies = v.posts[p].replies
            /\ x(p).muted = v.posts[p].muted /\ x(p).likes = v.posts[p].likes
        BY <2>4, <3>2
      <4>3. /\ y(p).photo = w.posts[p].photo /\ y(p).thumb = TRUE /\ y(p).deleted = w.posts[p].deleted
            /\ y(p).hidden = w.posts[p].hidden /\ y(p).replies = w.posts[p].replies
            /\ y(p).muted = w.posts[p].muted /\ y(p).likes = w.posts[p].likes
        BY <2>5, <3>2
      <4> QED
        BY <3>1, <4>1, <4>2, <4>3 DEF Alike
    <3>6. CASE v.posts[p].photo = l.photo /\ v.posts[p].thumb
      <4>1. p \notin U
        BY <2>6, <3>6, Zenon
      <4>2. w.posts[p].photo = l.photo
        BY <3>1, <3>6, Zenon DEF Alike
      <4>3. av.posts[p] = v.posts[p] /\ rw.posts[p] = y(p)
        BY <2>1, <2>2, <3>2, <4>1, <4>2
      <4>4. v.posts[p].thumb = TRUE
        BY <3>3, <3>6
      <4> QED
        BY <2>5, <3>1, <3>2, <4>3, <4>4 DEF Alike
    <3> QED
      BY <3>4, <3>5, <3>6
  <2> QED
    BY <2>1, <2>2, <2>7, <2>8 DEF Same, av, rw
<1>6. CASE l.op \in OnTrack
  <2>1. av = Retracked(v, l) /\ rw = Retracked(w, l) /\ av.posts = v.posts /\ rw.posts = w.posts
    BY <1>6, TracksTurn
  <2>2. av.now = rw.now /\ av.played = rw.played
    BY <1>6, <2>1, TracksAgree DEF Same
  <2> HIDE DEF av, rw
  <2> QED
    BY <2>1, <2>2 DEF Same, Stands, av, rw
<1> QED
  BY <1>3, <1>4, <1>5, <1>6, OneKind DEF Valid

-----------------------------------------------------------------------------
(* A journal and the lines of it that record nothing.                      *)

Skipped(s, R) == {i \in DOMAIN s : i \in R \/ s[i] = Cut}

LEMMA AcceptedLine ==
  ASSUME NEW s \in Seq(Lines), NEW R \in SUBSET (1..Len(s)), NEW l \in Lines, l # Cut
  PROVE  ReplayBut(Append(s, l), Skipped(Append(s, l), R)) = Replayed(ReplayBut(s, Skipped(s, R)), l)
<1> DEFINE n == Len(s)
           t == Append(s, l)
           S == Skipped(t, R)
<1>1. n \in Nat /\ DOMAIN s = 1..n /\ DOMAIN t = 1..(n + 1) /\ t[n + 1] = l /\ \A i \in 1..n : t[i] = s[i]
  OBVIOUS
<1> HIDE DEF n, t
<1>2. R \subseteq 1..n
  BY DEF n
<1>3. n + 1 \notin S
  BY <1>1, <1>2 DEF Skipped
<1>4. \A i \in 1..n : i \in S <=> i \in Skipped(s, R)
  BY <1>1 DEF Skipped
<1> HIDE DEF S
<1>5. ReplayBut(t, S) = Replayed(ReplayBut(s, S), l)
  BY <1>3, ReplayAppends DEF t, n
<1>6. ReplayBut(s, S) = ReplayBut(s, Skipped(s, R))
  <2>1. \A i \in 1..Len(s) : \A w : Effect(s, S, i, w) = Effect(s, Skipped(s, R), i, w)
    BY <1>4 DEF Effect, n
  <2> QED
    BY <2>1, <1>1, ReplaysAgree DEF n
<1> QED
  BY <1>5, <1>6 DEF t, S

LEMMA RefusedLine ==
  ASSUME NEW s \in Seq(Lines), NEW R \in SUBSET (1..Len(s)), NEW l \in Lines
  PROVE  ReplayBut(Append(s, l), Skipped(Append(s, l), R \cup {Len(s) + 1})) = ReplayBut(s, Skipped(s, R))
<1> DEFINE n == Len(s)
           t == Append(s, l)
           S == Skipped(t, R \cup {n + 1})
<1>1. n \in Nat /\ DOMAIN s = 1..n /\ DOMAIN t = 1..(n + 1) /\ \A i \in 1..n : t[i] = s[i]
  OBVIOUS
<1> HIDE DEF n, t
<1>2. n + 1 \in S
  BY <1>1 DEF Skipped
<1>3. \A i \in 1..n : i \in S <=> i \in Skipped(s, R)
  BY <1>1 DEF Skipped
<1> HIDE DEF S
<1>4. ReplayBut(t, S) = ReplayBut(s, S)
  BY <1>2, ReplayAppends DEF t, n
<1>5. ReplayBut(s, S) = ReplayBut(s, Skipped(s, R))
  <2>1. \A i \in 1..Len(s) : \A w : Effect(s, S, i, w) = Effect(s, Skipped(s, R), i, w)
    BY <1>3 DEF Effect, n
  <2> QED
    BY <2>1, <1>1, ReplaysAgree DEF n
<1> QED
  BY <1>4, <1>5 DEF t, S, n

\* What cannot be read need not be skipped.
LEMMA CutsAreVoid ==
  ASSUME NEW s \in Seq(Lines)
  PROVE  ReplayBut(s, Skipped(s, {})) = ReplayBut(s, {})
<1>1. Len(s) \in Nat /\ DOMAIN s = 1..Len(s)
  OBVIOUS
<1>2. \A i \in 1..Len(s) : \A w : Effect(s, Skipped(s, {}), i, w) = Effect(s, {}, i, w)
  BY <1>1, CutChangesNothing DEF Effect, Skipped
<1> QED
  BY <1>1, <1>2, ReplaysAgree

LEMMA AppliedBelow ==
  ASSUME NEW w, IsWall(w), NEW l \in Lines, Valid(w, l), NEW b \in Nat, Below(w, b),
         NEW c \in Nat, b <= c, l.op \notin OnTrack => l.act <= c
  PROVE  Below(Applied(w, l), c)
<1> DEFINE v == Applied(w, l)
<1>1. \A p \in DOMAIN w.posts : w.posts[p] \in Posted /\ w.posts[p].act \in Nat /\ w.posts[p].act <= c
  BY PostsAre DEF Below, Posted
<1>2. CASE l.op = "post"
  <2>1. v.posts = [q \in DOMAIN w.posts \cup {l.post} |->
                    IF q = l.post THEN NewPost(l.photo, l.thumb, l.act) ELSE w.posts[q]]
    BY <1>2, PostIsAdded
  <2>2. NewPost(l.photo, l.thumb, l.act).act <= c
    BY <1>2, KindsDiffer DEF NewPost
  <2> HIDE DEF v
  <2> QED
    BY <1>1, <2>1, <2>2 DEF Below, v
<1>3. CASE l.op \in OnPost
  <2> DEFINE y == [Changed(w.posts[l.post], l) EXCEPT !.act = l.act]
  <2>1. v.posts = [w.posts EXCEPT ![l.post] = y]
    BY <1>3, PostIsChanged DEF Valid, Stands
  <2>2. y.act <= c
    BY <1>1, <1>3, ChangedType, StampType, LineIs, KindsDiffer DEF Valid, Stands
  <2> HIDE DEF v, y
  <2> QED
    BY <1>1, <2>1, <2>2 DEF Below, v
<1>4. CASE l.op = "thumb"
  <2> DEFINE y(p) == [w.posts[p] EXCEPT !.thumb = TRUE, !.act = l.act]
  <2>1. v.posts = [p \in DOMAIN w.posts |-> IF p \in Unmarked(w, l.photo) THEN y(p) ELSE w.posts[p]]
    BY <1>4, ThumbIsMarked
  <2>2. \A p \in DOMAIN w.posts : y(p).act <= c
    BY <1>1, <1>4, KindsDiffer DEF Posted
  <2> HIDE DEF v, y
  <2> QED
    BY <1>1, <2>1, <2>2 DEF Below, v
<1>5. CASE l.op \in OnTrack
  BY <1>1, <1>5, TracksTurn DEF Below
<1> QED
  BY <1>2, <1>3, <1>4, <1>5, OneKind DEF Valid

-----------------------------------------------------------------------------
(* The inductive invariant, in named parts.                                *)

Journals == journal \in [Party -> Seq(Lines)]

\* The wall is a wall, no stamp on it is larger than the last one given out, and
\* refused numbers lines of the open journal.
Memory ==
  /\ IsWall(wall)
  /\ Below(wall, clock)
  /\ refused \in SUBSET (1..Len(journal[dir]))

Agrees == Same(wall, ReplayBut(journal[dir], Void))

\* Wherever JoinParty has come to, and whatever party a restart would resume.
Links ==
  /\ joining = "empty" => dir # Theirs
  /\ joining \in {"switched", "named"} => dir = Theirs
  /\ joining = "named" => link = "theirs"
  /\ noted = Theirs => link = "theirs"
  /\ JoinerKeepsLink

EventInv == StoreTypeOK /\ Journals /\ Memory /\ Agrees /\ Links

-----------------------------------------------------------------------------
(* Every operation of Changes writes a line that fits the wall, or none.   *)

LEMMA FoundType ==
  ASSUME StoreTypeOK, NEW found \in Found
  PROVE  found.photo \in Photo \cup {None} /\ found.thumb \in BOOLEAN
<1>1. \A q \in {dir, noted} : uploads[q] \subseteq Photo
  BY DEF StoreTypeOK
<1>2. CASE found = [photo |-> None, thumb |-> FALSE]
  BY <1>2
<1>3. ASSUME NEW q \in {dir, noted},
             found \in [photo : uploads[q], thumb : {FALSE}] \cup [photo : uploads[q] \cap thumbs[q], thumb : {TRUE}]
      PROVE  found.photo \in Photo /\ found.thumb \in BOOLEAN
  BY <1>1, <1>3
<1> QED
  BY <1>2, <1>3, Zenon DEF Found

\* A line about the posts carries the stamp it took.
StampedChange(l) ==
  /\ Valid(wall, l) /\ l.op \notin OnTrack
  /\ Write(l)
  /\ l.act = clock + 1 /\ clock' = clock + 1
  /\ thumbs' \in [Party -> SUBSET Photo]

TrackChange(l) == l.op \in OnTrack /\ Write(l) /\ UNCHANGED <<clock, thumbs>>

FilesOnly ==
  /\ uploads' \in [Party -> SUBSET Photo] /\ thumbs' \in [Party -> SUBSET Photo]
  /\ UNCHANGED <<journal, file, link, noted, busy, memory, joining, refused, mishaps>>

LEMMA LinesFit ==
  ASSUME NEW a \in Nat \ {0}, NEW p \in Post
  PROVE  /\ \A m \in Photo \cup {None}, th \in BOOLEAN :
               LET l == [op |-> "post", post |-> p, photo |-> m, thumb |-> th, act |-> a] IN
               l \in Lines /\ l.op = "post" /\ l.act = a
         /\ \A o \in {"delete", "post-reaction"} :
               LET l == [op |-> o, post |-> p, act |-> a] IN l \in Lines /\ l.op = o /\ l.act = a /\ l.post = p
         /\ \A h \in BOOLEAN :
               LET l == [op |-> "mod", post |-> p, hide |-> h, act |-> a] IN
               l \in Lines /\ l.op = "mod" /\ l.act = a /\ l.post = p
         /\ \A o \in {"comment", "comment-delete"}, c \in Reply :
               LET l == [op |-> o, post |-> p, reply |-> c, act |-> a] IN
               l \in Lines /\ l.op = o /\ l.act = a /\ l.post = p
         /\ \A c \in Reply, h \in BOOLEAN :
               LET l == [op |-> "comment-mod", post |-> p, reply |-> c, hide |-> h, act |-> a] IN
               l \in Lines /\ l.op = "comment-mod" /\ l.act = a /\ l.post = p
<1>1. \A m \in Photo \cup {None}, th \in BOOLEAN :
               LET l == [op |-> "post", post |-> p, photo |-> m, thumb |-> th, act |-> a] IN
               l \in Lines /\ l.op = "post" /\ l.act = a
  BY DEF Lines, Stamp
<1>2. \A o \in {"delete", "post-reaction"} :
               LET l == [op |-> o, post |-> p, act |-> a] IN l \in Lines /\ l.op = o /\ l.act = a /\ l.post = p
  BY DEF Lines, Stamp
<1>3. \A h \in BOOLEAN :
               LET l == [op |-> "mod", post |-> p, hide |-> h, act |-> a] IN
               l \in Lines /\ l.op = "mod" /\ l.act = a /\ l.post = p
  BY DEF Lines, Stamp
<1>4. \A o \in {"comment", "comment-delete"}, c \in Reply :
               LET l == [op |-> o, post |-> p, reply |-> c, act |-> a] IN
               l \in Lines /\ l.op = o /\ l.act = a /\ l.post = p
  BY DEF Lines, Stamp
<1>5. \A c \in Reply, h \in BOOLEAN :
               LET l == [op |-> "comment-mod", post |-> p, reply |-> c, hide |-> h, act |-> a] IN
               l \in Lines /\ l.op = "comment-mod" /\ l.act = a /\ l.post = p
  BY DEF Lines, Stamp
<1> QED
  BY <1>1, <1>2, <1>3, <1>4, <1>5

LEMMA OtherLinesFit ==
  ASSUME NEW a \in Nat \ {0}
  PROVE  /\ \A m \in Photo : LET l == [op |-> "thumb", photo |-> m, act |-> a] IN
               l \in Lines /\ l.op = "thumb" /\ l.act = a
         /\ \A o \in {"track-current", "track-drop"}, t \in Track :
               LET l == [op |-> o, track |-> t] IN l \in Lines /\ l.op \in OnTrack
         /\ LET l == [op |-> "track-clear"] IN l \in Lines /\ l.op \in OnTrack
<1>1. \A m \in Photo : LET l == [op |-> "thumb", photo |-> m, act |-> a] IN
               l \in Lines /\ l.op = "thumb" /\ l.act = a
  BY DEF Lines, Stamp
<1>2. \A o \in {"track-current", "track-drop"}, t \in Track :
               LET l == [op |-> o, track |-> t] IN l \in Lines /\ l.op \in OnTrack
  BY DEF Lines, OnTrack
<1>3. LET l == [op |-> "track-clear"] IN l \in Lines /\ l.op \in OnTrack
  BY DEF Lines, OnTrack
<1> QED
  BY <1>1, <1>2, <1>3

LEMMA StampedFits ==
  ASSUME StoreTypeOK, NEW l \in Lines, l.act = clock + 1, Stamped(l),
         l.op = "post" \/ (l.op \in OnPost /\ l.post \in Standing)
  PROVE  StampedChange(l)
<1>1. Valid(wall, l)
  <2>1. l # Cut
    BY KindsDiffer, LineIs
  <2>2. l.op \in OnPost => l.post \in Standing
    BY KindsDiffer
  <2> QED
    BY <2>1, <2>2 DEF Valid, Standing, Stands
<1>2. l.op \notin OnTrack
  BY KindsDiffer
<1>3. Write(l) /\ clock' = clock + 1 /\ thumbs' \in [Party -> SUBSET Photo]
  BY DEF Stamped, NextActivity, StoreTypeOK
<1> QED
  BY <1>1, <1>2, <1>3 DEF StampedChange

LEMMA EveryChange ==
  ASSUME StoreTypeOK, Changes
  PROVE  (\E l \in Lines : StampedChange(l)) \/ (\E l \in Lines : TrackChange(l)) \/ FilesOnly
<1> DEFINE Goal == (\E l \in Lines : StampedChange(l)) \/ (\E l \in Lines : TrackChange(l)) \/ FilesOnly
           a == clock + 1
<1>1. a \in Nat \ {0} /\ NextActivity = a
  BY DEF StoreTypeOK, NextActivity
<1>2. \A l \in Lines : l.act = a /\ Stamped(l) /\ (l.op = "post" \/ (l.op \in OnPost /\ l.post \in Standing)) => Goal
  BY StampedFits
<1>3. "delete" \in OnPost /\ "post-reaction" \in OnPost /\ "mod" \in OnPost /\ "comment" \in OnPost
      /\ "comment-delete" \in OnPost /\ "comment-mod" \in OnPost
  BY DEF OnPost
<1> HIDE DEF Goal, a
<1>4. ASSUME NEW p \in Post, NEW found \in Found, AddPost(p, found) PROVE Goal
  <2> DEFINE l == [op |-> "post", post |-> p, photo |-> found.photo, thumb |-> found.thumb, act |-> a]
  <2>1. Stamped(l)
    BY <1>1, <1>4 DEF AddPost
  <2>2. l \in Lines /\ l.op = "post" /\ l.act = a
    <3>1. found.photo \in Photo \cup {None} /\ found.thumb \in BOOLEAN
      BY FoundType
    <3>2. \A m \in Photo \cup {None}, th \in BOOLEAN :
               LET k == [op |-> "post", post |-> p, photo |-> m, thumb |-> th, act |-> a] IN
               k \in Lines /\ k.op = "post" /\ k.act = a
      BY <1>1, LinesFit
    <3> QED
      BY <3>1, <3>2, Zenon
  <2> HIDE DEF l
  <2> QED
    BY <1>2, <2>1, <2>2
<1>5. ASSUME NEW p \in Post, AddPostReaction(p) PROVE Goal
  <2> DEFINE l == [op |-> "post-reaction", post |-> p, act |-> a]
  <2>1. Stamped(l) /\ p \in Standing
    BY <1>1, <1>5 DEF AddPostReaction
  <2>2. l \in Lines /\ l.op = "post-reaction" /\ l.act = a /\ l.post = p
    BY <1>1, LinesFit
  <2> HIDE DEF l
  <2> QED
    BY <1>2, <1>3, <2>1, <2>2
<1>6. ASSUME NEW p \in Post, Delete(p) PROVE Goal
  <2> DEFINE l == [op |-> "delete", post |-> p, act |-> a]
  <2>1. Stamped(l) /\ p \in Standing
    BY <1>1, <1>6 DEF Delete
  <2>2. l \in Lines /\ l.op = "delete" /\ l.act = a /\ l.post = p
    BY <1>1, LinesFit
  <2> HIDE DEF l
  <2> QED
    BY <1>2, <1>3, <2>1, <2>2
<1>7. ASSUME NEW p \in Post, NEW hide \in BOOLEAN, SetPostState(p, hide) PROVE Goal
  <2> DEFINE l == [op |-> "mod", post |-> p, hide |-> hide, act |-> a]
  <2>1. Stamped(l) /\ p \in Standing
    BY <1>1, <1>7 DEF SetPostState
  <2>2. l \in Lines /\ l.op = "mod" /\ l.act = a /\ l.post = p
    BY <1>1, LinesFit
  <2> HIDE DEF l
  <2> QED
    BY <1>2, <1>3, <2>1, <2>2
<1>8. ASSUME NEW p \in Post, NEW c \in Reply, AddComment(p, c) PROVE Goal
  <2> DEFINE l == [op |-> "comment", post |-> p, reply |-> c, act |-> a]
  <2>1. Stamped(l) /\ p \in Standing
    BY <1>1, <1>8 DEF AddComment
  <2>2. l \in Lines /\ l.op = "comment" /\ l.act = a /\ l.post = p
    BY <1>1, LinesFit
  <2> HIDE DEF l
  <2> QED
    BY <1>2, <1>3, <2>1, <2>2
<1>9. ASSUME NEW p \in Post, NEW c \in Reply, DeleteComment(p, c) PROVE Goal
  <2> DEFINE l == [op |-> "comment-delete", post |-> p, reply |-> c, act |-> a]
  <2>1. Stamped(l) /\ p \in Standing
    BY <1>1, <1>9 DEF DeleteComment
  <2>2. l \in Lines /\ l.op = "comment-delete" /\ l.act = a /\ l.post = p
    BY <1>1, LinesFit
  <2> HIDE DEF l
  <2> QED
    BY <1>2, <1>3, <2>1, <2>2
<1>10. ASSUME NEW p \in Post, NEW c \in Reply, NEW hide \in BOOLEAN, SetCommentState(p, c, hide) PROVE Goal
  <2> DEFINE l == [op |-> "comment-mod", post |-> p, reply |-> c, hide |-> hide, act |-> a]
  <2>1. Stamped(l) /\ p \in Standing
    BY <1>1, <1>10 DEF SetCommentState
  <2>2. l \in Lines /\ l.op = "comment-mod" /\ l.act = a /\ l.post = p
    BY <1>1, LinesFit
  <2> HIDE DEF l
  <2> QED
    BY <1>2, <1>3, <2>1, <2>2
<1>11. \A l \in Lines : l.op \in OnTrack /\ Unstamped(l) => Goal
  BY DEF Goal, Unstamped, TrackChange
<1>12. ASSUME NEW t \in Track, SetCurrentTrack(t) PROVE Goal
  <2> DEFINE l == [op |-> "track-current", track |-> t]
  <2>1. Unstamped(l)
    BY <1>12 DEF SetCurrentTrack
  <2>2. l \in Lines /\ l.op \in OnTrack
    BY <1>1, OtherLinesFit
  <2> HIDE DEF l
  <2> QED
    BY <1>11, <2>1, <2>2
<1>13. ASSUME NEW t \in Track, DropTrack(t) PROVE Goal
  <2> DEFINE l == [op |-> "track-drop", track |-> t]
  <2>1. Unstamped(l)
    BY <1>13 DEF DropTrack
  <2>2. l \in Lines /\ l.op \in OnTrack
    BY <1>1, OtherLinesFit
  <2> HIDE DEF l
  <2> QED
    BY <1>11, <2>1, <2>2
<1>14. ASSUME ClearCurrentTrack PROVE Goal
  <2> DEFINE l == [op |-> "track-clear"]
  <2>1. Unstamped(l)
    BY <1>14 DEF ClearCurrentTrack
  <2>2. l \in Lines /\ l.op \in OnTrack
    BY <1>1, OtherLinesFit
  <2> HIDE DEF l
  <2> QED
    BY <1>11, <2>1, <2>2
<1>15. ASSUME NEW m \in Photo, SaveMedia(m) PROVE Goal
  <2>1. uploads' \in [Party -> SUBSET Photo] /\ thumbs' \in [Party -> SUBSET Photo]
    <3>1. PICK q \in {dir, noted} : uploads' = [uploads EXCEPT ![q] = @ \cup {m}]
      BY <1>15, Zenon DEF SaveMedia
    <3>2. thumbs' = thumbs
      BY <1>15 DEF SaveMedia
    <3> QED
      BY <3>1, <3>2 DEF StoreTypeOK
  <2> QED
    BY <1>15, <2>1 DEF SaveMedia, Goal, FilesOnly
<1>16. ASSUME NEW m \in Photo, MakeThumb(m) PROVE Goal
  <2> DEFINE l == [op |-> "thumb", photo |-> m, act |-> a]
  <2>1. PICK q \in Party :
          /\ thumbs' = [thumbs EXCEPT ![q] = @ \cup {m}]
          /\ \/ Write(l) /\ clock' = a
             \/ UNCHANGED <<journal, file, uploads, link, noted, busy, memory, joining, refused, mishaps>>
    BY <1>1, <1>16, Zenon DEF MakeThumb
  <2>2. l \in Lines /\ l.op = "thumb" /\ l.act = a
    BY <1>1, OtherLinesFit
  <2>3. l \notin {Cut} /\ l.op \notin OnTrack /\ l.op \notin OnPost
    BY <2>2, KindsDiffer, LineIs
  <2> HIDE DEF l
  <2>4. thumbs' \in [Party -> SUBSET Photo]
    BY <2>1 DEF StoreTypeOK
  <2>5. CASE Write(l) /\ clock' = a
    BY <2>2, <2>3, <2>4, <2>5 DEF Goal, StampedChange, Valid, a
  <2>6. CASE UNCHANGED <<journal, file, uploads, link, noted, busy, memory, joining, refused, mishaps>>
    BY <2>4, <2>6 DEF Goal, FilesOnly, StoreTypeOK
  <2> QED
    BY <2>1, <2>5, <2>6
<1> QED
  BY <1>4, <1>5, <1>6, <1>7, <1>8, <1>9, <1>10, <1>12, <1>13, <1>14, <1>15, <1>16 DEF Changes, Goal

-----------------------------------------------------------------------------
(* A line written, or refused, keeps the invariant.                        *)

LEMMA LineLands ==
  ASSUME StoreTypeOK, Journals, NEW l \in Lines, NEW how \in {"nothing", "cut", "unended", "whole"},
         Land(l, how), Len(journal[dir]) < MaxLines
  PROVE  /\ Journals' /\ \A q \in Party : Len(journal'[q]) <= MaxLines
         /\ file' \in [Party -> {"absent", "ended", "torn"}]
         /\ how = "nothing" => journal' = journal
         /\ how # "nothing" => \E k \in Lines : /\ journal'[dir] = Append(journal[dir], k)
                                                /\ how = "whole" => k = l
<1> DEFINE k == IF how = "cut" THEN Cut ELSE l
<1>1. dir \in Party /\ journal[dir] \in Seq(Lines) /\ MaxLines \in Nat /\ Len(journal[dir]) \in Nat
  BY StoreBounds DEF StoreTypeOK, Journals
<1>2. Cut \in Lines
  BY DEF Lines
<1>3. k \in Lines /\ (how = "whole" => k = l)
  BY <1>2
<1>4. journal' = [journal EXCEPT ![dir] = IF how = "nothing" THEN @ ELSE Append(@, k)]
  BY Zenon DEF Land
<1>5. file' \in [Party -> {"absent", "ended", "torn"}]
  <2>1. PICK now \in (CASE how = "nothing" -> {file[dir], "ended"}
                        [] how = "whole"   -> {"ended"}
                        [] OTHER           -> {"torn"}) : file' = [file EXCEPT ![dir] = now]
    BY Zenon DEF Land
  <2>2. file \in [Party -> {"absent", "ended", "torn"}] /\ file[dir] \in {"absent", "ended", "torn"}
    BY <1>1 DEF StoreTypeOK
  <2>3. now \in {"absent", "ended", "torn"}
    BY <2>1, <2>2
  <2> QED
    BY <2>1, <2>2, <2>3
<1> HIDE DEF k
<1>6. Append(journal[dir], k) \in Seq(Lines) /\ Len(Append(journal[dir], k)) = Len(journal[dir]) + 1
  BY <1>1, <1>3
<1>7. CASE how = "nothing"
  <2>1. journal' = journal
    BY <1>4, <1>7 DEF Journals
  <2> QED
    BY <1>5, <1>7, <2>1 DEF Journals, StoreTypeOK
<1>8. CASE how # "nothing"
  <2>1. journal' = [journal EXCEPT ![dir] = Append(journal[dir], k)]
    BY <1>4, <1>8
  <2>2. journal'[dir] = Append(journal[dir], k)
    BY <1>1, <2>1 DEF Journals
  <2>3. Journals'
    BY <1>6, <2>1 DEF Journals
  <2>4. \A q \in Party : Len(journal'[q]) <= MaxLines
    BY <1>1, <1>6, <2>1 DEF Journals, StoreTypeOK
  <2> QED
    BY <1>3, <1>5, <1>8, <2>2, <2>3, <2>4
<1> QED
  BY <1>7, <1>8

LEMMA WriteKeeps ==
  ASSUME EventInv, NEW l \in Lines, Write(l), Valid(wall, l),
         clock' \in Nat, clock <= clock', l.op \notin OnTrack => l.act <= clock',
         thumbs' \in [Party -> SUBSET Photo]
  PROVE  EventInv'
<1> USE DEF EventInv
<1>1. /\ uploads' = uploads /\ link' = link /\ noted' = noted /\ dir' = dir /\ owed' = owed /\ joining' = joining
      /\ Len(journal[dir]) < MaxLines
  BY DEF Write
<1> DEFINE s == journal[dir]
<1>2. dir \in Party /\ s \in Seq(Lines) /\ refused \in SUBSET (1..Len(s)) /\ Void = Skipped(s, refused)
  BY DEF StoreTypeOK, Journals, Memory, Void, Skipped
<1>3. IsWall(wall) /\ Below(wall, clock) /\ clock \in Nat /\ Same(wall, ReplayBut(s, Skipped(s, refused)))
  BY <1>2 DEF Memory, Agrees, StoreTypeOK
<1>4. Void' = Skipped(journal'[dir], refused')
  BY <1>1 DEF Void, Skipped
<1>5. Links'
  BY <1>1 DEF Links, JoinerKeepsLink
<1> HIDE DEF s
<1> DEFINE Kept ==
             /\ Journals' /\ \A q \in Party : Len(journal'[q]) <= MaxLines
             /\ file' \in [Party -> {"absent", "ended", "torn"}]
             /\ IsWall(wall') /\ Below(wall', clock') /\ refused' \in SUBSET (1..Len(journal'[dir]))
             /\ Same(wall', ReplayBut(journal'[dir], Void'))
             /\ busy' \in Party \cup {None} /\ revision' \in Nat \X Nat
<1>6. ASSUME Accept(l) PROVE Kept
  <2>1. Land(l, "whole") /\ wall' = Applied(wall, l) /\ refused' = refused /\ busy' = dir /\ revision' = Moved
    BY <1>6 DEF Accept
  <2>2. /\ Journals' /\ \A q \in Party : Len(journal'[q]) <= MaxLines
        /\ file' \in [Party -> {"absent", "ended", "torn"}]
        /\ journal'[dir] = Append(s, l)
    BY <1>1, <2>1, LineLands DEF s
  <2>3. IsWall(wall')
    BY <1>3, <2>1, AppliedIsWall
  <2>4. Below(wall', clock')
    BY <1>3, <2>1, AppliedBelow
  <2>5. refused' \in SUBSET (1..Len(journal'[dir]))
    BY <1>2, <2>1, <2>2
  <2>6. ReplayBut(journal'[dir], Void') = Replayed(ReplayBut(s, Skipped(s, refused)), l)
    BY <1>2, <1>4, <2>1, <2>2, AcceptedLine DEF Valid
  <2>7. IsWall(ReplayBut(s, Skipped(s, refused)))
    BY <1>2, ReplayIsWall
  <2>8. Same(wall', ReplayBut(journal'[dir], Void'))
    BY <1>3, <2>1, <2>6, <2>7, HandlersAgree
  <2>9. busy' \in Party \cup {None} /\ revision' \in Nat \X Nat
    BY <1>2, <2>1 DEF Moved, StoreTypeOK
  <2> QED
    BY <2>2, <2>3, <2>4, <2>5, <2>8, <2>9 DEF Kept
<1>7. ASSUME Refuse(l) PROVE Kept
  <2>1. /\ wall' = wall /\ busy' = busy /\ revision' = revision
        /\ \E how \in {"nothing", "cut", "unended", "whole"} :
             /\ Land(l, how)
             /\ refused' = IF how = "nothing" THEN refused ELSE refused \cup {Len(journal[dir]) + 1}
    BY <1>7 DEF Refuse
  <2>2. PICK how \in {"nothing", "cut", "unended", "whole"} :
             /\ Land(l, how)
             /\ refused' = IF how = "nothing" THEN refused ELSE refused \cup {Len(s) + 1}
    BY <2>1 DEF s
  <2>3. /\ Journals' /\ \A q \in Party : Len(journal'[q]) <= MaxLines
        /\ file' \in [Party -> {"absent", "ended", "torn"}]
        /\ how = "nothing" => journal' = journal
        /\ how # "nothing" => \E k \in Lines : journal'[dir] = Append(s, k)
    BY <1>1, <2>2, LineLands DEF s
  <2>4. Below(wall', clock')
    <3>1. \A p \in DOMAIN wall.posts : wall.posts[p].act \in Nat
      BY <1>3, PostsAre DEF Posted
    <3> QED
      BY <1>3, <2>1, <3>1 DEF Below
  <2>5. /\ refused' \in SUBSET (1..Len(journal'[dir]))
        /\ ReplayBut(journal'[dir], Void') = ReplayBut(s, Skipped(s, refused))
    <3>1. CASE how = "nothing"
      <4>1. journal'[dir] = s /\ refused' = refused
        BY <2>2, <2>3, <3>1 DEF s
      <4> QED
        BY <1>2, <1>4, <4>1
    <3>2. CASE how # "nothing"
      <4>1. PICK k \in Lines : journal'[dir] = Append(s, k)
        BY <2>3, <3>2
      <4>2. refused' = refused \cup {Len(s) + 1}
        BY <2>2, <3>2
      <4>3. refused' \in SUBSET (1..Len(journal'[dir]))
        <5>1. Len(s) \in Nat /\ Len(Append(s, k)) = Len(s) + 1
          BY <1>2, <4>1
        <5>2. refused \cup {Len(s) + 1} \in SUBSET (1..(Len(s) + 1))
          <6>1. \A i \in refused : i \in 1..Len(s)
            BY <1>2
          <6>2. \A i \in refused \cup {Len(s) + 1} : i \in 1..(Len(s) + 1)
            BY <5>1, <6>1
          <6> QED
            BY <6>2
        <5> QED
          BY <4>1, <4>2, <5>1, <5>2
      <4>4. ReplayBut(journal'[dir], Void') = ReplayBut(s, Skipped(s, refused))
        BY <1>2, <1>4, <4>1, <4>2, RefusedLine
      <4> QED
        BY <4>3, <4>4
    <3> QED
      BY <3>1, <3>2
  <2>6. busy' \in Party \cup {None} /\ revision' \in Nat \X Nat
    BY <2>1 DEF StoreTypeOK
  <2> QED
    BY <1>3, <2>1, <2>3, <2>4, <2>5, <2>6
<1> HIDE DEF Kept
<1>8. Kept
  <2>1. Accept(l) \/ Refuse(l)
    BY DEF Write
  <2> QED
    BY <1>6, <1>7, <2>1, Zenon
<1>9. DOMAIN wall'.posts \subseteq Post /\ wall'.now \in Track \cup {None}
  BY <1>8, PostsAre DEF IsWall, Kept
<1>10. Memory' /\ Agrees' /\ Journals'
  BY <1>1, <1>8 DEF Memory, Agrees, Kept
<1>11. StoreTypeOK'
  BY <1>1, <1>8, <1>9 DEF StoreTypeOK, Kept
<1> QED
  BY <1>5, <1>10, <1>11

-----------------------------------------------------------------------------
(* A start, and a change of party.                                         *)

LEMMA GreatestNumber ==
  ASSUME NEW S \in SUBSET Nat, S # {}, NEW b \in Nat, \A y \in S : y <= b
  PROVE  Max(S) \in S /\ \A y \in S : y <= Max(S)
<1> DEFINE T == {c \in Nat : \A y \in S : y <= c}
<1>1. T \in SUBSET Nat /\ T # {}
  OBVIOUS
<1>2. PICK c \in T : \A d \in T : c <= d
  BY <1>1, LeastNumber
<1>3. c \in Nat /\ \A y \in S : y <= c
  BY <1>2
<1>4. c \in S
  <2>1. SUFFICES ASSUME c \notin S PROVE FALSE
    OBVIOUS
  <2>2. PICK z \in S : TRUE
    OBVIOUS
  <2>3. c - 1 \in Nat /\ \A y \in S : y <= c - 1
    BY <1>3, <2>1, <2>2
  <2>4. c - 1 \in T
    BY <2>3
  <2> QED
    BY <1>2, <1>3, <2>4
<1>5. \E x \in S : \A y \in S : x >= y
  BY <1>3, <1>4
<1>6. Max(S) \in S /\ \A y \in S : Max(S) >= y
  BY <1>5, Zenon DEF Max
<1> QED
  BY <1>6

LEMMA LastActivityBounds ==
  ASSUME NEW w, IsWall(w), NEW b \in Nat, Below(w, b)
  PROVE  LastActivity(w) \in Nat /\ Below(w, LastActivity(w))
<1> DEFINE acts == {w.posts[p].act : p \in DOMAIN w.posts}
<1>1. \A p \in DOMAIN w.posts : w.posts[p].act \in Nat /\ w.posts[p].act <= b
  BY PostsAre DEF Posted, Below
<1>2. acts \cup {0} \in SUBSET Nat /\ acts \cup {0} # {} /\ \A y \in acts \cup {0} : y <= b
  BY <1>1
<1>3. LastActivity(w) = Max(acts \cup {0})
  BY Zenon DEF LastActivity
<1>4. \A p \in DOMAIN w.posts : w.posts[p].act \in acts \cup {0}
  OBVIOUS
<1> HIDE DEF acts
<1>5. Max(acts \cup {0}) \in acts \cup {0} /\ \A y \in acts \cup {0} : y <= Max(acts \cup {0})
  BY <1>2, GreatestNumber
<1> QED
  BY <1>2, <1>3, <1>4, <1>5 DEF Below

LEMMA SameAsItself == \A w : Same(w, w)
BY DEF Same, Alike

LEMMA StartedWall ==
  ASSUME Journals, NEW q \in Party
  PROVE  LET w == Replay(journal[q]) IN
         /\ IsWall(w) /\ LastActivity(w) \in Nat /\ Below(w, LastActivity(w))
         /\ Same(w, ReplayBut(journal[q], Skipped(journal[q], {})))
<1>1. journal[q] \in Seq(Lines)
  BY DEF Journals
<1>2. IsWall(ReplayBut(journal[q], {})) /\ \E b \in Nat : Below(ReplayBut(journal[q], {}), b)
  BY <1>1, ReplayIsWall
<1>3. ReplayBut(journal[q], Skipped(journal[q], {})) = ReplayBut(journal[q], {})
  BY <1>1, CutsAreVoid
<1> QED
  BY <1>2, <1>3, LastActivityBounds, SameAsItself DEF Replay

LEMMA StartKeeps ==
  ASSUME StoreTypeOK, Journals, dir' \in Party, journal' = journal,
         wall' = Replay(journal[dir']), clock' = LastActivity(wall'), refused' = {}
  PROVE  /\ Journals' /\ Memory' /\ Agrees' /\ clock' \in Nat
         /\ DOMAIN wall'.posts \subseteq Post /\ wall'.now \in Track \cup {None}
<1>1. /\ IsWall(wall') /\ clock' \in Nat /\ Below(wall', clock')
      /\ Same(wall', ReplayBut(journal[dir'], Skipped(journal[dir'], {})))
  BY StartedWall
<1>2. Void' = Skipped(journal'[dir'], {})
  BY DEF Void, Skipped
<1>3. Memory' /\ Agrees' /\ Journals'
  BY <1>1, <1>2 DEF Memory, Agrees, Journals
<1> QED
  BY <1>1, <1>3, PostsAre DEF IsWall

LEMMA StoreStarts == StoreInit => EventInv
<1> SUFFICES ASSUME StoreInit PROVE EventInv
  OBVIOUS
<1>1. PICK before \in Visited :
       /\ journal = [q \in Party |-> IF q = Theirs THEN before ELSE <<>>]
       /\ file = [q \in Party |-> IF q = Theirs /\ before # <<>> THEN "ended" ELSE "absent"]
       /\ link = IF before = <<>> THEN None ELSE "theirs"
  BY DEF StoreInit
<1>2. before \in Seq(Lines) /\ Len(before) <= MaxLines
  <2>1. CASE before = <<>>
    BY <2>1, StoreBounds
  <2>2. ASSUME NEW p \in Post,
               before = <<[op |-> "post", post |-> p, photo |-> None, thumb |-> FALSE, act |-> 1]>>
        PROVE  before \in Seq(Lines) /\ Len(before) <= MaxLines
    <3>1. [op |-> "post", post |-> p, photo |-> None, thumb |-> FALSE, act |-> 1] \in Lines
      BY DEF Lines, Stamp
    <3> DEFINE l == [op |-> "post", post |-> p, photo |-> None, thumb |-> FALSE, act |-> 1]
    <3> HIDE DEF l
    <3>2. <<l>> \in Seq(Lines) /\ Len(<<l>>) = 1
      BY <3>1 DEF l
    <3> QED
      BY <2>2, <3>2, StoreBounds DEF l
  <2> QED
    BY <2>1, <2>2 DEF Visited
<1>3. Journals /\ \A q \in Party : Len(journal[q]) <= MaxLines
  <2>1. <<>> \in Seq(Lines) /\ Len(<<>>) = 0 /\ 0 <= MaxLines
    BY StoreBounds
  <2> QED
    BY <1>1, <1>2, <2>1 DEF Journals
<1>4. dir \in Mine /\ dir \in Party /\ dir # Theirs /\ noted = dir /\ journal[dir] = <<>>
  BY <1>1, IdsDiffer DEF StoreInit, Party
<1>5. wall = Empty /\ clock = 0 /\ refused = {} /\ joining = "idle" /\ busy = None
  BY DEF StoreInit
<1>6. IsWall(wall) /\ DOMAIN wall.posts = {} /\ wall.now = None
  BY <1>5, EmptyIsWall DEF Empty
<1>7. Memory
  BY <1>4, <1>5, <1>6 DEF Memory, Below
<1>8. Agrees
  <2>1. ReplayBut(journal[dir], Void) = wall
    BY <1>4, <1>5, ReplayOfNothing
  <2> QED
    BY <2>1, SameAsItself DEF Agrees
<1>9. Links
  BY <1>4, <1>5 DEF Links, JoinerKeepsLink
<1>10. StoreTypeOK
  <2>1. file \in [Party -> {"absent", "ended", "torn"}] /\ link \in {None, "ours", "theirs"}
    BY <1>1
  <2>2. uploads \in [Party -> SUBSET Photo] /\ thumbs \in [Party -> SUBSET Photo]
        /\ owed \in BOOLEAN /\ revision \in Nat \X Nat
    BY DEF StoreInit
  <2> QED
    BY <1>3, <1>4, <1>5, <1>6, <2>1, <2>2 DEF StoreTypeOK
<1> QED
  BY <1>3, <1>7, <1>8, <1>9, <1>10 DEF EventInv

LEMMA UntouchedMemory ==
  ASSUME EventInv, UNCHANGED <<journal, dir, wall, clock, refused>>
  PROVE  Journals' /\ Memory' /\ Agrees'
<1>1. Void' = Void
  BY DEF Void
<1> QED
  BY <1>1 DEF EventInv, Journals, Memory, Agrees

LEMMA StoreSteps == EventInv /\ [StoreNext]_storeVars => EventInv'
<1> SUFFICES ASSUME EventInv, [StoreNext]_storeVars PROVE EventInv'
  OBVIOUS
<1>1. StoreTypeOK /\ Journals /\ Memory /\ Agrees /\ Links
  BY DEF EventInv
<1>2. CASE Changes
  <2>1. clock \in Nat /\ clock + 1 \in Nat /\ clock <= clock + 1 /\ clock <= clock /\ clock + 1 <= clock + 1
    BY <1>1 DEF StoreTypeOK
  <2>2. ASSUME NEW l \in Lines, StampedChange(l) PROVE EventInv'
    BY <2>1, <2>2, WriteKeeps DEF StampedChange
  <2>3. ASSUME NEW l \in Lines, TrackChange(l) PROVE EventInv'
    <3>1. Valid(wall, l)
      BY <2>3, KindsDiffer, LineIs DEF TrackChange, Valid
    <3>2. thumbs' \in [Party -> SUBSET Photo] /\ clock' = clock
      BY <1>1, <2>3 DEF TrackChange, StoreTypeOK
    <3> QED
      BY <2>1, <2>3, <3>1, <3>2, WriteKeeps DEF TrackChange
  <2>4. ASSUME FilesOnly PROVE EventInv'
    <3>1. Journals' /\ Memory' /\ Agrees'
      BY <2>4, UntouchedMemory DEF FilesOnly, memory
    <3>2. StoreTypeOK' /\ Links'
      BY <1>1, <2>4 DEF FilesOnly, memory, StoreTypeOK, Links, JoinerKeepsLink
    <3> QED
      BY <3>1, <3>2 DEF EventInv
  <2> QED
    BY <1>1, <1>2, <2>2, <2>3, <2>4, EveryChange
<1>3. CASE SetJoinURL
  <2>1. Journals' /\ Memory' /\ Agrees'
    BY <1>3, UntouchedMemory DEF SetJoinURL, memory
  <2>2. StoreTypeOK' /\ Links'
    BY <1>1, <1>3 DEF SetJoinURL, memory, StoreTypeOK, Links, JoinerKeepsLink
  <2> QED
    BY <2>1, <2>2 DEF EventInv
<1>4. CASE JoinLooks
  <2>1. Journals' /\ Memory' /\ Agrees'
    BY <1>4, UntouchedMemory DEF JoinLooks, memory, disk
  <2>2. StoreTypeOK' /\ Links'
    BY <1>1, <1>4 DEF JoinLooks, memory, disk, StoreTypeOK, Links, JoinerKeepsLink
  <2> QED
    BY <2>1, <2>2 DEF EventInv
<1>5. CASE JoinSwitches
  <2>1. /\ dir' = Theirs /\ dir' \in Party /\ journal' = journal /\ wall' = Replay(journal[dir'])
        /\ clock' = LastActivity(wall') /\ refused' = {}
    BY <1>5 DEF JoinSwitches, disk, Party
  <2>2. /\ Journals' /\ Memory' /\ Agrees' /\ clock' \in Nat
        /\ DOMAIN wall'.posts \subseteq Post /\ wall'.now \in Track \cup {None}
    BY <1>1, <2>1, StartKeeps
  <2>3. StoreTypeOK' /\ Links'
    BY <1>1, <1>5, <2>1, <2>2 DEF JoinSwitches, disk, StoreTypeOK, Links, JoinerKeepsLink
  <2> QED
    BY <2>2, <2>3 DEF EventInv
<1>6. CASE JoinAnnounces
  <2>1. Journals' /\ Memory' /\ Agrees'
    BY <1>6, UntouchedMemory DEF JoinAnnounces, disk
  <2>2. StoreTypeOK' /\ Links'
    <3>1. revision' \in Nat \X Nat
      BY <1>1, <1>6 DEF JoinAnnounces, Moved, StoreTypeOK
    <3> QED
      BY <1>1, <1>6, <3>1 DEF JoinAnnounces, disk, StoreTypeOK, Links, JoinerKeepsLink
  <2> QED
    BY <2>1, <2>2 DEF EventInv
<1>7. CASE JoinNames
  <2>1. Journals' /\ Memory' /\ Agrees'
    BY <1>7, UntouchedMemory DEF JoinNames, memory
  <2>2. StoreTypeOK' /\ Links'
    BY <1>1, <1>7 DEF JoinNames, memory, StoreTypeOK, Links, JoinerKeepsLink
  <2> QED
    BY <2>1, <2>2 DEF EventInv
<1>8. CASE JoinNotes
  <2>1. Journals' /\ Memory' /\ Agrees'
    BY <1>8, UntouchedMemory DEF JoinNotes
  <2>2. StoreTypeOK' /\ Links'
    BY <1>1, <1>8 DEF JoinNotes, Moved, Party, StoreTypeOK, Links, JoinerKeepsLink
  <2> QED
    BY <2>1, <2>2 DEF EventInv
<1>9. CASE Restart
  <2>1. /\ dir' \in Party /\ (dir' = Theirs => noted = Theirs) /\ noted' = dir' /\ busy' \in {None, busy}
    <3>1. PICK stale, quiet \in BOOLEAN : dir' \in Resumed(stale) /\ busy' = IF quiet THEN None ELSE busy
      BY <1>9 DEF Restart
    <3>2. dir' = noted \/ dir' \in Mine
      BY <3>1 DEF Resumed
    <3>3. noted' = dir'
      BY <1>9 DEF Restart
    <3> QED
      BY <1>1, <3>1, <3>2, <3>3, IdsDiffer DEF StoreTypeOK, Party
  <2>2. /\ journal' = journal /\ wall' = Replay(journal[dir'])
        /\ clock' = LastActivity(wall') /\ refused' = {} /\ joining' = "idle" /\ link' = link
        /\ file' = file /\ uploads' = uploads /\ thumbs' = thumbs /\ owed' = FALSE
        /\ revision' = <<revision[1] + 1, 0>>
    BY <1>9 DEF Restart
  <2>3. /\ Journals' /\ Memory' /\ Agrees' /\ clock' \in Nat
        /\ DOMAIN wall'.posts \subseteq Post /\ wall'.now \in Track \cup {None}
    BY <1>1, <2>1, <2>2, StartKeeps
  <2>4. Links'
    BY <1>1, <2>1, <2>2 DEF Links, JoinerKeepsLink
  <2>5. StoreTypeOK'
    <3>1. revision' \in Nat \X Nat
      BY <1>1, <2>2 DEF StoreTypeOK
    <3> QED
      BY <1>1, <2>1, <2>2, <2>3, <3>1 DEF StoreTypeOK
  <2> QED
    BY <2>3, <2>4, <2>5 DEF EventInv
<1>10. CASE UNCHANGED storeVars
  <2>1. Journals' /\ Memory' /\ Agrees'
    BY <1>10, UntouchedMemory DEF storeVars, disk, memory
  <2>2. StoreTypeOK' /\ Links'
    BY <1>1, <1>10 DEF storeVars, disk, memory, StoreTypeOK, Links, JoinerKeepsLink
  <2> QED
    BY <2>1, <2>2 DEF EventInv
<1> QED
  BY <1>2, <1>3, <1>4, <1>5, <1>6, <1>7, <1>8, <1>9, <1>10 DEF StoreNext, Parties

LEMMA StoreInvariant == StoreSpec => []EventInv
<1>1. StoreInit => EventInv
  BY StoreStarts
<1>2. EventInv /\ [StoreNext]_storeVars => EventInv'
  BY StoreSteps
<1> QED
  BY <1>1, <1>2, PTL DEF StoreSpec

\* The store keeps its variables in their types and its journals in their bound: what
\* use, the handlers and JoinParty leave behind after any failure or restart (event.go,
\* party.go).
THEOREM StoreTypeCorrect == StoreSpec => []StoreTypeOK
<1>1. EventInv => StoreTypeOK
  BY DEF EventInv
<1> QED
  BY <1>1, StoreInvariant, PTL

\* The wall in memory shows what a restart would make of the accepted lines of its
\* journal: no torn line, failed write, restart or change of party makes the handlers of
\* event.go and the replay of use disagree.
THEOREM MemoryIsReplay == StoreSpec => []WallIsReplay
<1>1. EventInv => WallIsReplay
  <2> SUFFICES ASSUME EventInv PROVE WallIsReplay
    OBVIOUS
  <2>1. journal[dir] \in Seq(Lines)
    BY DEF EventInv, StoreTypeOK, Journals
  <2>2. IsWall(ReplayBut(journal[dir], Void))
    BY <2>1, ReplayIsWall
  <2> QED
    BY <2>2, SameIsContent DEF EventInv, Memory, Agrees, WallIsReplay
<1> QED
  BY <1>1, StoreInvariant, PTL

\* Once JoinParty has ended, and after every restart, a Mac in another's party has that
\* party's link in party.json, whenever SetJoinURL ran meanwhile (party.go:309-386).
THEOREM JoinedLinkStays == StoreSpec => []JoinerKeepsLink
<1>1. EventInv => JoinerKeepsLink
  BY DEF EventInv, Links
<1> QED
  BY <1>1, StoreInvariant, PTL

-----------------------------------------------------------------------------
(* The store implements FeedSource.                                        *)

Visible(w) == {q \in DOMAIN w.posts : ~w.posts[q].deleted /\ ~w.posts[q].hidden}

ShownOf(w) == [p \in Visible(w) |-> w.posts[p].act]

LEMMA ShownIs == Shown = ShownOf(wall) /\ Shown' = ShownOf(wall')
<1>1. {q \in Standing : ~wall.posts[q].hidden} = Visible(wall)
  BY DEF Standing, Visible
<1>2. {q \in Standing : ~wall.posts[q].hidden}' = Visible(wall')
  BY DEF Standing, Visible
<1> QED
  BY <1>1, <1>2, Zenon DEF Shown, ShownOf

LEMMA ShownFits ==
  ASSUME NEW w, IsWall(w), NEW c \in Nat, Below(w, c)
  PROVE  /\ \E S \in SUBSET Post : ShownOf(w) \in [S -> Nat]
         /\ \A p \in DOMAIN ShownOf(w) : ShownOf(w)[p] \in 1..c
<1>1. DOMAIN w.posts \subseteq Post /\ \A p \in DOMAIN w.posts : w.posts[p].act \in 1..c
  BY PostsAre DEF Posted, Below
<1>2. Visible(w) \in SUBSET Post /\ \A p \in Visible(w) : w.posts[p].act \in 1..c
  BY <1>1 DEF Visible
<1> QED
  BY <1>2 DEF ShownOf

LEMMA ShowsPost ==
  ASSUME NEW w, IsWall(w), NEW l \in Lines, l.op = "post"
  PROVE  ShownOf(Applied(w, l)) =
           [p \in DOMAIN ShownOf(w) \cup {l.post} |-> IF p \in {l.post} THEN l.act ELSE ShownOf(w)[p]]
<1> DEFINE v == Applied(w, l)
           y == NewPost(l.photo, l.thumb, l.act)
<1>1. v.posts = [q \in DOMAIN w.posts \cup {l.post} |-> IF q = l.post THEN y ELSE w.posts[q]]
  BY PostIsAdded
<1>2. ~y.deleted /\ ~y.hidden /\ y.act = l.act
  BY DEF NewPost
<1> HIDE DEF v, y
<1>3. Visible(v) = Visible(w) \cup {l.post}
  BY <1>1, <1>2 DEF Visible
<1>4. \A p \in Visible(v) : v.posts[p].act = IF p \in {l.post} THEN l.act ELSE w.posts[p].act
  BY <1>1, <1>2, <1>3 DEF Visible
<1> QED
  BY <1>3, <1>4 DEF ShownOf, v

\* What the post is to guests after the change of a line.
LEMMA ShowsChange ==
  ASSUME NEW w, IsWall(w), NEW l \in Lines, l.op \in OnPost, Valid(w, l)
  PROVE  \/ ShownOf(Applied(w, l)) =
              [p \in DOMAIN ShownOf(w) \cup {l.post} |-> IF p \in {l.post} THEN l.act ELSE ShownOf(w)[p]]
         \/ /\ l.post \in DOMAIN ShownOf(w)
            /\ ShownOf(Applied(w, l)) = [p \in DOMAIN ShownOf(w) \ {l.post} |-> ShownOf(w)[p]]
         \/ ShownOf(Applied(w, l)) = ShownOf(w)
<1> DEFINE v == Applied(w, l)
           y == [Changed(w.posts[l.post], l) EXCEPT !.act = l.act]
<1>1. l.post \in DOMAIN w.posts /\ v.posts = [w.posts EXCEPT ![l.post] = y]
  BY PostIsChanged DEF Valid, Stands
<1>2. y.act = l.act
  BY <1>1, PostsAre, ChangedType, StampType, LineIs
<1> HIDE DEF v, y
<1>3. CASE ~y.deleted /\ ~y.hidden
  <2>1. Visible(v) = Visible(w) \cup {l.post}
    BY <1>1, <1>3 DEF Visible
  <2>2. \A p \in Visible(v) : v.posts[p].act = IF p \in {l.post} THEN l.act ELSE w.posts[p].act
    BY <1>1, <1>2, <2>1 DEF Visible
  <2> QED
    BY <2>1, <2>2 DEF ShownOf, v
<1>4. CASE (y.deleted \/ y.hidden) /\ l.post \in Visible(w)
  <2>1. Visible(v) = Visible(w) \ {l.post}
    BY <1>1, <1>4 DEF Visible
  <2>2. \A p \in Visible(v) : v.posts[p].act = w.posts[p].act
    BY <1>1, <2>1 DEF Visible
  <2> QED
    BY <1>4, <2>1, <2>2 DEF ShownOf, v
<1>5. CASE (y.deleted \/ y.hidden) /\ l.post \notin Visible(w)
  <2>1. Visible(v) = Visible(w)
    BY <1>1, <1>5 DEF Visible
  <2>2. \A p \in Visible(v) : v.posts[p].act = w.posts[p].act
    BY <1>1, <1>5, <2>1 DEF Visible
  <2> QED
    BY <2>1, <2>2 DEF ShownOf, v
<1> QED
  BY <1>3, <1>4, <1>5

LEMMA ShowsThumb ==
  ASSUME NEW w, IsWall(w), NEW l \in Lines, l.op = "thumb"
  PROVE  \E S \in SUBSET Post : ShownOf(Applied(w, l)) =
           [p \in DOMAIN ShownOf(w) \cup S |-> IF p \in S THEN l.act ELSE ShownOf(w)[p]]
<1> DEFINE v == Applied(w, l)
           U == Unmarked(w, l.photo)
           x(p) == [w.posts[p] EXCEPT !.thumb = TRUE, !.act = l.act]
           S == U \cap Visible(w)
<1>1. DOMAIN w.posts \subseteq Post /\ \A p \in DOMAIN w.posts : w.posts[p] \in Posted
  BY PostsAre
<1>2. v.posts = [p \in DOMAIN w.posts |-> IF p \in U THEN x(p) ELSE w.posts[p]]
  BY ThumbIsMarked
<1>3. \A p \in DOMAIN w.posts : /\ x(p).act = l.act /\ x(p).deleted = w.posts[p].deleted
                                /\ x(p).hidden = w.posts[p].hidden
  BY <1>1 DEF Posted
<1>4. S \in SUBSET Post
  BY <1>1 DEF Visible
<1> HIDE DEF v, U, x
<1>5. Visible(v) = Visible(w) \cup S
  BY <1>2, <1>3 DEF Visible
<1>6. \A p \in Visible(v) : v.posts[p].act = IF p \in S THEN l.act ELSE w.posts[p].act
  BY <1>2, <1>3, <1>5 DEF Visible
<1> HIDE DEF S
<1>7. ShownOf(v) = [p \in DOMAIN ShownOf(w) \cup S |-> IF p \in S THEN l.act ELSE ShownOf(w)[p]]
  BY <1>5, <1>6 DEF ShownOf
<1> QED
  BY <1>4, <1>7 DEF v

LEMMA ShowsTracks ==
  ASSUME NEW w, IsWall(w), NEW l \in Lines, l.op \in OnTrack
  PROVE  ShownOf(Applied(w, l)) = ShownOf(w)
BY TracksTurn, Zenon DEF ShownOf, Visible

LEMMA FeedStarts == StoreInit => Feed!SourceInit
<1> SUFFICES ASSUME StoreInit PROVE Feed!SourceInit
  OBVIOUS
<1>1. wall = Empty /\ clock = 0 /\ revision = <<0, 0>> /\ owed = FALSE
  BY DEF StoreInit
<1>2. IsWall(wall) /\ DOMAIN wall.posts = {}
  BY <1>1, EmptyIsWall
<1>3. Below(wall, 0)
  BY <1>2 DEF Below
<1>4. /\ \E S \in SUBSET Post : Shown \in [S -> Nat]
      /\ \A p \in DOMAIN Shown : Shown[p] \in 1..clock
  BY <1>1, <1>2, <1>3, ShownIs, ShownFits
<1> QED
  BY <1>1, <1>4 DEF Feed!SourceInit

LEMMA AcceptedFeeds ==
  ASSUME EventInv, NEW l \in Lines, StampedChange(l), Accept(l)
  PROVE  Feed!SourceNext
<1>1. /\ IsWall(wall) /\ Valid(wall, l) /\ wall' = Applied(wall, l) /\ revision' = Moved /\ owed' = owed
      /\ l.act = clock + 1 /\ clock' = clock + 1 /\ clock \in Nat /\ clock' \in Nat
  BY DEF EventInv, StoreTypeOK, Memory, StampedChange, Accept, Write
<1>2. Shown = ShownOf(wall) /\ Shown' = ShownOf(Applied(wall, l))
  BY <1>1, ShownIs
<1>3. ASSUME NEW S \in SUBSET Post,
             Shown' = [p \in DOMAIN Shown \cup S |-> IF p \in S THEN l.act ELSE Shown[p]]
      PROVE  Feed!SourceNext
  <2>1. Feed!Activity(S)
    BY <1>1, <1>3 DEF Feed!Activity, Feed!Moved, Moved
  <2> QED
    BY <2>1 DEF Feed!SourceNext
<1>4. CASE l.op = "post"
  <2>1. l.post \in Post
    BY <1>4, LineIs
  <2>2. Shown' = [p \in DOMAIN Shown \cup {l.post} |-> IF p \in {l.post} THEN l.act ELSE Shown[p]]
    BY <1>1, <1>2, <1>4, ShowsPost
  <2> QED
    BY <1>3, <2>1, <2>2
<1>5. CASE l.op \in OnPost
  <2>1. l.post \in Post
    BY <1>5, LineIs
  <2>2. \/ Shown' = [p \in DOMAIN Shown \cup {l.post} |-> IF p \in {l.post} THEN l.act ELSE Shown[p]]
        \/ l.post \in DOMAIN Shown /\ Shown' = [p \in DOMAIN Shown \ {l.post} |-> Shown[p]]
        \/ Shown' = Shown
    BY <1>1, <1>2, <1>5, ShowsChange
  <2>3. CASE Shown' = [p \in DOMAIN Shown \cup {l.post} |-> IF p \in {l.post} THEN l.act ELSE Shown[p]]
    BY <1>3, <2>1, <2>3
  <2>4. CASE l.post \in DOMAIN Shown /\ Shown' = [p \in DOMAIN Shown \ {l.post} |-> Shown[p]]
    <3>1. Feed!Withdraw(l.post)
      BY <1>1, <2>4 DEF Feed!Withdraw, Feed!Moved, Moved
    <3> QED
      BY <2>1, <3>1 DEF Feed!SourceNext
  <2>5. CASE Shown' = Shown
    <3>1. Shown = [p \in DOMAIN Shown |-> Shown[p]]
      BY <1>2 DEF ShownOf
    <3>2. Shown' = [p \in DOMAIN Shown \cup {} |-> IF p \in {} THEN l.act ELSE Shown[p]]
      BY <2>5, <3>1
    <3>3. {} \in SUBSET Post
      OBVIOUS
    <3> QED
      BY <1>3, <3>2, <3>3
  <2> QED
    BY <2>2, <2>3, <2>4, <2>5
<1>6. CASE l.op = "thumb"
  <2>1. PICK S \in SUBSET Post : ShownOf(Applied(wall, l)) =
               [p \in DOMAIN ShownOf(wall) \cup S |-> IF p \in S THEN l.act ELSE ShownOf(wall)[p]]
    BY <1>1, <1>6, ShowsThumb
  <2>2. Shown' = [p \in DOMAIN Shown \cup S |-> IF p \in S THEN l.act ELSE Shown[p]]
    BY <1>2, <2>1, Zenon
  <2> QED
    BY <1>3, <2>2
<1> QED
  BY <1>1, <1>4, <1>5, <1>6, OneKind DEF Valid, StampedChange

LEMMA RefusedFeeds ==
  ASSUME EventInv, NEW l \in Lines, StampedChange(l), Refuse(l)
  PROVE  Feed!SourceNext
<1>1. /\ wall' = wall /\ revision' = revision /\ owed' = owed
      /\ clock' = clock + 1 /\ clock \in Nat /\ clock' \in Nat
  BY DEF EventInv, StoreTypeOK, StampedChange, Refuse, Write
<1>2. Shown' = Shown
  BY <1>1, ShownIs
<1>3. Feed!Refuse
  BY <1>1, <1>2 DEF Feed!Refuse
<1> QED
  BY <1>3 DEF Feed!SourceNext

LEMMA ElsewhereFeeds ==
  ASSUME StoreTypeOK, Journals, dir' \in Party, journal' = journal,
         wall' = Replay(journal[dir']), clock' = LastActivity(wall')
  PROVE  Feed!Elsewhere
<1>1. IsWall(wall') /\ clock' \in Nat /\ Below(wall', clock')
  BY StartedWall
<1>2. /\ \E S \in SUBSET Post : Shown' \in [S -> Nat]
      /\ \A p \in DOMAIN Shown' : Shown'[p] \in 1..clock'
  BY <1>1, ShownIs, ShownFits
<1> QED
  BY <1>1, <1>2 DEF Feed!Elsewhere

LEMMA FeedSteps ==
  EventInv /\ [StoreNext]_storeVars => [Feed!SourceNext]_<<Shown, clock, revision, owed>>
<1> SUFFICES ASSUME EventInv, [StoreNext]_storeVars
             PROVE  Feed!SourceNext \/ UNCHANGED <<Shown, clock, revision, owed>>
  OBVIOUS
<1>1. StoreTypeOK /\ Journals
  BY DEF EventInv
<1>2. wall' = wall => Shown' = Shown
  BY ShownIs
<1>3. CASE Changes
  <2>1. ASSUME NEW l \in Lines, StampedChange(l) PROVE Feed!SourceNext
    <3>1. Accept(l) \/ Refuse(l)
      BY <2>1 DEF StampedChange, Write
    <3> QED
      BY <2>1, <3>1, AcceptedFeeds, RefusedFeeds
  <2>2. ASSUME NEW l \in Lines, TrackChange(l)
        PROVE  Feed!SourceNext \/ UNCHANGED <<Shown, clock, revision, owed>>
    <3>1. /\ l.op \in OnTrack /\ clock' = clock /\ owed' = owed /\ (Accept(l) \/ Refuse(l))
      BY <2>2 DEF TrackChange, Write
    <3>2. CASE Accept(l)
      <4>1. wall' = Applied(wall, l) /\ revision' = Moved
        BY <3>2 DEF Accept
      <4>2. Shown' = Shown
        BY <3>1, <4>1, ShownIs, ShowsTracks DEF EventInv, Memory
      <4>3. Feed!Stir
        BY <3>1, <4>1, <4>2 DEF Feed!Stir, Feed!Moved, Moved
      <4> QED
        BY <4>3 DEF Feed!SourceNext
    <3>3. CASE Refuse(l)
      BY <1>2, <3>1, <3>3 DEF Refuse
    <3> QED
      BY <3>1, <3>2, <3>3
  <2>3. ASSUME FilesOnly PROVE UNCHANGED <<Shown, clock, revision, owed>>
    BY <1>2, <2>3 DEF FilesOnly, memory
  <2> QED
    BY <1>1, <1>3, <2>1, <2>2, <2>3, EveryChange
<1>4. CASE SetJoinURL \/ JoinLooks \/ JoinNames
  BY <1>2, <1>4 DEF SetJoinURL, JoinLooks, JoinNames, memory
<1>5. CASE JoinSwitches
  <2>1. /\ dir' \in Party /\ journal' = journal /\ wall' = Replay(journal[dir'])
        /\ clock' = LastActivity(wall') /\ owed' = TRUE /\ revision' = revision
    BY <1>5 DEF JoinSwitches, disk, Party
  <2>2. Feed!Elsewhere
    BY <1>1, <2>1, ElsewhereFeeds
  <2> QED
    BY <2>1, <2>2 DEF Feed!Switch, Feed!SourceNext
<1>6. CASE JoinAnnounces
  <2>1. owed /\ owed' = FALSE /\ revision' = Moved /\ wall' = wall /\ clock' = clock
    BY <1>6 DEF JoinAnnounces
  <2> QED
    BY <1>2, <2>1 DEF Feed!Announce, Feed!Moved, Moved, Feed!SourceNext
<1>7. CASE JoinNotes
  <2>1. owed' = owed /\ revision' = Moved /\ wall' = wall /\ clock' = clock
    BY <1>7 DEF JoinNotes
  <2> QED
    BY <1>2, <2>1 DEF Feed!Stir, Feed!Moved, Moved, Feed!SourceNext
<1>8. CASE Restart
  <2>1. /\ journal' = journal /\ wall' = Replay(journal[dir']) /\ clock' = LastActivity(wall')
        /\ owed' = FALSE /\ revision' = <<revision[1] + 1, 0>>
    BY <1>8 DEF Restart
  <2>2. dir' \in Party
    BY <1>1, <1>8 DEF Restart, Resumed, StoreTypeOK, Party
  <2>3. Feed!Elsewhere
    BY <1>1, <2>1, <2>2, ElsewhereFeeds
  <2> QED
    BY <2>1, <2>3 DEF Feed!Restart, Feed!SourceNext
<1>9. CASE UNCHANGED storeVars
  BY <1>2, <1>9 DEF storeVars, memory
<1> QED
  BY <1>3, <1>4, <1>5, <1>6, <1>7, <1>8, <1>9 DEF StoreNext, Parties

\* What the store does is what FeedSource promises to those who follow the wall: each
\* handler, refused or not, each stage of JoinParty and each restart is one of its steps.
THEOREM StoreFeeds == StoreSpec => IsFeedSource
<1>1. StoreInit => Feed!SourceInit
  BY FeedStarts
<1>2. EventInv /\ [StoreNext]_storeVars => [Feed!SourceNext]_<<Shown, clock, revision, owed>>
  BY FeedSteps
<1> QED
  BY <1>1, <1>2, StoreInvariant, PTL DEF StoreSpec, IsFeedSource, Feed!SourceSpec

-----------------------------------------------------------------------------
(* The inductive invariant, in named parts.                                *)

\* Every epoch anybody holds was issued.
EpochsIssued ==
  /\ originEpoch <= epochs /\ reply <= epochs
  /\ \A r \in Rooms : room[r].epoch <= epochs

\* A running cycle of the current generation talks to the current target, and
\* from BeginOperation on it does so while enabled.
CycleIsCurrent ==
  /\ cyc.gen <= generation
  /\ pc # "idle" /\ Current => cyc.room = target
  /\ pc \notin {"idle", "begin"} /\ Current => enabled

\* Only a cycle with a room gets past its first step without an error.
CycleHasRoom ==
  /\ pc \notin {"idle", "begin", "master", "note"} => cyc.room # NoRoom
  /\ pc = "note" /\ ~failed => cyc.room # NoRoom

\* Nothing is believed sent to a room that never answered.
FreshTarget == originEpoch = 0 => sent = {} /\ ~pageSent

Holds(R) ==
  /\ item.kind = "media" => item.name \in R.media
  /\ item.kind = "page" => R.page

\* A reply names an incarnation that holds the object, as long as it lives.
ReplyIsTrue ==
  pc \in {"reply", "mark"} =>
    /\ reply # 0
    /\ room[cyc.room].epoch = reply => Holds(room[cyc.room])

MarkFollowsReply == pc = "mark" /\ Current => originEpoch = reply

LoopInv == CycleIsCurrent /\ CycleHasRoom /\ ReplyIsTrue /\ MarkFollowsReply
StoreInv == EpochsIssued /\ FreshTarget /\ SentIsStored /\ PageIsStored

BeliefInv == TypeOK /\ LoopInv /\ StoreInv /\ RunningOnlyWhileSending

-----------------------------------------------------------------------------
\* A playlist lists objects only (mediaNames).
LEMMA ListedObjects == \A h \in 1..MaxHead : Listed(h) \subseteq Objects
  BY BoundsAssumption DEF Listed, Required, Objects, InitSegment

\* A room that was lost, or never made, is a room that holds nothing.
LEMMA AbsentType == Absent \in Room
  BY BoundsAssumption DEF Absent, Room, Objects

\* Whatever putTo is called with is an item.
LEMMA ItemTypes ==
  /\ Nothing \in Item
  /\ \A n \in Objects : [kind |-> "media", name |-> n] \in Item
  /\ \A a \in Assets : [kind |-> "asset", name |-> a] \in Item
  /\ [kind |-> "page", name |-> InitSegment] \in Item
  /\ [kind |-> "playlist", name |-> InitSegment] \in Item
  BY DEF Nothing, Item

\* What is left alone keeps its type.
LEMMA Frames ==
  /\ TypeManager /\ UNCHANGED manager => TypeManager'
  /\ TypeBeliefs /\ UNCHANGED beliefs => TypeBeliefs'
  /\ TypeHealth /\ UNCHANGED health => TypeHealth'
  /\ TypeLoop /\ UNCHANGED <<pc, locals>> => TypeLoop'
  /\ TypeSource /\ UNCHANGED source => TypeSource'
  /\ TypeOrigin /\ UNCHANGED origin => TypeOrigin'
<1>1. TypeManager /\ UNCHANGED manager => TypeManager'
  BY DEF TypeManager, manager
<1>2. TypeBeliefs /\ UNCHANGED beliefs => TypeBeliefs'
  BY DEF TypeBeliefs, beliefs
<1>3. TypeHealth /\ UNCHANGED health => TypeHealth'
  BY DEF TypeHealth, health
<1>4. TypeLoop /\ UNCHANGED <<pc, locals>> => TypeLoop'
  BY DEF TypeLoop, locals
<1>5. TypeSource /\ UNCHANGED source => TypeSource'
  BY DEF TypeSource, source
<1>6. TypeOrigin /\ UNCHANGED origin => TypeOrigin'
  BY DEF TypeOrigin, origin
<1>7. QED
  BY <1>1, <1>2, <1>3, <1>4, <1>5, <1>6

\* So does what is emptied.
LEMMA ResetTypes ==
  /\ ForgetTarget /\ originEpoch' \in Nat => TypeBeliefs'
  /\ failStreak' = 0 /\ running' = FALSE => TypeHealth'
  /\ failStreak' = 0 /\ running' = TRUE => TypeHealth'
<1>1. ForgetTarget => sent' \in SUBSET Objects /\ assetsRev' \in Nat
  BY SMT DEF ForgetTarget
<1>2. ForgetTarget => pageSent' \in BOOLEAN
  BY Zenon DEF ForgetTarget
<1>3. failStreak' = 0 => failStreak' \in 0..(failResetAfter - 1)
  BY SMT DEF failResetAfter
<1>4. (running' = FALSE => running' \in BOOLEAN) /\ (running' = TRUE => running' \in BOOLEAN)
  BY Zenon
<1>5. QED
  BY <1>1, <1>2, <1>3, <1>4 DEF TypeBeliefs, TypeHealth

\* The ways a step of the cycle ends keep its locals well typed.
LEMMA LoopMoves ==
  ASSUME TypeLoop
  PROVE  /\ Retire => TypeLoop'
         /\ Fail => TypeLoop'
         /\ \A label \in Labels : Goto(label) => TypeLoop'
         /\ \A it \in Item : StartPut(it) => TypeLoop'
<1>1. Retire => TypeLoop'
  <2>1. Idle \in Cycle
    BY DEF Idle, Cycle
  <2>2. 0 \in 0..MaxHead
    BY BoundsAssumption
  <2>3. Retire => failed' \in BOOLEAN
    BY Zenon DEF Retire, ClearLocals
  <2>4. Retire =>
          /\ pc' \in Labels /\ cyc' \in Cycle /\ snap' \in 0..MaxHead
          /\ todo' \in SUBSET (Objects \union Assets)
          /\ fingerprint' \in Nat /\ bodyRev' \in Nat /\ item' \in Item /\ reply' \in Nat
    BY <2>1, <2>2, ItemTypes DEF Retire, ClearLocals, Labels
  <2>5. QED
    BY <2>3, <2>4 DEF TypeLoop
<1>2. Fail => TypeLoop'
  BY DEF TypeLoop, Fail, Labels
<1>3. \A label \in Labels : Goto(label) => TypeLoop'
  BY DEF TypeLoop, Goto
<1>4. \A it \in Item : StartPut(it) => TypeLoop'
  BY <1>1 DEF TypeLoop, StartPut, Labels
<1>5. QED
  BY <1>1, <1>2, <1>3, <1>4

\* An accepted upload leaves well-typed rooms behind and answers with an epoch.
LEMMA AcceptedType ==
  ASSUME TypeOrigin, TypeLoop, OriginAccepts
  PROVE  TypeOrigin' /\ Incarnation(cyc.room).epoch \in Nat
<1>1. cyc.room \in Rooms
  BY DEF OriginAccepts, TypeLoop, Cycle
<1>2. Incarnation(cyc.room) \in Room
  <2>1. [Absent EXCEPT !.epoch = epochs + 1] \in Room
    <3>1. epochs + 1 \in Nat
      BY DEF TypeOrigin
    <3>2. QED
      BY <3>1, AbsentType DEF Room
  <2>2. room[cyc.room] \in Room
    BY <1>1 DEF TypeOrigin
  <2>3. QED
    BY <2>1, <2>2 DEF Incarnation
<1>3. ASSUME NEW R \in Room PROVE Stored(R) \in Room
  <2>1. item.kind = "media" => item.name \in Objects
    BY DEF TypeLoop, Item
  <2>2. [R EXCEPT !.page = TRUE] \in Room
    BY DEF Room
  <2>3. [R EXCEPT !.assets[item.name] = bodyRev] \in Room
    BY DEF Room, TypeLoop
  <2>4. snap \in Nat
    BY BoundsAssumption DEF TypeLoop
  <2>5. [R EXCEPT !.playlist = snap] \in Room
    BY <2>4 DEF Room
  <2>6. item.kind = "media" => [R EXCEPT !.media = @ \union {item.name}] \in Room
    BY <2>1 DEF Room
  <2>7. QED
    BY <2>2, <2>3, <2>5, <2>6 DEF Stored
<1>4. QED
  BY <1>1, <1>2, <1>3 DEF OriginAccepts, TypeOrigin, Room

\* Losing rooms keeps the types.
LEMMA LoseType ==
  ASSUME TypeOK, NEW S, Lose(S)
  PROVE  TypeOK'
<1>1. TypeOrigin'
  BY AbsentType DEF Lose, TypeOK, TypeOrigin
<1>2. QED
  BY <1>1, Frames DEF Lose, TypeOK

\* New and NewStore build well-typed states.
LEMMA InitType == Init => TypeOK
<1> SUFFICES ASSUME Init PROVE TypeOK
  OBVIOUS
<1>1. TypeManager
  BY DEF Init, TypeManager
<1>2. TypeBeliefs
  BY DEF Init, TypeBeliefs
<1>3. TypeHealth
  <2>1. running \in BOOLEAN
    BY Zenon DEF Init
  <2>2. failStreak \in 0..(failResetAfter - 1)
    BY DEF Init, failResetAfter
  <2>3. QED
    BY <2>1, <2>2 DEF TypeHealth
<1>4. TypeLoop
  <2>1. Idle \in Cycle
    BY DEF Idle, Cycle
  <2>2. 0 \in 0..MaxHead
    BY BoundsAssumption
  <2>3. failed \in BOOLEAN
    BY Zenon DEF Init
  <2>4. QED
    BY <2>1, <2>2, <2>3, ItemTypes DEF Init, TypeLoop, Labels
<1>5. TypeSource
  BY BoundsAssumption DEF Init, TypeSource
<1>6. TypeOrigin
  BY AbsentType DEF Init, TypeOrigin
<1>7. QED
  BY <1>1, <1>2, <1>3, <1>4, <1>5, <1>6 DEF Init, TypeOK

-----------------------------------------------------------------------------
(* TypeOK is preserved by every step.                                      *)

\* Every lock section and every exchange of the loop keeps the types.
LEMMA TypeStep == TypeOK /\ [Next]_vars => TypeOK'
<1> SUFFICES ASSUME TypeOK, [Next]_vars PROVE TypeOK'
  OBVIOUS
<1> USE Frames, LoopMoves, ResetTypes DEF TypeOK, Labels, Fault
<1>1. CASE Resolve
  <2>1. kept' \in BOOLEAN
    BY <1>1, Zenon DEF Resolve
  <2>2. TypeOrigin'
    BY <1>1, <2>1 DEF Resolve, TypeOrigin
  <2>3. QED
    BY <1>1, <2>2 DEF Resolve, TypeLoop, TypeManager, Cycle
<1>2. CASE BeginOperation
  BY <1>2 DEF BeginOperation
<1>3. CASE NoOrigin
  BY <1>3 DEF NoOrigin
<1>4. CASE FetchMaster
  BY <1>4 DEF FetchMaster, TypeSource
<1>5. CASE FetchPlaylist
  BY <1>5, ListedObjects, BoundsAssumption DEF FetchPlaylist, TypeLoop, TypeSource
<1>6. CASE MediaDone
  BY <1>6 DEF MediaDone
<1>7. CASE UploadPage
  BY <1>7, ItemTypes DEF UploadPage
<1>8. CASE CheckAssets
  BY <1>8 DEF CheckAssets, TypeLoop, TypeSource
<1>9. CASE ReadAssets
  BY <1>9 DEF ReadAssets, TypeLoop, TypeSource
<1>10. CASE AssetsDone
  BY <1>10 DEF AssetsDone, TypeLoop, TypeBeliefs
<1>11. CASE UploadPlaylist
  BY <1>11, ItemTypes DEF UploadPlaylist
<1>12. CASE OriginAccepts
  <2>1. TypeOrigin' /\ Incarnation(cyc.room).epoch \in Nat
    BY <1>12, AcceptedType DEF OriginAccepts, TypeLoop
  <2>2. TypeLoop'
    BY <1>12, <2>1 DEF OriginAccepts, TypeLoop
  <2>3. QED
    BY <1>12, <2>1, <2>2 DEF OriginAccepts
<1>13. CASE ObserveEpoch
  <2>1. TypeLoop'
    BY <1>13 DEF ObserveEpoch
  <2>2. TypeBeliefs'
    <3>1. CASE UNCHANGED beliefs
      BY <3>1
    <3>2. CASE originEpoch' = reply /\ UNCHANGED <<sent, pageSent, assetsRev>>
      BY <3>2 DEF TypeBeliefs, TypeLoop
    <3>3. CASE originEpoch' = reply /\ ForgetTarget
      BY <3>3 DEF TypeLoop
    <3>4. QED
      BY <1>13, <3>1, <3>2, <3>3 DEF ObserveEpoch
  <2>3. QED
    BY <1>13, <2>1, <2>2 DEF ObserveEpoch
<1>14. CASE MarkSent
  <2>1. CASE ~Current
    BY <1>14, <2>1 DEF MarkSent, TypeBeliefs, origin
  <2>2. CASE Current
    <3>1. TypeLoop'
      BY <1>14, <2>2, ItemTypes DEF MarkSent, TypeLoop
    <3>2. item.kind = "media" => item.name \in Objects
      BY DEF TypeLoop, Item
    <3>3. TypeBeliefs'
      BY <1>14, <2>2, <3>2 DEF MarkSent, TypeBeliefs
    <3>4. TypeOrigin'
      <4>1. pushed' = [a \in Assets |-> IF item.kind = "asset" /\ a = item.name THEN reply ELSE pushed[a]]
        BY <1>14, <2>2 DEF MarkSent
      <4>2. pushed' \in [Assets -> Nat]
        BY <4>1 DEF TypeOrigin, TypeLoop
      <4>3. QED
        BY <1>14, <4>2 DEF MarkSent, TypeOrigin
    <3>5. QED
      BY <1>14, <2>2, <3>1, <3>3, <3>4 DEF MarkSent
  <2>3. QED
    BY <2>1, <2>2
<1>15. CASE NoteSuccess
  BY <1>15 DEF NoteSuccess
<1>16. CASE NoteFailure
  <2>1. TypeLoop' /\ TypeManager' /\ TypeOrigin' /\ faults' \in Nat
    BY <1>16 DEF NoteFailure
  <2>2. TypeBeliefs'
    <3>1. CASE UNCHANGED beliefs
      BY <3>1
    <3>2. CASE UNCHANGED originEpoch /\ ForgetTarget
      BY <3>2 DEF TypeBeliefs
    <3>3. QED
      BY <1>16, <3>1, <3>2 DEF NoteFailure, ResetSession, beliefs
  <2>3. TypeHealth'
    <3>1. CASE UNCHANGED health
      BY <3>1
    <3>2. CASE running' = FALSE /\ failStreak' = 0
      BY <3>2
    <3>3. CASE running' = FALSE /\ failStreak' = failStreak + 1 /\ ~(failStreak + 1 >= failResetAfter)
      <4>1. failStreak' \in 0..(failResetAfter - 1)
        BY <3>3 DEF TypeHealth, failResetAfter
      <4>2. running' \in BOOLEAN
        BY <3>3, Zenon
      <4>3. QED
        BY <4>1, <4>2 DEF TypeHealth
    <3>4. QED
      BY <1>16, <3>1, <3>2, <3>3 DEF NoteFailure, ResetDue, ResetSession
  <2>4. TypeSource' /\ variant' \in BOOLEAN
    BY <1>16 DEF NoteFailure, ResetSession, TypeSource
  <2>5. QED
    BY <2>1, <2>2, <2>3, <2>4
<1>17. CASE Cancelled
  BY <1>17 DEF Cancelled
<1>18. CASE FetchFails
  BY <1>18 DEF FetchFails
<1>19. CASE PutFails
  BY <1>19 DEF PutFails
<1>20. CASE Advance
  BY <1>20, BoundsAssumption DEF Advance, TypeSource
<1>21. CASE ChangeAssets
  BY <1>21 DEF ChangeAssets, TypeSource
<1>22. CASE MuxerReload
  BY <1>22 DEF MuxerReload, TypeSource
<1>23. CASE OriginRestart
  BY <1>23, LoseType DEF OriginRestart
<1>24. ASSUME NEW n \in Objects, UploadMedia(n) PROVE TypeOK'
  BY <1>24, ItemTypes DEF UploadMedia, TypeLoop
<1>25. ASSUME NEW n \in Objects, MediaUnreadable(n) PROVE TypeOK'
  BY <1>25, ItemTypes DEF MediaUnreadable, TypeLoop
<1>26. ASSUME NEW a \in Assets, UploadAsset(a) PROVE TypeOK'
  BY <1>26, ItemTypes DEF UploadAsset
<1>27. ASSUME NEW on \in BOOLEAN, SetEnabled(on) PROVE TypeOK'
  <2>1. TypeManager'
    BY <1>27 DEF SetEnabled, TypeManager, Invalidate
  <2>2. TypeBeliefs' /\ variant' \in BOOLEAN
    <3>1. CASE on
      BY <1>27, <3>1 DEF SetEnabled, TypeBeliefs
    <3>2. CASE ~on
      <4>1. variant' \in BOOLEAN
        BY <1>27, <3>2, Zenon DEF SetEnabled
      <4>2. originEpoch' \in Nat /\ ForgetTarget
        BY <1>27, <3>2 DEF SetEnabled, TypeBeliefs
      <4>3. QED
        BY <4>1, <4>2
    <3>3. QED
      BY <3>1, <3>2
  <2>3. TypeHealth'
    BY <1>27 DEF SetEnabled, health
  <2>4. QED
    BY <1>27, <2>1, <2>2, <2>3 DEF SetEnabled
<1>28. ASSUME NEW t \in Rooms \union {NoRoom}, SetTarget(t) PROVE TypeOK'
  <2>1. TypeManager'
    BY <1>28 DEF SetTarget, TypeManager, Invalidate
  <2>2. TypeBeliefs'
    BY <1>28 DEF SetTarget, TypeBeliefs, ForgetTarget
  <2>3. TypeHealth'
    BY <1>28 DEF SetTarget
  <2>4. QED
    BY <1>28, <2>1, <2>2, <2>3 DEF SetTarget
<1>29. ASSUME NEW r \in Rooms, Sweep(r) PROVE TypeOK'
  BY <1>29, LoseType DEF Sweep
<1>30. CASE UNCHANGED vars
  BY <1>30 DEF vars
<1>31. QED
  BY <1>1, <1>2, <1>3, <1>4, <1>5, <1>6, <1>7, <1>8, <1>9, <1>10, <1>11, <1>12, <1>13, <1>14, <1>15, <1>16, <1>17, <1>18, <1>19, <1>20, <1>21, <1>22, <1>23, <1>24, <1>25, <1>26, <1>27, <1>28, <1>29, <1>30 DEF Next, Loop

-----------------------------------------------------------------------------
(* BeliefInv is preserved by every step.                                   *)

\* A step that touches neither the manager nor the origin.
LEMMA Quiet ==
  ASSUME BeliefInv, UNCHANGED <<manager, beliefs, health, origin>>, reply' \in {0, reply}
  PROVE  StoreInv' /\ RunningOnlyWhileSending'
<1> USE DEF BeliefInv, StoreInv, TypeOK, manager, beliefs, health, origin
<1>1. EpochsIssued'
  BY DEF EpochsIssued, TypeOrigin
<1>2. FreshTarget'
  BY DEF FreshTarget
<1>3. Known' <=> Known
  BY DEF Known
<1>4. SentIsStored' /\ PageIsStored'
  BY <1>3 DEF SentIsStored, PageIsStored
<1>5. RunningOnlyWhileSending'
  BY DEF RunningOnlyWhileSending
<1>6. QED
  BY <1>1, <1>2, <1>4, <1>5

\* The moves of the loop that neither start nor answer an upload.
LEMMA QuietMoves ==
  ASSUME BeliefInv, UNCHANGED <<manager>>
  PROVE  /\ Retire => LoopInv' /\ reply' = 0
         /\ Fail /\ pc \notin {"idle", "begin"} => LoopInv' /\ reply' = reply
         /\ /\ pc \notin {"idle", "begin"} /\ cyc.room # NoRoom /\ UNCHANGED cyc
            /\ pc' \in Labels \ {"idle", "begin", "reply", "mark", "note"}
            => LoopInv'
<1> USE DEF BeliefInv, LoopInv, TypeOK, TypeManager, manager, Current
<1>1. Retire => LoopInv' /\ reply' = 0
  BY DEF Retire, ClearLocals, Idle, CycleIsCurrent, CycleHasRoom, ReplyIsTrue, MarkFollowsReply
<1>2. Fail /\ pc \notin {"idle", "begin"} => LoopInv' /\ reply' = reply
  BY DEF Fail, CycleIsCurrent, CycleHasRoom, ReplyIsTrue, MarkFollowsReply
<1>3. /\ pc \notin {"idle", "begin"} /\ cyc.room # NoRoom /\ UNCHANGED cyc
      /\ pc' \in Labels \ {"idle", "begin", "reply", "mark", "note"}
      => LoopInv'
  BY DEF CycleIsCurrent, CycleHasRoom, ReplyIsTrue, MarkFollowsReply
<1>4. QED
  BY <1>1, <1>2, <1>3

\* A step of the muxer or of the page's assets.
LEMMA Still ==
  ASSUME BeliefInv, UNCHANGED <<manager, beliefs, health, pc, locals, origin>>
  PROVE  LoopInv' /\ StoreInv' /\ RunningOnlyWhileSending'
<1>1. LoopInv'
  BY DEF BeliefInv, LoopInv, CycleIsCurrent, CycleHasRoom, ReplyIsTrue, MarkFollowsReply,
     Holds, Current, manager, beliefs, locals, origin
<1>2. QED
  BY <1>1, Quiet DEF locals

\* Storing an object keeps the incarnation and everything it held.
LEMMA StoredKeeps ==
  ASSUME TypeOK, NEW R \in Room
  PROVE  /\ Stored(R).epoch = R.epoch
         /\ R.media \subseteq Stored(R).media /\ (R.page => Stored(R).page)
         /\ Holds(Stored(R))
<1>1. item.kind \in {"none", "media", "page", "asset", "playlist"}
  BY DEF TypeOK, TypeLoop, Item
<1>2. QED
  BY <1>1 DEF Stored, Holds, Room

\* An upload stored by the origin, in a room that may be a new incarnation.
LEMMA AcceptsKeeps ==
  ASSUME BeliefInv, OriginAccepts
  PROVE  LoopInv' /\ StoreInv' /\ RunningOnlyWhileSending'
<1> DEFINE r == cyc.room
           I == Incarnation(r)
<1>1. /\ r \in Rooms /\ room \in [Rooms -> Room] /\ room[r] \in Room
      /\ epochs \in Nat /\ originEpoch \in Nat /\ TypeOK /\ TypeOrigin
  BY DEF OriginAccepts, BeliefInv, TypeOK, TypeLoop, TypeOrigin, TypeBeliefs, Cycle
<1>2. I \in Room
  <2>1. [Absent EXCEPT !.epoch = epochs + 1] \in Room
    BY <1>1, AbsentType DEF Room
  <2>2. QED
    BY <1>1, <2>1 DEF Incarnation
<1>3. /\ I.epoch # 0
      /\ room[r].epoch = 0 => I.epoch = epochs + 1
      /\ room[r].epoch # 0 => I = room[r]
  BY <1>1 DEF Incarnation, Absent, Room
<1>4. /\ room' = [room EXCEPT ![r] = Stored(I)] /\ reply' = I.epoch /\ pc' = "reply"
      /\ epochs' = IF room[r].epoch = 0 THEN epochs + 1 ELSE epochs
      /\ UNCHANGED <<manager, beliefs, health, cyc, item, failed>>
  BY DEF OriginAccepts
<1>5. room'[r] = Stored(I) /\ \A s \in Rooms \ {r} : room'[s] = room[s]
  BY <1>1, <1>4
<1>6. LoopInv'
  <2>1. CycleIsCurrent' /\ CycleHasRoom' /\ MarkFollowsReply'
    BY <1>4 DEF OriginAccepts, BeliefInv, LoopInv, CycleIsCurrent, CycleHasRoom, MarkFollowsReply,
       Current, manager
  <2>2. Holds(room'[r])
    BY <1>1, <1>2, <1>5, StoredKeeps
  <2>3. ReplyIsTrue'
    BY <1>3, <1>4, <2>2 DEF ReplyIsTrue, Holds
  <2>4. QED
    BY <2>1, <2>3 DEF LoopInv
<1>7. EpochsIssued'
  <2>1. I.epoch <= epochs' /\ epochs <= epochs'
    BY <1>1, <1>3, <1>4 DEF BeliefInv, StoreInv, EpochsIssued
  <2>2. room'[r].epoch = I.epoch
    BY <1>1, <1>2, <1>5, StoredKeeps
  <2>3. \A s \in Rooms : room[s].epoch \in Nat
    BY <1>1 DEF Room
  <2>4. \A s \in Rooms : room'[s].epoch <= epochs'
    BY <1>1, <1>4, <1>5, <2>1, <2>2, <2>3 DEF BeliefInv, StoreInv, EpochsIssued
  <2>5. QED
    BY <1>1, <1>4, <2>1, <2>4 DEF BeliefInv, StoreInv, EpochsIssued, beliefs
<1>8. Known' => Known /\ room[target].media \subseteq room'[target].media
                      /\ (room[target].page => room'[target].page)
  <2> SUFFICES ASSUME Known'
               PROVE  Known /\ room[target].media \subseteq room'[target].media
                            /\ (room[target].page => room'[target].page)
    OBVIOUS
  <2>1. target \in Rooms /\ target' = target /\ originEpoch' = originEpoch
    BY <1>4 DEF Known, BeliefInv, TypeOK, TypeManager, manager, beliefs
  <2>2. CASE target # r
    BY <1>5, <2>1, <2>2 DEF Known
  <2>3. CASE target = r /\ room[r].epoch = 0
    BY <1>1, <1>2, <1>3, <1>5, <2>1, <2>3, StoredKeeps DEF Known, BeliefInv, StoreInv, EpochsIssued
  <2>4. CASE target = r /\ room[r].epoch # 0
    BY <1>1, <1>2, <1>3, <1>5, <2>1, <2>4, StoredKeeps DEF Known
  <2>5. QED
    BY <2>2, <2>3, <2>4
<1>9. SentIsStored' /\ PageIsStored' /\ FreshTarget' /\ RunningOnlyWhileSending'
  BY <1>4, <1>8 DEF BeliefInv, StoreInv, SentIsStored, PageIsStored, FreshTarget,
     RunningOnlyWhileSending, manager, beliefs, health
<1>10. QED
  BY <1>6, <1>7, <1>9 DEF StoreInv

\* observeEpochAt: a reply of a new incarnation empties the beliefs.
LEMMA ObserveKeeps ==
  ASSUME BeliefInv, ObserveEpoch
  PROVE  LoopInv' /\ StoreInv' /\ RunningOnlyWhileSending'
<1>1. CASE ~Current
  BY <1>1, Quiet, QuietMoves DEF ObserveEpoch
<1>2. CASE Current
  <2>1. /\ pc = "reply" /\ pc' = "mark" /\ originEpoch' = reply
        /\ \/ originEpoch \in {0, reply} /\ UNCHANGED <<sent, pageSent>>
           \/ sent' = {} /\ pageSent' = FALSE
        /\ UNCHANGED <<manager, health, origin, cyc, item, reply, failed>>
    BY <1>2 DEF ObserveEpoch, Goto, ForgetTarget
  <2>2. LoopInv'
    BY <2>1, <1>2 DEF BeliefInv, LoopInv, CycleIsCurrent, CycleHasRoom, ReplyIsTrue, Holds,
       MarkFollowsReply, Current, manager, origin
  <2>3. EpochsIssued' /\ FreshTarget'
    BY <2>1 DEF BeliefInv, LoopInv, StoreInv, EpochsIssued, FreshTarget, ReplyIsTrue, origin
  <2>4. SentIsStored' /\ PageIsStored'
    <3>1. CASE sent' = {} /\ pageSent' = FALSE
      BY <3>1 DEF SentIsStored, PageIsStored
    <3>2. CASE originEpoch = 0 /\ UNCHANGED <<sent, pageSent>>
      BY <3>2 DEF BeliefInv, StoreInv, FreshTarget, SentIsStored, PageIsStored
    <3>3. CASE originEpoch = reply /\ UNCHANGED <<sent, pageSent>>
      BY <2>1, <3>3 DEF BeliefInv, StoreInv, SentIsStored, PageIsStored, Known, manager, origin
    <3>4. QED
      BY <2>1, <3>1, <3>2, <3>3
  <2>5. RunningOnlyWhileSending'
    BY <2>1 DEF BeliefInv, RunningOnlyWhileSending, manager, health
  <2>6. QED
    BY <2>2, <2>3, <2>4, <2>5 DEF StoreInv
<1>3. QED
  BY <1>1, <1>2

\* Marking an object as sent, after its reply was accepted as current.
LEMMA MarkKeeps ==
  ASSUME BeliefInv, MarkSent
  PROVE  LoopInv' /\ StoreInv' /\ RunningOnlyWhileSending'
<1>1. CASE ~Current
  BY <1>1, Quiet, QuietMoves DEF MarkSent, beliefs, origin
<1>2. CASE Current
  <2>1. /\ pc = "mark" /\ pc' \in {"media", "assets", "asset", "note"} /\ reply' = 0
        /\ UNCHANGED <<manager, originEpoch, health, room, epochs, cyc, failed>>
    BY <1>2 DEF MarkSent
  <2>2. /\ sent' \subseteq IF item.kind = "media" THEN sent \union {item.name} ELSE sent
        /\ pageSent' => pageSent \/ item.kind = "page"
    BY <1>2 DEF MarkSent
  <2>3. cyc.room = target /\ originEpoch = reply /\ originEpoch # 0 /\ cyc.room # NoRoom
    BY <1>2, <2>1 DEF BeliefInv, LoopInv, CycleIsCurrent, CycleHasRoom, ReplyIsTrue, MarkFollowsReply
  <2>4. LoopInv'
    BY <2>1, <2>3 DEF BeliefInv, LoopInv, CycleIsCurrent, CycleHasRoom, ReplyIsTrue,
       MarkFollowsReply, Current, manager
  <2>5. EpochsIssued' /\ FreshTarget' /\ RunningOnlyWhileSending'
    BY <2>1, <2>3 DEF BeliefInv, StoreInv, EpochsIssued, FreshTarget, RunningOnlyWhileSending,
       TypeOK, TypeOrigin, manager, health, origin
  <2>6. Known => Holds(room[target])
    BY <2>1, <2>3 DEF BeliefInv, LoopInv, ReplyIsTrue, Known
  <2>7. Known' <=> Known
    BY <2>1 DEF Known, manager, origin
  <2>8. SentIsStored' /\ PageIsStored'
    BY <2>1, <2>2, <2>6, <2>7 DEF BeliefInv, StoreInv, SentIsStored, PageIsStored, Holds,
       manager, origin
  <2>9. QED
    BY <2>4, <2>5, <2>8 DEF StoreInv
<1>3. QED
  BY <1>1, <1>2

\* recordCycle, with and without the session reset.
LEMMA NoteKeeps ==
  ASSUME BeliefInv, NoteSuccess \/ NoteFailure
  PROVE  LoopInv' /\ StoreInv' /\ RunningOnlyWhileSending'
<1>1. LoopInv' /\ reply' = 0
  BY QuietMoves DEF NoteSuccess, NoteFailure
<1>2. StoreInv'
  <2>1. /\ UNCHANGED <<manager, originEpoch, origin>>
        /\ sent' \subseteq sent /\ (pageSent' => pageSent)
    <3>1. CASE NoteSuccess
      BY <3>1 DEF NoteSuccess, beliefs
    <3>2. CASE NoteFailure
      BY <3>2 DEF NoteFailure, ResetSession, ForgetTarget, beliefs
    <3>3. QED
      BY <3>1, <3>2
  <2>2. EpochsIssued' /\ FreshTarget'
    BY <1>1, <2>1 DEF BeliefInv, StoreInv, EpochsIssued, FreshTarget, TypeOK, TypeOrigin, origin
  <2>3. Known' <=> Known
    BY <2>1 DEF Known, manager, origin
  <2>4. SentIsStored' /\ PageIsStored'
    BY <2>1, <2>3 DEF BeliefInv, StoreInv, SentIsStored, PageIsStored, manager, origin
  <2>5. QED
    BY <2>2, <2>4 DEF StoreInv
<1>3. RunningOnlyWhileSending'
  <2>1. CASE NoteFailure
    BY <2>1 DEF NoteFailure, BeliefInv, RunningOnlyWhileSending, manager, health
  <2>2. CASE NoteSuccess
    BY <2>2 DEF NoteSuccess, BeliefInv, LoopInv, CycleIsCurrent, CycleHasRoom,
       RunningOnlyWhileSending, manager, health
  <2>3. QED
    BY <2>1, <2>2
<1>4. QED
  BY <1>1, <1>2, <1>3

\* A restart or a sweep: the beliefs are about no living incarnation then.
LEMMA LoseKeeps ==
  ASSUME BeliefInv, NEW S, Lose(S)
  PROVE  LoopInv' /\ StoreInv' /\ RunningOnlyWhileSending'
<1>1. /\ UNCHANGED <<manager, beliefs, health, pc, locals, epochs>>
      /\ \A r \in Rooms : room'[r] = Absent \/ room'[r] = room[r]
  BY DEF Lose
<1>2. Absent.epoch = 0
  BY DEF Absent
<1>3. Known' => Known /\ room'[target] = room[target]
  BY <1>1, <1>2 DEF Known, BeliefInv, TypeOK, TypeManager, manager, beliefs
<1>4. StoreInv' /\ RunningOnlyWhileSending'
  BY <1>1, <1>2, <1>3 DEF BeliefInv, StoreInv, EpochsIssued, FreshTarget, SentIsStored,
     PageIsStored, RunningOnlyWhileSending, TypeOK, TypeOrigin, manager, beliefs, health, locals
<1>5. ReplyIsTrue'
  <2>1. pc \in {"reply", "mark"} => cyc.room \in Rooms
    BY DEF BeliefInv, LoopInv, CycleHasRoom, TypeOK, TypeLoop, Cycle
  <2>2. QED
    BY <1>1, <1>2, <2>1 DEF BeliefInv, LoopInv, ReplyIsTrue, Holds, locals
<1>6. QED
  BY <1>1, <1>4, <1>5 DEF BeliefInv, LoopInv, CycleIsCurrent, CycleHasRoom, MarkFollowsReply,
     Current, manager, beliefs, locals

\* A change of generation: no cycle is current any more.
LEMMA NewGeneration ==
  ASSUME BeliefInv, Invalidate, UNCHANGED <<pc, locals, origin>>
  PROVE  LoopInv'
<1>1. ~Current' /\ cyc'.gen <= generation'
  BY DEF BeliefInv, LoopInv, CycleIsCurrent, Current, Invalidate, locals, TypeOK, TypeManager,
     TypeLoop, Cycle
<1>2. QED
  BY <1>1 DEF BeliefInv, LoopInv, CycleIsCurrent, CycleHasRoom, ReplyIsTrue, MarkFollowsReply,
     Holds, locals, origin

\* SetEnabled.
LEMMA EnableKeeps ==
  ASSUME BeliefInv, NEW on \in BOOLEAN, SetEnabled(on)
  PROVE  LoopInv' /\ StoreInv' /\ RunningOnlyWhileSending'
<1>1. LoopInv'
  BY NewGeneration DEF SetEnabled
<1>2. /\ UNCHANGED <<target, originEpoch, locals, origin>>
      /\ sent' \subseteq sent /\ (pageSent' => pageSent)
  <2>1. CASE on
    BY <2>1 DEF SetEnabled
  <2>2. CASE ~on
    BY <2>2 DEF SetEnabled, ForgetTarget
  <2>3. QED
    BY <2>1, <2>2
<1>3. EpochsIssued' /\ FreshTarget'
  BY <1>2 DEF BeliefInv, StoreInv, EpochsIssued, FreshTarget, locals, origin
<1>4. Known' <=> Known
  BY <1>2 DEF Known, origin
<1>5. SentIsStored' /\ PageIsStored'
  BY <1>2, <1>4 DEF BeliefInv, StoreInv, SentIsStored, PageIsStored, origin
<1>6. RunningOnlyWhileSending'
  BY DEF SetEnabled, BeliefInv, RunningOnlyWhileSending
<1>7. QED
  BY <1>1, <1>3, <1>5, <1>6 DEF StoreInv

\* SetTarget.
LEMMA TargetKeeps ==
  ASSUME BeliefInv, NEW t, SetTarget(t)
  PROVE  LoopInv' /\ StoreInv' /\ RunningOnlyWhileSending'
<1>1. LoopInv'
  BY NewGeneration DEF SetTarget
<1>2. originEpoch' = 0 /\ sent' = {} /\ pageSent' = FALSE /\ running' = FALSE
      /\ UNCHANGED <<locals, origin>>
  BY DEF SetTarget, ForgetTarget
<1>3. QED
  BY <1>1, <1>2 DEF BeliefInv, StoreInv, EpochsIssued, FreshTarget, SentIsStored, PageIsStored,
     RunningOnlyWhileSending, locals, origin, TypeOK, TypeOrigin

\* One case per action; the uploads and the lifecycle have lemmas of their own.
LEMMA BeliefStep == BeliefInv /\ [Next]_vars => BeliefInv'
<1> SUFFICES ASSUME BeliefInv, [Next]_vars PROVE BeliefInv'
  OBVIOUS
<1>t. TypeOK'
  BY TypeStep DEF BeliefInv
<1>r. pc \notin {"idle", "begin", "master", "note"} => cyc.room # NoRoom
  BY DEF BeliefInv, LoopInv, CycleHasRoom
<1> SUFFICES LoopInv' /\ StoreInv' /\ RunningOnlyWhileSending'
  BY <1>t DEF BeliefInv
<1> USE Quiet, QuietMoves
<1>1. CASE Resolve
  <2>1. LoopInv'
    BY <1>1, <1>t DEF Resolve, LoopInv, CycleIsCurrent, CycleHasRoom, ReplyIsTrue,
       MarkFollowsReply, Current, manager, TypeOK, TypeManager
  <2>2. StoreInv'
    BY <1>1 DEF Resolve, manager, beliefs, BeliefInv, StoreInv, EpochsIssued, FreshTarget,
       SentIsStored, PageIsStored, Known
  <2>3. RunningOnlyWhileSending'
    BY <1>1 DEF Resolve, manager, health, BeliefInv, RunningOnlyWhileSending
  <2>4. QED
    BY <2>1, <2>2, <2>3
<1>2. CASE BeginOperation
  <2>1. CASE ~(enabled /\ Current)
    BY <1>2, <2>1 DEF BeginOperation
  <2>2. CASE enabled /\ Current
    <3>1. LoopInv'
      BY <1>2, <2>2 DEF BeginOperation, Goto, BeliefInv, LoopInv, CycleIsCurrent, CycleHasRoom,
         ReplyIsTrue, MarkFollowsReply, Current, manager
    <3>2. QED
      BY <1>2, <2>2, <3>1 DEF BeginOperation, Goto
  <2>3. QED
    BY <2>1, <2>2
<1>3. CASE NoOrigin
  BY <1>3, <1>r DEF NoOrigin, Goto, StartPut, Labels
<1>4. CASE FetchMaster
  BY <1>4, <1>r DEF FetchMaster, Goto, StartPut, Labels
<1>5. CASE FetchPlaylist
  BY <1>5, <1>r DEF FetchPlaylist, Goto, StartPut, Labels
<1>6. CASE MediaDone
  BY <1>6, <1>r DEF MediaDone, Goto, StartPut, Labels
<1>7. CASE UploadPage
  BY <1>7, <1>r DEF UploadPage, Goto, StartPut, Labels
<1>8. CASE CheckAssets
  BY <1>8, <1>r DEF CheckAssets, Goto, StartPut, Labels
<1>9. CASE ReadAssets
  BY <1>9, <1>r DEF ReadAssets, Goto, StartPut, Labels
<1>10. CASE UploadPlaylist
  BY <1>10, <1>r DEF UploadPlaylist, Goto, StartPut, Labels
<1>11. CASE Cancelled
  BY <1>11, <1>r DEF Cancelled, Goto, StartPut, Labels
<1>12. CASE FetchFails
  BY <1>12, <1>r DEF FetchFails, Goto, StartPut, Labels
<1>13. CASE PutFails
  BY <1>13, <1>r DEF PutFails, Goto, StartPut, Labels
<1>14. ASSUME NEW n \in Objects, UploadMedia(n) PROVE LoopInv' /\ StoreInv' /\ RunningOnlyWhileSending'
  BY <1>14, <1>r DEF UploadMedia, StartPut, Labels
<1>15. ASSUME NEW n \in Objects, MediaUnreadable(n) PROVE LoopInv' /\ StoreInv' /\ RunningOnlyWhileSending'
  BY <1>15, <1>r DEF MediaUnreadable, StartPut, Labels
<1>16. ASSUME NEW a \in Assets, UploadAsset(a) PROVE LoopInv' /\ StoreInv' /\ RunningOnlyWhileSending'
  BY <1>16, <1>r DEF UploadAsset, StartPut, Labels
<1>17. CASE Advance
  BY <1>17, Still DEF Advance
<1>18. CASE ChangeAssets
  BY <1>18, Still DEF ChangeAssets
<1>19. CASE MuxerReload
  BY <1>19, Still DEF MuxerReload
<1>20. CASE UNCHANGED vars
  BY <1>20, Still DEF vars
<1>21. CASE AssetsDone
  <2>1. CASE ~Current
    BY <1>21, <2>1 DEF AssetsDone, beliefs
  <2>2. CASE Current
    <3>1. LoopInv'
      BY <1>21, <2>2, <1>r DEF AssetsDone, Goto, Labels
    <3>2. StoreInv' /\ RunningOnlyWhileSending'
      BY <1>21, <2>2 DEF AssetsDone, Goto, BeliefInv, StoreInv, EpochsIssued, FreshTarget, Known,
         SentIsStored, PageIsStored, RunningOnlyWhileSending, manager, health, origin
    <3>3. QED
      BY <3>1, <3>2
  <2>3. QED
    BY <2>1, <2>2
<1>22. CASE OriginAccepts
  BY <1>22, AcceptsKeeps
<1>23. CASE ObserveEpoch
  BY <1>23, ObserveKeeps
<1>24. CASE MarkSent
  BY <1>24, MarkKeeps
<1>25. CASE NoteSuccess
  BY <1>25, NoteKeeps
<1>26. CASE NoteFailure
  BY <1>26, NoteKeeps
<1>27. CASE OriginRestart
  BY <1>27, LoseKeeps DEF OriginRestart
<1>28. ASSUME NEW r \in Rooms, Sweep(r) PROVE LoopInv' /\ StoreInv' /\ RunningOnlyWhileSending'
  BY <1>28, LoseKeeps DEF Sweep
<1>29. ASSUME NEW on \in BOOLEAN, SetEnabled(on)
       PROVE  LoopInv' /\ StoreInv' /\ RunningOnlyWhileSending'
  BY <1>29, EnableKeeps
<1>30. ASSUME NEW t \in Rooms \union {NoRoom}, SetTarget(t)
       PROVE  LoopInv' /\ StoreInv' /\ RunningOnlyWhileSending'
  BY <1>30, TargetKeeps
<1>31. QED
  BY <1>1, <1>2, <1>3, <1>4, <1>5, <1>6, <1>7, <1>8, <1>9, <1>10, <1>11, <1>12, <1>13, <1>14, <1>15, <1>16, <1>17, <1>18, <1>19, <1>20, <1>21, <1>22, <1>23, <1>24, <1>25, <1>26, <1>27, <1>28, <1>29, <1>30 DEF Next, Loop

-----------------------------------------------------------------------------
(* The theorems.                                                           *)

\* The inductive invariant holds of everything the manager can do.
LEMMA InitBelief == Init => BeliefInv
<1>1. Init => TypeOK
  BY InitType
<1>2. Init => LoopInv
  BY DEF Init, LoopInv, CycleIsCurrent, CycleHasRoom, ReplyIsTrue, MarkFollowsReply, Idle
<1>3. Init => StoreInv /\ RunningOnlyWhileSending
  BY DEF Init, StoreInv, EpochsIssued, FreshTarget, SentIsStored, PageIsStored, Known, Absent,
     RunningOnlyWhileSending
<1>4. QED
  BY <1>1, <1>2, <1>3 DEF BeliefInv

LEMMA BeliefInvariant == Spec => []BeliefInv
BY InitBelief, BeliefStep, PTL DEF Spec

(***************************************************************************)
(* Every field of the manager, the loop and the rooms keeps its type; the  *)
(* failure streak of recordCycle stays below failResetAfter.               *)
(***************************************************************************)
THEOREM TypeCorrect == Spec => []TypeOK
<1>1. BeliefInv => TypeOK
  BY DEF BeliefInv
<1>2. QED
  BY BeliefInvariant, <1>1, PTL

(***************************************************************************)
(* The manager's beliefs are true of the incarnation it talks to: whatever *)
(* media object or page uploadMedia and uploadPage skip as sent is there   *)
(* (contribute.go:695, :716-722, :1079-1082).                              *)
(***************************************************************************)
THEOREM BeliefsAreTrue == Spec => []BeliefsHold
<1>1. BeliefInv => BeliefsHold
  BY DEF BeliefInv, StoreInv, BeliefsHold
<1>2. QED
  BY BeliefInvariant, <1>1, PTL

(***************************************************************************)
(* Status.Running is never true while the contribution is off or has no    *)
(* room: a cycle that outlives SetEnabled(false) or SetTarget cannot       *)
(* revive it (noteCycleAt, contribute.go:522-535).                         *)
(***************************************************************************)
THEOREM RunningIsHonest == Spec => []RunningOnlyWhileSending
<1>1. BeliefInv => RunningOnlyWhileSending
  BY DEF BeliefInv
<1>2. QED
  BY BeliefInvariant, <1>1, PTL

-----------------------------------------------------------------------------
(* The cycle of a room that stays: what MediaBeforePlaylist rests on.      *)

OnWire == {"wire", "reply", "mark"}

\* The cycle is going through the media of its playlist, or is done with it.
Uploading == pc = "media" \/ (pc \in OnWire /\ item.kind = "media")
Uploaded ==
  \/ pc \in {"page", "assets", "bodies", "asset", "publish"}
  \/ pc \in OnWire /\ item.kind # "media"

\* What this cycle has sent or passed over is in its room, unless the room was
\* lost meanwhile: what earlier cycles sent, as long as no reset makes it forget,
\* and every required object the cycle does not still have to look at.
SentIsInRoom == Current => sent \subseteq room[cyc.room].media
SeenIsInRoom == Uploading => Required(snap) \ todo \subseteq room[cyc.room].media
RequiredIsInRoom == Uploaded => Required(snap) \subseteq room[cyc.room].media
ItemIsInRoom == pc \in {"reply", "mark"} /\ item.kind = "media" => item.name \in room[cyc.room].media

InRoom == SentIsInRoom /\ SeenIsInRoom /\ RequiredIsInRoom /\ ItemIsInRoom
CycleKept == kept /\ pc # "idle" /\ cyc.room # NoRoom => InRoom

\* A room nobody uploaded to holds nothing.
UnmadeIsEmpty == \A r \in Rooms : room[r].epoch = 0 => room[r].media = {} /\ room[r].playlist = 0

\* A step gives no room a playlist that requires what the room does not hold.
PlaylistIsBacked ==
  \A r \in Rooms :
    kept /\ room'[r].playlist \notin {0, room[r].playlist} =>
      Required(room'[r].playlist) \subseteq room'[r].media

\* A step that changes no room.
LEMMA SameRooms ==
  ASSUME UnmadeIsEmpty, UNCHANGED room
  PROVE  UnmadeIsEmpty' /\ PlaylistIsBacked
BY DEF UnmadeIsEmpty, PlaylistIsBacked

\* The moves of the cycle that change nothing in the room and send nothing.
LEMMA CycleMoves ==
  ASSUME CycleKept, UNCHANGED <<generation, room, kept>>, sent' \subseteq sent
  PROVE  /\ Retire => CycleKept'
         /\ pc # "idle" /\ UNCHANGED <<cyc, snap>> /\ ~Uploading' /\ ~Uploaded'
              /\ pc' \notin {"reply", "mark"} => CycleKept'
         /\ UNCHANGED <<cyc, snap, todo>> /\ Uploading /\ Uploading' /\ pc # "idle"
              /\ pc' \notin {"reply", "mark"} => CycleKept'
         /\ UNCHANGED <<cyc, snap>> /\ Uploaded /\ Uploaded' => CycleKept'
         /\ UNCHANGED <<cyc, snap, todo, item>> /\ pc = "reply" /\ pc' = "mark" => CycleKept'
<1>1. Retire => CycleKept'
  BY DEF Retire, CycleKept
<1>2. UNCHANGED cyc /\ pc # "idle" /\ kept /\ cyc.room # NoRoom => SentIsInRoom'
  BY DEF CycleKept, InRoom, SentIsInRoom, Current
<1>3. ASSUME pc # "idle", UNCHANGED <<cyc, snap>>, ~Uploading', ~Uploaded',
             pc' \notin {"reply", "mark"}
      PROVE  CycleKept'
  <2> SUFFICES ASSUME kept', cyc'.room # NoRoom PROVE InRoom'
    BY DEF CycleKept
  <2>1. SentIsInRoom'
    BY <1>2, <1>3
  <2>2. SeenIsInRoom' /\ RequiredIsInRoom'
    BY <1>3 DEF SeenIsInRoom, RequiredIsInRoom
  <2>3. ItemIsInRoom'
    BY <1>3 DEF ItemIsInRoom
  <2>4. QED
    BY <2>1, <2>2, <2>3 DEF InRoom
<1>4. ASSUME UNCHANGED <<cyc, snap, todo>>, Uploading, Uploading', pc # "idle",
             pc' \notin {"reply", "mark"}
      PROVE  CycleKept'
  <2> SUFFICES ASSUME kept', cyc'.room # NoRoom PROVE InRoom'
    BY DEF CycleKept
  <2>1. SentIsInRoom'
    BY <1>2, <1>4
  <2>2. InRoom
    BY <1>4 DEF CycleKept
  <2>3. SeenIsInRoom'
    BY <1>4, <2>2 DEF InRoom, SeenIsInRoom
  <2>4. ~Uploaded'
    BY <1>4 DEF Uploading, Uploaded, OnWire
  <2>5. RequiredIsInRoom' /\ ItemIsInRoom'
    BY <1>4, <2>4 DEF RequiredIsInRoom, ItemIsInRoom
  <2>6. QED
    BY <2>1, <2>3, <2>5 DEF InRoom
<1>5. UNCHANGED <<cyc, snap>> /\ Uploaded /\ Uploaded' => CycleKept'
  <2>1. Uploaded => pc # "idle"
    BY DEF Uploaded, OnWire
  <2>2. Uploaded' => ~Uploading' /\ ~(pc' \in {"reply", "mark"} /\ item'.kind = "media")
    BY DEF Uploading, Uploaded, OnWire
  <2>3. QED
    BY <1>2, <2>1, <2>2 DEF CycleKept, InRoom, SeenIsInRoom, RequiredIsInRoom, ItemIsInRoom
<1>6. UNCHANGED <<cyc, snap, todo, item>> /\ pc = "reply" /\ pc' = "mark" => CycleKept'
  <2>1. /\ UNCHANGED item /\ pc = "reply" /\ pc' = "mark" =>
             (Uploading' <=> Uploading) /\ (Uploaded' <=> Uploaded)
    BY DEF Uploading, Uploaded, OnWire
  <2>2. QED
    BY <1>2, <2>1 DEF CycleKept, InRoom, SeenIsInRoom, RequiredIsInRoom, ItemIsInRoom
<1>7. QED
  BY <1>1, <1>3, <1>4, <1>5, <1>6

\* A step in which the cycle stands still.
LEMMA CycleRests ==
  ASSUME CycleKept, UNCHANGED <<pc, cyc, snap, todo, item, room, kept>>, sent' \subseteq sent,
         Current' => Current
  PROVE  CycleKept'
<1>1. (Uploading' <=> Uploading) /\ (Uploaded' <=> Uploaded)
  BY DEF Uploading, Uploaded
<1>2. QED
  BY <1>1 DEF CycleKept, InRoom, SentIsInRoom, SeenIsInRoom, RequiredIsInRoom, ItemIsInRoom

LEMMA UploadMediaCycle ==
  ASSUME CycleKept, NEW n \in Objects, UploadMedia(n) \/ MediaUnreadable(n)
  PROVE  CycleKept' /\ UNCHANGED room
<1>1. UNCHANGED <<generation, room, kept, sent>> /\ pc = "media" /\ n \in todo
  BY DEF UploadMedia, MediaUnreadable, manager, beliefs, origin
<1>2. Uploading /\ ~Uploaded
  BY <1>1 DEF Uploading, Uploaded, OnWire
<1>3. CASE Retire
  BY <1>1, <1>3, CycleMoves
<1>4. CASE Fail
  <2>1. UNCHANGED <<cyc, snap>> /\ pc' = "note"
    BY <1>4 DEF Fail
  <2>2. ~Uploading' /\ ~Uploaded'
    BY <2>1 DEF Uploading, Uploaded, OnWire
  <2>3. QED
    BY <1>1, <2>1, <2>2, CycleMoves
<1>5. CASE StartPut([kind |-> "media", name |-> n]) /\ Current
  <2>1. UNCHANGED <<cyc, snap, todo>> /\ pc' = "wire" /\ item'.kind = "media"
    BY <1>5 DEF StartPut
  <2>2. Uploading'
    BY <2>1 DEF Uploading, OnWire
  <2>3. QED
    BY <1>1, <1>2, <2>1, <2>2, CycleMoves
<1>6. CASE /\ pc' = pc /\ todo' = todo \ {n} /\ UNCHANGED <<cyc, snap, item>>
           /\ (n \in sent /\ Current) \/ n \notin Required(snap)
  <2>1. Uploading' /\ ~Uploaded' /\ pc' \notin {"reply", "mark"}
    BY <1>1, <1>6 DEF Uploading, Uploaded, OnWire
  <2>2. kept /\ cyc.room # NoRoom => InRoom
    BY <1>1 DEF CycleKept
  <2>3. kept /\ cyc.room # NoRoom => SentIsInRoom' /\ SeenIsInRoom'
    BY <1>1, <1>2, <1>6, <2>2 DEF InRoom, SentIsInRoom, SeenIsInRoom, Current
  <2>4. QED
    BY <1>1, <1>6, <2>1, <2>3 DEF CycleKept, InRoom, RequiredIsInRoom, ItemIsInRoom
<1>7. QED
  BY <1>1, <1>3, <1>4, <1>5, <1>6 DEF UploadMedia, MediaUnreadable, StartPut

LEMMA FetchPlaylistCycle ==
  ASSUME CycleKept, FetchPlaylist
  PROVE  CycleKept' /\ UNCHANGED room
<1>1. UNCHANGED <<generation, room, kept, sent>> /\ pc = "playlist"
  BY DEF FetchPlaylist, manager, beliefs, origin
<1>2. CASE Fail
  <2>1. UNCHANGED <<cyc, snap>> /\ pc' = "note"
    BY <1>2 DEF Fail
  <2>2. ~Uploading' /\ ~Uploaded'
    BY <2>1 DEF Uploading, Uploaded, OnWire
  <2>3. QED
    BY <1>1, <2>1, <2>2, CycleMoves
<1>3. CASE pc' = "media" /\ snap' = head /\ todo' = Listed(head) /\ UNCHANGED cyc
  <2> SUFFICES ASSUME kept', cyc'.room # NoRoom PROVE InRoom'
    BY <1>1 DEF CycleKept
  <2>1. InRoom
    BY <1>1, <1>3 DEF CycleKept
  <2>2. SentIsInRoom'
    BY <1>1, <1>3, <2>1 DEF InRoom, SentIsInRoom, Current
  <2>3. Required(snap') \ todo' = {}
    BY <1>3 DEF Listed
  <2>4. SeenIsInRoom'
    BY <2>3 DEF SeenIsInRoom
  <2>5. ~Uploaded' /\ pc' \notin {"reply", "mark"}
    BY <1>3 DEF Uploaded, OnWire
  <2>6. RequiredIsInRoom' /\ ItemIsInRoom'
    BY <2>5 DEF RequiredIsInRoom, ItemIsInRoom
  <2>7. QED
    BY <2>2, <2>4, <2>6 DEF InRoom
<1>4. QED
  BY <1>1, <1>2, <1>3 DEF FetchPlaylist

LEMMA MediaDoneCycle ==
  ASSUME CycleKept, MediaDone
  PROVE  CycleKept' /\ UNCHANGED room
<1>1. /\ UNCHANGED <<generation, room, kept, sent, cyc, snap>>
      /\ pc = "media" /\ todo = {} /\ pc' = "page"
  BY DEF MediaDone, Goto, manager, beliefs, origin
<1>2. Uploading /\ ~Uploading' /\ pc' \notin {"reply", "mark"}
  BY <1>1 DEF Uploading, OnWire
<1> SUFFICES ASSUME kept', cyc'.room # NoRoom PROVE InRoom'
  BY <1>1 DEF CycleKept
<1>3. InRoom
  BY <1>1 DEF CycleKept
<1>4. SentIsInRoom' /\ SeenIsInRoom' /\ ItemIsInRoom'
  BY <1>1, <1>2, <1>3 DEF InRoom, SentIsInRoom, SeenIsInRoom, ItemIsInRoom, Current
<1>5. RequiredIsInRoom'
  BY <1>1, <1>2, <1>3 DEF InRoom, SeenIsInRoom, RequiredIsInRoom
<1>6. QED
  BY <1>1, <1>4, <1>5 DEF InRoom

\* The steps between the media and the end, and those that end a cycle.
LEMMA LaterCycle ==
  ASSUME CycleKept,
         \/ UploadPage \/ CheckAssets \/ ReadAssets \/ AssetsDone \/ UploadPlaylist
         \/ \E a \in Assets : UploadAsset(a)
  PROVE  CycleKept' /\ UNCHANGED room
<1>1. /\ UNCHANGED <<generation, room, kept, sent>>
      /\ pc \in {"page", "assets", "bodies", "asset", "publish"}
  BY DEF UploadPage, CheckAssets, ReadAssets, AssetsDone, UploadPlaylist, UploadAsset, manager,
     beliefs, origin
<1>2. Uploaded
  BY <1>1 DEF Uploaded
<1>3. CASE Retire
  BY <1>1, <1>3, CycleMoves
<1>4. CASE UNCHANGED <<cyc, snap>> /\ pc' \in {"page", "assets", "bodies", "asset", "publish"}
  <2>1. Uploaded'
    BY <1>4 DEF Uploaded
  <2>2. QED
    BY <1>1, <1>2, <1>4, <2>1, CycleMoves
<1>5. CASE UNCHANGED <<cyc, snap>> /\ pc' = "wire" /\ item'.kind # "media"
  <2>1. Uploaded'
    BY <1>5 DEF Uploaded, OnWire
  <2>2. QED
    BY <1>1, <1>2, <1>5, <2>1, CycleMoves
<1>6. Retire \/ UNCHANGED <<cyc, snap>>
  BY DEF UploadPage, CheckAssets, ReadAssets, AssetsDone, UploadPlaylist, UploadAsset, StartPut, Goto
<1>7. \/ Retire \/ pc' \in {"page", "assets", "bodies", "asset", "publish"}
      \/ pc' = "wire" /\ item'.kind # "media"
  BY DEF UploadPage, CheckAssets, ReadAssets, AssetsDone, UploadPlaylist, UploadAsset, StartPut, Goto
<1>8. QED
  BY <1>1, <1>3, <1>4, <1>5, <1>6, <1>7

LEMMA EndCycle ==
  ASSUME CycleKept,
         \/ BeginOperation \/ NoOrigin \/ FetchMaster \/ Cancelled \/ FetchFails \/ PutFails
         \/ NoteSuccess \/ NoteFailure
  PROVE  CycleKept' /\ UNCHANGED room
<1>1. UNCHANGED <<generation, room, kept>> /\ sent' \subseteq sent
  BY DEF BeginOperation, NoOrigin, FetchMaster, Cancelled, FetchFails, PutFails, NoteSuccess,
     NoteFailure, ResetSession, ForgetTarget, manager, beliefs, origin
<1>2. \/ Retire
      \/ UNCHANGED <<cyc, snap>> /\ pc # "idle" /\ pc' \in {"master", "playlist", "note"}
  BY DEF BeginOperation, NoOrigin, FetchMaster, Cancelled, FetchFails, PutFails, NoteSuccess,
     NoteFailure, Fail, Goto
<1>3. pc' \in {"master", "playlist", "note"} => ~Uploading' /\ ~Uploaded'
  BY DEF Uploading, Uploaded, OnWire
<1>4. QED
  BY <1>1, <1>2, <1>3, CycleMoves

LEMMA ResolveCycle ==
  ASSUME Resolve
  PROVE  CycleKept' /\ UNCHANGED room
<1>1. /\ UNCHANGED <<generation, room, sent, target>> /\ pc' = "begin" /\ cyc'.room = target
      /\ kept' = (target # NoRoom => sent \subseteq room[target].media)
  BY DEF Resolve, manager, beliefs
<1> SUFFICES ASSUME kept', cyc'.room # NoRoom PROVE InRoom'
  BY <1>1 DEF CycleKept
<1>2. SentIsInRoom'
  BY <1>1 DEF SentIsInRoom
<1>3. ~Uploading' /\ ~Uploaded' /\ pc' \notin {"reply", "mark"}
  BY <1>1 DEF Uploading, Uploaded, OnWire
<1>4. SeenIsInRoom' /\ RequiredIsInRoom' /\ ItemIsInRoom'
  BY <1>3 DEF SeenIsInRoom, RequiredIsInRoom, ItemIsInRoom
<1>5. QED
  BY <1>1, <1>2, <1>4 DEF InRoom

LEMMA ObserveCycle ==
  ASSUME CycleKept, ObserveEpoch
  PROVE  CycleKept' /\ UNCHANGED room
<1>1. UNCHANGED <<generation, room, kept>> /\ sent' \subseteq sent /\ pc = "reply"
  BY DEF ObserveEpoch, ForgetTarget, manager, beliefs, origin
<1>2. Retire \/ (UNCHANGED <<cyc, snap, todo, item>> /\ pc' = "mark")
  BY DEF ObserveEpoch, Goto
<1>3. QED
  BY <1>1, <1>2, CycleMoves

LEMMA MarkCycle ==
  ASSUME CycleKept, MarkSent
  PROVE  CycleKept' /\ UNCHANGED room
<1>1. UNCHANGED <<generation, room, kept>> /\ pc = "mark"
  BY DEF MarkSent, manager, origin
<1>2. CASE ~Current
  <2>1. Retire /\ sent' = sent
    BY <1>2 DEF MarkSent
  <2>2. QED
    BY <1>1, <2>1, CycleMoves
<1>3. CASE Current /\ item.kind = "media"
  <2>1. /\ pc' = "media" /\ sent' = sent \union {item.name} /\ todo' = todo \ {item.name}
        /\ UNCHANGED <<cyc, snap>>
    BY <1>3 DEF MarkSent
  <2>2. Uploading /\ ~Uploaded' /\ pc' \notin {"reply", "mark"}
    BY <1>1, <1>3, <2>1 DEF Uploading, Uploaded, OnWire
  <2> SUFFICES ASSUME kept', cyc'.room # NoRoom PROVE InRoom'
    BY <1>1 DEF CycleKept
  <2>3. InRoom /\ item.name \in room[cyc.room].media
    BY <1>1, <1>3, <2>1 DEF CycleKept, InRoom, ItemIsInRoom
  <2>4. SentIsInRoom'
    BY <1>1, <2>1, <2>3 DEF InRoom, SentIsInRoom, Current
  <2>5. SeenIsInRoom'
    BY <1>1, <2>1, <2>2, <2>3 DEF InRoom, SeenIsInRoom
  <2>6. RequiredIsInRoom' /\ ItemIsInRoom'
    BY <2>2 DEF RequiredIsInRoom, ItemIsInRoom
  <2>7. QED
    BY <2>4, <2>5, <2>6 DEF InRoom
<1>4. CASE Current /\ item.kind # "media"
  <2>1. /\ pc' \in {"assets", "asset", "note"} /\ sent' \subseteq sent
        /\ UNCHANGED <<cyc, snap>>
    BY <1>4 DEF MarkSent
  <2>2. Uploaded
    BY <1>1, <1>4 DEF Uploaded, OnWire
  <2>3. CASE pc' = "note"
    <3>1. ~Uploading' /\ ~Uploaded'
      BY <2>3 DEF Uploading, Uploaded, OnWire
    <3>2. QED
      BY <1>1, <2>1, <2>3, <3>1, CycleMoves
  <2>4. CASE pc' \in {"assets", "asset"}
    <3>1. Uploaded'
      BY <2>4 DEF Uploaded
    <3>2. QED
      BY <1>1, <2>1, <2>2, <3>1, CycleMoves
  <2>5. QED
    BY <2>1, <2>3, <2>4
<1>5. QED
  BY <1>1, <1>2, <1>3, <1>4

\* What the origin makes of an upload: nothing it held is gone, and a playlist
\* changes nothing but the playlist.
LEMMA StoredMedia ==
  ASSUME NEW R \in Room, TypeLoop
  PROVE  /\ R.media \subseteq Stored(R).media /\ Stored(R).epoch = R.epoch
         /\ item.kind = "media" => item.name \in Stored(R).media
         /\ Stored(R).playlist = R.playlist \/ (item.kind # "media" /\ Stored(R).playlist = snap)
<1>1. item.kind \in {"none", "media", "page", "asset", "playlist"}
  BY DEF TypeLoop, Item
<1>2. QED
  BY <1>1 DEF Stored, Room

LEMMA AcceptsCycle ==
  ASSUME TypeOK, CycleKept, UnmadeIsEmpty, OriginAccepts
  PROVE  CycleKept' /\ UnmadeIsEmpty' /\ PlaylistIsBacked
<1> DEFINE r == cyc.room
           I == Incarnation(r)
<1>1. /\ r \in Rooms /\ r # NoRoom /\ room \in [Rooms -> Room] /\ room[r] \in Room
      /\ epochs \in Nat /\ TypeLoop
  BY DEF OriginAccepts, TypeOK, TypeLoop, TypeOrigin, Cycle
<1>2. I \in Room
  <2>1. [Absent EXCEPT !.epoch = epochs + 1] \in Room
    BY <1>1, AbsentType DEF Room
  <2>2. QED
    BY <1>1, <2>1 DEF Incarnation
<1>3. I.epoch # 0 /\ room[r].media \subseteq I.media /\ I.playlist \in {0, room[r].playlist}
  <2>1. CASE room[r].epoch = 0
    BY <1>1, <2>1 DEF Incarnation, Absent, UnmadeIsEmpty
  <2>2. CASE room[r].epoch # 0
    BY <1>1, <2>2 DEF Incarnation
  <2>3. QED
    BY <2>1, <2>2
<1>4. /\ room' = [room EXCEPT ![r] = Stored(I)] /\ pc = "wire" /\ pc' = "reply"
      /\ UNCHANGED <<generation, sent, kept, cyc, snap, todo, item>>
  BY DEF OriginAccepts, manager, beliefs
<1> HIDE DEF I
<1>5. room'[r] = Stored(I) /\ \A s \in Rooms \ {r} : room'[s] = room[s]
  BY <1>1, <1>4
<1>6. /\ room[r].media \subseteq room'[r].media /\ room'[r].epoch # 0
      /\ item.kind = "media" => item.name \in room'[r].media
      /\ \/ room'[r].playlist \in {0, room[r].playlist}
         \/ item.kind # "media" /\ room'[r].playlist = snap
  BY <1>1, <1>2, <1>3, <1>5, StoredMedia
<1>7. UnmadeIsEmpty'
  BY <1>5, <1>6 DEF UnmadeIsEmpty
<1>8. (Uploading' <=> Uploading) /\ (Uploaded' <=> Uploaded)
  BY <1>4 DEF Uploading, Uploaded, OnWire
<1>9. kept => InRoom
  BY <1>1, <1>4 DEF CycleKept
<1>10. CycleKept'
  <2> SUFFICES ASSUME kept' PROVE InRoom'
    BY DEF CycleKept
  <2>1. SentIsInRoom'
    BY <1>4, <1>6, <1>9 DEF InRoom, SentIsInRoom, Current
  <2>2. SeenIsInRoom'
    BY <1>4, <1>6, <1>8, <1>9 DEF InRoom, SeenIsInRoom
  <2>3. RequiredIsInRoom'
    BY <1>4, <1>6, <1>8, <1>9 DEF InRoom, RequiredIsInRoom
  <2>4. ItemIsInRoom'
    BY <1>4, <1>6 DEF ItemIsInRoom
  <2>5. QED
    BY <2>1, <2>2, <2>3, <2>4 DEF InRoom
<1>11. PlaylistIsBacked
  <2> SUFFICES ASSUME NEW s \in Rooms, kept, room'[s].playlist \notin {0, room[s].playlist}
               PROVE  Required(room'[s].playlist) \subseteq room'[s].media
    BY DEF PlaylistIsBacked
  <2>1. s = r
    BY <1>5
  <2>2. item.kind # "media" /\ room'[r].playlist = snap
    BY <1>6, <2>1
  <2>3. Uploaded
    BY <1>4, <2>2 DEF Uploaded, OnWire
  <2>4. Required(snap) \subseteq room[r].media
    BY <1>9, <2>3 DEF InRoom, RequiredIsInRoom
  <2>5. QED
    BY <1>6, <2>1, <2>2, <2>4
<1>12. QED
  BY <1>7, <1>10, <1>11

LEMMA LoseCycle ==
  ASSUME UnmadeIsEmpty, NEW S, Lose(S)
  PROVE  CycleKept' /\ UnmadeIsEmpty' /\ PlaylistIsBacked
<1>1. kept' = FALSE /\ \A r \in Rooms : room'[r] = Absent \/ room'[r] = room[r]
  BY DEF Lose
<1>2. Absent.media = {} /\ Absent.playlist = 0
  BY DEF Absent
<1>3. QED
  BY <1>1, <1>2 DEF CycleKept, UnmadeIsEmpty, PlaylistIsBacked

\* A change of the manager or of what is around it.
LEMMA AroundCycle ==
  ASSUME BeliefInv, CycleKept,
         \/ \E on \in BOOLEAN : SetEnabled(on)
         \/ \E t \in Rooms \union {NoRoom} : SetTarget(t)
         \/ Advance \/ ChangeAssets \/ MuxerReload \/ UNCHANGED vars
  PROVE  CycleKept' /\ UNCHANGED room
<1>1. UNCHANGED <<pc, cyc, snap, todo, item, room, kept>>
  BY DEF SetEnabled, SetTarget, Advance, ChangeAssets, MuxerReload, vars, locals, origin
<1>2. sent' \subseteq sent
  BY DEF SetEnabled, SetTarget, Advance, ChangeAssets, MuxerReload, vars, beliefs, ForgetTarget
<1>3. generation' = generation \/ generation' = generation + 1
  BY DEF SetEnabled, SetTarget, Advance, ChangeAssets, MuxerReload, vars, manager, Invalidate
<1>4. cyc.gen <= generation /\ generation \in Nat /\ cyc.gen \in Nat
  BY DEF BeliefInv, LoopInv, CycleIsCurrent, TypeOK, TypeManager, TypeLoop, Cycle
<1>5. Current' => Current
  BY <1>1, <1>3, <1>4 DEF Current
<1>6. QED
  BY <1>1, <1>2, <1>5, CycleRests

PlaylistInv == BeliefInv /\ CycleKept /\ UnmadeIsEmpty

LEMMA PlaylistStep ==
  ASSUME PlaylistInv, [Next]_vars
  PROVE  PlaylistInv' /\ PlaylistIsBacked
<1>1. BeliefInv'
  BY BeliefStep DEF PlaylistInv
<1> SUFFICES CycleKept' /\ UnmadeIsEmpty' /\ PlaylistIsBacked
  BY <1>1 DEF PlaylistInv
<1>2. BeliefInv /\ CycleKept /\ UnmadeIsEmpty /\ TypeOK
  BY DEF PlaylistInv, BeliefInv
<1>3. CASE OriginAccepts
  BY <1>2, <1>3, AcceptsCycle
<1>4. CASE OriginRestart \/ \E r \in Rooms : Sweep(r)
  BY <1>2, <1>4, LoseCycle DEF OriginRestart, Sweep
<1>5. CASE \E n \in Objects : UploadMedia(n) \/ MediaUnreadable(n)
  BY <1>2, <1>5, UploadMediaCycle, SameRooms
<1>6. CASE \/ UploadPage \/ CheckAssets \/ ReadAssets \/ AssetsDone \/ UploadPlaylist
           \/ \E a \in Assets : UploadAsset(a)
  BY <1>2, <1>6, LaterCycle, SameRooms
<1>7. CASE \/ BeginOperation \/ NoOrigin \/ FetchMaster \/ Cancelled \/ FetchFails \/ PutFails
           \/ NoteSuccess \/ NoteFailure
  BY <1>2, <1>7, EndCycle, SameRooms
<1>8. CASE Resolve \/ FetchPlaylist \/ MediaDone \/ ObserveEpoch \/ MarkSent
  BY <1>2, <1>8, ResolveCycle, FetchPlaylistCycle, MediaDoneCycle, ObserveCycle, MarkCycle, SameRooms
<1>9. CASE \/ \E on \in BOOLEAN : SetEnabled(on)
           \/ \E t \in Rooms \union {NoRoom} : SetTarget(t)
           \/ Advance \/ ChangeAssets \/ MuxerReload \/ UNCHANGED vars
  BY <1>2, <1>9, AroundCycle, SameRooms
<1>10. QED
  BY <1>3, <1>4, <1>5, <1>6, <1>7, <1>8, <1>9 DEF Next, Loop

(***************************************************************************)
(* A playlist reaches a room only after every object it requires has, as   *)
(* long as no room is lost inside the cycle: not when objects were skipped *)
(* as sent by an earlier cycle, when a reply was lost, or when the cycle   *)
(* was overtaken by a new target (contribute.go:610-613, 669-684).         *)
(***************************************************************************)
THEOREM PlaylistsArePlayable == Spec => MediaBeforePlaylist
<1>1. Init => PlaylistInv
  <2>1. Init => BeliefInv
    BY InitBelief
  <2>2. Init => CycleKept /\ UnmadeIsEmpty
    BY DEF Init, CycleKept, UnmadeIsEmpty, Absent
  <2>3. QED
    BY <2>1, <2>2 DEF PlaylistInv
<1>2. PlaylistInv /\ [Next]_vars => PlaylistInv'
  BY PlaylistStep
<1>3. PlaylistInv /\ [Next]_vars => [PlaylistIsBacked]_vars
  BY PlaylistStep
<1>4. QED
  BY <1>1, <1>2, <1>3, PTL DEF Spec, MediaBeforePlaylist, PlaylistIsBacked

-----------------------------------------------------------------------------
(* The page's assets: what AssetsAreStored rests on.                       *)

\* The cycle is pushing the page's assets.
Pushing == pc = "asset" \/ (pc \in OnWire /\ item.kind = "asset")

\* The incarnation of room r that acknowledged an asset holds it at revision v.
AckedHolds(S, r, v) ==
  \A a \in S : pushed[a] # 0 /\ room[r].epoch = pushed[a] => room[r].assets[a] >= v

\* The incarnation last heard from acknowledged one of the assets.
OneIsHere == originEpoch # 0 /\ \E a \in Assets : pushed[a] = originEpoch

AcksIssued == \A a \in Assets : pushed[a] <= epochs
BelievedIsHeld == target # NoRoom => AckedHolds(Assets, target, assetsRev)
BelievedIsHere == assetsRev # 0 /\ Assets # {} => OneIsHere
AssetStore == assetsRev <= rev /\ AcksIssued /\ BelievedIsHeld /\ BelievedIsHere

\* The bodies are at least as new as the fingerprint read before them, and as
\* the revision believed to be on the origin.
BodiesAreNewer == Pushing => fingerprint <= bodyRev /\ assetsRev <= bodyRev
PushedIsHeld == Pushing => AckedHolds(Assets \ todo, cyc.room, fingerprint)
AnswerIsHeld ==
  pc \in {"reply", "mark"} /\ item.kind = "asset" /\ room[cyc.room].epoch = reply =>
    room[cyc.room].assets[item.name] = bodyRev
PushedIsHere == Pushing /\ pc # "mark" /\ Current /\ Assets \ todo # {} => OneIsHere
AssetLoop == fingerprint <= rev /\ BodiesAreNewer /\ PushedIsHeld /\ AnswerIsHeld /\ PushedIsHere

\* Asset revisions and their reading.
LEMMA AssetTypes ==
  ASSUME TypeOK
  PROVE  /\ \A r \in Rooms, a \in Assets : room[r].assets[a] \in Nat
         /\ \A r \in Rooms : room[r].epoch \in Nat
         /\ \A a \in Assets : pushed[a] \in Nat
         /\ rev \in Nat /\ assetsRev \in Nat /\ fingerprint \in Nat /\ bodyRev \in Nat
         /\ originEpoch \in Nat /\ epochs \in Nat /\ reply \in Nat
BY DEF TypeOK, TypeOrigin, TypeSource, TypeBeliefs, TypeLoop, Room

\* Steps that leave the origin and the target alone; a reset may empty the belief.
LEMMA AssetStoreRests ==
  ASSUME TypeOK, AssetStore, UNCHANGED <<target, originEpoch, room, epochs, pushed>>,
         assetsRev' \in {0, assetsRev}, rev' \in {rev, rev + 1}
  PROVE  AssetStore'
<1>1. rev' \in Nat /\ rev <= rev' /\ assetsRev' <= assetsRev
  BY AssetTypes
<1>2. assetsRev' <= rev' /\ AcksIssued'
  BY <1>1, AssetTypes DEF AssetStore, AcksIssued
<1>3. BelievedIsHeld'
  <2>1. target # NoRoom => target \in Rooms
    BY DEF TypeOK, TypeManager
  <2>2. QED
    BY <1>1, <2>1, AssetTypes DEF AssetStore, BelievedIsHeld, AckedHolds
<1>4. BelievedIsHere'
  BY DEF AssetStore, BelievedIsHere, OneIsHere
<1>5. QED
  BY <1>2, <1>3, <1>4 DEF AssetStore

\* Steps that leave the cycle outside the push of the assets.
LEMMA NotPushing ==
  ASSUME ~Pushing', fingerprint' <= rev'
  PROVE  AssetLoop'
<1>1. ~(pc' \in {"reply", "mark"} /\ item'.kind = "asset")
  BY DEF Pushing, OnWire
<1>2. QED
  BY <1>1 DEF AssetLoop, BodiesAreNewer, PushedIsHeld, AnswerIsHeld, PushedIsHere

\* Steps in which the push stands still, or moves on by one leg of an upload.
LEMMA AssetLoopRests ==
  ASSUME TypeOK, AssetLoop, UNCHANGED <<cyc, todo, fingerprint, bodyRev, room, pushed>>,
         assetsRev' \in {0, assetsRev}, rev' \in {rev, rev + 1},
         Pushing' => Pushing,
         pc' \in {"reply", "mark"} => pc \in {"reply", "mark"} /\ UNCHANGED <<item, reply>>,
         Pushing' /\ pc' # "mark" /\ Current' => pc # "mark" /\ Current /\ UNCHANGED originEpoch
  PROVE  AssetLoop'
<1>1. fingerprint' <= rev'
  BY AssetTypes DEF AssetLoop
<1>2. BodiesAreNewer'
  BY AssetTypes DEF AssetLoop, BodiesAreNewer
<1>3. PushedIsHeld'
  BY DEF AssetLoop, PushedIsHeld, AckedHolds
<1>4. AnswerIsHeld'
  BY DEF AssetLoop, AnswerIsHeld
<1>5. PushedIsHere'
  BY DEF AssetLoop, PushedIsHere, OneIsHere
<1>6. QED
  BY <1>1, <1>2, <1>3, <1>4, <1>5 DEF AssetLoop

\* The steps that end a cycle, or go on outside the push of the assets.
LEMMA AssetsElsewhere ==
  ASSUME TypeOK, AssetStore, AssetLoop,
         \/ Resolve \/ BeginOperation \/ NoOrigin \/ FetchMaster \/ FetchPlaylist
         \/ MediaDone \/ UploadPage \/ CheckAssets \/ UploadPlaylist
         \/ \E n \in Objects : UploadMedia(n) \/ MediaUnreadable(n)
         \/ Cancelled \/ FetchFails \/ PutFails \/ NoteSuccess \/ NoteFailure
  PROVE  AssetStore' /\ AssetLoop'
<1>1. /\ UNCHANGED <<target, originEpoch, room, epochs, pushed, rev>>
      /\ assetsRev' \in {0, assetsRev}
  BY DEF Resolve, BeginOperation, NoOrigin, FetchMaster, FetchPlaylist, MediaDone, UploadPage,
     CheckAssets, UploadPlaylist, UploadMedia, MediaUnreadable, Cancelled, FetchFails, PutFails,
     NoteSuccess, NoteFailure, ResetSession, ForgetTarget, manager, beliefs, source, origin
<1>2. ~Pushing' /\ fingerprint' \in {0, rev, fingerprint}
  <2>1. CASE Retire
    BY <2>1 DEF Retire, ClearLocals, Pushing, OnWire
  <2>2. CASE Fail
    BY <2>2 DEF Fail, Pushing, OnWire
  <2>3. CASE UNCHANGED fingerprint /\ pc' = "wire" /\ item'.kind \in {"media", "page", "playlist"}
    BY <2>3 DEF Pushing
  <2>4. CASE /\ fingerprint' \in {rev, fingerprint}
             /\ pc' \in {"begin", "master", "playlist", "media", "page", "assets", "bodies", "publish"}
    BY <2>4 DEF Pushing, OnWire
  <2>5. QED
    BY <2>1, <2>2, <2>3, <2>4 DEF Resolve, BeginOperation, NoOrigin, FetchMaster, FetchPlaylist,
       MediaDone, UploadPage, CheckAssets, UploadPlaylist, UploadMedia, MediaUnreadable, Cancelled,
       FetchFails, PutFails, NoteSuccess, NoteFailure, StartPut, Goto
<1>3. fingerprint' <= rev'
  BY <1>1, <1>2, AssetTypes DEF AssetLoop
<1>4. QED
  BY <1>1, <1>2, <1>3, AssetStoreRests, NotPushing

\* Assets() builds the bodies, after AssetsRev() was read.
LEMMA AssetsRead ==
  ASSUME TypeOK, AssetStore, AssetLoop, ReadAssets
  PROVE  AssetStore' /\ AssetLoop'
<1>1. /\ UNCHANGED <<target, originEpoch, room, epochs, pushed, rev, assetsRev, fingerprint>>
      /\ pc' = "asset" /\ bodyRev' = rev /\ todo' = Assets
  BY DEF ReadAssets, manager, beliefs, source, origin
<1>2. AssetStore'
  BY <1>1, AssetStoreRests
<1>3. fingerprint' <= rev' /\ BodiesAreNewer'
  BY <1>1 DEF AssetLoop, AssetStore, BodiesAreNewer
<1>4. Assets \ todo' = {}
  BY <1>1
<1>5. PushedIsHeld' /\ PushedIsHere' /\ AnswerIsHeld'
  BY <1>1, <1>4 DEF PushedIsHeld, AckedHolds, PushedIsHere, AnswerIsHeld
<1>6. QED
  BY <1>2, <1>3, <1>5 DEF AssetLoop

LEMMA AssetUploaded ==
  ASSUME TypeOK, AssetStore, AssetLoop, NEW a \in Assets, UploadAsset(a)
  PROVE  AssetStore' /\ AssetLoop'
<1>1. /\ UNCHANGED <<target, originEpoch, room, epochs, pushed, rev, assetsRev>> /\ pc = "asset"
      /\ \/ Retire
         \/ UNCHANGED <<cyc, todo, fingerprint, bodyRev>> /\ pc' = "wire" /\ Current
  BY DEF UploadAsset, StartPut, manager, beliefs, source, origin
<1>2. CASE Retire
  <2>1. ~Pushing' /\ fingerprint' = 0
    BY <1>2 DEF Retire, ClearLocals, Pushing, OnWire
  <2>2. QED
    BY <1>1, <2>1, AssetTypes, AssetStoreRests, NotPushing
<1>3. CASE UNCHANGED <<cyc, todo, fingerprint, bodyRev>> /\ pc' = "wire" /\ Current
  BY <1>1, <1>3, AssetStoreRests, AssetLoopRests DEF Pushing
<1>4. QED
  BY <1>1, <1>2, <1>3

\* Every asset of the push was acknowledged: its fingerprint is believed.
LEMMA AssetsFinished ==
  ASSUME BeliefInv, AssetStore, AssetLoop, AssetsDone
  PROVE  AssetStore' /\ AssetLoop'
<1>1. /\ UNCHANGED <<target, originEpoch, room, epochs, pushed, rev>> /\ pc = "asset" /\ todo = {}
      /\ \/ Retire /\ UNCHANGED assetsRev
         \/ Current /\ pc' = "publish" /\ UNCHANGED fingerprint /\ assetsRev' = fingerprint
  BY DEF AssetsDone, Goto, manager, source, origin
<1>2. TypeOK /\ Pushing
  BY <1>1 DEF BeliefInv, Pushing
<1>3. ~Pushing' /\ fingerprint' \in {0, fingerprint}
  BY <1>1 DEF Retire, ClearLocals, Pushing, OnWire
<1>4. AssetLoop'
  BY <1>1, <1>2, <1>3, NotPushing, AssetTypes DEF AssetLoop
<1>5. CASE UNCHANGED assetsRev
  BY <1>1, <1>2, <1>4, <1>5, AssetStoreRests
<1>6. CASE Current /\ assetsRev' = fingerprint
  <2>1. cyc.room = target
    BY <1>1, <1>6 DEF BeliefInv, LoopInv, CycleIsCurrent
  <2>2. assetsRev' <= rev' /\ AcksIssued'
    BY <1>1, <1>6 DEF AssetLoop, AssetStore, AcksIssued
  <2>3. BelievedIsHeld'
    BY <1>1, <1>2, <1>6, <2>1 DEF AssetLoop, PushedIsHeld, BelievedIsHeld, AckedHolds
  <2>4. BelievedIsHere'
    BY <1>1, <1>2, <1>6 DEF AssetLoop, PushedIsHere, BelievedIsHere, OneIsHere
  <2>5. QED
    BY <1>4, <2>2, <2>3, <2>4 DEF AssetStore
<1>7. QED
  BY <1>1, <1>5, <1>6

\* What the origin makes of an upload, for the assets.
LEMMA StoredAssets ==
  ASSUME TypeLoop, NEW R \in Room
  PROVE  /\ Stored(R).epoch = R.epoch
         /\ item.kind # "asset" => Stored(R).assets = R.assets
         /\ item.kind = "asset" => /\ Stored(R).assets[item.name] = bodyRev
                                   /\ \A b \in Assets \ {item.name} : Stored(R).assets[b] = R.assets[b]
<1>1. item.kind \in {"none", "media", "page", "asset", "playlist"}
  BY DEF TypeLoop, Item
<1>2. item.kind = "asset" => item.name \in Assets
  BY DEF TypeLoop, Item
<1>3. QED
  BY <1>1, <1>2 DEF Stored, Room

\* An upload that arrives: a new incarnation acknowledged nothing yet, and an asset
\* that is replaced is replaced by one at least as new.
LEMMA AssetsAccepted ==
  ASSUME BeliefInv, AssetStore, AssetLoop, OriginAccepts
  PROVE  AssetStore' /\ AssetLoop'
<1> DEFINE r == cyc.room
           I == Incarnation(r)
<1>1. /\ r \in Rooms /\ room \in [Rooms -> Room] /\ room[r] \in Room
      /\ epochs \in Nat /\ TypeOK /\ TypeLoop
  BY DEF OriginAccepts, BeliefInv, TypeOK, TypeLoop, TypeOrigin, Cycle
<1>2. I \in Room
  <2>1. epochs + 1 \in Nat
    BY <1>1
  <2>2. [Absent EXCEPT !.epoch = epochs + 1] \in Room
    BY <2>1, AbsentType DEF Room
  <2>3. QED
    BY <1>1, <2>2 DEF Incarnation
<1>3. (room[r].epoch = 0 => I.epoch = epochs + 1) /\ (room[r].epoch # 0 => I = room[r])
  BY <1>1 DEF Incarnation, Absent, Room
<1>4. /\ room' = [room EXCEPT ![r] = Stored(I)] /\ pc = "wire" /\ pc' = "reply" /\ reply' = I.epoch
      /\ epochs' \in {epochs, epochs + 1}
      /\ UNCHANGED <<target, generation, originEpoch, assetsRev, rev, cyc, todo, fingerprint,
                     bodyRev, item, pushed>>
  BY DEF OriginAccepts, manager, beliefs, source
<1> HIDE DEF I
<1>5. room'[r] = Stored(I) /\ \A s \in Rooms \ {r} : room'[s] = room[s]
  BY <1>1, <1>4
<1>6. (Pushing' <=> Pushing) /\ (Current' <=> Current) /\ (item.kind = "asset" => Pushing)
  BY <1>4 DEF Pushing, OnWire, Current
<1>7. AcksIssued' /\ BelievedIsHere' /\ PushedIsHere' /\ BodiesAreNewer'
  BY <1>1, <1>4, <1>6, AssetTypes DEF AssetStore, AssetLoop, AcksIssued, BelievedIsHere, PushedIsHere,
     OneIsHere, BodiesAreNewer
<1>8. ASSUME NEW s \in Rooms, NEW a \in Assets, pushed[a] # 0, room'[s].epoch = pushed[a]
      PROVE  /\ room[s].epoch = pushed[a]
             /\ \/ room'[s].assets[a] = room[s].assets[a]
                \/ item.kind = "asset" /\ room'[s].assets[a] = bodyRev
  <2>1. CASE s # r
    BY <1>5, <1>8, <2>1
  <2>2. CASE s = r
    <3>1. I.epoch = pushed[a]
      BY <1>1, <1>2, <1>5, <1>8, <2>2, StoredAssets
    <3>2. pushed[a] <= epochs /\ pushed[a] \in Nat
      BY <1>1, AssetTypes DEF AssetStore, AcksIssued
    <3>3. I = room[r]
      BY <1>1, <1>3, <3>1, <3>2
    <3>4. QED
      BY <1>1, <1>2, <1>5, <1>8, <2>2, <3>1, <3>3, StoredAssets
  <2>3. QED
    BY <2>1, <2>2
<1>9. BelievedIsHeld'
  <2> SUFFICES ASSUME target # NoRoom, NEW a \in Assets, pushed[a] # 0, room'[target].epoch = pushed[a]
               PROVE  room'[target].assets[a] >= assetsRev
    BY <1>4 DEF BelievedIsHeld, AckedHolds
  <2>1. target \in Rooms
    BY <1>1 DEF TypeOK, TypeManager
  <2>2. room[target].assets[a] >= assetsRev
    BY <1>8, <2>1 DEF AssetStore, BelievedIsHeld, AckedHolds
  <2>3. item.kind = "asset" => bodyRev >= assetsRev
    BY <1>1, <1>6, AssetTypes DEF AssetLoop, BodiesAreNewer
  <2>4. QED
    BY <1>8, <2>1, <2>2, <2>3
<1>10. PushedIsHeld'
  <2> SUFFICES ASSUME Pushing, NEW a \in Assets \ todo, pushed[a] # 0, room'[r].epoch = pushed[a]
               PROVE  room'[r].assets[a] >= fingerprint
    BY <1>4, <1>6 DEF PushedIsHeld, AckedHolds
  <2>1. room[r].assets[a] >= fingerprint
    BY <1>1, <1>8 DEF AssetLoop, PushedIsHeld, AckedHolds
  <2>2. bodyRev >= fingerprint
    BY <1>1, AssetTypes DEF AssetLoop, BodiesAreNewer
  <2>3. QED
    BY <1>1, <1>8, <2>1, <2>2
<1>11. AnswerIsHeld'
  BY <1>1, <1>2, <1>4, <1>5, StoredAssets DEF AnswerIsHeld
<1>12. QED
  BY <1>4, <1>7, <1>9, <1>10, <1>11 DEF AssetStore, AssetLoop

\* The epoch of the reply: a new one empties the belief.
LEMMA AssetsObserved ==
  ASSUME BeliefInv, AssetStore, AssetLoop, ObserveEpoch
  PROVE  AssetStore' /\ AssetLoop'
<1>1. TypeOK
  BY DEF BeliefInv
<1>2. CASE ~Current
  <2>1. Retire /\ UNCHANGED <<target, originEpoch, assetsRev, room, epochs, pushed, rev>>
    BY <1>2 DEF ObserveEpoch, manager, beliefs, source, origin
  <2>2. ~Pushing' /\ fingerprint' = 0
    BY <2>1 DEF Retire, ClearLocals, Pushing, OnWire
  <2>3. QED
    BY <1>1, <2>1, <2>2, AssetTypes, AssetStoreRests, NotPushing
<1>3. CASE Current
  <2>1. /\ UNCHANGED <<target, room, epochs, pushed, rev, cyc, todo, fingerprint, bodyRev, item, reply>>
        /\ pc = "reply" /\ pc' = "mark" /\ originEpoch' = reply
        /\ \/ assetsRev' = 0
           \/ assetsRev' = assetsRev /\ originEpoch \in {0, reply}
    BY <1>3 DEF ObserveEpoch, Goto, ForgetTarget, manager, source, origin
  <2>2. AssetLoop'
    <3>1. Pushing' => Pushing
      BY <2>1 DEF Pushing, OnWire
    <3>2. QED
      BY <1>1, <2>1, <3>1, AssetLoopRests
  <2>3. CASE originEpoch' = originEpoch
    BY <1>1, <2>1, <2>2, <2>3, AssetStoreRests
  <2>4. CASE originEpoch' # originEpoch
    <3>1. assetsRev' = 0 \/ Assets = {}
      BY <2>1, <2>4 DEF AssetStore, BelievedIsHere, OneIsHere
    <3>2. AcksIssued' /\ BelievedIsHere'
      BY <2>1, <3>1 DEF AssetStore, AcksIssued, BelievedIsHere
    <3>3. BelievedIsHeld'
      <4>1. target # NoRoom => target \in Rooms
        BY <1>1 DEF TypeOK, TypeManager
      <4>2. QED
        BY <1>1, <2>1, <3>1, <4>1, AssetTypes DEF BelievedIsHeld, AckedHolds
    <3>4. assetsRev' <= rev'
      BY <1>1, <2>1, AssetTypes DEF AssetStore
    <3>5. QED
      BY <2>2, <3>2, <3>3, <3>4 DEF AssetStore
  <2>5. QED
    BY <2>3, <2>4
<1>4. QED
  BY <1>2, <1>3

\* The acknowledgement of an asset is one by the incarnation last heard from.
LEMMA AssetMarked ==
  ASSUME BeliefInv, AssetStore, AssetLoop, MarkSent
  PROVE  AssetStore' /\ AssetLoop'
<1>1. TypeOK
  BY DEF BeliefInv
<1>2. UNCHANGED <<target, originEpoch, assetsRev, room, epochs, rev>> /\ pc = "mark"
  BY DEF MarkSent, manager, source
<1>3. CASE ~Current
  <2>1. Retire /\ UNCHANGED pushed
    BY <1>3 DEF MarkSent
  <2>2. ~Pushing' /\ fingerprint' = 0
    BY <2>1 DEF Retire, ClearLocals, Pushing, OnWire
  <2>3. QED
    BY <1>1, <1>2, <2>1, <2>2, AssetTypes, AssetStoreRests, NotPushing
<1>4. CASE Current /\ item.kind # "asset"
  <2>1. UNCHANGED fingerprint /\ pc' \in {"media", "assets", "note"}
    BY <1>4 DEF MarkSent
  <2>2. UNCHANGED pushed
    BY <1>1, <1>4 DEF MarkSent, TypeOK, TypeOrigin
  <2>3. ~Pushing'
    BY <2>1 DEF Pushing, OnWire
  <2>4. QED
    BY <1>1, <1>2, <2>1, <2>2, <2>3, AssetStoreRests, NotPushing DEF AssetLoop
<1>5. CASE Current /\ item.kind = "asset"
  <2>1. /\ pc' = "asset" /\ todo' = todo \ {item.name}
        /\ pushed' = [a \in Assets |-> IF a = item.name THEN reply ELSE pushed[a]]
        /\ UNCHANGED <<cyc, fingerprint, bodyRev>>
    BY <1>5 DEF MarkSent
  <2>2. item.name \in Assets /\ Pushing
    BY <1>1, <1>2, <1>5 DEF TypeOK, TypeLoop, Item, Pushing, OnWire
  <2>3. cyc.room = target /\ cyc.room \in Rooms /\ originEpoch = reply /\ reply # 0 /\ reply <= epochs
    BY <1>2, <1>5 DEF BeliefInv, LoopInv, StoreInv, CycleIsCurrent, CycleHasRoom, ReplyIsTrue,
       MarkFollowsReply, EpochsIssued, TypeOK, TypeLoop, Cycle
  <2>4. room[cyc.room].epoch = reply => room[cyc.room].assets[item.name] = bodyRev
    BY <1>2, <1>5 DEF AssetLoop, AnswerIsHeld
  <2>5. fingerprint <= bodyRev /\ assetsRev <= bodyRev
    BY <2>2 DEF AssetLoop, BodiesAreNewer
  <2>6. AcksIssued'
    BY <1>2, <2>1, <2>3 DEF AssetStore, AcksIssued
  <2>7. OneIsHere'
    BY <1>2, <2>1, <2>2, <2>3 DEF OneIsHere
  <2>8. BelievedIsHeld'
    BY <1>1, <1>2, <2>1, <2>3, <2>4, <2>5, AssetTypes DEF AssetStore, BelievedIsHeld, AckedHolds
  <2>9. PushedIsHeld'
    BY <1>1, <1>2, <2>1, <2>2, <2>3, <2>4, <2>5, AssetTypes DEF AssetLoop, PushedIsHeld, AckedHolds
  <2>10. fingerprint' <= rev' /\ BodiesAreNewer' /\ AnswerIsHeld'
    BY <1>2, <2>1, <2>5 DEF AssetLoop, BodiesAreNewer, AnswerIsHeld
  <2>11. QED
    BY <1>2, <2>6, <2>7, <2>8, <2>9, <2>10 DEF AssetStore, BelievedIsHere, AssetLoop, PushedIsHere
<1>6. QED
  BY <1>3, <1>4, <1>5

\* A restart or a sweep: what is gone acknowledges nothing.
LEMMA AssetsLost ==
  ASSUME BeliefInv, AssetStore, AssetLoop, NEW S, Lose(S)
  PROVE  AssetStore' /\ AssetLoop'
<1>1. /\ UNCHANGED <<target, generation, originEpoch, assetsRev, epochs, pushed, rev, pc, cyc, todo,
                     fingerprint, bodyRev, item, reply>>
      /\ \A r \in Rooms : room'[r].epoch = 0 \/ room'[r] = room[r]
  BY DEF Lose, Absent, manager, beliefs, source, locals
<1>2. /\ target # NoRoom => target \in Rooms
      /\ Pushing => cyc.room \in Rooms
      /\ pc \in {"reply", "mark"} => cyc.room \in Rooms /\ reply # 0
  BY DEF BeliefInv, LoopInv, CycleHasRoom, ReplyIsTrue, TypeOK, TypeManager, TypeLoop, Cycle, Pushing,
     OnWire
<1>3. AcksIssued' /\ BelievedIsHere' /\ PushedIsHere' /\ BodiesAreNewer'
  BY <1>1 DEF AssetStore, AssetLoop, AcksIssued, BelievedIsHere, PushedIsHere, OneIsHere,
     BodiesAreNewer, Pushing, Current
<1>4. BelievedIsHeld'
  BY <1>1, <1>2 DEF AssetStore, BelievedIsHeld, AckedHolds
<1>5. PushedIsHeld'
  BY <1>1, <1>2 DEF AssetLoop, PushedIsHeld, AckedHolds, Pushing
<1>6. AnswerIsHeld'
  BY <1>1, <1>2 DEF AssetLoop, AnswerIsHeld
<1>7. QED
  BY <1>1, <1>3, <1>4, <1>5, <1>6 DEF AssetStore, AssetLoop

\* A change of the manager, or of what is around it.
LEMMA AssetsAround ==
  ASSUME BeliefInv, AssetStore, AssetLoop,
         \/ \E on \in BOOLEAN : SetEnabled(on)
         \/ Advance \/ ChangeAssets \/ MuxerReload \/ UNCHANGED vars
  PROVE  AssetStore' /\ AssetLoop'
<1>1. /\ UNCHANGED <<target, originEpoch, room, epochs, pushed, pc, cyc, todo, fingerprint, bodyRev,
                     item, reply>>
      /\ assetsRev' \in {0, assetsRev} /\ rev' \in {rev, rev + 1}
  BY DEF SetEnabled, Advance, ChangeAssets, MuxerReload, vars, ForgetTarget, manager, beliefs, source,
     locals, origin
<1>2. generation' = generation \/ generation' = generation + 1
  BY DEF SetEnabled, Advance, ChangeAssets, MuxerReload, vars, manager, Invalidate
<1>3. cyc.gen <= generation /\ generation \in Nat /\ cyc.gen \in Nat /\ TypeOK
  BY DEF BeliefInv, LoopInv, CycleIsCurrent, TypeOK, TypeManager, TypeLoop, Cycle
<1>4. Current' => Current
  BY <1>1, <1>2, <1>3 DEF Current
<1>5. Pushing' <=> Pushing
  BY <1>1 DEF Pushing
<1>6. QED
  BY <1>1, <1>3, <1>4, <1>5, AssetStoreRests, AssetLoopRests

LEMMA AssetsRetargeted ==
  ASSUME BeliefInv, AssetStore, AssetLoop, NEW t \in Rooms \union {NoRoom}, SetTarget(t)
  PROVE  AssetStore' /\ AssetLoop'
<1>1. /\ UNCHANGED <<room, epochs, pushed, pc, cyc, todo, fingerprint, bodyRev, item, reply, rev>>
      /\ assetsRev' = 0 /\ target' = t /\ generation' = generation + 1
  BY DEF SetTarget, Invalidate, ForgetTarget, source, locals, origin
<1>2. ~Current' /\ TypeOK
  BY <1>1 DEF Current, BeliefInv, LoopInv, CycleIsCurrent, TypeOK, TypeManager, TypeLoop, Cycle
<1>3. Pushing' <=> Pushing
  BY <1>1 DEF Pushing
<1>4. AssetLoop'
  BY <1>1, <1>2, <1>3, AssetLoopRests
<1>5. assetsRev' <= rev' /\ AcksIssued' /\ BelievedIsHere'
  BY <1>1, <1>2, AssetTypes DEF AssetStore, AcksIssued, BelievedIsHere
<1>6. BelievedIsHeld'
  BY <1>1, <1>2, AssetTypes DEF BelievedIsHeld, AckedHolds
<1>7. QED
  BY <1>4, <1>5, <1>6 DEF AssetStore

AssetInv == BeliefInv /\ AssetStore /\ AssetLoop

LEMMA AssetStep == AssetInv /\ [Next]_vars => AssetInv'
<1> SUFFICES ASSUME AssetInv, [Next]_vars PROVE AssetInv'
  OBVIOUS
<1>1. BeliefInv /\ TypeOK /\ AssetStore /\ AssetLoop /\ BeliefInv'
  BY BeliefStep DEF AssetInv, BeliefInv
<1> SUFFICES AssetStore' /\ AssetLoop'
  BY <1>1 DEF AssetInv
<1>2. CASE \/ Resolve \/ BeginOperation \/ NoOrigin \/ FetchMaster \/ FetchPlaylist
           \/ MediaDone \/ UploadPage \/ CheckAssets \/ UploadPlaylist
           \/ \E n \in Objects : UploadMedia(n) \/ MediaUnreadable(n)
           \/ Cancelled \/ FetchFails \/ PutFails \/ NoteSuccess \/ NoteFailure
  BY <1>1, <1>2, AssetsElsewhere
<1>3. CASE ReadAssets
  BY <1>1, <1>3, AssetsRead
<1>4. CASE \E a \in Assets : UploadAsset(a)
  BY <1>1, <1>4, AssetUploaded
<1>5. CASE AssetsDone
  BY <1>1, <1>5, AssetsFinished
<1>6. CASE OriginAccepts
  BY <1>1, <1>6, AssetsAccepted
<1>7. CASE ObserveEpoch
  BY <1>1, <1>7, AssetsObserved
<1>8. CASE MarkSent
  BY <1>1, <1>8, AssetMarked
<1>9. CASE OriginRestart \/ \E r \in Rooms : Sweep(r)
  BY <1>1, <1>9, AssetsLost DEF OriginRestart, Sweep
<1>10. CASE \/ \E on \in BOOLEAN : SetEnabled(on)
            \/ Advance \/ ChangeAssets \/ MuxerReload \/ UNCHANGED vars
  BY <1>1, <1>10, AssetsAround
<1>11. CASE \E t \in Rooms \union {NoRoom} : SetTarget(t)
  BY <1>1, <1>11, AssetsRetargeted
<1>12. QED
  BY <1>2, <1>3, <1>4, <1>5, <1>6, <1>7, <1>8, <1>9, <1>10, <1>11 DEF Next, Loop

(***************************************************************************)
(* The page's assets the manager believes it pushed are on the incarnation *)
(* it talks to, at that revision or a newer one: the fingerprint is read   *)
(* before the bodies (contribute.go:757-782) and stands for no push that   *)
(* failed or was overtaken.  Only a push whose assets two incarnations     *)
(* took is excepted, whatever the number of assets.                        *)
(***************************************************************************)
THEOREM AssetsAreTrue == Spec => []AssetsAreStored
<1>1. Init => AssetInv
  <2>1. Init => AssetStore
    BY DEF Init, AssetStore, AcksIssued, BelievedIsHeld, BelievedIsHere
  <2>2. Init => AssetLoop
    BY DEF Init, AssetLoop, BodiesAreNewer, PushedIsHeld, AnswerIsHeld, PushedIsHere, Pushing, OnWire
  <2>3. QED
    BY <2>1, <2>2, InitBelief DEF AssetInv
<1>2. AssetInv => AssetsAreStored
  <2> SUFFICES ASSUME AssetInv, Known, OneIncarnation, NEW a \in Assets
               PROVE  room[target].assets[a] >= assetsRev
    BY DEF AssetsAreStored
  <2>1. TypeOK /\ target \in Rooms
    BY DEF AssetInv, BeliefInv, TypeOK, TypeManager, Known
  <2>2. CASE assetsRev = 0
    BY <2>1, <2>2, AssetTypes
  <2>3. CASE assetsRev # 0
    <3>1. pushed[a] = originEpoch /\ originEpoch # 0
      BY <2>3 DEF AssetInv, AssetStore, BelievedIsHere, OneIsHere, OneIncarnation
    <3>2. QED
      BY <2>1, <3>1 DEF AssetInv, AssetStore, BelievedIsHeld, AckedHolds, Known
  <2>4. QED
    BY <2>2, <2>3
<1>3. QED
  BY <1>1, <1>2, AssetStep, PTL DEF Spec
=============================================================================

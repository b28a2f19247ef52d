----------------------------- MODULE OriginRoom -----------------------------
(***************************************************************************)
(* One room of the relay origin (internal/origin): the media the Mac       *)
(* uploads, the photos guests upload, and the eviction that keeps the      *)
(* room's memory bounded over a long set.                                  *)
(*                                                                         *)
(* Media beyond MaxMedia is evicted oldest first, except what is pinned:   *)
(* the fixed-name page and init segment a set uploads once (Pin, replaced  *)
(* by every playlist), the page's assets (PinSticky, for the life of the   *)
(* room) and a few guest photos (PutPhoto).  Every one of these operations *)
(* is a lock section of its own, and a handler is two or three of them, so *)
(* photo uploads interleave with one another and with the Mac.             *)
(*                                                                         *)
(* The Mac is as demanding as its contract allows: it uploads what its     *)
(* playlist requires before the playlist (module Contribute), never again  *)
(* what it has sent, and may repeat an upload whose reply was lost.        *)
(***************************************************************************)
EXTENDS Naturals, Sequences, FiniteSets, SequencesExt

CONSTANTS
  Assets,      \* static files the page references
  Photos,      \* guest photo uploads
  Window,      \* segments a playlist requires
  MaxMedia,    \* maxMediaPerRoom
  MaxPhotos,   \* photos kept, 32 in the code
  MaxQueue,    \* maxQueuedWrites
  Lag,         \* bound: segments uploaded beyond the playlist served
  MaxSegment,  \* bound: segments the muxer produces
  MaxInit      \* bound: init segments it names

ASSUME OriginBounds ==
  /\ Window \in Nat \ {0} /\ MaxPhotos \in Nat /\ MaxQueue \in Nat
  /\ Lag \in Nat \ {0}
  /\ MaxSegment \in Nat \ {0} /\ MaxInit \in Nat \ {0}
  /\ MaxMedia \in Nat \ {0} /\ IsFiniteSet(Assets) /\ IsFiniteSet(Photos)

VARIABLES
  \* Room, under Room.mu
  media,     \* names stored
  order,     \* the same names, oldest first
  pinned, sticky,
  photos,    \* kept photos, oldest first
  playlist,  \* the playlist served: its last segment and its init, or NoPlaylist
  \* The Mac
  head, init,  \* the muxer's last segment and current init segment
  sent,        \* media and page it has uploaded and will not upload again
  put,         \* the second lock section of the upload being handled
  \* Guest photos
  photo,     \* where each upload is
  queue      \* relay-upload writes waiting for the Mac

room == <<media, order, pinned, sticky, photos, playlist>>
mac  == <<head, init, sent, put>>
uploads == <<photo, queue>>
vars == <<room, mac, uploads>>

Name == [kind : {"segment"}, id : 1..MaxSegment] \union [kind : {"init"}, id : 1..MaxInit]
        \union [kind : {"page"}, id : {0}]
        \union [kind : {"asset"}, id : Assets] \union [kind : {"photo"}, id : Photos]
Segment(n) == [kind |-> "segment", id |-> n]
Map(i)     == [kind |-> "init", id |-> i]
Page       == [kind |-> "page", id |-> 0]
Asset(a)   == [kind |-> "asset", id |-> a]
Photo(p)   == [kind |-> "photo", id |-> p]

NoPlaylist == [head |-> 0, init |-> 0]
Required(p) == {Map(p.init)} \union {Segment(n) : n \in {k \in 1..p.head : k + Window > p.head}}

Nothing == [step |-> "none", name |-> Page, playlist |-> NoPlaylist]

Init ==
  /\ media = {} /\ order = <<>> /\ pinned = {Page} /\ sticky = {} /\ photos = <<>>
  /\ playlist = NoPlaylist
  /\ head = 1 /\ init = 1 /\ sent = {} /\ put = Nothing
  /\ photo = [p \in Photos |-> "new"] /\ queue = {}

-----------------------------------------------------------------------------
(* Room's operations, each one lock section.                               *)

\* How many of the first i names of s may be evicted.
Unpinned(s, i) == Cardinality({j \in 1..i : s[j] \notin pinned})

\* Evicting k names of s: those before the cut that are not pinned are dropped,
\* those that are pinned go to the end in their order.
Cut(s, k) == CHOOSE i \in 0..Len(s) :
               Unpinned(s, i) = k /\ \A j \in 0..(i - 1) : Unpinned(s, j) < k
Evicted(s, k) == {s[j] : j \in 1..Cut(s, k)} \ pinned
Rotated(s, c) == [i \in 1..(c - Unpinned(s, c)) |->
                    s[CHOOSE j \in 1..c : s[j] \in pinned /\ j - Unpinned(s, j) = i]]
Kept(s, k) == SubSeq(s, Cut(s, k) + 1, Len(s)) \o Rotated(s, Cut(s, k))

\* The slip: age alone decides.
PutMedia_OldestFirst(n) ==
  LET s == Append(order, n)
      evictable == Len(s) - Cardinality(pinned \intersect media)
      k == IF evictable > MaxMedia THEN evictable - MaxMedia ELSE 0
  IN IF n \in media THEN UNCHANGED <<media, order>>
     ELSE /\ order' = SubSeq(s, k + 1, Len(s))
          /\ media' = (media \ {s[j] : j \in 1..k}) \union {n}

\* PutMedia: pinnedCount looks at the store before the new name is in it.
PutMedia(n) ==
  LET s == Append(order, n)
      evictable == Len(s) - Cardinality(pinned \intersect media)
      k == IF evictable > MaxMedia THEN evictable - MaxMedia ELSE 0
  IN IF n \in media THEN UNCHANGED <<media, order>>
     ELSE /\ order' = Kept(s, k)
          /\ media' = (media \ Evicted(s, k)) \union {n}

\* The slip: the replacement forgets the page's assets.
Pin_DropsSticky(names) == pinned' = names
Pin(names) == pinned' = sticky \union names

\* s without the first n in it.
Without(s, n) ==
  IF \A i \in 1..Len(s) : s[i] # n THEN s
  ELSE LET c == CHOOSE i \in 1..Len(s) : s[i] = n /\ \A j \in 1..(i - 1) : s[j] # n
       IN [i \in 1..(Len(s) - 1) |-> IF i < c THEN s[i] ELSE s[i + 1]]

-----------------------------------------------------------------------------
(* The Mac's uploads: Handler.upload.                                      *)

\* PutMedia of a segment, an init segment or the page.
UploadMedia(n) ==
  /\ put = Nothing
  /\ n \in Required([head |-> head, init |-> init]) \union {Page} /\ n \notin sent
  /\ PutMedia(n)
  /\ sent' \in {sent, sent \union {n}}         \* the reply may be lost
  /\ UNCHANGED <<pinned, sticky, photos, playlist, head, init, put, uploads>>

UploadAsset(a) ==                \* X-PP-Pin: PinSticky, then PutMedia
  /\ put = Nothing
  /\ sticky' = sticky \union {Asset(a)} /\ pinned' = pinned \union {Asset(a)}
  /\ put' = [Nothing EXCEPT !.step = "media", !.name = Asset(a)]
  /\ UNCHANGED <<media, order, photos, playlist, head, init, sent, uploads>>

StoreAsset ==
  /\ put.step = "media"
  /\ PutMedia(put.name) /\ put' = Nothing
  /\ UNCHANGED <<pinned, sticky, photos, playlist, head, init, sent, uploads>>

\* A playlist pins the init segment it names, then is stored.
UploadPlaylist ==
  LET p == [head |-> head, init |-> init] IN
  /\ put = Nothing /\ Required(p) \subseteq sent
  /\ Pin({Map(init), Page})
  /\ put' = [Nothing EXCEPT !.step = "playlist", !.playlist = p]
  /\ UNCHANGED <<media, order, sticky, photos, playlist, head, init, sent, uploads>>

StorePlaylist ==                 \* PutPlaylist
  /\ put.step = "playlist"
  /\ playlist' = put.playlist /\ put' = Nothing
  /\ sent' = sent \intersect (Required(put.playlist) \union {Page})     \* pruneSentAt
  /\ UNCHANGED <<media, order, pinned, sticky, photos, head, init, uploads>>

Advance ==                       \* the muxer completes a segment
  /\ head < MaxSegment /\ head < playlist.head + Lag /\ head' = head + 1
  /\ UNCHANGED <<room, init, sent, put, uploads>>

NewInit ==                       \* the muxer starts over: another init, another segment
  /\ head < MaxSegment /\ head < playlist.head + Lag /\ head' = head + 1
  /\ init < MaxInit /\ init' = init + 1
  /\ UNCHANGED <<room, sent, put, uploads>>

-----------------------------------------------------------------------------
(* Guest photos: Handler.relayPhotoUpload.                                 *)

StorePhoto(p) ==                 \* PutPhoto's PutMedia
  /\ photo[p] = "new"
  /\ PutMedia(Photo(p))
  /\ photo' = [photo EXCEPT ![p] = "stored"]
  /\ UNCHANGED <<pinned, sticky, photos, playlist, mac, queue>>

\* The slip: the oldest photo never goes.
KeepPhoto_NoCap(p) ==
  /\ photo[p] = "stored"
  /\ photos' = Append(photos, Photo(p)) /\ pinned' = pinned \union {Photo(p)}
  /\ photo' = [photo EXCEPT ![p] = "kept"]
  /\ UNCHANGED <<media, order, sticky, playlist, mac, queue>>

KeepPhoto(p) ==                  \* PutPhoto's own section: pin, and cap the photos
  LET s == Append(photos, Photo(p)) IN
  /\ photo[p] = "stored"
  /\ IF Len(s) > MaxPhotos
     THEN /\ photos' = Tail(s) /\ pinned' = (pinned \union {Photo(p)}) \ {Head(s)}
          /\ media' = media \ {Head(s)} /\ order' = Without(order, Head(s))
     ELSE photos' = s /\ pinned' = pinned \union {Photo(p)} /\ UNCHANGED <<media, order>>
  /\ photo' = [photo EXCEPT ![p] = "kept"]
  /\ UNCHANGED <<sticky, playlist, mac, queue>>

QueuePhoto(p) ==                 \* Enqueue("relay-upload", ...)
  /\ photo[p] = "kept"
  /\ IF Cardinality(queue) < MaxQueue
     THEN queue' = queue \union {p} /\ photo' = [photo EXCEPT ![p] = "accepted"]
     ELSE UNCHANGED queue /\ photo' = [photo EXCEPT ![p] = "refusing"]
  /\ UNCHANGED <<room, mac>>

\* The slip: the name stays on the list of photos.
DropPhoto_KeepsList(p) ==
  /\ photo[p] = "refusing"
  /\ media' = media \ {Photo(p)} /\ pinned' = pinned \ {Photo(p)}
  /\ order' = Without(order, Photo(p)) /\ UNCHANGED photos
  /\ photo' = [photo EXCEPT ![p] = "refused"]
  /\ UNCHANGED <<sticky, playlist, mac, queue>>

DropPhoto(p) ==                  \* dropPhoto
  /\ photo[p] = "refusing"
  /\ media' = media \ {Photo(p)} /\ pinned' = pinned \ {Photo(p)}
  /\ photos' = Without(photos, Photo(p)) /\ order' = Without(order, Photo(p))
  /\ photo' = [photo EXCEPT ![p] = "refused"]
  /\ UNCHANGED <<sticky, playlist, mac, queue>>

Drain ==
  /\ queue # {} /\ queue' = {}
  /\ UNCHANGED <<room, mac, photo>>

-----------------------------------------------------------------------------
Next ==
  \/ \E n \in Name : UploadMedia(n)
  \/ \E a \in Assets : UploadAsset(a)
  \/ StoreAsset \/ UploadPlaylist \/ StorePlaylist \/ Advance \/ NewInit
  \/ \E p \in Photos : StorePhoto(p) \/ KeepPhoto(p) \/ QueuePhoto(p) \/ DropPhoto(p)
  \/ Drain

Spec == Init /\ [][Next]_vars

-----------------------------------------------------------------------------
Playlist == [head : 0..MaxSegment, init : 0..MaxInit]

\* The values of the room, the Mac and the uploads (origin.go:58-96,
\* handler.go:500-542); no more photos are kept than the cap.
TypeOK ==
  /\ media \in SUBSET Name /\ order \in Seq(Name)
  /\ pinned \in SUBSET Name /\ sticky \in SUBSET {Asset(a) : a \in Assets}
  /\ photos \in Seq({Photo(p) : p \in Photos}) /\ Len(photos) <= MaxPhotos
  /\ playlist \in Playlist
  /\ head \in 1..MaxSegment /\ init \in 1..MaxInit /\ sent \in SUBSET Name
  /\ put \in [step : {"none", "media", "playlist"}, name : Name, playlist : Playlist]
  /\ photo \in [Photos -> {"new", "stored", "kept", "refusing", "accepted", "refused"}]
  /\ queue \in SUBSET Photos

(***************************************************************************)
(* The room's memory is bounded for the whole set, whatever guests upload  *)
(* and however often the muxer starts over (origin.go:38-42, 124-134).     *)
(***************************************************************************)
MemoryBounded == Cardinality(media) <= MaxMedia + Cardinality(sticky) + MaxPhotos + 2

(***************************************************************************)
(* The rolling window is a window: an object other than a photo is lost    *)
(* only when it is not pinned, no older such object stays, and the window  *)
(* is full of younger ones (one less when the newcomer is itself pinned,   *)
(* as PutMedia counts the pins before it adds it); so what the published   *)
(* playlist names stays for as long as the window is larger than it and    *)
(* what guests add meanwhile (origin.go:115-134).                          *)
(***************************************************************************)
OldestGoes ==
  [][\A n \in media \ media' : n.kind # "photo" =>
       /\ n \notin pinned
       /\ Cardinality(media' \ pinned) >= MaxMedia - 1
       /\ \A i, j \in DOMAIN order : order[i] = n /\ order[j] \in media' \ pinned => i < j]_vars

(***************************************************************************)
(* The guest page and the page's assets, once stored, stay for the life of *)
(* the room (origin.go:195-199, 215-219).                                  *)
(***************************************************************************)
KeptForTheSet == [][\A n \in media \intersect ({Page} \union sticky) : n \in media']_vars

(***************************************************************************)
(* A photo whose guest was told it failed leaves nothing behind            *)
(* (origin.go:162-164), whatever cap, eviction or pinning happened         *)
(* between its upload and its refusal.                                     *)
(***************************************************************************)
RefusedLeavesNothing ==
  \A p \in Photos : photo[p] = "refused" =>
    Photo(p) \notin media \union pinned \union ToSet(photos)
=============================================================================

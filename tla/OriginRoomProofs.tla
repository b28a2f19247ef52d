-------------------------- MODULE OriginRoomProofs --------------------------
(***************************************************************************)
(* Proofs about OriginRoom, for every number of photos, assets and         *)
(* segments and every bound: the page and its assets stay for the life of  *)
(* the room, a refused photo leaves nothing behind, the memory is bounded  *)
(* and the window loses its oldest first.                                  *)
(*                                                                         *)
(* The eviction of PutMedia is a closed form over positions; that its      *)
(* result lists what is kept, and how much, goes by the least position     *)
(* that would be wrong (LeastIn).                                          *)
(***************************************************************************)
EXTENDS OriginRoom, FiniteSetTheorems, WellFoundedInduction, TLAPS

-----------------------------------------------------------------------------
(* The inductive invariant.                                                *)

AssetNames == {Asset(a) : a \in Assets}
PhotoNames == {Photo(p) : p \in Photos}
PhotoStates == {"new", "stored", "kept", "refusing", "accepted", "refused"}

\* The page and the sticky names are pinned; only photos are capped and dropped.
Pins ==
  /\ Page \in pinned /\ sticky \subseteq pinned /\ sticky \subseteq AssetNames
  /\ photos \in Seq(PhotoNames)

\* The list of kept photos names each of them once.
Distinct(s) == \A i, j \in 1..Len(s) : i # j => s[i] # s[j]
Lists(s, n) == \E i \in 1..Len(s) : s[i] = n

\* A photo is nowhere before it is stored and after it is refused, and on the
\* list only once it is kept.
Traces ==
  /\ photo \in [Photos -> PhotoStates]
  /\ Distinct(photos)
  /\ \A p \in Photos :
       /\ photo[p] \in {"new", "stored", "refused"} =>
            ~Lists(photos, Photo(p)) /\ Photo(p) \notin pinned
       /\ photo[p] \in {"new", "refused"} => Photo(p) \notin media
  /\ put.name \notin PhotoNames /\ sticky \subseteq AssetNames

-----------------------------------------------------------------------------
(* Names and sequences.                                                    *)

\* The kinds of name keep them apart.
LEMMA NamesDiffer ==
  /\ \A n \in PhotoNames : n # Page /\ n \notin AssetNames
  /\ \A i : Map(i) \notin PhotoNames /\ Segment(i) \notin PhotoNames
  /\ \A p, q \in Photos : Photo(p) = Photo(q) => p = q
  /\ Page \notin PhotoNames
<1>1. /\ \A p : Photo(p).kind = "photo" /\ Photo(p).id = p
      /\ Page.kind = "page" /\ \A i : Map(i).kind = "init"
      /\ \A a : Asset(a).kind = "asset" /\ \A i : Segment(i).kind = "segment"
  BY DEF Photo, Page, Asset, Map, Segment
<1>2. "photo" # "page" /\ "photo" # "asset" /\ "photo" # "init" /\ "photo" # "segment"
  OBVIOUS
<1>3. \A p, q \in Photos : Photo(p) = Photo(q) => p = q
  <2> SUFFICES ASSUME NEW p \in Photos, NEW q \in Photos, Photo(p) = Photo(q)
               PROVE  p = q
    OBVIOUS
  <2>1. Photo(p).id = Photo(q).id
    OBVIOUS
  <2>2. QED
    BY <1>1, <2>1
<1>4. \A n \in PhotoNames : n.kind = "photo"
  BY <1>1 DEF PhotoNames
<1>5. \A n \in AssetNames : n.kind = "asset"
  BY <1>1 DEF AssetNames
<1>6. QED
  BY <1>1, <1>2, <1>3, <1>4, <1>5, Zenon

\* Appending a photo that is not on the list, and taking the oldest off it.
LEMMA AppendPhoto ==
  ASSUME NEW s \in Seq(PhotoNames), NEW n \in PhotoNames, Distinct(s), ~Lists(s, n)
  PROVE  LET v == Append(s, n) IN
         /\ v \in Seq(PhotoNames) /\ Distinct(v) /\ v # <<>>
         /\ \A m : Lists(v, m) <=> Lists(s, m) \/ m = n
<1> DEFINE v == Append(s, n)
<1>1. /\ v \in Seq(PhotoNames) /\ v # <<>>
      /\ Len(s) \in Nat /\ Len(v) = Len(s) + 1 /\ v[Len(s) + 1] = n
      /\ \A i \in 1..Len(s) : v[i] = s[i]
  OBVIOUS
<1> HIDE DEF v
<1>2. \A i \in 1..Len(v) : i \in 1..Len(s) \/ i = Len(s) + 1
  BY <1>1
<1>3. Distinct(v)
  BY <1>1, <1>2 DEF Distinct, Lists
<1>4. \A m : Lists(v, m) <=> Lists(s, m) \/ m = n
  <2>1. Len(s) + 1 \in 1..Len(v) /\ \A i \in 1..Len(s) : i \in 1..Len(v)
    BY <1>1
  <2>2. QED
    BY <1>1, <1>2, <2>1 DEF Lists
<1>5. QED
  BY <1>1, <1>3, <1>4 DEF v

LEMMA TailPhotos ==
  ASSUME NEW s \in Seq(PhotoNames), Distinct(s), s # <<>>
  PROVE  /\ Tail(s) \in Seq(PhotoNames) /\ Distinct(Tail(s)) /\ Head(s) \in PhotoNames
         /\ \A m : Lists(Tail(s), m) <=> Lists(s, m) /\ m # Head(s)
<1> DEFINE u == Tail(s)
<1>1. /\ u \in Seq(PhotoNames) /\ Head(s) \in PhotoNames
      /\ Len(s) \in Nat /\ Len(u) = Len(s) - 1 /\ Head(s) = s[1] /\ 1 \in 1..Len(s)
      /\ \A i \in 1..Len(u) : i + 1 \in 1..Len(s) /\ u[i] = s[i + 1]
  OBVIOUS
<1> HIDE DEF u
<1>2. Distinct(u)
  <2> SUFFICES ASSUME NEW i \in 1..Len(u), NEW j \in 1..Len(u), i # j
               PROVE  u[i] # u[j]
    BY DEF Distinct
  <2>1. i + 1 \in 1..Len(s) /\ j + 1 \in 1..Len(s) /\ i + 1 # j + 1
    BY <1>1
  <2>2. QED
    BY <1>1, <2>1 DEF Distinct
<1>3. ASSUME NEW i \in 1..Len(u) PROVE u[i] # Head(s) /\ Lists(s, u[i])
  <2>1. i + 1 \in 1..Len(s) /\ i + 1 # 1
    BY <1>1
  <2>2. QED
    BY <1>1, <2>1 DEF Distinct, Lists
<1>4. ASSUME NEW i \in 1..Len(s), s[i] # Head(s) PROVE Lists(u, s[i])
  <2>1. i # 1
    BY <1>1, <1>4
  <2>2. i - 1 \in 1..Len(u) /\ (i - 1) + 1 = i
    BY <1>1, <2>1
  <2>3. u[i - 1] = s[i]
    BY <1>1, <2>2
  <2>4. QED
    BY <2>2, <2>3 DEF Lists
<1>5. \A m : Lists(u, m) <=> Lists(s, m) /\ m # Head(s)
  BY <1>3, <1>4 DEF Lists
<1>6. QED
  BY <1>1, <1>2, <1>5 DEF u

\* Without takes a name off a list that has it once.
LEMMA WithoutLists ==
  ASSUME NEW S, NEW s \in Seq(S), NEW n, Distinct(s)
  PROVE  /\ Without(s, n) \in Seq(S) /\ Distinct(Without(s, n)) /\ Len(Without(s, n)) <= Len(s)
         /\ \A m : Lists(Without(s, n), m) <=> Lists(s, m) /\ m # n
<1>1. CASE \A i \in 1..Len(s) : s[i] # n
  <2>1. Without(s, n) = s /\ Len(s) \in Nat
    BY <1>1 DEF Without
  <2>2. QED
    BY <1>1, <2>1 DEF Lists
<1>2. CASE ~ \A i \in 1..Len(s) : s[i] # n
  <2> DEFINE First(i) == s[i] = n /\ \A j \in 1..(i - 1) : s[j] # n
             c == CHOOSE i \in 1..Len(s) : First(i)
             w == [i \in 1..(Len(s) - 1) |-> IF i < c THEN s[i] ELSE s[i + 1]]
  <2>1. Without(s, n) = w
    BY <1>2 DEF Without
  <2>2. \E i \in 1..Len(s) : First(i)
    <3>1. PICK k \in 1..Len(s) : s[k] = n
      BY <1>2
    <3>2. \A j \in 1..(k - 1) : s[j] # n
      BY <3>1 DEF Distinct
    <3>3. QED
      BY <3>1, <3>2
  <2>3. c \in 1..Len(s) /\ s[c] = n
    BY <2>2
  <2>4. Len(s) \in Nat /\ Len(s) - 1 \in Nat /\ \A i \in 1..Len(s) : s[i] \in S
    BY <2>3
  <2> HIDE DEF c
  <2>5. /\ \A i \in 1..(Len(s) - 1) : i \in 1..Len(s) /\ i + 1 \in 1..Len(s)
        /\ \A i \in 1..(Len(s) - 1) : w[i] = IF i < c THEN s[i] ELSE s[i + 1]
    BY <2>4
  <2>6. w \in Seq(S) /\ Len(w) = Len(s) - 1
    BY <2>4, <2>5
  <2> HIDE DEF w
  <2>7. Distinct(w)
    <3> SUFFICES ASSUME NEW i \in 1..Len(w), NEW j \in 1..Len(w), i # j
                 PROVE  w[i] # w[j]
      BY DEF Distinct
    <3>1. /\ i \in 1..Len(s) /\ i + 1 \in 1..Len(s) /\ j \in 1..Len(s) /\ j + 1 \in 1..Len(s)
          /\ w[i] = (IF i < c THEN s[i] ELSE s[i + 1])
          /\ w[j] = (IF j < c THEN s[j] ELSE s[j + 1])
      BY <2>5, <2>6
    <3>2. QED
      BY <2>3, <3>1 DEF Distinct
  <2>8. ~Lists(w, n)
    <3> SUFFICES ASSUME NEW i \in 1..Len(w), w[i] = n PROVE FALSE
      BY DEF Lists
    <3>1. /\ i \in 1..Len(s) /\ i + 1 \in 1..Len(s)
          /\ w[i] = IF i < c THEN s[i] ELSE s[i + 1]
      BY <2>5, <2>6
    <3>2. QED
      BY <2>3, <3>1 DEF Distinct
  <2>9. \A m : Lists(w, m) => Lists(s, m)
    BY <2>5, <2>6 DEF Lists
  <2>10. ASSUME NEW i \in 1..Len(s), s[i] # n PROVE Lists(w, s[i])
    <3>1. CASE i < c
      <4>1. i \in 1..(Len(s) - 1)
        BY <2>3, <2>4, <3>1
      <4>2. w[i] = s[i]
        BY <2>5, <3>1, <4>1
      <4>3. QED
        BY <2>6, <4>1, <4>2 DEF Lists
    <3>2. CASE c < i
      <4>1. i - 1 \in 1..(Len(s) - 1) /\ (i - 1) + 1 = i /\ ~(i - 1 < c)
        BY <2>3, <2>4, <3>2
      <4>2. w[i - 1] = s[i]
        BY <2>5, <4>1
      <4>3. QED
        BY <2>6, <4>1, <4>2 DEF Lists
    <3>3. QED
      BY <2>3, <2>4, <2>10, <3>1, <3>2
  <2>11. \A m : Lists(w, m) <=> Lists(s, m) /\ m # n
    BY <2>8, <2>9, <2>10 DEF Lists
  <2>12. QED
    BY <2>1, <2>4, <2>6, <2>7, <2>11
<1>3. QED
  BY <1>1, <1>2

-----------------------------------------------------------------------------
(* Counting the names that may be evicted.                                 *)

\* A set of naturals has a least element.
LEMMA LeastIn ==
  ASSUME NEW T \in SUBSET Nat, T # {}
  PROVE  \E x \in T : \A y \in T : x <= y
<1> DEFINE R == OpToRel(<, Nat)
<1>1. IsWellFoundedOn(R, Nat)
  BY NatLessThanWellFounded
<1>2. \A x, y \in Nat : x < y => <<x, y>> \in R
  BY Zenon DEF OpToRel
<1> HIDE DEF R
<1>3. PICK x \in T : \A y \in T : ~ (<<y, x>> \in R)
  BY <1>1, WFMin
<1>4. \A y \in T : ~ (y < x)
  BY <1>2, <1>3, Zenon
<1>5. QED
  BY <1>4

\* As many places as the length of a list.
LEMMA PlacesOf ==
  ASSUME NEW n \in Nat
  PROVE  IsFiniteSet(1..n) /\ Cardinality(1..n) = n
BY FS_Interval

\* Unpinned counts one more at every name that is not pinned.
LEMMA UnpinnedCounts ==
  ASSUME NEW s, NEW i \in Nat
  PROVE  /\ Unpinned(s, i) \in Nat /\ Unpinned(s, i) <= i
         /\ s[i + 1] \in pinned => Unpinned(s, i + 1) = Unpinned(s, i)
         /\ s[i + 1] \notin pinned => Unpinned(s, i + 1) = Unpinned(s, i) + 1
<1> DEFINE A(m) == {j \in 1..m : s[j] \notin pinned}
<1>1. IsFiniteSet(1..i) /\ Cardinality(1..i) = i
  BY PlacesOf
<1>2. A(i) \in SUBSET (1..i)
  OBVIOUS
<1>3. IsFiniteSet(A(i)) /\ Cardinality(A(i)) <= i
  BY <1>1, <1>2, FS_Subset, Zenon
<1>4. Cardinality(A(i)) \in Nat
  BY <1>3, FS_CardinalityType, Zenon
<1>5. 1..(i + 1) = (1..i) \union {i + 1} /\ i + 1 \notin 1..i
  OBVIOUS
<1>6. CASE s[i + 1] \in pinned
  <2>1. A(i + 1) = A(i)
    BY <1>5, <1>6
  <2>2. QED
    BY <1>3, <1>4, <1>6, <2>1 DEF Unpinned
<1>7. CASE s[i + 1] \notin pinned
  <2>1. A(i + 1) = A(i) \union {i + 1} /\ i + 1 \notin A(i)
    BY <1>5, <1>7
  <2> HIDE DEF A
  <2>2. Cardinality(A(i + 1)) = Cardinality(A(i)) + 1
    BY <1>3, <2>1, FS_AddElement
  <2>3. QED
    BY <1>3, <1>4, <1>7, <2>2 DEF Unpinned, A
<1>8. QED
  BY <1>6, <1>7

LEMMA UnpinnedOfNone == ASSUME NEW s PROVE Unpinned(s, 0) = 0
<1>1. Unpinned(s, 0) \in Nat /\ Unpinned(s, 0) <= 0
  BY UnpinnedCounts
<1>2. QED
  BY <1>1

\* Between two places of the list there are at most as many such names.
LEMMA UnpinnedRises ==
  ASSUME NEW s, NEW i \in Nat, NEW j \in Nat, i <= j
  PROVE  /\ Unpinned(s, j) <= Unpinned(s, i) + (j - i)
         /\ i < j /\ s[j] \in pinned => Unpinned(s, j) < Unpinned(s, i) + (j - i)
<1> DEFINE D(m) == Unpinned(s, i) + (m - i) - Unpinned(s, m)
           T == {m \in Nat : i <= m /\ D(m) < 0}
<1>1. \A m \in Nat : /\ Unpinned(s, m) \in Nat
                     /\ s[m + 1] \in pinned => Unpinned(s, m + 1) = Unpinned(s, m)
                     /\ s[m + 1] \notin pinned => Unpinned(s, m + 1) = Unpinned(s, m) + 1
  BY UnpinnedCounts
<1>2. \A m \in Nat : i <= m => D(m) >= 0
  <2> SUFFICES ASSUME T # {} PROVE FALSE
    <3> SUFFICES ASSUME NEW m \in Nat, i <= m, ~(D(m) >= 0) PROVE m \in T
      OBVIOUS
    <3>1. D(m) \in Int
      BY <1>1
    <3>2. QED
      BY <3>1
  <2>1. PICK x \in T : \A y \in T : x <= y
    <3>1. T \in SUBSET Nat
      OBVIOUS
    <3> HIDE DEF T
    <3>2. QED
      BY <3>1, LeastIn
  <2>2. x # i
    BY <1>1, <2>1
  <2>3. x - 1 \in Nat /\ i <= x - 1 /\ x - 1 \notin T
    BY <2>1, <2>2
  <2>4. D(x - 1) >= 0 /\ D(x) >= D(x - 1)
    BY <1>1, <2>1, <2>3
  <2>5. QED
    BY <1>1, <2>1, <2>4
<1>3. CASE i = j
  BY <1>1, <1>3
<1>4. CASE i < j
  <2>1. j - 1 \in Nat /\ i <= j - 1 /\ (j - 1) + 1 = j
    BY <1>4
  <2>2. D(j - 1) >= 0 /\ D(j) >= 0
    BY <1>2, <2>1
  <2>3. /\ s[j] \in pinned => Unpinned(s, j) = Unpinned(s, j - 1)
        /\ s[j] \notin pinned => Unpinned(s, j) = Unpinned(s, j - 1) + 1
    BY <1>1, <2>1
  <2>4. QED
    BY <1>1, <2>1, <2>2, <2>3
<1>5. QED
  BY <1>3, <1>4

\* The cut is before any place that leaves enough names to evict.
LEMMA CutIsThere ==
  ASSUME NEW s, Len(s) \in Nat, NEW k \in Nat, NEW m \in 0..Len(s), k <= Unpinned(s, m)
  PROVE  Cut(s, k) \in 0..m /\ Unpinned(s, Cut(s, k)) = k
<1> DEFINE T == {i \in Nat : k <= Unpinned(s, i)}
           First(i) == Unpinned(s, i) = k /\ \A j \in 0..(i - 1) : Unpinned(s, j) < k
<1>1. \A i \in Nat : /\ Unpinned(s, i) \in Nat
                     /\ Unpinned(s, i + 1) <= Unpinned(s, i) + 1
  <2> SUFFICES ASSUME NEW i \in Nat
               PROVE  Unpinned(s, i) \in Nat /\ Unpinned(s, i + 1) <= Unpinned(s, i) + 1
    OBVIOUS
  <2>1. /\ Unpinned(s, i) \in Nat
        /\ Unpinned(s, i + 1) = Unpinned(s, i) \/ Unpinned(s, i + 1) = Unpinned(s, i) + 1
    BY UnpinnedCounts
  <2>2. QED
    BY <2>1
<1>2. PICK x \in T : \A y \in T : x <= y
  <2>1. T \in SUBSET Nat /\ m \in T
    OBVIOUS
  <2> HIDE DEF T
  <2>2. QED
    BY <2>1, LeastIn
<1>3. ASSUME NEW j \in 0..(x - 1) PROVE Unpinned(s, j) < k
  <2>1. j \in Nat /\ j < x
    BY <1>2
  <2>2. ~(k <= Unpinned(s, j))
    <3>1. j \notin T
      BY <1>2, <2>1
    <3>2. QED
      BY <2>1, <3>1
  <2>3. Unpinned(s, j) \in Nat
    BY <1>1, <2>1
  <2>4. QED
    BY <2>2, <2>3
<1>4. Unpinned(s, x) = k
  <2>1. CASE x = 0
    BY <1>2, <2>1, UnpinnedOfNone
  <2>2. CASE x # 0
    <3>1. x - 1 \in 0..(x - 1) /\ (x - 1) + 1 = x /\ x - 1 \in Nat /\ x \in Nat
      BY <1>2, <2>2
    <3>2. Unpinned(s, x) <= Unpinned(s, x - 1) + 1
      BY <1>1, <3>1
    <3>3. Unpinned(s, x - 1) < k /\ k <= Unpinned(s, x)
      BY <1>2, <1>3, <3>1
    <3>4. Unpinned(s, x) \in Nat /\ Unpinned(s, x - 1) \in Nat
      BY <1>1, <3>1
    <3>5. QED
      BY <3>2, <3>3, <3>4
  <2>3. QED
    BY <2>1, <2>2
<1>5. x \in 0..Len(s) /\ x <= m
  BY <1>2
<1>6. First(x)
  BY <1>3, <1>4
<1>7. Cut(s, k) = CHOOSE i \in 0..Len(s) : First(i)
  BY DEF Cut
<1>8. Cut(s, k) \in 0..Len(s) /\ First(Cut(s, k))
  <2> HIDE DEF First
  <2> QED
    BY <1>5, <1>6, <1>7
<1>9. ~ (m < Cut(s, k))
  <2> SUFFICES ASSUME m < Cut(s, k) PROVE FALSE
    OBVIOUS
  <2>1. m \in 0..(Cut(s, k) - 1)
    BY <1>8
  <2>2. Unpinned(s, m) < k /\ m \in Nat
    BY <1>8, <2>1
  <2>3. QED
    BY <1>1, <2>2
<1>10. QED
  BY <1>8, <1>9

\* The names that are rotated are the pinned ones before the cut, each once.
LEMMA RotatedLists ==
  ASSUME NEW S, NEW s \in Seq(S), Distinct(s), NEW c \in 0..Len(s)
  PROVE  /\ Rotated(s, c) \in Seq(S) /\ Distinct(Rotated(s, c))
         /\ \A n : Lists(Rotated(s, c), n) <=> n \in pinned /\ \E j \in 1..c : s[j] = n
<1> DEFINE rank(j) == j - Unpinned(s, j)
           Holds(i, j) == s[j] \in pinned /\ rank(j) = i
           at(i) == CHOOSE j \in 1..c : Holds(i, j)
           r == Rotated(s, c)
<1>1. \A j \in Nat : Unpinned(s, j) \in Nat /\ rank(j) \in Nat
  BY UnpinnedCounts
<1>2. Len(s) \in Nat /\ c \in Nat /\ \A j \in 1..c : j \in 1..Len(s) /\ s[j] \in S
  OBVIOUS
<1>3. ASSUME NEW i \in Nat, NEW j \in Nat, i <= j
      PROVE  rank(i) <= rank(j) /\ (i < j /\ s[j] \in pinned => rank(i) < rank(j))
  <2>1. /\ Unpinned(s, j) <= Unpinned(s, i) + (j - i)
        /\ i < j /\ s[j] \in pinned => Unpinned(s, j) < Unpinned(s, i) + (j - i)
    BY <1>3, UnpinnedRises
  <2>2. Unpinned(s, i) \in Nat /\ Unpinned(s, j) \in Nat
    BY <1>1
  <2>3. rank(i) <= rank(j)
    BY <2>1, <2>2
  <2>4. ASSUME i < j, s[j] \in pinned PROVE rank(i) < rank(j)
    BY <2>1, <2>2, <2>4
  <2>5. QED
    BY <2>3, <2>4
<1>4. \A i, j \in Nat : i < j /\ s[j] \in pinned => rank(i) < rank(j)
  BY <1>3
<1>5. ASSUME NEW i \in 1..rank(c)
      PROVE  at(i) \in 1..c /\ Holds(i, at(i))
  <2> DEFINE T == {j \in Nat : i <= rank(j)}
  <2>1. PICK x \in T : \A y \in T : x <= y
    <3>1. T \in SUBSET Nat /\ c \in T
      BY <1>1
    <3> HIDE DEF T
    <3>2. QED
      BY <3>1, LeastIn
  <2>2. x \in Nat /\ i <= rank(x) /\ x <= c
    BY <1>1, <2>1
  <2>3. x # 0
    <3>1. rank(0) = 0
      <4>1. Unpinned(s, 0) \in Nat /\ 0 - Unpinned(s, 0) \in Nat
        BY <1>1
      <4>2. QED
        BY <4>1
    <3> HIDE DEF rank
    <3>2. QED
      BY <2>2, <3>1
  <2>4. x - 1 \in Nat /\ rank(x - 1) < i /\ (x - 1) + 1 = x
    <3>1. x - 1 \in Nat /\ x - 1 \notin T
      BY <2>1, <2>2, <2>3
    <3>2. rank(x - 1) \in Nat /\ ~(i <= rank(x - 1))
      BY <1>1, <3>1
    <3> HIDE DEF rank, T
    <3>3. QED
      BY <2>2, <3>1, <3>2
  <2>5. /\ s[x] \in pinned => Unpinned(s, x) = Unpinned(s, x - 1)
        /\ s[x] \notin pinned => Unpinned(s, x) = Unpinned(s, x - 1) + 1
    BY <2>4, UnpinnedCounts
  <2>6. s[x] \in pinned /\ rank(x) = i
    <3>1. Unpinned(s, x) \in Nat /\ Unpinned(s, x - 1) \in Nat
      BY <1>1, <2>2, <2>4
    <3>2. Unpinned(s, x) # Unpinned(s, x - 1) + 1
      BY <2>2, <2>4, <3>1
    <3>3. s[x] \in pinned /\ Unpinned(s, x) = Unpinned(s, x - 1)
      BY <2>5, <3>2
    <3>4. QED
      BY <2>2, <2>4, <3>1, <3>3
  <2>7. x \in 1..c /\ Holds(i, x)
    BY <2>2, <2>3, <2>6
  <2> HIDE DEF Holds
  <2>8. QED
    BY <2>7
<1>6. r = [i \in 1..rank(c) |-> s[at(i)]]
  BY DEF Rotated
<1>7. rank(c) \in Nat
  BY <1>1
<1> HIDE DEF at, rank, r
<1>8. /\ r \in Seq(S) /\ Len(r) = rank(c)
      /\ \A i \in 1..rank(c) : r[i] = s[at(i)]
  BY <1>2, <1>5, <1>6, <1>7
<1>9. Distinct(r)
  <2> SUFFICES ASSUME NEW i \in 1..Len(r), NEW j \in 1..Len(r), i # j
               PROVE  r[i] # r[j]
    BY DEF Distinct
  <2>1. /\ at(i) \in 1..c /\ rank(at(i)) = i /\ at(j) \in 1..c /\ rank(at(j)) = j
        /\ r[i] = s[at(i)] /\ r[j] = s[at(j)]
    BY <1>5, <1>8
  <2>2. at(i) # at(j) /\ at(i) \in 1..Len(s) /\ at(j) \in 1..Len(s)
    BY <1>2, <2>1
  <2>3. QED
    BY <2>1, <2>2 DEF Distinct
<1>10. ASSUME NEW n, Lists(r, n)
       PROVE  n \in pinned /\ \E j \in 1..c : s[j] = n
  BY <1>5, <1>8, <1>10 DEF Lists
<1>11. ASSUME NEW j \in 1..c, s[j] \in pinned
       PROVE  Lists(r, s[j])
  <2>1. j \in Nat /\ j - 1 \in Nat /\ j <= c
    BY <1>2
  <2>2. rank(j - 1) < rank(j) /\ rank(j) <= rank(c)
    BY <1>2, <1>3, <1>4, <1>11, <2>1
  <2>3. rank(j - 1) \in Nat /\ rank(j) \in Nat
    BY <1>1, <2>1 DEF rank
  <2>4. rank(j) \in 1..rank(c)
    BY <1>7, <2>2, <2>3
  <2>5. at(rank(j)) \in 1..c /\ rank(at(rank(j))) = rank(j) /\ s[at(rank(j))] \in pinned
    BY <1>5, <2>4
  <2>6. at(rank(j)) = j
    <3>1. at(rank(j)) \in Nat
      BY <2>5
    <3>2. ~ (at(rank(j)) < j) /\ ~ (j < at(rank(j)))
      BY <1>4, <1>11, <2>1, <2>3, <2>5, <3>1
    <3>3. QED
      BY <2>1, <3>1, <3>2
  <2>7. QED
    BY <1>8, <2>4, <2>6 DEF Lists
<1>12. QED
  BY <1>8, <1>9, <1>10, <1>11 DEF r

LEMMA JoinLists ==
  ASSUME NEW S, NEW a \in Seq(S), NEW b \in Seq(S), Distinct(a), Distinct(b),
         \A n : ~(Lists(a, n) /\ Lists(b, n))
  PROVE  /\ a \o b \in Seq(S) /\ Distinct(a \o b)
         /\ \A n : Lists(a \o b, n) <=> Lists(a, n) \/ Lists(b, n)
<1> DEFINE v == a \o b
<1>1. /\ v \in Seq(S) /\ Len(a) \in Nat /\ Len(b) \in Nat /\ Len(v) = Len(a) + Len(b)
      /\ \A i \in 1..Len(a) : v[i] = a[i]
      /\ \A i \in 1..Len(b) : v[Len(a) + i] = b[i]
  OBVIOUS
<1> HIDE DEF v
<1>2. \A i \in 1..Len(v) : i \in 1..Len(a) \/ i - Len(a) \in 1..Len(b)
  BY <1>1
<1>3. \A i \in 1..Len(v) : i - Len(a) \in 1..Len(b) => v[i] = b[i - Len(a)]
  BY <1>1
<1>4. Distinct(v)
  <2> SUFFICES ASSUME NEW i \in 1..Len(v), NEW j \in 1..Len(v), i # j
               PROVE  v[i] # v[j]
    BY DEF Distinct
  <2>1. CASE i \in 1..Len(a) /\ j \in 1..Len(a)
    BY <1>1, <2>1 DEF Distinct
  <2>2. CASE i - Len(a) \in 1..Len(b) /\ j - Len(a) \in 1..Len(b)
    <3>1. i - Len(a) # j - Len(a)
      BY <1>1
    <3>2. QED
      BY <1>3, <2>2, <3>1 DEF Distinct
  <2>3. CASE i \in 1..Len(a) /\ j - Len(a) \in 1..Len(b)
    BY <1>1, <1>3, <2>3 DEF Lists
  <2>4. CASE i - Len(a) \in 1..Len(b) /\ j \in 1..Len(a)
    BY <1>1, <1>3, <2>4 DEF Lists
  <2>5. QED
    BY <1>2, <2>1, <2>2, <2>3, <2>4
<1>5. ASSUME NEW n PROVE Lists(v, n) <=> Lists(a, n) \/ Lists(b, n)
  <2>1. ASSUME Lists(v, n) PROVE Lists(a, n) \/ Lists(b, n)
    BY <1>1, <1>2, <1>3, <2>1 DEF Lists
  <2>2. ASSUME Lists(a, n) PROVE Lists(v, n)
    <3>1. \A i \in 1..Len(a) : i \in 1..Len(v)
      BY <1>1
    <3>2. QED
      BY <1>1, <2>2, <3>1 DEF Lists
  <2>3. ASSUME Lists(b, n) PROVE Lists(v, n)
    <3>1. \A i \in 1..Len(b) : Len(a) + i \in 1..Len(v)
      BY <1>1
    <3>2. QED
      BY <1>1, <2>3, <3>1 DEF Lists
  <2>4. QED
    BY <2>1, <2>2, <2>3
<1>6. QED
  BY <1>1, <1>4, <1>5 DEF v

\* Eviction takes off the list the names it evicts, and no other.
LEMMA KeptLists ==
  ASSUME NEW S, NEW s \in Seq(S), Distinct(s), NEW k, Cut(s, k) \in 0..Len(s)
  PROVE  /\ Kept(s, k) \in Seq(S) /\ Distinct(Kept(s, k))
         /\ \A n : Lists(Kept(s, k), n) <=> Lists(s, n) /\ n \notin Evicted(s, k)
<1> DEFINE c == Cut(s, k)
           a == SubSeq(s, c + 1, Len(s))
           b == Rotated(s, c)
<1> HIDE DEF c
<1>1. c \in 0..Len(s) /\ c \in Nat /\ Len(s) \in Nat
  BY DEF c
<1>2. /\ a \in Seq(S) /\ Len(a) = Len(s) - c
      /\ \A i \in 1..Len(a) : a[i] = s[c + i] /\ c + i \in 1..Len(s)
  BY <1>1
<1>3. /\ b \in Seq(S) /\ Distinct(b)
      /\ \A n : Lists(b, n) <=> n \in pinned /\ \E j \in 1..c : s[j] = n
  BY <1>1, RotatedLists
<1>4. Kept(s, k) = a \o b
  BY DEF Kept, c
<1>5. \A n : n \in Evicted(s, k) <=> n \notin pinned /\ \E j \in 1..c : s[j] = n
  BY DEF Evicted, c
<1> HIDE DEF a, b
<1>6. Distinct(a)
  <2> SUFFICES ASSUME NEW i \in 1..Len(a), NEW j \in 1..Len(a), i # j
               PROVE  a[i] # a[j]
    BY DEF Distinct
  <2>1. c + i # c + j
    BY <1>1
  <2>2. QED
    BY <1>2, <2>1 DEF Distinct
<1>7. \A n : Lists(a, n) <=> \E j \in (c + 1)..Len(s) : s[j] = n
  <2> SUFFICES ASSUME NEW n PROVE Lists(a, n) <=> \E j \in (c + 1)..Len(s) : s[j] = n
    OBVIOUS
  <2>1. ASSUME NEW j \in (c + 1)..Len(s), s[j] = n PROVE Lists(a, n)
    <3>1. j - c \in 1..Len(a) /\ c + (j - c) = j
      BY <1>1, <1>2
    <3>2. QED
      BY <1>2, <2>1, <3>1 DEF Lists
  <2>2. ASSUME NEW i \in 1..Len(a), a[i] = n PROVE \E j \in (c + 1)..Len(s) : s[j] = n
    <3>1. c + i \in (c + 1)..Len(s)
      BY <1>1, <1>2
    <3>2. QED
      BY <1>2, <2>2, <3>1
  <2>3. QED
    BY <2>1, <2>2 DEF Lists
<1>8. \A i \in 1..c, j \in (c + 1)..Len(s) : s[i] # s[j]
  <2> SUFFICES ASSUME NEW i \in 1..c, NEW j \in (c + 1)..Len(s) PROVE s[i] # s[j]
    OBVIOUS
  <2>1. i \in 1..Len(s) /\ j \in 1..Len(s) /\ i # j
    BY <1>1
  <2>2. QED
    BY <2>1 DEF Distinct
<1>9. \A n : ~(Lists(a, n) /\ Lists(b, n))
  BY <1>3, <1>7, <1>8
<1>10. /\ a \o b \in Seq(S) /\ Distinct(a \o b)
       /\ \A n : Lists(a \o b, n) <=> Lists(a, n) \/ Lists(b, n)
  BY <1>2, <1>3, <1>6, <1>9, JoinLists
<1>11. \A n : Lists(s, n) <=> (\E j \in 1..c : s[j] = n) \/ (\E j \in (c + 1)..Len(s) : s[j] = n)
  <2>1. 1..Len(s) = (1..c) \union ((c + 1)..Len(s))
    BY <1>1
  <2>2. QED
    BY <2>1 DEF Lists
<1>12. ASSUME NEW n
       PROVE  Lists(a, n) \/ Lists(b, n) <=> Lists(s, n) /\ n \notin Evicted(s, k)
  BY <1>3, <1>5, <1>7, <1>8, <1>11
<1>13. QED
  BY <1>4, <1>10, <1>12

\* As many names as places.
LEMMA PlacesCount ==
  ASSUME NEW S, NEW s \in Seq(S), Distinct(s), NEW A \in SUBSET (1..Len(s))
  PROVE  LET T == {s[j] : j \in A} IN
         IsFiniteSet(T) /\ IsFiniteSet(A) /\ Cardinality(T) = Cardinality(A)
<1> DEFINE T == {s[j] : j \in A}
           f == [j \in A |-> s[j]]
<1>1. IsFiniteSet(1..Len(s))
  <2>1. Len(s) \in Nat
    OBVIOUS
  <2>2. QED
    BY <2>1, PlacesOf
<1>2. IsFiniteSet(A)
  BY <1>1, FS_Subset
<1>3. f \in Bijection(A, T)
  <2>1. f \in [A -> T] /\ \A t \in T : \E j \in A : f[j] = t
    OBVIOUS
  <2>2. \A i, j \in A : f[i] = f[j] => i = j
    BY DEF Distinct
  <2>3. QED
    BY <2>1, <2>2 DEF Bijection, Injection, Surjection, IsInjective
<1>4. ExistsBijection(A, T)
  BY <1>3 DEF ExistsBijection
<1> HIDE DEF T
<1>5. QED
  BY <1>2, <1>4, FS_Bijection DEF T

\* The list holds the names stored, each once.
Listed ==
  /\ order \in Seq(Name) /\ Distinct(order)
  /\ media = {order[i] : i \in 1..Len(order)}

LEMMA MediaIsFinite ==
  ASSUME Listed
  PROVE  IsFiniteSet(media) /\ Cardinality(media) = Len(order)
<1>1. 1..Len(order) \in SUBSET (1..Len(order)) /\ Len(order) \in Nat
  BY DEF Listed
<1>2. Cardinality(1..Len(order)) = Len(order)
  BY <1>1, PlacesOf
<1>3. QED
  BY <1>1, <1>2, PlacesCount DEF Listed

\* PutMedia of a new name: what it evicts, and what it leaves.
LEMMA PutMediaStores ==
  ASSUME Listed, NEW n \in Name, n \notin media, PutMedia(n)
  PROVE  /\ Listed' /\ n \in media'
         /\ IsFiniteSet(media')
         /\ Cardinality(media') <= MaxMedia + Cardinality(pinned \intersect media)
         /\ \A x \in media \ media' :
              /\ x \notin pinned
              /\ Cardinality(media' \ pinned) >= MaxMedia - 1
              /\ \A i, j \in DOMAIN order : order[i] = x /\ order[j] \in media' \ pinned => i < j
<1> DEFINE L == Len(order)
           P == Cardinality(pinned \intersect media)
           s == Append(order, n)
           k == IF (L + 1) - P > MaxMedia THEN ((L + 1) - P) - MaxMedia ELSE 0
           c == Cut(s, k)
           E == Evicted(s, k)
<1>1. /\ L \in Nat /\ IsFiniteSet(media) /\ Cardinality(media) = L /\ MaxMedia \in Nat \ {0}
      /\ DOMAIN order = 1..L
  BY MediaIsFinite, OriginBounds DEF Listed
<1>2. /\ s \in Seq(Name) /\ Len(s) = L + 1 /\ s[L + 1] = n
      /\ \A i \in 1..L : s[i] = order[i] /\ i \in 1..Len(s)
  BY DEF Listed
<1>3. Len(s) - P = (L + 1) - P
  BY <1>2
<1>4. order' = Kept(s, k) /\ media' = (media \ E) \union {n}
  BY <1>3, Zenon DEF PutMedia
<1>5. \A i \in 1..L : order[i] \in media
  BY DEF Listed
<1>6. \A x : x \in media <=> \E i \in 1..L : order[i] = x
  BY DEF Listed
<1> HIDE DEF s, c, E
<1>7. Distinct(s)
  <2> SUFFICES ASSUME NEW i \in 1..Len(s), NEW j \in 1..Len(s), i # j PROVE s[i] # s[j]
    BY DEF Distinct
  <2>1. (i \in 1..L \/ i = L + 1) /\ (j \in 1..L \/ j = L + 1)
    BY <1>1, <1>2
  <2>2. QED
    BY <1>2, <1>5, <2>1 DEF Listed, Distinct
<1>8. \A x : Lists(s, x) <=> x \in media \/ x = n
  <2>1. \A i \in 1..Len(s) : i \in 1..L \/ i = L + 1
    BY <1>1, <1>2
  <2>2. L + 1 \in 1..Len(s)
    BY <1>1, <1>2
  <2>3. QED
    BY <1>2, <1>6, <2>1, <2>2 DEF Lists
\* The names that may be evicted.
<1>9. /\ IsFiniteSet(media \ pinned) /\ Cardinality(media \ pinned) = L - P
      /\ Cardinality(media \ pinned) \in Nat /\ P \in Nat
  <2>1. /\ IsFiniteSet(media \ pinned)
        /\ Cardinality(media \ pinned) = Cardinality(media) - Cardinality(media \intersect pinned)
    BY <1>1, FS_Difference
  <2>2. media \intersect pinned = pinned \intersect media
    OBVIOUS
  <2>3. Cardinality(media \ pinned) \in Nat
    BY <2>1, FS_CardinalityType
  <2>4. IsFiniteSet(pinned \intersect media)
    BY <1>1, FS_Intersection
  <2>5. P \in Nat
    BY <2>4, FS_CardinalityType
  <2>6. QED
    BY <1>1, <2>1, <2>2, <2>3, <2>5
<1>10. Unpinned(s, L) = L - P
  <2> DEFINE A == {j \in 1..L : s[j] \notin pinned}
             T == {s[j] : j \in A}
  <2>1. A \in SUBSET (1..Len(s))
    BY <1>2
  <2>2. T = media \ pinned
    BY <1>2, <1>6
  <2> HIDE DEF A
  <2>3. Cardinality(T) = Cardinality(A)
    BY <1>2, <1>7, <2>1, PlacesCount
  <2>4. QED
    BY <1>9, <2>2, <2>3 DEF Unpinned, A
<1>11. k \in Nat /\ k <= L - P /\ (k # 0 => k = ((L + 1) - P) - MaxMedia)
  BY <1>1, <1>9
<1>12. c \in 0..L /\ c \in 0..Len(s) /\ Unpinned(s, c) = k
  <2>1. L \in 0..Len(s) /\ Len(s) \in Nat /\ k <= Unpinned(s, L)
    BY <1>1, <1>2, <1>10, <1>11
  <2>2. c \in 0..L /\ Unpinned(s, c) = k
    <3> HIDE DEF k, L
    <3>1. QED
      BY <1>11, <2>1, CutIsThere DEF c
  <2>3. QED
    BY <1>1, <1>2, <2>2
\* The names evicted.
<1>13. \A x : x \in E <=> x \notin pinned /\ \E j \in 1..c : s[j] = x
  BY DEF E, Evicted, c
<1>14. \A j \in 1..c : j \in 1..L
  BY <1>1, <1>12
<1>15. E \subseteq media \ pinned
  BY <1>2, <1>5, <1>13, <1>14
<1>16. IsFiniteSet(E) /\ Cardinality(E) = k
  <2> DEFINE A == {j \in 1..c : s[j] \notin pinned}
             T == {s[j] : j \in A}
  <2>1. A \in SUBSET (1..Len(s))
    BY <1>2, <1>14
  <2>2. T = E
    BY <1>13
  <2> HIDE DEF A
  <2>3. IsFiniteSet(T) /\ Cardinality(T) = Cardinality(A)
    BY <1>2, <1>7, <2>1, PlacesCount
  <2>4. QED
    BY <1>12, <2>2, <2>3 DEF Unpinned, A
<1> HIDE DEF k, L, P
\* The store and its list afterwards.
<1>17. Listed'
  <2>1. /\ Kept(s, k) \in Seq(Name) /\ Distinct(Kept(s, k))
        /\ \A x : Lists(Kept(s, k), x) <=> Lists(s, x) /\ x \notin E
    BY <1>2, <1>7, <1>12, KeptLists DEF c, E
  <2>2. \A x : x \in media' <=> \E i \in 1..Len(order') : order'[i] = x
    BY <1>4, <1>8, <1>15, <2>1 DEF Lists
  <2>3. QED
    BY <1>4, <2>1, <2>2, SMTT(30) DEF Listed, Distinct
<1>18. IsFiniteSet(media \ E) /\ Cardinality(media \ E) = L - k
  <2>1. Cardinality(media \ E) = Cardinality(media) - Cardinality(media \intersect E)
    BY <1>1, FS_Difference
  <2>2. media \intersect E = E
    BY <1>15
  <2>3. IsFiniteSet(media \ E)
    BY <1>1, FS_Difference
  <2>4. QED
    BY <1>1, <1>16, <2>1, <2>2, <2>3
<1>19. IsFiniteSet(media') /\ Cardinality(media') = (L - k) + 1
  BY <1>4, <1>18, FS_AddElement
<1>20. Cardinality(media') <= MaxMedia + P
  <2>1. CASE k = 0
    BY <1>1, <1>9, <1>19, <2>1 DEF k
  <2>2. CASE k # 0
    BY <1>1, <1>9, <1>11, <1>19, <2>2
  <2>3. QED
    BY <2>1, <2>2
<1>21. ASSUME NEW x \in media \ media'
       PROVE  /\ x \notin pinned /\ Cardinality(media' \ pinned) >= MaxMedia - 1
              /\ \A i, j \in DOMAIN order : order[i] = x /\ order[j] \in media' \ pinned => i < j
  <2>1. x \in E
    BY <1>4
  <2>2. k # 0
    <3>1. SUFFICES ASSUME k = 0 PROVE FALSE
      OBVIOUS
    <3>2. E = {}
      BY <1>16, <3>1, FS_EmptySet
    <3>3. QED
      BY <2>1, <3>2
  <2>3. Cardinality(media' \ pinned) >= MaxMedia - 1
    <3> DEFINE U == (media \ pinned) \ E
    <3>1. IsFiniteSet(U) /\ Cardinality(U) = (L - P) - k
      <4>1. /\ IsFiniteSet(U)
            /\ Cardinality(U) = Cardinality(media \ pinned) - Cardinality((media \ pinned) \intersect E)
        BY <1>9, FS_Difference
      <4>2. (media \ pinned) \intersect E = E
        BY <1>15
      <4>3. QED
        BY <1>9, <1>16, <4>1, <4>2
    <3>2. U \in SUBSET (media' \ pinned)
      BY <1>4
    <3>3. IsFiniteSet(media' \ pinned)
      BY <1>19, FS_Difference
    <3> HIDE DEF U
    <3>4. Cardinality(U) <= Cardinality(media' \ pinned) /\ Cardinality(media' \ pinned) \in Nat
      BY <3>2, <3>3, FS_Subset, FS_CardinalityType
    <3>5. QED
      BY <1>1, <1>9, <1>11, <2>2, <3>1, <3>4
  <2>4. ASSUME NEW i \in 1..L, NEW j \in 1..L, order[i] = x, order[j] \in media' \ pinned
        PROVE  i < j
    <3>1. PICK p \in 1..c : s[p] = x
      BY <1>13, <2>1
    <3>2. p = i
      <4>1. p \in 1..Len(s) /\ i \in 1..Len(s) /\ s[i] = x
        BY <1>2, <1>14, <2>4, <3>1
      <4>2. QED
        BY <1>7, <3>1, <4>1 DEF Distinct
    <3>3. j \notin 1..c
      <4>1. SUFFICES ASSUME j \in 1..c PROVE FALSE
        OBVIOUS
      <4>2. s[j] = order[j] /\ order[j] \in media
        BY <1>2, <1>5
      <4>3. order[j] \in E
        BY <1>13, <2>4, <4>1, <4>2
      <4>4. QED
        BY <1>4, <2>4, <4>2, <4>3
    <3>4. QED
      BY <1>1, <1>12, <3>2, <3>3
  <2>5. QED
    BY <1>1, <1>15, <2>1, <2>3, <2>4
<1>22. n \in media'
  BY <1>4
<1>23. QED
  BY <1>17, <1>19, <1>20, <1>21, <1>22 DEF P

-----------------------------------------------------------------------------
(* What is pinned.                                                         *)

\* PutMedia adds one name and takes away none that is pinned.
LEMMA PutKeepsPinned ==
  ASSUME NEW n, PutMedia(n)
  PROVE  media' \subseteq media \union {n} /\ media \intersect pinned \subseteq media'
BY DEF PutMedia, Evicted

-----------------------------------------------------------------------------
(* Every step keeps Pins and Traces.                                       *)

Inv == Pins /\ Traces

\* What leaves the list of photos, the pins and the uploads alone adds no
\* photo to the store.
LEMMA NoPhotoMoves ==
  ASSUME Inv, UNCHANGED <<photos, photo>>,
         sticky' \subseteq AssetNames, sticky' \subseteq pinned', Page \in pinned',
         \A n \in PhotoNames : (n \in media' => n \in media) /\ (n \in pinned' => n \in pinned),
         put'.name \notin PhotoNames
  PROVE  Inv'
<1>1. \A p \in Photos : Photo(p) \in PhotoNames
  BY DEF PhotoNames
<1>2. Pins'
  BY DEF Inv, Pins
<1>3. Traces'
  BY <1>1 DEF Inv, Traces
<1>4. QED
  BY <1>2, <1>3 DEF Inv

LEMMA KeepPhotoKeeps ==
  ASSUME Inv, NEW p \in Photos, KeepPhoto(p)
  PROVE  Inv' /\ media \intersect ({Page} \union sticky) \subseteq media'
<1> DEFINE s == Append(photos, Photo(p))
<1>1. /\ Photo(p) \in PhotoNames /\ photos \in Seq(PhotoNames)
      /\ Distinct(photos) /\ ~Lists(photos, Photo(p))
  BY DEF Inv, Pins, Traces, KeepPhoto, PhotoNames
<1>2. /\ s \in Seq(PhotoNames) /\ Distinct(s) /\ s # <<>>
      /\ \A m : Lists(s, m) => Lists(photos, m) \/ m = Photo(p)
  BY <1>1, AppendPhoto
<1>3. /\ Tail(s) \in Seq(PhotoNames) /\ Distinct(Tail(s)) /\ Head(s) \in PhotoNames
      /\ \A m : Lists(Tail(s), m) => Lists(s, m)
  <2> HIDE DEF s
  <2> QED
    BY <1>2, TailPhotos
<1>4. /\ photos' = Tail(s) \/ photos' = s
      /\ pinned' = (pinned \union {Photo(p)}) \ {Head(s)} \/ pinned' = pinned \union {Photo(p)}
      /\ media' = media \ {Head(s)} \/ media' = media
      /\ photo[p] = "stored" /\ photo' = [photo EXCEPT ![p] = "kept"]
      /\ UNCHANGED <<sticky, put>>
  BY DEF KeepPhoto, mac
<1> HIDE DEF s
<1>5. photos' \in Seq(PhotoNames) /\ Distinct(photos')
  BY <1>2, <1>3, <1>4
<1>6. \A m : Lists(photos', m) => Lists(photos, m) \/ m = Photo(p)
  BY <1>2, <1>3, <1>4
<1>7. Head(s) # Page /\ Head(s) \notin AssetNames /\ Page # Photo(p)
  BY <1>1, <1>3, NamesDiffer
<1>8. Pins'
  BY <1>4, <1>5, <1>7 DEF Inv, Pins
<1>9. photo' \in [Photos -> PhotoStates]
  BY <1>4 DEF Inv, Traces, PhotoStates
<1>10. ASSUME NEW q \in Photos
       PROVE  /\ photo'[q] \in {"new", "stored", "refused"} =>
                   ~Lists(photos', Photo(q)) /\ Photo(q) \notin pinned'
              /\ photo'[q] \in {"new", "refused"} => Photo(q) \notin media'
  <2>1. CASE q = p
    BY <1>4, <2>1 DEF Inv, Traces
  <2>2. CASE q # p
    <3>1. photo'[q] = photo[q] /\ Photo(q) # Photo(p)
      BY <1>4, <2>2, NamesDiffer DEF Inv, Traces
    <3>2. QED
      BY <1>4, <1>6, <3>1 DEF Inv, Traces
  <2>3. QED
    BY <2>1, <2>2
<1>11. Traces'
  BY <1>4, <1>5, <1>9, <1>10 DEF Inv, Traces
<1>12. QED
  BY <1>4, <1>7, <1>8, <1>11 DEF Inv, Pins

LEMMA DropPhotoKeeps ==
  ASSUME Inv, NEW p \in Photos, DropPhoto(p)
  PROVE  Inv' /\ media \intersect ({Page} \union sticky) \subseteq media'
<1> DEFINE s == Without(photos, Photo(p))
<1>1. /\ s \in Seq(PhotoNames) /\ Distinct(s) /\ ~Lists(s, Photo(p))
      /\ \A m : Lists(s, m) => Lists(photos, m)
  BY WithoutLists DEF Inv, Pins, Traces
<1>2. /\ photos' = s /\ pinned' = pinned \ {Photo(p)} /\ media' = media \ {Photo(p)}
      /\ photo' = [photo EXCEPT ![p] = "refused"] /\ UNCHANGED <<sticky, put>>
  BY DEF DropPhoto, mac
<1> HIDE DEF s
<1>3. Photo(p) # Page /\ Photo(p) \notin AssetNames
  BY NamesDiffer DEF PhotoNames
<1>4. Pins'
  BY <1>1, <1>2, <1>3 DEF Inv, Pins
<1>5. photo' \in [Photos -> PhotoStates]
  BY <1>2 DEF Inv, Traces, PhotoStates
<1>6. ASSUME NEW q \in Photos
      PROVE  /\ photo'[q] \in {"new", "stored", "refused"} =>
                  ~Lists(photos', Photo(q)) /\ Photo(q) \notin pinned'
             /\ photo'[q] \in {"new", "refused"} => Photo(q) \notin media'
  <2>1. CASE q = p
    BY <1>1, <1>2, <2>1
  <2>2. CASE q # p
    BY <1>1, <1>2, <2>2 DEF Inv, Traces
  <2>3. QED
    BY <2>1, <2>2
<1>7. Traces'
  BY <1>1, <1>2, <1>5, <1>6 DEF Inv, Traces
<1>8. QED
  BY <1>2, <1>3, <1>4, <1>7 DEF Inv, Pins

LEMMA StorePhotoKeeps ==
  ASSUME Inv, NEW p \in Photos, StorePhoto(p)
  PROVE  Inv' /\ media \intersect ({Page} \union sticky) \subseteq media'
<1>1. media' \subseteq media \union {Photo(p)} /\ media \intersect pinned \subseteq media'
  BY PutKeepsPinned DEF StorePhoto
<1>2. /\ photo[p] = "new" /\ photo' = [photo EXCEPT ![p] = "stored"]
      /\ UNCHANGED <<photos, pinned, sticky, put>>
  BY DEF StorePhoto, mac
<1>3. Pins'
  BY <1>2 DEF Inv, Pins
<1>4. photo' \in [Photos -> PhotoStates]
  BY <1>2 DEF Inv, Traces, PhotoStates
<1>5. ASSUME NEW q \in Photos
      PROVE  /\ photo'[q] \in {"new", "stored", "refused"} =>
                  ~Lists(photos', Photo(q)) /\ Photo(q) \notin pinned'
             /\ photo'[q] \in {"new", "refused"} => Photo(q) \notin media'
  <2>1. CASE q = p
    BY <1>2, <2>1 DEF Inv, Traces
  <2>2. CASE q # p
    <3>1. photo'[q] = photo[q] /\ Photo(q) # Photo(p)
      BY <1>2, <2>2, NamesDiffer DEF Inv, Traces
    <3>2. QED
      BY <1>1, <1>2, <3>1 DEF Inv, Traces
  <2>3. QED
    BY <2>1, <2>2
<1>6. Traces'
  BY <1>2, <1>4, <1>5 DEF Inv, Traces
<1>7. QED
  BY <1>1, <1>2, <1>3, <1>6 DEF Inv, Pins

LEMMA QueuePhotoKeeps ==
  ASSUME Inv, NEW p \in Photos, QueuePhoto(p)
  PROVE  Inv' /\ UNCHANGED media
<1>1. /\ photo[p] = "kept" /\ UNCHANGED <<media, photos, pinned, sticky, put>>
      /\ photo' = [photo EXCEPT ![p] = "accepted"] \/ photo' = [photo EXCEPT ![p] = "refusing"]
  BY DEF QueuePhoto, room, mac
<1>2. Pins'
  BY <1>1 DEF Inv, Pins
<1>3. photo' \in [Photos -> PhotoStates]
  BY <1>1 DEF Inv, Traces, PhotoStates
<1>4. \A q \in Photos : photo'[q] \in {"new", "stored", "refused"} => photo'[q] = photo[q]
  BY <1>1 DEF Inv, Traces
<1>5. Traces'
  BY <1>1, <1>3, <1>4 DEF Inv, Traces
<1>6. QED
  BY <1>1, <1>2, <1>5 DEF Inv

-----------------------------------------------------------------------------
(* The Mac's uploads.                                                      *)

LEMMA UploadMediaKeeps ==
  ASSUME Inv, NEW n, UploadMedia(n)
  PROVE  Inv' /\ media \intersect pinned \subseteq media'
<1>1. media' \subseteq media \union {n} /\ media \intersect pinned \subseteq media'
  BY PutKeepsPinned DEF UploadMedia
<1>2. n \notin PhotoNames
  BY NamesDiffer DEF UploadMedia, Required
<1>3. UNCHANGED <<photos, photo, pinned, sticky, put>>
  BY DEF UploadMedia, uploads
<1>4. QED
  BY <1>1, <1>2, <1>3, NoPhotoMoves DEF Inv, Pins, Traces

LEMMA UploadAssetKeeps ==
  ASSUME Inv, NEW a \in Assets, UploadAsset(a)
  PROVE  Inv' /\ UNCHANGED media
<1>1. /\ UNCHANGED <<media, photos, photo>>
      /\ sticky' = sticky \union {Asset(a)} /\ pinned' = pinned \union {Asset(a)}
      /\ put' = [Nothing EXCEPT !.step = "media", !.name = Asset(a)]
  BY DEF UploadAsset, uploads
<1>2. Asset(a) \in AssetNames /\ Asset(a) \notin PhotoNames
  BY NamesDiffer DEF AssetNames
<1>3. put'.name = Asset(a)
  BY <1>1 DEF Nothing
<1>4. QED
  BY <1>1, <1>2, <1>3, NoPhotoMoves DEF Inv, Pins

LEMMA StoreAssetKeeps ==
  ASSUME Inv, StoreAsset
  PROVE  Inv' /\ media \intersect pinned \subseteq media'
<1>1. media' \subseteq media \union {put.name} /\ media \intersect pinned \subseteq media'
  BY PutKeepsPinned DEF StoreAsset
<1>2. UNCHANGED <<photos, photo, pinned, sticky>> /\ put' = Nothing
  BY DEF StoreAsset, uploads
<1>3. put'.name \notin PhotoNames
  BY <1>2, NamesDiffer DEF Nothing
<1>4. QED
  BY <1>1, <1>2, <1>3, NoPhotoMoves DEF Inv, Pins, Traces

LEMMA UploadPlaylistKeeps ==
  ASSUME Inv, UploadPlaylist
  PROVE  Inv' /\ UNCHANGED media
<1>1. /\ UNCHANGED <<media, photos, photo, sticky>>
      /\ pinned' = sticky \union {Map(init), Page}
      /\ put'.name = Page
  BY DEF UploadPlaylist, uploads, Pin, Nothing
<1>2. \A n \in PhotoNames : n \notin pinned'
  BY <1>1, NamesDiffer DEF Inv, Traces
<1>3. QED
  BY <1>1, <1>2, NamesDiffer, NoPhotoMoves DEF Inv, Pins, Traces

LEMMA StorePlaylistKeeps ==
  ASSUME Inv, StorePlaylist
  PROVE  Inv' /\ UNCHANGED media
<1>1. UNCHANGED <<media, pinned, photos, photo, sticky>> /\ put'.name = Page
  BY DEF StorePlaylist, uploads, Nothing
<1>2. QED
  BY <1>1, NamesDiffer, NoPhotoMoves DEF Inv, Pins, Traces

LEMMA OthersKeep ==
  ASSUME Inv, Advance \/ NewInit \/ Drain \/ UNCHANGED vars
  PROVE  Inv' /\ UNCHANGED media
<1>1. UNCHANGED <<media, pinned, photos, photo, sticky, put>>
  BY DEF Advance, NewInit, Drain, vars, room, mac, uploads
<1>2. QED
  BY <1>1, NoPhotoMoves DEF Inv, Pins, Traces

\* A step keeps the invariant and what is stored for the set.
LEMMA StepKeeps ==
  ASSUME Inv, [Next]_vars
  PROVE  Inv' /\ media \intersect ({Page} \union sticky) \subseteq media'
<1>1. {Page} \union sticky \subseteq pinned
  BY DEF Inv, Pins
<1>2. CASE \E n \in Name : UploadMedia(n)
  BY <1>1, <1>2, UploadMediaKeeps
<1>3. CASE \E a \in Assets : UploadAsset(a)
  BY <1>3, UploadAssetKeeps
<1>4. CASE StoreAsset \/ UploadPlaylist \/ StorePlaylist
  BY <1>1, <1>4, StoreAssetKeeps, UploadPlaylistKeeps, StorePlaylistKeeps
<1>5. CASE \E p \in Photos : StorePhoto(p) \/ KeepPhoto(p) \/ QueuePhoto(p) \/ DropPhoto(p)
  BY <1>5, StorePhotoKeeps, KeepPhotoKeeps, QueuePhotoKeeps, DropPhotoKeeps
<1>6. CASE Advance \/ NewInit \/ Drain \/ UNCHANGED vars
  BY <1>6, OthersKeep
<1>7. QED
  BY <1>2, <1>3, <1>4, <1>5, <1>6 DEF Next

LEMMA InitKeeps == Init => Inv
<1> SUFFICES ASSUME Init PROVE Inv
  OBVIOUS
<1>1. photos \in Seq(PhotoNames) /\ Len(photos) = 0
  BY DEF Init
<1>2. Pins
  BY <1>1 DEF Init, Pins
<1>3. photo \in [Photos -> PhotoStates] /\ \A p \in Photos : Photo(p) \in PhotoNames
  BY DEF Init, PhotoStates, PhotoNames
<1>4. Traces
  BY <1>1, <1>3, NamesDiffer DEF Init, Traces, Distinct, Lists, Nothing
<1>5. QED
  BY <1>2, <1>4 DEF Inv

-----------------------------------------------------------------------------
(***************************************************************************)
(* The page and the page's assets, once stored, stay for the life of the   *)
(* room: eviction, the replacement of the pins at every playlist, and the  *)
(* photo cap all pass them over (origin.go:195-199, 215-219).              *)
(***************************************************************************)
THEOREM PageStays == Spec => KeptForTheSet
<1>1. Init => Inv
  BY InitKeeps
<1>2. Inv /\ [Next]_vars => Inv'
  BY StepKeeps
<1>3. Inv /\ [Next]_vars => [\A n \in media \intersect ({Page} \union sticky) : n \in media']_vars
  BY StepKeeps
<1>4. QED
  BY <1>1, <1>2, <1>3, PTL DEF Spec, KeptForTheSet

(***************************************************************************)
(* A refused photo is in neither the store, the pins nor the list of kept  *)
(* photos (origin.go:162-182).                                             *)
(***************************************************************************)
THEOREM RefusalIsClean == Spec => []RefusedLeavesNothing
<1>1. Init => Inv
  BY InitKeeps
<1>2. Inv /\ [Next]_vars => Inv'
  BY StepKeeps
<1>3. Inv => RefusedLeavesNothing
  <2> SUFFICES ASSUME Inv, NEW p \in Photos, photo[p] = "refused"
               PROVE  Photo(p) \notin media \union pinned \union ToSet(photos)
    BY DEF RefusedLeavesNothing
  <2>1. ~Lists(photos, Photo(p)) /\ Photo(p) \notin pinned /\ Photo(p) \notin media
    BY DEF Inv, Traces
  <2>2. DOMAIN photos = 1..Len(photos)
    BY DEF Inv, Pins
  <2>3. Photo(p) \notin ToSet(photos)
    BY <2>1, <2>2 DEF Lists, ToSet
  <2>4. QED
    BY <2>1, <2>3
<1>4. QED
  BY <1>1, <1>2, <1>3, PTL DEF Spec

-----------------------------------------------------------------------------
(* The memory of the room.                                                 *)

\* Pinned are the page, one more name of the set (the init segment of the last
\* playlist), the page's assets and photos that are kept.
PinsNamed ==
  \E m \in Name : pinned \subseteq sticky \union {Page, m} \union {photos[i] : i \in 1..Len(photos)}

\* The invariant of the theorems below: MemoryBounded is kept because PutMedia
\* leaves MaxMedia names beside the pinned ones, and PinsNamed says how many
\* those can be.
Room == TypeOK /\ Listed /\ PinsNamed /\ MemoryBounded

\* What a step may take from the store.
GoesOldest ==
  \A n \in media \ media' : n.kind # "photo" =>
    /\ n \notin pinned
    /\ Cardinality(media' \ pinned) >= MaxMedia - 1
    /\ \A i, j \in DOMAIN order : order[i] = n /\ order[j] \in media' \ pinned => i < j

LEMMA NamesAreNames ==
  /\ Page \in Name /\ \A a \in Assets : Asset(a) \in Name
  /\ \A p \in Photos : Photo(p) \in Name /\ Photo(p).kind = "photo"
  /\ \A i \in 1..MaxInit : Map(i) \in Name
BY DEF Name, Page, Asset, Photo, Map

LEMMA StickyIsFinite ==
  ASSUME TypeOK
  PROVE  IsFiniteSet(sticky) /\ Cardinality(sticky) \in Nat
<1> DEFINE f == [a \in Assets |-> Asset(a)]
<1>1. f \in Surjection(Assets, AssetNames)
  BY DEF Surjection, AssetNames
<1>2. IsFiniteSet(AssetNames)
  BY <1>1, FS_Surjection, OriginBounds
<1>3. sticky \in SUBSET AssetNames
  BY DEF TypeOK, AssetNames
<1>4. IsFiniteSet(sticky)
  BY <1>2, <1>3, FS_Subset
<1>5. QED
  BY <1>4, FS_CardinalityType

\* Few names are pinned.
LEMMA PinsAreFew ==
  ASSUME TypeOK, PinsNamed
  PROVE  Cardinality(pinned \intersect media) <= Cardinality(sticky) + MaxPhotos + 2
<1> DEFINE Q == {photos[i] : i \in 1..Len(photos)}
<1>1. PICK m \in Name : pinned \subseteq sticky \union {Page, m} \union Q
  BY DEF PinsNamed
<1>2. IsFiniteSet(sticky) /\ Cardinality(sticky) \in Nat
  BY StickyIsFinite
<1>3. IsFiniteSet({Page, m}) /\ Cardinality({Page, m}) \in Nat /\ Cardinality({Page, m}) <= 2
  <2>1. IsFiniteSet({Page}) /\ Cardinality({Page}) = 1
    BY FS_Singleton
  <2>2. {Page, m} = {Page} \union {m}
    OBVIOUS
  <2>3. QED
    BY <2>1, <2>2, FS_AddElement
<1>4. IsFiniteSet(Q) /\ Cardinality(Q) \in Nat /\ Cardinality(Q) <= MaxPhotos
  <2> DEFINE f == [i \in 1..Len(photos) |-> photos[i]]
  <2>1. Len(photos) \in Nat /\ Len(photos) <= MaxPhotos
    BY DEF TypeOK
  <2>2. IsFiniteSet(1..Len(photos)) /\ Cardinality(1..Len(photos)) = Len(photos)
    BY <2>1, PlacesOf
  <2>3. f \in Surjection(1..Len(photos), Q)
    BY DEF Surjection
  <2> HIDE DEF Q, f
  <2>4. IsFiniteSet(Q) /\ Cardinality(Q) <= Len(photos)
    BY <2>2, <2>3, FS_Surjection
  <2>5. Cardinality(Q) \in Nat
    BY <2>4, FS_CardinalityType
  <2>6. QED
    BY <2>1, <2>4, <2>5, OriginBounds
<1> HIDE DEF Q
<1> DEFINE A == sticky \union {Page, m}
           B == A \union Q
<1>5. IsFiniteSet(A) /\ Cardinality(A) \in Nat /\ Cardinality(A) <= Cardinality(sticky) + 2
  <2>1. IsFiniteSet(A) /\ Cardinality(A) = Cardinality(sticky) + Cardinality({Page, m})
                                           - Cardinality(sticky \intersect {Page, m})
    BY <1>2, <1>3, FS_Union
  <2>2. Cardinality(sticky \intersect {Page, m}) \in Nat /\ Cardinality(A) \in Nat
    BY <1>2, <2>1, FS_Intersection, FS_CardinalityType
  <2>3. QED
    BY <1>2, <1>3, <2>1, <2>2
<1> HIDE DEF A
<1>6. IsFiniteSet(B) /\ Cardinality(B) \in Nat /\ Cardinality(B) <= Cardinality(sticky) + MaxPhotos + 2
  <2>1. IsFiniteSet(B) /\ Cardinality(B) = Cardinality(A) + Cardinality(Q) - Cardinality(A \intersect Q)
    BY <1>4, <1>5, FS_Union
  <2>2. Cardinality(A \intersect Q) \in Nat /\ Cardinality(B) \in Nat
    BY <1>5, <2>1, FS_Intersection, FS_CardinalityType
  <2>3. QED
    BY <1>2, <1>4, <1>5, <2>1, <2>2, OriginBounds
<1>7. pinned \intersect media \in SUBSET B
  BY <1>1 DEF A
<1> HIDE DEF B
<1>8. Cardinality(pinned \intersect media) <= Cardinality(B) /\ Cardinality(pinned \intersect media) \in Nat
  BY <1>6, <1>7, FS_Subset, FS_CardinalityType
<1>9. QED
  BY <1>2, <1>6, <1>8, OriginBounds

\* Storing a name keeps the list, the bound and the window.
LEMMA PutMediaKeeps ==
  ASSUME Room, NEW n \in Name, PutMedia(n), UNCHANGED sticky
  PROVE  Listed' /\ MemoryBounded' /\ GoesOldest
<1>1. CASE n \in media
  <2>1. UNCHANGED <<media, order>>
    BY <1>1 DEF PutMedia
  <2>2. QED
    BY <2>1 DEF Room, Listed, Distinct, MemoryBounded, GoesOldest
<1>2. CASE n \notin media
  <2>1. /\ Listed' /\ IsFiniteSet(media')
        /\ Cardinality(media') <= MaxMedia + Cardinality(pinned \intersect media)
        /\ GoesOldest
    BY <1>2, PutMediaStores DEF Room, GoesOldest
  <2>2. Cardinality(pinned \intersect media) <= Cardinality(sticky) + MaxPhotos + 2
    BY PinsAreFew DEF Room
  <2>3. Cardinality(sticky) \in Nat /\ MaxMedia \in Nat /\ MaxPhotos \in Nat
    BY StickyIsFinite, OriginBounds DEF Room
  <2>4. Cardinality(pinned \intersect media) \in Nat
    <3>1. IsFiniteSet(media)
      BY MediaIsFinite DEF Room
    <3>2. QED
      BY <3>1, FS_Intersection, FS_CardinalityType
  <2>5. Cardinality(media') \in Nat
    BY <2>1, FS_CardinalityType
  <2>6. QED
    BY <2>1, <2>2, <2>3, <2>4, <2>5 DEF MemoryBounded
<1>3. QED
  BY <1>1, <1>2

\* A step that leaves the store alone, and one that takes a photo out of it.
LEMMA StoreStays ==
  ASSUME Room, TypeOK', UNCHANGED <<media, order>>, sticky \subseteq sticky'
  PROVE  Listed' /\ MemoryBounded' /\ GoesOldest
<1>1. Listed' /\ GoesOldest
  BY DEF Room, Listed, Distinct, GoesOldest
<1> DEFINE AllAssets == {Asset(a) : a \in Assets}
<1>2. IsFiniteSet(AllAssets)
  <2> DEFINE f == [a \in Assets |-> Asset(a)]
  <2>1. f \in Surjection(Assets, AllAssets)
    BY DEF Surjection
  <2> HIDE DEF f, AllAssets
  <2>2. QED
    BY <2>1, FS_Surjection, OriginBounds
<1>3. sticky' \in SUBSET AllAssets /\ sticky \in SUBSET sticky'
  BY DEF TypeOK
<1>4. IsFiniteSet(sticky') /\ Cardinality(sticky) <= Cardinality(sticky')
  <2>1. IsFiniteSet(sticky')
    BY <1>2, <1>3, FS_Subset
  <2>2. QED
    BY <1>3, <2>1, FS_Subset
<1>5. /\ Cardinality(sticky) \in Nat /\ Cardinality(sticky') \in Nat /\ Cardinality(media) \in Nat
      /\ MaxMedia \in Nat /\ MaxPhotos \in Nat
  <2>1. IsFiniteSet(media)
    BY MediaIsFinite DEF Room
  <2>2. QED
    BY <1>4, <2>1, FS_CardinalityType, StickyIsFinite, OriginBounds DEF Room
<1>6. MemoryBounded'
  BY <1>4, <1>5 DEF Room, MemoryBounded
<1>7. QED
  BY <1>1, <1>6

LEMMA PhotoGoes ==
  ASSUME Room, NEW x, x.kind = "photo", UNCHANGED sticky,
         media' = media \ {x}, order' = Without(order, x)
  PROVE  Listed' /\ MemoryBounded' /\ GoesOldest
<1>1. /\ order' \in Seq(Name) /\ Distinct(order')
      /\ \A m : Lists(order', m) <=> Lists(order, m) /\ m # x
  BY WithoutLists DEF Room, Listed
<1>2. \A m : m \in media <=> Lists(order, m)
  BY DEF Room, Listed, Lists
<1>3. \A m : m \in media' <=> \E i \in 1..Len(order') : order'[i] = m
  BY <1>1, <1>2 DEF Lists
<1>4. Listed'
  BY <1>1, <1>3 DEF Listed, Distinct
<1>5. GoesOldest
  BY DEF GoesOldest
<1>6. MemoryBounded'
  <2>1. IsFiniteSet(media)
    BY MediaIsFinite DEF Room
  <2>2. Cardinality(media') <= Cardinality(media)
    <3>1. media' \in SUBSET media
      OBVIOUS
    <3>2. QED
      BY <2>1, <3>1, FS_Subset
  <2>3. /\ Cardinality(media) \in Nat /\ Cardinality(media') \in Nat /\ Cardinality(sticky) \in Nat
        /\ MaxMedia \in Nat /\ MaxPhotos \in Nat
    BY <2>1, FS_RemoveElement, FS_CardinalityType, StickyIsFinite, OriginBounds DEF Room
  <2>4. QED
    BY <2>2, <2>3 DEF Room, MemoryBounded
<1>7. QED
  BY <1>4, <1>5, <1>6

LEMMA UploadMediaRoom ==
  ASSUME Room, NEW n \in Name, UploadMedia(n)
  PROVE  Room' /\ GoesOldest
<1>1. /\ PutMedia(n) /\ sent' \in {sent, sent \union {n}}
      /\ UNCHANGED <<pinned, sticky, photos, playlist, head, init, put, photo, queue>>
  BY DEF UploadMedia, uploads
<1>2. Listed' /\ MemoryBounded' /\ GoesOldest
  BY <1>1, PutMediaKeeps
<1>3. TypeOK'
  BY <1>1, <1>2 DEF Room, TypeOK, Listed
<1>4. PinsNamed'
  BY <1>1 DEF Room, PinsNamed
<1>5. QED
  BY <1>2, <1>3, <1>4 DEF Room

LEMMA UploadAssetRoom ==
  ASSUME Room, NEW a \in Assets, UploadAsset(a)
  PROVE  Room' /\ GoesOldest
<1>1. /\ sticky' = sticky \union {Asset(a)} /\ pinned' = pinned \union {Asset(a)}
      /\ put' = [step |-> "media", name |-> Asset(a), playlist |-> NoPlaylist]
      /\ UNCHANGED <<media, order, photos, playlist, head, init, sent, photo, queue>>
  BY DEF UploadAsset, uploads, Nothing
<1>2. NoPlaylist \in Playlist /\ Asset(a) \in Name
  BY NamesAreNames, OriginBounds DEF NoPlaylist, Playlist
<1>3. TypeOK'
  BY <1>1, <1>2 DEF Room, TypeOK
<1>4. PinsNamed'
  BY <1>1 DEF Room, PinsNamed
<1>5. QED
  BY <1>1, <1>3, <1>4, StoreStays DEF Room

LEMMA StoreAssetRoom ==
  ASSUME Room, StoreAsset
  PROVE  Room' /\ GoesOldest
<1>1. /\ PutMedia(put.name) /\ put' = [step |-> "none", name |-> Page, playlist |-> NoPlaylist]
      /\ UNCHANGED <<pinned, sticky, photos, playlist, head, init, sent, photo, queue>>
  BY DEF StoreAsset, uploads, Nothing
<1>2. put.name \in Name
  BY DEF Room, TypeOK
<1>3. Listed' /\ MemoryBounded' /\ GoesOldest
  BY <1>1, <1>2, PutMediaKeeps
<1>4. NoPlaylist \in Playlist
  BY OriginBounds DEF NoPlaylist, Playlist
<1>5. TypeOK'
  BY <1>1, <1>3, <1>4, NamesAreNames DEF Room, TypeOK, Listed
<1>6. PinsNamed'
  BY <1>1 DEF Room, PinsNamed
<1>7. QED
  BY <1>3, <1>5, <1>6 DEF Room

LEMMA PlaylistRoom ==
  ASSUME Room, UploadPlaylist \/ StorePlaylist
  PROVE  Room' /\ GoesOldest
<1>1. NoPlaylist \in Playlist /\ [head |-> head, init |-> init] \in Playlist
  BY OriginBounds DEF NoPlaylist, Playlist, Room, TypeOK
<1>2. CASE UploadPlaylist
  <2>1. /\ pinned' = sticky \union {Map(init), Page}
        /\ put' = [step |-> "playlist", name |-> Page, playlist |-> [head |-> head, init |-> init]]
        /\ UNCHANGED <<media, order, sticky, photos, playlist, head, init, sent, photo, queue>>
    BY <1>2 DEF UploadPlaylist, Pin, uploads, Nothing
  <2>2. Map(init) \in Name
    BY NamesAreNames DEF Room, TypeOK
  <2>3. sticky \in SUBSET Name
    BY NamesAreNames DEF Room, TypeOK
  <2>4. TypeOK'
    BY <1>1, <2>1, <2>2, <2>3, NamesAreNames DEF Room, TypeOK
  <2>5. PinsNamed'
    BY <2>1, <2>2 DEF PinsNamed
  <2>6. QED
    BY <2>1, <2>4, <2>5, StoreStays DEF Room
<1>3. CASE StorePlaylist
  <2>1. /\ playlist' = put.playlist /\ sent' \subseteq sent
        /\ put' = [step |-> "none", name |-> Page, playlist |-> NoPlaylist]
        /\ UNCHANGED <<media, order, pinned, sticky, photos, head, init, photo, queue>>
    BY <1>3 DEF StorePlaylist, uploads, Nothing
  <2>2. TypeOK'
    BY <1>1, <2>1, NamesAreNames DEF Room, TypeOK
  <2>3. PinsNamed'
    BY <2>1 DEF Room, PinsNamed
  <2>4. QED
    BY <2>1, <2>2, <2>3, StoreStays DEF Room
<1>4. QED
  BY <1>2, <1>3

LEMMA MuxerRoom ==
  ASSUME Room, Advance \/ NewInit \/ Drain \/ UNCHANGED vars
  PROVE  Room' /\ GoesOldest
<1>1. /\ UNCHANGED <<media, order, pinned, sticky, photos, playlist, sent, put, photo>>
      /\ head' = head \/ (head < MaxSegment /\ head' = head + 1)
      /\ init' = init \/ (init < MaxInit /\ init' = init + 1)
      /\ queue' = queue \/ queue' = {}
  BY DEF Advance, NewInit, Drain, vars, room, mac, uploads
<1>2. TypeOK'
  <2>1. head' \in 1..MaxSegment /\ init' \in 1..MaxInit /\ queue' \in SUBSET Photos
    BY <1>1, OriginBounds DEF Room, TypeOK
  <2>2. QED
    BY <1>1, <2>1 DEF Room, TypeOK
<1>3. PinsNamed'
  BY <1>1 DEF Room, PinsNamed
<1>4. QED
  BY <1>1, <1>2, <1>3, StoreStays DEF Room

LEMMA StorePhotoRoom ==
  ASSUME Room, NEW p \in Photos, StorePhoto(p)
  PROVE  Room' /\ GoesOldest
<1>1. /\ PutMedia(Photo(p)) /\ photo' = [photo EXCEPT ![p] = "stored"]
      /\ UNCHANGED <<pinned, sticky, photos, playlist, head, init, sent, put, queue>>
  BY DEF StorePhoto, mac
<1>2. Listed' /\ MemoryBounded' /\ GoesOldest
  BY <1>1, NamesAreNames, PutMediaKeeps
<1>3. TypeOK'
  BY <1>1, <1>2 DEF Room, TypeOK, Listed
<1>4. PinsNamed'
  BY <1>1 DEF Room, PinsNamed
<1>5. QED
  BY <1>2, <1>3, <1>4 DEF Room

LEMMA QueuePhotoRoom ==
  ASSUME Room, NEW p \in Photos, QueuePhoto(p)
  PROVE  Room' /\ GoesOldest
<1>1. /\ UNCHANGED <<media, order, pinned, sticky, photos, playlist, head, init, sent, put>>
      /\ photo' = [photo EXCEPT ![p] = "accepted"] \/ photo' = [photo EXCEPT ![p] = "refusing"]
      /\ queue' = queue \union {p} \/ queue' = queue
  BY DEF QueuePhoto, room, mac
<1>2. TypeOK'
  BY <1>1 DEF Room, TypeOK
<1>3. PinsNamed'
  BY <1>1 DEF Room, PinsNamed
<1>4. QED
  BY <1>1, <1>2, <1>3, StoreStays DEF Room

LEMMA KeepPhotoRoom ==
  ASSUME Inv, Room, NEW p \in Photos, KeepPhoto(p)
  PROVE  Room' /\ GoesOldest
<1> DEFINE s == Append(photos, Photo(p))
<1>1. /\ Photo(p) \in PhotoNames /\ photos \in Seq(PhotoNames)
      /\ Distinct(photos) /\ ~Lists(photos, Photo(p)) /\ Len(s) = Len(photos) + 1
  BY DEF Inv, Pins, Traces, KeepPhoto, PhotoNames
<1>2. /\ s \in Seq(PhotoNames) /\ Distinct(s) /\ s # <<>>
      /\ \A m : Lists(s, m) <=> Lists(photos, m) \/ m = Photo(p)
  BY <1>1, AppendPhoto
<1> HIDE DEF s
<1>3. /\ Tail(s) \in Seq(PhotoNames) /\ Head(s) \in PhotoNames /\ Len(Tail(s)) = Len(photos)
      /\ \A m : Lists(Tail(s), m) <=> Lists(s, m) /\ m # Head(s)
  BY <1>1, <1>2, TailPhotos
<1>4. /\ photo' = [photo EXCEPT ![p] = "kept"]
      /\ UNCHANGED <<sticky, playlist, head, init, sent, put, queue>>
  BY DEF KeepPhoto, mac
<1>5. PICK m \in Name : \A n \in pinned : n \in sticky \/ n = Page \/ n = m \/ Lists(photos, n)
  BY DEF Room, PinsNamed, Lists
<1>6. Len(photos) \in Nat /\ MaxPhotos \in Nat /\ Len(photos) <= MaxPhotos
  BY OriginBounds DEF Room, TypeOK
<1>7. Photo(p) \in Name /\ PhotoNames = {Photo(q) : q \in Photos} /\ Head(s).kind = "photo"
  BY <1>3, NamesAreNames DEF PhotoNames
<1>8. ASSUME photos' \in Seq(PhotoNames), Len(photos') <= MaxPhotos,
             pinned' \subseteq pinned \union {Photo(p)}, Listed'
      PROVE  TypeOK'
  BY <1>4, <1>7, <1>8 DEF Room, TypeOK, Listed
<1>9. ASSUME \A n \in pinned' : n \in sticky \/ n = Page \/ n = m \/ Lists(photos', n)
      PROVE  PinsNamed'
  BY <1>4, <1>9 DEF PinsNamed, Lists
<1>10. CASE Len(s) > MaxPhotos
  <2>1. /\ photos' = Tail(s) /\ pinned' = (pinned \union {Photo(p)}) \ {Head(s)}
        /\ media' = media \ {Head(s)} /\ order' = Without(order, Head(s))
    BY <1>10 DEF KeepPhoto, s
  <2>2. Listed' /\ MemoryBounded' /\ GoesOldest
    BY <1>4, <1>7, <2>1, PhotoGoes
  <2>3. TypeOK'
    BY <1>3, <1>6, <1>8, <2>1, <2>2
  <2>4. PinsNamed'
    BY <1>2, <1>3, <1>5, <1>9, <2>1
  <2>5. QED
    BY <2>2, <2>3, <2>4 DEF Room
<1>11. CASE ~(Len(s) > MaxPhotos)
  <2>1. photos' = s /\ pinned' = pinned \union {Photo(p)} /\ UNCHANGED <<media, order>>
    BY <1>11 DEF KeepPhoto, s
  <2>2. Listed'
    BY <2>1 DEF Room, Listed, Distinct
  <2>3. TypeOK'
    BY <1>1, <1>2, <1>6, <1>8, <1>11, <2>1, <2>2
  <2>4. PinsNamed'
    BY <1>2, <1>5, <1>9, <2>1
  <2>5. MemoryBounded' /\ GoesOldest
    BY <1>4, <2>1, <2>3, StoreStays
  <2>6. QED
    BY <2>2, <2>3, <2>4, <2>5 DEF Room
<1>12. QED
  BY <1>10, <1>11

LEMMA DropPhotoRoom ==
  ASSUME Inv, Room, NEW p \in Photos, DropPhoto(p)
  PROVE  Room' /\ GoesOldest
<1>1. /\ media' = media \ {Photo(p)} /\ pinned' = pinned \ {Photo(p)}
      /\ photos' = Without(photos, Photo(p)) /\ order' = Without(order, Photo(p))
      /\ photo' = [photo EXCEPT ![p] = "refused"]
      /\ UNCHANGED <<sticky, playlist, head, init, sent, put, queue>>
  BY DEF DropPhoto, mac
<1>2. /\ photos' \in Seq(PhotoNames) /\ Len(photos') <= Len(photos)
      /\ \A m : Lists(photos', m) <=> Lists(photos, m) /\ m # Photo(p)
  BY <1>1, WithoutLists DEF Inv, Pins, Traces
<1>3. Listed' /\ MemoryBounded' /\ GoesOldest
  BY <1>1, NamesAreNames, PhotoGoes
<1>4. Len(photos') <= MaxPhotos
  <2>1. Len(photos) \in Nat /\ Len(photos') \in Nat /\ Len(photos) <= MaxPhotos /\ MaxPhotos \in Nat
    BY <1>2, OriginBounds DEF Room, TypeOK
  <2>2. QED
    BY <1>2, <2>1
<1>5. TypeOK'
  BY <1>1, <1>2, <1>3, <1>4 DEF Room, TypeOK, Listed, PhotoNames
<1>6. PinsNamed'
  <2>1. PICK m \in Name : \A n \in pinned : n \in sticky \/ n = Page \/ n = m \/ Lists(photos, n)
    BY DEF Room, PinsNamed, Lists
  <2>2. \A n \in pinned' : n \in sticky' \/ n = Page \/ n = m \/ Lists(photos', n)
    BY <1>1, <1>2, <2>1
  <2>3. QED
    BY <2>2 DEF PinsNamed, Lists
<1>7. QED
  BY <1>3, <1>5, <1>6 DEF Room

LEMMA StepKeepsRoom ==
  ASSUME Inv, Room, [Next]_vars
  PROVE  Room' /\ GoesOldest
<1>1. CASE \E n \in Name : UploadMedia(n)
  BY <1>1, UploadMediaRoom
<1>2. CASE \E a \in Assets : UploadAsset(a)
  BY <1>2, UploadAssetRoom
<1>3. CASE StoreAsset \/ UploadPlaylist \/ StorePlaylist
  BY <1>3, StoreAssetRoom, PlaylistRoom
<1>4. CASE \E p \in Photos : StorePhoto(p) \/ KeepPhoto(p) \/ QueuePhoto(p) \/ DropPhoto(p)
  BY <1>4, StorePhotoRoom, KeepPhotoRoom, QueuePhotoRoom, DropPhotoRoom
<1>5. CASE Advance \/ NewInit \/ Drain \/ UNCHANGED vars
  BY <1>5, MuxerRoom
<1>6. QED
  BY <1>1, <1>2, <1>3, <1>4, <1>5 DEF Next

LEMMA InitIsRoom == Init => Room
<1> SUFFICES ASSUME Init PROVE Room
  OBVIOUS
<1>1. NoPlaylist \in Playlist /\ 1 \in 1..MaxSegment /\ 1 \in 1..MaxInit
  BY OriginBounds DEF NoPlaylist, Playlist
<1>2. order = <<>> /\ photos = <<>> /\ Len(order) = 0 /\ Len(photos) = 0 /\ 1..0 = {}
  BY DEF Init
<1>3. TypeOK
  BY <1>1, <1>2, NamesAreNames, OriginBounds DEF Init, Nothing, TypeOK
<1>4. Listed
  BY <1>2 DEF Init, Listed, Distinct
<1>5. PinsNamed
  BY NamesAreNames DEF Init, PinsNamed
<1>6. MemoryBounded
  BY FS_EmptySet, OriginBounds DEF Init, MemoryBounded
<1>7. QED
  BY <1>3, <1>4, <1>5, <1>6 DEF Room

(***************************************************************************)
(* The values of the room, the Mac and the uploads, and that no more       *)
(* photos are kept than the cap (origin.go:58-96, 140-160).                *)
(***************************************************************************)
THEOREM TypeCorrect == Spec => []TypeOK
<1>1. Init => Inv /\ Room
  BY InitKeeps, InitIsRoom
<1>2. Inv /\ Room /\ [Next]_vars => Inv' /\ Room'
  BY StepKeeps, StepKeepsRoom
<1>3. Room => TypeOK
  BY DEF Room
<1>4. QED
  BY <1>1, <1>2, <1>3, PTL DEF Spec

(***************************************************************************)
(* The store never holds more than its window, the page, one init segment, *)
(* the page's assets and the photos kept, though every playlist unpins     *)
(* what it does not name (origin.go:38-42, 124-134, 195-213).              *)
(***************************************************************************)
THEOREM MemoryIsBounded == Spec => []MemoryBounded
<1>1. Init => Inv /\ Room
  BY InitKeeps, InitIsRoom
<1>2. Inv /\ Room /\ [Next]_vars => Inv' /\ Room'
  BY StepKeeps, StepKeepsRoom
<1>3. Room => MemoryBounded
  BY DEF Room
<1>4. QED
  BY <1>1, <1>2, <1>3, PTL DEF Spec

(***************************************************************************)
(* Whatever is not a photo leaves the store unpinned, out of a full        *)
(* window, and before anything younger that is not pinned                  *)
(* (origin.go:115-134).                                                    *)
(***************************************************************************)
THEOREM WindowRolls == Spec => OldestGoes
<1>1. Init => Inv /\ Room
  BY InitKeeps, InitIsRoom
<1>2. Inv /\ Room /\ [Next]_vars => Inv' /\ Room'
  BY StepKeeps, StepKeepsRoom
<1>3. Inv /\ Room /\ [Next]_vars => [GoesOldest]_vars
  BY StepKeepsRoom
<1>4. QED
  BY <1>1, <1>2, <1>3, PTL DEF Spec, OldestGoes, GoesOldest
=============================================================================

------------------------------ MODULE WallFeed ------------------------------
(***************************************************************************)
(* A page that follows the wall of a Mac: the event store as FeedSource    *)
(* promises it, the handler of /api/feed that parks a request until the    *)
(* revision moves, and the script of the page.  The page tells the handler *)
(* the tag of the answer it had last and the stamp up to which it has      *)
(* everything; a tag that still holds earns it an incremental answer.  A   *)
(* page has its own loop and polls once more after every write of its      *)
(* guest, so two requests may be under way at once (listener.html and      *)
(* dj.html; wall.html has the loop alone).  One Mac, without peers; what a *)
(* guest may see of a hidden post of her own is left out.                  *)
(***************************************************************************)
EXTENDS FeedSource

CONSTANTS
  Poller,     \* what sends requests: "loop", and "forced" after a write
  None,
  MaxMoves,   \* bound: moves of the revision between two starts
  MaxMishaps  \* bound: restarts of the Mac, writes of the guest, lost and cut answers, changed switches, cleared walls

ASSUME LoopPolls == "loop" \in Poller /\ Poller \subseteq {"loop", "forced"}
ASSUME NoneIsNoTag == None \notin Nat \X Nat

VARIABLES
  on,       \* feedOn: the page has had an answer
  tag,      \* feedTag: the revision it is told it has
  newest,   \* newestAct
  nodes,    \* the posts on the page, with the stamp each was drawn at
  spoiled,  \* the page lost posts it takes for drawn (see Receive)
  polls,    \* the request of each poll
  mishaps

source == <<shown, clock, revision, owed>>
page == <<on, tag, newest, nodes, spoiled>>
feedVars == <<source, page, polls, mishaps>>

Idle == [at |-> "idle"]
Restricted(f, S) == [x \in S |-> f[x]]
Merge(f, g) == [x \in DOMAIN f \cup DOMAIN g |-> IF x \in DOMAIN g THEN g[x] ELSE f[x]]
Larger(a, b) == IF a > b THEN a ELSE b

FeedInit ==
  /\ revision = <<0, 0>>
  /\ owed = FALSE
  /\ SourceInit
  /\ on = FALSE
  /\ tag = None
  /\ newest = 0
  /\ nodes = [p \in {} |-> 0]
  /\ spoiled = FALSE
  /\ polls = [f \in Poller |-> Idle]
  /\ mishaps = 0

-----------------------------------------------------------------------------
\* The Mac.

\* A change of party is from an empty wall.
Change ==
  /\ \/ /\ revision[2] < MaxMoves
        /\ \/ \E S \in SUBSET Post : Activity(S)
           \/ \E p \in Post : Withdraw(p)
           \/ Refuse \/ Stir
           \/ clock = 0 /\ shown = <<>> /\ Switch
     \/ Announce
  /\ UNCHANGED <<page, polls, mishaps>>

\* Requests inside the old process end with it; its answers may still be on their way.
MacRestarts ==
  /\ mishaps < MaxMishaps
  /\ mishaps' = mishaps + 1
  /\ Restart
  /\ polls' = [f \in Poller |-> IF polls[f].at \in {"parked", "captured"} THEN Idle ELSE polls[f]]
  /\ UNCHANGED page

-----------------------------------------------------------------------------
\* The handler of /api/feed.

\* captureFeedSubscription comes before the snapshot; a request whose tag holds is parked.
Capture(f) ==
  /\ polls[f].at = "sent"
  /\ polls' = [polls EXCEPT ![f] =
       [at |-> IF polls[f].tag = revision THEN "parked" ELSE "captured",
        since |-> IF polls[f].tag = revision THEN polls[f].since ELSE 0,
        full |-> polls[f].tag # revision, token |-> revision]]
  /\ UNCHANGED <<source, page, mishaps>>

Unpark_OnceWoken(f) ==
  /\ polls[f].at = "parked"
  /\ polls[f].token # revision
  /\ polls' = [polls EXCEPT ![f].at = "captured", ![f].token = revision]
  /\ UNCHANGED <<source, page, mishaps>>

\* Woken by the revision, or by the timer after 25 seconds.
Unpark(f) ==
  /\ polls[f].at = "parked"
  /\ polls' = [polls EXCEPT ![f].at = "captured", ![f].token = revision]
  /\ UNCHANGED <<source, page, mishaps>>

Other(f) == Poller \ {f}

\* FeedFor, under the lock of the store.  "over": the other poll has an older answer.
Snapshot(f) ==
  /\ polls[f].at = "captured"
  /\ polls' = [polls EXCEPT ![f] =
       [at |-> "answered", full |-> @.full, since |-> @.since, token |-> @.token, cursor |-> clock,
        posts |-> Restricted(shown, {p \in DOMAIN shown : shown[p] > @.since}), ids |-> DOMAIN shown,
        over |-> \E g \in Other(f) : polls[g].at = "answered", late |-> FALSE]]
  /\ UNCHANGED <<source, page, mishaps>>

-----------------------------------------------------------------------------
\* The page.

\* A request carries the cursor and the tag; before the first answer there is no tag to
\* send, and the request does not wait.
PollFeed(f) ==
  /\ polls[f].at = "idle"
  /\ polls' = [polls EXCEPT ![f] = [at |-> "sent", since |-> newest, tag |-> IF on THEN tag ELSE None]]
  /\ UNCHANGED <<source, page>>

\* The loop sends again and again; a guest's write sends once more.
Loop == PollFeed("loop") /\ UNCHANGED mishaps

PollAgain ==
  /\ "forced" \in Poller
  /\ on
  /\ mishaps < MaxMishaps
  /\ mishaps' = mishaps + 1
  /\ PollFeed("forced")

\* f's answer is out of the way; one of the other poll's that was taken before it is late.
Answered(f) ==
  [g \in Poller |->
     IF g = f THEN Idle
     ELSE IF polls[g].at = "answered" THEN [polls[g] EXCEPT !.late = @ \/ polls[f].over, !.over = FALSE]
     ELSE polls[g]]

Draw_TagOfNow(a) == tag' = revision

Draw(a) == tag' = a.token

\* The answer is drawn: nodes that are no longer listed go, the posts it brings are placed,
\* and an incremental answer moves the cursor forward only.  When it brings other switches
\* the page clears the wall first.
Receive(f, switched) ==
  LET a == polls[f]
      clear == switched /\ on
  IN
  /\ a.at = "answered"
  /\ switched => mishaps < MaxMishaps
  /\ mishaps' = IF switched THEN mishaps + 1 ELSE mishaps
  /\ polls' = Answered(f)
  /\ on' = TRUE
  /\ Draw(a)
  /\ newest' = IF a.full THEN a.cursor ELSE Larger(IF clear THEN 0 ELSE newest, a.cursor)
  /\ nodes' = Merge(IF clear THEN <<>> ELSE Restricted(nodes, DOMAIN nodes \cap a.ids), a.posts)
  /\ spoiled' = IF a.late THEN TRUE
                ELSE IF a.since > 0 \/ newest' > a.cursor THEN spoiled \/ clear
                ELSE spoiled /\ \E g \in Other(f) : polls[g].at # "idle"
  /\ UNCHANGED source

\* The headers arrive and the body does not: the page keeps the new tag and nothing else.
Cut(f) ==
  /\ polls[f].at = "answered"
  /\ mishaps < MaxMishaps
  /\ mishaps' = mishaps + 1
  /\ polls' = Answered(f)
  /\ Draw(polls[f])
  /\ spoiled' = (spoiled \/ polls[f].full)
  /\ UNCHANGED <<source, on, newest, nodes>>

\* A request or its answer is lost, or the page gives it up.
Lose(f) ==
  /\ polls[f].at # "idle"
  /\ mishaps < MaxMishaps
  /\ mishaps' = mishaps + 1
  /\ polls' = [polls EXCEPT ![f] = Idle]
  /\ UNCHANGED <<source, page>>

\* "See more" and a change of the connection mode draw the wall anew, and poll.
Clear ==
  /\ on
  /\ "forced" \in Poller /\ polls["forced"].at = "idle"
  /\ mishaps < MaxMishaps
  /\ mishaps' = mishaps + 1
  /\ newest' = 0
  /\ nodes' = <<>>
  /\ spoiled' = TRUE
  /\ polls' = [polls EXCEPT !["forced"] = [at |-> "sent", since |-> 0, tag |-> tag]]
  /\ UNCHANGED <<source, on, tag>>

-----------------------------------------------------------------------------
Serve(f) == Capture(f) \/ Unpark(f) \/ Snapshot(f)

FeedNext ==
  \/ Change \/ MacRestarts \/ Loop \/ PollAgain \/ Clear
  \/ \E f \in Poller : Serve(f) \/ Cut(f) \/ Lose(f) \/ \E switched \in BOOLEAN : Receive(f, switched)

FeedFairness ==
  /\ WF_feedVars(Announce /\ Change)
  /\ \A f \in Poller : WF_feedVars(Serve(f)) /\ WF_feedVars(Receive(f, FALSE))
  /\ WF_feedVars(Loop)

FeedSpec == FeedInit /\ [][FeedNext]_feedVars /\ FeedFairness

-----------------------------------------------------------------------------
Tags == (Nat \X Nat) \cup {None}

Walls == UNION {[S -> Stamp] : S \in SUBSET Post}

Requests ==
  {Idle}
    \cup [at : {"sent"}, since : Nat, tag : Tags]
    \cup [at : {"parked", "captured"}, since : Nat, full : BOOLEAN, token : Nat \X Nat]
    \cup [at : {"answered"}, since : Nat, full : BOOLEAN, token : Nat \X Nat, cursor : Stamp,
          posts : Walls, ids : SUBSET Post, over : BOOLEAN, late : BOOLEAN]

\* Types; and a parked request is one that will be answered incrementally.
FeedTypeOK ==
  /\ shown \in Walls /\ clock \in Stamp /\ revision \in Nat \X Nat /\ owed \in BOOLEAN
  /\ on \in BOOLEAN /\ tag \in Tags /\ newest \in Nat /\ nodes \in Walls /\ spoiled \in BOOLEAN
  /\ polls \in [Poller -> Requests]
  /\ \A f \in Poller : polls[f].at = "parked" => ~polls[f].full
  /\ mishaps \in Nat

Stated(p) == p \in DOMAIN nodes /\ nodes[p] = shown[p]

\* While the tag of a page holds, the page has drawn every post at or behind its cursor, so
\* an incremental answer is enough: no order of changes, snapshots and answers lets "a later
\* mutation fall at or behind a cursor a client has already consumed" (nextActivityLocked),
\* save on a page that cleared its own wall or drew an old answer over a newer one.
NothingBehindCursor ==
  on /\ tag = revision /\ ~spoiled => \A p \in DOMAIN shown : shown[p] > newest \/ Stated(p)

\* When the changes end, every page comes to show the wall as it is (or is spoiled): no
\* wake-up is lost between a snapshot and the parking of a request (watchedFeed), and an
\* answer of which only the headers arrived is made good.
CatchesUp == <>[](spoiled \/ nodes = shown)
=============================================================================

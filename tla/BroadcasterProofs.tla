------------------------- MODULE BroadcasterProofs -------------------------
(***************************************************************************)
(* Proofs about Broadcaster for any number of starts and stops: a Stop     *)
(* holds, a set that is on has an encoder, no encoder is orphaned, going   *)
(* live is answered, and the permission is blamed with reason.             *)
(*                                                                         *)
(* None of these is inductive.  They rest on the generations: each is      *)
(* taken by one Stop or one start (Generations), a process is where its    *)
(* start's goroutine has got to (Processes), the encoder that is published *)
(* and running has not been overtaken by any Stop (PublishedIsNewest), and *)
(* the newest start shows in the state (NewestShows).                      *)
(***************************************************************************)
EXTENDS Broadcaster, TLAPS

Quiet == {"free", "decided", "stop", "begin"}

\* No two sections take the same generation, and none is ahead of gen.
Generations ==
  /\ \A n \in Starts : start[n].mine \in 0 .. gen /\ start[n].stopped \in 0 .. gen
  /\ \A n \in Starts : Active(n) <=> start[n].mine > 0
  /\ \A n \in Starts : start[n].pc \in {"free", "decided", "stop"} => start[n].stopped = 0
  /\ \A m, n \in Starts :
       start[n].mine > 0 =>
         /\ start[m].stopped # start[n].mine
         /\ m # n => start[m].mine # start[n].mine

\* A process is as far as its start, and only a start that has returned has
\* its ffmpeg published.
Processes ==
  /\ \A n \in Starts :
       /\ start[n].pc \notin {"publish", "end"} => ffmpeg[n] = "none"
       /\ start[n].pc = "publish" => ffmpeg[n] \in {"up", "exited"}
       /\ start[n].pc \in Quiet \cup {"spawn"} => capture[n] = "none"
  /\ cmd # None => start[cmd].pc = "end" /\ ffmpeg[cmd] \notin {"none", "reaped"}

\* The published encoder, while it runs undisturbed, is newer than every Stop
\* a start has made.
PublishedIsNewest ==
  (cmd # None /\ ffmpeg[cmd] = "up") =>
    \A m \in Starts : start[m].stopped < start[cmd].mine

\* While the newest generation is a start's, the set is on or failed.
NewestShows ==
  \A n \in Starts : Active(n) /\ Current(n) => state \in {"starting", "live", "error"}

\* A DJ who wants to be live has a start that is coming or the newest one.
WantedIsComing ==
  want = "on" => \E n \in Starts : \/ start[n].pc \in {"stop", "begin"}
                                   \/ Active(n) /\ Current(n)

\* The newest tap that was heard counts as up.
HeardIsUp ==
  \A n \in Starts : n \in heard => Active(n) /\ (Current(n) => up)

Inv ==
  /\ Generations
  /\ Processes
  /\ PublishedIsNewest
  /\ NewestShows
  /\ WantedIsComing
  /\ HeardIsUp
  /\ StopHolds
  /\ LiveHasEncoder

-----------------------------------------------------------------------------
\* No start has the number that stands for no handle.
LEMMA NoneIsNobody == None \notin Starts
  BY DEF None, Starts

-----------------------------------------------------------------------------
(* How a step moves one goroutine on.                                      *)

\* Start n moves to p and takes no generation.
Moved(n, p) ==
  \A m \in Starts : /\ start'[m].pc = IF m = n THEN p ELSE start[m].pc
                    /\ start'[m].mine = start[m].mine
                    /\ start'[m].stopped = start[m].stopped

\* A step of a start changes only where that start is.
LEMMA GotoMoves ==
  ASSUME TypeOK, NEW n \in Starts, NEW p, Goto(n, p)
  PROVE  Moved(n, p)
  BY DEF TypeOK, Goroutines, Goto, Moved

\* A call begins a fresh start and moves no other.
LEMMA CalledMoves ==
  ASSUME TypeOK, NEW n \in Starts, NEW d, NEW p, Called(n, d, p)
  PROVE  Moved(n, p)
  BY DEF TypeOK, Goroutines, Called, Moved

\* Looking up what to restart moves only the restart.
LEMMA ReplayMoves ==
  ASSUME TypeOK, NEW n \in Starts, Replay(n)
  PROVE  Moved(n, "stop")
  BY DEF TypeOK, Goroutines, Moved, Replay

\* The timeout of the FORMAT line moves only its start.
LEMMA AssumedMoves ==
  ASSUME TypeOK, NEW n \in Starts, FormatAssumed(n)
  PROVE  Moved(n, "launch")
  BY DEF TypeOK, Goroutines, Moved, FormatAssumed

\* Publication moves only the start that publishes.
LEMMA PublishMoves ==
  ASSUME TypeOK, NEW n \in Starts, Publish(n)
  PROVE  Moved(n, "end")
  BY DEF TypeOK, Goroutines, Moved, Publish

\* A late FORMAT line is noted by its own start only.
LEMMA LateMoves ==
  ASSUME TypeOK, NEW n \in Starts, LateFormat(n)
  PROVE  Moved(n, start[n].pc)
  BY DEF TypeOK, Goroutines, Moved, LateFormat

\* A rescue begins the fresh start, and takes no generation.
LEMMA RescueMoves ==
  ASSUME TypeOK, NEW n \in Starts, NEW m \in Starts, Rescue(n, m)
  PROVE  Moved(m, "stop")
  BY DEF TypeOK, Goroutines, Moved, Rescue, Fresh

\* A start's own Stop records the generation it leaves.
LEMMA StopMoves ==
  ASSUME TypeOK, NEW n \in Starts, StopFirst(n)
  PROVE  \A m \in Starts :
           /\ start'[m].pc = IF m = n THEN "begin" ELSE start[m].pc
           /\ start'[m].mine = start[m].mine
           /\ start'[m].stopped = IF m = n THEN gen + 1 ELSE start[m].stopped
  BY DEF TypeOK, Goroutines, StopFirst

\* A start takes the next generation.
LEMMA BeginMoves ==
  ASSUME TypeOK, NEW n \in Starts, NEW st, NEW p, Begun(n, st, p)
  PROVE  \A m \in Starts :
           /\ start'[m].pc = IF m = n THEN p ELSE start[m].pc
           /\ start'[m].mine = IF m = n THEN gen + 1 ELSE start[m].mine
           /\ start'[m].stopped = start[m].stopped
  BY DEF TypeOK, Goroutines, Begun

-----------------------------------------------------------------------------
(* The values of the variables.                                            *)

\* A start with another device is still a start.
LEMMA DeviceTyped ==
  ASSUME start \in [Starts -> Goroutines], NEW n \in Starts, NEW p \in Points,
         NEW x \in Devices \cup {"none"}
  PROVE  [start EXCEPT ![n].pc = p, ![n].device = x] \in [Starts -> Goroutines]
  BY DEF Goroutines

\* So is one with another generation of its own,
LEMMA MineTyped ==
  ASSUME start \in [Starts -> Goroutines], NEW n \in Starts, NEW p \in Points,
         NEW x \in Nat
  PROVE  [start EXCEPT ![n].pc = p, ![n].mine = x] \in [Starts -> Goroutines]
  BY DEF Goroutines

\* one that has stopped its predecessor,
LEMMA StoppedTyped ==
  ASSUME start \in [Starts -> Goroutines], NEW n \in Starts, NEW p \in Points,
         NEW x \in Nat
  PROVE  [start EXCEPT ![n].pc = p, ![n].stopped = x] \in [Starts -> Goroutines]
  BY DEF Goroutines

\* and one whose late goroutine has moved on.
LEMMA LateTyped ==
  ASSUME start \in [Starts -> Goroutines], NEW n \in Starts, NEW p \in Points,
         NEW x \in {"no", "assumed", "wait", "recheck"}
  PROVE  [start EXCEPT ![n].pc = p, ![n].late = x] \in [Starts -> Goroutines]
  BY DEF Goroutines

\* Every step leaves well-typed goroutines.
LEMMA GoroutinesStep == TypeOK /\ [Next]_vars => start' \in [Starts -> Goroutines]
<1> SUFFICES ASSUME TypeOK, [Next]_vars PROVE start' \in [Starts -> Goroutines]
  OBVIOUS
<1>0. start \in [Starts -> Goroutines]
  BY DEF TypeOK
<1> USE DEF Points
<1>1. CASE Stop
  BY <1>0, <1>1 DEF Stop, Stopping, Goroutines
<1>2. CASE Status
  BY <1>0, <1>2 DEF Status, Goroutines
<1>3. CASE \E t \in timers : Grace(t)
  BY <1>0, <1>3 DEF Grace, Goroutines
<1>4. CASE \E n \in Starts, d \in Devices : GoLive(n, d)
  <2> PICK n \in Starts, d \in Devices : GoLive(n, d)
    BY <1>4
  <2> QED
    BY <1>0, DeviceTyped DEF GoLive, Called
<1>5. CASE \E n \in Starts : TryAutoRestart(n)
  <2> PICK n \in Starts : TryAutoRestart(n)
    BY <1>5
  <2> QED
    BY <1>0, DeviceTyped DEF TryAutoRestart, Called, TypeOK, Devices
<1>6. CASE \E n \in Starts : Recover(n)
  <2> PICK n \in Starts : Recover(n)
    BY <1>6
  <2> QED
    BY <1>0, DeviceTyped DEF Recover, Called
<1>7. CASE \E n, m \in Starts : Rescue(n, m)
  <2> PICK n \in Starts, m \in Starts : Rescue(n, m)
    BY <1>7
  <2> DEFINE q == [start EXCEPT ![n].late = "no"]
  <2>2. start[n].device \in Devices \cup {"none"}
    BY <1>0 DEF Goroutines
  <2>3. q \in [Starts -> Goroutines]
    BY <1>0 DEF Goroutines
  <2>4. start' = [q EXCEPT ![m].pc = "stop", ![m].device = start[n].device]
    BY DEF Rescue
  <2> HIDE DEF q
  <2>5. ASSUME NEW f \in [Starts -> Goroutines]
        PROVE  [f EXCEPT ![m].pc = "stop", ![m].device = start[n].device]
                 \in [Starts -> Goroutines]
    <3>1. [f[m] EXCEPT !.pc = "stop", !.device = start[n].device] \in Goroutines
      BY <2>2 DEF Goroutines
    <3>2. [f EXCEPT ![m].pc = "stop", ![m].device = start[n].device]
            = [f EXCEPT ![m] = [f[m] EXCEPT !.pc = "stop", !.device = start[n].device]]
      BY DEF Goroutines
    <3> QED
      BY <3>1, <3>2
  <2>6. QED
    BY <2>3, <2>4, <2>5
<1>8. CASE \E n \in Starts : Replay(n)
  <2> PICK n \in Starts : Replay(n)
    BY <1>8
  <2> QED
    BY <1>0, DeviceTyped DEF Replay, TypeOK, Devices
<1>9. CASE \E n \in Starts : StopFirst(n)
  <2> PICK n \in Starts : StopFirst(n)
    BY <1>9
  <2>1. gen + 1 \in Nat
    BY DEF TypeOK
  <2>2. QED
    BY <2>1, <1>0, StoppedTyped DEF StopFirst
<1>10. CASE \E n \in Starts : Begin(n)
  <2> PICK n \in Starts : Begin(n)
    BY <1>10
  <2>1. gen + 1 \in Nat
    BY DEF TypeOK
  <2>2. QED
    BY <2>1, <1>0, MineTyped DEF Begin, Begun
<1>11. CASE \E n \in Starts : BeginFails(n)
  <2> PICK n \in Starts : BeginFails(n)
    BY <1>11
  <2>1. gen + 1 \in Nat
    BY DEF TypeOK
  <2>2. QED
    BY <2>1, <1>0, MineTyped DEF BeginFails, Begun
<1>12. CASE \E n \in Starts : SpawnHelper(n)
  BY <1>0, <1>12 DEF SpawnHelper, Goto, Goroutines
<1>13. CASE \E n \in Starts : HelperFails(n)
  BY <1>0, <1>13 DEF HelperFails, Goto, Goroutines
<1>14. CASE \E n \in Starts : Adopt(n)
  BY <1>0, <1>14 DEF Adopt, Goto, Goroutines
<1>15. CASE \E n \in Starts : FormatHeard(n)
  BY <1>0, <1>15 DEF FormatHeard, Goto, Goroutines
<1>16. CASE \E n \in Starts : FormatAssumed(n)
  <2> PICK n \in Starts : FormatAssumed(n)
    BY <1>16
  <2> QED
    BY <1>0, LateTyped DEF FormatAssumed
<1>17. CASE \E n \in Starts : Launch(n)
  BY <1>0, <1>17 DEF Launch, Goto, Goroutines
<1>18. CASE \E n \in Starts : LaunchFails(n)
  BY <1>0, <1>18 DEF LaunchFails, Goto, Goroutines
<1>19. CASE \E n \in Starts : Publish(n)
  <2> PICK n \in Starts : Publish(n)
    BY <1>19
  <2> DEFINE late == IF start[n].late = "assumed" THEN "wait" ELSE start[n].late
  <2>1. start' = [start EXCEPT ![n].pc = "end", ![n].late = late]
    BY DEF Publish
  <2>2. late \in {"no", "assumed", "wait", "recheck"}
    BY <1>0 DEF Goroutines
  <2> HIDE DEF late
  <2>3. QED
    BY <1>0, <2>1, <2>2, LateTyped
<1>20. CASE \E n \in Starts : Withdraw(n)
  BY <1>0, <1>20 DEF Withdraw, Goto, Goroutines
<1>21. CASE \E n \in Starts : LateFormat(n)
  BY <1>0, <1>21 DEF LateFormat, Goroutines
<1>22. CASE \E n \in Starts : FFmpegExits(n)
  BY <1>0, <1>22 DEF FFmpegExits, Goroutines
<1>23. CASE \E n \in Starts : HelperExits(n)
  BY <1>0, <1>23 DEF HelperExits, Goroutines
<1>24. CASE \E n \in Starts : Reap(n)
  BY <1>0, <1>24 DEF Reap, Goroutines
<1>25. CASE UNCHANGED vars
  BY <1>0, <1>25 DEF vars
<1>26. QED
  BY <1>1, <1>2, <1>3, <1>4, <1>5, <1>6, <1>7, <1>8, <1>9, <1>10, <1>11,
     <1>12, <1>13, <1>14, <1>15, <1>16, <1>17, <1>18, <1>19, <1>20, <1>21,
     <1>22, <1>23, <1>24, <1>25 DEF Next, StartSteps

\* Every step leaves well-typed variables.
LEMMA TypeStep == TypeOK /\ [Next]_vars => TypeOK'
<1> SUFFICES ASSUME TypeOK, [Next]_vars PROVE TypeOK'
  OBVIOUS
<1>0. start' \in [Starts -> Goroutines]
  BY GoroutinesStep
<1> USE BoundsAreNaturals DEF TypeOK
<1>1. CASE Stop
  BY <1>0, <1>1 DEF Stop, Stopping, Signal
<1>2. CASE Status
  BY <1>0, <1>2 DEF Status
<1>3. CASE \E t \in timers : Grace(t)
  BY <1>0, <1>3 DEF Grace
<1>4. CASE \E n \in Starts, d \in Devices : GoLive(n, d)
  BY <1>0, <1>4 DEF GoLive
<1>5. CASE \E n \in Starts : TryAutoRestart(n)
  BY <1>0, <1>5 DEF TryAutoRestart
<1>6. CASE \E n \in Starts : Recover(n)
  BY <1>0, <1>6 DEF Recover
<1>7. CASE \E n, m \in Starts : Rescue(n, m)
  BY <1>0, <1>7 DEF Rescue
<1>8. CASE \E n \in Starts : Replay(n)
  BY <1>0, <1>8 DEF Replay
<1>9. CASE \E n \in Starts : StopFirst(n)
  BY <1>0, <1>9 DEF StopFirst, Stopping, Signal
<1>10. CASE \E n \in Starts : Begin(n)
  <2> PICK n \in Starts : Begin(n)
    BY <1>10
  <2>1. start[n].device \in Devices \cup {"none"}
    BY DEF Goroutines
  <2>2. /\ gen' = gen + 1 /\ state' \in {"starting", "error"}
        /\ device' = start[n].device /\ up' = FALSE /\ blame' = FALSE /\ file' = {}
        /\ UNCHANGED <<cmd, helper, ffmpeg, capture, timers, want, heard, stops>>
    BY DEF Begin, Begun
  <2>3. gen' \in Nat
    BY <2>2
  <2>4. up' \in BOOLEAN /\ blame' \in BOOLEAN /\ file' \subseteq Starts
    BY <2>2
  <2>5. QED
    BY <1>0, <2>1, <2>2, <2>3, <2>4
<1>11. CASE \E n \in Starts : BeginFails(n)
  <2> PICK n \in Starts : BeginFails(n)
    BY <1>11
  <2>1. start[n].device \in Devices \cup {"none"}
    BY DEF Goroutines
  <2>2. /\ gen' = gen + 1 /\ state' \in {"starting", "error"}
        /\ device' = start[n].device /\ up' = FALSE /\ blame' = FALSE /\ file' = {}
        /\ UNCHANGED <<cmd, helper, ffmpeg, capture, timers, want, heard, stops>>
    BY DEF BeginFails, Begun
  <2>3. gen' \in Nat
    BY <2>2
  <2>4. up' \in BOOLEAN /\ blame' \in BOOLEAN /\ file' \subseteq Starts
    BY <2>2
  <2>5. QED
    BY <1>0, <2>1, <2>2, <2>3, <2>4
<1>12. CASE \E n \in Starts : SpawnHelper(n)
  BY <1>0, <1>12 DEF SpawnHelper
<1>13. CASE \E n \in Starts : HelperFails(n)
  BY <1>0, <1>13 DEF HelperFails, Fail
<1>14. CASE \E n \in Starts : Adopt(n)
  BY <1>0, <1>14 DEF Adopt
<1>15. CASE \E n \in Starts : FormatHeard(n)
  BY <1>0, <1>15 DEF FormatHeard, Heard
<1>16. CASE \E n \in Starts : FormatAssumed(n)
  BY <1>0, <1>16 DEF FormatAssumed
<1>17. CASE \E n \in Starts : Launch(n)
  BY <1>0, <1>17 DEF Launch
<1>18. CASE \E n \in Starts : LaunchFails(n)
  BY <1>0, <1>18 DEF LaunchFails, KillHelper, Fail
<1>19. CASE \E n \in Starts : Publish(n)
  BY <1>0, <1>19 DEF Publish
<1>20. CASE \E n \in Starts : Withdraw(n)
  BY <1>0, <1>20 DEF Withdraw, KillHelper
<1>21. CASE \E n \in Starts : LateFormat(n)
  BY <1>0, <1>21 DEF LateFormat, Heard
<1>22. CASE \E n \in Starts : FFmpegExits(n)
  BY <1>0, <1>22 DEF FFmpegExits
<1>23. CASE \E n \in Starts : HelperExits(n)
  BY <1>0, <1>23 DEF HelperExits
<1>24. CASE \E n \in Starts : Reap(n)
  BY <1>0, <1>24 DEF Reap, KillHelper, Owns, Ended, Died
<1>25. CASE UNCHANGED vars
  BY <1>25 DEF vars
<1>26. QED
  BY <1>1, <1>2, <1>3, <1>4, <1>5, <1>6, <1>7, <1>8, <1>9, <1>10, <1>11,
     <1>12, <1>13, <1>14, <1>15, <1>16, <1>17, <1>18, <1>19, <1>20, <1>21,
     <1>22, <1>23, <1>24, <1>25 DEF Next, StartSteps

-----------------------------------------------------------------------------
(* The invariant but for orphans.                                           *)

\* Every step keeps the invariant.
LEMMA InvStep == TypeOK /\ Inv /\ [Next]_vars => Inv'
<1> SUFFICES ASSUME TypeOK, Inv, [Next]_vars PROVE Inv'
  OBVIOUS
<1> USE NoneIsNobody DEF TypeOK, Inv
<1>1. CASE Stop
  <2>1. Generations'
    BY <1>1 DEF Stop, Stopping, Signal, Generations, Active
  <2>2. Processes'
    BY <1>1 DEF Stop, Stopping, Signal, Processes, Quiet
  <2>3. PublishedIsNewest'
    BY <1>1 DEF Stop, Stopping, Signal, Generations, Processes,
       PublishedIsNewest, Active, Current
  <2>4. (NewestShows /\ WantedIsComing /\ HeardIsUp)'
    BY <1>1 DEF Stop, Stopping, Signal, Generations, NewestShows,
       WantedIsComing, HeardIsUp, Active, Current
  <2>5. (StopHolds /\ LiveHasEncoder)'
    BY <1>1 DEF Stop, Stopping, Signal, Generations, Processes, StopHolds,
       LiveHasEncoder, Encoding, Active, Current
  <2>6. QED
    BY <2>1, <2>2, <2>3, <2>4, <2>5
<1>2. CASE Status
  <2>1. Generations'
    BY <1>2 DEF Status, Generations, Active
  <2>2. Processes'
    BY <1>2 DEF Status, Processes, Quiet
  <2>3. PublishedIsNewest'
    BY <1>2 DEF Status, Generations, Processes, PublishedIsNewest, Active,
       Current
  <2>4. (NewestShows /\ WantedIsComing /\ HeardIsUp)'
    BY <1>2 DEF Status, Generations, NewestShows, WantedIsComing, HeardIsUp,
       Active, Current
  <2>5. (StopHolds /\ LiveHasEncoder)'
    BY <1>2 DEF Status, Generations, Processes, StopHolds, LiveHasEncoder,
       Encoding, Active, Current
  <2>6. QED
    BY <2>1, <2>2, <2>3, <2>4, <2>5
<1>3. CASE \E t \in timers : Grace(t)
  <2> PICK t \in timers : Grace(t)
    BY <1>3
  <2>1. Generations'
    BY DEF Grace, Generations, Active
  <2>2. Processes'
    BY DEF Grace, Processes, Quiet
  <2>3. PublishedIsNewest'
    BY DEF Grace, Generations, Processes, PublishedIsNewest, Active, Current
  <2>4. (NewestShows /\ WantedIsComing /\ HeardIsUp)'
    BY DEF Grace, Generations, NewestShows, WantedIsComing, HeardIsUp,
       Active, Current
  <2>5. (StopHolds /\ LiveHasEncoder)'
    BY DEF Grace, Generations, Processes, StopHolds, LiveHasEncoder,
       Encoding, Active, Current
  <2>6. QED
    BY <2>1, <2>2, <2>3, <2>4, <2>5
<1>4. CASE \E n \in Starts, d \in Devices : GoLive(n, d)
  <2> PICK n \in Starts, d \in Devices : GoLive(n, d)
    BY <1>4
  <2>1. Moved(n, "stop")
    BY CalledMoves DEF GoLive
  <2>2. start[n].pc = "free"
    BY DEF GoLive, Called, Fresh
  <2>3. /\ want' = "on"
        /\ UNCHANGED <<state, gen, cmd, helper, device, up, blame, ffmpeg, capture,
                       timers, file, heard, stops>>
    BY DEF GoLive
  <2>4. Generations'
    BY <2>1, <2>2, <2>3 DEF Moved, Generations, Active
  <2>5. Processes'
    BY <2>1, <2>2, <2>3 DEF Moved, Processes, Quiet
  <2>6. PublishedIsNewest'
    BY <2>1, <2>2, <2>3 DEF Moved, Generations, Processes, PublishedIsNewest,
       Active, Current
  <2>7. (NewestShows /\ WantedIsComing /\ HeardIsUp)'
    BY <2>1, <2>2, <2>3 DEF Moved, Generations, NewestShows, WantedIsComing,
       HeardIsUp, Active, Current
  <2>8. (StopHolds /\ LiveHasEncoder)'
    BY <2>1, <2>2, <2>3 DEF Moved, Generations, Processes, StopHolds,
       LiveHasEncoder, Encoding, Active, Current
  <2>9. QED
    BY <2>4, <2>5, <2>6, <2>7, <2>8
<1>5. CASE \E n \in Starts : TryAutoRestart(n)
  <2> PICK n \in Starts : TryAutoRestart(n)
    BY <1>5
  <2>1. Moved(n, "stop")
    BY CalledMoves DEF TryAutoRestart
  <2>2. Generations'
    BY <2>1 DEF TryAutoRestart, Called, Fresh, Moved, Generations, Active
  <2>3. Processes'
    BY <2>1 DEF TryAutoRestart, Called, Fresh, Moved, Processes, Quiet
  <2>4. PublishedIsNewest'
    BY <2>1 DEF TryAutoRestart, Called, Fresh, Moved, Generations, Processes,
       PublishedIsNewest, Active, Current
  <2>5. (NewestShows /\ WantedIsComing /\ HeardIsUp)'
    BY <2>1 DEF TryAutoRestart, Called, Fresh, Moved, Generations,
       NewestShows, WantedIsComing, HeardIsUp, Active, Current
  <2>6. (StopHolds /\ LiveHasEncoder)'
    BY <2>1 DEF TryAutoRestart, Called, Fresh, Moved, Generations, Processes,
       StopHolds, LiveHasEncoder, Encoding, Active, Current
  <2>7. QED
    BY <2>2, <2>3, <2>4, <2>5, <2>6
<1>6. CASE \E n \in Starts : Recover(n)
  <2> PICK n \in Starts : Recover(n)
    BY <1>6
  <2>1. Moved(n, "decided")
    BY CalledMoves DEF Recover
  <2>2. Generations'
    BY <2>1 DEF Recover, Called, Fresh, Moved, Generations, Active
  <2>3. Processes'
    BY <2>1 DEF Recover, Called, Fresh, Moved, Processes, Quiet
  <2>4. PublishedIsNewest'
    BY <2>1 DEF Recover, Called, Fresh, Moved, Generations, Processes,
       PublishedIsNewest, Active, Current
  <2>5. (NewestShows /\ WantedIsComing /\ HeardIsUp)'
    BY <2>1 DEF Recover, Called, Fresh, Moved, Generations, NewestShows,
       WantedIsComing, HeardIsUp, Active, Current
  <2>6. (StopHolds /\ LiveHasEncoder)'
    BY <2>1 DEF Recover, Called, Fresh, Moved, Generations, Processes,
       StopHolds, LiveHasEncoder, Encoding, Active, Current
  <2>7. QED
    BY <2>2, <2>3, <2>4, <2>5, <2>6
<1>7. CASE \E n, m \in Starts : Rescue(n, m)
  <2> PICK n \in Starts, m \in Starts : Rescue(n, m)
    BY <1>7
  <2>1. Moved(m, "stop")
    BY RescueMoves DEF Rescue
  <2>2. start[m].pc = "free"
    BY DEF Rescue, Fresh
  <2>3. UNCHANGED <<state, gen, cmd, helper, device, up, blame, ffmpeg, capture,
                    timers, file, want, heard, stops>>
    BY DEF Rescue
  <2>4. Generations'
    BY <2>1, <2>2, <2>3 DEF Moved, Generations, Active
  <2>5. Processes'
    BY <2>1, <2>2, <2>3 DEF Moved, Processes, Quiet
  <2>6. PublishedIsNewest'
    BY <2>1, <2>2, <2>3 DEF Moved, Generations, Processes, PublishedIsNewest,
       Active, Current
  <2>7. (NewestShows /\ WantedIsComing /\ HeardIsUp)'
    BY <2>1, <2>2, <2>3 DEF Moved, Generations, NewestShows, WantedIsComing,
       HeardIsUp, Active, Current
  <2>8. (StopHolds /\ LiveHasEncoder)'
    BY <2>1, <2>2, <2>3 DEF Moved, Generations, Processes, StopHolds,
       LiveHasEncoder, Encoding, Active, Current
  <2>9. QED
    BY <2>4, <2>5, <2>6, <2>7, <2>8
<1>8. CASE \E n \in Starts : Replay(n)
  <2> PICK n \in Starts : Replay(n)
    BY <1>8
  <2>1. Moved(n, "stop")
    BY ReplayMoves DEF Replay
  <2>2. Generations'
    BY <2>1 DEF Replay, Moved, Generations, Active
  <2>3. Processes'
    BY <2>1 DEF Replay, Moved, Processes, Quiet
  <2>4. PublishedIsNewest'
    BY <2>1 DEF Replay, Moved, Generations, Processes, PublishedIsNewest,
       Active, Current
  <2>5. (NewestShows /\ WantedIsComing /\ HeardIsUp)'
    BY <2>1 DEF Replay, Moved, Generations, NewestShows, WantedIsComing,
       HeardIsUp, Active, Current
  <2>6. (StopHolds /\ LiveHasEncoder)'
    BY <2>1 DEF Replay, Moved, Generations, Processes, StopHolds,
       LiveHasEncoder, Encoding, Active, Current
  <2>7. QED
    BY <2>2, <2>3, <2>4, <2>5, <2>6
<1>9. CASE \E n \in Starts : StopFirst(n)
  <2> PICK n \in Starts : StopFirst(n)
    BY <1>9
  <2>1. \A m \in Starts :
           /\ start'[m].pc = IF m = n THEN "begin" ELSE start[m].pc
           /\ start'[m].mine = start[m].mine
           /\ start'[m].stopped = IF m = n THEN gen + 1 ELSE start[m].stopped
    BY StopMoves DEF StopFirst
  <2>2. Generations'
    BY <2>1 DEF StopFirst, Stopping, Signal, Moved, Generations, Active
  <2>3. Processes'
    BY <2>1 DEF StopFirst, Stopping, Signal, Moved, Processes, Quiet
  <2>4. PublishedIsNewest'
    BY <2>1 DEF StopFirst, Stopping, Signal, Moved, Generations, Processes,
       PublishedIsNewest, Active, Current
  <2>5. (NewestShows /\ WantedIsComing /\ HeardIsUp)'
    BY <2>1 DEF StopFirst, Stopping, Signal, Moved, Generations, NewestShows,
       WantedIsComing, HeardIsUp, Active, Current
  <2>6. (StopHolds /\ LiveHasEncoder)'
    BY <2>1 DEF StopFirst, Stopping, Signal, Moved, Generations, Processes,
       StopHolds, LiveHasEncoder, Encoding, Active, Current
  <2>7. QED
    BY <2>2, <2>3, <2>4, <2>5, <2>6
<1>10. CASE \E n \in Starts : Begin(n)
  <2> PICK n \in Starts : Begin(n)
    BY <1>10
  <2>1. \A m \in Starts :
           /\ start'[m].pc = IF m = n THEN (IF start[n].device = "mac" THEN "spawn" ELSE "launch") ELSE start[m].pc
           /\ start'[m].mine = IF m = n THEN gen + 1 ELSE start[m].mine
           /\ start'[m].stopped = start[m].stopped
    BY BeginMoves DEF Begin
  <2>2. Generations'
    BY <2>1 DEF Begin, Begun, Moved, Generations, Active
  <2>3. Processes'
    BY <2>1 DEF Begin, Begun, Moved, Processes, Quiet
  <2>4. PublishedIsNewest'
    BY <2>1 DEF Begin, Begun, Moved, Generations, Processes,
       PublishedIsNewest, Active, Current
  <2>5. (NewestShows /\ WantedIsComing /\ HeardIsUp)'
    BY <2>1 DEF Begin, Begun, Moved, Generations, NewestShows, WantedIsComing,
       HeardIsUp, Active, Current
  <2>6. (StopHolds /\ LiveHasEncoder)'
    BY <2>1 DEF Begin, Begun, Moved, Generations, Processes, StopHolds,
       LiveHasEncoder, Encoding, Active, Current
  <2>7. QED
    BY <2>2, <2>3, <2>4, <2>5, <2>6
<1>11. CASE \E n \in Starts : BeginFails(n)
  <2> PICK n \in Starts : BeginFails(n)
    BY <1>11
  <2>1. \A m \in Starts :
           /\ start'[m].pc = IF m = n THEN "end" ELSE start[m].pc
           /\ start'[m].mine = IF m = n THEN gen + 1 ELSE start[m].mine
           /\ start'[m].stopped = start[m].stopped
    BY BeginMoves DEF BeginFails
  <2>2. Generations'
    BY <2>1 DEF BeginFails, Begun, Moved, Generations, Active
  <2>3. Processes'
    BY <2>1 DEF BeginFails, Begun, Moved, Processes, Quiet
  <2>4. PublishedIsNewest'
    BY <2>1 DEF BeginFails, Begun, Moved, Generations, Processes,
       PublishedIsNewest, Active, Current
  <2>5. (NewestShows /\ WantedIsComing /\ HeardIsUp)'
    BY <2>1 DEF BeginFails, Begun, Moved, Generations, NewestShows,
       WantedIsComing, HeardIsUp, Active, Current
  <2>6. (StopHolds /\ LiveHasEncoder)'
    BY <2>1 DEF BeginFails, Begun, Moved, Generations, Processes, StopHolds,
       LiveHasEncoder, Encoding, Active, Current
  <2>7. QED
    BY <2>2, <2>3, <2>4, <2>5, <2>6
<1>12. CASE \E n \in Starts : SpawnHelper(n)
  <2> PICK n \in Starts : SpawnHelper(n)
    BY <1>12
  <2>1. Moved(n, "adopt")
    BY GotoMoves DEF SpawnHelper
  <2>2. Generations'
    BY <2>1 DEF SpawnHelper, Goto, Moved, Generations, Active
  <2>3. Processes'
    BY <2>1 DEF SpawnHelper, Goto, Moved, Processes, Quiet
  <2>4. PublishedIsNewest'
    BY <2>1 DEF SpawnHelper, Goto, Moved, Generations, Processes,
       PublishedIsNewest, Active, Current
  <2>5. (NewestShows /\ WantedIsComing /\ HeardIsUp)'
    BY <2>1 DEF SpawnHelper, Goto, Moved, Generations, NewestShows,
       WantedIsComing, HeardIsUp, Active, Current
  <2>6. (StopHolds /\ LiveHasEncoder)'
    BY <2>1 DEF SpawnHelper, Goto, Moved, Generations, Processes, StopHolds,
       LiveHasEncoder, Encoding, Active, Current
  <2>7. QED
    BY <2>2, <2>3, <2>4, <2>5, <2>6
<1>13. CASE \E n \in Starts : HelperFails(n)
  <2> PICK n \in Starts : HelperFails(n)
    BY <1>13
  <2>1. Moved(n, "end")
    BY GotoMoves DEF HelperFails
  <2>2. Generations'
    BY <2>1 DEF HelperFails, Fail, Goto, Moved, Generations, Active
  <2>3. Processes'
    BY <2>1 DEF HelperFails, Fail, Goto, Moved, Processes, Quiet
  <2>4. PublishedIsNewest'
    BY <2>1 DEF HelperFails, Fail, Goto, Moved, Generations, Processes,
       PublishedIsNewest, Active, Current
  <2>5. (NewestShows /\ WantedIsComing /\ HeardIsUp)'
    BY <2>1 DEF HelperFails, Fail, Goto, Moved, Generations, NewestShows,
       WantedIsComing, HeardIsUp, Active, Current
  <2>6. (StopHolds /\ LiveHasEncoder)'
    BY <2>1 DEF HelperFails, Fail, Goto, Moved, Generations, Processes,
       StopHolds, LiveHasEncoder, Encoding, Active, Current
  <2>7. QED
    BY <2>2, <2>3, <2>4, <2>5, <2>6
<1>14. CASE \E n \in Starts : Adopt(n)
  <2> PICK n \in Starts : Adopt(n)
    BY <1>14
  <2>1. CASE Current(n)
    <3>1. Moved(n, "format")
      BY <2>1, GotoMoves DEF Adopt
    <3>2. /\ start[n].pc = "adopt" /\ helper' = n
          /\ UNCHANGED <<state, gen, cmd, device, up, blame, ffmpeg, capture,
                         timers, file, want, heard, stops>>
      BY <2>1 DEF Adopt
    <3>3. Generations'
      BY <2>1, <3>1, <3>2 DEF Moved, Generations, Active
    <3>4. Processes'
      BY <2>1, <3>1, <3>2 DEF Moved, Processes, Quiet
    <3>5. PublishedIsNewest'
      BY <2>1, <3>1, <3>2 DEF Moved, Generations, Processes,
         PublishedIsNewest, Active, Current
    <3>6. (NewestShows /\ WantedIsComing /\ HeardIsUp)'
      BY <2>1, <3>1, <3>2 DEF Moved, Generations, NewestShows, WantedIsComing,
         HeardIsUp, Active, Current
    <3>7. (StopHolds /\ LiveHasEncoder)'
      BY <2>1, <3>1, <3>2 DEF Moved, Generations, Processes, StopHolds,
         LiveHasEncoder, Encoding, Active, Current
    <3>8. QED
      BY <3>3, <3>4, <3>5, <3>6, <3>7
  <2>2. CASE ~Current(n)
    <3>1. Moved(n, "end")
      BY <2>2, GotoMoves DEF Adopt
    <3>2. /\ start[n].pc = "adopt" /\ capture' = [capture EXCEPT ![n] = "dead"]
          /\ UNCHANGED <<state, gen, cmd, helper, device, up, blame, ffmpeg,
                         timers, file, want, heard, stops>>
      BY <2>2 DEF Adopt
    <3>3. Generations'
      BY <2>2, <3>1, <3>2 DEF Moved, Generations, Active
    <3>4. Processes'
      BY <2>2, <3>1, <3>2 DEF Moved, Processes, Quiet
    <3>5. PublishedIsNewest'
      BY <2>2, <3>1, <3>2 DEF Moved, Generations, Processes,
         PublishedIsNewest, Active, Current
    <3>6. (NewestShows /\ WantedIsComing /\ HeardIsUp)'
      BY <2>2, <3>1, <3>2 DEF Moved, Generations, NewestShows, WantedIsComing,
         HeardIsUp, Active, Current
    <3>7. (StopHolds /\ LiveHasEncoder)'
      BY <2>2, <3>1, <3>2 DEF Moved, Generations, Processes, StopHolds,
         LiveHasEncoder, Encoding, Active, Current
    <3>8. QED
      BY <3>3, <3>4, <3>5, <3>6, <3>7
  <2>3. QED
    BY <2>1, <2>2
<1>15. CASE \E n \in Starts : FormatHeard(n)
  <2> PICK n \in Starts : FormatHeard(n)
    BY <1>15
  <2>1. Moved(n, "launch")
    BY GotoMoves DEF FormatHeard
  <2>2. /\ start[n].pc = "format"
        /\ up' = (up \/ Current(n)) /\ heard' = heard \cup {n}
        /\ UNCHANGED <<state, gen, cmd, helper, device, blame, ffmpeg, capture,
                       timers, file, want, stops>>
    BY DEF FormatHeard, Heard
  <2>3. Generations'
    BY <2>1, <2>2 DEF Moved, Generations, Active
  <2>4. Processes'
    BY <2>1, <2>2 DEF Moved, Processes, Quiet
  <2>5. PublishedIsNewest'
    BY <2>1, <2>2 DEF Moved, Generations, Processes, PublishedIsNewest,
       Active, Current
  <2>6. (NewestShows /\ WantedIsComing)'
    BY <2>1, <2>2 DEF Moved, Generations, NewestShows, WantedIsComing, Active,
       Current
  <2>7. HeardIsUp'
    <3>1. CASE Current(n)
      BY <2>1, <2>2, <3>1 DEF Moved, HeardIsUp, Active, Current
    <3>2. CASE ~Current(n)
      BY <2>1, <2>2, <3>2 DEF Moved, HeardIsUp, Active, Current
    <3>3. QED
      BY <3>1, <3>2
  <2>8. (StopHolds /\ LiveHasEncoder)'
    BY <2>1, <2>2 DEF Moved, Generations, Processes, StopHolds,
       LiveHasEncoder, Encoding, Active, Current
  <2>9. QED
    BY <2>3, <2>4, <2>5, <2>6, <2>7, <2>8
<1>16. CASE \E n \in Starts : FormatAssumed(n)
  <2> PICK n \in Starts : FormatAssumed(n)
    BY <1>16
  <2>1. Moved(n, "launch")
    BY AssumedMoves DEF FormatAssumed
  <2>2. /\ start[n].pc = "format"
        /\ UNCHANGED <<state, gen, cmd, helper, device, up, blame, ffmpeg,
                       capture, timers, file, want, heard, stops>>
    BY DEF FormatAssumed
  <2>3. Generations'
    BY <2>1, <2>2 DEF Moved, Generations, Active
  <2>4. Processes'
    BY <2>1, <2>2 DEF Moved, Processes, Quiet
  <2>5. PublishedIsNewest'
    BY <2>1, <2>2 DEF Moved, Generations, Processes, PublishedIsNewest,
       Active, Current
  <2>6. (NewestShows /\ WantedIsComing /\ HeardIsUp)'
    BY <2>1, <2>2 DEF Moved, Generations, NewestShows, WantedIsComing,
       HeardIsUp, Active, Current
  <2>7. (StopHolds /\ LiveHasEncoder)'
    BY <2>1, <2>2 DEF Moved, Generations, Processes, StopHolds,
       LiveHasEncoder, Encoding, Active, Current
  <2>8. QED
    BY <2>3, <2>4, <2>5, <2>6, <2>7
<1>17. CASE \E n \in Starts : Launch(n)
  <2> PICK n \in Starts : Launch(n)
    BY <1>17
  <2>1. Moved(n, "publish")
    BY GotoMoves DEF Launch
  <2>2. Generations'
    BY <2>1 DEF Launch, Goto, Moved, Generations, Active
  <2>3. Processes'
    BY <2>1 DEF Launch, Goto, Moved, Processes, Quiet
  <2>4. PublishedIsNewest'
    BY <2>1 DEF Launch, Goto, Moved, Generations, Processes,
       PublishedIsNewest, Active, Current
  <2>5. (NewestShows /\ WantedIsComing /\ HeardIsUp)'
    BY <2>1 DEF Launch, Goto, Moved, Generations, NewestShows, WantedIsComing,
       HeardIsUp, Active, Current
  <2>6. (StopHolds /\ LiveHasEncoder)'
    BY <2>1 DEF Launch, Goto, Moved, Generations, Processes, StopHolds,
       LiveHasEncoder, Encoding, Active, Current
  <2>7. QED
    BY <2>2, <2>3, <2>4, <2>5, <2>6
<1>18. CASE \E n \in Starts : LaunchFails(n)
  <2> PICK n \in Starts : LaunchFails(n)
    BY <1>18
  <2>1. Moved(n, "end")
    BY GotoMoves DEF LaunchFails
  <2>2. Generations'
    BY <2>1 DEF LaunchFails, KillHelper, Fail, Goto, Moved, Generations,
       Active
  <2>3. Processes'
    BY <2>1 DEF LaunchFails, KillHelper, Fail, Goto, Moved, Processes, Quiet
  <2>4. PublishedIsNewest'
    BY <2>1 DEF LaunchFails, KillHelper, Fail, Goto, Moved, Generations,
       Processes, PublishedIsNewest, Active, Current
  <2>5. (NewestShows /\ WantedIsComing /\ HeardIsUp)'
    BY <2>1 DEF LaunchFails, KillHelper, Fail, Goto, Moved, Generations,
       NewestShows, WantedIsComing, HeardIsUp, Active, Current
  <2>6. (StopHolds /\ LiveHasEncoder)'
    BY <2>1 DEF LaunchFails, KillHelper, Fail, Goto, Moved, Generations,
       Processes, StopHolds, LiveHasEncoder, Encoding, Active, Current
  <2>7. QED
    BY <2>2, <2>3, <2>4, <2>5, <2>6
<1>19. CASE \E n \in Starts : Publish(n)
  <2> PICK n \in Starts : Publish(n)
    BY <1>19
  <2>1. Moved(n, "end")
    BY PublishMoves DEF Publish
  <2>2. /\ start[n].pc = "publish" /\ Current(n) /\ cmd' = n
        /\ UNCHANGED <<state, gen, helper, device, up, blame, ffmpeg, capture,
                       timers, file, want, heard, stops>>
    BY DEF Publish
  <2>3. Generations'
    BY <2>1, <2>2 DEF Moved, Generations, Active
  <2>4. Processes'
    BY <2>1, <2>2 DEF Moved, Processes, Quiet
  <2>5. PublishedIsNewest'
    BY <2>1, <2>2 DEF Moved, Generations, Processes, PublishedIsNewest,
       Active, Current
  <2>6. (NewestShows /\ WantedIsComing /\ HeardIsUp)'
    BY <2>1, <2>2 DEF Moved, Generations, NewestShows, WantedIsComing,
       HeardIsUp, Active, Current
  <2>7. (StopHolds /\ LiveHasEncoder)'
    BY <2>1, <2>2 DEF Moved, Generations, Processes, StopHolds,
       LiveHasEncoder, Encoding, Active, Current
  <2>8. QED
    BY <2>3, <2>4, <2>5, <2>6, <2>7
<1>20. CASE \E n \in Starts : Withdraw(n)
  <2> PICK n \in Starts : Withdraw(n)
    BY <1>20
  <2>1. Moved(n, "end")
    BY GotoMoves DEF Withdraw
  <2>2. Generations'
    BY <2>1 DEF Withdraw, KillHelper, Goto, Moved, Generations, Active
  <2>3. Processes'
    BY <2>1 DEF Withdraw, KillHelper, Goto, Moved, Processes, Quiet
  <2>4. PublishedIsNewest'
    BY <2>1 DEF Withdraw, KillHelper, Goto, Moved, Generations, Processes,
       PublishedIsNewest, Active, Current
  <2>5. (NewestShows /\ WantedIsComing /\ HeardIsUp)'
    BY <2>1 DEF Withdraw, KillHelper, Goto, Moved, Generations, NewestShows,
       WantedIsComing, HeardIsUp, Active, Current
  <2>6. (StopHolds /\ LiveHasEncoder)'
    BY <2>1 DEF Withdraw, KillHelper, Goto, Moved, Generations, Processes,
       StopHolds, LiveHasEncoder, Encoding, Active, Current
  <2>7. QED
    BY <2>2, <2>3, <2>4, <2>5, <2>6
<1>21. CASE \E n \in Starts : LateFormat(n)
  <2> PICK n \in Starts : LateFormat(n)
    BY <1>21
  <2>1. Moved(n, start[n].pc)
    BY LateMoves DEF LateFormat
  <2>2. /\ start[n].pc = "end"
        /\ up' = (up \/ Current(n)) /\ heard' = heard \cup {n}
        /\ UNCHANGED <<state, gen, cmd, helper, device, blame, ffmpeg, capture,
                       timers, file, want, stops>>
    BY DEF LateFormat, Heard
  <2>3. Generations'
    BY <2>1, <2>2 DEF Moved, Generations, Active
  <2>4. Processes'
    BY <2>1, <2>2 DEF Moved, Processes, Quiet
  <2>5. PublishedIsNewest'
    BY <2>1, <2>2 DEF Moved, Generations, Processes, PublishedIsNewest,
       Active, Current
  <2>6. (NewestShows /\ WantedIsComing)'
    BY <2>1, <2>2 DEF Moved, Generations, NewestShows, WantedIsComing, Active,
       Current
  <2>7. HeardIsUp'
    <3>1. CASE Current(n)
      BY <2>1, <2>2, <3>1 DEF Moved, HeardIsUp, Active, Current
    <3>2. CASE ~Current(n)
      BY <2>1, <2>2, <3>2 DEF Moved, HeardIsUp, Active, Current
    <3>3. QED
      BY <3>1, <3>2
  <2>8. (StopHolds /\ LiveHasEncoder)'
    BY <2>1, <2>2 DEF Moved, Generations, Processes, StopHolds,
       LiveHasEncoder, Encoding, Active, Current
  <2>9. QED
    BY <2>3, <2>4, <2>5, <2>6, <2>7, <2>8
<1>22. CASE \E n \in Starts : FFmpegExits(n)
  <2> PICK n \in Starts : FFmpegExits(n)
    BY <1>22
  <2>1. Generations'
    BY DEF FFmpegExits, Generations, Active
  <2>2. Processes'
    BY DEF FFmpegExits, Processes, Quiet
  <2>3. PublishedIsNewest'
    BY DEF FFmpegExits, Generations, Processes, PublishedIsNewest, Active,
       Current
  <2>4. (NewestShows /\ WantedIsComing /\ HeardIsUp)'
    BY DEF FFmpegExits, Generations, NewestShows, WantedIsComing, HeardIsUp,
       Active, Current
  <2>5. (StopHolds /\ LiveHasEncoder)'
    BY DEF FFmpegExits, Generations, Processes, StopHolds, LiveHasEncoder,
       Encoding, Active, Current
  <2>6. QED
    BY <2>1, <2>2, <2>3, <2>4, <2>5
<1>23. CASE \E n \in Starts : HelperExits(n)
  <2> PICK n \in Starts : HelperExits(n)
    BY <1>23
  <2>1. Generations'
    BY DEF HelperExits, Generations, Active
  <2>2. Processes'
    BY DEF HelperExits, Processes, Quiet
  <2>3. PublishedIsNewest'
    BY DEF HelperExits, Generations, Processes, PublishedIsNewest, Active,
       Current
  <2>4. (NewestShows /\ WantedIsComing /\ HeardIsUp)'
    BY DEF HelperExits, Generations, NewestShows, WantedIsComing, HeardIsUp,
       Active, Current
  <2>5. (StopHolds /\ LiveHasEncoder)'
    BY DEF HelperExits, Generations, Processes, StopHolds, LiveHasEncoder,
       Encoding, Active, Current
  <2>6. QED
    BY <2>1, <2>2, <2>3, <2>4, <2>5
<1>24. CASE \E n \in Starts : Reap(n)
  <2> PICK n \in Starts : Reap(n)
    BY <1>24
  <2>1. Generations'
    BY DEF Reap, KillHelper, Owns, Ended, Died, Generations, Active
  <2>2. Processes'
    BY DEF Reap, KillHelper, Owns, Ended, Died, Processes, Quiet
  <2>3. PublishedIsNewest'
    BY DEF Reap, KillHelper, Owns, Ended, Died, Generations, Processes,
       PublishedIsNewest, Active, Current
  <2>4. (NewestShows /\ WantedIsComing /\ HeardIsUp)'
    BY DEF Reap, KillHelper, Owns, Ended, Died, Generations, NewestShows,
       WantedIsComing, HeardIsUp, Active, Current
  <2>5. (StopHolds /\ LiveHasEncoder)'
    BY DEF Reap, KillHelper, Owns, Ended, Died, Generations, Processes,
       StopHolds, LiveHasEncoder, Encoding, Active, Current
  <2>6. QED
    BY <2>1, <2>2, <2>3, <2>4, <2>5
<1>25. CASE UNCHANGED vars
  BY <1>25 DEF vars, Generations, Processes, PublishedIsNewest, NewestShows,
     WantedIsComing, HeardIsUp, StopHolds, LiveHasEncoder, Active, Current, Encoding, Quiet
<1>26. QED
  BY <1>1, <1>2, <1>3, <1>4, <1>5, <1>6, <1>7, <1>8, <1>9, <1>10, <1>11,
     <1>12, <1>13, <1>14, <1>15, <1>16, <1>17, <1>18, <1>19, <1>20, <1>21,
     <1>22, <1>23, <1>24, <1>25 DEF Next, StartSteps

-----------------------------------------------------------------------------
(* Orphans.                                                                *)

\* An overlap stays one: what it compares was fixed when the starts took their
\* generations.
LEMMA OverlapStays ==
  ASSUME TypeOK, Generations, [Next]_vars
  PROVE  \A n \in Starts : Active(n) /\ Overlapped(n) => Overlapped(n)'
<1>1. CASE Stop
  BY <1>1 DEF Stop, Stopping, Overlapped, Active
<1>2. CASE Status
  BY <1>2 DEF Status, Overlapped, Active
<1>3. CASE \E t \in timers : Grace(t)
  BY <1>3 DEF Grace, Overlapped, Active
<1>4. CASE \E n \in Starts, d \in Devices : GoLive(n, d)
  <2> PICK n \in Starts, d \in Devices : GoLive(n, d)
    BY <1>4
  <2>1. Moved(n, "stop")
    BY CalledMoves DEF GoLive
  <2>2. start[n].pc = "free"
    BY DEF GoLive, Called, Fresh
  <2>3. QED
    BY <2>1, <2>2 DEF Moved, Overlapped, Active
<1>5. CASE \E n \in Starts : TryAutoRestart(n)
  <2> PICK n \in Starts : TryAutoRestart(n)
    BY <1>5
  <2>1. Moved(n, "stop")
    BY CalledMoves DEF TryAutoRestart
  <2>2. start[n].pc = "free"
    BY DEF TryAutoRestart, Called, Fresh
  <2>3. QED
    BY <2>1, <2>2 DEF Moved, Overlapped, Active
<1>6. CASE \E n \in Starts : Recover(n)
  <2> PICK n \in Starts : Recover(n)
    BY <1>6
  <2>1. Moved(n, "decided")
    BY CalledMoves DEF Recover
  <2>2. start[n].pc = "free"
    BY DEF Recover, Called, Fresh
  <2>3. QED
    BY <2>1, <2>2 DEF Moved, Overlapped, Active
<1>7. CASE \E n, m \in Starts : Rescue(n, m)
  <2> PICK n \in Starts, m \in Starts : Rescue(n, m)
    BY <1>7
  <2>1. Moved(m, "stop")
    BY RescueMoves DEF Rescue
  <2>2. start[m].pc = "free"
    BY DEF Rescue, Fresh
  <2>3. QED
    BY <2>1, <2>2 DEF Moved, Overlapped, Active
<1>8. CASE \E n \in Starts : Replay(n)
  <2> PICK n \in Starts : Replay(n)
    BY <1>8
  <2>1. Moved(n, "stop")
    BY ReplayMoves DEF Replay
  <2>2. start[n].pc = "decided"
    BY DEF Replay
  <2>3. QED
    BY <2>1, <2>2 DEF Moved, Overlapped, Active
<1>9. CASE \E n \in Starts : StopFirst(n)
  <2> PICK n \in Starts : StopFirst(n)
    BY <1>9
  <2>1. \A m \in Starts :
           /\ start'[m].pc = IF m = n THEN "begin" ELSE start[m].pc
           /\ start'[m].mine = start[m].mine
           /\ start'[m].stopped = IF m = n THEN gen + 1 ELSE start[m].stopped
    BY StopMoves DEF StopFirst
  <2>2. start[n].pc = "stop"
    BY DEF StopFirst
  <2>3. QED
    BY <2>1, <2>2 DEF Moved, Overlapped, Active
<1>10. CASE \E n \in Starts : Begin(n)
  <2> PICK n \in Starts : Begin(n)
    BY <1>10
  <2>1. \A m \in Starts :
           /\ start'[m].pc = IF m = n THEN (IF start[n].device = "mac" THEN "spawn" ELSE "launch") ELSE start[m].pc
           /\ start'[m].mine = IF m = n THEN gen + 1 ELSE start[m].mine
           /\ start'[m].stopped = start[m].stopped
    BY BeginMoves DEF Begin
  <2>2. start[n].pc = "begin"
    BY DEF Begin, Begun
  <2>3. QED
    BY <2>1, <2>2 DEF Moved, Overlapped, Active
<1>11. CASE \E n \in Starts : BeginFails(n)
  <2> PICK n \in Starts : BeginFails(n)
    BY <1>11
  <2>1. \A m \in Starts :
           /\ start'[m].pc = IF m = n THEN "end" ELSE start[m].pc
           /\ start'[m].mine = IF m = n THEN gen + 1 ELSE start[m].mine
           /\ start'[m].stopped = start[m].stopped
    BY BeginMoves DEF BeginFails
  <2>2. start[n].pc = "begin"
    BY DEF BeginFails, Begun
  <2>3. QED
    BY <2>1, <2>2 DEF Moved, Overlapped, Active
<1>12. CASE \E n \in Starts : SpawnHelper(n)
  <2> PICK n \in Starts : SpawnHelper(n)
    BY <1>12
  <2>1. Moved(n, "adopt")
    BY GotoMoves DEF SpawnHelper
  <2>2. start[n].pc = "spawn"
    BY DEF SpawnHelper
  <2>3. QED
    BY <2>1, <2>2 DEF Moved, Overlapped, Active
<1>13. CASE \E n \in Starts : HelperFails(n)
  <2> PICK n \in Starts : HelperFails(n)
    BY <1>13
  <2>1. Moved(n, "end")
    BY GotoMoves DEF HelperFails
  <2>2. start[n].pc = "spawn"
    BY DEF HelperFails
  <2>3. QED
    BY <2>1, <2>2 DEF Moved, Overlapped, Active
<1>14. CASE \E n \in Starts : Adopt(n)
  <2> PICK n \in Starts : Adopt(n)
    BY <1>14
  <2>1. Moved(n, "format") \/ Moved(n, "end")
    BY GotoMoves DEF Adopt
  <2>2. start[n].pc = "adopt"
    BY DEF Adopt
  <2>3. QED
    BY <2>1, <2>2 DEF Moved, Overlapped, Active
<1>15. CASE \E n \in Starts : FormatHeard(n)
  <2> PICK n \in Starts : FormatHeard(n)
    BY <1>15
  <2>1. Moved(n, "launch")
    BY GotoMoves DEF FormatHeard
  <2>2. start[n].pc = "format"
    BY DEF FormatHeard
  <2>3. QED
    BY <2>1, <2>2 DEF Moved, Overlapped, Active
<1>16. CASE \E n \in Starts : FormatAssumed(n)
  <2> PICK n \in Starts : FormatAssumed(n)
    BY <1>16
  <2>1. Moved(n, "launch")
    BY AssumedMoves DEF FormatAssumed
  <2>2. start[n].pc = "format"
    BY DEF FormatAssumed
  <2>3. QED
    BY <2>1, <2>2 DEF Moved, Overlapped, Active
<1>17. CASE \E n \in Starts : Launch(n)
  <2> PICK n \in Starts : Launch(n)
    BY <1>17
  <2>1. Moved(n, "publish")
    BY GotoMoves DEF Launch
  <2>2. start[n].pc = "launch"
    BY DEF Launch
  <2>3. QED
    BY <2>1, <2>2 DEF Moved, Overlapped, Active
<1>18. CASE \E n \in Starts : LaunchFails(n)
  <2> PICK n \in Starts : LaunchFails(n)
    BY <1>18
  <2>1. Moved(n, "end")
    BY GotoMoves DEF LaunchFails
  <2>2. start[n].pc = "launch"
    BY DEF LaunchFails
  <2>3. QED
    BY <2>1, <2>2 DEF Moved, Overlapped, Active
<1>19. CASE \E n \in Starts : Publish(n)
  <2> PICK n \in Starts : Publish(n)
    BY <1>19
  <2>1. Moved(n, "end")
    BY PublishMoves DEF Publish
  <2>2. start[n].pc = "publish"
    BY DEF Publish
  <2>3. QED
    BY <2>1, <2>2 DEF Moved, Overlapped, Active
<1>20. CASE \E n \in Starts : Withdraw(n)
  <2> PICK n \in Starts : Withdraw(n)
    BY <1>20
  <2>1. Moved(n, "end")
    BY GotoMoves DEF Withdraw
  <2>2. start[n].pc = "publish"
    BY DEF Withdraw
  <2>3. QED
    BY <2>1, <2>2 DEF Moved, Overlapped, Active
<1>21. CASE \E n \in Starts : LateFormat(n)
  <2> PICK n \in Starts : LateFormat(n)
    BY <1>21
  <2>1. Moved(n, start[n].pc)
    BY LateMoves DEF LateFormat
  <2>2. start[n].pc = "end"
    BY DEF LateFormat
  <2>3. QED
    BY <2>1, <2>2 DEF Moved, Overlapped, Active
<1>22. CASE \E n \in Starts : FFmpegExits(n)
  BY <1>22 DEF FFmpegExits, Overlapped, Active
<1>23. CASE \E n \in Starts : HelperExits(n)
  BY <1>23 DEF HelperExits, Overlapped, Active
<1>24. CASE \E n \in Starts : Reap(n)
  BY <1>24 DEF Reap, Overlapped, Active
<1>25. CASE UNCHANGED vars
  BY <1>25 DEF vars, Overlapped, Active
<1>26. QED
  BY <1>1, <1>2, <1>3, <1>4, <1>5, <1>6, <1>7, <1>8, <1>9, <1>10, <1>11,
     <1>12, <1>13, <1>14, <1>15, <1>16, <1>17, <1>18, <1>19, <1>20, <1>21,
     <1>22, <1>23, <1>24, <1>25 DEF Next, StartSteps

\* Every step keeps NoOrphan, given the invariant.
LEMMA OrphanStep == TypeOK /\ Inv /\ NoOrphan /\ [Next]_vars => NoOrphan'
<1> SUFFICES ASSUME TypeOK, Inv, NoOrphan, [Next]_vars PROVE NoOrphan'
  OBVIOUS
<1> USE NoneIsNobody DEF TypeOK, Inv
<1>0. \A n \in Starts : Active(n) /\ Overlapped(n) => Overlapped(n)'
  BY OverlapStays
<1>1. CASE Stop
  <2>1. QED
    BY <1>1, <1>0 DEF Stop, Stopping, Signal, NoOrphan, Active, Encoding,
       Capturing, Processes, Quiet
<1>2. CASE Status
  <2>1. QED
    BY <1>2, <1>0 DEF Status, NoOrphan, Active, Encoding, Capturing,
       Processes, Quiet
<1>3. CASE \E t \in timers : Grace(t)
  <2> PICK t \in timers : Grace(t)
    BY <1>3
  <2>1. QED
    BY <1>0 DEF Grace, NoOrphan, Active, Encoding, Capturing, Processes, Quiet
<1>4. CASE \E n \in Starts, d \in Devices : GoLive(n, d)
  <2> PICK n \in Starts, d \in Devices : GoLive(n, d)
    BY <1>4
  <2>1. Moved(n, "stop")
    BY CalledMoves DEF GoLive
  <2>2. start[n].pc = "free" /\ UNCHANGED <<cmd, capture, ffmpeg>>
    BY DEF GoLive, Called, Fresh
  <2>3. QED
    BY <1>0, <2>1, <2>2 DEF Moved, NoOrphan, Active, Encoding, Capturing,
       Processes, Quiet
<1>5. CASE \E n \in Starts : TryAutoRestart(n)
  <2> PICK n \in Starts : TryAutoRestart(n)
    BY <1>5
  <2>1. Moved(n, "stop")
    BY CalledMoves DEF TryAutoRestart
  <2>2. QED
    BY <1>0, <2>1 DEF TryAutoRestart, Called, Fresh, Moved, NoOrphan, Active,
       Encoding, Capturing, Processes, Quiet
<1>6. CASE \E n \in Starts : Recover(n)
  <2> PICK n \in Starts : Recover(n)
    BY <1>6
  <2>1. Moved(n, "decided")
    BY CalledMoves DEF Recover
  <2>2. QED
    BY <1>0, <2>1 DEF Recover, Called, Fresh, Moved, NoOrphan, Active,
       Encoding, Capturing, Processes, Quiet
<1>7. CASE \E n, m \in Starts : Rescue(n, m)
  <2> PICK n \in Starts, m \in Starts : Rescue(n, m)
    BY <1>7
  <2>1. Moved(m, "stop")
    BY RescueMoves DEF Rescue
  <2>2. start[m].pc = "free" /\ UNCHANGED <<cmd, capture, ffmpeg>>
    BY DEF Rescue, Fresh
  <2>3. QED
    BY <1>0, <2>1, <2>2 DEF Moved, NoOrphan, Active, Encoding, Capturing,
       Processes, Quiet
<1>8. CASE \E n \in Starts : Replay(n)
  <2> PICK n \in Starts : Replay(n)
    BY <1>8
  <2>1. Moved(n, "stop")
    BY ReplayMoves DEF Replay
  <2>2. QED
    BY <1>0, <2>1 DEF Replay, Moved, NoOrphan, Active, Encoding, Capturing,
       Processes, Quiet
<1>9. CASE \E n \in Starts : StopFirst(n)
  <2> PICK n \in Starts : StopFirst(n)
    BY <1>9
  <2>1. \A m \in Starts :
           /\ start'[m].pc = IF m = n THEN "begin" ELSE start[m].pc
           /\ start'[m].mine = start[m].mine
           /\ start'[m].stopped = IF m = n THEN gen + 1 ELSE start[m].stopped
    BY StopMoves DEF StopFirst
  <2>2. QED
    BY <1>0, <2>1 DEF StopFirst, Stopping, Signal, Moved, NoOrphan, Active,
       Encoding, Capturing, Processes, Quiet
<1>10. CASE \E n \in Starts : Begin(n)
  <2> PICK n \in Starts : Begin(n)
    BY <1>10
  <2>1. \A m \in Starts :
           /\ start'[m].pc = IF m = n THEN (IF start[n].device = "mac" THEN "spawn" ELSE "launch") ELSE start[m].pc
           /\ start'[m].mine = IF m = n THEN gen + 1 ELSE start[m].mine
           /\ start'[m].stopped = start[m].stopped
    BY BeginMoves DEF Begin
  <2>2. QED
    BY <1>0, <2>1 DEF Begin, Begun, Moved, NoOrphan, Active, Encoding,
       Capturing, Processes, Quiet
<1>11. CASE \E n \in Starts : BeginFails(n)
  <2> PICK n \in Starts : BeginFails(n)
    BY <1>11
  <2>1. \A m \in Starts :
           /\ start'[m].pc = IF m = n THEN "end" ELSE start[m].pc
           /\ start'[m].mine = IF m = n THEN gen + 1 ELSE start[m].mine
           /\ start'[m].stopped = start[m].stopped
    BY BeginMoves DEF BeginFails
  <2>2. QED
    BY <1>0, <2>1 DEF BeginFails, Begun, Moved, NoOrphan, Active, Encoding,
       Capturing, Processes, Quiet
<1>12. CASE \E n \in Starts : SpawnHelper(n)
  <2> PICK n \in Starts : SpawnHelper(n)
    BY <1>12
  <2>1. Moved(n, "adopt")
    BY GotoMoves DEF SpawnHelper
  <2>2. QED
    BY <1>0, <2>1 DEF SpawnHelper, Goto, Moved, NoOrphan, Active, Encoding,
       Capturing, Processes, Quiet
<1>13. CASE \E n \in Starts : HelperFails(n)
  <2> PICK n \in Starts : HelperFails(n)
    BY <1>13
  <2>1. Moved(n, "end")
    BY GotoMoves DEF HelperFails
  <2>2. \A m \in Starts : cmd = m /\ Encoding(m) /\ m # n /\ Current(n) => Overlapped(m)
    BY DEF HelperFails, Generations, Processes, PublishedIsNewest, Encoding,
       Overlapped, Active, Current
  <2>3. QED
    BY <1>0, <2>1, <2>2 DEF HelperFails, Fail, Goto, Moved, NoOrphan, Active,
       Encoding, Capturing, Processes, Quiet
<1>14. CASE \E n \in Starts : Adopt(n)
  <2> PICK n \in Starts : Adopt(n)
    BY <1>14
  <2>1. CASE Current(n)
    <3>1. Moved(n, "format")
      BY <2>1, GotoMoves DEF Adopt
    <3>2. UNCHANGED <<cmd, capture, ffmpeg>>
      BY <2>1 DEF Adopt
    <3>3. QED
      BY <1>0, <3>1, <3>2 DEF Moved, NoOrphan, Active, Encoding, Capturing
  <2>2. CASE ~Current(n)
    <3>1. Moved(n, "end")
      BY <2>2, GotoMoves DEF Adopt
    <3>2. /\ start[n].pc = "adopt" /\ capture' = [capture EXCEPT ![n] = "dead"]
          /\ UNCHANGED <<cmd, ffmpeg>>
      BY <2>2 DEF Adopt
    <3>3. QED
      BY <1>0, <3>1, <3>2 DEF Moved, NoOrphan, Active, Encoding, Capturing,
         Processes
  <2>3. QED
    BY <2>1, <2>2
<1>15. CASE \E n \in Starts : FormatHeard(n)
  <2> PICK n \in Starts : FormatHeard(n)
    BY <1>15
  <2>1. Moved(n, "launch")
    BY GotoMoves DEF FormatHeard
  <2>2. QED
    BY <1>0, <2>1 DEF FormatHeard, Heard, Goto, Moved, NoOrphan, Active,
       Encoding, Capturing, Processes, Quiet
<1>16. CASE \E n \in Starts : FormatAssumed(n)
  <2> PICK n \in Starts : FormatAssumed(n)
    BY <1>16
  <2>1. Moved(n, "launch")
    BY AssumedMoves DEF FormatAssumed
  <2>2. UNCHANGED <<cmd, capture, ffmpeg>>
    BY DEF FormatAssumed
  <2>3. QED
    BY <1>0, <2>1, <2>2 DEF Moved, NoOrphan, Active, Encoding, Capturing,
       Processes, Quiet
<1>17. CASE \E n \in Starts : Launch(n)
  <2> PICK n \in Starts : Launch(n)
    BY <1>17
  <2>1. Moved(n, "publish")
    BY GotoMoves DEF Launch
  <2>2. QED
    BY <1>0, <2>1 DEF Launch, Goto, Moved, NoOrphan, Active, Encoding,
       Capturing, Processes, Quiet
<1>18. CASE \E n \in Starts : LaunchFails(n)
  <2> PICK n \in Starts : LaunchFails(n)
    BY <1>18
  <2>1. Moved(n, "end")
    BY GotoMoves DEF LaunchFails
  <2>2. \A m \in Starts : cmd = m /\ Encoding(m) /\ m # n /\ Current(n) => Overlapped(m)
    BY DEF LaunchFails, Generations, Processes, PublishedIsNewest, Encoding,
       Overlapped, Active, Current
  <2>3. QED
    BY <1>0, <2>1, <2>2 DEF LaunchFails, KillHelper, Fail, Goto, Moved,
       NoOrphan, Active, Encoding, Capturing, Processes, Quiet
<1>19. CASE \E n \in Starts : Publish(n)
  <2> PICK n \in Starts : Publish(n)
    BY <1>19
  <2>1. Moved(n, "end")
    BY PublishMoves DEF Publish
  <2>2. start[n].pc = "publish" /\ Current(n) /\ cmd' = n /\ UNCHANGED <<capture, ffmpeg>>
    BY DEF Publish
  <2>3. \A m \in Starts : cmd = m /\ Encoding(m) /\ m # n /\ Current(n) => Overlapped(m)
    BY DEF Publish, Generations, Processes, PublishedIsNewest, Encoding,
       Overlapped, Active, Current
  <2>4. QED
    BY <1>0, <2>1, <2>2, <2>3 DEF Moved, NoOrphan, Active, Encoding,
       Capturing, Processes, Quiet
<1>20. CASE \E n \in Starts : Withdraw(n)
  <2> PICK n \in Starts : Withdraw(n)
    BY <1>20
  <2>1. Moved(n, "end")
    BY GotoMoves DEF Withdraw
  <2>2. QED
    BY <1>0, <2>1 DEF Withdraw, KillHelper, Goto, Moved, NoOrphan, Active,
       Encoding, Capturing, Processes, Quiet
<1>21. CASE \E n \in Starts : LateFormat(n)
  <2> PICK n \in Starts : LateFormat(n)
    BY <1>21
  <2>1. Moved(n, start[n].pc)
    BY LateMoves DEF LateFormat
  <2>2. UNCHANGED <<cmd, capture, ffmpeg>>
    BY DEF LateFormat
  <2>3. QED
    BY <1>0, <2>1, <2>2 DEF Moved, NoOrphan, Active, Encoding, Capturing,
       Processes, Quiet
<1>22. CASE \E n \in Starts : FFmpegExits(n)
  <2> PICK n \in Starts : FFmpegExits(n)
    BY <1>22
  <2>1. QED
    BY <1>0 DEF FFmpegExits, NoOrphan, Active, Encoding, Capturing, Processes,
       Quiet
<1>23. CASE \E n \in Starts : HelperExits(n)
  <2> PICK n \in Starts : HelperExits(n)
    BY <1>23
  <2>1. QED
    BY <1>0 DEF HelperExits, NoOrphan, Active, Encoding, Capturing, Processes,
       Quiet
<1>24. CASE \E n \in Starts : Reap(n)
  <2> PICK n \in Starts : Reap(n)
    BY <1>24
  <2>1. QED
    BY <1>0 DEF Reap, KillHelper, Owns, Ended, Died, NoOrphan, Active,
       Encoding, Capturing, Processes, Quiet
<1>25. CASE UNCHANGED vars
  BY <1>0, <1>25 DEF vars, NoOrphan, Encoding, Capturing, Active
<1>26. QED
  BY <1>1, <1>2, <1>3, <1>4, <1>5, <1>6, <1>7, <1>8, <1>9, <1>10, <1>11,
     <1>12, <1>13, <1>14, <1>15, <1>16, <1>17, <1>18, <1>19, <1>20, <1>21,
     <1>22, <1>23, <1>24, <1>25 DEF Next, StartSteps

-----------------------------------------------------------------------------
(* The theorems.                                                           *)

\* All of it holds at the start.
LEMMA InvStarts == Init => TypeOK /\ Inv /\ NoOrphan
<1> SUFFICES ASSUME Init PROVE TypeOK /\ Inv /\ NoOrphan
  OBVIOUS
<1>1. TypeOK
  <2>1. FreshStart \in Goroutines
    BY DEF FreshStart, Goroutines, Points
  <2>2. start \in [Starts -> Goroutines] /\ stops \in 0 .. MaxStops
    BY <2>1, BoundsAreNaturals DEF Init
  <2>3. QED
    BY <2>2 DEF Init, TypeOK
<1>2. /\ Generations /\ Processes /\ PublishedIsNewest /\ NewestShows
      /\ WantedIsComing /\ HeardIsUp /\ StopHolds /\ LiveHasEncoder /\ NoOrphan
  BY NoneIsNobody DEF Init, FreshStart, Generations, Processes, PublishedIsNewest,
     NewestShows, WantedIsComing, HeardIsUp, StopHolds, LiveHasEncoder, NoOrphan,
     Active, Encoding, Capturing, Quiet
<1>3. QED
  BY <1>1, <1>2 DEF Inv

\* And so it does in every behaviour.
LEMMA Invariance == Spec => [](TypeOK /\ Inv /\ NoOrphan)
<1>1. TypeOK /\ Inv /\ NoOrphan /\ [Next]_vars => (TypeOK /\ Inv /\ NoOrphan)'
  BY TypeStep, InvStep, OrphanStep
<1>2. QED
  BY <1>1, InvStarts, PTL DEF Spec

\* The broadcaster's fields, the starts and the processes keep to their values
\* (Broadcaster and startInternal, broadcast.go:46-87, 508-777).
THEOREM TypeCorrect == Spec => []TypeOK
  BY Invariance, PTL

\* A Stop holds until another start begins: no failure, no dying encoder and no
\* start already under way brings the set back (the generation that Stop bumps,
\* broadcast.go:796-821, and every section of startInternal compares).
THEOREM StopIsKept == Spec => []StopHolds
<1>1. Inv => StopHolds
  BY DEF Inv
<1>2. QED
  BY <1>1, Invariance, PTL

\* A set that says it is on has the encoder of its newest start: the waiter clears
\* only its own handles (broadcast.go:734-743).
THEOREM OnMeansEncoding == Spec => []LiveHasEncoder
<1>1. Inv => LiveHasEncoder
  BY DEF Inv
<1>2. QED
  BY <1>1, Invariance, PTL

\* No encoder is left running without a handle (the publication and the withdrawal
\* of a superseded start, broadcast.go:669-702), overlapping starts excepted.
THEOREM NothingOrphaned == Spec => []NoOrphan
  BY Invariance, PTL

\* A DJ who goes live sees a set that is on or an error, whichever waiter or failure
\* has the last word (broadcast.go:726-794).
THEOREM AnswerComes == Spec => []GoLiveIsAnswered
<1>1. Inv => GoLiveIsAnswered
  BY DEF Inv, WantedIsComing, NewestShows, GoLiveIsAnswered
<1>2. QED
  BY <1>1, Invariance, PTL

\* The permission is blamed only for an encoder whose tap was never heard
\* (broadcast.go:744-760).
THEOREM BlameIsFair == Spec => BlameIsHonest
<1>1. TypeOK /\ Inv /\ [Next]_vars =>
        (state # "error" /\ state' = "error" /\ blame' => cmd \notin heard)
  <2> SUFFICES ASSUME TypeOK, Inv, Next, state # "error", state' = "error", blame'
               PROVE  cmd \notin heard
    BY DEF vars
  <2>1. CASE \E n \in Starts : Reap(n)
    <3> PICK n \in Starts : Reap(n)
      BY <2>1
    <3>1. cmd = n /\ Current(n) /\ ~up
      BY DEF Reap, Owns, Ended, Died
    <3>2. QED
      BY <3>1 DEF Inv, HeardIsUp
  <2>2. CASE ~ \E n \in Starts : Reap(n)
    <3>1. CASE Stop \/ Status \/ \E t \in timers : Grace(t)
      BY <3>1 DEF Stop, Stopping, Status, Grace
    <3>2. CASE \E n \in Starts : StartSteps(n)
      <4> PICK n \in Starts : StartSteps(n)
        BY <3>2
      <4>1. CASE Replay(n) \/ StopFirst(n) \/ Begin(n) \/ BeginFails(n) \/ SpawnHelper(n) \/ HelperFails(n)
        BY <4>1 DEF Replay, StopFirst, Begin, BeginFails, Begun, SpawnHelper, HelperFails, Fail, Stopping
      <4>2. CASE \/ Adopt(n) \/ FormatHeard(n) \/ FormatAssumed(n) \/ Launch(n) \/ LaunchFails(n)
                 \/ Publish(n) \/ Withdraw(n) \/ LateFormat(n)
        BY <4>2 DEF Adopt, FormatHeard, FormatAssumed, Launch, LaunchFails, Fail, Publish, Withdraw,
           LateFormat
      <4> QED
        BY <4>1, <4>2 DEF StartSteps
    <3>3. CASE \E n \in Starts : \/ \E d \in Devices : GoLive(n, d)
                                \/ TryAutoRestart(n) \/ Recover(n)
                                \/ \E m \in Starts : Rescue(n, m)
                                \/ FFmpegExits(n) \/ HelperExits(n)
      BY <3>3 DEF GoLive, TryAutoRestart, Recover, Rescue, FFmpegExits, HelperExits
    <3> QED
      BY <2>2, <3>1, <3>2, <3>3 DEF Next
  <2>3. QED
    BY <2>1, <2>2
<1>2. QED
  BY <1>1, Invariance, PTL DEF Spec, BlameIsHonest
=============================================================================

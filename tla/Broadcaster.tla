---------------------------- MODULE Broadcaster ----------------------------
(***************************************************************************)
(* The DJ's broadcast (internal/broadcast/broadcast.go): requests to start *)
(* and stop, restarts the program decides on by itself, and the processes  *)
(* they leave running.                                                     *)
(*                                                                         *)
(* A start is a goroutine that takes b.mu several times: its own Stop,     *)
(* the section that takes a generation, the publication of the capture     *)
(* helper (system audio only), a wait of up to 15 seconds for the helper's *)
(* FORMAT line, and the publication of ffmpeg.  Each is an action, and so  *)
(* are the launches between them.  Throttles and delays are choices: a     *)
(* restart may be decided on whenever the state allows.                    *)
(***************************************************************************)
EXTENDS Naturals

CONSTANTS
  MaxStarts,    \* starts in a behaviour, the DJ's and the program's own
  MaxStops      \* times the DJ presses Stop

ASSUME BoundsAreNaturals == MaxStarts \in Nat /\ MaxStops \in Nat

VARIABLES
  state,    \* b.state
  gen,      \* b.gen
  cmd,      \* b.cmd: the start whose ffmpeg is published, or None
  helper,   \* b.helper: the start whose capture helper is published, or None
  device,   \* b.device, b.lastDevice: what the last start captures
  up,       \* b.captureUp
  blame,    \* whether b.lastError asks the DJ for the recording permission
  start,    \* the goroutine of each start
  ffmpeg,   \* the ffmpeg of each start
  capture,  \* the capture helper of each start
  timers,   \* what each delayed kill of Stop is about
  file,     \* starts whose ffmpeg opened the current progress file
  want,     \* history: the DJ's last request, or that two of them crossed
  heard,    \* history: starts whose FORMAT line was read
  stops     \* how often the DJ pressed Stop

vars == <<state, gen, cmd, helper, device, up, blame, start, ffmpeg, capture,
          timers, file, want, heard, stops>>

None == 0
Starts == 1 .. MaxStarts
Devices == {"mac", "test"}

\* The points at which a start can be interrupted, in order; "end" when it
\* has returned.  "decided" is an automatic restart that has yet to look up
\* what to restart.
Points == {"free", "decided", "stop", "begin", "spawn", "adopt", "format",
           "launch", "publish", "end"}

\* mine is myGen.  stopped is history: the generation its own Stop left.
\* late is the goroutine that waits for a FORMAT line after the timeout.
Goroutines ==
  [pc : Points, device : Devices \cup {"none"}, mine : Nat, stopped : Nat,
   late : {"no", "assumed", "wait", "recheck"}]

FreshStart == [pc |-> "free", device |-> "none", mine |-> 0, stopped |-> 0,
               late |-> "no"]

TypeOK ==
  /\ state \in {"idle", "starting", "live", "error", "stopping"}
  /\ gen \in Nat
  /\ cmd \in {None} \cup Starts
  /\ helper \in {None} \cup Starts
  /\ device \in Devices \cup {"none"}
  /\ up \in BOOLEAN /\ blame \in BOOLEAN
  /\ start \in [Starts -> Goroutines]
  /\ ffmpeg \in [Starts -> {"none", "up", "signalled", "killed", "exited", "reaped"}]
  /\ capture \in [Starts -> {"none", "up", "signalled", "dead"}]
  /\ timers \subseteq [cmd : {None} \cup Starts, helper : {None} \cup Starts]
  /\ file \subseteq Starts
  /\ want \in {"on", "off", "crossed"}
  /\ heard \subseteq Starts
  /\ stops \in 0 .. MaxStops

Init ==
  /\ state = "idle" /\ gen = 0
  /\ cmd = None /\ helper = None
  /\ device = "none"
  /\ up = FALSE /\ blame = FALSE
  /\ start = [n \in Starts |-> FreshStart]
  /\ ffmpeg = [n \in Starts |-> "none"]
  /\ capture = [n \in Starts |-> "none"]
  /\ timers = {} /\ file = {}
  /\ want = "off" /\ heard = {} /\ stops = 0

-----------------------------------------------------------------------------
(* Requests *)

\* n is the next start to be made.
Fresh(n) == start[n].pc = "free" /\ \A m \in 1 .. n - 1 : start[m].pc # "free"

\* Start n is called for device d; pc is where it begins.
Called(n, d, pc) ==
  /\ Fresh(n)
  /\ start' = [start EXCEPT ![n].pc = pc, ![n].device = d]

Running == state \in {"starting", "live"}

\* The DJ's request, one goroutine per request.
GoLive(n, d) ==
  /\ Called(n, d, "stop")
  /\ want' = "on"
  /\ UNCHANGED <<state, gen, cmd, helper, device, up, blame, ffmpeg, capture,
                 timers, file, heard, stops>>

\* The tap reports that its output device went away: decided and looked up
\* in one section, carried out by a goroutine of its own.
TryAutoRestart(n) ==
  /\ Running /\ device = "mac"
  /\ Called(n, device, "stop")
  /\ UNCHANGED <<state, gen, cmd, helper, device, up, blame, ffmpeg, capture,
                 timers, file, want, heard, stops>>

\* The health watch finds no stream, or the set dead, and decides.
Recover(n) ==
  /\ Running \/ (state = "error" /\ device # "none")
  /\ Called(n, "none", "decided")
  /\ UNCHANGED <<state, gen, cmd, helper, device, up, blame, ffmpeg, capture,
                 timers, file, want, heard, stops>>

\* It reads what to restart in a section of its own.
Replay(n) ==
  /\ start[n].pc = "decided"
  /\ start' = [start EXCEPT ![n].pc = "stop", ![n].device = device]
  /\ UNCHANGED <<state, gen, cmd, helper, device, up, blame, ffmpeg, capture,
                 timers, file, want, heard, stops>>

-----------------------------------------------------------------------------
(* Stop *)

\* A signal to the process of start n, if it has one that runs.
Signal(procs, n) ==
  [m \in Starts |-> IF m = n /\ procs[m] = "up" THEN "signalled" ELSE procs[m]]

\* Stop's section and the signals after it.  The handles stay; the waiter of
\* ffmpeg drops them.
Stopping ==
  /\ gen' = gen + 1
  /\ state' = IF cmd = None THEN "idle" ELSE "stopping"
  /\ ffmpeg' = Signal(ffmpeg, cmd)
  /\ capture' = Signal(capture, helper)
  /\ timers' = IF cmd = None /\ helper = None THEN timers
               ELSE timers \cup {[cmd |-> cmd, helper |-> helper]}

\* A call that has yet to take its generation.
Coming(n) == start[n].pc \in {"stop", "begin"}

\* The DJ's Stop.  One that meets a call on its way may be the earlier one.
Stop ==
  /\ stops < MaxStops
  /\ Stopping
  /\ want' = IF \E n \in Starts : Coming(n) THEN "crossed" ELSE "off"
  /\ stops' = stops + 1
  /\ UNCHANGED <<cmd, helper, device, up, blame, start, file, heard>>

\* The kill 1.5 s later, for what is still published.
Grace(t) ==
  /\ timers' = timers \ {t}
  /\ ffmpeg' = [n \in Starts |->
       IF n = t.cmd /\ cmd = n /\ ffmpeg[n] \in {"up", "signalled"}
       THEN "killed" ELSE ffmpeg[n]]
  /\ capture' = [n \in Starts |->
       IF n = t.helper /\ helper = n /\ capture[n] # "none"
       THEN "dead" ELSE capture[n]]
  /\ UNCHANGED <<state, gen, cmd, helper, device, up, blame, start, file, want,
                 heard, stops>>

-----------------------------------------------------------------------------
(* startInternal *)

StopFirst(n) ==
  /\ start[n].pc = "stop"
  /\ Stopping
  /\ start' = [start EXCEPT ![n].pc = "begin", ![n].stopped = gen + 1]
  /\ UNCHANGED <<cmd, helper, device, up, blame, file, want, heard, stops>>

\* The section that takes the generation: a clean run directory, and the
\* state of a new set.
Begun(n, st, pc) ==
  /\ start[n].pc = "begin"
  /\ gen' = gen + 1
  /\ start' = [start EXCEPT ![n].pc = pc, ![n].mine = gen + 1]
  /\ state' = st
  /\ device' = start[n].device
  /\ up' = FALSE /\ blame' = FALSE
  /\ file' = {}
  /\ UNCHANGED <<cmd, helper, ffmpeg, capture, timers, want, heard, stops>>

Begin(n) ==
  Begun(n, "starting", IF start[n].device = "mac" THEN "spawn" ELSE "launch")

\* System audio without a helper to capture it, or no pipe to be had.
BeginFails(n) == start[n].device = "mac" /\ Begun(n, "error", "end")

Current(n) == gen = start[n].mine

\* Start n has taken its generation.
Active(n) == start[n].pc \notin {"free", "decided", "stop", "begin"}

Fail_Unguarded(n) == state' = "error" /\ blame' = FALSE /\ cmd' = None /\ helper' = None

\* fail: recorded for the newest generation only.
Fail(n) ==
  IF Current(n)
  THEN state' = "error" /\ blame' = FALSE /\ cmd' = None /\ helper' = None
  ELSE UNCHANGED <<state, blame, cmd, helper>>

Goto(n, pc) == start' = [start EXCEPT ![n].pc = pc]

SpawnHelper(n) ==
  /\ start[n].pc = "spawn"
  /\ capture' = [capture EXCEPT ![n] = "up"]
  /\ Goto(n, "adopt")
  /\ UNCHANGED <<state, gen, cmd, helper, device, up, blame, ffmpeg, timers,
                 file, want, heard, stops>>

HelperFails(n) ==
  /\ start[n].pc = "spawn"
  /\ Fail(n)
  /\ Goto(n, "end")
  /\ UNCHANGED <<gen, device, up, ffmpeg, capture, timers, file, want, heard,
                 stops>>

\* The running helper is published, or killed if a Stop came in between.
Adopt(n) ==
  /\ start[n].pc = "adopt"
  /\ IF Current(n)
     THEN helper' = n /\ Goto(n, "format") /\ UNCHANGED capture
     ELSE /\ capture' = [capture EXCEPT ![n] = "dead"]
          /\ Goto(n, "end") /\ UNCHANGED helper
  /\ UNCHANGED <<state, gen, cmd, device, up, blame, ffmpeg, timers, file, want,
                 heard, stops>>

\* The FORMAT line of start n is read.
Heard(n) ==
  /\ up' = (up \/ Current(n))
  /\ heard' = heard \cup {n}

FormatHeard(n) ==
  /\ start[n].pc = "format"
  /\ Heard(n)
  /\ Goto(n, "launch")
  /\ UNCHANGED <<state, gen, cmd, helper, device, blame, ffmpeg, capture, timers,
                 file, want, stops>>

FormatAssumed(n) ==
  /\ start[n].pc = "format"
  /\ start' = [start EXCEPT ![n].pc = "launch", ![n].late = "assumed"]
  /\ UNCHANGED <<state, gen, cmd, helper, device, up, blame, ffmpeg, capture,
                 timers, file, want, heard, stops>>

Launch(n) ==
  /\ start[n].pc = "launch"
  /\ ffmpeg' = [ffmpeg EXCEPT ![n] = "up"]
  /\ file' = file \cup {n}
  /\ Goto(n, "publish")
  /\ UNCHANGED <<state, gen, cmd, helper, device, up, blame, capture, timers,
                 want, heard, stops>>

\* Kill and Wait of the helper of start n, if there is one.
KillHelper(n) ==
  capture' = IF capture[n] = "none" THEN capture
             ELSE [capture EXCEPT ![n] = "dead"]

LaunchFails(n) ==
  /\ start[n].pc = "launch"
  /\ KillHelper(n)
  /\ Fail(n)
  /\ Goto(n, "end")
  /\ UNCHANGED <<gen, device, up, ffmpeg, timers, file, want, heard, stops>>

Publish_Unguarded(n) ==
  /\ start[n].pc = "publish"
  /\ cmd' = n
  /\ Goto(n, "end")
  /\ UNCHANGED <<state, gen, helper, device, up, blame, ffmpeg, capture, timers,
                 file, want, heard, stops>>

\* ffmpeg is published, its waiter runs from here on, and so does the
\* goroutine that waits for a late FORMAT line.
Publish(n) ==
  /\ start[n].pc = "publish"
  /\ Current(n)
  /\ cmd' = n
  /\ start' = [start EXCEPT ![n].pc = "end",
                            ![n].late = IF @ = "assumed" THEN "wait" ELSE @]
  /\ UNCHANGED <<state, gen, helper, device, up, blame, ffmpeg, capture, timers,
                 file, want, heard, stops>>

\* A superseded start kills what it launched.
Withdraw(n) ==
  /\ start[n].pc = "publish"
  /\ ~Current(n)
  /\ helper' = IF helper = n THEN None ELSE helper
  /\ ffmpeg' = [ffmpeg EXCEPT ![n] = "reaped"]
  /\ KillHelper(n)
  /\ Goto(n, "end")
  /\ UNCHANGED <<state, gen, cmd, device, up, blame, timers, file, want, heard,
                 stops>>

\* The late FORMAT line: as assumed, or otherwise.
LateFormat(n) ==
  /\ start[n].pc = "end" /\ start[n].late = "wait"
  /\ Heard(n)
  /\ \E next \in {"no", "recheck"} : start' = [start EXCEPT ![n].late = next]
  /\ UNCHANGED <<state, gen, cmd, helper, device, blame, ffmpeg, capture, timers,
                 file, want, stops>>

\* It was otherwise: restart with the right settings unless superseded.
Rescue(n, m) ==
  /\ start[n].late = "recheck"
  /\ Current(n)
  /\ Fresh(m)
  /\ start' = [start EXCEPT ![n].late = "no", ![m].pc = "stop",
                            ![m].device = start[n].device]
  /\ UNCHANGED <<state, gen, cmd, helper, device, up, blame, ffmpeg, capture,
                 timers, file, want, heard, stops>>

-----------------------------------------------------------------------------
(* The processes and the waiter *)

FFmpegExits(n) ==
  /\ ffmpeg[n] \in {"up", "signalled", "killed"}
  /\ ffmpeg' = [ffmpeg EXCEPT ![n] = "exited"]
  /\ UNCHANGED <<state, gen, cmd, helper, device, up, blame, start, capture,
                 timers, file, want, heard, stops>>

HelperExits(n) ==
  /\ capture[n] \in {"up", "signalled"}
  /\ capture' = [capture EXCEPT ![n] = "dead"]
  /\ UNCHANGED <<state, gen, cmd, helper, device, up, blame, start, ffmpeg,
                 timers, file, want, heard, stops>>

Owns_Any(n) == TRUE
Owns_UnlessSuperseded(n) == cmd = n /\ (state = "stopping" \/ Current(n))

\* Whether the published handle is the waiter's own.
Owns(n) == cmd = n

Ended_OrSuperseded(n) == state = "stopping" \/ ~Current(n)

\* The set was stopped.
Ended(n) == state = "stopping"

Died_OrSuperseded(n) == ~Ended(n)

\* The set died: nothing superseded its generation.
Died(n) == ~Ended(n) /\ Current(n)

\* The waiter of a published ffmpeg.  A superseded one only drops its handles.
Reap(n) ==
  /\ start[n].pc = "end"
  /\ ffmpeg[n] = "exited"
  /\ ffmpeg' = [ffmpeg EXCEPT ![n] = "reaped"]
  /\ KillHelper(n)
  /\ IF ~Owns(n) THEN UNCHANGED <<state, cmd, helper, blame>>
     ELSE /\ cmd' = None
          /\ helper' = IF Ended(n) \/ Died(n) \/ helper = n THEN None ELSE helper
          /\ state' = IF Ended(n) THEN "idle" ELSE IF Died(n) THEN "error" ELSE state
          /\ blame' = IF Died(n) THEN device = "mac" /\ ~up ELSE blame
  /\ UNCHANGED <<gen, device, up, start, timers, file, want, heard, stops>>

\* Status reads "live" off the progress file.
Status ==
  /\ state = "starting"
  /\ file # {}
  /\ state' = "live"
  /\ UNCHANGED <<gen, cmd, helper, device, up, blame, start, ffmpeg, capture,
                 timers, file, want, heard, stops>>

-----------------------------------------------------------------------------
StartSteps(n) ==
  \/ Replay(n) \/ StopFirst(n)
  \/ Begin(n) \/ BeginFails(n)
  \/ SpawnHelper(n) \/ HelperFails(n) \/ Adopt(n)
  \/ FormatHeard(n) \/ FormatAssumed(n)
  \/ Launch(n) \/ LaunchFails(n)
  \/ Publish(n) \/ Withdraw(n)
  \/ LateFormat(n)

Next ==
  \/ Stop
  \/ Status
  \/ \E t \in timers : Grace(t)
  \/ \E n \in Starts :
       \/ \E d \in Devices : GoLive(n, d)
       \/ TryAutoRestart(n)
       \/ Recover(n)
       \/ StartSteps(n)
       \/ \E m \in Starts : Rescue(n, m)
       \/ FFmpegExits(n) \/ HelperExits(n)
       \/ Reap(n)

\* The delayed kill is carried out, a killed process dies, and a process that
\* has died is waited for.
Fairness ==
  /\ \A t \in [cmd : {None} \cup Starts, helper : {None} \cup Starts] :
       WF_vars(t \in timers /\ Grace(t))
  /\ \A n \in Starts : /\ WF_vars(ffmpeg[n] = "killed" /\ FFmpegExits(n))
                       /\ WF_vars(Reap(n))

Spec == Init /\ [][Next]_vars /\ Fairness

-----------------------------------------------------------------------------
(* Properties *)

\* An ffmpeg or a helper nobody has told to end.
Encoding(n) == ffmpeg[n] = "up"
Capturing(n) == capture[n] = "up"

\* Stop holds: until another start begins, the broadcaster is idle or winding
\* down, and the encoder it still has a handle on was told to end.  The
\* failure, the waiter and the publication of every start already under way
\* check the generation for this.
StopHolds ==
  (\A n \in Starts : Active(n) => ~Current(n)) =>
    /\ state \in {"idle", "stopping"}
    /\ cmd # None => ~Encoding(cmd)

\* A set that says it is on has an encoder, or its start is still at work:
\* neither the waiter of an older ffmpeg nor an older start takes the handle
\* of the newest one away.
LiveHasEncoder ==
  state \in {"starting", "live"} =>
    \E n \in Starts :
      /\ Active(n) /\ Current(n)
      /\ start[n].pc = "end" => cmd = n /\ ffmpeg[n] # "reaped"

\* The preparation of a start overlaps that of start n: its own Stop was
\* before n took its generation, and it took its own after.
Overlapped(n) ==
  \E m \in Starts : /\ Active(m)
                    /\ start[m].stopped < start[n].mine
                    /\ start[n].mine < start[m].mine

\* No orphans: an encoder whose start has returned is the published one, or
\* has been told to end; and no capture helper outlives its encoder.  Two
\* starts whose preparations overlap are the exception: the second one's Stop
\* comes too early to stop the first one's encoder.
NoOrphan ==
  \A n \in Starts : start[n].pc = "end" =>
    /\ Encoding(n) => cmd = n \/ Overlapped(n)
    /\ Capturing(n) => ffmpeg[n] \notin {"none", "reaped"}

\* The DJ is asked for the recording permission only when the encoder that
\* died never had a word from its tap: not when a rebuild replaces a set whose
\* capture worked.
BlameIsHonest ==
  [][state # "error" /\ state' = "error" /\ blame' => cmd \notin heard]_vars

\* Going live is answered: once the starts have returned, a DJ whose last
\* request was to go live sees a set that is on or an error, whatever Stops,
\* restarts and deaths of older encoders came in between.
GoLiveIsAnswered ==
  (want = "on" /\ \A n \in Starts : start[n].pc \in {"free", "end"}) =>
    state \in {"starting", "live", "error"}

\* "stopping" ends, even if ffmpeg ignores the interrupt: the waiter of the
\* published encoder ends it, and no handle of a dead one is left for Stop to
\* wait on.
StoppingEnds == state = "stopping" ~> state # "stopping"
=============================================================================

----------------------------- MODULE RelayMode ------------------------------
(***************************************************************************)
(* The relay manager of the Mac (internal/relay): it decides the room's    *)
(* connection mode from evidence about the network and the DJ's            *)
(* preferences, and tells the contribution manager where to push the       *)
(* stream and whether to (main.go:285-309).                                *)
(*                                                                         *)
(* The registration loop, the console's requests and the activation        *)
(* supervisor all change the evidence.  Each does so in one section under  *)
(* the manager's lock, which decides the mode again, and then, with the    *)
(* lock released, saves, flushes the pending decision and delivers it.     *)
(* Everything after the first section interleaves.                         *)
(***************************************************************************)
EXTENDS Naturals, FiniteSets

CONSTANTS
  Networks,   \* network keys the broker reports
  Targets,    \* relay rooms with their publish credentials
  Workers,    \* console requests and the activation supervisor
  Overrides,  \* the connection-mode preferences the DJ may choose
  Reaches     \* and the streaming reaches

ASSUME Preferences ==
  /\ Overrides \subseteq {"auto", "direct", "relay", "local"} /\ "auto" \in Overrides
  /\ Reaches \subseteq {"wifi", "cloud"} /\ "wifi" \in Reaches

Loop == "loop"
ASSUME LoopIsNoWorker == Loop \notin Workers
ASSUME NoRoomIsNoTarget == "none" \notin Targets

VARIABLES
  \* Manager, under Manager.mu
  ev,        \* the evidence
  reg,       \* the current registration, or NoReg
  verdicts,  \* networks remembered as direct
  mode,      \* status.Mode
  push,      \* the push decision: wanted, ever signaled, pending delivery
  \* connection-mode.json
  disk,
  \* Threads
  pc,        \* what each caller does next
  saving,    \* the preferences it writes
  sending,   \* the decision it delivers
  stage,     \* how far the loop is with a registration
  report,    \* the guest report that came with it
  \* The contribution manager
  contrib,
  \* History
  vouched,   \* networks on which a guest reached the Mac, or the DJ insisted on direct
  crossed    \* the last decision was taken while another was being delivered

vars == <<ev, reg, verdicts, mode, push, disk, pc, saving, sending, stage, report, contrib, vouched, crossed>>

Threads == Workers \union {Loop}
NoReg == [network |-> "none", target |-> "none"]

Decision == {{}, {TRUE}, {FALSE}}     \* a push decision, or none

Prefs == [override : Overrides, reach : Reaches]
Evidence == [tried : BOOLEAN, streak : 0..1, net : BOOLEAN, resolver : BOOLEAN, link : BOOLEAN,
             probe : {"none", "yes", "no"}, down : BOOLEAN, prefs : Prefs]

-----------------------------------------------------------------------------
(* The decision: decide and recomputeLocked.                               *)

\* Serving on the Wi-Fi, whose outcome with a secure link is m.
OnWiFi(e, m) == IF ~e.link THEN "checking" ELSE IF ~e.resolver THEN "no_path" ELSE m

\* The slip: the relay is taken to be there.
Automatic_TrustsOrigin(e) ==
  CASE ~e.net                    -> IF e.link /\ e.resolver THEN "local" ELSE "no_path"
    [] e.net /\ e.probe = "none" -> "checking"
    [] e.net /\ e.probe = "yes"  -> IF e.link THEN "direct" ELSE "checking"
    [] e.net /\ e.probe = "no"   -> IF e.prefs.reach = "wifi" THEN "no_path" ELSE "relay"

Automatic(e) ==
  CASE ~e.net                    -> IF e.link /\ e.resolver THEN "local" ELSE "no_path"
    [] e.net /\ e.probe = "none" -> "checking"
    [] e.net /\ e.probe = "yes"  -> IF e.link THEN "direct" ELSE "checking"
    [] e.net /\ e.probe = "no"   -> IF e.down \/ e.prefs.reach = "wifi" THEN "no_path" ELSE "relay"

Decide(e) ==
  CASE ~e.tried -> "checking"
    [] e.tried /\ e.prefs.override = "local"  -> OnWiFi(e, "local")
    [] e.tried /\ e.prefs.override = "direct" -> OnWiFi(e, IF e.net THEN "direct" ELSE "local")
    [] e.tried /\ e.prefs.override = "relay"  -> IF e.net /\ ~e.down THEN "relay" ELSE "no_path"
    [] e.tried /\ e.prefs.override = "auto"   -> Automatic(e)

PushWanted(e) ==
  \/ Decide(e) = "relay"
  \/ e.prefs.reach # "wifi" /\ e.tried /\ e.net /\ ~e.down

\* The slip: a decision that still waits is not replaced by a newer one.
Recompute_KeepsPending(e) ==
  /\ ev' = e /\ mode' = Decide(e)
  /\ push' = [wanted |-> PushWanted(e), signaled |-> TRUE,
              pending |-> IF push.pending = {} /\ (PushWanted(e) # push.wanted \/ ~push.signaled)
                          THEN {PushWanted(e)} ELSE push.pending]

\* The evidence becomes e: the mode is decided, and a change of the push
\* decision is left for whoever flushes first.
Recompute(e) ==
  /\ ev' = e /\ mode' = Decide(e)
  /\ push' = [wanted |-> PushWanted(e), signaled |-> TRUE,
              pending |-> IF PushWanted(e) # push.wanted \/ ~push.signaled
                          THEN {PushWanted(e)} ELSE push.pending]

Init ==
  /\ \E p \in Prefs :
       /\ disk = p
       /\ ev = [tried |-> FALSE, streak |-> 0, net |-> FALSE, resolver |-> FALSE, link |-> FALSE,
                probe |-> "none", down |-> FALSE, prefs |-> p]
  /\ reg = NoReg /\ verdicts = {} /\ mode = "checking"
  /\ push = [wanted |-> FALSE, signaled |-> FALSE, pending |-> {}]
  /\ pc = [t \in Threads |-> "idle"] /\ saving = [t \in Threads |-> disk]
  /\ sending = [t \in Threads |-> {}]
  /\ stage = "none" /\ report = "none"
  /\ contrib = [enabled |-> FALSE, target |-> "none"] /\ vouched = {} /\ crossed = FALSE

-----------------------------------------------------------------------------
(* What every caller does after its section.                               *)

Goto(t, step) == pc' = [pc EXCEPT ![t] = step]

Flush(t) ==                          \* flushModeChange takes the pending decision
  /\ pc[t] = "flush" /\ push' = [push EXCEPT !.pending = {}]
  /\ sending' = [sending EXCEPT ![t] = push.pending]
  /\ crossed' = IF push.pending = {} THEN crossed ELSE \E u \in Threads : sending[u] # {}
  /\ Goto(t, IF push.pending = {} THEN "idle" ELSE "deliver")
  /\ UNCHANGED <<ev, reg, verdicts, mode, disk, saving, stage, report, contrib, vouched>>

Deliver(t) ==                        \* OnPush
  /\ pc[t] = "deliver" /\ Goto(t, "idle")
  /\ contrib' = [contrib EXCEPT !.enabled = TRUE \in sending[t]]
  /\ sending' = [sending EXCEPT ![t] = {}]
  /\ UNCHANGED <<ev, reg, verdicts, mode, push, disk, saving, stage, report, vouched, crossed>>

-----------------------------------------------------------------------------
(* Console requests and the activation supervisor.                         *)

\* SetOverride and SetReach: decide, then read the other half and save both.
SetOverride(t, v) ==
  /\ t \in Workers /\ pc[t] = "idle" /\ v # ev.prefs.override
  /\ Recompute([ev EXCEPT !.prefs.override = v])
  /\ Goto(t, "load-reach") /\ saving' = [saving EXCEPT ![t].override = v]
  /\ UNCHANGED <<reg, verdicts, disk, sending, stage, report, contrib, vouched, crossed>>

SetReach(t, v) ==
  /\ t \in Workers /\ pc[t] = "idle" /\ v # ev.prefs.reach
  /\ Recompute([ev EXCEPT !.prefs.reach = v])
  /\ Goto(t, "load-override") /\ saving' = [saving EXCEPT ![t].reach = v]
  /\ UNCHANGED <<reg, verdicts, disk, sending, stage, report, contrib, vouched, crossed>>

Load(t) ==
  /\ \/ /\ pc[t] = "load-reach" /\ saving' = [saving EXCEPT ![t].reach = disk.reach]
     \/ /\ pc[t] = "load-override" /\ saving' = [saving EXCEPT ![t].override = disk.override]
  /\ Goto(t, "save")
  /\ UNCHANGED <<ev, reg, verdicts, mode, push, disk, sending, stage, report, contrib, vouched, crossed>>

Save(t) ==                           \* savePrefs
  /\ pc[t] = "save" /\ disk' = saving[t] /\ Goto(t, "flush")
  /\ UNCHANGED <<ev, reg, verdicts, mode, push, saving, sending, stage, report, contrib, vouched, crossed>>

SetDirectURL(t) ==
  /\ t \in Workers /\ pc[t] = "idle" /\ Recompute([ev EXCEPT !.link = ~@])
  /\ Goto(t, "flush")
  /\ UNCHANGED <<reg, verdicts, disk, saving, sending, stage, report, contrib, vouched, crossed>>

SetResolverOK(t) ==
  /\ t \in Workers /\ pc[t] = "idle" /\ Recompute([ev EXCEPT !.resolver = ~@])
  /\ Goto(t, "flush")
  /\ UNCHANGED <<reg, verdicts, disk, saving, sending, stage, report, contrib, vouched, crossed>>

-----------------------------------------------------------------------------
(* The registration loop.                                                  *)

\* The slip: the change of network is noted, the mode not decided again.
NetworkTransition_KeepsMode ==
  /\ pc[Loop] = "idle" /\ stage = "none"
  /\ ev' = [ev EXCEPT !.probe = "none"] /\ Goto(Loop, "flush") /\ UNCHANGED <<mode, push>>
  /\ UNCHANGED <<reg, verdicts, disk, saving, sending, stage, report, contrib, vouched, crossed>>

NetworkTransition ==
  /\ pc[Loop] = "idle" /\ stage = "none"
  /\ Recompute([ev EXCEPT !.probe = "none"]) /\ Goto(Loop, "flush")
  /\ UNCHANGED <<reg, verdicts, disk, saving, sending, stage, report, contrib, vouched, crossed>>

\* The second failure in a row settles the verdict, if nothing has yet; failures
\* are counted until then.
RegistrationFails ==
  /\ pc[Loop] = "idle" /\ stage = "none"
  /\ Recompute([ev EXCEPT !.streak = IF ev.tried \/ @ = 1 THEN 0 ELSE 1, !.net = FALSE,
                          !.tried = @ \/ ev.streak = 1])
  /\ Goto(Loop, "flush")
  /\ UNCHANGED <<reg, verdicts, disk, saving, sending, stage, report, contrib, vouched, crossed>>

\* applyRegistration: a remembered direct verdict stands in for a report, unless
\* it is too old, and anything else remembered of the network is dropped.
Register(n, o, r) ==
  LET moved == reg.network # n IN
  /\ pc[Loop] = "idle" /\ stage = "none"
  /\ reg' = [network |-> n, target |-> o] /\ stage' = "registered" /\ report' = r
  /\ \E known \in {{}, {n}} :
       /\ known \subseteq verdicts
       /\ verdicts' = IF moved THEN (verdicts \ {n}) \union known ELSE verdicts
       /\ Recompute([ev EXCEPT !.tried = TRUE, !.streak = 0, !.net = TRUE,
                               !.probe = IF ~moved THEN @
                                         ELSE IF known = {n} THEN "yes" ELSE "none"])
  /\ Goto(Loop, IF reg.target # o THEN "target" ELSE "flush")
  /\ UNCHANGED <<disk, saving, sending, contrib, vouched, crossed>>

DeliverTarget ==                     \* OnTarget
  /\ pc[Loop] = "target" /\ Goto(Loop, "flush")
  /\ contrib' = [contrib EXCEPT !.target = reg.target]
  /\ UNCHANGED <<ev, reg, verdicts, mode, push, disk, saving, sending, stage, report, vouched, crossed>>

\* The slip: whatever a guest reports is remembered.
ApplyProbe_RemembersAll ==
  LET ignored == report = "no" /\ mode = "direct" /\ ev.probe = "yes" IN
  /\ pc[Loop] = "idle" /\ stage = "registered" /\ stage' = "reported" /\ report' = "none"
  /\ IF report = "none" \/ ignored
     THEN UNCHANGED <<ev, mode, push, verdicts, pc, vouched>>
     ELSE /\ Recompute([ev EXCEPT !.probe = report]) /\ Goto(Loop, "flush")
          /\ verdicts' = verdicts \union {reg.network}
          /\ vouched' = IF report = "yes" \/ ev.prefs.override = "direct"
                       THEN vouched \union {reg.network} ELSE vouched
  /\ UNCHANGED <<reg, disk, saving, sending, contrib, crossed>>

\* applyProbe, when a report came with the registration; a failure does not
\* demote a proven direct path.
ApplyProbe ==
  LET ignored == report = "no" /\ mode = "direct" /\ ev.probe = "yes" IN
  /\ pc[Loop] = "idle" /\ stage = "registered" /\ stage' = "reported" /\ report' = "none"
  /\ IF report = "none" \/ ignored
     THEN UNCHANGED <<ev, mode, push, verdicts, pc, vouched>>
     ELSE /\ Recompute([ev EXCEPT !.probe = report]) /\ Goto(Loop, "flush")
          /\ verdicts' = IF mode' = "direct" THEN verdicts \union {reg.network}
                         ELSE verdicts \ {reg.network}
          /\ vouched' = IF report = "yes" \/ ev.prefs.override = "direct"
                       THEN vouched \union {reg.network} ELSE vouched
  /\ UNCHANGED <<reg, disk, saving, sending, contrib, crossed>>

\* The slip: the decision is left for the next flush, whenever that is.
OriginProbe_Unflushed(down) ==
  /\ pc[Loop] = "idle" /\ stage = "reported" /\ stage' = "none"
  /\ IF ev.down = down THEN UNCHANGED <<ev, mode, push, pc>>
     ELSE Recompute([ev EXCEPT !.down = down]) /\ UNCHANGED pc
  /\ UNCHANGED <<reg, verdicts, disk, saving, sending, report, contrib, vouched, crossed>>

OriginProbe(down) ==                 \* setOriginDownForRegistration
  /\ pc[Loop] = "idle" /\ stage = "reported" /\ stage' = "none"
  /\ IF ev.down = down THEN UNCHANGED <<ev, mode, push, pc>>
     ELSE Recompute([ev EXCEPT !.down = down]) /\ Goto(Loop, "flush")
  /\ UNCHANGED <<reg, verdicts, disk, saving, sending, report, contrib, vouched, crossed>>

-----------------------------------------------------------------------------
Next ==
  \/ \E t \in Threads : Flush(t) \/ Deliver(t) \/ Load(t) \/ Save(t)
  \/ \E t \in Workers : SetDirectURL(t) \/ SetResolverOK(t)
  \/ \E t \in Workers, v \in Overrides : SetOverride(t, v)
  \/ \E t \in Workers, v \in Reaches : SetReach(t, v)
  \/ NetworkTransition \/ RegistrationFails \/ DeliverTarget \/ ApplyProbe
  \/ \E n \in Networks, o \in Targets, r \in {"none", "yes", "no"} : Register(n, o, r)
  \/ \E down \in BOOLEAN : OriginProbe(down)

Spec == Init /\ [][Next]_vars

-----------------------------------------------------------------------------
\* The values of the manager, its callers and what it drives (relay.go:85-126).
TypeOK ==
  /\ ev \in Evidence /\ disk \in Prefs /\ verdicts \in SUBSET Networks
  /\ reg \in [network : Networks, target : Targets] \union {NoReg}
  /\ mode \in {"checking", "local", "direct", "relay", "no_path"}
  /\ push \in [wanted : BOOLEAN, signaled : BOOLEAN, pending : Decision]
  /\ pc \in [Threads -> {"idle", "load-reach", "load-override", "save", "target", "flush", "deliver"}]
  /\ saving \in [Threads -> Prefs] /\ sending \in [Threads -> Decision]
  /\ \A t \in Threads : pc[t] = "deliver" <=> sending[t] # {}
  /\ stage \in {"none", "registered", "reported"} /\ report \in {"none", "yes", "no"}
  /\ contrib \in [enabled : BOOLEAN, target : Targets \union {"none"}]
  /\ vouched \in SUBSET Networks /\ crossed \in BOOLEAN

(***************************************************************************)
(* The room never claims the relay without a registration, internet and an *)
(* origin that answers, and never claims a Wi-Fi path without a secure     *)
(* link to hand out (mode.go:105-185).                                     *)
(***************************************************************************)
ModeIsServiceable ==
  /\ mode = "relay" => reg # NoReg /\ ev.net /\ ~ev.down
  /\ mode \in {"direct", "local"} => ev.link

(***************************************************************************)
(* Evidence from one network does not choose the path on another: after a  *)
(* change of network the room is direct by itself only if a guest reached  *)
(* the Mac on this one, or the DJ had insisted on direct here, however     *)
(* stale the mode was (relay.go:415-422, 440-454).                         *)
(***************************************************************************)
DirectIsVouchedHere ==
  mode = "direct" /\ ev.prefs.override # "direct" => reg.network \in vouched /\ ev.probe = "yes"

(***************************************************************************)
(* A push decision is never forgotten: while one is pending some caller is *)
(* on its way to flush it (relay.go:272-276, 284-299).                     *)
(***************************************************************************)
NoDecisionLost ==
  push.pending # {} =>
    \E t \in Threads : pc[t] \in {"load-reach", "load-override", "save", "target", "flush"}

(***************************************************************************)
(* Decisions are delivered outside the lock, by whoever flushed them       *)
(* (relay.go:284-299).  When none is pending or on its way, the            *)
(* contribution does what was decided last, however many requests came     *)
(* between a decision and its delivery.  Excepted is a decision that was   *)
(* taken while another was being delivered: nothing says which of the two  *)
(* arrives last.                                                           *)
(***************************************************************************)
Delivered == push.pending = {} /\ \A t \in Threads : sending[t] = {}
DecisionArrives == Delivered /\ ~crossed => contrib.enabled = push.wanted

(***************************************************************************)
(* What is remembered of a network is never a guess: a guest reached the   *)
(* Mac there, or the DJ insisted on direct while a report came in          *)
(* (relay.go:616-650).  That the DJ's wish is remembered too is more than  *)
(* "successful reachability is durable evidence.  A failed browser fetch   *)
(* is not" allows (relay.go:635-637).                                      *)
(***************************************************************************)
RememberedIsVouched == verdicts \subseteq vouched
=============================================================================

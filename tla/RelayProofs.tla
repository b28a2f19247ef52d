----------------------------- MODULE RelayProofs -----------------------------
(***************************************************************************)
(* Proofs about what the Mac makes of its exchanges with the origin: which *)
(* connection mode it is in (RelayMode), and how far its clock is from the *)
(* origin's (ClockCalibration).  The modules share no name, and no state.  *)
(*                                                                         *)
(* RelayMode, for any networks, rooms, callers and preferences: the mode   *)
(* is one the Mac can serve, it is never chosen by evidence from another   *)
(* network, no push decision is forgotten, and the last one arrives.       *)
(* None of the five theorems is inductive alone. A mode is serviceable     *)
(* because it is the one the evidence decides and because there is         *)
(* internet only once there was a registration; a direct mode is vouched   *)
(* for because each reported or remembered path is, of the network of the  *)
(* registration; and a decision arrives because the one delivery that is   *)
(* under way, if there is one, carries it.                                 *)
(*                                                                         *)
(* ClockCalibration, for every rate of ticks, every difference of the      *)
(* clocks and every length of an exchange: the bounds on the error that    *)
(* the Mac publishes and the origin serves are honest.  The invariant      *)
(* remembers of the origin's timestamps only that the first was not taken  *)
(* before the exchange began and the second not after now; the rest is     *)
(* arithmetic (ErrorBound).                                                *)
(***************************************************************************)
EXTENDS RelayMode, ClockCalibration, TLAPS

Modes == {"checking", "local", "direct", "relay", "no_path"}
Steps == {"idle", "load-reach", "load-override", "save", "target", "flush", "deliver"}
OnItsWay == {"load-reach", "load-override", "save", "target", "flush"}

\* The mode is never older than the evidence.
ModeIsDecided == mode = Decide(ev)

\* There is internet, or a report to judge, only once there was a registration.
NetIsRegistered == ev.net \/ stage = "registered" => reg # NoReg

\* A proven path was proven on the network of the registration.
ProofIsVouched == ev.probe = "yes" => reg.network \in vouched

\* What waits is what was decided last.
PendingIsNewest == push.pending \subseteq {push.wanted}

\* Since a decision that was taken alone, nobody else has taken one.
OneDelivers ==
  ~crossed => \A t, u \in Threads : sending[t] # {} /\ sending[u] # {} => t = u

\* What is on its way is then what was decided last, unless that still waits.
DeliversNewest ==
  ~crossed /\ push.pending = {} => \A t \in Threads : sending[t] \subseteq {push.wanted}

Deliveries == PendingIsNewest /\ OneDelivers /\ DeliversNewest /\ DecisionArrives

Inv ==
  /\ TypeOK /\ ModeIsDecided /\ NetIsRegistered
  /\ RememberedIsVouched /\ ProofIsVouched /\ NoDecisionLost /\ Deliveries

-----------------------------------------------------------------------------
(* The decision.                                                           *)

\* What decide (mode.go:105-185) can answer, and on what evidence.
LEMMA DecideAnswers ==
  ASSUME NEW e \in Evidence
  PROVE  /\ Decide(e) \in Modes
         /\ Decide(e) = "relay" => e.net /\ ~e.down
         /\ Decide(e) \in {"direct", "local"} => e.link
         /\ Decide(e) = "direct" => e.prefs.override = "direct" \/ e.probe = "yes"
         /\ ~e.tried => Decide(e) = "checking"
<1>1. e.prefs.override \in {"auto", "direct", "relay", "local"}
  BY Preferences DEF Evidence, Prefs
<1>2. /\ e.tried \in BOOLEAN /\ e.net \in BOOLEAN /\ e.link \in BOOLEAN
      /\ e.resolver \in BOOLEAN /\ e.down \in BOOLEAN /\ e.probe \in {"none", "yes", "no"}
  BY DEF Evidence
<1>3. CASE ~e.tried
  BY <1>3 DEF Decide, Modes
<1>4. CASE e.tried /\ e.prefs.override = "local"
  BY <1>2, <1>4 DEF Decide, OnWiFi, Modes
<1>5. CASE e.tried /\ e.prefs.override = "direct"
  BY <1>2, <1>5 DEF Decide, OnWiFi, Modes
<1>6. CASE e.tried /\ e.prefs.override = "relay"
  BY <1>2, <1>6 DEF Decide, Modes
<1>7. CASE e.tried /\ e.prefs.override = "auto"
  <2>1. Decide(e) = Automatic(e)
    BY <1>7 DEF Decide
  <2>2. CASE ~e.net
    BY <1>7, <2>1, <2>2 DEF Automatic, Modes
  <2>3. CASE e.net /\ e.probe = "none"
    BY <1>7, <2>1, <2>3 DEF Automatic, Modes
  <2>4. CASE e.net /\ e.probe = "yes"
    BY <1>2, <1>7, <2>1, <2>4 DEF Automatic, Modes
  <2>5. CASE e.net /\ e.probe = "no"
    BY <1>2, <1>7, <2>1, <2>5 DEF Automatic, Modes
  <2> QED
    BY <1>2, <2>2, <2>3, <2>4, <2>5
<1> QED
  BY <1>1, <1>2, <1>3, <1>4, <1>5, <1>6, <1>7

LEMMA PushWantedIsBoolean ==
  ASSUME NEW e \in Evidence
  PROVE  PushWanted(e) \in BOOLEAN
BY DEF PushWanted

\* What every section that changes the evidence leaves behind.
LEMMA RecomputeDecides ==
  ASSUME TypeOK, NEW e \in Evidence, Recompute(e)
  PROVE  /\ ev' = e /\ ModeIsDecided'
         /\ ev' \in Evidence /\ mode' \in Modes
         /\ push' \in [wanted : BOOLEAN, signaled : BOOLEAN, pending : Decision]
<1>1. push.pending \in Decision /\ {PushWanted(e)} \in Decision
  BY PushWantedIsBoolean DEF TypeOK, Decision
<1>2. ev' = e /\ mode' = Decide(e)
  BY DEF Recompute
<1>3. push' \in [wanted : BOOLEAN, signaled : BOOLEAN, pending : Decision]
  BY <1>1, PushWantedIsBoolean DEF Recompute
<1> QED
  BY <1>2, <1>3, DecideAnswers DEF ModeIsDecided

\* A section leaves the deliveries alone: either nothing changes, or the new
\* decision waits.
LEMMA RecomputeKeepsDeliveries ==
  ASSUME TypeOK, Deliveries, NEW e \in Evidence, Recompute(e),
         UNCHANGED <<sending, contrib, crossed>>
  PROVE  Deliveries'
<1>1. push'.wanted = PushWanted(e)
      /\ push'.pending = IF PushWanted(e) # push.wanted \/ ~push.signaled
                         THEN {PushWanted(e)} ELSE push.pending
  BY DEF Recompute
<1>2. CASE PushWanted(e) # push.wanted \/ ~push.signaled
  BY <1>1, <1>2 DEF Deliveries, PendingIsNewest, OneDelivers, DeliversNewest, DecisionArrives, Delivered
<1>3. CASE PushWanted(e) = push.wanted /\ push.signaled
  BY <1>1, <1>3 DEF Deliveries, PendingIsNewest, OneDelivers, DeliversNewest, DecisionArrives, Delivered
<1> QED
  BY <1>2, <1>3, PushWantedIsBoolean DEF TypeOK

\* Nor does a step that neither decides nor flushes nor delivers a decision.
LEMMA DeliveriesKept ==
  ASSUME Deliveries, contrib'.enabled = contrib.enabled, UNCHANGED <<push, sending, crossed>>
  PROVE  Deliveries'
BY DEF Deliveries, PendingIsNewest, OneDelivers, DeliversNewest, DecisionArrives, Delivered

LEMMA InvStarts == Init => Inv
<1> SUFFICES ASSUME Init PROVE Inv
  OBVIOUS
<1>1. ev \in Evidence /\ disk \in Prefs /\ ~ev.tried /\ ~ev.net /\ ev.probe = "none"
  BY DEF Init, Evidence
<1>2. mode = Decide(ev)
  BY <1>1, DecideAnswers DEF Init
<1>3. TypeOK
  BY <1>1 DEF Init, TypeOK, Decision
<1> QED
  BY <1>1, <1>2, <1>3 DEF Init, Inv, ModeIsDecided, NetIsRegistered, RememberedIsVouched,
     ProofIsVouched, NoDecisionLost, Deliveries, PendingIsNewest, OneDelivers,
     DeliversNewest, DecisionArrives, Delivered, NoReg

-----------------------------------------------------------------------------
(* What every caller does after its section.                               *)

LEMMA FlushKeepsInv == \A t \in Threads : Inv /\ Flush(t) => Inv'
<1> SUFFICES ASSUME NEW t \in Threads, Inv, Flush(t) PROVE Inv'
  OBVIOUS
<1>1. TypeOK'
  BY DEF Inv, TypeOK, Flush, Goto, Decision
<1>2. ModeIsDecided' /\ NetIsRegistered' /\ RememberedIsVouched' /\ ProofIsVouched'
  BY DEF Inv, ModeIsDecided, NetIsRegistered, RememberedIsVouched, ProofIsVouched, Flush
<1>3. NoDecisionLost'
  BY DEF Inv, TypeOK, NoDecisionLost, Flush
<1>4. Deliveries'
  <2>1. CASE push.pending = {}
    <3>1. push' = push /\ sending' = sending
      BY <2>1 DEF Inv, TypeOK, Flush
    <3> QED
      BY <2>1, <3>1, DeliveriesKept DEF Inv, Flush
  <2>2. CASE push.pending # {}
    <3>1. push'.pending = {} /\ push'.wanted = push.wanted /\ push.pending = {push.wanted}
          /\ sending' = [sending EXCEPT ![t] = push.pending]
      BY <2>2 DEF Inv, TypeOK, Deliveries, PendingIsNewest, Flush
    <3>2. sending'[t] = {push.wanted} /\ \A u \in Threads \ {t} : sending'[u] = sending[u]
      BY <3>1 DEF Inv, TypeOK
    <3>3. ~crossed' => \A u \in Threads : sending[u] = {}
      BY <2>2 DEF Flush
    <3> QED
      BY <3>1, <3>2, <3>3 DEF Deliveries, PendingIsNewest, OneDelivers, DeliversNewest,
         DecisionArrives, Delivered
  <2> QED
    BY <2>1, <2>2
<1> QED
  BY <1>1, <1>2, <1>3, <1>4 DEF Inv

\* OnPush is told what the decision says.
LEMMA OneDecision ==
  ASSUME NEW on \in BOOLEAN, NEW decision, decision = {on}
  PROVE  (TRUE \in decision) = on
<1>1. (TRUE \in {TRUE}) = TRUE /\ (TRUE \in {FALSE}) = FALSE
  OBVIOUS
<1>2. CASE on = TRUE
  BY <1>1, <1>2, Zenon
<1>3. CASE on = FALSE
  BY <1>1, <1>3, Zenon
<1> QED
  BY <1>2, <1>3

\* A caller that delivers had taken the decision: it is not the one that a
\* pending decision waits for.
LEMMA DeliverKeepsInv == \A t \in Threads : Inv /\ Deliver(t) => Inv'
<1> SUFFICES ASSUME NEW t \in Threads, Inv, Deliver(t) PROVE Inv'
  OBVIOUS
<1>1. TypeOK'
  <2>1. contrib' \in [enabled : BOOLEAN, target : Targets \union {"none"}]
    <3> DEFINE on == TRUE \in sending[t]
    <3>1. on \in BOOLEAN
      OBVIOUS
    <3>2. contrib' = [contrib EXCEPT !.enabled = on]
      BY DEF Deliver
    <3> HIDE DEF on
    <3> QED
      BY <3>1, <3>2 DEF Inv, TypeOK
  <2>2. sending' \in [Threads -> Decision] /\ pc' \in [Threads -> Steps]
        /\ \A u \in Threads : pc'[u] = "deliver" <=> sending'[u] # {}
    BY DEF Inv, TypeOK, Deliver, Goto, Decision, Steps
  <2> QED
    BY <2>1, <2>2 DEF Inv, TypeOK, Deliver, Steps
<1>2. ModeIsDecided' /\ NetIsRegistered' /\ RememberedIsVouched' /\ ProofIsVouched'
  BY DEF Inv, ModeIsDecided, NetIsRegistered, RememberedIsVouched, ProofIsVouched, Deliver
<1>3. NoDecisionLost'
  BY DEF Inv, TypeOK, NoDecisionLost, Deliver, Goto
<1>4. Deliveries'
  <2>1. contrib'.enabled = (TRUE \in sending[t]) /\ push' = push /\ crossed' = crossed
    BY DEF Inv, TypeOK, Deliver
  <2>2. sending'[t] = {} /\ \A u \in Threads \ {t} : sending'[u] = sending[u]
    BY DEF Inv, TypeOK, Deliver
  <2>3. sending[t] \in {{TRUE}, {FALSE}} /\ push.wanted \in BOOLEAN
    BY DEF Inv, TypeOK, Deliver, Decision
  <2>4. PendingIsNewest' /\ OneDelivers' /\ DeliversNewest'
    BY <2>1, <2>2 DEF Inv, Deliveries, PendingIsNewest, OneDelivers, DeliversNewest
  <2>5. DecisionArrives'
    <3> SUFFICES ASSUME push.pending = {}, ~crossed PROVE contrib'.enabled = push.wanted
      BY <2>1 DEF DecisionArrives, Delivered
    <3>1. sending[t] = {push.wanted}
      BY <2>3 DEF Inv, Deliveries, DeliversNewest
    <3>2. (TRUE \in sending[t]) = push.wanted
      BY <2>3, <3>1, OneDecision
    <3> QED
      BY <2>1, <3>2, Zenon
  <2> QED
    BY <2>4, <2>5 DEF Deliveries
<1> QED
  BY <1>1, <1>2, <1>3, <1>4 DEF Inv

LEMMA LoadKeepsInv == \A t \in Threads : Inv /\ Load(t) => Inv'
<1> SUFFICES ASSUME NEW t \in Threads, Inv, Load(t) PROVE Inv'
  OBVIOUS
<1>1. saving' \in [Threads -> Prefs]
  <2>1. disk \in Prefs /\ saving[t] \in Prefs
    BY DEF Inv, TypeOK
  <2>2. /\ [saving[t] EXCEPT !.reach = disk.reach] \in Prefs
        /\ [saving[t] EXCEPT !.override = disk.override] \in Prefs
    BY <2>1 DEF Prefs
  <2> QED
    BY <2>2 DEF Inv, TypeOK, Load
<1>2. TypeOK'
  BY <1>1 DEF Inv, TypeOK, Load, Goto
<1>3. ModeIsDecided' /\ NetIsRegistered' /\ RememberedIsVouched' /\ ProofIsVouched'
  BY DEF Inv, ModeIsDecided, NetIsRegistered, RememberedIsVouched, ProofIsVouched, Load
<1>4. NoDecisionLost'
  BY DEF Inv, TypeOK, NoDecisionLost, Load, Goto
<1>5. Deliveries'
  BY DeliveriesKept DEF Inv, Load
<1> QED
  BY <1>2, <1>3, <1>4, <1>5 DEF Inv

LEMMA SaveKeepsInv == \A t \in Threads : Inv /\ Save(t) => Inv'
<1> SUFFICES ASSUME NEW t \in Threads, Inv, Save(t) PROVE Inv'
  OBVIOUS
<1>1. TypeOK'
  BY DEF Inv, TypeOK, Save, Goto
<1>2. ModeIsDecided' /\ NetIsRegistered' /\ RememberedIsVouched' /\ ProofIsVouched'
  BY DEF Inv, ModeIsDecided, NetIsRegistered, RememberedIsVouched, ProofIsVouched, Save
<1>3. NoDecisionLost'
  BY DEF Inv, TypeOK, NoDecisionLost, Save, Goto
<1>4. Deliveries'
  BY DeliveriesKept DEF Inv, Save
<1> QED
  BY <1>1, <1>2, <1>3, <1>4 DEF Inv

-----------------------------------------------------------------------------
(* A section that changes the evidence, but neither registers nor learns   *)
(* of a path: it goes on to a step from which the decision is flushed.     *)

LEMMA SectionKeepsInv ==
  ASSUME Inv, NEW t \in Threads, NEW e \in Evidence, NEW s \in OnItsWay \ {"target"},
         Recompute(e), e.probe \in {ev.probe, "none"}, e.net => ev.net,
         pc[t] = "idle", Goto(t, s), saving' \in [Threads -> Prefs],
         stage' \in {stage, "none"},
         UNCHANGED <<reg, verdicts, disk, sending, report, contrib, vouched, crossed>>
  PROVE  Inv'
<1>1. ev' = e /\ ModeIsDecided' /\ ev' \in Evidence /\ mode' \in Modes
      /\ push' \in [wanted : BOOLEAN, signaled : BOOLEAN, pending : Decision]
  BY RecomputeDecides DEF Inv
<1>2. pc' \in [Threads -> Steps] /\ pc'[t] = s /\ \A u \in Threads \ {t} : pc'[u] = pc[u]
  BY DEF Inv, TypeOK, Goto, OnItsWay, Steps
<1>3. TypeOK'
  <2>1. \A u \in Threads : pc'[u] = "deliver" <=> sending'[u] # {}
    BY <1>2 DEF Inv, TypeOK, OnItsWay
  <2> QED
    BY <1>1, <1>2, <2>1 DEF Inv, TypeOK, Modes, Steps
<1>4. NetIsRegistered' /\ RememberedIsVouched' /\ ProofIsVouched'
  BY <1>1 DEF Inv, NetIsRegistered, RememberedIsVouched, ProofIsVouched
<1>5. NoDecisionLost'
  BY <1>2 DEF NoDecisionLost, OnItsWay
<1>6. Deliveries'
  BY RecomputeKeepsDeliveries DEF Inv
<1> QED
  BY <1>1, <1>3, <1>4, <1>5, <1>6 DEF Inv

LEMMA SetOverrideKeepsInv == \A t \in Workers, v \in Overrides : Inv /\ SetOverride(t, v) => Inv'
<1> SUFFICES ASSUME NEW t \in Workers, NEW v \in Overrides, Inv, SetOverride(t, v) PROVE Inv'
  OBVIOUS
<1> DEFINE e == [ev EXCEPT !.prefs.override = v]
<1>1. e \in Evidence /\ e.probe = ev.probe /\ e.net = ev.net
  BY DEF Inv, TypeOK, Evidence, Prefs
<1>2. saving' \in [Threads -> Prefs]
  BY DEF Inv, TypeOK, SetOverride, Prefs
<1>3. t \in Threads /\ "load-reach" \in OnItsWay \ {"target"}
  BY DEF Threads, OnItsWay
<1>4. Recompute(e) /\ Goto(t, "load-reach") /\ pc[t] = "idle"
      /\ UNCHANGED <<reg, verdicts, disk, sending, stage, report, contrib, vouched, crossed>>
  BY DEF SetOverride
<1> HIDE DEF e
<1> QED
  BY <1>1, <1>2, <1>3, <1>4, SectionKeepsInv DEF Inv, TypeOK

LEMMA SetReachKeepsInv == \A t \in Workers, v \in Reaches : Inv /\ SetReach(t, v) => Inv'
<1> SUFFICES ASSUME NEW t \in Workers, NEW v \in Reaches, Inv, SetReach(t, v) PROVE Inv'
  OBVIOUS
<1> DEFINE e == [ev EXCEPT !.prefs.reach = v]
<1>1. e \in Evidence /\ e.probe = ev.probe /\ e.net = ev.net
  BY DEF Inv, TypeOK, Evidence, Prefs
<1>2. saving' \in [Threads -> Prefs]
  BY DEF Inv, TypeOK, SetReach, Prefs
<1>3. t \in Threads /\ "load-override" \in OnItsWay \ {"target"}
  BY DEF Threads, OnItsWay
<1>4. Recompute(e) /\ Goto(t, "load-override") /\ pc[t] = "idle"
      /\ UNCHANGED <<reg, verdicts, disk, sending, stage, report, contrib, vouched, crossed>>
  BY DEF SetReach
<1> HIDE DEF e
<1> QED
  BY <1>1, <1>2, <1>3, <1>4, SectionKeepsInv DEF Inv, TypeOK

LEMMA LinkKeepsInv == \A t \in Workers : Inv /\ (SetDirectURL(t) \/ SetResolverOK(t)) => Inv'
<1> SUFFICES ASSUME NEW t \in Workers, Inv, SetDirectURL(t) \/ SetResolverOK(t) PROVE Inv'
  OBVIOUS
<1>1. PICK e \in {[ev EXCEPT !.link = ~@], [ev EXCEPT !.resolver = ~@]} :
        Recompute(e) /\ Goto(t, "flush") /\ pc[t] = "idle"
        /\ UNCHANGED <<reg, verdicts, disk, saving, sending, stage, report, contrib, vouched, crossed>>
  BY DEF SetDirectURL, SetResolverOK
<1>2. e \in Evidence /\ e.probe = ev.probe /\ e.net = ev.net
  BY DEF Inv, TypeOK, Evidence
<1>3. t \in Threads /\ "flush" \in OnItsWay \ {"target"}
  BY DEF Threads, OnItsWay
<1> QED
  BY <1>1, <1>2, <1>3, SectionKeepsInv DEF Inv, TypeOK

-----------------------------------------------------------------------------
(* The registration loop.                                                  *)

LEMMA NetworkTransitionKeepsInv == Inv /\ NetworkTransition => Inv'
<1> SUFFICES ASSUME Inv, NetworkTransition PROVE Inv'
  OBVIOUS
<1> DEFINE e == [ev EXCEPT !.probe = "none"]
<1>1. e \in Evidence /\ e.probe = "none" /\ e.net = ev.net
  BY DEF Inv, TypeOK, Evidence
<1>2. Loop \in Threads /\ "flush" \in OnItsWay \ {"target"}
  BY DEF Threads, OnItsWay
<1>3. Recompute(e) /\ Goto(Loop, "flush") /\ pc[Loop] = "idle"
      /\ UNCHANGED <<reg, verdicts, disk, saving, sending, stage, report, contrib, vouched, crossed>>
  BY DEF NetworkTransition
<1> HIDE DEF e
<1> QED
  BY <1>1, <1>2, <1>3, SectionKeepsInv DEF Inv, TypeOK

LEMMA RegistrationFailsKeepsInv == Inv /\ RegistrationFails => Inv'
<1> SUFFICES ASSUME Inv, RegistrationFails PROVE Inv'
  OBVIOUS
<1> DEFINE e == [ev EXCEPT !.streak = IF ev.tried \/ @ = 1 THEN 0 ELSE 1, !.net = FALSE,
                           !.tried = @ \/ ev.streak = 1]
<1>1. e \in Evidence /\ e.probe = ev.probe /\ ~e.net
  <2> DEFINE settled == ev.tried \/ ev.streak = 1
             failures == IF ev.tried \/ ev.streak = 1 THEN 0 ELSE 1
  <2>1. settled \in BOOLEAN /\ failures \in 0..1
    OBVIOUS
  <2>2. ev \in Evidence /\ e = [ev EXCEPT !.streak = failures, !.net = FALSE, !.tried = settled]
    BY DEF Inv, TypeOK
  <2> HIDE DEF settled, failures, e
  <2> QED
    BY <2>1, <2>2 DEF Evidence
<1>2. Loop \in Threads /\ "flush" \in OnItsWay \ {"target"}
  BY DEF Threads, OnItsWay
<1>3. Recompute(e) /\ Goto(Loop, "flush") /\ pc[Loop] = "idle"
      /\ UNCHANGED <<reg, verdicts, disk, saving, sending, stage, report, contrib, vouched, crossed>>
  BY DEF RegistrationFails
<1> HIDE DEF e
<1> QED
  BY <1>1, <1>2, <1>3, SectionKeepsInv DEF Inv, TypeOK

LEMMA OriginProbeKeepsInv == \A down \in BOOLEAN : Inv /\ OriginProbe(down) => Inv'
<1> SUFFICES ASSUME NEW down \in BOOLEAN, Inv, OriginProbe(down) PROVE Inv'
  OBVIOUS
<1>1. CASE ev.down = down
  <2>1. UNCHANGED <<ev, mode, push, pc, reg, verdicts, disk, saving, sending, report, contrib, vouched, crossed>>
        /\ stage' = "none"
    BY <1>1 DEF OriginProbe
  <2>2. TypeOK'
    BY <2>1 DEF Inv, TypeOK
  <2> QED
    BY <2>1, <2>2, DeliveriesKept DEF Inv, ModeIsDecided, NetIsRegistered, RememberedIsVouched,
       ProofIsVouched, NoDecisionLost
<1>2. CASE ev.down # down
  <2> DEFINE e == [ev EXCEPT !.down = down]
  <2>1. e \in Evidence /\ e.probe = ev.probe /\ e.net = ev.net
    BY DEF Inv, TypeOK, Evidence
  <2>2. Loop \in Threads /\ "flush" \in OnItsWay \ {"target"}
    BY DEF Threads, OnItsWay
  <2>3. Recompute(e) /\ Goto(Loop, "flush") /\ pc[Loop] = "idle" /\ stage' = "none"
        /\ UNCHANGED <<reg, verdicts, disk, saving, sending, report, contrib, vouched, crossed>>
    BY <1>2 DEF OriginProbe
  <2> HIDE DEF e
  <2> QED
    BY <2>1, <2>2, <2>3, SectionKeepsInv DEF Inv, TypeOK
<1> QED
  BY <1>1, <1>2

\* A path is taken to be proven on a new network only if that is remembered
\* of it, and on the same one only if it already was.
LEMMA RegisterKeepsInv ==
  \A n \in Networks, o \in Targets, r \in {"none", "yes", "no"} : Inv /\ Register(n, o, r) => Inv'
<1> SUFFICES ASSUME NEW n \in Networks, NEW o \in Targets, NEW r \in {"none", "yes", "no"},
                    Inv, Register(n, o, r)
             PROVE  Inv'
  OBVIOUS
<1> DEFINE moved == reg.network # n
<1>1. PICK known \in {{}, {n}} :
        /\ known \subseteq verdicts
        /\ verdicts' = IF moved THEN (verdicts \ {n}) \union known ELSE verdicts
        /\ Recompute([ev EXCEPT !.tried = TRUE, !.streak = 0, !.net = TRUE,
                                !.probe = IF ~moved THEN @
                                          ELSE IF known = {n} THEN "yes" ELSE "none"])
  BY DEF Register
<1> DEFINE e == [ev EXCEPT !.tried = TRUE, !.streak = 0, !.net = TRUE,
                           !.probe = IF ~moved THEN @
                                     ELSE IF known = {n} THEN "yes" ELSE "none"]
<1>2. e \in Evidence /\ e.probe = IF ~moved THEN ev.probe ELSE IF known = {n} THEN "yes" ELSE "none"
  <2> DEFINE path == IF ~moved THEN ev.probe ELSE IF known = {n} THEN "yes" ELSE "none"
  <2>1. ev \in Evidence /\ path \in {"none", "yes", "no"}
    BY DEF Inv, TypeOK, Evidence
  <2>2. e = [ev EXCEPT !.tried = TRUE, !.streak = 0, !.net = TRUE, !.probe = path]
    OBVIOUS
  <2> HIDE DEF path, e
  <2>3. e = [tried |-> TRUE, streak |-> 0, net |-> TRUE, resolver |-> ev.resolver, link |-> ev.link,
             probe |-> path, down |-> ev.down, prefs |-> ev.prefs]
    BY <2>1, <2>2 DEF Evidence
  <2>4. 0 \in 0..1
    OBVIOUS
  <2>5. e \in Evidence
    BY <2>1, <2>3, <2>4, Zenon DEF Evidence
  <2> QED
    BY <2>3, <2>5 DEF path
<1>3. Recompute(e)
  BY <1>1
<1> HIDE DEF e
<1>4. ev' = e /\ ModeIsDecided' /\ ev' \in Evidence /\ mode' \in Modes
      /\ push' \in [wanted : BOOLEAN, signaled : BOOLEAN, pending : Decision]
  BY <1>2, <1>3, RecomputeDecides DEF Inv
<1>5. /\ pc[Loop] = "idle" /\ reg' = [network |-> n, target |-> o] /\ stage' = "registered" /\ report' = r
      /\ Goto(Loop, IF reg.target # o THEN "target" ELSE "flush")
      /\ UNCHANGED <<disk, saving, sending, contrib, vouched, crossed>>
  BY DEF Register
<1>6. /\ pc' \in [Threads -> Steps]
      /\ pc'[Loop] = IF reg.target # o THEN "target" ELSE "flush"
      /\ \A u \in Threads \ {Loop} : pc'[u] = pc[u]
  BY <1>5 DEF Inv, TypeOK, Goto, Steps, Threads
<1>7. reg'.network = n /\ reg'.target = o /\ reg' \in [network : Networks, target : Targets]
  BY <1>5
<1>8. TypeOK'
  <2>1. \A u \in Threads : pc'[u] = "deliver" <=> sending'[u] # {}
    BY <1>5, <1>6 DEF Inv, TypeOK
  <2>2. verdicts' \in SUBSET Networks
    BY <1>1 DEF Inv, TypeOK
  <2> QED
    BY <1>4, <1>5, <1>6, <1>7, <2>1, <2>2 DEF Inv, TypeOK, Modes, Steps
<1>9. NetIsRegistered'
  BY <1>7, NoRoomIsNoTarget DEF NetIsRegistered, NoReg
<1>10. RememberedIsVouched'
  BY <1>1, <1>5 DEF Inv, RememberedIsVouched
<1>11. ProofIsVouched'
  BY <1>1, <1>2, <1>4, <1>5, <1>7 DEF Inv, ProofIsVouched, RememberedIsVouched
<1>12. NoDecisionLost'
  BY <1>6 DEF NoDecisionLost, Threads
<1>13. Deliveries'
  BY <1>2, <1>3, <1>5, RecomputeKeepsDeliveries DEF Inv
<1> QED
  BY <1>4, <1>8, <1>9, <1>10, <1>11, <1>12, <1>13 DEF Inv

LEMMA DeliverTargetKeepsInv == Inv /\ DeliverTarget => Inv'
<1> SUFFICES ASSUME Inv, DeliverTarget PROVE Inv'
  OBVIOUS
<1>1. /\ pc' \in [Threads -> Steps] /\ pc'[Loop] = "flush"
      /\ \A u \in Threads \ {Loop} : pc'[u] = pc[u]
  BY DEF Inv, TypeOK, DeliverTarget, Goto, Steps, Threads
<1>2. contrib' \in [enabled : BOOLEAN, target : Targets \union {"none"}] /\ contrib'.target = reg.target
  BY DEF Inv, TypeOK, DeliverTarget, NoReg
<1>3. TypeOK'
  BY <1>1, <1>2 DEF Inv, TypeOK, DeliverTarget, Steps
<1>4. ModeIsDecided' /\ NetIsRegistered' /\ RememberedIsVouched' /\ ProofIsVouched'
  BY DEF Inv, ModeIsDecided, NetIsRegistered, RememberedIsVouched, ProofIsVouched, DeliverTarget
<1>5. NoDecisionLost'
  BY <1>1 DEF NoDecisionLost, Threads
<1>6. Deliveries'
  <2>1. contrib'.enabled = contrib.enabled
    BY DEF Inv, TypeOK, DeliverTarget
  <2> QED
    BY <2>1, DeliveriesKept DEF Inv, DeliverTarget
<1> QED
  BY <1>3, <1>4, <1>5, <1>6 DEF Inv

\* A verdict is remembered only in a direct mode, and the report that makes the
\* mode direct vouches for it, or the DJ's insistence does.
LEMMA ApplyProbeKeepsInv == Inv /\ ApplyProbe => Inv'
<1> SUFFICES ASSUME Inv, ApplyProbe PROVE Inv'
  OBVIOUS
<1> DEFINE ignored == report = "no" /\ mode = "direct" /\ ev.probe = "yes"
<1>1. CASE report = "none" \/ ignored
  <2>1. UNCHANGED <<ev, mode, push, verdicts, pc, vouched, reg, disk, saving, sending, contrib, crossed>>
        /\ stage' = "reported" /\ report' = "none"
    BY <1>1 DEF ApplyProbe
  <2>2. TypeOK'
    BY <2>1 DEF Inv, TypeOK
  <2> QED
    BY <2>1, <2>2, DeliveriesKept DEF Inv, ModeIsDecided, NetIsRegistered, RememberedIsVouched,
       ProofIsVouched, NoDecisionLost
<1>2. CASE report # "none" /\ ~ignored
  <2> DEFINE e == [ev EXCEPT !.probe = report]
  <2>1. e \in Evidence /\ e.probe = report /\ e.net = ev.net /\ e.prefs = ev.prefs
    BY DEF Inv, TypeOK, Evidence
  <2>2. /\ pc[Loop] = "idle" /\ stage' = "reported" /\ report' = "none"
        /\ Recompute(e) /\ Goto(Loop, "flush")
        /\ verdicts' = IF mode' = "direct" THEN verdicts \union {reg.network}
                       ELSE verdicts \ {reg.network}
        /\ vouched' = IF report = "yes" \/ ev.prefs.override = "direct"
                      THEN vouched \union {reg.network} ELSE vouched
        /\ UNCHANGED <<reg, disk, saving, sending, contrib, crossed>>
    BY <1>2 DEF ApplyProbe
  <2> HIDE DEF e
  <2>3. ev' = e /\ ModeIsDecided' /\ ev' \in Evidence /\ mode' \in Modes
        /\ push' \in [wanted : BOOLEAN, signaled : BOOLEAN, pending : Decision]
    BY <2>1, <2>2, RecomputeDecides DEF Inv
  <2>4. /\ pc' \in [Threads -> Steps] /\ pc'[Loop] = "flush"
        /\ \A u \in Threads \ {Loop} : pc'[u] = pc[u]
    BY <2>2 DEF Inv, TypeOK, Goto, Steps, Threads
  <2>5. mode' = "direct" => report = "yes" \/ ev.prefs.override = "direct"
    BY <2>1, <2>3, DecideAnswers DEF ModeIsDecided
  <2>6. RememberedIsVouched'
    BY <2>2, <2>5 DEF Inv, RememberedIsVouched
  <2>7. ProofIsVouched'
    BY <2>1, <2>2, <2>3 DEF ProofIsVouched
  <2>8. NetIsRegistered'
    BY <2>1, <2>2, <2>3 DEF Inv, NetIsRegistered
  <2>9. NoDecisionLost' /\ Deliveries'
    BY <2>1, <2>2, <2>4, RecomputeKeepsDeliveries DEF Inv, NoDecisionLost, Threads
  <2>10. reg.network \in Networks
    BY DEF Inv, TypeOK, NetIsRegistered, ApplyProbe
  <2>11. TypeOK'
    <3>1. \A u \in Threads : pc'[u] = "deliver" <=> sending'[u] # {}
      BY <2>2, <2>4 DEF Inv, TypeOK
    <3>2. verdicts' \in SUBSET Networks /\ vouched' \in SUBSET Networks
      BY <2>2, <2>10 DEF Inv, TypeOK
    <3> QED
      BY <2>2, <2>3, <2>4, <3>1, <3>2 DEF Inv, TypeOK, Modes, Steps
  <2> QED
    BY <2>3, <2>6, <2>7, <2>8, <2>9, <2>11 DEF Inv
<1> QED
  BY <1>1, <1>2

-----------------------------------------------------------------------------
(* The theorems.                                                           *)

LEMMA NextKeepsInv == Inv /\ [Next]_vars => Inv'
<1> SUFFICES ASSUME Inv, [Next]_vars PROVE Inv'
  OBVIOUS
<1>1. CASE UNCHANGED vars
  <2>1. TypeOK'
    BY <1>1 DEF Inv, TypeOK, vars
  <2> QED
    BY <1>1, <2>1, DeliveriesKept DEF Inv, ModeIsDecided, NetIsRegistered, RememberedIsVouched,
       ProofIsVouched, NoDecisionLost, vars
<1>2. CASE \E t \in Threads : Flush(t) \/ Deliver(t) \/ Load(t) \/ Save(t)
  BY <1>2, FlushKeepsInv, DeliverKeepsInv, LoadKeepsInv, SaveKeepsInv
<1>3. CASE \E t \in Workers : SetDirectURL(t) \/ SetResolverOK(t)
  BY <1>3, LinkKeepsInv
<1>4. CASE \E t \in Workers, v \in Overrides : SetOverride(t, v)
  BY <1>4, SetOverrideKeepsInv
<1>5. CASE \E t \in Workers, v \in Reaches : SetReach(t, v)
  BY <1>5, SetReachKeepsInv
<1>6. CASE NetworkTransition \/ RegistrationFails \/ DeliverTarget \/ ApplyProbe
  BY <1>6, NetworkTransitionKeepsInv, RegistrationFailsKeepsInv, DeliverTargetKeepsInv,
     ApplyProbeKeepsInv
<1>7. CASE \E n \in Networks, o \in Targets, r \in {"none", "yes", "no"} : Register(n, o, r)
  BY <1>7, RegisterKeepsInv
<1>8. CASE \E down \in BOOLEAN : OriginProbe(down)
  BY <1>8, OriginProbeKeepsInv
<1> QED
  BY <1>1, <1>2, <1>3, <1>4, <1>5, <1>6, <1>7, <1>8 DEF Next

LEMMA InvHolds == Spec => []Inv
BY InvStarts, NextKeepsInv, PTL DEF Spec

\* The values of the manager, its callers and what it drives keep their types.
THEOREM TypeCorrect == Spec => []TypeOK
<1>1. Inv => TypeOK
  BY DEF Inv
<1> QED
  BY <1>1, InvHolds, PTL

\* The room never claims the relay without a registration, internet and an
\* origin that answers, nor a Wi-Fi path without a link to hand out, and the
\* preferences are no way around that (mode.go:105-185).
THEOREM RoomIsServiceable == Spec => []ModeIsServiceable
<1>1. Inv => ModeIsServiceable
  <2> SUFFICES ASSUME Inv PROVE ModeIsServiceable
    OBVIOUS
  <2>1. ev \in Evidence /\ mode = Decide(ev)
    BY DEF Inv, TypeOK, ModeIsDecided
  <2> QED
    BY <2>1, DecideAnswers DEF Inv, NetIsRegistered, ModeIsServiceable
<1> QED
  BY <1>1, InvHolds, PTL

\* The room is direct by itself only if a guest reached the Mac on the network
\* of the registration (relay.go:415-422, 440-454).
THEOREM NoStaleDirect == Spec => []DirectIsVouchedHere
<1>1. Inv => DirectIsVouchedHere
  <2> SUFFICES ASSUME Inv PROVE DirectIsVouchedHere
    OBVIOUS
  <2>1. ev \in Evidence /\ mode = Decide(ev)
    BY DEF Inv, TypeOK, ModeIsDecided
  <2> QED
    BY <2>1, DecideAnswers DEF Inv, ProofIsVouched, DirectIsVouchedHere
<1> QED
  BY <1>1, InvHolds, PTL

\* Nothing is remembered of a network that no guest and no DJ vouched for
\* (relay.go:616-650).
THEOREM MemoryIsVouched == Spec => []RememberedIsVouched
<1>1. Inv => RememberedIsVouched
  BY DEF Inv
<1> QED
  BY <1>1, InvHolds, PTL

\* While a push decision is pending, some caller is on its way to flush it
\* (relay.go:272-276, 284-299).
THEOREM DecisionsAreFlushed == Spec => []NoDecisionLost
<1>1. Inv => NoDecisionLost
  BY DEF Inv
<1> QED
  BY <1>1, InvHolds, PTL

\* When no decision waits or is on its way, the contribution does what was
\* decided last, unless that was taken while another was being delivered
\* (relay.go:284-299).
THEOREM LastDecisionArrives == Spec => []DecisionArrives
<1>1. Inv => DecisionArrives
  BY DEF Inv, Deliveries
<1> QED
  BY <1>1, InvHolds, PTL

-----------------------------------------------------------------------------
(* The clock.                                                              *)

ExchangeSteps == {"idle", "asked", "received", "replied", "sampled"}

Clocks ==
  /\ now \in Nat /\ theta \in Int /\ step \in ExchangeSteps
  /\ start \in Int /\ received \in Int /\ sent \in Int /\ start <= now
  /\ sample.offset \in Int /\ sample.uncertainty \in Int

Timestamps ==
  /\ step \in {"received", "replied"} => start + theta < Quantum * received + Quantum
  /\ step = "replied" => Quantum * sent <= now + theta

Anchors ==
  \A a \in anchor :
    /\ a.source \in Int /\ a.at \in Int /\ a.uncertainty \in Int
    /\ Within(Quantum * a.source - 2 * a.at, 0, a.uncertainty + 2 * Quantum)

ClockInv == Clocks /\ Timestamps /\ OffsetIsHonest /\ Anchors

-----------------------------------------------------------------------------
(* Arithmetic.                                                             *)

\* Rounding down to a whole millisecond loses less than one.
LEMMA Rounding ==
  ASSUME NEW t \in Int
  PROVE  /\ Ms(t) \in Int
         /\ Quantum * Ms(t) <= t /\ t < Quantum * Ms(t) + Quantum
BY ClockBounds DEF Ms

\* With r and s the origin's timestamps and b and e the Mac's, in ticks, the
\* estimate is off by no more than the exchange and the rounding explain.
LEMMA ErrorBound ==
  ASSUME NEW q \in Nat, NEW d \in Int, NEW begin \in Int, NEW end \in Int,
         NEW r \in Int, NEW s \in Int, NEW b \in Int, NEW e \in Int,
         begin + d < r + q, s <= end + d,
         b <= begin, begin < b + q, e <= end, end < e + q
  PROVE  LET rtt == (end - begin) - (s - r)
         IN Within((r - b) + (s - e), 2 * d, Larger(0, rtt) + 2 * q)
BY DEF Within, Larger

LEMMA Distribute ==
  ASSUME NEW a \in Int, NEW b \in Int, NEW c \in Int, NEW d \in Int
  PROVE  /\ Quantum * ((a - b) + (c - d)) = (Quantum * a - Quantum * b) + (Quantum * c - Quantum * d)
         /\ Quantum * (c - a) = Quantum * c - Quantum * a
         /\ Quantum * (2 * a - b) = 2 * (Quantum * a) - Quantum * b
         /\ Quantum * a \in Int
BY ClockBounds

-----------------------------------------------------------------------------
(* The invariant.                                                          *)

LEMMA ClockStarts == ClockInit => ClockInv
BY ClockBounds DEF ClockInit, ClockInv, Clocks, Timestamps, OffsetIsHonest, Anchors, ExchangeSteps, NoSample

LEMMA TickKeepsClock == ClockInv /\ Tick => ClockInv'
BY ClockBounds DEF ClockInv, Tick, exchange, Clocks, Timestamps, OffsetIsHonest, Anchors, ExchangeSteps, Within

LEMMA AskKeepsClock == ClockInv /\ Ask => ClockInv'
BY ClockBounds DEF ClockInv, Ask, Clocks, Timestamps, OffsetIsHonest, Anchors, ExchangeSteps, Within

LEMMA ReceiveKeepsClock == ClockInv /\ Receive => ClockInv'
<1> SUFFICES ASSUME ClockInv, Receive PROVE ClockInv'
  OBVIOUS
<1>1. now + theta \in Int /\ start <= now
  BY DEF ClockInv, Clocks
<1>2. Ms(now + theta) \in Int /\ now + theta < Quantum * Ms(now + theta) + Quantum
  BY <1>1, Rounding
<1>3. received' = Ms(now + theta)
  BY DEF Receive
<1>4. start' + theta' < Quantum * received' + Quantum
  <2>1. Quantum * Ms(now + theta) \in Int
    BY <1>2, ClockBounds
  <2> QED
    BY <1>1, <1>2, <1>3, <2>1, ClockBounds DEF ClockInv, Clocks, Receive
<1>5. Clocks' /\ OffsetIsHonest' /\ Anchors'
  BY <1>2 DEF ClockInv, Receive, Clocks, OffsetIsHonest, Anchors, ExchangeSteps, Within
<1>6. Timestamps'
  BY <1>4 DEF Receive, Timestamps
<1> QED
  BY <1>5, <1>6 DEF ClockInv

LEMMA ReplyKeepsClock == ClockInv /\ Reply => ClockInv'
<1> SUFFICES ASSUME ClockInv, Reply PROVE ClockInv'
  OBVIOUS
<1>1. Ms(now + theta) \in Int /\ Quantum * Ms(now + theta) <= now + theta
  BY Rounding DEF ClockInv, Clocks
<1>2. Clocks' /\ OffsetIsHonest' /\ Anchors'
  BY <1>1 DEF ClockInv, Reply, Clocks, OffsetIsHonest, Anchors, ExchangeSteps, Within
<1>3. Timestamps'
  BY <1>1 DEF ClockInv, Reply, Timestamps
<1> QED
  BY <1>2, <1>3 DEF ClockInv

LEMMA EstimateKeepsClock == ClockInv /\ Estimate => ClockInv'
<1> SUFFICES ASSUME ClockInv, Estimate PROVE ClockInv'
  OBVIOUS
<1> DEFINE r == Quantum * received
           s == Quantum * sent
           b == Quantum * Ms(start)
           e == Quantum * Ms(now)
<1>1. /\ now \in Int /\ theta \in Int /\ start \in Int /\ received \in Int /\ sent \in Int
      /\ Quantum \in Nat
  BY ClockBounds DEF ClockInv, Clocks
<1>2. Ms(start) \in Int /\ b <= start /\ start < b + Quantum
  BY <1>1, Rounding
<1>3. Ms(now) \in Int /\ e <= now /\ now < e + Quantum
  BY <1>1, Rounding
<1>4. r \in Int /\ s \in Int /\ b \in Int /\ e \in Int
  BY <1>1, <1>2, <1>3, Distribute
<1>5. start + theta < r + Quantum /\ s <= now + theta
  BY DEF ClockInv, Timestamps, Estimate
<1>6. Offset \in Int /\ Quantum * Offset = (r - b) + (s - e)
  <2>1. Quantum * ((received - Ms(start)) + (sent - Ms(now))) = (r - b) + (s - e)
    BY <1>1, <1>2, <1>3, Distribute
  <2> QED
    BY <1>1, <1>2, <1>3, <2>1 DEF Offset
<1>7. Rtt = (now - start) - (s - r)
  <2>1. Quantum * (sent - received) = s - r
    BY <1>1, Distribute
  <2> QED
    BY <2>1 DEF Rtt
<1>8. Within((r - b) + (s - e), 2 * theta, Larger(0, Rtt) + 2 * Quantum)
  <2> HIDE DEF r, s, b, e
  <2> QED
    BY <1>1, <1>2, <1>3, <1>4, <1>5, <1>7, ErrorBound
<1>9. /\ sample'.offset = Offset /\ sample'.uncertainty = Larger(0, Rtt) + 2 * Quantum
      /\ step' = "sampled" /\ theta' = theta
  BY DEF Estimate
<1>10. OffsetIsHonest'
  BY <1>6, <1>8, <1>9 DEF OffsetIsHonest
<1>11. Larger(0, Rtt) + 2 * Quantum \in Int
  <2> HIDE DEF r, s, b, e
  <2> QED
    BY <1>1, <1>4, <1>7 DEF Larger
<1>12. Clocks'
  BY <1>1, <1>6, <1>9, <1>11 DEF ClockInv, Clocks, Estimate, ExchangeSteps
<1>13. Timestamps' /\ Anchors'
  BY <1>9 DEF ClockInv, Timestamps, Anchors, Estimate
<1> QED
  BY <1>10, <1>12, <1>13 DEF ClockInv

LEMMA AbandonKeepsClock == ClockInv /\ Abandon => ClockInv'
BY DEF ClockInv, Abandon, Clocks, Timestamps, OffsetIsHonest, Anchors, ExchangeSteps, Within

\* The time of publication cancels: only the offset's error and one rounding stay.
LEMMA PublishKeepsClock == ClockInv /\ Publish => ClockInv'
<1> SUFFICES ASSUME ClockInv, Publish PROVE ClockInv'
  OBVIOUS
<1> DEFINE t == now + theta
           m == Quantum * Ms(t)
           o == Quantum * sample.offset
           source == 2 * Ms(t) - sample.offset
<1>1. /\ now \in Int /\ theta \in Int /\ t \in Int /\ Quantum \in Nat
      /\ sample.offset \in Int /\ sample.uncertainty \in Int
  BY ClockBounds DEF ClockInv, Clocks
<1>2. Ms(t) \in Int /\ m <= t /\ t < m + Quantum
  BY <1>1, Rounding
<1>3. m \in Int /\ o \in Int /\ source \in Int /\ Quantum * source = 2 * m - o
  BY <1>1, <1>2, Distribute
<1>4. o - 2 * theta <= sample.uncertainty /\ 2 * theta - o <= sample.uncertainty
  BY DEF ClockInv, Publish, OffsetIsHonest, Within
<1>5. Within(Quantum * source - 2 * now, 0, sample.uncertainty + 2 * Quantum)
  <2>1. t = now + theta
    OBVIOUS
  <2> HIDE DEF t, m, o, source
  <2> QED
    BY <1>1, <1>2, <1>3, <1>4, <2>1 DEF Within
<1>6. anchor' = {[source |-> source, at |-> now, uncertainty |-> sample.uncertainty]}
  BY DEF Publish
<1>7. Anchors'
  <2> HIDE DEF source
  <2> QED
    BY <1>1, <1>3, <1>5, <1>6 DEF Anchors
<1>8. Clocks' /\ Timestamps' /\ OffsetIsHonest'
  BY DEF ClockInv, Publish, Clocks, Timestamps, OffsetIsHonest, ExchangeSteps
<1> QED
  BY <1>7, <1>8 DEF ClockInv

LEMMA ForgetKeepsClock == ClockInv /\ Forget => ClockInv'
BY DEF ClockInv, Forget, exchange, Clocks, Timestamps, OffsetIsHonest, Anchors, ExchangeSteps, Within

LEMMA ClockStep == ClockInv /\ [ClockNext]_clockVars => ClockInv'
<1> SUFFICES ASSUME ClockInv, [ClockNext]_clockVars PROVE ClockInv'
  OBVIOUS
<1>1. CASE UNCHANGED clockVars
  BY <1>1 DEF ClockInv, clockVars, exchange, Clocks, Timestamps, OffsetIsHonest, Anchors, Within
<1>2. CASE ClockNext
  BY <1>2, TickKeepsClock, AskKeepsClock, ReceiveKeepsClock, ReplyKeepsClock, EstimateKeepsClock,
     AbandonKeepsClock, PublishKeepsClock, ForgetKeepsClock DEF ClockNext
<1> QED
  BY <1>1, <1>2

LEMMA ClockInvAlways == ClockSpec => []ClockInv
BY ClockStarts, ClockStep, PTL DEF ClockSpec

LEMMA ClockInvImpliesSourceTime == ClockInv => SourceTimeIsHonest
<1> SUFFICES ASSUME ClockInv, NEW a \in anchor
             PROVE  Within(SourceTime(a), 2 * now, a.uncertainty + 2 * Quantum)
  BY DEF SourceTimeIsHonest
<1>1. /\ a.source \in Int /\ a.at \in Int /\ a.uncertainty \in Int /\ now \in Int
      /\ Within(Quantum * a.source - 2 * a.at, 0, a.uncertainty + 2 * Quantum)
  BY DEF ClockInv, Anchors, Clocks
<1>2. Quantum * a.source \in Int
  BY <1>1, ClockBounds
<1> QED
  BY <1>1, <1>2, ClockBounds DEF SourceTime, Within

\* The exchange and its uncertainty keep to their values: what Estimate takes is
\* no longer than MaxRtt, and no uncertainty is below the rounding.
LEMMA ClockTypesStep == ClockInv /\ ClockTypeOK /\ [ClockNext]_clockVars => ClockTypeOK'
<1> SUFFICES ASSUME ClockInv, ClockTypeOK, [ClockNext]_clockVars PROVE ClockTypeOK'
  OBVIOUS
<1>1. /\ now \in Nat /\ now <= MaxNow /\ start \in Nat /\ start <= now /\ theta \in Int
      /\ received \in Int /\ sent \in Int /\ Quantum \in Nat \ {0} /\ MaxRtt \in Nat /\ MaxNow \in Nat
  BY ClockBounds DEF ClockInv, Clocks, ClockTypeOK
<1>2. \A t \in Int : Ms(t) \in Int
  BY Rounding
<1>3. CASE Tick
  BY <1>1, <1>3 DEF Tick, exchange, ClockTypeOK
<1>4. CASE Ask
  BY <1>1, <1>4 DEF Ask, ClockTypeOK
<1>5. CASE Receive
  BY <1>1, <1>2, <1>5 DEF Receive, ClockTypeOK
<1>6. CASE Reply
  BY <1>1, <1>2, <1>6 DEF Reply, ClockTypeOK
<1>7. CASE Estimate
  <2>1. Quantum * (sent - received) \in Int
    BY <1>1
  <2>2. Rtt \in Int /\ Rtt <= MaxRtt
    BY <1>1, <1>7, <2>1 DEF Rtt, Estimate
  <2>3. Larger(0, Rtt) \in 0..MaxRtt
    BY <1>1, <2>2 DEF Larger
  <2>4. sample'.uncertainty = Larger(0, Rtt) + 2 * Quantum
    BY <1>7 DEF Estimate
  <2>5. sample'.uncertainty \in (2 * Quantum)..(2 * Quantum + MaxRtt)
    <3> HIDE DEF Rtt
    <3> QED
      BY <1>1, <2>3, <2>4
  <2> QED
    BY <1>1, <1>7, <2>5 DEF Estimate, ClockTypeOK
<1>8. CASE Abandon
  BY <1>1, <1>8 DEF Abandon, ClockTypeOK
<1>9. CASE Publish
  BY <1>1, <1>9 DEF Publish, ClockTypeOK
<1>10. CASE Forget \/ UNCHANGED clockVars
  BY <1>1, <1>10 DEF Forget, clockVars, exchange, ClockTypeOK
<1> QED
  BY <1>3, <1>4, <1>5, <1>6, <1>7, <1>8, <1>9, <1>10 DEF ClockNext

(***************************************************************************)
(* The clocks, the exchange and its timestamps keep their types, and the   *)
(* uncertainty stated is at least the rounding and at most that of the     *)
(* longest exchange taken (contribute/clock.go:45-58).                     *)
(***************************************************************************)
THEOREM ClockTypeCorrect == ClockSpec => []ClockTypeOK
<1>1. ClockInit => ClockTypeOK
  BY ClockBounds DEF ClockInit, ClockTypeOK
<1> QED
  BY <1>1, ClockInvAlways, ClockTypesStep, PTL DEF ClockSpec

(***************************************************************************)
(* The offset the Mac publishes is within its stated uncertainty of the    *)
(* real difference of the clocks (contribute/clock.go:45-58).              *)
(***************************************************************************)
THEOREM OffsetBounded == ClockSpec => []OffsetIsHonest
<1>1. ClockInv => OffsetIsHonest
  BY DEF ClockInv
<1> QED
  BY ClockInvAlways, <1>1, PTL

(***************************************************************************)
(* The time a guest is told is within the uncertainty it is told, and one  *)
(* millisecond of rounding, of the Mac's (roomplane/clock.go:26-64).       *)
(***************************************************************************)
THEOREM SourceTimeBounded == ClockSpec => []SourceTimeIsHonest
BY ClockInvAlways, ClockInvImpliesSourceTime, PTL
=============================================================================

----------------------------- MODULE Activation -----------------------------
(***************************************************************************)
(* How a Mac comes to answer under a name (internal/activate/activate.go   *)
(* and the activation supervisor of main.go).  The broker knows installs   *)
(* by an id; install.json holds this Mac's, and any number of loops use    *)
(* it: the activation loop, which ends in the host and the certificate the *)
(* server shows, and the relay loop, which ends in the credentials of the  *)
(* relay room.  Either may find that the broker has forgotten the install, *)
(* replaces it, and must not let the other publish what the old one was    *)
(* told.                                                                   *)
(*                                                                         *)
(* An identity is its id and the base its name is under: together they are *)
(* the host name and the generation that results are checked against.  The *)
(* certificate on disk is the register of CertificateRegister, known by    *)
(* the base it is valid under.                                             *)
(***************************************************************************)
EXTENDS Integers

CONSTANTS
  Loop,       \* activation loops
  Relay,      \* relay registration loops
  Bases,      \* bound: bases the broker hands out in turn, 1..Bases
  MaxForgets, \* bound: installs the broker forgets
  MaxFaults,  \* bound: requests that fail
  MaxRenewals \* bound: times the certificate comes due

Free == "free"
Caller == Loop \cup Relay

ASSUME RolesDiffer == Loop \cap Relay = {} /\ Free \notin Caller
ASSUME BasesAreNumbered == Bases \in Nat \ {0}

VARIABLES
  record,    \* install.json
  lock,      \* who holds .install.lock across a registration
  known,     \* the ids the broker knows
  base,      \* the base the broker names hosts under
  minted,    \* the ids it has given out
  pc,        \* where each caller is
  client,    \* the identity it uses
  result,    \* what its attempt has come to
  pair,      \* the base the certificate on disk is valid under, 0 for none
  due,       \* that certificate is in its renewal window
  shown,     \* the host the server answers under
  creds,     \* the install whose credentials the relay uses
  happened   \* how often each thing outside happened

broker == <<known, base, minted>>
disk == <<pair, due>>
server == <<shown, creds>>
vars == <<record, lock, broker, pc, client, result, disk, server, happened>>

Identity(i, b) == [id |-> i, base |-> b]
Nobody == Identity(0, 0)
NoPair == 0

\* The host of a result is the identity it names; its owner, Nobody when the
\* result carries no install snapshot.
Result(h, o, p) == [host |-> h, owner |-> o, pair |-> p]
NoResult == Result(Nobody, Nobody, NoPair)

Init ==
  /\ record = Nobody /\ lock = Free
  /\ known = {} /\ base = 1 /\ minted = 0
  /\ pc = [c \in Caller |-> IF c \in Loop THEN "fallback" ELSE "idle"]
  /\ client = [c \in Caller |-> Nobody]
  /\ result = [c \in Caller |-> NoResult]
  /\ pair = NoPair /\ due = FALSE
  /\ shown = Nobody /\ creds = 0
  /\ happened = [e \in {"forget", "fault", "renewal"} |-> 0]

Count(e, bound) == happened[e] < bound /\ happened' = [happened EXCEPT ![e] = @ + 1]
Fault == Count("fault", MaxFaults)

Goto(c, place) == pc' = [pc EXCEPT ![c] = place]
Use(c, identity, place) == client' = [client EXCEPT ![c] = identity] /\ Goto(c, place)

\* An attempt ended without an install snapshot: the activation loop falls back
\* on its cache, the relay loop waits.
GiveUp(c) ==
  /\ Goto(c, IF c \in Loop THEN "fallback" ELSE "idle")
  /\ result' = [result EXCEPT ![c] = NoResult]

\* It cannot tell that its install is still the one in install.json: it keeps
\* nothing it was told, only whose it was.
Unsure(c) ==
  IF c \in Relay THEN GiveUp(c)
  ELSE /\ Goto(c, "fallback")
       /\ result' = [result EXCEPT ![c] = Result(Nobody, client[c], NoPair)]

-----------------------------------------------------------------------------
(* The identity.                                                           *)

Begin_FromMemory(c) ==
  /\ pc[c] = "idle" /\ lock = Free
  /\ result' = [result EXCEPT ![c] = NoResult]
  /\ CASE client[c] # Nobody -> Use(c, client[c], "post") /\ UNCHANGED lock
       [] client[c] = Nobody /\ record # Nobody -> Use(c, record, "post") /\ UNCHANGED lock
       [] OTHER -> Goto(c, "register") /\ lock' = c /\ UNCHANGED client
  /\ UNCHANGED <<record, broker, disk, server, happened>>

Begin(c) ==                                 \* loadOrRegisterInstall
  /\ pc[c] = "idle" /\ lock = Free
  /\ result' = [result EXCEPT ![c] = NoResult]
  /\ IF record # Nobody
       THEN Use(c, record, "post") /\ UNCHANGED lock
       ELSE Goto(c, "register") /\ lock' = c /\ UNCHANGED client
  /\ UNCHANGED <<record, broker, disk, server, happened>>

Recover_Always(c) ==
  /\ pc[c] = "refused" /\ lock = Free
  /\ lock' = c /\ Goto(c, "reregister")
  /\ UNCHANGED <<record, broker, client, result, disk, server, happened>>

\* Whoever was refused uses the identity another caller has replaced it with,
\* and registers only if there is none (recoverUnknownInstall).
Recover(c) ==
  /\ pc[c] = "refused" /\ lock = Free
  /\ IF record # Nobody /\ record.id # client[c].id
       THEN Use(c, record, "repost") /\ UNCHANGED lock
       ELSE Goto(c, "reregister") /\ lock' = c /\ UNCHANGED client
  /\ UNCHANGED <<record, broker, result, disk, server, happened>>

\* registerInstallLocked: the lock is held across the request.
Register(c) ==
  /\ pc[c] \in {"register", "reregister"}
  /\ minted' = minted + 1 /\ known' = known \cup {minted + 1}
  /\ record' = Identity(minted + 1, base)
  /\ Use(c, record', IF pc[c] = "register" THEN "post" ELSE "repost")
  /\ lock' = Free
  /\ UNCHANGED <<base, result, disk, server, happened>>

\* The request does not arrive, or its answer does not.
RegisterFails(c) ==
  /\ pc[c] \in {"register", "reregister"} /\ Fault
  /\ \/ UNCHANGED <<minted, known>>
     \/ minted' = minted + 1 /\ known' = known \cup {minted + 1}
  /\ GiveUp(c) /\ lock' = Free
  /\ UNCHANGED <<record, base, client, disk, server>>

\* The broker answers the address update or the relay registration. It refuses
\* an install it does not know, the second time for good.
Post(c) ==
  /\ pc[c] \in {"post", "repost"}
  /\ IF client[c].id \in known
       THEN /\ Goto(c, IF c \in Loop THEN "remember" ELSE "finish")
            /\ result' = [result EXCEPT ![c] = Result(Identity(client[c].id, base), client[c], NoPair)]
       ELSE IF pc[c] = "post" THEN Goto(c, "refused") /\ UNCHANGED result
       ELSE IF c \in Relay THEN GiveUp(c)
       ELSE /\ Goto(c, "remember")
            /\ result' = [result EXCEPT ![c] = Result(client[c], client[c], NoPair)]
  /\ UNCHANGED <<record, lock, broker, client, disk, server, happened>>

\* No answer: the activation loop goes on under the name it has.
PostFails(c) ==
  /\ pc[c] \in {"post", "repost"} /\ Fault
  /\ IF c \in Relay THEN GiveUp(c)
     ELSE /\ Goto(c, "remember")
          /\ result' = [result EXCEPT ![c] = Result(client[c], client[c], NoPair)]
  /\ UNCHANGED <<record, lock, broker, client, disk, server>>

Remember_Unchecked(c) ==
  /\ pc[c] = "remember" /\ lock = Free
  /\ record' = result[c].host /\ Use(c, record', "certificate")
  /\ result' = [result EXCEPT ![c].owner = record']
  /\ UNCHANGED <<lock, broker, disk, server, happened>>

\* rememberHost: the base of the host named becomes that of the record, unless
\* the record is no longer the one this attempt uses.
Remember(c) ==
  /\ pc[c] = "remember" /\ lock = Free
  /\ IF record = client[c]
       THEN /\ record' = result[c].host /\ Use(c, record', "certificate")
            /\ result' = [result EXCEPT ![c].owner = record']
       ELSE /\ Goto(c, "finish")
            /\ result' = [result EXCEPT ![c] = Result(Nobody, client[c], NoPair)]
            /\ UNCHANGED <<record, client>>
  /\ UNCHANGED <<lock, broker, disk, server, happened>>

\* The wait for the lock ends with the attempt's context. A host that could not
\* be remembered is used all the same.
LockTimesOut(c) ==
  /\ lock \notin {Free, c} /\ Fault
  /\ \/ pc[c] \in {"idle", "refused"} /\ GiveUp(c)
     \/ pc[c] = "remember" /\ Goto(c, "certificate") /\ UNCHANGED result
     \/ pc[c] = "finish" /\ Unsure(c)
     \/ pc[c] = "commit" /\ c \in Relay /\ GiveUp(c)
  /\ UNCHANGED <<record, lock, broker, client, disk, server>>

-----------------------------------------------------------------------------
(* The certificate and the commit.                                         *)

\* ensureWildcardCertificate: the pair on disk if it serves the host and is not
\* due, otherwise the broker's, if that serves it.
Certificate(c) ==
  /\ pc[c] = "certificate"
  /\ IF pair = result[c].host.base /\ ~due
       THEN UNCHANGED disk
       ELSE /\ client[c].id \in known /\ base = result[c].host.base
            /\ pair' = base /\ due' = FALSE
  /\ result' = [result EXCEPT ![c].pair = pair']
  /\ Goto(c, "finish")
  /\ UNCHANGED <<record, lock, broker, client, server, happened>>

CertificateRefused(c) ==
  /\ pc[c] = "certificate"
  /\ pair # result[c].host.base \/ due
  /\ \/ UNCHANGED happened /\ (client[c].id \notin known \/ base # result[c].host.base)
     \/ Fault
  /\ Goto(c, "finish")
  /\ UNCHANGED <<record, lock, broker, client, result, disk, server>>

\* requireCurrentInstall, after the last answer. Whether the name has been
\* resolved on this network decides if the cache is consulted.
Finish(c) ==
  /\ pc[c] = "finish" /\ lock = Free
  /\ \/ /\ record = client[c]
        /\ Goto(c, IF result[c].pair = NoPair /\ c \in Loop THEN "fallback" ELSE "commit")
        /\ UNCHANGED result
     \/ /\ record = client[c] /\ c \in Loop
        /\ Goto(c, "fallback") /\ UNCHANGED result
     \/ record # client[c] /\ Unsure(c)
  /\ UNCHANGED <<record, lock, broker, client, disk, server, happened>>

\* activationHost: without a host of its own the attempt takes the one of
\* install.json, read without the lock.
Fallback(c) ==
  /\ pc[c] = "fallback"
  /\ result' = [result EXCEPT ![c].host = IF @ = Nobody THEN record ELSE @]
  /\ Goto(c, "cached")
  /\ UNCHANGED <<record, lock, broker, client, disk, server, happened>>

\* cachedCertReadyForResult: what the disk has for that host, owned by the
\* attempt's install or else by the record if the host is still its own.
Cached(c) ==
  /\ pc[c] = "cached" /\ lock = Free
  /\ LET r == result[c] IN
     result' = [result EXCEPT ![c] =
       IF r.host = Nobody \/ pair # r.host.base THEN r
       ELSE Result(r.host, IF r.owner # Nobody THEN r.owner
                           ELSE IF record = r.host THEN record ELSE Nobody, pair)]
  /\ Goto(c, "commit")
  /\ UNCHANGED <<record, lock, broker, client, disk, server, happened>>

Accepted_Anyone(r) == TRUE

\* CommitResult, CommitRelayRegistration: a result without a snapshot is taken
\* for one that does not come from the broker.
Accepted(r) == r.owner \in {Nobody, record}

\* applyActivationResult: a host that is engaged is not engaged again.
Commit(c) ==
  /\ pc[c] = "commit" /\ c \in Loop /\ lock = Free
  /\ LET r == result[c] IN
     IF Accepted(r) /\ r.pair # NoPair /\ shown # r.host
       THEN shown' = r.host ELSE UNCHANGED shown
  /\ Goto(c, "idle")
  /\ UNCHANGED <<record, lock, broker, client, result, disk, creds, happened>>

CommitRelay(c) ==
  /\ pc[c] = "commit" /\ c \in Relay /\ lock = Free
  /\ creds' = IF Accepted(result[c]) THEN result[c].owner.id ELSE creds
  /\ Goto(c, "idle")
  /\ UNCHANGED <<record, lock, broker, client, result, disk, shown, happened>>

-----------------------------------------------------------------------------
(* Outside.                                                                *)

Forget ==
  /\ Count("forget", MaxForgets)
  /\ \E i \in known : known' = known \ {i}
  /\ UNCHANGED <<record, lock, base, minted, pc, client, result, disk, server>>

Move ==                                     \* the broker names hosts under another base
  /\ base < Bases /\ base' = base + 1
  /\ UNCHANGED <<record, lock, known, minted, pc, client, result, disk, server, happened>>

ComesDue ==
  /\ pair # NoPair /\ ~due /\ Count("renewal", MaxRenewals)
  /\ due' = TRUE
  /\ UNCHANGED <<record, lock, broker, pc, client, result, pair, server>>

Step(c) ==
  \/ Begin(c) \/ Recover(c) \/ Register(c) \/ Post(c) \/ Remember(c) \/ Certificate(c)
  \/ CertificateRefused(c) /\ UNCHANGED happened
  \/ Finish(c) \/ Fallback(c) \/ Cached(c) \/ Commit(c) \/ CommitRelay(c)

Next ==
  \/ \E c \in Caller : Step(c) \/ RegisterFails(c) \/ PostFails(c) \/ LockTimesOut(c) \/ CertificateRefused(c)
  \/ Forget \/ Move \/ ComesDue

Spec == Init /\ [][Next]_vars

\* Both loops come back after every attempt, and the lock is polled.
Fairness == \A c \in Caller : WF_vars(Step(c))

FairSpec == Spec /\ Fairness

-----------------------------------------------------------------------------
(* Properties.                                                             *)

Identities == [id : 0..minted, base : 0..Bases]
Results == [host : Identities, owner : Identities, pair : 0..Bases]
Places == {"idle", "register", "post", "refused", "reregister", "repost", "remember",
           "certificate", "finish", "fallback", "cached", "commit"}

\* Every part of the state keeps its type, and the lock is held through a
\* registration and by nobody else.
TypeOK ==
  /\ record \in Identities /\ shown \in Identities /\ creds \in 0..minted
  /\ known \subseteq 1..minted /\ minted \in Nat /\ base \in 1..Bases
  /\ lock \in Caller \cup {Free}
  /\ pc \in [Caller -> Places]
  /\ \A c \in Caller : pc[c] \in {"register", "reregister"} <=> lock = c
  /\ client \in [Caller -> Identities] /\ result \in [Caller -> Results]
  /\ pair \in 0..Bases /\ due \in BOOLEAN
  /\ happened \in [{"forget", "fault", "renewal"} -> Nat]

\* Callers that are refused together share one replacement (activate.go:536):
\* an install is minted for first use, for one the broker forgot, or for a
\* registration whose answer was lost, and never twice.
OneReplacement == minted <= 1 + happened["forget"] + happened["fault"]

\* "A network error, a 500 or a wrong secret must all be retried with the
\* identity we have" (activate.go:387): the record only gives up an install the
\* broker has forgotten, and no late attempt brings an older one back.
IdentityKept ==
  [][record'.id # record.id => record.id \notin known /\ record'.id > record.id]_vars

\* "A replacement identity cannot land between the check and the callback"
\* (activate.go:584): what an attempt was told under an install is shown, and
\* its credentials used, only while install.json still holds that install.
CommitsAreCurrent ==
  [][ /\ creds' # creds => creds' = record.id
      /\ \A c \in Loop :
           shown' # shown /\ pc[c] = "commit" /\ pc'[c] = "idle" /\ result[c].owner # Nobody
             => shown'.id = record.id ]_vars

\* Once the broker stops forgetting and requests stop failing, the Mac answers
\* under the name the broker knows it by and both loops use the same install.
Converges ==
  <>[](/\ record.id \in known /\ record.base = base
       /\ shown = record /\ creds = record.id)
=============================================================================

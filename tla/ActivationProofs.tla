-------------------------- MODULE ActivationProofs --------------------------
(***************************************************************************)
(* Proofs about Activation for any number of activation and relay loops,   *)
(* forgotten installs, failed requests and bases: callers that are refused *)
(* share one replacement, install.json only gives up what the broker has   *)
(* forgotten, and nothing is shown or used under a replaced install.       *)
(***************************************************************************)
EXTENDS Activation, FiniteSetTheorems, TLAPS

-----------------------------------------------------------------------------
(* The values of the variables.                                            *)

\* Identities are only ever added.
LEMMA IdentitiesGrow ==
  ASSUME TypeOK, [Next]_vars
  PROVE  /\ minted' \in Nat /\ minted <= minted'
         /\ Identities \subseteq Identities' /\ Results \subseteq Results'
<1>1. minted' = minted \/ minted' = minted + 1
  BY DEF Next, vars, broker, disk, server, Step, Begin, Recover, Register, RegisterFails, Post,
    PostFails, Remember, LockTimesOut, Certificate, CertificateRefused, Finish, Fallback, Cached,
    Commit, CommitRelay, Forget, Move, ComesDue
<1>2. minted \in Nat
  BY DEF TypeOK
<1>3. minted' \in Nat /\ minted <= minted'
  BY <1>1, <1>2
<1>4. Identities \subseteq Identities'
  BY <1>2, <1>3 DEF Identities
<1>5. QED
  BY <1>3, <1>4 DEF Results

\* Nobody, and a result made of identities, are of their types.
LEMMA ValuesAreTyped ==
  ASSUME TypeOK
  PROVE  /\ Nobody \in Identities /\ NoResult \in Results
         /\ \A h, o \in Identities, p \in 0..Bases : Result(h, o, p) \in Results
<1>1. Bases \in Nat /\ minted \in Nat /\ Bases > 0
  BY BasesAreNumbered DEF TypeOK
<1>2. Nobody \in Identities
  BY <1>1 DEF Nobody, Identity, Identities
<1>3. 0 \in 0..Bases
  BY <1>1
<1>4. QED
  BY <1>1, <1>2, <1>3 DEF NoResult, Result, NoPair, Results, Identities, TypeOK

\* An attempt that ends, surely or not, leaves a result that is one.
LEMMA EndIsTyped ==
  ASSUME TypeOK, NEW c \in Caller, GiveUp(c) \/ Unsure(c)
  PROVE  /\ result' \in [Caller -> Results]
         /\ pc' = [pc EXCEPT ![c] = IF c \in Loop THEN "fallback" ELSE "idle"]
<1>1. client[c] \in Identities /\ 0 \in 0..Bases
  BY BasesAreNumbered DEF TypeOK
<1>2. NoResult \in Results /\ Result(Nobody, client[c], NoPair) \in Results
  BY <1>1, ValuesAreTyped DEF NoPair
<1>3. result \in [Caller -> Results]
  BY DEF TypeOK
<1>4. QED
  BY <1>2, <1>3, RolesDiffer DEF GiveUp, Unsure, Goto, Caller

LEMMA TypeStart == Init => TypeOK
<1> SUFFICES ASSUME Init PROVE TypeOK
  OBVIOUS
<1>1. Bases \in Nat /\ Bases > 0 /\ minted = 0
  BY BasesAreNumbered DEF Init
<1>2. Nobody \in Identities /\ NoResult \in Results
  BY <1>1 DEF Nobody, Identity, Identities, NoResult, Result, Results, NoPair
<1>3. pc \in [Caller -> Places]
  BY DEF Init, Places
<1>4. \A c \in Caller : pc[c] \notin {"register", "reregister"} /\ lock # c
  BY RolesDiffer DEF Init
<1>5. QED
  <2>1. record \in Identities /\ shown \in Identities /\ creds \in 0..minted /\ base \in 1..Bases
    BY <1>1, <1>2 DEF Init
  <2>2. client \in [Caller -> Identities] /\ result \in [Caller -> Results]
    BY <1>2 DEF Init
  <2>3. pair \in 0..Bases /\ happened \in [{"forget", "fault", "renewal"} -> Nat]
    BY <1>1 DEF Init, NoPair
  <2>4. QED
    BY <1>1, <1>3, <1>4, <2>1, <2>2, <2>3 DEF Init, TypeOK

LEMMA TypeStep == TypeOK /\ [Next]_vars => TypeOK'
<1> SUFFICES ASSUME TypeOK, [Next]_vars PROVE TypeOK'
  OBVIOUS
<1> DEFINE Small == /\ record \in Identities' /\ shown \in Identities' /\ creds \in 0..minted'
                    /\ client \in [Caller -> Identities'] /\ result \in [Caller -> Results']
                    /\ known \subseteq 1..minted' /\ minted' \in Nat
<1>1. Small
  <2>1. minted \in Nat /\ minted' \in Nat /\ minted <= minted'
    BY IdentitiesGrow DEF TypeOK
  <2>2. Identities \subseteq Identities' /\ Results \subseteq Results'
    BY IdentitiesGrow
  <2>3. QED
    BY <2>1, <2>2 DEF TypeOK
<1>2. Bases \in Nat /\ Bases > 0
  BY BasesAreNumbered
<1>3. Free \notin Caller
  BY RolesDiffer
<1>4. \A r \in Results : r.host \in Identities /\ r.owner \in Identities /\ r.pair \in 0..Bases
  BY DEF Results
<1>5. \A i \in Identities : i.id \in 0..minted /\ i.base \in 0..Bases
  BY DEF Identities
<1> HIDE DEF Small
<1>6. ASSUME NEW c \in Caller, Begin(c) PROVE TypeOK'
  <2>1. result' \in [Caller -> Results] /\ record \in Identities
    BY <1>6, ValuesAreTyped DEF Begin, TypeOK
  <2>2. minted' = minted
    BY <1>6 DEF Begin, broker
  <2>3. CASE record # Nobody
    <3>1. pc' = [pc EXCEPT ![c] = "post"] /\ client' = [client EXCEPT ![c] = record]
      BY <1>6, <2>3 DEF Begin, Use, Goto
    <3>2. /\ pc' \in [Caller -> Places] /\ client' \in [Caller -> Identities]
          /\ \A d \in Caller : pc'[d] \in {"register", "reregister"} <=> lock = d
      BY <1>6, <2>1, <3>1 DEF Begin, TypeOK, Places
    <3>3. QED
      BY <1>6, <2>1, <2>2, <2>3, <3>2 DEF Begin, TypeOK, broker, disk, server, Identities, Results
  <2>4. CASE record = Nobody
    <3>1. /\ pc' = [pc EXCEPT ![c] = "register"] /\ lock = Free /\ lock' = c
          /\ UNCHANGED <<client, record, broker, disk, server, happened>>
      BY <1>6, <2>4 DEF Begin, Goto
    <3>2. /\ pc' \in [Caller -> Places]
          /\ \A d \in Caller : pc'[d] \in {"register", "reregister"} <=> lock' = d
      BY <1>3, <3>1 DEF TypeOK, Places
    <3>3. QED
      BY <2>1, <2>2, <3>1, <3>2 DEF TypeOK, broker, disk, server, Identities, Results
  <2>5. QED
    BY <2>3, <2>4
<1>7. ASSUME NEW c \in Caller, Recover(c) PROVE TypeOK'
  <2>1. UNCHANGED <<record, broker, result, disk, server, happened>> /\ lock = Free /\ pc[c] = "refused"
    BY <1>7 DEF Recover
  <2>2. \/ pc' = [pc EXCEPT ![c] = "repost"] /\ client' = [client EXCEPT ![c] = record] /\ lock' = lock
        \/ pc' = [pc EXCEPT ![c] = "reregister"] /\ client' = client /\ lock' = c
    BY <1>7 DEF Recover, Use, Goto
  <2>3. /\ pc' \in [Caller -> Places] /\ client' \in [Caller -> Identities]
        /\ \A d \in Caller : pc'[d] \in {"register", "reregister"} <=> lock' = d
    BY <1>3, <2>1, <2>2 DEF TypeOK, Places
  <2>4. QED
    BY <2>1, <2>2, <2>3 DEF TypeOK, broker, disk, server, Identities, Results
<1>8. ASSUME NEW c \in Caller, Register(c) PROVE TypeOK'
  <2>1. minted' = minted + 1 /\ record' = Identity(minted + 1, base)
    BY <1>8 DEF Register
  <2>2. record' \in Identities'
    BY <2>1, <1>2 DEF Identity, Identities, TypeOK
  <2>3. known' \subseteq 1..minted' /\ lock = c /\ lock' = Free
    BY <1>8, <2>1 DEF Register, TypeOK
  <2>4. pc' \in [Caller -> Places] /\ \A d \in Caller : pc'[d] \notin {"register", "reregister"}
    BY <1>8, <2>3 DEF Register, Use, Goto, TypeOK, Places
  <2>5. client' \in [Caller -> Identities']
    BY <1>8, <1>1, <2>2 DEF Register, Use, Small
  <2>6. QED
    BY <1>8, <1>1, <1>3, <2>1, <2>2, <2>3, <2>4, <2>5 DEF Register, TypeOK, Small, disk, server
<1>9. ASSUME NEW c \in Caller, RegisterFails(c) PROVE TypeOK'
  <2>1. result' \in [Caller -> Results] /\ pc' = [pc EXCEPT ![c] = IF c \in Loop THEN "fallback" ELSE "idle"]
    BY <1>9, EndIsTyped DEF RegisterFails
  <2>2. known' \subseteq 1..minted' /\ lock = c /\ lock' = Free
    <3>1. known \subseteq 1..minted /\ minted \in Nat
      BY DEF TypeOK
    <3>2. \/ known' = known /\ minted' = minted
          \/ known' = known \cup {minted + 1} /\ minted' = minted + 1
        BY <1>9 DEF RegisterFails
    <3>3. lock = c /\ lock' = Free
      BY <1>9 DEF RegisterFails, TypeOK
    <3>4. minted <= minted' /\ minted' \in Nat /\ known' \subseteq known \cup {minted'}
      BY <3>1, <3>2
    <3>5. 1..minted \subseteq 1..minted'
      BY <3>1, <3>4
    <3>6. minted' = minted + 1 => minted' \in 1..minted'
      BY <3>1
    <3>7. QED
      BY <3>1, <3>2, <3>3, <3>5, <3>6
  <2>3. pc' \in [Caller -> Places] /\ \A d \in Caller : pc'[d] \notin {"register", "reregister"}
    BY <2>1, <2>2 DEF TypeOK, Places
  <2>4. result' \in [Caller -> Results']
    BY <2>1, IdentitiesGrow
  <2>5. happened' \in [{"forget", "fault", "renewal"} -> Nat]
    BY <1>9 DEF RegisterFails, Fault, Count, TypeOK
  <2>6. QED
    BY <1>9, <1>1, <1>3, <2>2, <2>3, <2>4, <2>5 DEF RegisterFails, TypeOK, Small, disk, server
<1>10. ASSUME NEW c \in Caller, Post(c) PROVE TypeOK'
  <2>1. minted' = minted /\ client[c] \in Identities /\ base \in 0..Bases
    BY <1>10, <1>2 DEF Post, broker, TypeOK
  <2>2. Identity(client[c].id, base) \in Identities /\ NoPair \in 0..Bases
    BY <2>1, <1>2, <1>5 DEF Identity, Identities, NoPair
  <2>3. result' \in [Caller -> Results]
    BY <1>10, <2>1, <2>2, ValuesAreTyped DEF Post, GiveUp, TypeOK
  <2>4. pc' \in [Caller -> Places] /\ \A d \in Caller : pc'[d] \in {"register", "reregister"} <=> lock = d
    BY <1>10 DEF Post, GiveUp, Goto, TypeOK, Places
  <2>5. QED
    BY <1>10, <2>1, <2>3, <2>4 DEF Post, TypeOK, broker, disk, server, Identities, Results
<1>11. ASSUME NEW c \in Caller, PostFails(c) PROVE TypeOK'
  <2>1. minted' = minted /\ client[c] \in Identities
    BY <1>11 DEF PostFails, broker, TypeOK
  <2>2. NoPair \in 0..Bases
    BY <1>2 DEF NoPair
  <2>3. result' \in [Caller -> Results]
    BY <1>11, <2>1, <2>2, ValuesAreTyped DEF PostFails, GiveUp, TypeOK
  <2>4. pc' \in [Caller -> Places] /\ \A d \in Caller : pc'[d] \in {"register", "reregister"} <=> lock = d
    BY <1>11 DEF PostFails, GiveUp, Goto, TypeOK, Places
  <2>5. happened' \in [{"forget", "fault", "renewal"} -> Nat]
    BY <1>11 DEF PostFails, Fault, Count, TypeOK
  <2>6. QED
    BY <1>11, <2>1, <2>3, <2>4, <2>5 DEF PostFails, TypeOK, broker, disk, server, Identities, Results
<1>12. ASSUME NEW c \in Caller, Remember(c) PROVE TypeOK'
  <2>1. minted' = minted /\ client[c] \in Identities /\ result[c] \in Results
    BY <1>12 DEF Remember, broker, TypeOK
  <2>2. result[c].host \in Identities /\ NoPair \in 0..Bases
    BY <1>2, <1>4, <2>1 DEF NoPair
  <2>3. [result[c] EXCEPT !.owner = result[c].host] \in Results
    BY <2>1, <2>2 DEF Results
  <2>4. result' \in [Caller -> Results]
    BY <1>12, <2>1, <2>2, <2>3, ValuesAreTyped DEF Remember, TypeOK
  <2>5. pc' \in [Caller -> Places] /\ \A d \in Caller : pc'[d] \in {"register", "reregister"} <=> lock = d
    BY <1>12 DEF Remember, Use, Goto, TypeOK, Places
  <2>6. record' \in Identities /\ client' \in [Caller -> Identities]
    BY <1>12, <2>2 DEF Remember, Use, TypeOK
  <2>7. QED
    BY <1>12, <2>1, <2>4, <2>5, <2>6 DEF Remember, TypeOK, broker, disk, server, Identities, Results
<1>13. ASSUME NEW c \in Caller, LockTimesOut(c) PROVE TypeOK'
  <2>1. minted' = minted
    BY <1>13 DEF LockTimesOut, broker
  <2>2. GiveUp(c) \/ Unsure(c) \/ (Goto(c, "certificate") /\ UNCHANGED result)
    BY <1>13 DEF LockTimesOut
  <2>3. result' \in [Caller -> Results]
    BY <2>2, EndIsTyped DEF TypeOK
  <2>4. pc[c] \notin {"register", "reregister"}
    BY <1>13 DEF LockTimesOut, TypeOK
  <2>5. \E p \in {"fallback", "idle", "certificate"} : pc' = [pc EXCEPT ![c] = p]
    BY <2>2, EndIsTyped DEF Goto
  <2>6. pc' \in [Caller -> Places] /\ \A d \in Caller : pc'[d] \in {"register", "reregister"} <=> lock = d
    BY <2>4, <2>5 DEF TypeOK, Places
  <2>7. happened' \in [{"forget", "fault", "renewal"} -> Nat]
    BY <1>13 DEF LockTimesOut, Fault, Count, TypeOK
  <2>8. QED
    BY <1>13, <2>1, <2>3, <2>6, <2>7 DEF LockTimesOut, TypeOK, broker, disk, server, Identities, Results
<1>14. ASSUME NEW c \in Caller, Certificate(c) PROVE TypeOK'
  <2>1. minted' = minted /\ pair' \in 0..Bases /\ due' \in BOOLEAN
    <3>1. \/ pair' = pair /\ due' = due
          \/ pair' = base /\ due' = FALSE
      BY <1>14 DEF Certificate, disk
    <3>2. base \in 0..Bases /\ pair \in 0..Bases /\ due \in BOOLEAN
      BY <1>2 DEF TypeOK
    <3>3. QED
      BY <1>14, <3>1, <3>2 DEF Certificate, broker
  <2>2. result' \in [Caller -> Results]
    BY <1>14, <2>1 DEF Certificate, TypeOK, Results
  <2>3. pc' \in [Caller -> Places] /\ \A d \in Caller : pc'[d] \in {"register", "reregister"} <=> lock = d
    BY <1>14 DEF Certificate, Goto, TypeOK, Places
  <2>4. QED
    BY <1>14, <2>1, <2>2, <2>3 DEF Certificate, TypeOK, broker, server, Identities, Results
<1>15. ASSUME NEW c \in Caller, CertificateRefused(c) PROVE TypeOK'
  <2>1. pc' \in [Caller -> Places] /\ \A d \in Caller : pc'[d] \in {"register", "reregister"} <=> lock = d
    BY <1>15 DEF CertificateRefused, Goto, TypeOK, Places
  <2>2. happened' \in [{"forget", "fault", "renewal"} -> Nat]
    BY <1>15 DEF CertificateRefused, Fault, Count, TypeOK
  <2>3. QED
    BY <1>15, <2>1, <2>2 DEF CertificateRefused, TypeOK, broker, disk, server, Identities, Results
<1>16. ASSUME NEW c \in Caller, Finish(c) PROVE TypeOK'
  <2>1. UNCHANGED result \/ Unsure(c)
    BY <1>16 DEF Finish
  <2>2. result' \in [Caller -> Results]
    BY <2>1, EndIsTyped DEF TypeOK
  <2>3. pc[c] = "finish"
    BY <1>16 DEF Finish
  <2>4. \E p \in {"fallback", "idle", "commit"} : pc' = [pc EXCEPT ![c] = p]
    BY <1>16, EndIsTyped DEF Finish, Goto
  <2>5. pc' \in [Caller -> Places] /\ \A d \in Caller : pc'[d] \in {"register", "reregister"} <=> lock = d
    BY <2>3, <2>4 DEF TypeOK, Places
  <2>6. QED
    BY <1>16, <2>2, <2>5 DEF Finish, TypeOK, broker, disk, server, Identities, Results
<1>17. ASSUME NEW c \in Caller, Fallback(c) PROVE TypeOK'
  <2>1. result' \in [Caller -> Results]
    BY <1>17 DEF Fallback, TypeOK, Results
  <2>2. pc' \in [Caller -> Places] /\ \A d \in Caller : pc'[d] \in {"register", "reregister"} <=> lock = d
    BY <1>17 DEF Fallback, Goto, TypeOK, Places
  <2>3. QED
    BY <1>17, <2>1, <2>2 DEF Fallback, TypeOK, broker, disk, server, Identities, Results
<1>18. ASSUME NEW c \in Caller, Cached(c) PROVE TypeOK'
  <2>1. result[c] \in Results /\ record \in Identities /\ pair \in 0..Bases
    BY DEF TypeOK
  <2>2. \A o \in Identities : Result(result[c].host, o, pair) \in Results
    BY <1>4, <2>1, ValuesAreTyped
  <2>3. result' \in [Caller -> Results]
    BY <1>18, <1>4, <2>1, <2>2, ValuesAreTyped DEF Cached, TypeOK
  <2>4. pc' \in [Caller -> Places] /\ \A d \in Caller : pc'[d] \in {"register", "reregister"} <=> lock = d
    BY <1>18 DEF Cached, Goto, TypeOK, Places
  <2>5. QED
    BY <1>18, <2>3, <2>4 DEF Cached, TypeOK, broker, disk, server, Identities, Results
<1>19. ASSUME NEW c \in Caller, Commit(c) PROVE TypeOK'
  <2>1. result[c].host \in Identities
    BY <1>4 DEF TypeOK
  <2>2. pc' \in [Caller -> Places] /\ \A d \in Caller : pc'[d] \in {"register", "reregister"} <=> lock = d
    BY <1>19 DEF Commit, Goto, TypeOK, Places
  <2>3. QED
    BY <1>19, <2>1, <2>2 DEF Commit, TypeOK, broker, disk, Identities, Results
<1>20. ASSUME NEW c \in Caller, CommitRelay(c) PROVE TypeOK'
  <2>1. result[c].owner.id \in 0..minted
    BY <1>4, <1>5 DEF TypeOK
  <2>2. pc' \in [Caller -> Places] /\ \A d \in Caller : pc'[d] \in {"register", "reregister"} <=> lock = d
    BY <1>20 DEF CommitRelay, Goto, TypeOK, Places
  <2>3. QED
    BY <1>20, <2>1, <2>2 DEF CommitRelay, TypeOK, broker, disk, Identities, Results
<1>21. CASE Forget
  BY <1>21 DEF Forget, Count, TypeOK, disk, server, Identities, Results
<1>22. CASE Move
  BY <1>22, <1>2 DEF Move, TypeOK, disk, server, Identities, Results
<1>23. CASE ComesDue
  BY <1>23 DEF ComesDue, Count, TypeOK, broker, server, Identities, Results
<1>24. CASE UNCHANGED vars
  BY <1>24 DEF vars, TypeOK, broker, disk, server, Identities, Results
<1>25. QED
  BY <1>6, <1>7, <1>8, <1>9, <1>10, <1>11, <1>12, <1>13, <1>14, <1>15, <1>16, <1>17, <1>18,
    <1>19, <1>20, <1>21, <1>22, <1>23, <1>24 DEF Next, Step

\* Every part of the state keeps its type, whatever the loops meet.
THEOREM TypeCorrect == Spec => []TypeOK
BY TypeStart, TypeStep, PTL DEF Spec

-----------------------------------------------------------------------------
(* Who uses which identity.                                                *)

\* Whoever registers has seen the broker refuse the install on record, or there
\* is none; the lock keeps it so.
Replacing == \A c \in Caller : pc[c] \in {"register", "reregister"} => record.id \notin known

Refused == \A c \in Caller : pc[c] = "refused" => client[c].id \notin known

\* What an attempt uses, and whose its result is, was on record at some time.
RecordIsNewest ==
  \A c \in Caller : client[c].id <= record.id /\ result[c].owner.id <= record.id

\* The broker's answer names a host of the install that asked.
Posted ==
  \A c \in Caller : pc[c] \in {"remember", "certificate"} =>
    result[c].host.id = client[c].id /\ result[c].owner.id = client[c].id

\* A host that an attempt would show is none of an install before its own.
HostIsLater ==
  \A c \in Caller :
    \/ result[c].host = Nobody /\ result[c].pair = NoPair
    \/ result[c].owner.id <= result[c].host.id /\ result[c].host.id <= record.id

\* The relay loop commits what its own install was told.
RelayOwns ==
  \A c \in Relay :
    /\ pc[c] \notin {"remember", "certificate", "fallback", "cached"}
    /\ pc[c] \in {"finish", "commit"} => result[c].owner.id # 0

Ids == Replacing /\ Refused /\ RecordIsNewest /\ Posted /\ HostIsLater /\ RelayOwns

\* Ids are numbers.
LEMMA IdsAreNumbers ==
  ASSUME TypeOK
  PROVE  /\ record.id \in Nat /\ record.id <= minted /\ minted \in Nat
         /\ Nobody.id = 0 /\ 0 \notin known /\ \A i \in known : i \in Nat /\ i <= minted
         /\ \A c \in Caller : /\ client[c].id \in Nat /\ client[c].id <= minted
                              /\ result[c].host.id \in Nat /\ result[c].owner.id \in Nat
  BY DEF TypeOK, Results, Identities, Nobody, Identity

\* The broker's books: an id is added, which is new, or one is struck.
LEMMA BooksMove ==
  ASSUME TypeOK, [Next]_vars
  PROVE  \/ known' = known \cup {minted + 1} /\ minted' = minted + 1
         \/ known' \subseteq known /\ minted' = minted
BY DEF Next, vars, broker, disk, server, Step, Begin, Recover, Register, RegisterFails, Post,
  PostFails, Remember, LockTimesOut, Certificate, CertificateRefused, Finish, Fallback, Cached,
  Commit, CommitRelay, Forget, Move, ComesDue

\* install.json changes hands only in a registration.
LEMMA RecordMoves ==
  ASSUME TypeOK, Posted, [Next]_vars
  PROVE  \/ record'.id = record.id
         \/ \E c \in Caller : Register(c) /\ record'.id = minted + 1
<1>1. CASE \E c \in Caller : Register(c)
  BY <1>1 DEF Register, Identity
<1>2. CASE \E c \in Caller : Remember(c)
  BY <1>2 DEF Remember, Posted
<1>3. CASE ~\E c \in Caller : Register(c) \/ Remember(c)
  <2>1. record' = record
    BY <1>3 DEF Next, vars, broker, disk, server, Step, Begin, Recover, RegisterFails, Post,
      PostFails, LockTimesOut, Certificate, CertificateRefused, Finish, Fallback, Cached,
      Commit, CommitRelay, Forget, Move, ComesDue
  <2>2. QED
    BY <2>1
<1>4. QED
  BY <1>1, <1>2, <1>3

\* The install on record is never older than it was.
LEMMA RecordGrows ==
  ASSUME TypeOK, Posted, [Next]_vars
  PROVE  record.id <= record'.id /\ record'.id \in Nat
<1>1. record.id \in Nat /\ record.id <= minted /\ minted \in Nat
  BY IdsAreNumbers
<1>2. record'.id = record.id \/ record'.id = minted + 1
  BY RecordMoves
<1>3. QED
  BY <1>1, <1>2

\* An attempt is moved by the steps of its own caller.
Own(c) ==
  Step(c) \/ RegisterFails(c) \/ PostFails(c) \/ LockTimesOut(c) \/ CertificateRefused(c)

Idle(c) == pc'[c] = pc[c] /\ client'[c] = client[c] /\ result'[c] = result[c]

LEMMA OwnSteps ==
  ASSUME TypeOK, [Next]_vars, NEW c \in Caller
  PROVE  Idle(c) \/ Own(c)
<1>1. ASSUME NEW d \in Caller, Own(d), d # c PROVE Idle(c)
  <2>1. pc \in [Caller -> Places] /\ client \in [Caller -> Identities] /\ result \in [Caller -> Results]
    BY DEF TypeOK
  <2>2. CASE Begin(d) \/ Recover(d) \/ Register(d) \/ Remember(d)
    BY <1>1, <2>1, <2>2 DEF Idle, Begin, Recover, Register, Remember, Use, Goto
  <2>3. CASE RegisterFails(d) \/ PostFails(d) \/ LockTimesOut(d) \/ Post(d) \/ Finish(d)
    BY <1>1, <2>1, <2>3 DEF Idle, RegisterFails, PostFails, LockTimesOut, Post, Finish, GiveUp, Unsure, Goto
  <2>4. CASE Certificate(d) \/ CertificateRefused(d) \/ Fallback(d) \/ Cached(d) \/ Commit(d) \/ CommitRelay(d)
    BY <1>1, <2>1, <2>4 DEF Idle, Certificate, CertificateRefused, Fallback, Cached, Commit, CommitRelay, Goto
  <2>5. QED
    BY <1>1, <2>2, <2>3, <2>4 DEF Own, Step
<1>2. CASE Forget \/ Move \/ ComesDue \/ UNCHANGED vars
  BY <1>2 DEF Idle, Forget, Move, ComesDue, vars
<1>3. QED
  BY <1>1, <1>2 DEF Next, Own

LEMMA IdsStart == Init => Ids
<1> SUFFICES ASSUME Init PROVE Ids
  OBVIOUS
<1>1. \A c \in Caller : pc[c] \in {"fallback", "idle"} /\ client[c] = Nobody /\ result[c] = NoResult
  BY DEF Init
<1>2. \A c \in Relay : pc[c] = "idle"
  BY RolesDiffer DEF Init, Caller
<1>3. record.id = 0 /\ Nobody.id = 0 /\ NoResult = [host |-> Nobody, owner |-> Nobody, pair |-> NoPair]
  BY DEF Init, Nobody, Identity, NoResult, Result
<1>4. QED
  BY <1>1, <1>2, <1>3 DEF Ids, Replacing, Refused, RecordIsNewest, Posted, HostIsLater, RelayOwns

LEMMA ReplacingStep ==
  ASSUME TypeOK, Ids, [Next]_vars
  PROVE  Replacing'
<1> SUFFICES ASSUME NEW c \in Caller, pc'[c] \in {"register", "reregister"}
             PROVE  record'.id \notin known'
  BY DEF Replacing
<1>1. lock' = c
  BY TypeStep DEF TypeOK
<1>2. ~\E d \in Caller : Register(d) \/ RegisterFails(d)
  <2>1. Free # c
    BY RolesDiffer
  <2>2. QED
    BY <1>1, <2>1 DEF Register, RegisterFails
<1>3. record'.id = record.id
  BY <1>2, RecordMoves DEF Ids
<1>4. known' \subseteq known
  BY <1>2 DEF Next, vars, broker, disk, server, Step, Begin, Recover, Post,
    PostFails, Remember, LockTimesOut, Certificate, CertificateRefused, Finish, Fallback, Cached,
    Commit, CommitRelay, Forget, Move, ComesDue
<1>5. pc \in [Caller -> Places]
  BY DEF TypeOK
<1>6. CASE Idle(c)
  BY <1>3, <1>4, <1>6 DEF Ids, Replacing, Idle
<1>7. CASE Begin(c)
  <2>1. record = Nobody
    BY <1>5, <1>7 DEF Begin, Use, Goto
  <2>2. QED
    BY <1>3, <1>4, <2>1, IdsAreNumbers
<1>8. CASE Recover(c)
  <2>1. record = Nobody \/ record.id = client[c].id
    BY <1>5, <1>8 DEF Recover, Use, Goto
  <2>2. client[c].id \notin known
    BY <1>8 DEF Recover, Ids, Refused
  <2>3. QED
    BY <1>3, <1>4, <2>1, <2>2, IdsAreNumbers
<1>9. CASE Post(c) \/ PostFails(c) \/ LockTimesOut(c) \/ Finish(c)
  BY <1>5, <1>9 DEF Post, PostFails, LockTimesOut, Finish, GiveUp, Unsure, Goto
<1>10. CASE Remember(c) \/ Certificate(c) \/ CertificateRefused(c)
  BY <1>5, <1>10 DEF Remember, Certificate, CertificateRefused, Use, Goto
<1>11. CASE Fallback(c) \/ Cached(c) \/ Commit(c) \/ CommitRelay(c)
  BY <1>5, <1>11 DEF Fallback, Cached, Commit, CommitRelay, Goto
<1>12. QED
  BY <1>2, <1>6, <1>7, <1>8, <1>9, <1>10, <1>11, OwnSteps DEF Own, Step

LEMMA RefusedStep ==
  ASSUME TypeOK, Ids, [Next]_vars
  PROVE  Refused'
<1> SUFFICES ASSUME NEW c \in Caller, pc'[c] = "refused" PROVE client'[c].id \notin known'
  BY DEF Refused
<1>1. pc \in [Caller -> Places]
  BY DEF TypeOK
<1>2. client[c].id \notin known => client[c].id \notin known'
  BY BooksMove, IdsAreNumbers
<1>3. CASE Idle(c)
  BY <1>2, <1>3 DEF Ids, Refused, Idle
<1>4. CASE Post(c)
  BY <1>1, <1>2, <1>4 DEF Post, GiveUp, Goto
<1>5. CASE Begin(c) \/ Recover(c) \/ Register(c) \/ Remember(c)
  BY <1>1, <1>5 DEF Begin, Recover, Register, Remember, Use, Goto
<1>6. CASE RegisterFails(c) \/ PostFails(c) \/ LockTimesOut(c) \/ Finish(c)
  BY <1>1, <1>6 DEF RegisterFails, PostFails, LockTimesOut, Finish, GiveUp, Unsure, Goto
<1>7. CASE Certificate(c) \/ CertificateRefused(c) \/ Fallback(c) \/ Cached(c) \/ Commit(c) \/ CommitRelay(c)
  BY <1>1, <1>7 DEF Certificate, CertificateRefused, Fallback, Cached, Commit, CommitRelay, Goto
<1>8. QED
  BY <1>3, <1>4, <1>5, <1>6, <1>7, OwnSteps DEF Own, Step

\* What an attempt that ends leaves of its result.
LEMMA EndKeeps ==
  ASSUME TypeOK, NEW c \in Caller, GiveUp(c) \/ Unsure(c)
  PROVE  /\ result'[c].host = Nobody /\ result'[c].pair = NoPair
         /\ result'[c].owner \in {Nobody, client[c]}
         /\ pc'[c] = IF c \in Loop THEN "fallback" ELSE "idle"
<1>1. result \in [Caller -> Results] /\ pc \in [Caller -> Places]
  BY DEF TypeOK
<1>2. QED
  BY <1>1, RolesDiffer DEF GiveUp, Unsure, Goto, NoResult, Result, Caller

LEMMA RecordIsNewestStep ==
  ASSUME TypeOK, Ids, [Next]_vars
  PROVE  RecordIsNewest'
<1> SUFFICES ASSUME NEW c \in Caller
             PROVE  client'[c].id <= record'.id /\ result'[c].owner.id <= record'.id
  BY DEF RecordIsNewest
<1> DEFINE Old(i) == i \in Nat /\ i <= record'.id
<1>1. \A i \in Nat : i <= record.id => Old(i)
  BY RecordGrows, IdsAreNumbers DEF Ids
<1>2. /\ Old(client[c].id) /\ Old(result[c].owner.id) /\ Old(record.id) /\ Old(Nobody.id)
  BY <1>1, IdsAreNumbers DEF Ids, RecordIsNewest
<1>3. pc \in [Caller -> Places] /\ client \in [Caller -> Identities] /\ result \in [Caller -> Results]
  BY DEF TypeOK
<1> HIDE DEF Old
<1> SUFFICES Old(client'[c].id) /\ Old(result'[c].owner.id)
  BY DEF Old
<1>4. CASE Idle(c)
  BY <1>2, <1>4 DEF Idle
<1>5. CASE Begin(c)
  <2>1. client'[c] \in {client[c], record} /\ result'[c].owner = Nobody
    BY <1>3, <1>5 DEF Begin, Use, NoResult, Result
  <2>2. QED
    BY <1>2, <2>1
<1>6. CASE Recover(c)
  <2>1. client'[c] \in {client[c], record} /\ result' = result
    BY <1>3, <1>6 DEF Recover, Use
  <2>2. QED
    BY <1>2, <2>1
<1>7. CASE Register(c)
  <2>1. client'[c] = record' /\ result' = result
    BY <1>3, <1>7 DEF Register, Use
  <2>2. QED
    BY <1>2, <2>1, RecordGrows DEF Old, Ids
<1>8. CASE RegisterFails(c)
  <2>1. client' = client /\ result'[c].owner \in {Nobody, client[c]}
    BY <1>8, EndKeeps DEF RegisterFails
  <2>2. QED
    BY <1>2, <2>1
<1>9. CASE Post(c) \/ PostFails(c)
  <2>1. client' = client /\ result'[c].owner \in {Nobody, client[c], result[c].owner}
    BY <1>3, <1>9, EndKeeps DEF Post, PostFails, Result
  <2>2. QED
    BY <1>2, <2>1
<1>10. CASE Remember(c)
  <2>1. client'[c] \in {client[c], record'} /\ result'[c].owner \in {record', client[c]}
    BY <1>3, <1>10 DEF Remember, Use, Result, Results
  <2>2. QED
    BY <1>2, <2>1, RecordGrows DEF Old, Ids
<1>11. CASE LockTimesOut(c) \/ Finish(c)
  <2>1. client' = client /\ result'[c].owner \in {Nobody, client[c], result[c].owner}
    BY <1>11, EndKeeps DEF LockTimesOut, Finish
  <2>2. QED
    BY <1>2, <2>1
<1>12. CASE Certificate(c) \/ CertificateRefused(c) \/ Fallback(c) \/ Commit(c) \/ CommitRelay(c)
  <2>1. client' = client /\ result'[c].owner = result[c].owner
    BY <1>3, <1>12 DEF Certificate, CertificateRefused, Fallback, Commit, CommitRelay, Results
  <2>2. QED
    BY <1>2, <2>1
<1>13. CASE Cached(c)
  <2>1. client' = client /\ result'[c].owner \in {Nobody, record, result[c].owner}
    BY <1>3, <1>13 DEF Cached, Result
  <2>2. QED
    BY <1>2, <2>1
<1>14. QED
  BY <1>4, <1>5, <1>6, <1>7, <1>8, <1>9, <1>10, <1>11, <1>12, <1>13, OwnSteps DEF Own, Step

LEMMA PostedStep ==
  ASSUME TypeOK, Ids, [Next]_vars
  PROVE  Posted'
<1> SUFFICES ASSUME NEW c \in Caller, pc'[c] \in {"remember", "certificate"}
             PROVE  result'[c].host.id = client'[c].id /\ result'[c].owner.id = client'[c].id
  BY DEF Posted
<1>1. pc \in [Caller -> Places] /\ client \in [Caller -> Identities] /\ result \in [Caller -> Results]
  BY DEF TypeOK
<1>2. CASE Idle(c)
  BY <1>2 DEF Ids, Posted, Idle
<1>3. CASE Post(c) \/ PostFails(c)
  <2>1. \/ result'[c] = Result(Identity(client[c].id, base), client[c], NoPair)
        \/ result'[c] = Result(client[c], client[c], NoPair)
    BY <1>1, <1>3, EndKeeps DEF Post, PostFails, Goto
  <2>2. client' = client
    BY <1>3 DEF Post, PostFails
  <2>3. QED
    BY <2>1, <2>2 DEF Result, Identity
<1>4. CASE Remember(c)
  BY <1>1, <1>4 DEF Remember, Use, Goto, Results
<1>5. CASE LockTimesOut(c)
  <2>1. pc[c] = "remember" /\ UNCHANGED result /\ UNCHANGED client
    BY <1>5, EndKeeps DEF LockTimesOut
  <2>2. QED
    BY <2>1 DEF Ids, Posted
<1>6. CASE Begin(c) \/ Recover(c) \/ Register(c)
  BY <1>1, <1>6 DEF Begin, Recover, Register, Use, Goto
<1>7. CASE RegisterFails(c) \/ Finish(c)
  BY <1>1, <1>7 DEF RegisterFails, Finish, GiveUp, Unsure, Goto
<1>8. CASE Certificate(c) \/ CertificateRefused(c) \/ Fallback(c) \/ Cached(c) \/ Commit(c) \/ CommitRelay(c)
  BY <1>1, <1>8 DEF Certificate, CertificateRefused, Fallback, Cached, Commit, CommitRelay, Goto
<1>9. QED
  BY <1>2, <1>3, <1>4, <1>5, <1>6, <1>7, <1>8, OwnSteps DEF Own, Step

LEMMA HostIsLaterStep ==
  ASSUME TypeOK, Ids, [Next]_vars
  PROVE  HostIsLater'
<1> DEFINE Empty(r) == r.host = Nobody /\ r.pair = NoPair
           Later(r) == r.owner.id <= r.host.id /\ r.host.id <= record'.id
<1> SUFFICES ASSUME NEW c \in Caller PROVE Empty(result'[c]) \/ Later(result'[c])
  BY DEF HostIsLater
<1>1. pc \in [Caller -> Places] /\ client \in [Caller -> Identities] /\ result \in [Caller -> Results]
  BY DEF TypeOK
<1>2. record.id <= record'.id /\ record'.id \in Nat /\ record.id \in Nat /\ Nobody.id = 0
  BY RecordGrows, IdsAreNumbers DEF Ids
<1>3. /\ client[c].id \in Nat /\ client[c].id <= record.id
      /\ result[c].owner.id \in Nat /\ result[c].owner.id <= record.id /\ result[c].host.id \in Nat
  BY IdsAreNumbers DEF Ids, RecordIsNewest
<1>4. Empty(result[c]) \/ (result[c].owner.id <= result[c].host.id /\ result[c].host.id <= record.id)
  BY DEF Ids, HostIsLater
<1>5. Empty(result[c]) \/ Later(result[c])
  BY <1>2, <1>3, <1>4
<1>6. CASE result'[c] = result[c]
  BY <1>5, <1>6
<1>7. CASE Begin(c)
  BY <1>1, <1>7 DEF Begin, NoResult, Result
<1>8. CASE GiveUp(c) \/ Unsure(c)
  BY <1>8, EndKeeps
<1>9. CASE (Post(c) \/ PostFails(c)) /\ ~GiveUp(c) /\ result'[c] # result[c]
  <2>1. \/ result'[c] = Result(Identity(client[c].id, base), client[c], NoPair)
        \/ result'[c] = Result(client[c], client[c], NoPair)
    BY <1>1, <1>9 DEF Post, PostFails
  <2>2. result'[c].host.id = client[c].id /\ result'[c].owner.id = client[c].id
    BY <2>1 DEF Result, Identity
  <2>3. QED
    BY <1>2, <1>3, <2>2
<1>10. CASE Remember(c)
  <2>1. CASE record = client[c]
    <3>1. result'[c].owner = result[c].host /\ result'[c].host = result[c].host
      BY <1>1, <1>10, <2>1 DEF Remember, Results
    <3>2. result[c].host.id = client[c].id
      BY <1>10 DEF Remember, Ids, Posted
    <3>3. QED
      BY <1>2, <1>3, <3>1, <3>2
  <2>2. CASE record # client[c]
    BY <1>1, <1>10, <2>2 DEF Remember, Result
  <2>3. QED
    BY <2>1, <2>2
<1>11. CASE Certificate(c)
  <2>1. result'[c].owner = result[c].owner /\ result'[c].host = result[c].host
    BY <1>1, <1>11 DEF Certificate, Results
  <2>2. result[c].host.id = client[c].id /\ result[c].owner.id = client[c].id
    BY <1>11 DEF Certificate, Ids, Posted
  <2>3. QED
    BY <1>2, <1>3, <2>1, <2>2
<1>12. CASE Fallback(c)
  <2>1. /\ result'[c].owner = result[c].owner
        /\ result'[c].host = IF result[c].host = Nobody THEN record ELSE result[c].host
        /\ result'[c].pair = result[c].pair
    BY <1>1, <1>12 DEF Fallback, Results
  <2>2. CASE result[c].host = Nobody
    BY <1>2, <1>3, <2>1, <2>2
  <2>3. CASE result[c].host # Nobody
    BY <1>5, <2>1, <2>3
  <2>4. QED
    BY <2>2, <2>3
<1>13. CASE Cached(c) /\ result'[c] # result[c]
  <2>1. /\ result'[c].host = result[c].host /\ result[c].host # Nobody
        /\ result'[c].owner \in {result[c].owner, Nobody, result[c].host}
    BY <1>1, <1>13 DEF Cached, Result
  <2>2. Later(result[c])
    BY <1>5, <2>1
  <2>3. QED
    BY <1>2, <1>3, <2>1, <2>2
<1>14. QED
  <2>1. CASE Idle(c) \/ Recover(c) \/ Register(c) \/ CertificateRefused(c) \/ Commit(c) \/ CommitRelay(c)
    BY <1>6, <2>1 DEF Idle, Recover, Register, CertificateRefused, Commit, CommitRelay
  <2>2. CASE RegisterFails(c) \/ LockTimesOut(c) \/ Finish(c)
    BY <1>6, <1>8, <2>2 DEF RegisterFails, LockTimesOut, Finish
  <2>3. QED
    BY <1>6, <1>7, <1>8, <1>9, <1>10, <1>11, <1>12, <1>13, <2>1, <2>2, OwnSteps DEF Own, Step

LEMMA RelayOwnsStep ==
  ASSUME TypeOK, Ids, [Next]_vars
  PROVE  RelayOwns'
<1> SUFFICES ASSUME NEW c \in Relay
             PROVE  /\ pc'[c] \notin {"remember", "certificate", "fallback", "cached"}
                    /\ pc'[c] \in {"finish", "commit"} => result'[c].owner.id # 0
  BY DEF RelayOwns
<1>1. c \in Caller /\ c \notin Loop
  BY RolesDiffer DEF Caller
<1>2. pc \in [Caller -> Places] /\ client \in [Caller -> Identities] /\ result \in [Caller -> Results]
  BY DEF TypeOK
<1>3. /\ pc[c] \notin {"remember", "certificate", "fallback", "cached"}
      /\ pc[c] \in {"finish", "commit"} => result[c].owner.id # 0
  BY DEF Ids, RelayOwns
<1>4. CASE Idle(c)
  BY <1>3, <1>4 DEF Idle
<1>5. CASE GiveUp(c) \/ Unsure(c)
  BY <1>1, <1>5, EndKeeps
<1>6. CASE Post(c) /\ ~GiveUp(c)
  <2>1. CASE client[c].id \in known
    <3>1. pc'[c] = "finish" /\ result'[c].owner = client[c]
      BY <1>1, <1>2, <1>6, <2>1 DEF Post, Goto, Result
    <3>2. client[c].id # 0
      BY <2>1, IdsAreNumbers
    <3>3. QED
      BY <3>1, <3>2
  <2>2. CASE client[c].id \notin known
    BY <1>1, <1>2, <1>6, <2>2 DEF Post, Goto
  <2>3. QED
    BY <2>1, <2>2
<1>7. CASE Begin(c) \/ Recover(c) \/ Register(c)
  BY <1>1, <1>2, <1>7 DEF Begin, Recover, Register, Use, Goto
<1>8. CASE Finish(c) /\ ~Unsure(c)
  BY <1>1, <1>2, <1>3, <1>8 DEF Finish, Goto
<1>9. CASE Commit(c) \/ CommitRelay(c)
  BY <1>1, <1>2, <1>9 DEF Commit, CommitRelay, Goto
<1>10. QED
  <2>1. CASE RegisterFails(c) \/ PostFails(c) \/ LockTimesOut(c)
    BY <1>1, <1>3, <1>5, <2>1 DEF RegisterFails, PostFails, LockTimesOut
  <2>2. ~(Remember(c) \/ Certificate(c) \/ CertificateRefused(c) \/ Fallback(c) \/ Cached(c))
    BY <1>3 DEF Remember, Certificate, CertificateRefused, Fallback, Cached
  <2>3. QED
    BY <1>1, <1>4, <1>5, <1>6, <1>7, <1>8, <1>9, <2>1, <2>2, OwnSteps DEF Own, Step

LEMMA IdsStep == TypeOK /\ Ids /\ [Next]_vars => Ids'
  BY ReplacingStep, RefusedStep, RecordIsNewestStep, PostedStep, HostIsLaterStep, RelayOwnsStep DEF Ids

LEMMA IdsAlways == Spec => [](TypeOK /\ Ids)
  BY TypeStart, TypeStep, IdsStart, IdsStep, PTL DEF Spec

\* install.json gives up an install only when the broker has forgotten it, and
\* only for a later one (activate.go:387).
THEOREM IdentityStays == Spec => IdentityKept
<1>1. TypeOK /\ Ids /\ [Next]_vars
        => [record'.id # record.id => record.id \notin known /\ record'.id > record.id]_vars
  <2> SUFFICES ASSUME TypeOK, Ids, [Next]_vars, record'.id # record.id
               PROVE  record.id \notin known /\ record'.id > record.id
    OBVIOUS
  <2>1. PICK c \in Caller : Register(c) /\ record'.id = minted + 1
    BY RecordMoves DEF Ids
  <2>2. record.id \notin known
    BY <2>1 DEF Register, Ids, Replacing
  <2>3. record'.id > record.id
    BY <2>1, IdsAreNumbers
  <2>4. QED
    BY <2>2, <2>3
<1>2. QED
  BY <1>1, IdsAlways, PTL DEF Spec, IdentityKept

\* What an attempt was told under an install is shown, and its credentials are
\* used, only while install.json holds that install (activate.go:584).
THEOREM NothingStaleIsCommitted == Spec => CommitsAreCurrent
<1> DEFINE Current ==
      /\ creds' # creds => creds' = record.id
      /\ \A c \in Loop :
           shown' # shown /\ pc[c] = "commit" /\ pc'[c] = "idle" /\ result[c].owner # Nobody
             => shown'.id = record.id
<1>1. TypeOK /\ Ids /\ [Next]_vars => [Current]_vars
  <2> SUFFICES ASSUME TypeOK, Ids, [Next]_vars PROVE Current
    OBVIOUS
  <2>1. ASSUME creds' # creds PROVE creds' = record.id
    <3>1. PICK c \in Relay : CommitRelay(c)
      BY <2>1 DEF Next, vars, server, Step, Begin, Recover, Register, RegisterFails, Post,
        PostFails, Remember, LockTimesOut, Certificate, CertificateRefused, Finish, Fallback,
        Cached, Commit, CommitRelay, Forget, Move, ComesDue
    <3>2. creds' = result[c].owner.id /\ result[c].owner \in {Nobody, record}
      BY <2>1, <3>1 DEF CommitRelay, Accepted
    <3>3. result[c].owner.id # 0
      BY <3>1 DEF CommitRelay, Ids, RelayOwns
    <3>4. QED
      BY <3>2, <3>3, IdsAreNumbers
  <2>2. ASSUME NEW c \in Loop, shown' # shown, pc[c] = "commit", pc'[c] = "idle", result[c].owner # Nobody
        PROVE  shown'.id = record.id
    <3>1. PICK d \in Loop : Commit(d)
      BY <2>2 DEF Next, vars, server, Step, Begin, Recover, Register, RegisterFails, Post,
        PostFails, Remember, LockTimesOut, Certificate, CertificateRefused, Finish, Fallback,
        Cached, Commit, CommitRelay, Forget, Move, ComesDue
    <3>2. c = d
      BY <2>2, <3>1 DEF Commit, Goto, TypeOK, Caller
    <3>3. shown' = result[c].host /\ result[c].owner = record /\ result[c].pair # NoPair
      BY <2>2, <3>1, <3>2 DEF Commit, Accepted
    <3>4. result[c].owner.id <= result[c].host.id /\ result[c].host.id <= record.id
      BY <3>3 DEF Ids, HostIsLater, Caller
    <3>5. record.id \in Nat /\ result[c].host.id \in Nat
      BY IdsAreNumbers DEF Caller
    <3>6. QED
      BY <3>3, <3>4, <3>5
  <2>3. QED
    BY <2>1, <2>2
<1>2. QED
  BY <1>1, IdsAlways, PTL DEF Spec, CommitsAreCurrent

-----------------------------------------------------------------------------
(* How many installs there are.                                            *)

\* Installs the broker knows and this Mac does not.
Orphans == known \ {record.id}

\* Every install given out is known or was forgotten, and each orphan has cost
\* a registration whose answer was lost.
Accounted ==
  /\ IsFiniteSet(known)
  /\ Cardinality(known) + happened["forget"] = minted
  /\ Cardinality(Orphans) <= happened["fault"]

LEMMA AccountedStart == Init => Accounted
<1> SUFFICES ASSUME Init PROVE Accounted
  OBVIOUS
<1>1. known = {} /\ Orphans = {} /\ happened["forget"] = 0 /\ happened["fault"] = 0 /\ minted = 0
  BY DEF Init, Orphans
<1>2. IsFiniteSet({}) /\ Cardinality({}) = 0
  BY FS_EmptySet
<1>3. QED
  BY <1>1, <1>2 DEF Accounted

LEMMA AccountedStep ==
  ASSUME TypeOK, Ids, Accounted, [Next]_vars
  PROVE  Accounted'
<1>1. /\ IsFiniteSet(known) /\ Cardinality(known) \in Nat
      /\ IsFiniteSet(Orphans) /\ Cardinality(Orphans) \in Nat
  BY FS_CardinalityType, FS_Subset DEF Accounted, Orphans
<1>2. happened["forget"] \in Nat /\ happened["fault"] \in Nat /\ minted \in Nat
  BY DEF TypeOK
<1>3. minted + 1 \notin known
  BY IdsAreNumbers
<1> DEFINE new == known \cup {minted + 1}
<1>4. IsFiniteSet(new) /\ Cardinality(new) = Cardinality(known) + 1
  BY <1>1, <1>3, FS_AddElement
<1> HIDE DEF new
<1>5. ASSUME NEW c \in Caller, Register(c) PROVE Accounted'
  <2>1. /\ known' = new /\ minted' = minted + 1 /\ record'.id = minted + 1 /\ happened' = happened
    BY <1>5 DEF Register, Identity, new
  <2>2. Orphans' = known /\ Orphans = known
    BY <1>3, <1>5, <2>1 DEF Orphans, Register, Ids, Replacing, new
  <2>3. QED
    BY <1>1, <1>2, <1>4, <2>1, <2>2 DEF Accounted
<1>6. ASSUME NEW c \in Caller, RegisterFails(c) PROVE Accounted'
  <2>1. /\ record' = record /\ happened'["forget"] = happened["forget"]
        /\ happened'["fault"] = happened["fault"] + 1
    BY <1>6 DEF RegisterFails, Fault, Count, TypeOK
  <2>2. CASE known' = known /\ minted' = minted
    <3>1. Orphans' = Orphans
      BY <2>1, <2>2 DEF Orphans
    <3>2. QED
      BY <1>1, <1>2, <2>1, <2>2, <3>1 DEF Accounted
  <2>3. CASE known' = new /\ minted' = minted + 1
    <3>1. minted + 1 # record.id
      BY IdsAreNumbers
    <3>2. Orphans' = Orphans \cup {minted + 1}
      BY <2>1, <2>3, <3>1 DEF Orphans, new
    <3>3. Cardinality(Orphans') = Cardinality(Orphans) + 1
      BY <1>1, <1>3, <3>2, FS_AddElement DEF Orphans
    <3>4. QED
      BY <1>1, <1>2, <1>4, <2>1, <2>3, <3>3 DEF Accounted
  <2>4. QED
    BY <1>6, <2>2, <2>3 DEF RegisterFails, new
<1>7. CASE Forget
  <2>1. PICK i \in known : known' = known \ {i}
    BY <1>7 DEF Forget
  <2>2. /\ record' = record /\ minted' = minted /\ happened'["forget"] = happened["forget"] + 1
        /\ happened'["fault"] = happened["fault"]
    BY <1>7 DEF Forget, Count, TypeOK
  <2>3. IsFiniteSet(known') /\ Cardinality(known') = Cardinality(known) - 1
    BY <1>1, <2>1, FS_RemoveElement
  <2>4. Cardinality(Orphans') <= Cardinality(Orphans) /\ Cardinality(Orphans') \in Nat
    <3>1. Orphans' \subseteq Orphans
      BY <2>1, <2>2 DEF Orphans
    <3>2. QED
      BY <1>1, <3>1, FS_Subset, FS_CardinalityType
  <2>5. QED
    BY <1>1, <1>2, <2>2, <2>3, <2>4 DEF Accounted
<1>8. CASE ~\E c \in Caller : Register(c) \/ RegisterFails(c)
  <2>1. CASE ~Forget
    <3>1. known' = known /\ minted' = minted
      BY <1>8, <2>1 DEF Next, vars, broker, disk, server, Step, Begin, Recover, Post,
        PostFails, Remember, LockTimesOut, Certificate, CertificateRefused, Finish, Fallback,
        Cached, Commit, CommitRelay, Move, ComesDue
    <3>2. record'.id = record.id
      BY <1>8, RecordMoves DEF Ids
    <3>3. happened' = happened \/ Fault \/ Count("renewal", MaxRenewals)
      BY <1>8, <2>1 DEF Next, vars, Step, Begin, Recover, Post, PostFails, Remember,
        LockTimesOut, Certificate, CertificateRefused, Finish, Fallback, Cached, Commit,
        CommitRelay, Move, ComesDue
    <3>4. /\ happened'["forget"] = happened["forget"]
          /\ happened'["fault"] \in {happened["fault"], happened["fault"] + 1}
      BY <3>3 DEF Fault, Count, TypeOK
    <3>5. Orphans' = Orphans
      BY <3>1, <3>2 DEF Orphans
    <3>6. QED
      BY <1>1, <1>2, <3>1, <3>4, <3>5 DEF Accounted
  <2>2. QED
    BY <1>7, <2>1
<1>9. QED
  BY <1>5, <1>6, <1>8

\* Callers that the broker refuses together share one replacement: an install
\* is given out for first use, for a forgotten one or where an answer was lost
\* (activate.go:536).
THEOREM ReplacedOnce == Spec => []OneReplacement
<1>1. TypeOK /\ Accounted => OneReplacement
  <2> SUFFICES ASSUME TypeOK, Accounted PROVE OneReplacement
    OBVIOUS
  <2>1. Cardinality(known) <= Cardinality(Orphans) + 1
    <3>1. IsFiniteSet(known) /\ Cardinality(known) \in Nat
      BY FS_CardinalityType DEF Accounted
    <3>2. CASE record.id \in known
      <4>1. Cardinality(Orphans) = Cardinality(known) - 1
        BY <3>1, <3>2, FS_RemoveElement DEF Orphans
      <4>2. QED
        BY <3>1, <4>1
    <3>3. CASE record.id \notin known
      <4>1. Orphans = known
        BY <3>3 DEF Orphans
      <4>2. QED
        BY <3>1, <4>1
    <3>4. QED
      BY <3>2, <3>3
  <2>2. Cardinality(known) \in Nat /\ Cardinality(Orphans) \in Nat
    BY FS_CardinalityType, FS_Subset DEF Accounted, Orphans
  <2>3. happened["forget"] \in Nat /\ happened["fault"] \in Nat /\ minted \in Nat
    BY DEF TypeOK
  <2>4. QED
    BY <2>1, <2>2, <2>3 DEF Accounted, OneReplacement
<1>2. Spec => []Accounted
  BY IdsAlways, AccountedStart, AccountedStep, PTL DEF Spec
<1>3. QED
  BY <1>1, <1>2, TypeCorrect, PTL

=============================================================================

-------------------------- MODULE LoginGuardProofs --------------------------
(***************************************************************************)
(* Theorems about LoginGuard, for any number of concurrent logins, any     *)
(* emails and addresses, any limit and any failures of Redis and Postgres: *)
(* the types, CounterBound and LockedOutUnverified.                        *)
(***************************************************************************)
EXTENDS LoginGuard, FiniteSetTheorems, TLAPS

USE GuardAssumption

\* A request under way has an email, and one that is about to count for an
\* address has an address.
LocalOK(q) ==
    /\ q.pc # "idle" => q.email \in Emails
    /\ q.pc \in {"incrIP", "ttlIP"} => q.ip \in IPs

Types == TypeOK /\ \A r \in Reqs : LocalOK(req[r])

\* A request that may still increment the counter k: it has read k in Redis
\* below the limit and has not incremented it.
Pends(q, k) ==
    /\ k \notin q.fell
    /\ \/ /\ q.email = k
          /\ \/ q.pc \in {"verify", "failedEmail", "failedIP", "incrEmail"}
             \/ q.pc = "precheckIP" /\ ~ q.full
       \/ /\ q.ip = k
          /\ q.pc \in {"verify", "failedEmail", "failedIP", "incrEmail", "ttlEmail",
                       "incrIP"}

Pending(k) == {r \in Reqs : Pends(req[r], k)}

\* The hopeless counters of a request are still at the limit, and one that was
\* not read in Redis is one the request fell back for.
Doomed(q) ==
    /\ q.hopeless \subseteq {q.email, q.ip}
    /\ \A k \in q.hopeless : AtLimit(count[k])
    /\ q.pc = "precheckIP" /\ q.email \in q.hopeless => q.full \/ q.email \in q.fell
    /\ q.pc = "verify" => q.hopeless \subseteq q.fell
    /\ q.pc \notin {"firewall", "precheckEmail", "precheckIP", "verify"} =>
           q.hopeless = {}

HopelessInv == \A r \in Reqs : Doomed(req[r])

-----------------------------------------------------------------------------
(* What a step of a login does to its request.                             *)

LEMMA NoReqType ==
    /\ NoReq \in Req /\ LocalOK(NoReq)
    /\ NoReq.pc = "idle" /\ NoReq.hopeless = {}
BY DEF NoReq, Req, LocalOK, Labels

\* The request r is well formed after the step and the others are unchanged.
Local(r) ==
    /\ req' \in [Reqs -> Req]
    /\ \A s \in Reqs : LocalOK(req'[s])
    /\ \A s \in Reqs \ {r} : req'[s] = req[s]

LEMMA ReqUpdate ==
    ASSUME Types, NEW r \in Reqs, NEW q \in Req, LocalOK(q),
           req' = [req EXCEPT ![r] = q]
    PROVE  Local(r) /\ req'[r] = q
BY DEF Types, TypeOK, Local

Same(r) ==
    /\ req'[r].email = req[r].email /\ req'[r].ip = req[r].ip
    /\ req'[r].hopeless = req[r].hopeless

\* The request is answered, or has only to store what it is refused for.
Ended(r) ==
    /\ req'[r].pc \in {"idle", "block", "record"}
    /\ req'[r].hopeless = {}
    /\ UNCHANGED <<count, unguarded>>

\* A call that changes no count and reads none that matters.
Moved(r) ==
    /\ Same(r) /\ req'[r].fell = req[r].fell
    /\ \/ req[r].pc = "firewall" /\ req'[r].pc = "precheckEmail"
       \/ req[r].pc = "failedEmail" /\ req'[r].pc = "failedIP"
       \/ req[r].pc = "failedIP" /\ req'[r].pc = "incrEmail"
       \/ req[r].pc \in {"incrEmail", "ttlEmail"} /\ req'[r].pc = "incrIP"
    /\ UNCHANGED <<count, unguarded>>

\* The prechecks: a count that is not from the table is the one in Redis.
ReadEmail(r) ==
    /\ req[r].pc = "precheckEmail" /\ req'[r].pc = "precheckIP"
    /\ Same(r)
    /\ req[r].email \in req'[r].fell \/ (AtLimit(count[req[r].email]) => req'[r].full)
    /\ req[r].email \in req'[r].fell \/ (req'[r].full => AtLimit(count[req[r].email]))
    /\ UNCHANGED <<count, unguarded>>

ReadIP(r) ==
    /\ req[r].pc = "precheckIP" /\ req'[r].pc = "verify"
    /\ Same(r)
    /\ ~ req[r].full /\ req[r].fell \subseteq req'[r].fell
    /\ req[r].ip # None =>
           req[r].ip \in req'[r].fell \/ ~ AtLimit(count[req[r].ip])
    /\ UNCHANGED <<count, unguarded>>

\* The password is wrong.
Refuted(r) ==
    /\ req[r].pc = "verify" /\ req'[r].pc = "failedEmail"
    /\ req'[r].email = req[r].email /\ req'[r].ip = req[r].ip
    /\ req'[r].fell = req[r].fell /\ req'[r].hopeless = {}
    /\ UNCHANGED <<count, unguarded>>

\* The counter k is incremented.
Counted(r, k) ==
    /\ \/ req[r].pc = "incrEmail" /\ req'[r].pc = "ttlEmail" /\ k = req[r].email
       \/ req[r].pc = "incrIP" /\ req'[r].pc = "ttlIP" /\ k = req[r].ip
    /\ k \in Keys
    /\ Same(r) /\ req'[r].fell = req[r].fell \ {k}
    /\ count' = [count EXCEPT ![k] = @ + 1]
    /\ unguarded' = unguarded \cup ({k} \cap req[r].fell)

Effect(r) ==
    \/ Ended(r) \/ Moved(r) \/ ReadEmail(r) \/ ReadIP(r) \/ Refuted(r)
    \/ \E k \in Keys : Counted(r, k)

LEMMA AnswerShape ==
    ASSUME Types, NEW r \in Reqs, Answer(r)
    PROVE  Local(r) /\ req'[r].pc = "idle" /\ req'[r].hopeless = {}
BY ReqUpdate, NoReqType DEF Answer

LEMMA LeaveShape ==
    ASSUME Types, NEW r \in Reqs, req[r].pc # "idle", NEW l \in {"block", "record"},
           Leave(r, l)
    PROVE  Local(r) /\ req'[r].pc = l /\ req'[r].hopeless = {}
<1> DEFINE q == [NoReq EXCEPT !.pc = l, !.email = req[r].email, !.ip = req[r].ip]
<1>1. req[r] \in Req /\ LocalOK(req[r])
    BY DEF Types, TypeOK
<1>2. q \in Req /\ LocalOK(q) /\ q.pc = l /\ q.hopeless = {}
    BY <1>1 DEF NoReq, Req, LocalOK, Labels
<1>3. req' = [req EXCEPT ![r] = q]
    BY DEF Leave
<1> HIDE DEF q
<1> QED BY <1>2, <1>3, ReqUpdate

LEMMA GotoShape ==
    ASSUME Types, NEW r \in Reqs, NEW l \in Labels, Goto(r, l), req[r].pc # "idle",
           l \in {"incrIP", "ttlIP"} => req[r].ip \in IPs
    PROVE  Local(r) /\ Same(r) /\ req'[r].pc = l /\ req'[r].fell = req[r].fell
<1> DEFINE q == [req[r] EXCEPT !.pc = l]
<1>1. req[r] \in Req /\ LocalOK(req[r])
    BY DEF Types, TypeOK
<1>2. /\ q \in Req /\ LocalOK(q) /\ q.pc = l /\ q.fell = req[r].fell
      /\ q.email = req[r].email /\ q.ip = req[r].ip /\ q.hopeless = req[r].hopeless
    BY <1>1 DEF Req, LocalOK
<1>3. req' = [req EXCEPT ![r] = q]
    BY DEF Goto, Types, TypeOK
<1> HIDE DEF q
<1> QED BY <1>2, <1>3, ReqUpdate DEF Same

LEMMA DecideShape ==
    ASSUME Types, NEW r \in Reqs, req[r].pc # "idle", Decide(r)
    PROVE  Local(r) /\ req'[r].pc \in {"block", "record"} /\ req'[r].hopeless = {}
BY LeaveShape DEF Decide

LEMMA AfterEmailShape ==
    ASSUME Types, NEW r \in Reqs, req[r].pc \in {"incrEmail", "ttlEmail"},
           AfterEmail(r), UNCHANGED <<count, unguarded>>
    PROVE  Local(r) /\ (Ended(r) \/ Moved(r))
<1>1. CASE req[r].ip = None
    BY <1>1, DecideShape DEF AfterEmail, Ended
<1>2. CASE req[r].ip # None
    <2>1. req[r].ip \in IPs
        BY <1>2 DEF Types, TypeOK, Req
    <2> QED BY <1>2, <2>1, GotoShape DEF AfterEmail, Labels, Moved
<1> QED BY <1>1, <1>2

\* Where a count comes from.
LEMMA CountsShape ==
    ASSUME Types, NEW k \in Keys \cup {None}, NEW c \in Counts(k)
    PROVE  /\ c.fell \subseteq Keys
           /\ k \in Keys => k \in c.fell \/ c.n = count[k]
<1>1. None \notin Keys
    BY DEF Keys
<1>2. CASE k = None
    BY <1>1, <1>2 DEF Counts
<1>3. CASE k # None
    <2>1. c \in {[n |-> count[k], fell |-> {}], [n |-> stored[k], fell |-> {k}]}
        BY <1>3 DEF Counts
    <2> QED BY <1>3, <2>1
<1> QED BY <1>2, <1>3

LEMMA IncrementedShape ==
    ASSUME Types, NEW r \in Reqs, NEW k \in Keys, NEW next, Incremented(r, k, next),
           \/ req[r].pc = "incrEmail" /\ next = "ttlEmail" /\ k = req[r].email
           \/ req[r].pc = "incrIP" /\ next = "ttlIP" /\ k = req[r].ip
    PROVE  Local(r) /\ Counted(r, k)
<1> DEFINE q == [req[r] EXCEPT !.pc = next, !.fell = @ \ {k}]
<1>1. req[r] \in Req /\ LocalOK(req[r])
    BY DEF Types, TypeOK
<1>2. /\ q \in Req /\ LocalOK(q) /\ q.pc = next /\ q.fell = req[r].fell \ {k}
      /\ q.email = req[r].email /\ q.ip = req[r].ip /\ q.hopeless = req[r].hopeless
    BY <1>1 DEF Req, LocalOK, Labels
<1>3. req' = [req EXCEPT ![r] = q]
    BY DEF Incremented, Types, TypeOK
<1> HIDE DEF q
<1>4. Local(r) /\ req'[r] = q
    BY <1>2, <1>3, ReqUpdate
<1> QED BY <1>2, <1>4 DEF Counted, Same, Incremented

LEMMA PrecheckShape ==
    ASSUME Types, NEW r \in Reqs, PrecheckEmail(r) \/ PrecheckIP(r)
    PROVE  Local(r) /\ Effect(r)
<1>q. req[r] \in Req /\ LocalOK(req[r])
    BY DEF Types, TypeOK
<1>1. CASE Answer(r)
    BY <1>1, AnswerShape DEF PrecheckEmail, PrecheckIP, Ended, Effect
<1>2. CASE PrecheckEmail(r) /\ ~ Answer(r)
    <2>1. /\ req[r].pc = "precheckEmail" /\ req[r].email \in Keys
          /\ UNCHANGED <<count, unguarded>>
        BY <1>2, <1>q DEF PrecheckEmail, LocalOK, Keys
    <2>2. PICK c \in Counts(req[r].email) :
             req' = [req EXCEPT ![r].pc = "precheckIP", ![r].full = AtLimit(c.n),
                                ![r].fell = c.fell]
        BY <1>2 DEF PrecheckEmail
    <2>3. c.fell \subseteq Keys /\ (req[r].email \in c.fell \/ c.n = count[req[r].email])
        BY <2>1, CountsShape
    <2>4. PICK full \in BOOLEAN : full <=> AtLimit(c.n)
        OBVIOUS
    <2>5. full = AtLimit(c.n)
        BY <2>4 DEF AtLimit
    <2> DEFINE q == [req[r] EXCEPT !.pc = "precheckIP", !.full = full, !.fell = c.fell]
    <2>6. /\ q \in Req /\ LocalOK(q) /\ q.pc = "precheckIP"
          /\ q.fell = c.fell /\ q.full = full
          /\ q.email = req[r].email /\ q.ip = req[r].ip /\ q.hopeless = req[r].hopeless
        BY <1>q, <2>1, <2>3 DEF Req, LocalOK, Labels
    <2>7. req' = [req EXCEPT ![r] = q]
        BY <2>2, <2>5 DEF Types, TypeOK
    <2> HIDE DEF q
    <2>8. Local(r) /\ req'[r] = q
        BY <2>6, <2>7, ReqUpdate
    <2>9. req'[r].full <=> AtLimit(c.n)
        BY <2>4, <2>6, <2>8
    <2> QED BY <2>1, <2>3, <2>6, <2>8, <2>9 DEF ReadEmail, Same, Effect
<1>3. CASE PrecheckIP(r) /\ ~ Answer(r)
    <2>1. /\ req[r].pc = "precheckIP" /\ req[r].ip \in Keys \cup {None}
          /\ UNCHANGED <<count, unguarded>>
        BY <1>3, <1>q DEF PrecheckIP, Req, Keys
    <2>2. PICK c \in Counts(req[r].ip) :
             Prechecked(r, req[r].full \/ AtLimit(c.n), c.fell)
        BY <1>3 DEF PrecheckIP
    <2>3. /\ c.fell \subseteq Keys
          /\ req[r].ip \in Keys => req[r].ip \in c.fell \/ c.n = count[req[r].ip]
        BY <2>1, CountsShape
    <2>4. CASE req[r].full \/ AtLimit(c.n)
        BY <2>1, <2>2, <2>4, LeaveShape DEF Prechecked, Ended, Effect
    <2>5. CASE ~ (req[r].full \/ AtLimit(c.n))
        <3> DEFINE q == [req[r] EXCEPT !.pc = "verify", !.fell = @ \cup c.fell]
        <3>1. /\ q \in Req /\ LocalOK(q) /\ q.pc = "verify"
              /\ q.fell = req[r].fell \cup c.fell
              /\ q.email = req[r].email /\ q.ip = req[r].ip
              /\ q.hopeless = req[r].hopeless
            BY <1>q, <2>1, <2>3 DEF Req, LocalOK, Labels
        <3>2. req' = [req EXCEPT ![r] = q]
            BY <2>2, <2>5 DEF Prechecked, Types, TypeOK
        <3> HIDE DEF q
        <3>3. Local(r) /\ req'[r] = q
            BY <3>1, <3>2, ReqUpdate
        <3> QED BY <2>1, <2>3, <2>5, <3>1, <3>3 DEF ReadIP, Same, Effect
    <2> QED BY <2>4, <2>5
<1> QED BY <1>1, <1>2, <1>3

LEMMA FailedShape ==
    ASSUME Types, NEW r \in Reqs, FailedEmail(r) \/ FailedIP(r)
    PROVE  Local(r) /\ Effect(r)
<1>q. req[r] \in Req /\ LocalOK(req[r])
    BY DEF Types, TypeOK
<1>1. CASE Answer(r)
    BY <1>1, AnswerShape DEF FailedEmail, FailedIP, Ended, Effect
<1>2. ASSUME NEW l \in {"failedIP", "incrEmail"}, NEW full \in BOOLEAN,
             req[r].pc = IF l = "failedIP" THEN "failedEmail" ELSE "failedIP",
             req' = [req EXCEPT ![r].pc = l, ![r].full = full],
             UNCHANGED <<count, unguarded>>
      PROVE  Local(r) /\ Effect(r)
    <2> DEFINE q == [req[r] EXCEPT !.pc = l, !.full = full]
    <2>1. /\ q \in Req /\ LocalOK(q) /\ q.pc = l /\ q.fell = req[r].fell
          /\ q.email = req[r].email /\ q.ip = req[r].ip /\ q.hopeless = req[r].hopeless
        BY <1>q, <1>2 DEF Req, LocalOK, Labels
    <2>2. req' = [req EXCEPT ![r] = q]
        BY <1>2 DEF Types, TypeOK
    <2> HIDE DEF q
    <2>3. Local(r) /\ req'[r] = q
        BY <2>1, <2>2, ReqUpdate
    <2> QED BY <1>2, <2>1, <2>3 DEF Moved, Same, Effect
<1>3. CASE FailedEmail(r) /\ ~ Answer(r)
    <2>1. PICK c \in Counts(req[r].email) :
             req' = [req EXCEPT ![r].pc = "failedIP", ![r].full = AtLimit(c.n + 1)]
        BY <1>3 DEF FailedEmail
    <2>2. AtLimit(c.n + 1) \in BOOLEAN
        BY DEF AtLimit
    <2> QED BY <1>2, <1>3, <2>1, <2>2 DEF FailedEmail
<1>4. CASE FailedIP(r) /\ ~ Answer(r)
    <2>1. PICK c \in Counts(req[r].ip) :
             req' = [req EXCEPT ![r].pc = "incrEmail",
                                ![r].full = @ \/ (req[r].ip # None /\ AtLimit(c.n + 1))]
        BY <1>4 DEF FailedIP
    <2>2. PICK full \in BOOLEAN :
             full = (req[r].full \/ (req[r].ip # None /\ AtLimit(c.n + 1)))
        OBVIOUS
    <2>3. req' = [req EXCEPT ![r].pc = "incrEmail", ![r].full = full]
        BY <1>q, <2>1, <2>2 DEF Types, TypeOK, Req
    <2> QED BY <1>2, <1>4, <2>3 DEF FailedIP
<1> QED BY <1>1, <1>3, <1>4

LEMMA StepShape ==
    ASSUME Types, NEW r \in Reqs, LoginStep(r)
    PROVE  Local(r) /\ Effect(r)
<1>q. req[r] \in Req /\ LocalOK(req[r])
    BY DEF Types, TypeOK
<1>1. CASE CheckFirewall(r)
    BY <1>1, AnswerShape, LeaveShape, GotoShape
    DEF CheckFirewall, Labels, Ended, Moved, Effect
<1>2. CASE PrecheckEmail(r) \/ PrecheckIP(r)
    BY <1>2, PrecheckShape
<1>3. CASE FailedEmail(r) \/ FailedIP(r)
    BY <1>3, FailedShape
<1>4. CASE Block(r) \/ RecordFailure(r)
    BY <1>4, AnswerShape DEF Block, RecordFailure, Ended, Effect
<1>5. CASE Verify(r)
    <2>1. CASE Answer(r)
        BY <1>5, <2>1, AnswerShape DEF Verify, Ended, Effect
    <2>2. CASE Leave(r, "record")
        BY <1>5, <2>2, LeaveShape DEF Verify, Ended, Effect
    <2>3. CASE req' = [req EXCEPT ![r].pc = "failedEmail", ![r].hopeless = {}]
        <3> DEFINE q == [req[r] EXCEPT !.pc = "failedEmail", !.hopeless = {}]
        <3>1. /\ q \in Req /\ LocalOK(q) /\ q.pc = "failedEmail"
              /\ q.fell = req[r].fell /\ q.email = req[r].email
              /\ q.ip = req[r].ip /\ q.hopeless = {}
            BY <1>5, <1>q DEF Verify, Req, LocalOK, Labels
        <3>2. req' = [req EXCEPT ![r] = q]
            BY <2>3 DEF Types, TypeOK
        <3> HIDE DEF q
        <3>3. Local(r) /\ req'[r] = q
            BY <3>1, <3>2, ReqUpdate
        <3> QED BY <1>5, <3>1, <3>3 DEF Verify, Refuted, Effect
    <2> QED BY <1>5, <2>1, <2>2, <2>3 DEF Verify
<1>6. CASE IncrementEmail(r)
    <2>1. req[r].pc = "incrEmail" /\ req[r].email \in Keys
        BY <1>6, <1>q DEF IncrementEmail, LocalOK, Keys
    <2> QED BY <1>6, <2>1, AfterEmailShape, IncrementedShape DEF IncrementEmail, Effect
<1>7. CASE IncrementIP(r)
    <2>1. req[r].pc = "incrIP" /\ req[r].ip \in Keys
        BY <1>7, <1>q DEF IncrementIP, LocalOK, Keys
    <2>2. CASE Decide(r) /\ UNCHANGED <<count, unguarded>>
        BY <2>1, <2>2, DecideShape DEF Ended, Effect
    <2>3. CASE Incremented(r, req[r].ip, "ttlIP")
        BY <2>1, <2>3, IncrementedShape DEF Effect
    <2> QED BY <1>7, <2>2, <2>3 DEF IncrementIP
<1>8. CASE ExpireEmail(r)
    BY <1>8, AfterEmailShape DEF ExpireEmail, Effect
<1>9. CASE ExpireIP(r)
    BY <1>9, DecideShape DEF ExpireIP, Ended, Effect
<1> QED BY <1>1, <1>2, <1>3, <1>4, <1>5, <1>6, <1>7, <1>8, <1>9 DEF LoginStep

-----------------------------------------------------------------------------
(* Types.                                                                  *)

LEMMA InitTypes == Init => Types
<1> SUFFICES ASSUME Init PROVE Types
    OBVIOUS
<1>1. \A r \in Reqs : req[r] = NoReq
    BY DEF Init
<1>2. req \in [Reqs -> Req]
    BY NoReqType DEF Init
<1>3. TypeOK
    BY <1>2 DEF Init, TypeOK, Keys
<1> QED BY <1>1, <1>3, NoReqType DEF Types

LEMMA LoginStepTypes ==
    ASSUME Types, NEW r \in Reqs, LoginStep(r)
    PROVE  Types'
<1>q. req[r] \in Req /\ LocalOK(req[r]) /\ Local(r) /\ Effect(r)
    BY StepShape DEF Types, TypeOK
<1>1. /\ count' \in [Keys -> Nat] /\ unguarded' \subseteq Keys
      /\ \A k \in Keys : count'[k] >= count[k]
    BY <1>q DEF Effect, Ended, Moved, ReadEmail, ReadIP, Refuted, Counted, Types, TypeOK
<1>2. ttl' \subseteq {k \in Keys : count'[k] > 0} /\ lost' \subseteq Keys
    <2>1. CASE ExpireEmail(r) \/ ExpireIP(r)
        <3>1. count' = count
            BY <2>1 DEF ExpireEmail, ExpireIP
        <3>2. PICK k \in Keys : Expire(r, k)
            BY <1>q, <2>1 DEF ExpireEmail, ExpireIP, LocalOK, Keys
        <3>3. Live(k) \subseteq {x \in Keys : count[x] > 0}
            BY DEF Live
        <3> QED BY <3>1, <3>2, <3>3 DEF Expire, Types, TypeOK
    <2>2. CASE ~ (ExpireEmail(r) \/ ExpireIP(r))
        <3>1. UNCHANGED <<ttl, lost>>
            BY <2>2 DEF LoginStep, CheckFirewall, PrecheckEmail, PrecheckIP, Block,
               Verify, FailedEmail, FailedIP, IncrementEmail, IncrementIP, RecordFailure
        <3> QED BY <1>1, <3>1 DEF Types, TypeOK
    <2> QED BY <2>1, <2>2
<1>3. blocked' \subseteq IPs
    <2>1. CASE Block(r)
        BY <1>q, <2>1 DEF Block, blockIP, Types, TypeOK, Req
    <2>2. CASE ~ Block(r)
        BY <2>2 DEF LoginStep, CheckFirewall, PrecheckEmail, PrecheckIP, Verify,
           FailedEmail, FailedIP, IncrementEmail, IncrementIP, ExpireEmail, ExpireIP,
           RecordFailure, Types, TypeOK
    <2> QED BY <2>1, <2>2
<1>4. successes' \in [Goroutine -> Nat]
    <2>1. CASE Verify(r)
        <3>1. UNCHANGED successes \/
              successes' = [successes EXCEPT ![[email |-> req[r].email,
                              ip |-> req[r].ip, step |-> "reset"]] = @ + 1]
            BY <2>1 DEF Verify
        <3> QED BY <3>1 DEF Types, TypeOK
    <2>2. CASE ~ Verify(r)
        BY <2>2 DEF LoginStep, CheckFirewall, PrecheckEmail, PrecheckIP, Block,
           FailedEmail, FailedIP, IncrementEmail, IncrementIP, ExpireEmail, ExpireIP,
           RecordFailure, Types, TypeOK
    <2> QED BY <2>1, <2>2
<1>5. stored' \in [Keys -> Nat]
    <2>1. CASE RecordFailure(r)
        BY <2>1 DEF RecordFailure, Types, TypeOK
    <2>2. CASE ~ RecordFailure(r)
        BY <2>2 DEF LoginStep, CheckFirewall, PrecheckEmail, PrecheckIP, Block, Verify,
           FailedEmail, FailedIP, IncrementEmail, IncrementIP, ExpireEmail, ExpireIP,
           Types, TypeOK
    <2> QED BY <2>1, <2>2
<1>6. attempts' = attempts
    BY DEF LoginStep, CheckFirewall, PrecheckEmail, PrecheckIP, Block, Verify,
           FailedEmail, FailedIP, IncrementEmail, IncrementIP, ExpireEmail, ExpireIP,
           RecordFailure
<1> QED BY <1>q, <1>1, <1>2, <1>3, <1>4, <1>5, <1>6 DEF Types, TypeOK, Local

\* A request that begins.
FirstReq(e, i) ==
    [NoReq EXCEPT !.pc = "firewall", !.email = e, !.ip = i,
                  !.hopeless = {k \in {e, i} \ {None} : AtLimit(count[k])}]

LEMMA BeginShape ==
    ASSUME Types, NEW r \in Reqs, NEW e \in Emails, NEW i \in IPs \cup {None},
           Begin(r, e, i)
    PROVE  /\ Local(r) /\ UNCHANGED <<count, unguarded>>
           /\ req'[r].pc = "firewall" /\ req'[r].email = e /\ req'[r].ip = i
           /\ req'[r].hopeless = {k \in {e, i} \ {None} : AtLimit(count[k])}
<1> DEFINE h == {k \in {e, i} \ {None} : AtLimit(count[k])}
<1>1. h \subseteq Keys
    BY DEF Keys
<1>2. req' = [req EXCEPT ![r] = FirstReq(e, i)]
    BY DEF Begin, FirstReq
<1>3. FirstReq(e, i) = [NoReq EXCEPT !.pc = "firewall", !.email = e, !.ip = i,
                                     !.hopeless = h]
    BY DEF FirstReq
<1> HIDE DEF h
<1>4. /\ FirstReq(e, i) \in Req /\ LocalOK(FirstReq(e, i))
      /\ FirstReq(e, i).pc = "firewall" /\ FirstReq(e, i).hopeless = h
      /\ FirstReq(e, i).email = e /\ FirstReq(e, i).ip = i
    BY <1>1, <1>3 DEF NoReq, Req, LocalOK, Labels
<1>5. Local(r) /\ req'[r] = FirstReq(e, i)
    BY <1>2, <1>4, ReqUpdate
<1> QED BY <1>4, <1>5 DEF Begin, h

\* When keys of Redis go, only the history of the requests changes.
LEMMA DropShape ==
    ASSUME Types, NEW ks, DropKeys(ks)
    PROVE  /\ req' \in [Reqs -> Req] /\ \A s \in Reqs : LocalOK(req'[s])
           /\ \A k \in Keys : count'[k] = IF k \in ks THEN 0 ELSE count[k]
           /\ \A s \in Reqs :
                 /\ req'[s].pc = req[s].pc /\ req'[s].email = req[s].email
                 /\ req'[s].ip = req[s].ip /\ req'[s].fell = req[s].fell
                 /\ req[s].full => req'[s].full
                 /\ req'[s].full => req[s].full
                 /\ req'[s].hopeless = req[s].hopeless \ ks
<1>1. ASSUME NEW s \in Reqs
      PROVE  /\ req'[s] \in Req /\ LocalOK(req'[s])
             /\ req'[s].pc = req[s].pc /\ req'[s].email = req[s].email
             /\ req'[s].ip = req[s].ip /\ req'[s].fell = req[s].fell
             /\ req[s].full => req'[s].full
             /\ req'[s].full => req[s].full
             /\ req'[s].hopeless = req[s].hopeless \ ks
    <2>1. req[s] \in Req /\ LocalOK(req[s])
        BY DEF Types, TypeOK
    <2>2. req'[s] = [req[s] EXCEPT !.hopeless = @ \ ks]
        BY DEF DropKeys
    <2> QED BY <2>1, <2>2 DEF Req, LocalOK
<1>2. req' \in [Reqs -> Req]
    BY <1>1 DEF DropKeys
<1> QED BY <1>1, <1>2 DEF DropKeys

LEMMA DropTypes ==
    ASSUME Types, NEW ks, DropKeys(ks)
    PROVE  /\ req' \in [Reqs -> Req] /\ \A s \in Reqs : LocalOK(req'[s])
           /\ count' \in [Keys -> Nat] /\ ttl' \subseteq {k \in Keys : count'[k] > 0}
           /\ lost' \subseteq Keys /\ unguarded' \subseteq Keys
<1>1. count' \in [Keys -> Nat] /\ ttl' \subseteq {k \in Keys : count'[k] > 0}
    BY DEF DropKeys, Types, TypeOK
<1> QED BY <1>1, DropShape DEF DropKeys, Types, TypeOK

LEMMA NextTypes == Types /\ [Next]_vars => Types'
<1> SUFFICES ASSUME Types, [Next]_vars PROVE Types'
    OBVIOUS
<1>1. ASSUME NEW r \in Reqs, LoginStep(r) PROVE Types'
    BY <1>1, LoginStepTypes
<1>2. ASSUME NEW r \in Reqs, NEW e \in Emails, NEW i \in IPs \cup {None}, Begin(r, e, i)
      PROVE  Types'
    <2>1. Local(r)
        BY <1>2, BeginShape
    <2>2. attempts' \in 0 .. MaxAttempts
        BY <1>2 DEF Begin, Types, TypeOK
    <2> QED BY <1>2, <2>1, <2>2 DEF Begin, Local, Types, TypeOK
<1>3. ASSUME NEW g \in Goroutine, SuccessStep(g) PROVE Types'
    <2>1. CASE ResetFailedLoginCounters(g)
        <3>1. successes' \in [Goroutine -> Nat]
            <4>1. successes[g] \in Nat /\ successes[g] > 0 /\ g.step = "reset"
                BY <2>1 DEF ResetFailedLoginCounters, Types, TypeOK
            <4>2. PICK h : h = [g EXCEPT !.step = "record"]
                OBVIOUS
            <4>3. h \in Goroutine /\ h # g
                BY <4>1, <4>2 DEF Goroutine
            <4>4. successes' = [successes EXCEPT ![g] = @ - 1, ![h] = @ + 1]
                BY <2>1, <4>2 DEF ResetFailedLoginCounters
            <4> QED BY <4>1, <4>3, <4>4 DEF Types, TypeOK
        <3>2. CASE DropKeys({g.email, g.ip} \ {None})
            BY <2>1, <3>1, <3>2, DropTypes DEF ResetFailedLoginCounters, Types, TypeOK
        <3>3. CASE UNCHANGED <<count, ttl, req, lost, unguarded>>
            BY <2>1, <3>1, <3>3 DEF ResetFailedLoginCounters, Types, TypeOK
        <3> QED BY <2>1, <3>2, <3>3 DEF ResetFailedLoginCounters
    <2>2. CASE RecordSuccess(g)
        <3>1. successes' \in [Goroutine -> Nat] /\ stored' \in [Keys -> Nat]
            BY <2>2 DEF RecordSuccess, Types, TypeOK
        <3> QED BY <2>2, <3>1 DEF RecordSuccess, Types, TypeOK
    <2> QED BY <1>3, <2>1, <2>2 DEF SuccessStep
<1>4. ASSUME NEW k \in Keys, WindowOver(k) PROVE Types'
    BY <1>4, DropTypes DEF WindowOver, Types, TypeOK
<1>5. ASSUME NEW k \in Keys, RowOld(k) PROVE Types'
    <2>1. stored' \in [Keys -> Nat]
        BY <1>5 DEF RowOld, Types, TypeOK
    <2> QED BY <1>5, <2>1 DEF RowOld, Types, TypeOK
<1>6. ASSUME NEW i \in IPs, BlockOver(i) PROVE Types'
    BY <1>6 DEF BlockOver, Types, TypeOK
<1>7. CASE UNCHANGED vars
    BY <1>7 DEF vars, Types, TypeOK
<1> QED BY <1>1, <1>2, <1>3, <1>4, <1>5, <1>6, <1>7 DEF Next, Quiet

\* The counters, the tables and every request keep their types, and a request
\* has at each call the email and the address the call needs.
THEOREM GuardTypes == Spec => []TypeOK
<1>1. Types /\ [Next]_vars => Types'
    BY NextTypes
<1>2. Types => TypeOK
    BY DEF Types
<1> QED BY InitTypes, <1>1, <1>2, PTL DEF Spec

-----------------------------------------------------------------------------
(* The bound on the counters.                                              *)

\* What is counted and what may still be counted.
Bound(k) ==
    k \notin unguarded =>
        count[k] + Cardinality(Pending(k)) <= MaxFailedLogin - 1 + Cardinality(Reqs)

LEMMA PendingCard ==
    ASSUME NEW k
    PROVE  /\ IsFiniteSet(Pending(k))
           /\ Cardinality(Pending(k)) \in Nat /\ Cardinality(Reqs) \in Nat
           /\ Cardinality(Pending(k)) <= Cardinality(Reqs)
<1>1. Pending(k) \in SUBSET Reqs
    BY DEF Pending
<1>2. IsFiniteSet(Pending(k)) /\ Cardinality(Pending(k)) <= Cardinality(Reqs)
    BY <1>1, FS_Subset
<1> QED BY <1>2, FS_CardinalityType

\* Nobody begins to be pending and the counter stays.
LEMMA BoundKept ==
    ASSUME Types, NEW k \in Keys, Bound(k), count'[k] = count[k],
           k \in unguarded => k \in unguarded',
           \A s \in Reqs : Pends(req'[s], k) => Pends(req[s], k)
    PROVE  Bound(k)'
<1>1. Pending(k)' \in SUBSET Pending(k)
    BY DEF Pending, Pends
<1>2. Cardinality(Pending(k)') \in Nat /\ Cardinality(Pending(k)') <= Cardinality(Pending(k))
    BY <1>1, PendingCard, FS_Subset, FS_CardinalityType
<1>3. count[k] \in Nat
    BY DEF Types, TypeOK
<1> QED BY <1>2, <1>3, PendingCard DEF Bound

\* The counter is below the limit: all requests may count once more.
LEMMA BoundLow ==
    ASSUME NEW k \in Keys, count'[k] \in Nat, ~ AtLimit(count'[k])
    PROVE  Bound(k)'
<1>1. Pending(k)' \in SUBSET Reqs
    BY DEF Pending
<1>2. Cardinality(Pending(k)') \in Nat /\ Cardinality(Pending(k)') <= Cardinality(Reqs)
      /\ Cardinality(Reqs) \in Nat
    BY <1>1, FS_Subset, FS_CardinalityType
<1>3. count'[k] \in Nat /\ count'[k] < MaxFailedLogin
    BY DEF AtLimit
<1> QED BY <1>2, <1>3 DEF Bound

\* Somebody who was pending increments the counter.
LEMMA BoundCounted ==
    ASSUME Types, NEW k \in Keys, Bound(k), count'[k] = count[k] + 1,
           k \in unguarded => k \in unguarded', NEW r \in Reqs,
           Pends(req[r], k), ~ Pends(req'[r], k),
           \A s \in Reqs \ {r} : req'[s] = req[s]
    PROVE  Bound(k)'
<1>1. Pending(k)' = Pending(k) \ {r} /\ r \in Pending(k)
    BY DEF Pending, Pends
<1>2. Cardinality(Pending(k)') = Cardinality(Pending(k)) - 1
    BY <1>1, PendingCard, FS_RemoveElement
<1>3. count[k] \in Nat
    BY DEF Types, TypeOK
<1> QED BY <1>2, <1>3, PendingCard DEF Bound

LEMMA StepBound ==
    ASSUME Types, NEW r \in Reqs, LoginStep(r), NEW k \in Keys, Bound(k)
    PROVE  Bound(k)'
<1>0. /\ Local(r) /\ Effect(r) /\ count \in [Keys -> Nat]
      /\ req[r] \in Req /\ LocalOK(req[r])
    BY StepShape DEF Types, TypeOK
<1>s. \A s \in Reqs \ {r} : req'[s] = req[s]
    BY <1>0 DEF Local
<1>1. ASSUME Pends(req'[r], k) => Pends(req[r], k), UNCHANGED <<count, unguarded>>
      PROVE  Bound(k)'
    <2>1. \A s \in Reqs : Pends(req'[s], k) => Pends(req[s], k)
        BY <1>1, <1>s
    <2> QED BY <1>1, <2>1, BoundKept
<1>2. ASSUME ~ AtLimit(count[k]), UNCHANGED count
      PROVE  Bound(k)'
    BY <1>0, <1>2, BoundLow
<1>3. CASE Ended(r)
    BY <1>1, <1>3 DEF Ended, Pends
<1>4. CASE Moved(r)
    <2>1. Pends(req'[r], k) => Pends(req[r], k)
        BY <1>4 DEF Moved, Same, Pends
    <2> QED BY <1>1, <1>4, <2>1 DEF Moved
<1>5. CASE Refuted(r)
    <2>1. Pends(req'[r], k) => Pends(req[r], k)
        BY <1>5 DEF Refuted, Pends
    <2> QED BY <1>1, <1>5, <2>1 DEF Refuted
<1>6. CASE ReadEmail(r)
    <2>1. CASE ~ Pends(req'[r], k)
        BY <1>1, <1>6, <2>1 DEF ReadEmail
    <2>2. CASE Pends(req'[r], k)
        <3>1. req[r].email = k /\ k \notin req'[r].fell /\ ~ req'[r].full
            BY <1>6, <2>2 DEF ReadEmail, Same, Pends
        <3>2. ~ AtLimit(count[k])
            BY <1>6, <3>1 DEF ReadEmail
        <3> QED BY <1>2, <1>6, <3>2 DEF ReadEmail
    <2> QED BY <2>1, <2>2
<1>7. CASE ReadIP(r)
    <2>1. CASE ~ Pends(req'[r], k)
        BY <1>1, <1>7, <2>1 DEF ReadIP
    <2>2. CASE Pends(req'[r], k) /\ req[r].email = k
        <3>1. Pends(req[r], k)
            BY <1>7, <2>2 DEF ReadIP, Pends
        <3> QED BY <1>1, <1>7, <3>1 DEF ReadIP
    <2>3. CASE Pends(req'[r], k) /\ req[r].email # k
        <3>1. req[r].ip = k /\ k \notin req'[r].fell
            BY <1>7, <2>3 DEF ReadIP, Same, Pends
        <3>2. ~ AtLimit(count[k])
            BY <1>7, <3>1 DEF ReadIP, Keys
        <3> QED BY <1>2, <1>7, <3>2 DEF ReadIP
    <2> QED BY <2>1, <2>2, <2>3
<1>8. ASSUME NEW j \in Keys, Counted(r, j) PROVE Bound(k)'
    <2>1. CASE j # k
        <3>1. count'[k] = count[k] /\ (k \in unguarded => k \in unguarded')
            BY <1>0, <1>8, <2>1 DEF Counted
        <3>2. Pends(req'[r], k) => Pends(req[r], k)
            BY <1>8, <2>1 DEF Counted, Same, Pends
        <3>3. \A s \in Reqs : Pends(req'[s], k) => Pends(req[s], k)
            BY <3>2, <1>s
        <3> QED BY <3>1, <3>3, BoundKept
    <2>2. CASE j = k /\ k \in req[r].fell
        BY <1>8, <2>2 DEF Counted, Bound
    <2>3. CASE j = k /\ k \notin req[r].fell
        <3>1. count'[k] = count[k] + 1 /\ (k \in unguarded => k \in unguarded')
            BY <1>0, <1>8, <2>3 DEF Counted
        <3>2. Pends(req[r], k)
            BY <1>8, <2>3 DEF Counted, Pends
        <3>3. ~ Pends(req'[r], k)
            <4>1. CASE req[r].pc = "incrEmail" /\ req'[r].pc = "ttlEmail" /\ k = req[r].email
                <5>1. k \in Emails /\ req[r].ip \in IPs \cup {None}
                    BY <1>0, <4>1 DEF LocalOK, Req
                <5> QED BY <1>8, <4>1, <5>1 DEF Counted, Same, Pends
            <4>2. CASE req'[r].pc = "ttlIP"
                BY <4>2 DEF Pends
            <4> QED BY <1>8, <2>3, <4>1, <4>2 DEF Counted
        <3> QED BY <1>s, <3>1, <3>2, <3>3, BoundCounted
    <2> QED BY <2>1, <2>2, <2>3
<1> QED BY <1>0, <1>3, <1>4, <1>5, <1>6, <1>7, <1>8 DEF Effect

LEMMA InitBound == Init => \A k \in Keys : Bound(k)
<1> SUFFICES ASSUME Init, NEW k \in Keys PROVE Bound(k)
    OBVIOUS
<1>1. Pending(k) = {}
    BY NoReqType DEF Init, Pending, Pends
<1>2. Cardinality(Pending(k)) = 0
    BY <1>1, FS_EmptySet
<1> QED BY <1>2, PendingCard DEF Init, Bound

LEMMA NextBound ==
    ASSUME Types, [Next]_vars, NEW k \in Keys, Bound(k)
    PROVE  Bound(k)'
<1>1. ASSUME NEW r \in Reqs, LoginStep(r) PROVE Bound(k)'
    BY <1>1, StepBound
<1>2. ASSUME NEW r \in Reqs, NEW e \in Emails, NEW i \in IPs \cup {None}, Begin(r, e, i)
      PROVE  Bound(k)'
    <2>1. req'[r].pc = "firewall" /\ \A s \in Reqs \ {r} : req'[s] = req[s]
        BY <1>2, BeginShape DEF Local
    <2>2. \A s \in Reqs : Pends(req'[s], k) => Pends(req[s], k)
        BY <2>1 DEF Pends
    <2> QED BY <1>2, <2>2, BeginShape, BoundKept
\* A key that goes is counted from zero again.
<1>3. ASSUME NEW ks, DropKeys(ks) PROVE Bound(k)'
    <2>1. CASE k \in ks
        <3>1. count'[k] = 0
            BY <1>3, <2>1, DropShape
        <3> QED BY <3>1, BoundLow DEF AtLimit
    <2>2. CASE k \notin ks
        <3>1. \A s \in Reqs : Pends(req'[s], k) => Pends(req[s], k)
            BY <1>3, DropShape DEF Pends
        <3>2. count'[k] = count[k] /\ (k \in unguarded => k \in unguarded')
            BY <1>3, <2>2, DropShape DEF DropKeys
        <3> QED BY <3>1, <3>2, BoundKept
    <2> QED BY <2>1, <2>2
<1>4. ASSUME UNCHANGED <<count, req, unguarded>> PROVE Bound(k)'
    <2>1. \A s \in Reqs : Pends(req'[s], k) => Pends(req[s], k)
        BY <1>4
    <2> QED BY <1>4, <2>1, BoundKept
<1>5. ASSUME NEW g \in Goroutine, SuccessStep(g) PROVE Bound(k)'
    BY <1>3, <1>4, <1>5 DEF SuccessStep, ResetFailedLoginCounters, RecordSuccess
<1>6. ASSUME NEW j \in Keys, WindowOver(j) \/ RowOld(j) PROVE Bound(k)'
    BY <1>3, <1>4, <1>6 DEF WindowOver, RowOld
<1>7. ASSUME NEW i \in IPs, BlockOver(i) PROVE Bound(k)'
    BY <1>4, <1>7 DEF BlockOver
<1>8. CASE UNCHANGED vars
    BY <1>4, <1>8 DEF vars
<1> QED BY <1>1, <1>2, <1>5, <1>6, <1>7, <1>8 DEF Next, Quiet

\* No counter passes the limit by more than the logins that can be under way
\* beside the one that reaches it, for any number of them, any limit and any
\* failures: precheckLoginSecurity reads stale counts, but each login that read
\* the counter adds one at most.  Excepted are counters incremented by a login
\* whose precheck count was that of the table because Redis did not answer.
THEOREM CountersBounded == Spec => []CounterBound
<1> DEFINE Inv == Types /\ \A k \in Keys : Bound(k)
<1>1. Init => Inv
    BY InitTypes, InitBound
<1>2. Inv /\ [Next]_vars => Inv'
    BY NextTypes, NextBound
<1>3. Inv => CounterBound
    <2> SUFFICES ASSUME Inv, NEW k \in Keys \ unguarded
                 PROVE  count[k] <= MaxFailedLogin - 1 + Cardinality(Reqs)
        BY DEF CounterBound
    <2>1. count[k] \in Nat /\ Bound(k)
        BY DEF Types, TypeOK
    <2> QED BY <2>1, PendingCard DEF Bound
<1> QED BY <1>1, <1>2, <1>3, PTL DEF Spec

-----------------------------------------------------------------------------
(* Locked out.                                                             *)

LEMMA StepDoomed ==
    ASSUME Types, NEW r \in Reqs, LoginStep(r), HopelessInv
    PROVE  HopelessInv'
<1>0. /\ Local(r) /\ Effect(r) /\ count \in [Keys -> Nat]
      /\ \A s \in Reqs : req[s] \in Req /\ LocalOK(req[s]) /\ Doomed(req[s])
    BY StepShape DEF Types, TypeOK, HopelessInv
<1>c. ASSUME NEW k \in Keys, AtLimit(count[k]) PROVE AtLimit(count'[k])
    <2>1. count'[k] = count[k] \/ count'[k] = count[k] + 1
        BY <1>0 DEF Effect, Ended, Moved, ReadEmail, ReadIP, Refuted, Counted
    <2> QED BY <1>0, <1>c, <2>1 DEF AtLimit
<1>1. ASSUME NEW s \in Reqs \ {r} PROVE Doomed(req[s])'
    <2>1. req'[s] = req[s] /\ Doomed(req[s]) /\ req[s].hopeless \subseteq Keys
        BY <1>0 DEF Local, Req
    <2> QED BY <1>c, <2>1 DEF Doomed
<1>2. Doomed(req[r])'
    <2>0. /\ Doomed(req[r]) /\ req[r].hopeless \subseteq Keys
          /\ LocalOK(req[r]) /\ None \notin Keys
        BY <1>0 DEF Req, Keys
    <2>1. CASE Ended(r)
        BY <2>1 DEF Ended, Doomed
    <2>2. CASE Moved(r)
        <3>1. /\ req'[r].hopeless \subseteq {req'[r].email, req'[r].ip}
              /\ \A k \in req'[r].hopeless : AtLimit(count'[k])
            BY <1>c, <2>0, <2>2 DEF Moved, Same, Doomed
        <3>2. /\ req'[r].pc \notin {"precheckIP", "verify"}
              /\ req'[r].pc # "precheckEmail" => req'[r].hopeless = {}
            BY <2>0, <2>2 DEF Moved, Same, Doomed
        <3> QED BY <3>1, <3>2 DEF Doomed
    <2>3. CASE Refuted(r)
        BY <2>3 DEF Refuted, Doomed
    <2>4. CASE ReadEmail(r)
        <3>1. /\ req'[r].hopeless \subseteq {req'[r].email, req'[r].ip}
              /\ \A k \in req'[r].hopeless : AtLimit(count'[k]) /\ AtLimit(count[k])
              /\ req'[r].pc = "precheckIP"
            BY <1>c, <2>0, <2>4 DEF ReadEmail, Same, Doomed
        <3>2. req'[r].email \in req'[r].hopeless =>
                  req'[r].full \/ req'[r].email \in req'[r].fell
            BY <2>4, <3>1 DEF ReadEmail, Same
        <3> QED BY <3>1, <3>2 DEF Doomed
    <2>5. CASE ReadIP(r)
        <3>1. /\ req'[r].hopeless \subseteq {req[r].email, req[r].ip}
              /\ req'[r].hopeless \subseteq {req'[r].email, req'[r].ip}
              /\ \A k \in req'[r].hopeless : AtLimit(count'[k]) /\ AtLimit(count[k])
              /\ req'[r].pc = "verify"
            BY <1>c, <2>0, <2>5 DEF ReadIP, Same, Doomed
        <3>2. req[r].email \in req'[r].hopeless => req[r].email \in req'[r].fell
            BY <2>0, <2>5 DEF ReadIP, Same, Doomed
        <3>3. req[r].ip \in req'[r].hopeless => req[r].ip \in req'[r].fell
            BY <2>0, <2>5, <3>1 DEF ReadIP, Same
        <3>4. req'[r].hopeless \subseteq req'[r].fell
            BY <3>1, <3>2, <3>3
        <3> QED BY <3>1, <3>4 DEF Doomed
    <2>6. ASSUME NEW j \in Keys, Counted(r, j) PROVE Doomed(req[r])'
        <3>1. /\ req'[r].hopeless = {}
              /\ req'[r].pc \in {"ttlEmail", "ttlIP"}
            BY <2>0, <2>6 DEF Counted, Same, Doomed
        <3> QED BY <3>1 DEF Doomed
    <2> QED BY <1>0, <2>1, <2>2, <2>3, <2>4, <2>5, <2>6 DEF Effect
<1> QED BY <1>1, <1>2 DEF HopelessInv

LEMMA NextDoomed ==
    ASSUME Types, [Next]_vars, HopelessInv
    PROVE  HopelessInv'
<1>1. ASSUME NEW r \in Reqs, LoginStep(r) PROVE HopelessInv'
    BY <1>1, StepDoomed
<1>2. ASSUME NEW r \in Reqs, NEW e \in Emails, NEW i \in IPs \cup {None}, Begin(r, e, i)
      PROVE  HopelessInv'
    <2>1. /\ req'[r].pc = "firewall" /\ count' = count
          /\ req'[r].hopeless \subseteq {req'[r].email, req'[r].ip}
          /\ \A k \in req'[r].hopeless : AtLimit(count[k])
          /\ \A s \in Reqs \ {r} : req'[s] = req[s]
        BY <1>2, BeginShape DEF Local
    <2>2. Doomed(req[r])'
        BY <2>1 DEF Doomed
    <2>3. ASSUME NEW s \in Reqs \ {r} PROVE Doomed(req[s])'
        BY <2>1 DEF HopelessInv, Doomed
    <2> QED BY <2>2, <2>3 DEF HopelessInv
<1>3. ASSUME NEW ks, DropKeys(ks) PROVE HopelessInv'
    <2>1. ASSUME NEW s \in Reqs PROVE Doomed(req[s])'
        <3>1. Doomed(req[s]) /\ req[s].hopeless \subseteq Keys
            BY DEF HopelessInv, Types, TypeOK, Req
        <3>2. /\ req'[s].pc = req[s].pc /\ req'[s].email = req[s].email
              /\ req'[s].ip = req[s].ip /\ req'[s].fell = req[s].fell
              /\ req[s].full => req'[s].full
              /\ req'[s].hopeless = req[s].hopeless \ ks
            BY <1>3, DropShape
        <3>3. \A k \in req'[s].hopeless : count'[k] = count[k]
            BY <1>3, <3>1, <3>2, DropShape
        <3> QED BY <3>1, <3>2, <3>3 DEF Doomed
    <2> QED BY <2>1 DEF HopelessInv
<1>4. ASSUME UNCHANGED <<count, req>> PROVE HopelessInv'
    BY <1>4 DEF HopelessInv, Doomed
<1>5. ASSUME NEW g \in Goroutine, SuccessStep(g) PROVE HopelessInv'
    BY <1>3, <1>4, <1>5 DEF SuccessStep, ResetFailedLoginCounters, RecordSuccess
<1>6. ASSUME NEW k \in Keys, WindowOver(k) \/ RowOld(k) PROVE HopelessInv'
    BY <1>3, <1>4, <1>6 DEF WindowOver, RowOld
<1>7. ASSUME NEW i \in IPs, BlockOver(i) PROVE HopelessInv'
    BY <1>4, <1>7 DEF BlockOver
<1>8. CASE UNCHANGED vars
    BY <1>4, <1>8 DEF vars
<1> QED BY <1>1, <1>2, <1>5, <1>6, <1>7, <1>8 DEF Next, Quiet

\* A login that begins when a counter of it is at the limit reaches the
\* password check only when the counter was deleted in the meantime or Redis
\* did not answer the read of that counter and the table of attempts decided,
\* whatever other logins, resets, expiries and failures come between the reads.
THEOREM LockedOut == Spec => []LockedOutUnverified
<1> DEFINE Inv == Types /\ HopelessInv
<1>1. Init => Inv
    <2>1. Init => HopelessInv
        BY NoReqType DEF Init, HopelessInv, Doomed
    <2> QED BY <2>1, InitTypes
<1>2. Inv /\ [Next]_vars => Inv'
    BY NextTypes, NextDoomed
<1>3. Inv => LockedOutUnverified
    BY DEF HopelessInv, Doomed, LockedOutUnverified
<1> QED BY <1>1, <1>2, <1>3, PTL DEF Spec

=============================================================================

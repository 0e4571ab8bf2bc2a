----------------------------- MODULE LoginGuard -----------------------------
(***************************************************************************)
(* The guard in front of Login and GoogleLogin                             *)
(* (internal/modules/auth/application/service/security.go): failure        *)
(* counters in Redis for the email and for the IP address, the table of    *)
(* login attempts that answers when Redis does not, and blocked addresses  *)
(* in the firewall table.                                                  *)
(*                                                                         *)
(* Each action is one call to Redis or Postgres with the code up to the    *)
(* next one.  Counts are read before the password is looked at, read again *)
(* after it was wrong and incremented in later calls, so concurrent        *)
(* requests work on stale counts.  Any call may fail: the server it asks   *)
(* does not answer, or the context of the request has ended (the client    *)
(* is gone, the ten seconds of Login are over).  The two sources of a      *)
(* count differ: the table does not count the failure that reached the     *)
(* limit, Redis does not count one whose INCR failed.                      *)
(***************************************************************************)
EXTENDS Naturals, FiniteSets

CONSTANTS
    Reqs,               \* login requests served at a time
    Emails, IPs,
    GeoBlockEnabled,    \* config: auth.geo_block_enabled
    MaxFailedLogin,     \* config: auth.max_failed_login
    MaxAttempts,        \* bound on the logins of a behaviour
    RedisFaults,        \* TRUE: a call to Redis may fail
    DBFaults,           \* TRUE: a query or an insert may fail
    None                \* a request without an address

ASSUME GuardAssumption ==
    /\ MaxFailedLogin \in Nat \ {0} /\ MaxAttempts \in Nat
    /\ GeoBlockEnabled \in BOOLEAN /\ RedisFaults \in BOOLEAN /\ DBFaults \in BOOLEAN
    /\ IsFiniteSet(Reqs)
    /\ Emails \cap IPs = {} /\ None \notin Emails \cup IPs

VARIABLES
    count,      \* Redis: failures of an email or address; 0, there is no key
    ttl,        \* Redis: keys that expire
    stored,     \* auth_login_attempts: rows "failed" of an email or address
                \* within the window and after its last row "success"
    blocked,    \* firewall table: addresses with an active block
    successes,  \* goroutines of successful logins, how many of each kind
    req,        \* login requests
    attempts,   \* logins so far
    lost,       \* history: keys whose last EXPIRE was not executed
    unguarded   \* history: counters a login has incremented, since they were
                \* deleted last, that only the table let past

vars == <<count, ttl, stored, blocked, successes, req, attempts, lost, unguarded>>

Keys == Emails \cup IPs

Labels == {"idle", "firewall", "precheckEmail", "precheckIP", "block", "verify",
           "failedEmail", "failedIP", "incrEmail", "ttlEmail", "incrIP", "ttlIP",
           "record"}

\* full: a count read reaches the limit; fell: keys whose precheck count came
\* from the table; hopeless: history, counters of the request that were at the
\* limit when it began and have not been deleted since
Req == [pc: Labels, email: Emails \cup {None}, ip: IPs \cup {None},
        full: BOOLEAN, fell: SUBSET Keys, hopeless: SUBSET Keys]
NoReq == [pc |-> "idle", email |-> None, ip |-> None, full |-> FALSE,
          fell |-> {}, hopeless |-> {}]

\* A goroutine deletes the counters, then stores the row "success".
Goroutine == [email: Emails, ip: IPs \cup {None}, step: {"reset", "record"}]

TypeOK ==
    /\ count \in [Keys -> Nat]
    /\ ttl \subseteq {k \in Keys : count[k] > 0}
    /\ stored \in [Keys -> Nat]
    /\ blocked \subseteq IPs
    /\ successes \in [Goroutine -> Nat]
    /\ req \in [Reqs -> Req]
    /\ attempts \in 0 .. MaxAttempts
    /\ lost \subseteq Keys
    /\ unguarded \subseteq Keys

Init ==
    /\ count = [k \in Keys |-> 0]
    /\ ttl = {} /\ blocked = {}
    /\ stored = [k \in Keys |-> 0]
    /\ successes = [g \in Goroutine |-> 0]
    /\ req = [r \in Reqs |-> NoReq]
    /\ attempts = 0
    /\ lost = {} /\ unguarded = {}

-----------------------------------------------------------------------------
Goto(r, label) == req' = [req EXCEPT ![r].pc = label]
Answer(r) == req' = [req EXCEPT ![r] = NoReq]

\* Go on with nothing but the email and the address.
Leave(r, label) ==
    req' = [req EXCEPT ![r] = [NoReq EXCEPT !.pc = label, !.email = req[r].email,
                                            !.ip = req[r].ip]]

\* Faulty variant: the limit itself is still allowed.
PastLimit(n) == n > MaxFailedLogin

AtLimit(n) == n >= MaxFailedLogin

\* failedLoginCount: the counter in Redis, or what CountFailedLoginAttempts
\* finds in the table when Redis does not answer; fell says which.  Without an
\* address there is nothing to count.  (A table missing in development counts
\* as empty, which it then is.)
Counts(k) ==
    IF k = None THEN {[n |-> 0, fell |-> {}]}
    ELSE {[n |-> count[k], fell |-> {}]}
         \cup (IF RedisFaults THEN {[n |-> stored[k], fell |-> {k}]} ELSE {})

\* Redis does not answer and the query fails too.
CountFails(k) == k # None /\ RedisFaults /\ DBFaults

\* A login arrives, with or without an address.
Begin(r, e, i) ==
    /\ req[r].pc = "idle"
    /\ attempts < MaxAttempts
    /\ attempts' = attempts + 1
    /\ req' = [req EXCEPT ![r] =
                 [NoReq EXCEPT !.pc = "firewall", !.email = e, !.ip = i,
                               !.hopeless = {k \in {e, i} \ {None} : AtLimit(count[k])}]]
    /\ UNCHANGED <<count, ttl, stored, blocked, successes, lost, unguarded>>

-----------------------------------------------------------------------------
(* precheckLoginSecurity                                                   *)

\* isIPBlocked and the geo rule.  The error of isIPBlocked is dropped: a
\* lookup that fails lets the request go on.  The continent comes with the
\* request and not from the address.
CheckFirewall(r) ==
    /\ req[r].pc = "firewall"
    /\ \/ /\ req[r].ip \in blocked
          /\ Answer(r)
       \/ /\ req[r].ip \notin blocked \/ DBFaults
          /\ \/ GeoBlockEnabled /\ req[r].ip # None /\ Leave(r, "block")
             \/ Goto(r, "precheckEmail")
    /\ UNCHANGED <<count, ttl, stored, blocked, successes, attempts, lost, unguarded>>

\* failedLoginCount of the email; its error ends the login.
PrecheckEmail(r) ==
    /\ req[r].pc = "precheckEmail"
    /\ \/ /\ CountFails(req[r].email)
          /\ Answer(r)
       \/ \E c \in Counts(req[r].email) :
             req' = [req EXCEPT ![r].pc = "precheckIP", ![r].full = AtLimit(c.n),
                                ![r].fell = c.fell]
    /\ UNCHANGED <<count, ttl, stored, blocked, successes, attempts, lost, unguarded>>

\* The limit decides on both counts.
Prechecked(r, full, fell) ==
    IF full THEN Leave(r, "block")
    ELSE req' = [req EXCEPT ![r].pc = "verify", ![r].fell = @ \cup fell]

\* Faulty variant: the address counts only once it is blocked.
PrecheckIPIgnored(r) ==
    /\ req[r].pc = "precheckIP"
    /\ Prechecked(r, req[r].full, {})
    /\ UNCHANGED <<count, ttl, stored, blocked, successes, attempts, lost, unguarded>>

\* failedLoginCount of the address, then the limit
PrecheckIP(r) ==
    /\ req[r].pc = "precheckIP"
    /\ \/ /\ CountFails(req[r].ip)
          /\ Answer(r)
       \/ \E c \in Counts(req[r].ip) :
             Prechecked(r, req[r].full \/ AtLimit(c.n), c.fell)
    /\ UNCHANGED <<count, ttl, stored, blocked, successes, attempts, lost, unguarded>>

\* Faulty variant: the empty address is blocked like any other.
BlockAny(r) == blocked' = blocked \cup {req[r].ip}

\* blockIP: nothing without an address, and an error is only logged
blockIP(r) ==
    \/ /\ req[r].ip # None
       /\ blocked' = blocked \cup {req[r].ip}
    \/ /\ DBFaults \/ req[r].ip = None
       /\ UNCHANGED blocked

\* The row "blocked" that is stored next counts nowhere.
Block(r) ==
    /\ req[r].pc = "block"
    /\ blockIP(r)
    /\ Answer(r)
    /\ UNCHANGED <<count, ttl, stored, successes, attempts, lost, unguarded>>

-----------------------------------------------------------------------------
(* The login itself, only as far as the guard sees it.                     *)

\* It succeeds and starts a goroutine, it is refused for another reason than
\* the password, the password or the email is wrong, or Google's identity is
\* incomplete, which is stored as a failure but not counted in Redis.
Verify(r) ==
    /\ req[r].pc = "verify"
    /\ \/ /\ Answer(r)
          /\ successes' = [successes EXCEPT ![[email |-> req[r].email,
                             ip |-> req[r].ip, step |-> "reset"]] = @ + 1]
       \/ /\ Answer(r)
          /\ UNCHANGED successes
       \/ /\ req' = [req EXCEPT ![r].pc = "failedEmail", ![r].hopeless = {}]
          /\ UNCHANGED successes
       \/ /\ Leave(r, "record")
          /\ UNCHANGED successes
    /\ UNCHANGED <<count, ttl, stored, blocked, attempts, lost, unguarded>>

\* Keys of Redis go: the history of what they held goes with them.
DropKeys(ks) ==
    /\ count' = [k \in Keys |-> IF k \in ks THEN 0 ELSE count[k]]
    /\ ttl' = ttl \ ks
    /\ lost' = lost \ ks
    /\ unguarded' = unguarded \ ks
    /\ req' = [r \in Reqs |-> [req[r] EXCEPT !.hopeless = @ \ ks]]

\* resetFailedLoginCounters, in the goroutine of recordSuccessfulLoginAsync;
\* the error of DEL is dropped
ResetFailedLoginCounters(g) ==
    /\ g.step = "reset" /\ successes[g] > 0
    /\ \/ DropKeys({g.email, g.ip} \ {None})
       \/ RedisFaults /\ UNCHANGED <<count, ttl, req, lost, unguarded>>
    /\ successes' = [successes EXCEPT ![g] = @ - 1,
                                      ![[g EXCEPT !.step = "record"]] = @ + 1]
    /\ UNCHANGED <<stored, blocked, attempts>>

\* recordLoginAttempt of the goroutine: failures before this row count no more
RecordSuccess(g) ==
    /\ g.step = "record" /\ successes[g] > 0
    /\ \/ stored' = [k \in Keys |-> IF k \in {g.email, g.ip} THEN 0 ELSE stored[k]]
       \/ DBFaults /\ UNCHANGED stored
    /\ successes' = [successes EXCEPT ![g] = @ - 1]
    /\ UNCHANGED <<count, ttl, blocked, req, attempts, lost, unguarded>>

-----------------------------------------------------------------------------
(* recordFailedLogin                                                       *)

\* The two counts are read again; an error refuses the login.
FailedEmail(r) ==
    /\ req[r].pc = "failedEmail"
    /\ \/ /\ CountFails(req[r].email)
          /\ Answer(r)
       \/ \E c \in Counts(req[r].email) :
             req' = [req EXCEPT ![r].pc = "failedIP", ![r].full = AtLimit(c.n + 1)]
    /\ UNCHANGED <<count, ttl, stored, blocked, successes, attempts, lost, unguarded>>

FailedIP(r) ==
    /\ req[r].pc = "failedIP"
    /\ \/ /\ CountFails(req[r].ip)
          /\ Answer(r)
       \/ \E c \in Counts(req[r].ip) :
             req' = [req EXCEPT ![r].pc = "incrEmail",
                                ![r].full = @ \/ (req[r].ip # None /\ AtLimit(c.n + 1))]
    /\ UNCHANGED <<count, ttl, stored, blocked, successes, attempts, lost, unguarded>>

\* The end of recordFailedLogin decides on the counts it read, plus one.
Decide(r) == Leave(r, IF req[r].full THEN "block" ELSE "record")

AfterEmail(r) == IF req[r].ip = None THEN Decide(r) ELSE Goto(r, "incrIP")

\* incrementCounter: INCR
Incremented(r, k, next) ==
    /\ count' = [count EXCEPT ![k] = @ + 1]
    /\ unguarded' = unguarded \cup ({k} \cap req[r].fell)
    /\ req' = [req EXCEPT ![r].pc = next, ![r].fell = @ \ {k}]

\* When INCR fails there is no TTL and no EXPIRE.
IncrementEmail(r) ==
    /\ req[r].pc = "incrEmail"
    /\ \/ /\ RedisFaults
          /\ AfterEmail(r)
          /\ UNCHANGED <<count, unguarded>>
       \/ Incremented(r, req[r].email, "ttlEmail")
    /\ UNCHANGED <<ttl, stored, blocked, successes, attempts, lost>>

IncrementIP(r) ==
    /\ req[r].pc = "incrIP"
    /\ \/ /\ RedisFaults
          /\ Decide(r)
          /\ UNCHANGED <<count, unguarded>>
       \/ Incremented(r, req[r].ip, "ttlIP")
    /\ UNCHANGED <<ttl, stored, blocked, successes, attempts, lost>>

\* The key, unless it is gone by now
Live(k) == {x \in {k} : count[x] > 0}

\* Faulty variant: only the first failure sets the expiry.
ExpireFirst(r, k) ==
    \/ /\ RedisFaults
       /\ lost' = lost \cup (Live(k) \ ttl) /\ UNCHANGED ttl
    \/ lost' = lost \ {k} /\ ttl' = ttl \cup {x \in {k} : count[x] = 1}

\* TTL, and EXPIRE when the key has none or TTL failed: a later failure makes
\* up for an EXPIRE that was lost.
Expire(r, k) ==
    \/ /\ RedisFaults
       /\ lost' = lost \cup (Live(k) \ ttl) /\ UNCHANGED ttl
    \/ lost' = lost \ {k} /\ ttl' = ttl \cup Live(k)

ExpireEmail(r) ==
    /\ req[r].pc = "ttlEmail"
    /\ Expire(r, req[r].email)
    /\ AfterEmail(r)
    /\ UNCHANGED <<count, stored, blocked, successes, attempts, unguarded>>

ExpireIP(r) ==
    /\ req[r].pc = "ttlIP"
    /\ Expire(r, req[r].ip)
    /\ Decide(r)
    /\ UNCHANGED <<count, stored, blocked, successes, attempts, unguarded>>

\* recordLoginAttempt of a failure below the limit: a row "failed".  An error
\* is only logged.
RecordFailure(r) ==
    /\ req[r].pc = "record"
    /\ \/ stored' = [k \in Keys |-> IF k \in {req[r].email, req[r].ip}
                                    THEN stored[k] + 1 ELSE stored[k]]
       \/ DBFaults /\ UNCHANGED stored
    /\ Answer(r)
    /\ UNCHANGED <<count, ttl, blocked, successes, attempts, lost, unguarded>>

-----------------------------------------------------------------------------
\* The window of a counter is over.
WindowOver(k) ==
    /\ k \in ttl
    /\ DropKeys({k})
    /\ UNCHANGED <<stored, blocked, successes, attempts>>

\* A row "failed" falls out of the window CountFailedLoginAttempts looks at.
RowOld(k) ==
    /\ stored[k] > 0
    /\ stored' = [stored EXCEPT ![k] = @ - 1]
    /\ UNCHANGED <<count, ttl, blocked, successes, req, attempts, lost, unguarded>>

\* The block of an address expires.
BlockOver(i) ==
    /\ i \in blocked
    /\ blocked' = blocked \ {i}
    /\ UNCHANGED <<count, ttl, stored, successes, req, attempts, lost, unguarded>>

LoginStep(r) ==
    \/ CheckFirewall(r) \/ PrecheckEmail(r) \/ PrecheckIP(r) \/ Block(r)
    \/ Verify(r) \/ FailedEmail(r) \/ FailedIP(r)
    \/ IncrementEmail(r) \/ ExpireEmail(r) \/ IncrementIP(r) \/ ExpireIP(r)
    \/ RecordFailure(r)

SuccessStep(g) == ResetFailedLoginCounters(g) \/ RecordSuccess(g)

\* No login is served and none will come.
Quiet ==
    /\ attempts = MaxAttempts
    /\ \A r \in Reqs : req[r].pc = "idle"
    /\ UNCHANGED vars

Next ==
    \/ \E r \in Reqs : \/ LoginStep(r)
                       \/ \E e \in Emails, i \in IPs \cup {None} : Begin(r, e, i)
    \/ \E g \in Goroutine : SuccessStep(g)
    \/ \E k \in Keys : WindowOver(k) \/ RowOld(k)
    \/ \E i \in IPs : BlockOver(i)
    \/ Quiet

Spec == Init /\ [][Next]_vars

\* Handlers and goroutines go on, and time passes: what has an expiry expires
\* and rows get old.
FairSpec ==
    /\ Spec
    /\ \A r \in Reqs : WF_vars(LoginStep(r))
    /\ \A g \in Goroutine : WF_vars(SuccessStep(g))
    /\ \A k \in Keys : WF_vars(WindowOver(k)) /\ WF_vars(RowOld(k))
    /\ \A i \in IPs : WF_vars(BlockOver(i))

-----------------------------------------------------------------------------
(* Properties.                                                             *)

\* The stale reads of precheckLoginSecurity cost at most one failure for each
\* request served at a time: no counter passes the limit by more, however the
\* reads, increments, resets and expiries interleave.  The exception are
\* counters incremented by a login that never saw them: Redis did not answer
\* its precheck and the table of attempts let it past.
CounterBound ==
    \A k \in Keys \ unguarded : count[k] <= MaxFailedLogin - 1 + Cardinality(Reqs)

\* A login that begins when the counter of its email or of its address is at
\* the limit gets its password looked at only if the counter was deleted in
\* the meantime, or if Redis did not answer the read of that very counter and
\* failedLoginCount fell back to the table: not when recordFailedLogin missed
\* the limit and blocked nothing, when the firewall lookup failed or when the
\* block is already over.
LockedOutUnverified ==
    \A r \in Reqs : req[r].pc = "verify" => req[r].hopeless \subseteq req[r].fell

\* Nobody is locked out for ever: again and again an email can be tried from
\* an address whichever source counts, unless the EXPIRE of one of its counters
\* was lost and no later failure made up for it.
GuardReopens ==
    \A e \in Emails : \A i \in IPs :
        []<>(\/ /\ ~ AtLimit(count[e]) /\ ~ AtLimit(count[i])
                /\ ~ AtLimit(stored[e]) /\ ~ AtLimit(stored[i])
                /\ i \notin blocked
             \/ {e, i} \cap lost # {})

=============================================================================

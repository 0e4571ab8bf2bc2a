---------------------------- MODULE AuthSession ----------------------------
(***************************************************************************)
(* The login sessions of one user (internal/modules/auth, users, sessions). *)
(* A session is a Postgres row holding the hash of the refresh token that   *)
(* is valid next.  Redis holds the refresh tokens already presented and a   *)
(* cached session context.  Login starts a background goroutine that        *)
(* revokes the user's other sessions; refresh rotates the token with a      *)
(* conditional update and revokes every session when it sees a reuse.       *)
(*                                                                         *)
(* One element of Reqs is one HTTP request; each action is one round trip   *)
(* to Postgres or Redis with the code that runs up to the next.            *)
(***************************************************************************)
EXTENDS Naturals, FiniteSets

CONSTANTS
    Reqs,           \* HTTP requests
    SessionIds,     \* what generateSessionID returns
    TTL,            \* Auth.RefreshTokenTTL, in seconds
    MaxClock,       \* bound on the seconds that pass
    SameSecond,     \* TRUE: a token may be presented in the second it was issued
    OtherDevice,    \* TRUE: a refresh may name another device than the login's
    DBFaults,       \* TRUE: a Postgres call may fail, a process may die
    RedisFaults,    \* TRUE: a Redis call may fail
    None

ASSUME SessionAssumption ==
    /\ TTL \in Nat \ {0}
    /\ MaxClock \in Nat
    /\ SameSecond \in BOOLEAN /\ OtherDevice \in BOOLEAN
    /\ DBFaults \in BOOLEAN /\ RedisFaults \in BOOLEAN
    /\ IsFiniteSet(SessionIds)
    /\ None \notin SessionIds

\* IssuePair signs the session id and the times in whole seconds, nothing else:
\* two refresh tokens of a session issued in one second are the same string.
Token == [sid: SessionIds, iat: Nat]

\* revoked_reason; "" while revoked_at is null.
Reasons == {"", "logout", "replaced_by_new_login", "refresh_token_reuse",
            "refresh_token_race", "password_changed"}

\* created: the order of created_at.
Session == [hash: Token, reason: Reasons, created: Nat]

ASSUME NoneIsNoRecord == None \notin Session /\ None \notin Token

VARIABLES
    clock,      \* the second
    sessions,   \* the auth_sessions table: id -> row or None
    used,       \* Redis rt_used:*, refresh tokens already presented
    cache,      \* Redis session_ctx:*, sessions whose context is cached
    replacer,   \* the goroutine a login starts: where it is
    found,      \* what that goroutine keeps of FindActiveSessions
    pc, req,    \* where the handler of a request is, and the request
    next,       \* the refresh token the handler has issued
    why,        \* the reason the handler is going to revoke with
    resp        \* the response sent

redis == <<used, cache>>
background == <<replacer, found>>
local == <<pc, req, next, why, resp>>
vars == <<clock, sessions, used, cache, replacer, found, pc, req, next, why, resp>>

-----------------------------------------------------------------------------
Ops == {"none", "login", "refresh", "logout", "revoke", "change", "reset", "current"}

\* sid: the session of the access token; target: the session to revoke;
\* token: the refresh token presented; foreign: the device id is another's.
Request == [op: Ops, sid: SessionIds \cup {None}, target: SessionIds \cup {None},
            token: Token \cup {None}, foreign: BOOLEAN]

NoRequest == [op |-> "none", sid |-> None, target |-> None, token |-> None,
              foreign |-> FALSE]

Kinds == {"none", "error", "invalid", "replaced", "reuse", "tokens",
          "revoked", "password", "current"}

Response == [kind: Kinds, token: Token \cup {None}]

Reply(kind) == [kind |-> kind, token |-> None]

PCs == {"idle", "create", "check", "mark", "load", "rotate", "clear",
        "revokeAll", "validate", "revoke", "cacheGet", "dbGet", "cacheSet", "done"}

TypeOK ==
    /\ clock \in 0 .. MaxClock
    /\ sessions \in [SessionIds -> Session \cup {None}]
    /\ used \subseteq Token
    /\ cache \subseteq SessionIds
    /\ replacer \in [SessionIds -> {"none", "find", "clear", "revoke", "done"}]
    /\ found \in [SessionIds -> SUBSET SessionIds]
    /\ pc \in [Reqs -> PCs]
    /\ req \in [Reqs -> Request]
    /\ next \in [Reqs -> Token \cup {None}]
    /\ why \in [Reqs -> Reasons]
    /\ resp \in [Reqs -> Response]

Init ==
    /\ clock = 0
    /\ sessions = [s \in SessionIds |-> None]
    /\ used = {}
    /\ cache = {}
    /\ replacer = [s \in SessionIds |-> "none"]
    /\ found = [s \in SessionIds |-> {}]
    /\ pc = [r \in Reqs |-> "idle"]
    /\ req = [r \in Reqs |-> NoRequest]
    /\ next = [r \in Reqs |-> None]
    /\ why = [r \in Reqs |-> ""]
    /\ resp = [r \in Reqs |-> Reply("none")]

-----------------------------------------------------------------------------
(* The auth_sessions table.                                                *)

Exists(s) == sessions[s] # None
Existing == {s \in SessionIds : Exists(s)}

IsRevoked(s) == sessions[s].reason # ""

\* expires_at is written together with the refresh token it belongs to.
Unexpired(token) == clock < token.iat + TTL

\* "revoked_at IS NULL AND expires_at > now"
Active(s) == Exists(s) /\ ~ IsRevoked(s) /\ Unexpired(sessions[s].hash)

\* UPDATE ... SET revoked_at, revoked_reason on the given rows.
Revoke(ids, reason) ==
    sessions' = [s \in SessionIds |-> IF s \in ids
                                      THEN [sessions[s] EXCEPT !.reason = reason]
                                      ELSE sessions[s]]

\* Faulty variant: the comparison with expires_at is turned round.
OthersExpired(s) ==
    {t \in SessionIds \ {s} : /\ Exists(t) /\ ~ IsRevoked(t)
                              /\ ~ Unexpired(sessions[t].hash)}

\* The rows RevokeOtherActiveUserSessionsWithReason updates.
OtherActive(s) == {t \in SessionIds \ {s} : Active(t)}

\* The rows RevokeAllUserSessionsWithReason updates, expired ones too.
AllUnrevoked == {s \in SessionIds : Exists(s) /\ ~ IsRevoked(s)}

IssuePair(s) == [sid |-> s, iat |-> clock]

\* Faulty variant: the row is found by session id alone.
RotatesAnyHash(token) == Active(token.sid)

\* Faulty variant: the row may be revoked.
RotatesRevoked(token) ==
    /\ Exists(token.sid)
    /\ Unexpired(sessions[token.sid].hash)
    /\ sessions[token.sid].hash = token

\* The WHERE clause of RotateSessionRefreshToken.
Rotates(token) == Active(token.sid) /\ sessions[token.sid].hash = token

-----------------------------------------------------------------------------
(* Control of one request.                                                 *)

Goto(r, label) == pc' = [pc EXCEPT ![r] = label]

\* Send the response; nothing local survives the handler.
Finish(r, response) ==
    /\ Goto(r, "done")
    /\ resp' = [resp EXCEPT ![r] = response]
    /\ next' = [next EXCEPT ![r] = None]
    /\ why' = [why EXCEPT ![r] = ""]
    /\ UNCHANGED req

Continue(r, label) ==
    /\ Goto(r, label)
    /\ UNCHANGED <<req, next, why, resp>>

\* Go on to revoke every session, for this reason.
GoRevokeAll(r, reason) ==
    /\ Goto(r, "revokeAll")
    /\ why' = [why EXCEPT ![r] = reason]
    /\ UNCHANGED <<req, next, resp>>

Begin(r, request, label) ==
    /\ pc[r] = "idle"
    /\ Goto(r, label)
    /\ req' = [req EXCEPT ![r] = request]
    /\ UNCHANGED <<clock, sessions, redis, background, why, resp>>

\* Refresh tokens, and with them access tokens, that clients were sent.
Held == {resp[r].token : r \in Reqs} \ {None}
HeldSessions == {t.sid : t \in Held}

-----------------------------------------------------------------------------
(* Login, and the goroutine that replaces the user's other sessions.       *)

\* The password is verified; issueTokensForUser picks an id nobody has and
\* signs the tokens before it stores the row.
Login(r, s) ==
    /\ ~ Exists(s)
    /\ \A q \in Reqs : req[q].op = "login" => req[q].sid # s
    /\ Begin(r, [NoRequest EXCEPT !.op = "login", !.sid = s], "create")
    /\ next' = [next EXCEPT ![r] = IssuePair(s)]

\* INSERT; then "go replaceExistingLoginSessions" and the response.
CreateSession(r) ==
    /\ pc[r] = "create"
    /\ sessions' = [sessions EXCEPT ![req[r].sid] =
                       [hash |-> next[r], reason |-> "",
                        created |-> Cardinality(Existing) + 1]]
    /\ replacer' = [replacer EXCEPT ![req[r].sid] = "find"]
    /\ Finish(r, [kind |-> "tokens", token |-> next[r]])
    /\ UNCHANGED <<clock, redis, found>>

Replacing(s) == replacer[s] \in {"find", "clear", "revoke"}

Advance(s, label) == replacer' = [replacer EXCEPT ![s] = label]

FindActiveSessions(s) ==
    /\ replacer[s] = "find"
    /\ found' = [found EXCEPT ![s] = OtherActive(s)]
    /\ Advance(s, "clear")
    /\ UNCHANGED <<clock, sessions, redis, local>>

InvalidateSessionCaches(s) ==
    /\ replacer[s] = "clear"
    /\ \/ cache' = cache \ found[s]
       \/ RedisFaults /\ UNCHANGED cache
    /\ found' = [found EXCEPT ![s] = {}]
    /\ Advance(s, "revoke")
    /\ UNCHANGED <<clock, sessions, used, local>>

RevokeOtherActive(s) ==
    /\ replacer[s] = "revoke"
    /\ Revoke(OtherActive(s), "replaced_by_new_login")
    /\ Advance(s, "done")
    /\ UNCHANGED <<clock, redis, found, local>>

-----------------------------------------------------------------------------
(* RefreshToken.                                                           *)

RefreshToken(r, token, foreign) ==
    /\ token \in Held
    /\ SameSecond \/ clock > token.iat
    /\ foreign => OtherDevice
    /\ Begin(r, [NoRequest EXCEPT !.op = "refresh", !.token = token,
                                  !.foreign = foreign], "check")
    /\ UNCHANGED next

\* ValidateRefreshToken, then the Redis lookup; an error of it is dropped.
IsRefreshTokenUsed(r) ==
    /\ pc[r] = "check"
    /\ IF ~ Unexpired(req[r].token)
       THEN Finish(r, Reply("invalid"))
       ELSE \/ req[r].token \in used /\ GoRevokeAll(r, "logout")
            \/ (req[r].token \notin used \/ RedisFaults) /\ Continue(r, "mark")
    /\ UNCHANGED <<clock, sessions, redis, background>>

\* Faulty variant: the key names the session, not the token.
MarkSessionUsed(r) ==
    /\ pc[r] = "mark"
    /\ used' = used \cup {req[r].token.sid}
    /\ Continue(r, "load")
    /\ UNCHANGED <<clock, sessions, cache, background>>

MarkRefreshTokenUsed(r) ==
    /\ pc[r] = "mark"
    /\ \/ used' = used \cup {req[r].token}
       \/ RedisFaults /\ UNCHANGED used
    /\ Continue(r, "load")
    /\ UNCHANGED <<clock, sessions, cache, background>>

\* FindSessionByID and the checks on the row, then IssuePair.
FindSessionByID(r) ==
    /\ pc[r] = "load"
    /\ LET s == req[r].token.sid
       IN  IF ~ Active(s)
           THEN Finish(r, Reply("replaced"))
           ELSE IF sessions[s].hash # req[r].token
           THEN GoRevokeAll(r, "refresh_token_reuse")
           ELSE IF req[r].foreign
           THEN Finish(r, Reply("replaced"))
           ELSE /\ Goto(r, "rotate")
                /\ next' = [next EXCEPT ![r] = IssuePair(s)]
                /\ UNCHANGED <<req, why, resp>>
    /\ UNCHANGED <<clock, sessions, redis, background>>

\* Faulty variant: nextHash and currentHash are swapped.
RotateKeepsHash(r) ==
    /\ pc[r] = "rotate"
    /\ IF Rotates(req[r].token)
       THEN Continue(r, "clear")
       ELSE GoRevokeAll(r, "refresh_token_race")
    /\ UNCHANGED <<clock, sessions, redis, background>>

\* Faulty variant: a rotation that lost its context deadline is an error.
RotateReportsError(r) ==
    /\ pc[r] = "rotate"
    /\ IF Rotates(req[r].token)
       THEN /\ sessions' = [sessions EXCEPT ![req[r].token.sid].hash = next[r]]
            /\ Continue(r, "clear") \/ Finish(r, Reply("error"))
       ELSE /\ GoRevokeAll(r, "refresh_token_race")
            /\ UNCHANGED sessions
    /\ UNCHANGED <<clock, redis, background>>

RotateSessionRefreshToken(r) ==
    /\ pc[r] = "rotate"
    /\ IF Rotates(req[r].token)
       THEN /\ sessions' = [sessions EXCEPT ![req[r].token.sid].hash = next[r]]
            /\ Continue(r, "clear")
       ELSE /\ GoRevokeAll(r, "refresh_token_race")
            /\ UNCHANGED sessions
    /\ UNCHANGED <<clock, redis, background>>

\* InvalidateSessionCache, its error dropped, and the response: the last step
\* of a refresh and of a logout.
InvalidateSessionCache(r) ==
    /\ pc[r] = "clear"
    /\ LET s == IF req[r].op = "refresh" THEN req[r].token.sid ELSE req[r].sid
       IN  \/ cache' = cache \ {s}
           \/ RedisFaults /\ UNCHANGED cache
    /\ Finish(r, IF req[r].op = "refresh"
                 THEN [kind |-> "tokens", token |-> next[r]]
                 ELSE Reply("revoked"))
    /\ UNCHANGED <<clock, sessions, used, background>>

\* RevokeAllUserSessions on a detected reuse and for a new password; of these
\* only ChangePassword looks at the error.
RevokeAllUserSessions(r) ==
    /\ pc[r] = "revokeAll"
    /\ \/ Revoke(AllUnrevoked, why[r])
       \/ DBFaults /\ req[r].op # "change" /\ UNCHANGED sessions
    /\ Finish(r, Reply(IF req[r].op = "refresh" THEN "reuse" ELSE "password"))
    /\ UNCHANGED <<clock, redis, background>>

-----------------------------------------------------------------------------
(* Logout, revoking a session from the account page, a new password.       *)

Logout(r, s) ==
    /\ s \in HeldSessions
    /\ Begin(r, [NoRequest EXCEPT !.op = "logout", !.sid = s, !.target = s],
             "validate")
    /\ UNCHANGED next

RevokeUserSession(r, s, t) ==
    /\ s \in HeldSessions
    /\ Begin(r, [NoRequest EXCEPT !.op = "revoke", !.sid = s, !.target = t],
             "validate")
    /\ UNCHANGED next

ChangePassword(r, s) ==
    /\ s \in HeldSessions
    /\ Begin(r, [NoRequest EXCEPT !.op = "change", !.sid = s], "validate")
    /\ UNCHANGED next

\* The PIN is consumed and the hash stored; RevokeAllUserSessions is left.
ResetPassword(r) ==
    /\ pc[r] = "idle"
    /\ Goto(r, "revokeAll")
    /\ req' = [req EXCEPT ![r] = [NoRequest EXCEPT !.op = "reset"]]
    /\ why' = [why EXCEPT ![r] = "logout"]
    /\ UNCHANGED <<clock, sessions, redis, background, next, resp>>

\* ValidateActiveSession of the middleware; a password change goes on with its
\* own update of the user row.
ValidateActiveSession(r) ==
    /\ pc[r] = "validate"
    /\ IF ~ Active(req[r].sid)
       THEN Finish(r, Reply("replaced"))
       ELSE IF req[r].op = "change"
       THEN GoRevokeAll(r, "password_changed")
       ELSE Continue(r, "revoke")
    /\ UNCHANGED <<clock, sessions, redis, background>>

\* RevokeSession: the row is updated whether or not it is revoked already.
RevokeSession(r) ==
    /\ pc[r] = "revoke"
    /\ IF ~ Exists(req[r].target)
       THEN Finish(r, Reply("error")) /\ UNCHANGED sessions
       ELSE /\ Revoke({req[r].target}, "logout")
            /\ IF req[r].op = "logout"
               THEN Continue(r, "clear")
               ELSE Finish(r, Reply("revoked"))
    /\ UNCHANGED <<clock, redis, background>>

-----------------------------------------------------------------------------
(* GET /api/sessions/current: cached context, else the row, then cached.   *)

GetCurrentSession(r, s) ==
    /\ s \in HeldSessions
    /\ Begin(r, [NoRequest EXCEPT !.op = "current", !.sid = s], "cacheGet")
    /\ UNCHANGED next

GetContext(r) ==
    /\ pc[r] = "cacheGet"
    /\ \/ req[r].sid \in cache /\ Finish(r, Reply("current"))
       \/ (req[r].sid \notin cache \/ RedisFaults) /\ Continue(r, "dbGet")
    /\ UNCHANGED <<clock, sessions, redis, background>>

GetSessionByID(r) ==
    /\ pc[r] = "dbGet"
    /\ IF Active(req[r].sid) THEN Continue(r, "cacheSet")
                             ELSE Finish(r, Reply("invalid"))
    /\ UNCHANGED <<clock, sessions, redis, background>>

SetContext(r) ==
    /\ pc[r] = "cacheSet"
    /\ \/ cache' = cache \cup {req[r].sid}
       \/ RedisFaults /\ UNCHANGED cache
    /\ Finish(r, Reply("current"))
    /\ UNCHANGED <<clock, sessions, used, background>>

-----------------------------------------------------------------------------
(* Time and failures.                                                      *)

Tick ==
    /\ clock < MaxClock
    /\ clock' = clock + 1
    /\ UNCHANGED <<sessions, redis, background, local>>

\* The cached context reaches its TTL.
ContextExpires(s) ==
    /\ s \in cache
    /\ cache' = cache \ {s}
    /\ UNCHANGED <<clock, sessions, used, background, local>>

\* A Postgres call fails and its error is returned, or the process dies.
Abort(r) ==
    /\ DBFaults
    /\ pc[r] \notin {"idle", "done"}
    /\ Finish(r, Reply("error"))
    /\ UNCHANGED <<clock, sessions, redis, background>>

\* The goroutine logs a warning and ends, or dies with the process.
ReplacerFails(s) ==
    /\ DBFaults
    /\ Replacing(s)
    /\ Advance(s, "done")
    /\ found' = [found EXCEPT ![s] = {}]
    /\ UNCHANGED <<clock, sessions, redis, local>>

-----------------------------------------------------------------------------
Arrive(r) ==
    \/ ResetPassword(r)
    \/ \E token \in Held, foreign \in BOOLEAN : RefreshToken(r, token, foreign)
    \/ \E s \in SessionIds :
          \/ Login(r, s) \/ Logout(r, s) \/ ChangePassword(r, s)
          \/ GetCurrentSession(r, s)
          \/ \E t \in SessionIds : RevokeUserSession(r, s, t)

Step(r) ==
    \/ CreateSession(r)
    \/ IsRefreshTokenUsed(r) \/ MarkRefreshTokenUsed(r) \/ FindSessionByID(r)
    \/ RotateSessionRefreshToken(r) \/ InvalidateSessionCache(r)
    \/ RevokeAllUserSessions(r)
    \/ ValidateActiveSession(r) \/ RevokeSession(r)
    \/ GetContext(r) \/ GetSessionByID(r) \/ SetContext(r)

Replace(s) ==
    FindActiveSessions(s) \/ InvalidateSessionCaches(s) \/ RevokeOtherActive(s)

\* All requests have been served and no goroutine is left.
Quiescent ==
    /\ \A r \in Reqs : pc[r] = "done"
    /\ \A s \in SessionIds : ~ Replacing(s)
    /\ UNCHANGED vars

Next ==
    \/ \E r \in Reqs : Arrive(r) \/ Step(r) \/ Abort(r)
    \/ \E s \in SessionIds : Replace(s) \/ ReplacerFails(s) \/ ContextExpires(s)
    \/ Tick \/ Quiescent

Spec == Init /\ [][Next]_vars

\* Handlers and the goroutine a login starts go on once started.
FairSpec == /\ Spec
            /\ \A r \in Reqs : WF_vars(Step(r))
            /\ \A s \in SessionIds : WF_vars(Replace(s))

-----------------------------------------------------------------------------
(* Strengthenings that make the properties below inductive.                *)

\* What a handler relies on at each point.
HandlerOK(r) ==
    /\ pc[r] = "create" => /\ req[r].op = "login" /\ req[r].sid \in SessionIds
                           /\ next[r] \in Token /\ next[r].sid = req[r].sid
    /\ pc[r] \in {"check", "mark", "load", "rotate"} =>
          req[r].op = "refresh" /\ req[r].token \in Token
    /\ pc[r] = "rotate" =>
          next[r] \in Token /\ next[r].sid = req[r].token.sid
    /\ pc[r] = "clear" =>
          \/ /\ req[r].op = "refresh" /\ req[r].token \in Token
             /\ next[r] \in Token
          \/ req[r].op = "logout" /\ req[r].sid \in SessionIds
    /\ pc[r] = "validate" =>
          /\ req[r].op \in {"logout", "revoke", "change"}
          /\ req[r].sid \in SessionIds
          /\ req[r].op # "change" => req[r].target \in SessionIds
    /\ pc[r] = "revoke" =>
          /\ req[r].op \in {"logout", "revoke"}
          /\ req[r].sid \in SessionIds /\ req[r].target \in SessionIds
    /\ pc[r] \in {"cacheGet", "dbGet", "cacheSet"} =>
          req[r].op = "current" /\ req[r].sid \in SessionIds

HandlersOK == \A r \in Reqs : HandlerOK(r)

\* A request is answered once, and revokes with a reason.
RepliesOK ==
    \A r \in Reqs : /\ pc[r] # "done" => resp[r].kind = "none"
                    /\ pc[r] = "revokeAll" => why[r] # ""

\* Each login has a session id of its own, not stored before it inserts the row.
LoginsApart ==
    \A r \in Reqs : pc[r] = "create" =>
        /\ ~ Exists(req[r].sid)
        /\ \A q \in Reqs \ {r} : req[q].op = "login" => req[q].sid # req[r].sid

\* created numbers the rows in the order of their insertion.
CreatedBound ==
    \A s \in SessionIds : Exists(s) => sessions[s].created <= Cardinality(Existing)

\* A request that rotated a token: the row has moved on to a later one.
Spent(r) == req[r].op = "refresh" /\ (pc[r] = "clear" \/ resp[r].kind = "tokens")

RowsOK ==
    \A s \in SessionIds : Exists(s) =>
        sessions[s].hash.sid = s /\ sessions[s].hash.iat <= clock

SpentTokensOld ==
    \A r \in Reqs :
        /\ pc[r] \in {"check", "mark", "load"} => req[r].token.iat < clock
        /\ pc[r] = "create" => next[r].iat <= clock
        /\ pc[r] = "rotate" =>
              req[r].token.iat < next[r].iat /\ next[r].iat <= clock
        /\ Spent(r) => /\ req[r].token \in Token
                       /\ Exists(req[r].token.sid)
                       /\ req[r].token.iat < sessions[req[r].token.sid].hash.iat

\* Also while the response is not sent yet.
SpentApart ==
    \A r, q \in Reqs : Spent(r) /\ Spent(q) /\ req[r].token = req[q].token => r = q

-----------------------------------------------------------------------------
(* Properties.                                                             *)

\* "On token reuse (rotation attack), ALL user sessions are revoked": one refresh
\* token never buys two token pairs, however requests with it interleave
\* between the Redis check, the mark and the rotation, and also when Redis is
\* down (RefreshToken).
TokenSpentOnce ==
    \A r, q \in Reqs :
        /\ req[r].op = "refresh" /\ resp[r].kind = "tokens"
        /\ req[q].op = "refresh" /\ resp[q].kind = "tokens"
        /\ req[r].token = req[q].token
        => r = q

\* A revoked session is never revoked back, rotated or prolonged, also when a
\* refresh loaded it before the revocation (RotateSessionRefreshToken).
RevokedIsFinal ==
    [][\A s \in SessionIds : Exists(s) /\ IsRevoked(s) =>
          /\ Exists(s)' /\ IsRevoked(s)'
          /\ sessions'[s].hash = sessions[s].hash]_vars

\* Of two active sessions the newer one's goroutine still owes the revocation
\* of the older: when no goroutine is left there is at most one active session
\* (replaceExistingLoginSessionsAsync).
NewerReplaces ==
    \A s, t \in SessionIds :
        /\ Active(s) /\ Active(t)
        /\ sessions[s].created < sessions[t].created
        => Replacing(t)

\* No interleaving of refreshes leaves an active session with a refresh token
\* that no client has or is about to get.
StoredTokenHeld ==
    \A s \in SessionIds : Active(s) =>
        \/ sessions[s].hash \in Held
        \/ \E r \in Reqs : pc[r] = "clear" /\ next[r] = sessions[s].hash

\* The refresh token an active session expects next has not been presented
\* before, except by a refresh that is under way: a client that presents each
\* token it gets once is not taken for one that reuses a token (RefreshToken).
StoredTokenUsable ==
    \A s \in SessionIds : Active(s) /\ sessions[s].hash \in used =>
        \E r \in Reqs : /\ pc[r] \in {"load", "rotate"}
                        /\ req[r].token = sessions[s].hash

\* Once logins stop, at most one session stays active.
SessionsConverge == <>[](\A s, t \in SessionIds : Active(s) /\ Active(t) => s = t)

-----------------------------------------------------------------------------
(* What documents and comments say and the code does not keep: no run checks *)
(* these two, and the README gives the sequences that violate them.          *)

\* "Previous-session revocation" (docs/security/rate-limit-session-hardening.md:29):
\* a session is replaced only by a login that came after it.
ReplacedByNewer ==
    \A s \in Existing : sessions[s].reason = "replaced_by_new_login" =>
        \E t \in Existing : sessions[t].created > sessions[s].created

\* "Auth must clear it when revoking sessions so stale session contexts cannot
\* survive logout" (auth repository.go:338): no context of a session is cached
\* after its logout was answered.
LogoutClearsContext ==
    \A r \in Reqs : req[r].op = "logout" /\ resp[r].kind = "revoked" =>
        req[r].sid \notin cache

=============================================================================

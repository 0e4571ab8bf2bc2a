------------------------- MODULE AuthSessionProofs -------------------------
(***************************************************************************)
(* Proofs about AuthSession for any number of requests, sessions and        *)
(* seconds.                                                                *)
(***************************************************************************)
EXTENDS AuthSession, FiniteSetTheorems, TLAPS

-----------------------------------------------------------------------------
(* Types.                                                                  *)

\* What the tables and the goroutines hold.
StoreOK ==
    /\ clock \in Nat
    /\ clock \in 0 .. MaxClock
    /\ sessions \in [SessionIds -> Session \cup {None}]
    /\ used \subseteq Token
    /\ cache \subseteq SessionIds
    /\ replacer \in [SessionIds -> {"none", "find", "clear", "revoke", "done"}]
    /\ found \in [SessionIds -> SUBSET SessionIds]

\* What the handlers hold.
LocalOK ==
    /\ pc \in [Reqs -> PCs]
    /\ req \in [Reqs -> Request]
    /\ next \in [Reqs -> Token \cup {None}]
    /\ why \in [Reqs -> Reasons]
    /\ resp \in [Reqs -> Response]
    /\ HandlersOK

TypeInv == StoreOK /\ LocalOK

LEMMA TypeInvIsTypeOK == TypeInv <=> TypeOK /\ HandlersOK
<1>1. \A n \in 0 .. MaxClock : n \in Nat
  BY SessionAssumption
<1> QED
  BY <1>1 DEF TypeInv, StoreOK, LocalOK, TypeOK

LEMMA DefaultsType ==
    /\ NoRequest \in Request
    /\ \A k \in Kinds : Reply(k) \in Response
    /\ \A t \in Token : [kind |-> "tokens", token |-> t] \in Response
  BY DEF NoRequest, Request, Ops, Reply, Response, Kinds

\* A token issued now.
LEMMA IssueType ==
    ASSUME clock \in Nat, NEW s \in SessionIds
    PROVE  /\ IssuePair(s) \in Token
           /\ IssuePair(s).sid = s /\ IssuePair(s).iat = clock
  BY DEF IssuePair, Token

\* A handler that sends a well-typed response leaves the handlers well typed.
LEMMA FinishOK ==
    ASSUME LocalOK, NEW r \in Reqs, NEW response \in Response,
           Finish(r, response)
    PROVE  LocalOK'
<1>1. /\ pc' \in [Reqs -> PCs] /\ req' \in [Reqs -> Request]
      /\ next' \in [Reqs -> Token \cup {None}] /\ why' \in [Reqs -> Reasons]
      /\ resp' \in [Reqs -> Response]
  BY DEF LocalOK, Finish, Goto, PCs, Reasons
<1>2. ASSUME NEW q \in Reqs PROVE HandlerOK(q)'
  <2>1. CASE q = r
    BY <2>1 DEF LocalOK, Finish, Goto, HandlerOK
  <2>2. CASE q # r
    <3>1. pc'[q] = pc[q] /\ req'[q] = req[q] /\ next'[q] = next[q]
      BY <2>2 DEF LocalOK, Finish, Goto
    <3>2. HandlerOK(q)
      BY DEF LocalOK, HandlersOK
    <3> QED
      BY <3>1, <3>2 DEF HandlerOK
  <2> QED
    BY <2>1, <2>2
<1> QED
  BY <1>1, <1>2 DEF LocalOK, HandlersOK

\* A handler that moves on with what its next point needs.
LEMMA MoveOK ==
    ASSUME LocalOK, NEW r \in Reqs, NEW label \in PCs, Goto(r, label),
           NEW request \in Request, req' = [req EXCEPT ![r] = request],
           NEW token \in Token \cup {None}, next' = [next EXCEPT ![r] = token],
           NEW reason \in Reasons, why' = [why EXCEPT ![r] = reason],
           UNCHANGED resp, HandlerOK(r)'
    PROVE  LocalOK'
<1>1. /\ pc' \in [Reqs -> PCs] /\ req' \in [Reqs -> Request]
      /\ next' \in [Reqs -> Token \cup {None}] /\ why' \in [Reqs -> Reasons]
      /\ resp' \in [Reqs -> Response]
  BY DEF LocalOK, Goto
<1>2. ASSUME NEW q \in Reqs PROVE HandlerOK(q)'
  <2>1. CASE q = r
    BY <2>1
  <2>2. CASE q # r
    <3>1. pc'[q] = pc[q] /\ req'[q] = req[q] /\ next'[q] = next[q]
      BY <2>2 DEF LocalOK, Goto
    <3>2. HandlerOK(q)
      BY DEF LocalOK, HandlersOK
    <3> QED
      BY <3>1, <3>2 DEF HandlerOK
  <2> QED
    BY <2>1, <2>2
<1> QED
  BY <1>1, <1>2 DEF LocalOK, HandlersOK

LEMMA ContinueOK ==
    ASSUME LocalOK, NEW r \in Reqs, NEW label \in PCs, Continue(r, label),
           HandlerOK(r)'
    PROVE  LocalOK'
<1>1. /\ req' = [req EXCEPT ![r] = req[r]]
      /\ next' = [next EXCEPT ![r] = next[r]]
      /\ why' = [why EXCEPT ![r] = why[r]]
  BY DEF Continue, LocalOK
<1>2. req[r] \in Request /\ next[r] \in Token \cup {None} /\ why[r] \in Reasons
  BY DEF LocalOK
<1> QED
  BY <1>1, <1>2, MoveOK DEF Continue

LEMMA GoRevokeAllOK ==
    ASSUME LocalOK, NEW r \in Reqs, NEW reason \in Reasons,
           GoRevokeAll(r, reason)
    PROVE  LocalOK'
<1>1. /\ req' = [req EXCEPT ![r] = req[r]]
      /\ next' = [next EXCEPT ![r] = next[r]]
  BY DEF GoRevokeAll, LocalOK
<1>2. req[r] \in Request /\ next[r] \in Token \cup {None}
  BY DEF LocalOK
<1>3. HandlerOK(r)'
  BY DEF GoRevokeAll, Goto, LocalOK, HandlerOK
<1>4. "revokeAll" \in PCs
  BY DEF PCs
<1> QED
  BY <1>1, <1>2, <1>3, <1>4, MoveOK DEF GoRevokeAll

LEMMA BeginOK ==
    ASSUME LocalOK, NEW r \in Reqs, NEW label \in PCs, NEW request \in Request,
           Begin(r, request, label), UNCHANGED next, HandlerOK(r)'
    PROVE  LocalOK'
<1>1. /\ next' = [next EXCEPT ![r] = next[r]]
      /\ why' = [why EXCEPT ![r] = why[r]]
  BY DEF Begin, LocalOK
<1>2. next[r] \in Token \cup {None} /\ why[r] \in Reasons
  BY DEF LocalOK
<1> QED
  BY <1>1, <1>2, MoveOK DEF Begin

\* A row that is revoked or rotated stays a row.
LEMMA RowType ==
    ASSUME NEW row \in Session
    PROVE  /\ \A w \in Reasons : [row EXCEPT !.reason = w] \in Session
           /\ \A t \in Token : [row EXCEPT !.hash = t] \in Session
           /\ row.hash \in Token /\ row.hash.iat \in Nat
           /\ row.created \in Nat /\ row.reason \in Reasons
  BY DEF Session, Token

LEMMA RevokeOK ==
    ASSUME StoreOK, NEW ids \in SUBSET SessionIds, \A s \in ids : Exists(s),
           NEW reason \in Reasons, Revoke(ids, reason)
    PROVE  sessions' \in [SessionIds -> Session \cup {None}]
<1> SUFFICES ASSUME NEW s \in SessionIds
             PROVE  sessions'[s] \in Session \cup {None}
  BY DEF Revoke
<1>1. CASE s \in ids
  <2>1. sessions[s] \in Session
    BY <1>1 DEF StoreOK, Exists
  <2> QED
    BY <1>1, <2>1, RowType DEF Revoke
<1>2. CASE s \notin ids
  BY <1>2 DEF StoreOK, Revoke
<1> QED
  BY <1>1, <1>2

\* Tokens and sessions clients hold.
LEMMA HeldType ==
    ASSUME LocalOK
    PROVE  Held \subseteq Token /\ HeldSessions \subseteq SessionIds
<1>1. Held \subseteq Token
  BY DEF LocalOK, Held, Response
<1> QED
  BY <1>1 DEF HeldSessions, Token

LEMMA Labels == {"create", "check", "mark", "load", "rotate", "clear",
    "revokeAll", "validate", "revoke", "cacheGet", "dbGet", "cacheSet"} \subseteq PCs
  BY DEF PCs

-----------------------------------------------------------------------------
(* Every step keeps the types.                                             *)

LEMMA ArriveType ==
    ASSUME TypeInv, NEW r \in Reqs, Arrive(r)
    PROVE  TypeInv'
<1> USE DEF TypeInv
<1>1. CASE ResetPassword(r)
  <2>1. StoreOK'
    BY <1>1 DEF ResetPassword, StoreOK, redis, background
  <2>2. [NoRequest EXCEPT !.op = "reset"] \in Request
    BY DEF NoRequest, Request, Ops
  <2>3. next' = [next EXCEPT ![r] = next[r]] /\ next[r] \in Token \cup {None}
    BY <1>1 DEF ResetPassword, LocalOK
  <2>4. HandlerOK(r)'
    BY <1>1 DEF ResetPassword, Goto, HandlerOK, LocalOK
  <2>5. "logout" \in Reasons
    BY DEF Reasons
  <2> QED
    BY <1>1, <2>1, <2>2, <2>3, <2>4, <2>5, Labels, MoveOK DEF ResetPassword
<1>2. ASSUME NEW token \in Held, NEW foreign \in BOOLEAN,
             RefreshToken(r, token, foreign)
      PROVE  TypeInv'
  <2>1. token \in Token
    BY HeldType
  <2> DEFINE request == [NoRequest EXCEPT !.op = "refresh", !.token = token,
                                          !.foreign = foreign]
  <2>2. request \in Request
    BY <2>1 DEF NoRequest, Request, Ops
  <2>3. HandlerOK(r)'
    BY <1>2, <2>1 DEF RefreshToken, Begin, Goto, HandlerOK, LocalOK, NoRequest
  <2>4. StoreOK'
    BY <1>2 DEF RefreshToken, Begin, StoreOK, redis, background
  <2> QED
    BY <1>2, <2>2, <2>3, <2>4, Labels, BeginOK DEF RefreshToken
<1>3. ASSUME NEW s \in SessionIds, Login(r, s)
      PROVE  TypeInv'
  <2> DEFINE request == [NoRequest EXCEPT !.op = "login", !.sid = s]
  <2>1. request \in Request
    BY DEF NoRequest, Request, Ops
  <2>2. IssuePair(s) \in Token /\ IssuePair(s).sid = s
    BY IssueType DEF StoreOK
  <2>3. why' = [why EXCEPT ![r] = why[r]] /\ why[r] \in Reasons
    BY <1>3 DEF Login, Begin, LocalOK
  <2>4. HandlerOK(r)'
    BY <1>3, <2>2 DEF Login, Begin, Goto, HandlerOK, LocalOK, NoRequest
  <2>5. StoreOK'
    BY <1>3 DEF Login, Begin, StoreOK, redis, background
  <2> QED
    BY <1>3, <2>1, <2>2, <2>3, <2>4, <2>5, Labels, MoveOK DEF Login, Begin
<1>4. ASSUME NEW s \in SessionIds,
             Logout(r, s) \/ ChangePassword(r, s) \/ GetCurrentSession(r, s)
      PROVE  TypeInv'
  <2>1. /\ [NoRequest EXCEPT !.op = "logout", !.sid = s, !.target = s] \in Request
        /\ [NoRequest EXCEPT !.op = "change", !.sid = s] \in Request
        /\ [NoRequest EXCEPT !.op = "current", !.sid = s] \in Request
    BY DEF NoRequest, Request, Ops
  <2>2. StoreOK'
    BY <1>4 DEF Logout, ChangePassword, GetCurrentSession, Begin, StoreOK,
                redis, background
  <2>3. HandlerOK(r)'
    <3>1. CASE Logout(r, s)
      BY <3>1 DEF Logout, Begin, Goto, HandlerOK, LocalOK, NoRequest
    <3>2. CASE ChangePassword(r, s)
      BY <3>2 DEF ChangePassword, Begin, Goto, HandlerOK, LocalOK, NoRequest
    <3>3. CASE GetCurrentSession(r, s)
      BY <3>3 DEF GetCurrentSession, Begin, Goto, HandlerOK, LocalOK, NoRequest
    <3> QED
      BY <1>4, <3>1, <3>2, <3>3
  <2> QED
    BY <1>4, <2>1, <2>2, <2>3, Labels, BeginOK
    DEF Logout, ChangePassword, GetCurrentSession
<1>5. ASSUME NEW s \in SessionIds, NEW t \in SessionIds,
             RevokeUserSession(r, s, t)
      PROVE  TypeInv'
  <2>1. [NoRequest EXCEPT !.op = "revoke", !.sid = s, !.target = t] \in Request
    BY DEF NoRequest, Request, Ops
  <2>2. StoreOK'
    BY <1>5 DEF RevokeUserSession, Begin, StoreOK, redis, background
  <2>3. HandlerOK(r)'
    BY <1>5 DEF RevokeUserSession, Begin, Goto, HandlerOK, LocalOK, NoRequest
  <2> QED
    BY <1>5, <2>1, <2>2, <2>3, Labels, BeginOK DEF RevokeUserSession
<1> QED
  BY <1>1, <1>2, <1>3, <1>4, <1>5 DEF Arrive

LEMMA LoginStepType ==
    ASSUME TypeInv, NEW r \in Reqs, CreateSession(r)
    PROVE  TypeInv'
<1> USE DEF TypeInv
<1>1. /\ req[r].sid \in SessionIds /\ next[r] \in Token
  BY DEF CreateSession, LocalOK, HandlersOK, HandlerOK
<1>2. Cardinality(Existing) \in Nat
  <2>1. IsFiniteSet(Existing)
    BY SessionAssumption, FS_Subset DEF Existing
  <2> QED
    BY <2>1, FS_CardinalityType
<1>3. [hash |-> next[r], reason |-> "", created |-> Cardinality(Existing) + 1]
          \in Session
  BY <1>1, <1>2 DEF Session, Reasons
<1>4. StoreOK'
  BY <1>1, <1>3 DEF CreateSession, StoreOK, redis
<1>5. LocalOK'
  BY <1>1, DefaultsType, FinishOK DEF CreateSession
<1> QED
  BY <1>4, <1>5

LEMMA RefreshStepType ==
    ASSUME TypeInv, NEW r \in Reqs,
           \/ IsRefreshTokenUsed(r) \/ MarkRefreshTokenUsed(r)
           \/ FindSessionByID(r) \/ RotateSessionRefreshToken(r)
           \/ InvalidateSessionCache(r) \/ RevokeAllUserSessions(r)
    PROVE  TypeInv'
<1> USE DEF TypeInv
<1>h. HandlerOK(r)
  BY DEF LocalOK, HandlersOK
<1>k. /\ \A k \in Kinds : Reply(k) \in Response
      /\ {"logout", "refresh_token_reuse", "refresh_token_race"} \subseteq Reasons
      /\ {"invalid", "replaced", "reuse", "password", "revoked"} \subseteq Kinds
  BY DefaultsType DEF Reasons, Kinds
<1>1. CASE IsRefreshTokenUsed(r)
  <2>1. StoreOK'
    BY <1>1 DEF IsRefreshTokenUsed, StoreOK, redis, background
  <2>2. CASE Finish(r, Reply("invalid")) \/ GoRevokeAll(r, "logout")
    BY <2>1, <2>2, <1>k, FinishOK, GoRevokeAllOK
  <2>3. CASE Continue(r, "mark")
    <3>1. HandlerOK(r)'
      BY <1>1, <2>3, <1>h DEF IsRefreshTokenUsed, Continue, Goto, HandlerOK, LocalOK
    <3> QED
      BY <2>1, <2>3, <3>1, Labels, ContinueOK
  <2> QED
    BY <1>1, <2>2, <2>3 DEF IsRefreshTokenUsed
<1>2. CASE MarkRefreshTokenUsed(r)
  <2>1. StoreOK'
    BY <1>2, <1>h DEF MarkRefreshTokenUsed, HandlerOK, StoreOK, background
  <2>2. HandlerOK(r)'
    BY <1>2, <1>h DEF MarkRefreshTokenUsed, Continue, Goto, HandlerOK, LocalOK
  <2> QED
    BY <1>2, <2>1, <2>2, Labels, ContinueOK DEF MarkRefreshTokenUsed
<1>3. CASE FindSessionByID(r)
  <2> DEFINE s == req[r].token.sid
  <2>1. StoreOK'
    BY <1>3 DEF FindSessionByID, StoreOK, redis, background
  <2>2. s \in SessionIds
    BY <1>3, <1>h DEF FindSessionByID, HandlerOK, Token
  <2>3. CASE Finish(r, Reply("replaced")) \/ GoRevokeAll(r, "refresh_token_reuse")
    BY <2>1, <2>3, <1>k, FinishOK, GoRevokeAllOK
  <2>4. CASE /\ Goto(r, "rotate")
             /\ next' = [next EXCEPT ![r] = IssuePair(s)]
             /\ UNCHANGED <<req, why, resp>>
    <3>1. IssuePair(s) \in Token /\ IssuePair(s).sid = s
      BY <2>2, IssueType DEF StoreOK
    <3>2. HandlerOK(r)'
      BY <1>3, <1>h, <2>4, <3>1 DEF FindSessionByID, Goto, HandlerOK, LocalOK
    <3>3. /\ req' = [req EXCEPT ![r] = req[r]] /\ req[r] \in Request
          /\ why' = [why EXCEPT ![r] = why[r]] /\ why[r] \in Reasons
      BY <2>4 DEF LocalOK
    <3> QED
      BY <2>1, <2>4, <3>1, <3>2, <3>3, Labels, MoveOK
  <2> QED
    BY <1>3, <2>3, <2>4 DEF FindSessionByID
<1>4. CASE RotateSessionRefreshToken(r)
  <2>1. req[r].token.sid \in SessionIds /\ next[r] \in Token
    BY <1>4, <1>h DEF RotateSessionRefreshToken, HandlerOK, Token
  <2>2. CASE ~ Rotates(req[r].token)
    <3>1. StoreOK'
      BY <1>4, <2>2 DEF RotateSessionRefreshToken, StoreOK, redis, background
    <3> QED
      BY <1>4, <2>2, <3>1, <1>k, GoRevokeAllOK DEF RotateSessionRefreshToken
  <2>3. CASE Rotates(req[r].token)
    <3>1. sessions[req[r].token.sid] \in Session
      BY <2>1, <2>3 DEF Rotates, Active, Exists, StoreOK
    <3>2. StoreOK'
      BY <1>4, <2>1, <2>3, <3>1, RowType
      DEF RotateSessionRefreshToken, StoreOK, redis, background
    <3>3. HandlerOK(r)'
      BY <1>4, <2>3, <1>h
      DEF RotateSessionRefreshToken, Continue, Goto, HandlerOK, LocalOK
    <3> QED
      BY <1>4, <2>3, <3>2, <3>3, Labels, ContinueOK DEF RotateSessionRefreshToken
  <2> QED
    BY <2>2, <2>3
<1>5. CASE InvalidateSessionCache(r)
  <2>1. StoreOK'
    BY <1>5 DEF InvalidateSessionCache, StoreOK, background
  <2>2. (IF req[r].op = "refresh" THEN [kind |-> "tokens", token |-> next[r]]
                                  ELSE Reply("revoked")) \in Response
    BY <1>5, <1>h, <1>k, DefaultsType DEF InvalidateSessionCache, HandlerOK
  <2> QED
    BY <1>5, <2>1, <2>2, FinishOK DEF InvalidateSessionCache
<1>6. CASE RevokeAllUserSessions(r)
  <2>1. sessions' \in [SessionIds -> Session \cup {None}]
    <3>1. CASE Revoke(AllUnrevoked, why[r])
      <4>1. why[r] \in Reasons
        BY DEF LocalOK
      <4>2. AllUnrevoked \subseteq SessionIds /\ \A s \in AllUnrevoked : Exists(s)
        BY DEF AllUnrevoked
      <4> QED
        BY <3>1, <4>1, <4>2, RevokeOK
    <3>2. CASE UNCHANGED sessions
      BY <3>2 DEF StoreOK
    <3> QED
      BY <1>6, <3>1, <3>2 DEF RevokeAllUserSessions
  <2>2. StoreOK'
    BY <1>6, <2>1 DEF RevokeAllUserSessions, StoreOK, redis, background
  <2>3. Reply(IF req[r].op = "refresh" THEN "reuse" ELSE "password") \in Response
    BY <1>k
  <2> QED
    BY <1>6, <2>2, <2>3, FinishOK DEF RevokeAllUserSessions
<1> QED
  BY <1>1, <1>2, <1>3, <1>4, <1>5, <1>6

LEMMA AccountStepType ==
    ASSUME TypeInv, NEW r \in Reqs,
           \/ ValidateActiveSession(r) \/ RevokeSession(r)
           \/ GetContext(r) \/ GetSessionByID(r) \/ SetContext(r)
    PROVE  TypeInv'
<1> USE DEF TypeInv
<1>h. HandlerOK(r)
  BY DEF LocalOK, HandlersOK
<1>k. /\ \A k \in Kinds : Reply(k) \in Response
      /\ {"logout", "password_changed"} \subseteq Reasons
      /\ {"invalid", "replaced", "revoked", "error", "current"} \subseteq Kinds
  BY DefaultsType DEF Reasons, Kinds
<1>1. CASE ValidateActiveSession(r)
  <2>1. StoreOK'
    BY <1>1 DEF ValidateActiveSession, StoreOK, redis, background
  <2>2. CASE Finish(r, Reply("replaced")) \/ GoRevokeAll(r, "password_changed")
    BY <2>1, <2>2, <1>k, FinishOK, GoRevokeAllOK
  <2>3. CASE req[r].op # "change" /\ Continue(r, "revoke")
    <3>1. HandlerOK(r)'
      BY <1>1, <2>3, <1>h
      DEF ValidateActiveSession, Continue, Goto, HandlerOK, LocalOK
    <3> QED
      BY <2>1, <2>3, <3>1, Labels, ContinueOK
  <2> QED
    BY <1>1, <2>2, <2>3 DEF ValidateActiveSession
<1>2. CASE RevokeSession(r)
  <2>1. CASE ~ Exists(req[r].target)
    <3>1. StoreOK'
      BY <1>2, <2>1 DEF RevokeSession, StoreOK, redis, background
    <3> QED
      BY <1>2, <2>1, <3>1, <1>k, FinishOK DEF RevokeSession
  <2>2. CASE Exists(req[r].target)
    <3>1. {req[r].target} \subseteq SessionIds
      BY <1>2, <1>h DEF RevokeSession, HandlerOK
    <3>2. Revoke({req[r].target}, "logout")
      BY <1>2, <2>2 DEF RevokeSession
    <3>3. sessions' \in [SessionIds -> Session \cup {None}]
      BY <3>1, <3>2, <2>2, <1>k, RevokeOK
    <3>4. StoreOK'
      BY <1>2, <3>3 DEF RevokeSession, StoreOK, redis, background
    <3>5. CASE Finish(r, Reply("revoked"))
      BY <3>4, <3>5, <1>k, FinishOK
    <3>6. CASE req[r].op = "logout" /\ Continue(r, "clear")
      <4>1. HandlerOK(r)'
        BY <1>2, <3>6, <1>h DEF RevokeSession, Continue, Goto, HandlerOK, LocalOK
      <4> QED
        BY <3>4, <3>6, <4>1, Labels, ContinueOK
    <3> QED
      BY <1>2, <2>2, <3>5, <3>6 DEF RevokeSession
  <2> QED
    BY <2>1, <2>2
<1>3. CASE GetContext(r)
  <2>1. StoreOK'
    BY <1>3 DEF GetContext, StoreOK, redis, background
  <2>2. CASE Finish(r, Reply("current"))
    BY <2>1, <2>2, <1>k, FinishOK
  <2>3. CASE Continue(r, "dbGet")
    <3>1. HandlerOK(r)'
      BY <1>3, <2>3, <1>h DEF GetContext, Continue, Goto, HandlerOK, LocalOK
    <3> QED
      BY <2>1, <2>3, <3>1, Labels, ContinueOK
  <2> QED
    BY <1>3, <2>2, <2>3 DEF GetContext
<1>4. CASE GetSessionByID(r)
  <2>1. StoreOK'
    BY <1>4 DEF GetSessionByID, StoreOK, redis, background
  <2>2. CASE Finish(r, Reply("invalid"))
    BY <2>1, <2>2, <1>k, FinishOK
  <2>3. CASE Continue(r, "cacheSet")
    <3>1. HandlerOK(r)'
      BY <1>4, <2>3, <1>h DEF GetSessionByID, Continue, Goto, HandlerOK, LocalOK
    <3> QED
      BY <2>1, <2>3, <3>1, Labels, ContinueOK
  <2> QED
    BY <1>4, <2>2, <2>3 DEF GetSessionByID
<1>5. CASE SetContext(r)
  <2>1. StoreOK'
    BY <1>5, <1>h DEF SetContext, HandlerOK, StoreOK, background
  <2> QED
    BY <1>5, <2>1, <1>k, FinishOK DEF SetContext
<1> QED
  BY <1>1, <1>2, <1>3, <1>4, <1>5

LEMMA BackgroundType ==
    ASSUME TypeInv,
           NEW s \in SessionIds,
           Replace(s) \/ ReplacerFails(s) \/ ContextExpires(s) \/ Tick
    PROVE  TypeInv'
<1> USE DEF TypeInv
<1>1. LocalOK'
  BY DEF Replace, FindActiveSessions, InvalidateSessionCaches, RevokeOtherActive,
         ReplacerFails, ContextExpires, Tick, local, LocalOK, HandlersOK, HandlerOK
<1>2. CASE FindActiveSessions(s) \/ InvalidateSessionCaches(s)
           \/ ReplacerFails(s) \/ ContextExpires(s)
  BY <1>1, <1>2 DEF FindActiveSessions, InvalidateSessionCaches, OtherActive,
                    ReplacerFails, ContextExpires, Advance, StoreOK, redis, background
<1>3. CASE RevokeOtherActive(s)
  <2>1. /\ OtherActive(s) \subseteq SessionIds
        /\ \A t \in OtherActive(s) : Exists(t)
        /\ "replaced_by_new_login" \in Reasons
    BY DEF OtherActive, Active, Reasons
  <2>2. sessions' \in [SessionIds -> Session \cup {None}]
    BY <1>3, <2>1, RevokeOK DEF RevokeOtherActive
  <2> QED
    BY <1>1, <1>3, <2>2 DEF RevokeOtherActive, Advance, StoreOK, redis
<1>4. CASE Tick
  BY <1>1, <1>4, SessionAssumption DEF Tick, StoreOK, redis, background
<1> QED
  BY <1>2, <1>3, <1>4 DEF Replace

LEMMA TypeInit == Init => TypeInv
<1> SUFFICES ASSUME Init PROVE TypeInv
  OBVIOUS
<1>1. StoreOK
  <2>1. clock \in Nat /\ clock \in 0 .. MaxClock
    <3>1. clock = 0
      BY DEF Init
    <3>2. MaxClock \in Nat
      BY SessionAssumption
    <3> QED
      BY <3>1, <3>2
  <2>2. /\ sessions \in [SessionIds -> Session \cup {None}]
        /\ replacer \in [SessionIds -> {"none", "find", "clear", "revoke", "done"}]
        /\ used \subseteq Token /\ cache \subseteq SessionIds
    BY DEF Init
  <2>3. found \in [SessionIds -> SUBSET SessionIds]
    BY DEF Init
  <2> QED
    BY <2>1, <2>2, <2>3 DEF StoreOK
<1>2. LocalOK
  BY DefaultsType DEF Init, LocalOK, PCs, Reasons, Kinds, HandlersOK, HandlerOK
<1> QED
  BY <1>1, <1>2 DEF TypeInv

LEMMA TypeStep == TypeInv /\ [Next]_vars => TypeInv'
<1> SUFFICES ASSUME TypeInv, [Next]_vars PROVE TypeInv'
  OBVIOUS
<1>1. ASSUME NEW r \in Reqs, Arrive(r) PROVE TypeInv'
  BY <1>1, ArriveType
<1>2. ASSUME NEW r \in Reqs, Step(r) PROVE TypeInv'
  BY <1>2, LoginStepType, RefreshStepType, AccountStepType DEF Step
<1>3. ASSUME NEW r \in Reqs, Abort(r) PROVE TypeInv'
  <2>1. Reply("error") \in Response
    BY DefaultsType DEF Kinds
  <2>2. LocalOK'
    BY <1>3, <2>1, FinishOK DEF Abort, TypeInv
  <2> QED
    BY <1>3, <2>2 DEF Abort, TypeInv, StoreOK, redis, background
<1>4. ASSUME NEW s \in SessionIds,
             Replace(s) \/ ReplacerFails(s) \/ ContextExpires(s)
      PROVE  TypeInv'
  BY <1>4, BackgroundType
<1>5. CASE Tick
  <2>1. LocalOK'
    BY <1>5 DEF Tick, local, LocalOK, HandlersOK, HandlerOK, TypeInv
  <2> QED
    BY <1>5, <2>1, SessionAssumption DEF Tick, TypeInv, StoreOK, redis, background
<1>6. CASE UNCHANGED vars
  BY <1>6 DEF vars, TypeInv, StoreOK, LocalOK, HandlersOK, HandlerOK
<1> QED
  BY <1>1, <1>2, <1>3, <1>4, <1>5, <1>6 DEF Next, Quiescent

\* The types, and what every handler relies on at each point, hold whatever
\* fails and however requests interleave.
THEOREM SessionTypes == Spec => [](TypeOK /\ HandlersOK)
<1>1. TypeInv => TypeOK /\ HandlersOK
  BY TypeInvIsTypeOK
<1> QED
  BY <1>1, TypeInit, TypeStep, PTL DEF Spec

-----------------------------------------------------------------------------
(* What a step does to the rows and to the requests.                       *)

\* A step other than an arrival works for one request, which is not done and
\* not idle, or for none, and leaves the others as they are.
LEMMA StepLocal ==
    ASSUME TypeInv, NEW r \in Reqs, Step(r) \/ Abort(r)
    PROVE  /\ pc[r] \notin {"idle", "done"}
           /\ UNCHANGED <<req, clock>>
           /\ pc'[r] # "create"
           /\ \A q \in Reqs \ {r} : /\ pc'[q] = pc[q] /\ resp'[q] = resp[q]
                                   /\ next'[q] = next[q] /\ why'[q] = why[q]
<1> USE DEF TypeInv, LocalOK, Finish, Continue, GoRevokeAll, Goto
<1>1. CASE CreateSession(r)
  BY <1>1 DEF CreateSession
<1>2. CASE IsRefreshTokenUsed(r)
  BY <1>2 DEF IsRefreshTokenUsed
<1>3. CASE MarkRefreshTokenUsed(r)
  BY <1>3 DEF MarkRefreshTokenUsed
<1>4. CASE FindSessionByID(r)
  BY <1>4 DEF FindSessionByID
<1>5. CASE RotateSessionRefreshToken(r)
  BY <1>5 DEF RotateSessionRefreshToken
<1>6. CASE InvalidateSessionCache(r)
  BY <1>6 DEF InvalidateSessionCache
<1>7. CASE RevokeAllUserSessions(r)
  BY <1>7 DEF RevokeAllUserSessions
<1>8. CASE ValidateActiveSession(r)
  BY <1>8 DEF ValidateActiveSession
<1>9. CASE RevokeSession(r)
  BY <1>9 DEF RevokeSession
<1>10. CASE GetContext(r) \/ GetSessionByID(r) \/ SetContext(r)
  BY <1>10 DEF GetContext, GetSessionByID, SetContext
<1>11. CASE Abort(r)
  BY <1>11 DEF Abort
<1> QED
  BY <1>1, <1>2, <1>3, <1>4, <1>5, <1>6, <1>7, <1>8, <1>9, <1>10, <1>11 DEF Step

\* An arrival starts an idle request and changes nothing else.
LEMMA ArriveLocal ==
    ASSUME TypeInv, NEW r \in Reqs, Arrive(r)
    PROVE  /\ pc[r] = "idle" /\ pc'[r] \notin {"done", "clear", "rotate"}
           /\ UNCHANGED <<clock, sessions, replacer, resp>>
           /\ pc'[r] = "revokeAll" => why'[r] # ""
           /\ \A q \in Reqs \ {r} : /\ pc'[q] = pc[q] /\ req'[q] = req[q]
                                   /\ next'[q] = next[q] /\ why'[q] = why[q]
           /\ \/ \E s \in SessionIds : Login(r, s)
              \/ req'[r].op # "login" /\ pc'[r] # "create"
<1> USE DEF TypeInv, LocalOK, Begin, Goto, redis, background, NoRequest
<1>1. CASE ResetPassword(r)
  BY <1>1 DEF ResetPassword
<1>2. ASSUME NEW token \in Held, NEW foreign \in BOOLEAN,
             RefreshToken(r, token, foreign)
      PROVE  /\ pc[r] = "idle" /\ pc'[r] = "check"
             /\ UNCHANGED <<clock, sessions, replacer, resp, next, why>>
             /\ \A q \in Reqs \ {r} : pc'[q] = pc[q] /\ req'[q] = req[q]
             /\ req'[r].op # "login"
  BY <1>2 DEF RefreshToken
<1>3. ASSUME NEW s \in SessionIds, Login(r, s)
      PROVE  /\ pc[r] = "idle" /\ pc'[r] = "create"
             /\ UNCHANGED <<clock, sessions, replacer, resp, why>>
             /\ \A q \in Reqs \ {r} : /\ pc'[q] = pc[q] /\ req'[q] = req[q]
                                     /\ next'[q] = next[q]
  BY <1>3 DEF Login
<1>4. ASSUME NEW s \in SessionIds,
             Logout(r, s) \/ ChangePassword(r, s) \/ GetCurrentSession(r, s)
      PROVE  /\ pc[r] = "idle" /\ pc'[r] \in {"validate", "cacheGet"}
             /\ UNCHANGED <<clock, sessions, replacer, resp, next, why>>
             /\ \A q \in Reqs \ {r} : pc'[q] = pc[q] /\ req'[q] = req[q]
             /\ req'[r].op # "login"
  BY <1>4 DEF Logout, ChangePassword, GetCurrentSession
<1>5. ASSUME NEW s \in SessionIds, NEW t \in SessionIds, RevokeUserSession(r, s, t)
      PROVE  /\ pc[r] = "idle" /\ pc'[r] = "validate"
             /\ UNCHANGED <<clock, sessions, replacer, resp, next, why>>
             /\ \A q \in Reqs \ {r} : pc'[q] = pc[q] /\ req'[q] = req[q]
             /\ req'[r].op # "login"
  BY <1>5 DEF RevokeUserSession
<1> QED
  BY <1>1, <1>2, <1>3, <1>4, <1>5 DEF Arrive

\* The background steps touch no request.
LEMMA BackgroundLocal ==
    ASSUME \/ \E s \in SessionIds : Replace(s) \/ ReplacerFails(s) \/ ContextExpires(s)
           \/ Tick \/ Quiescent \/ UNCHANGED vars
    PROVE  UNCHANGED local
  BY DEF Replace, FindActiveSessions, InvalidateSessionCaches, RevokeOtherActive,
         ReplacerFails, ContextExpires, Tick, Quiescent, vars, local

\* A step inserts a row, rotates one, revokes some, or leaves the table alone.
RowsRevoked == \E ids \in SUBSET Existing, w \in Reasons \ {""} : Revoke(ids, w)

LEMMA TableChange ==
    ASSUME TypeInv, RepliesOK, [Next]_vars
    PROVE  \/ UNCHANGED sessions
           \/ RowsRevoked
           \/ \E r \in Reqs : CreateSession(r)
           \/ \E r \in Reqs : RotateSessionRefreshToken(r) /\ Rotates(req[r].token)
<1> DEFINE Goal == \/ UNCHANGED sessions
                   \/ RowsRevoked
                   \/ \E r \in Reqs : CreateSession(r)
                   \/ \E r \in Reqs : /\ RotateSessionRefreshToken(r)
                                       /\ Rotates(req[r].token)
<1>1. ASSUME NEW r \in Reqs, Arrive(r) PROVE Goal
  BY <1>1, ArriveLocal
<1>2. ASSUME NEW r \in Reqs, Step(r) PROVE Goal
  <2>1. CASE CreateSession(r)
    BY <2>1
  <2>2. CASE RotateSessionRefreshToken(r)
    BY <2>2 DEF RotateSessionRefreshToken
  <2>3. CASE RevokeAllUserSessions(r)
    <3>1. AllUnrevoked \in SUBSET Existing
      BY DEF AllUnrevoked, Existing
    <3>2. why[r] \in Reasons \ {""}
      BY <2>3 DEF RevokeAllUserSessions, RepliesOK, TypeInv, LocalOK
    <3> QED
      BY <2>3, <3>1, <3>2 DEF RevokeAllUserSessions, RowsRevoked
  <2>4. CASE RevokeSession(r)
    <3>1. CASE ~ Exists(req[r].target)
      BY <2>4, <3>1 DEF RevokeSession
    <3>2. CASE Exists(req[r].target)
      <4>1. req[r].target \in SessionIds
        BY <2>4 DEF RevokeSession, TypeInv, LocalOK, HandlersOK, HandlerOK
      <4>2. {req[r].target} \in SUBSET Existing /\ "logout" \in Reasons \ {""}
        BY <4>1, <3>2 DEF Existing, Reasons
      <4> QED
        BY <2>4, <3>2, <4>2 DEF RevokeSession, RowsRevoked
    <3> QED
      BY <3>1, <3>2
  <2>5. CASE \/ IsRefreshTokenUsed(r) \/ MarkRefreshTokenUsed(r)
             \/ FindSessionByID(r) \/ InvalidateSessionCache(r)
             \/ ValidateActiveSession(r)
             \/ GetContext(r) \/ GetSessionByID(r) \/ SetContext(r)
    BY <2>5 DEF IsRefreshTokenUsed, MarkRefreshTokenUsed, FindSessionByID,
                InvalidateSessionCache, ValidateActiveSession, GetContext,
                GetSessionByID, SetContext
  <2> QED
    BY <1>2, <2>1, <2>2, <2>3, <2>4, <2>5 DEF Step
<1>3. ASSUME NEW r \in Reqs, Abort(r) PROVE Goal
  BY <1>3 DEF Abort
<1>4. ASSUME NEW s \in SessionIds,
             Replace(s) \/ ReplacerFails(s) \/ ContextExpires(s)
      PROVE  Goal
  <2>1. CASE RevokeOtherActive(s)
    <3>1. OtherActive(s) \in SUBSET Existing /\ "replaced_by_new_login" \in Reasons \ {""}
      BY DEF OtherActive, Active, Existing, Reasons
    <3> QED
      BY <2>1, <3>1 DEF RevokeOtherActive, RowsRevoked
  <2>2. CASE ~ RevokeOtherActive(s)
    BY <1>4, <2>2 DEF Replace, FindActiveSessions, InvalidateSessionCaches,
                      ReplacerFails, ContextExpires
  <2> QED
    BY <2>1, <2>2
<1>5. CASE Tick \/ Quiescent \/ UNCHANGED vars
  BY <1>5 DEF Tick, Quiescent, vars
<1> QED
  BY <1>1, <1>2, <1>3, <1>4, <1>5 DEF Next

LEMMA RepliesStep ==
    ASSUME TypeInv, RepliesOK, [Next]_vars
    PROVE  RepliesOK'
<1>1. ASSUME NEW r \in Reqs, Arrive(r) PROVE RepliesOK'
  BY <1>1, ArriveLocal DEF RepliesOK
<1>2. ASSUME NEW r \in Reqs, Step(r) \/ Abort(r) PROVE RepliesOK'
  <2>1. \A q \in Reqs \ {r} : /\ pc'[q] = pc[q] /\ resp'[q] = resp[q]
                             /\ why'[q] = why[q]
    BY <1>2, StepLocal
  <2>2. pc'[r] # "done" => resp'[r] = resp[r]
    BY <1>2 DEF Step, CreateSession, IsRefreshTokenUsed, MarkRefreshTokenUsed,
                FindSessionByID, RotateSessionRefreshToken, InvalidateSessionCache,
                RevokeAllUserSessions, ValidateActiveSession, RevokeSession,
                GetContext, GetSessionByID, SetContext, Abort,
                Finish, Continue, GoRevokeAll, Goto, TypeInv, LocalOK
  <2>3. pc'[r] = "revokeAll" => why'[r] # ""
    BY <1>2 DEF Step, CreateSession, IsRefreshTokenUsed, MarkRefreshTokenUsed,
                FindSessionByID, RotateSessionRefreshToken, InvalidateSessionCache,
                RevokeAllUserSessions, ValidateActiveSession, RevokeSession,
                GetContext, GetSessionByID, SetContext, Abort,
                Finish, Continue, GoRevokeAll, Goto, TypeInv, LocalOK
  <2>4. pc[r] # "done"
    BY <1>2, StepLocal
  <2> QED
    BY <2>1, <2>2, <2>3, <2>4 DEF RepliesOK
<1>3. CASE UNCHANGED local
  BY <1>3 DEF local, RepliesOK
<1> QED
  BY <1>1, <1>2, <1>3, BackgroundLocal DEF Next

LEMMA LoginsApartStep ==
    ASSUME TypeInv, RepliesOK, LoginsApart, [Next]_vars
    PROVE  LoginsApart'
<1>1. \A s \in SessionIds : Exists(s)' =>
          Exists(s) \/ \E r \in Reqs : CreateSession(r) /\ req[r].sid = s
  <2>1. CASE UNCHANGED sessions
    BY <2>1 DEF Exists
  <2>2. CASE RowsRevoked
    BY <2>2 DEF RowsRevoked, Revoke, Existing, Exists
  <2>3. ASSUME NEW r \in Reqs, CreateSession(r)
        PROVE  \A s \in SessionIds : Exists(s)' => Exists(s) \/ req[r].sid = s
    BY <2>3 DEF CreateSession, Exists, TypeInv, StoreOK
  <2>4. ASSUME NEW r \in Reqs, RotateSessionRefreshToken(r), Rotates(req[r].token)
        PROVE  \A s \in SessionIds : Exists(s)' => Exists(s)
    BY <2>4 DEF RotateSessionRefreshToken, Rotates, Active, Exists, TypeInv, StoreOK
  <2> QED
    BY <2>1, <2>2, <2>3, <2>4, TableChange
<1> SUFFICES ASSUME NEW r \in Reqs, pc'[r] = "create"
             PROVE  /\ ~ Exists(req[r].sid)'
                    /\ \A q \in Reqs \ {r} :
                          req'[q].op = "login" => req'[q].sid # req'[r].sid
  BY DEF LoginsApart
<1>2. ASSUME NEW a \in Reqs, Arrive(a)
      PROVE  /\ ~ Exists(req[r].sid)'
             /\ \A q \in Reqs \ {r} :
                   req'[q].op = "login" => req'[q].sid # req'[r].sid
  <2>1. UNCHANGED sessions
    BY <1>2, ArriveLocal
  <2>2. ASSUME NEW s \in SessionIds, Login(a, s)
        PROVE  /\ ~ Exists(req[r].sid)'
               /\ \A q \in Reqs \ {r} :
                     req'[q].op = "login" => req'[q].sid # req'[r].sid
    <3>1. /\ req'[a].sid = s /\ ~ Exists(s)
          /\ \A q \in Reqs \ {a} : req'[q] = req[q]
          /\ \A q \in Reqs : req[q].op = "login" => req[q].sid # s
      BY <2>2 DEF Login, Begin, NoRequest, TypeInv, LocalOK
    <3>2. CASE r = a
      BY <2>1, <3>1, <3>2 DEF Exists
    <3>3. CASE r # a
      <4>1. pc[r] = "create" /\ req'[r] = req[r]
        BY <1>2, <3>3, ArriveLocal
      <4>2. req[r].op = "login"
        BY <4>1 DEF TypeInv, LocalOK, HandlersOK, HandlerOK
      <4> QED
        BY <2>1, <3>1, <3>3, <4>1, <4>2 DEF LoginsApart, Exists
    <3> QED
      BY <3>2, <3>3
  <2>3. CASE req'[a].op # "login" /\ pc'[a] # "create"
    <3>1. r # a /\ pc[r] = "create" /\ req'[r] = req[r]
      BY <1>2, <2>3, ArriveLocal
    <3>2. \A q \in Reqs \ {a} : req'[q] = req[q]
      BY <1>2, ArriveLocal
    <3> QED
      BY <2>1, <2>3, <3>1, <3>2 DEF LoginsApart, Exists
  <2> QED
    BY <1>2, <2>2, <2>3, ArriveLocal
<1>3. CASE UNCHANGED req /\ pc[r] = "create"
  <2>1. req[r].sid \in SessionIds /\ req[r].op = "login"
    BY <1>3 DEF TypeInv, LocalOK, HandlersOK, HandlerOK
  <2>2. ASSUME NEW q \in Reqs, CreateSession(q)
        PROVE  req[q].sid # req[r].sid
    <3>1. q # r
      BY <2>2 DEF CreateSession, Finish, Goto, TypeInv, LocalOK
    <3>2. req[q].op = "login"
      BY <2>2 DEF CreateSession, TypeInv, LocalOK, HandlersOK, HandlerOK
    <3> QED
      BY <1>3, <3>1, <3>2 DEF LoginsApart
  <2>3. ~ Exists(req[r].sid)
    BY <1>3 DEF LoginsApart
  <2>4. \A s \in SessionIds : s = req[r].sid => ~ Exists(s)'
    BY <1>1, <2>1, <2>2, <2>3
  <2> QED
    BY <1>3, <2>1, <2>4 DEF LoginsApart, Exists
<1>4. ASSUME NEW a \in Reqs, Step(a) \/ Abort(a)
      PROVE  UNCHANGED req /\ pc[r] = "create"
  BY <1>4, StepLocal
<1> QED
  BY <1>2, <1>3, <1>4, BackgroundLocal DEF Next, local

\* The strengthened type invariant, and that it holds.
BaseInv == TypeInv /\ RepliesOK /\ LoginsApart

LEMMA BaseInit == Init => BaseInv
<1> SUFFICES ASSUME Init PROVE BaseInv
  OBVIOUS
<1>1. RepliesOK
  BY DEF Init, RepliesOK, Reply
<1>2. LoginsApart
  BY DEF Init, LoginsApart
<1> QED
  BY <1>1, <1>2, TypeInit DEF BaseInv

LEMMA BaseStep == BaseInv /\ [Next]_vars => BaseInv'
  BY TypeStep, RepliesStep, LoginsApartStep DEF BaseInv

\* A revoked session is never revoked back, rotated or prolonged, whatever
\* requests interleave and whatever fails: RotateSessionRefreshToken demands
\* that revoked_at is null, and no login reuses a session id.
THEOREM RevokedFinal == Spec => RevokedIsFinal
<1>1. ASSUME BaseInv, [Next]_vars, NEW s \in SessionIds, Exists(s), IsRevoked(s)
      PROVE  /\ Exists(s)' /\ IsRevoked(s)'
             /\ sessions'[s].hash = sessions[s].hash
  <2>0. sessions[s] \in Session /\ None \notin Session
    BY <1>1, NoneIsNoRecord DEF BaseInv, TypeInv, StoreOK, Exists
  <2>1. CASE UNCHANGED sessions
    BY <1>1, <2>1 DEF Exists, IsRevoked
  <2>2. CASE RowsRevoked
    <3>1. PICK ids \in SUBSET Existing, w \in Reasons \ {""} : Revoke(ids, w)
      BY <2>2 DEF RowsRevoked
    <3>2. CASE s \in ids
      <4>1. sessions'[s] = [sessions[s] EXCEPT !.reason = w]
        BY <3>1, <3>2 DEF Revoke
      <4>2. [sessions[s] EXCEPT !.reason = w] \in Session
        BY <2>0, RowType
      <4> QED
        BY <2>0, <4>1, <4>2 DEF Exists, IsRevoked, Session
    <3>3. CASE s \notin ids
      BY <1>1, <3>1, <3>3 DEF Revoke, Exists, IsRevoked
    <3> QED
      BY <3>2, <3>3
  <2>3. ASSUME NEW r \in Reqs, CreateSession(r)
        PROVE  sessions'[s] = sessions[s]
    <3>1. req[r].sid # s
      BY <1>1, <2>3 DEF CreateSession, BaseInv, LoginsApart
    <3> QED
      BY <2>3, <3>1, <1>1 DEF CreateSession, BaseInv, TypeInv, StoreOK
  <2>4. ASSUME NEW r \in Reqs, RotateSessionRefreshToken(r), Rotates(req[r].token)
        PROVE  sessions'[s] = sessions[s]
    <3>1. req[r].token.sid # s
      BY <1>1, <2>4 DEF Rotates, Active
    <3> QED
      BY <2>4, <3>1, <1>1 DEF RotateSessionRefreshToken, BaseInv, TypeInv, StoreOK
  <2> QED
    BY <1>1, <2>1, <2>2, <2>3, <2>4, TableChange DEF BaseInv, Exists, IsRevoked
<1>2. BaseInv /\ [Next]_vars =>
        [\A s \in SessionIds : Exists(s) /\ IsRevoked(s) =>
             /\ Exists(s)' /\ IsRevoked(s)'
             /\ sessions'[s].hash = sessions[s].hash]_vars
  BY <1>1
<1> QED
  BY <1>2, BaseInit, BaseStep, PTL DEF Spec, RevokedIsFinal

=============================================================================

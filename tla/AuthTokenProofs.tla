-------------------------- MODULE AuthTokenProofs --------------------------
(***************************************************************************)
(* Theorems about AuthSession: the goroutines that logins start leave no    *)
(* two active sessions behind, a refresh token is spent once, and the token *)
(* a session expects is some client's and was not presented before.        *)
(***************************************************************************)
EXTENDS AuthSessionProofs

-----------------------------------------------------------------------------
(* Of two active sessions the newer one's goroutine is still running.      *)

LEMMA ClockGrows ==
    ASSUME BaseInv, [Next]_vars
    PROVE  clock' \in Nat /\ clock \in Nat /\ clock <= clock'
<1>1. clock' \in Nat /\ clock \in Nat
  BY TypeStep DEF BaseInv, TypeInv, StoreOK
<1>2. UNCHANGED clock \/ clock' = clock + 1
  <2>1. ASSUME NEW r \in Reqs, Arrive(r) PROVE UNCHANGED clock
    BY <2>1, ArriveLocal DEF BaseInv
  <2>2. ASSUME NEW r \in Reqs, Step(r) \/ Abort(r) PROVE UNCHANGED clock
    BY <2>2, StepLocal DEF BaseInv
  <2> QED
    BY <2>1, <2>2 DEF Next, Replace, FindActiveSessions, InvalidateSessionCaches,
          RevokeOtherActive, ReplacerFails, ContextExpires, Tick, Quiescent, vars
<1> QED
  BY <1>1, <1>2

\* A step never makes a session active that was not, except by inserting it,
\* and never renumbers one.
LEMMA ActiveShrinks ==
    ASSUME BaseInv, [Next]_vars, NEW s \in SessionIds, Active(s)',
           \A r \in Reqs : CreateSession(r) => req[r].sid # s
    PROVE  Active(s) /\ sessions'[s].created = sessions[s].created
<1>0. /\ sessions \in [SessionIds -> Session \cup {None}]
      /\ None \notin Session /\ TTL \in Nat
  BY NoneIsNoRecord, SessionAssumption DEF BaseInv, TypeInv, StoreOK
<1>c. clock' \in Nat /\ clock \in Nat /\ clock <= clock'
  BY ClockGrows
<1>1. CASE sessions'[s] = sessions[s]
  <2>1. Exists(s) /\ ~ IsRevoked(s)
    BY <1>1 DEF Active, Exists, IsRevoked
  <2>2. sessions[s].hash.iat \in Nat
    BY <1>0, <2>1, RowType DEF Exists
  <2>3. clock' < sessions[s].hash.iat + TTL
    BY <1>1 DEF Active, Unexpired
  <2>4. Unexpired(sessions[s].hash)
    BY <1>0, <1>c, <2>2, <2>3 DEF Unexpired
  <2> QED
    BY <1>1, <2>1, <2>4 DEF Active
<1>2. CASE UNCHANGED sessions
  BY <1>1, <1>2
<1>3. CASE RowsRevoked
  <2>1. PICK ids \in SUBSET Existing, w \in Reasons \ {""} : Revoke(ids, w)
    BY <1>3 DEF RowsRevoked
  <2>2. s \notin ids
    <3> SUFFICES ASSUME s \in ids PROVE FALSE
      OBVIOUS
    <3>1. sessions[s] \in Session
      BY <1>0 DEF Existing, Exists
    <3>2. sessions'[s] = [sessions[s] EXCEPT !.reason = w]
      BY <2>1 DEF Revoke
    <3>3. sessions'[s].reason = w
      BY <3>1, <3>2 DEF Session
    <3> QED
      BY <3>3 DEF Active, IsRevoked
  <2> QED
    BY <1>1, <2>1, <2>2 DEF Revoke
<1>4. ASSUME NEW r \in Reqs, CreateSession(r)
      PROVE  sessions'[s] = sessions[s]
  BY <1>0, <1>4 DEF CreateSession
<1>5. ASSUME NEW r \in Reqs, RotateSessionRefreshToken(r), Rotates(req[r].token)
      PROVE  Active(s) /\ sessions'[s].created = sessions[s].created
  <2>1. CASE req[r].token.sid = s
    <3>1. Active(s) /\ sessions[s] \in Session
      BY <1>0, <1>5, <2>1 DEF Rotates, Active, Exists
    <3>2. sessions'[s] = [sessions[s] EXCEPT !.hash = next[r]]
      BY <1>0, <1>5, <2>1 DEF RotateSessionRefreshToken
    <3> QED
      BY <3>1, <3>2 DEF Session
  <2>2. CASE req[r].token.sid # s
    BY <1>0, <1>1, <1>5, <2>2 DEF RotateSessionRefreshToken
  <2> QED
    BY <2>1, <2>2
<1> QED
  BY <1>1, <1>2, <1>3, <1>4, <1>5, TableChange DEF BaseInv

\* Rows are numbered in the order of their insertion.
LEMMA CreatedBoundStep ==
    ASSUME BaseInv, CreatedBound, [Next]_vars
    PROVE  CreatedBound'
<1>0. /\ sessions \in [SessionIds -> Session \cup {None}]
      /\ None \notin Session
  BY NoneIsNoRecord DEF BaseInv, TypeInv, StoreOK
<1>f. /\ IsFiniteSet(Existing) /\ Cardinality(Existing) \in Nat
  <2>1. IsFiniteSet(Existing)
    BY SessionAssumption, FS_Subset DEF Existing
  <2> QED
    BY <2>1, FS_CardinalityType
<1>1. CASE /\ \A s \in SessionIds : Exists(s)' <=> Exists(s)
           /\ \A s \in SessionIds : Exists(s) =>
                 sessions'[s].created = sessions[s].created
  <2>1. Existing' = Existing
    BY <1>1 DEF Existing
  <2> QED
    BY <1>1, <2>1 DEF CreatedBound
<1>2. CASE UNCHANGED sessions
  BY <1>1, <1>2 DEF Exists
<1>3. CASE RowsRevoked
  <2>1. PICK ids \in SUBSET Existing, w \in Reasons \ {""} : Revoke(ids, w)
    BY <1>3 DEF RowsRevoked
  <2>2. ASSUME NEW s \in SessionIds
        PROVE  /\ Exists(s)' <=> Exists(s)
               /\ Exists(s) => sessions'[s].created = sessions[s].created
    <3>1. CASE s \notin ids
      BY <2>1, <3>1 DEF Revoke, Exists
    <3>2. CASE s \in ids
      <4>1. sessions[s] \in Session /\ Exists(s)
        BY <1>0, <3>2 DEF Existing, Exists
      <4>2. sessions'[s] = [sessions[s] EXCEPT !.reason = w]
        BY <2>1, <3>2 DEF Revoke
      <4>3. sessions'[s] \in Session
        BY <4>1, <4>2, RowType
      <4> QED
        BY <1>0, <4>1, <4>2, <4>3 DEF Exists, Session
    <3> QED
      BY <3>1, <3>2
  <2> QED
    BY <1>1, <2>2
<1>4. ASSUME NEW r \in Reqs, CreateSession(r)
      PROVE  CreatedBound'
  <2> DEFINE n == req[r].sid
  <2>1. n \in SessionIds /\ ~ Exists(n) /\ next[r] \in Token
    BY <1>4 DEF CreateSession, BaseInv, TypeInv, LocalOK, HandlersOK, HandlerOK,
                LoginsApart
  <2> DEFINE row == [hash |-> next[r], reason |-> "",
                     created |-> Cardinality(Existing) + 1]
  <2>r. sessions'[n] = row
    BY <1>0, <1>4, <2>1 DEF CreateSession
  <2>2. \A s \in SessionIds \ {n} : sessions'[s] = sessions[s]
    BY <1>0, <1>4, <2>1 DEF CreateSession
  <2>3. sessions'[n] \in Session
    <3>1. Cardinality(Existing) + 1 \in Nat
      BY <1>f
    <3>2. row \in Session
      BY <3>1, <2>1 DEF Session, Reasons
    <3> QED
      BY <3>2, <2>r
  <2>4. Existing' = Existing \cup {n} /\ n \notin Existing
    BY <1>0, <2>1, <2>2, <2>3 DEF Existing, Exists
  <2>5. Cardinality(Existing') = Cardinality(Existing) + 1
    BY <1>f, <2>4, FS_AddElement
  <2>6. ASSUME NEW s \in SessionIds, Exists(s)'
        PROVE  sessions'[s].created <= Cardinality(Existing')
    <3>1. CASE s = n
      <4>1. sessions'[s].created = Cardinality(Existing) + 1
        <5>1. row.created = Cardinality(Existing) + 1
          OBVIOUS
        <5>2. sessions'[s] = row
          BY <2>r, <3>1
        <5> HIDE DEF row
        <5> QED
          BY <5>1, <5>2
      <4> QED
        BY <1>f, <2>5, <4>1
    <3>2. CASE s # n
      <4>1. Exists(s) /\ sessions'[s] = sessions[s]
        BY <2>2, <2>6, <3>2 DEF Exists
      <4>2. sessions[s].created \in Nat
        BY <1>0, <4>1, RowType DEF Exists
      <4>3. sessions[s].created <= Cardinality(Existing)
        BY <4>1 DEF CreatedBound
      <4> QED
        BY <1>f, <2>5, <4>1, <4>2, <4>3
    <3> QED
      BY <3>1, <3>2
  <2> QED
    BY <2>6 DEF CreatedBound
<1>5. ASSUME NEW r \in Reqs, RotateSessionRefreshToken(r), Rotates(req[r].token)
      PROVE  CreatedBound'
  <2>1. ASSUME NEW s \in SessionIds
        PROVE  /\ Exists(s)' <=> Exists(s)
               /\ Exists(s) => sessions'[s].created = sessions[s].created
    <3>1. CASE req[r].token.sid = s
      <4>1. Exists(s) /\ sessions[s] \in Session
        BY <1>0, <1>5, <3>1 DEF Rotates, Active, Exists
      <4>2. sessions'[s] = [sessions[s] EXCEPT !.hash = next[r]]
        BY <1>0, <1>5, <3>1 DEF RotateSessionRefreshToken
      <4>3. next[r] \in Token
        BY <1>5 DEF RotateSessionRefreshToken, BaseInv, TypeInv, LocalOK,
                    HandlersOK, HandlerOK
      <4>4. sessions'[s] \in Session
        BY <4>1, <4>2, <4>3, RowType
      <4> QED
        BY <1>0, <4>1, <4>2, <4>4 DEF Exists, Session
    <3>2. CASE req[r].token.sid # s
      BY <1>0, <1>5, <3>2 DEF RotateSessionRefreshToken, Exists
    <3> QED
      BY <3>1, <3>2
  <2> QED
    BY <1>1, <2>1
<1> QED
  BY <1>2, <1>3, <1>4, <1>5, TableChange DEF BaseInv

\* A goroutine that is under way goes on until it has revoked the others.
LEMMA ReplacingGoesOn ==
    ASSUME BaseInv, ~ DBFaults, [Next]_vars, NEW t \in SessionIds, Replacing(t),
           ~ RevokeOtherActive(t)
    PROVE  Replacing(t)'
<1>0. replacer \in [SessionIds -> {"none", "find", "clear", "revoke", "done"}]
  BY DEF BaseInv, TypeInv, StoreOK
<1>1. ASSUME NEW r \in Reqs, Arrive(r) PROVE Replacing(t)'
  BY <1>1, ArriveLocal DEF BaseInv, Replacing
<1>2. ASSUME NEW r \in Reqs, Step(r) \/ Abort(r) PROVE Replacing(t)'
  BY <1>0, <1>2 DEF Replacing, Step, CreateSession, IsRefreshTokenUsed,
        MarkRefreshTokenUsed, FindSessionByID, RotateSessionRefreshToken,
        InvalidateSessionCache, RevokeAllUserSessions, ValidateActiveSession,
        RevokeSession, GetContext, GetSessionByID, SetContext, Abort, background
<1>3. ASSUME NEW s \in SessionIds,
             Replace(s) \/ ReplacerFails(s) \/ ContextExpires(s)
      PROVE  Replacing(t)'
  <2>1. CASE s = t
    BY <1>0, <1>3, <2>1 DEF Replacing, Replace, FindActiveSessions,
          InvalidateSessionCaches, ReplacerFails, ContextExpires, Advance, background
  <2>2. CASE s # t
    BY <1>0, <1>3, <2>2 DEF Replacing, Replace, FindActiveSessions,
          InvalidateSessionCaches, RevokeOtherActive, ReplacerFails,
          ContextExpires, Advance, background
  <2> QED
    BY <2>1, <2>2
<1>4. CASE Tick \/ Quiescent \/ UNCHANGED vars
  BY <1>4 DEF Tick, Quiescent, vars, background, Replacing
<1> QED
  BY <1>1, <1>2, <1>3, <1>4 DEF Next

OwesInv == BaseInv /\ CreatedBound /\ NewerReplaces

LEMMA OwesInit == Init => OwesInv
<1> SUFFICES ASSUME Init PROVE OwesInv
  OBVIOUS
<1>1. \A s \in SessionIds : ~ Exists(s)
  BY DEF Init, Exists
<1> QED
  BY <1>1, BaseInit DEF OwesInv, CreatedBound, NewerReplaces, Active

LEMMA OwesStep == ~ DBFaults /\ OwesInv /\ [Next]_vars => OwesInv'
<1> SUFFICES ASSUME ~ DBFaults, OwesInv, [Next]_vars,
                    NEW s \in SessionIds, NEW t \in SessionIds,
                    Active(s)', Active(t)',
                    sessions'[s].created < sessions'[t].created
             PROVE  Replacing(t)'
  BY BaseStep, CreatedBoundStep DEF OwesInv, NewerReplaces
<1>0. /\ sessions \in [SessionIds -> Session \cup {None}]
      /\ replacer \in [SessionIds -> {"none", "find", "clear", "revoke", "done"}]
  BY DEF OwesInv, BaseInv, TypeInv, StoreOK
<1>1. CASE \E r \in Reqs : CreateSession(r)
  <2>1. PICK r \in Reqs : CreateSession(r)
    BY <1>1
  <2> DEFINE n == req[r].sid
  <2>2. n \in SessionIds /\ ~ Exists(n)
    BY <2>1 DEF CreateSession, OwesInv, BaseInv, TypeInv, LocalOK, HandlersOK,
                HandlerOK, LoginsApart
  <2>3. CASE t = n
    BY <1>0, <2>1, <2>2, <2>3 DEF CreateSession, Replacing
  <2>4. CASE t # n
    <3>1. sessions'[t] = sessions[t] /\ UNCHANGED clock
      BY <1>0, <2>1, <2>4 DEF CreateSession
    <3>2. Active(t)
      BY <3>1 DEF Active, Exists, IsRevoked, Unexpired
    <3>3. s # n
      <4>1. Cardinality(Existing) \in Nat
        <5>1. IsFiniteSet(Existing)
          BY SessionAssumption, FS_Subset DEF Existing
        <5> QED
          BY <5>1, FS_CardinalityType
      <4>2. sessions[t].created \in Nat /\ sessions[t].created <= Cardinality(Existing)
        BY <1>0, <3>2, RowType DEF Active, Exists, OwesInv, CreatedBound
      <4>3. sessions'[n].created = Cardinality(Existing) + 1
        BY <1>0, <2>1, <2>2 DEF CreateSession
      <4> QED
        BY <3>1, <4>1, <4>2, <4>3
    <3>4. sessions'[s] = sessions[s]
      BY <1>0, <2>1, <3>3 DEF CreateSession
    <3>5. Active(s)
      BY <3>1, <3>4 DEF Active, Exists, IsRevoked, Unexpired
    <3>6. Replacing(t)
      BY <3>1, <3>2, <3>4, <3>5 DEF OwesInv, NewerReplaces
    <3> QED
      BY <1>0, <2>1, <2>4, <3>6 DEF CreateSession, Replacing
  <2> QED
    BY <2>3, <2>4
<1>2. CASE ~ \E r \in Reqs : CreateSession(r)
  <2>1. /\ Active(s) /\ sessions'[s].created = sessions[s].created
        /\ Active(t) /\ sessions'[t].created = sessions[t].created
    BY <1>2, ActiveShrinks DEF OwesInv
  <2>2. Replacing(t)
    BY <2>1 DEF OwesInv, NewerReplaces
  <2>3. ~ RevokeOtherActive(t)
    <3> SUFFICES ASSUME RevokeOtherActive(t) PROVE FALSE
      OBVIOUS
    <3>1. s # t
      <4>1. sessions[s].created \in Nat
        BY <1>0, <2>1, RowType DEF Active, Exists
      <4> QED
        BY <2>1, <4>1
    <3>2. s \in OtherActive(t) /\ sessions[s] \in Session
      BY <1>0, <2>1, <3>1 DEF OtherActive, Active, Exists
    <3>3. sessions'[s].reason = "replaced_by_new_login"
      BY <3>2 DEF RevokeOtherActive, Revoke, Session
    <3> QED
      BY <3>3 DEF Active, IsRevoked
  <2> QED
    BY <2>2, <2>3, ReplacingGoesOn DEF OwesInv
<1> QED
  BY <1>1, <1>2

\* Without database failures, of any two active sessions of a user the newer
\* one's goroutine is still under way: when none is left, one session at most
\* is active, for any number of concurrent logins, refreshes and revocations.
THEOREM NewestOwes == ~ DBFaults => (Spec => []NewerReplaces)
<1> SUFFICES ASSUME ~ DBFaults PROVE Spec => []NewerReplaces
  OBVIOUS
<1>1. OwesInv /\ [Next]_vars => OwesInv'
  BY OwesStep
<1>2. OwesInv => NewerReplaces
  BY DEF OwesInv
<1> QED
  BY <1>1, <1>2, OwesInit, PTL DEF Spec

-----------------------------------------------------------------------------
(* A refresh token is spent once.                                          *)

\* A stored row stays, and its token changes only by a rotation of that token.
LEMMA RowChange ==
    ASSUME BaseInv, [Next]_vars, NEW s \in SessionIds, Exists(s)
    PROVE  /\ Exists(s)'
           /\ \/ sessions'[s].hash = sessions[s].hash
              \/ \E r \in Reqs : /\ RotateSessionRefreshToken(r)
                                 /\ Rotates(req[r].token)
                                 /\ req[r].token.sid = s
                                 /\ sessions'[s].hash = next[r]
<1>0. /\ sessions \in [SessionIds -> Session \cup {None}]
      /\ None \notin Session /\ sessions[s] \in Session
  BY NoneIsNoRecord DEF BaseInv, TypeInv, StoreOK, Exists
<1>1. CASE sessions'[s] = sessions[s]
  BY <1>1 DEF Exists
<1>2. CASE RowsRevoked
  <2>1. PICK ids \in SUBSET Existing, w \in Reasons \ {""} : Revoke(ids, w)
    BY <1>2 DEF RowsRevoked
  <2>2. CASE s \in ids
    <3>1. sessions'[s] = [sessions[s] EXCEPT !.reason = w]
      BY <2>1, <2>2 DEF Revoke
    <3>2. sessions'[s] \in Session
      BY <1>0, <3>1, RowType
    <3> QED
      BY <1>0, <3>1, <3>2 DEF Exists, Session
  <2>3. CASE s \notin ids
    BY <1>1, <2>1, <2>3 DEF Revoke
  <2> QED
    BY <2>2, <2>3
<1>3. ASSUME NEW r \in Reqs, CreateSession(r)
      PROVE  sessions'[s] = sessions[s]
  <2>1. req[r].sid # s
    BY <1>3 DEF CreateSession, BaseInv, LoginsApart
  <2> QED
    BY <1>0, <1>3, <2>1 DEF CreateSession
<1>4. ASSUME NEW r \in Reqs, RotateSessionRefreshToken(r), Rotates(req[r].token)
      PROVE  \/ sessions'[s] = sessions[s]
             \/ /\ req[r].token.sid = s /\ Exists(s)'
                /\ sessions'[s].hash = next[r]
  <2>1. CASE req[r].token.sid = s
    <3>1. next[r] \in Token
      BY <1>4 DEF RotateSessionRefreshToken, BaseInv, TypeInv, LocalOK,
                  HandlersOK, HandlerOK
    <3>2. sessions'[s] = [sessions[s] EXCEPT !.hash = next[r]]
      BY <1>0, <1>4, <2>1 DEF RotateSessionRefreshToken
    <3>3. sessions'[s] \in Session
      BY <1>0, <3>1, <3>2, RowType
    <3> QED
      BY <1>0, <2>1, <3>2, <3>3 DEF Exists, Session
  <2>2. CASE req[r].token.sid # s
    BY <1>0, <1>4, <2>2 DEF RotateSessionRefreshToken
  <2> QED
    BY <2>1, <2>2
<1> QED
  BY <1>1, <1>2, <1>3, <1>4, TableChange DEF BaseInv

\* A request becomes one that spent its token only by rotating it.
LEMMA SpentChange ==
    ASSUME BaseInv, [Next]_vars, NEW q \in Reqs, Spent(q)'
    PROVE  /\ req'[q] = req[q]
           /\ \/ Spent(q)
              \/ RotateSessionRefreshToken(q) /\ Rotates(req[q].token)
<1> DEFINE Goal == /\ req'[q] = req[q]
                   /\ \/ Spent(q)
                      \/ RotateSessionRefreshToken(q) /\ Rotates(req[q].token)
<1>1. ASSUME NEW r \in Reqs, Arrive(r) PROVE Goal
  <2>1. /\ pc[r] = "idle" /\ pc'[r] # "clear" /\ UNCHANGED resp
        /\ \A x \in Reqs \ {r} : pc'[x] = pc[x] /\ req'[x] = req[x]
    BY <1>1, ArriveLocal DEF BaseInv
  <2>2. resp[r].kind = "none"
    BY <2>1 DEF BaseInv, RepliesOK
  <2>3. q # r
    BY <2>1, <2>2 DEF Spent
  <2> QED
    BY <2>1, <2>3 DEF Spent
<1>2. ASSUME NEW r \in Reqs, Step(r) \/ Abort(r) PROVE Goal
  <2>1. /\ pc[r] \notin {"idle", "done"} /\ UNCHANGED req
        /\ \A x \in Reqs \ {r} : pc'[x] = pc[x] /\ resp'[x] = resp[x]
    BY <1>2, StepLocal DEF BaseInv
  <2>2. CASE q # r
    BY <2>1, <2>2 DEF Spent
  <2>3. CASE q = r
    <3>0. /\ req[r].op = "refresh" /\ resp[r].kind = "none" /\ HandlerOK(r)
          /\ pc'[r] = "clear" \/ resp'[r].kind = "tokens"
          /\ pc \in [Reqs -> PCs] /\ resp \in [Reqs -> Response]
      BY <2>1, <2>3 DEF Spent, BaseInv, RepliesOK, TypeInv, LocalOK, HandlersOK
    <3>a. ASSUME NEW k \in Kinds \ {"tokens"}, Finish(r, Reply(k)) PROVE FALSE
      <4>1. pc'[r] = "done" /\ resp'[r] = Reply(k)
        BY <3>0, <3>a DEF Finish, Goto
      <4>2. Reply(k).kind = k
        BY DEF Reply
      <4> QED
        BY <3>0, <3>a, <4>1, <4>2
    <3>b. ASSUME NEW l \in PCs \ {"clear"}, Goto(r, l), UNCHANGED resp PROVE FALSE
      <4>1. pc'[r] = l /\ resp'[r] = resp[r]
        BY <3>0, <3>b DEF Goto
      <4> QED
        BY <3>0, <3>b, <4>1
    <3>1. CASE CreateSession(r)
      BY <3>0, <3>1 DEF CreateSession, HandlerOK
    <3>2. CASE RotateSessionRefreshToken(r)
      BY <2>1, <2>3, <3>0, <3>2
      DEF RotateSessionRefreshToken, GoRevokeAll, Goto
    <3>3. CASE InvalidateSessionCache(r)
      BY <2>1, <2>3, <3>0, <3>3 DEF InvalidateSessionCache, Spent
    <3>4. CASE RevokeAllUserSessions(r) \/ Abort(r)
      <4>1. Finish(r, Reply("reuse")) \/ Finish(r, Reply("error"))
        BY <3>0, <3>4 DEF RevokeAllUserSessions, Abort
      <4> QED
        BY <4>1, <3>a DEF Kinds
    <3>5. CASE RevokeSession(r) \/ ValidateActiveSession(r)
      BY <3>0, <3>5 DEF RevokeSession, ValidateActiveSession, HandlerOK
    <3>6. CASE GetContext(r) \/ GetSessionByID(r) \/ SetContext(r)
      BY <3>0, <3>6 DEF GetContext, GetSessionByID, SetContext, HandlerOK
    <3>7. CASE IsRefreshTokenUsed(r)
      <4>1. \/ Finish(r, Reply("invalid"))
            \/ Goto(r, "revokeAll") /\ UNCHANGED resp
            \/ Goto(r, "mark") /\ UNCHANGED resp
        BY <3>7 DEF IsRefreshTokenUsed, Continue, GoRevokeAll
      <4> QED
        BY <4>1, <3>a, <3>b DEF Kinds, PCs
    <3>8. CASE MarkRefreshTokenUsed(r)
      BY <3>0, <3>8 DEF MarkRefreshTokenUsed, Continue, Goto
    <3>9. CASE FindSessionByID(r)
      <4>1. \/ Finish(r, Reply("replaced"))
            \/ Goto(r, "revokeAll") /\ UNCHANGED resp
            \/ Goto(r, "rotate") /\ UNCHANGED resp
        BY <3>9 DEF FindSessionByID, GoRevokeAll
      <4> QED
        BY <4>1, <3>a, <3>b DEF Kinds, PCs
    <3> QED
      BY <1>2, <3>1, <3>2, <3>3, <3>4, <3>5, <3>6, <3>7, <3>8, <3>9 DEF Step
  <2> QED
    BY <2>2, <2>3
<1>3. CASE UNCHANGED local
  BY <1>3 DEF local, Spent
<1> QED
  BY <1>1, <1>2, <1>3, BackgroundLocal DEF Next

SpentInv == BaseInv /\ RowsOK /\ SpentTokensOld /\ SpentApart

\* A new row is that of a login.
LEMMA NewRow ==
    ASSUME BaseInv, [Next]_vars, NEW s \in SessionIds, ~ Exists(s), Exists(s)'
    PROVE  \E r \in Reqs : /\ CreateSession(r) /\ req[r].sid = s
                           /\ sessions'[s].hash = next[r]
<1>0. sessions \in [SessionIds -> Session \cup {None}]
  BY DEF BaseInv, TypeInv, StoreOK
<1>1. CASE UNCHANGED sessions
  BY <1>1 DEF Exists
<1>2. CASE RowsRevoked
  BY <1>2 DEF RowsRevoked, Revoke, Existing, Exists
<1>3. ASSUME NEW r \in Reqs, RotateSessionRefreshToken(r), Rotates(req[r].token)
      PROVE  FALSE
  <2>1. req[r].token.sid # s
    BY <1>3 DEF Rotates, Active
  <2>2. sessions'[s] = sessions[s]
    BY <1>0, <1>3, <2>1 DEF RotateSessionRefreshToken
  <2> QED
    BY <2>2 DEF Exists
<1>4. ASSUME NEW r \in Reqs, CreateSession(r)
      PROVE  req[r].sid = s /\ sessions'[s].hash = next[r]
  <2>1. CASE req[r].sid # s
    <3>1. sessions'[s] = sessions[s]
      BY <1>0, <1>4, <2>1 DEF CreateSession
    <3> QED
      BY <3>1 DEF Exists
  <2>2. CASE req[r].sid = s
    BY <1>0, <1>4, <2>2 DEF CreateSession
  <2> QED
    BY <2>1, <2>2
<1> QED
  BY <1>1, <1>2, <1>3, <1>4, TableChange DEF BaseInv

\* A row holds a token of its own session, issued before now.
LEMMA RowsStep ==
    ASSUME SpentInv, [Next]_vars
    PROVE  RowsOK'
<1>c. clock' \in Nat /\ clock \in Nat /\ clock <= clock'
  BY ClockGrows DEF SpentInv
<1>0. sessions \in [SessionIds -> Session \cup {None}] /\ None \notin Session
  BY NoneIsNoRecord DEF SpentInv, BaseInv, TypeInv, StoreOK
<1> SUFFICES ASSUME NEW s \in SessionIds, Exists(s)'
             PROVE  sessions'[s].hash.sid = s /\ sessions'[s].hash.iat <= clock'
  BY DEF RowsOK
<1>1. CASE Exists(s)
  <2>1. sessions[s].hash.sid = s /\ sessions[s].hash.iat <= clock
        /\ sessions[s].hash.iat \in Nat
    BY <1>0, <1>1, RowType DEF SpentInv, RowsOK, Exists
  <2>2. CASE sessions'[s].hash = sessions[s].hash
    BY <1>c, <2>1, <2>2
  <2>3. ASSUME NEW r \in Reqs, RotateSessionRefreshToken(r),
               req[r].token.sid = s, sessions'[s].hash = next[r]
        PROVE  sessions'[s].hash.sid = s /\ sessions'[s].hash.iat <= clock'
    <3>1. pc[r] = "rotate"
      BY <2>3 DEF RotateSessionRefreshToken
    <3>2. next[r] \in Token /\ next[r].sid = s
      BY <2>3, <3>1 DEF SpentInv, BaseInv, TypeInv, LocalOK, HandlersOK, HandlerOK
    <3>3. next[r].iat \in Nat /\ next[r].iat <= clock
      BY <3>1, <3>2 DEF SpentInv, SpentTokensOld, Token
    <3> QED
      BY <1>c, <2>3, <3>2, <3>3
  <2> QED
    BY <1>1, <2>2, <2>3, RowChange DEF SpentInv
<1>2. CASE ~ Exists(s)
  <2>1. PICK r \in Reqs : /\ CreateSession(r) /\ req[r].sid = s
                          /\ sessions'[s].hash = next[r]
    BY <1>2, NewRow DEF SpentInv
  <2>2. pc[r] = "create" /\ sessions'[s].hash = next[r]
    BY <2>1 DEF CreateSession
  <2>3. next[r] \in Token /\ next[r].sid = s
    BY <2>1, <2>2 DEF SpentInv, BaseInv, TypeInv, LocalOK, HandlersOK, HandlerOK
  <2>4. next[r].iat \in Nat /\ next[r].iat <= clock
    BY <2>2, <2>3 DEF SpentInv, SpentTokensOld, Token
  <2> QED
    BY <1>c, <2>2, <2>3, <2>4
<1> QED
  BY <1>1, <1>2

\* A refresh that is under way presents a token issued in an earlier second,
\* and issues its own now.
Times(r) ==
    /\ pc[r] \in {"check", "mark", "load"} => req[r].token.iat < clock
    /\ pc[r] = "create" => next[r].iat <= clock
    /\ pc[r] = "rotate" => req[r].token.iat < next[r].iat /\ next[r].iat <= clock

LEMMA TimesStep ==
    ASSUME ~ SameSecond, SpentInv, [Next]_vars, NEW q \in Reqs
    PROVE  Times(q)'
<1>c. clock' \in Nat /\ clock \in Nat /\ clock <= clock'
  BY ClockGrows DEF SpentInv
<1>t. Times(q)
  BY DEF SpentInv, SpentTokensOld, Times
<1>l. /\ pc \in [Reqs -> PCs] /\ req \in [Reqs -> Request]
      /\ next \in [Reqs -> Token \cup {None}] /\ HandlerOK(q)
  BY DEF SpentInv, BaseInv, TypeInv, LocalOK, HandlersOK
<1>1. ASSUME NEW r \in Reqs, Arrive(r) PROVE Times(q)'
  <2>1. /\ UNCHANGED clock /\ pc'[r] # "rotate"
        /\ \A x \in Reqs \ {r} : /\ pc'[x] = pc[x] /\ req'[x] = req[x]
                                /\ next'[x] = next[x]
    BY <1>1, ArriveLocal DEF SpentInv, BaseInv
  <2>2. CASE q # r
    BY <1>t, <2>1, <2>2 DEF Times
  <2>3. CASE q = r
    <3>1. ASSUME NEW s \in SessionIds, Login(r, s) PROVE Times(r)'
      <4>1. pc'[r] = "create" /\ next'[r] = IssuePair(s)
        BY <1>l, <3>1 DEF Login, Begin, Goto
      <4> QED
        BY <1>c, <2>1, <4>1, IssueType DEF Times
    <3>2. ASSUME NEW token \in Held, NEW foreign \in BOOLEAN,
                 RefreshToken(r, token, foreign)
          PROVE  Times(r)'
      <4>1. pc'[r] = "check" /\ token.iat < clock
        BY <1>c, <1>l, <3>2 DEF RefreshToken, Begin, Goto
      <4>2. req'[r] = [NoRequest EXCEPT !.op = "refresh", !.token = token,
                                        !.foreign = foreign]
        BY <1>l, <3>2 DEF RefreshToken, Begin
      <4>3. req'[r].token = token
        BY <4>2 DEF NoRequest
      <4> QED
        BY <2>1, <4>1, <4>3 DEF Times
    <3>3. ASSUME pc'[r] \in {"revokeAll", "validate", "cacheGet"} PROVE Times(r)'
      BY <3>3 DEF Times
    <3>4. \/ \E s \in SessionIds : Login(r, s)
          \/ \E token \in Held, foreign \in BOOLEAN : RefreshToken(r, token, foreign)
          \/ pc'[r] \in {"revokeAll", "validate", "cacheGet"}
      BY <1>1, <1>l DEF Arrive, ResetPassword, Logout, ChangePassword,
                        GetCurrentSession, RevokeUserSession, Begin, Goto
    <3> QED
      BY <2>3, <3>1, <3>2, <3>3, <3>4
  <2> QED
    BY <2>2, <2>3
<1>2. ASSUME NEW r \in Reqs, Step(r) \/ Abort(r) PROVE Times(q)'
  <2>1. /\ UNCHANGED <<req, clock>> /\ pc'[r] # "create"
        /\ \A x \in Reqs \ {r} : pc'[x] = pc[x] /\ next'[x] = next[x]
    BY <1>2, StepLocal DEF SpentInv, BaseInv
  <2>2. CASE q # r
    BY <1>t, <2>1, <2>2 DEF Times
  <2>3. CASE q = r
    <3>1. CASE FindSessionByID(r)
      <4>1. pc[r] = "load" /\ req[r].token \in Token
        BY <1>l, <2>3, <3>1 DEF FindSessionByID, HandlerOK
      <4>2. req[r].token.sid \in SessionIds /\ req[r].token.iat < clock
        BY <1>t, <2>3, <4>1 DEF Times, Token
      <4>3. \/ pc'[r] \in {"done", "revokeAll"}
            \/ pc'[r] = "rotate" /\ next'[r] = IssuePair(req[r].token.sid)
        BY <1>l, <3>1 DEF FindSessionByID, Finish, GoRevokeAll, Goto
      <4> QED
        BY <1>c, <2>1, <2>3, <4>2, <4>3, IssueType DEF Times
    <3>2. CASE IsRefreshTokenUsed(r) \/ MarkRefreshTokenUsed(r)
      <4>1. /\ pc[r] \in {"check", "mark"}
            /\ pc'[r] \in {"done", "revokeAll", "mark", "load"}
        BY <1>l, <3>2 DEF IsRefreshTokenUsed, MarkRefreshTokenUsed, Finish,
                          Continue, GoRevokeAll, Goto
      <4> QED
        BY <1>t, <2>1, <2>3, <4>1 DEF Times
    <3>3. CASE pc'[r] \in {"done", "clear", "revokeAll", "revoke", "dbGet", "cacheSet"}
      BY <2>3, <3>3 DEF Times
    <3>4. \/ FindSessionByID(r) \/ IsRefreshTokenUsed(r) \/ MarkRefreshTokenUsed(r)
          \/ pc'[r] \in {"done", "clear", "revokeAll", "revoke", "dbGet", "cacheSet"}
      BY <1>2, <1>l DEF Step, Abort, CreateSession, RotateSessionRefreshToken,
            InvalidateSessionCache, RevokeAllUserSessions, ValidateActiveSession,
            RevokeSession, GetContext, GetSessionByID, SetContext, Finish,
            Continue, GoRevokeAll, Goto
    <3> QED
      BY <3>1, <3>2, <3>3, <3>4
  <2> QED
    BY <2>2, <2>3
<1>3. CASE UNCHANGED local
  <2>1. pc[q] \in {"check", "mark", "load", "rotate"} => req[q].token.iat \in Nat
    BY <1>l DEF HandlerOK, Token
  <2>2. pc[q] \in {"create", "rotate"} => next[q].iat \in Nat
    BY <1>l DEF HandlerOK, Token
  <2>3. pc' = pc /\ req' = req /\ next' = next
    BY <1>3 DEF local
  <2> QED
    BY <1>c, <1>t, <2>1, <2>2, <2>3 DEF Times
<1> QED
  BY <1>1, <1>2, <1>3, BackgroundLocal DEF Next

\* The row of a spent token has moved on to a later one, and stays ahead.
LEMMA SpentStep ==
    ASSUME SpentInv, [Next]_vars, NEW q \in Reqs, Spent(q)'
    PROVE  /\ req'[q] = req[q] /\ req[q].token \in Token
           /\ Exists(req[q].token.sid)'
           /\ req[q].token.iat < sessions'[req[q].token.sid].hash.iat
<1> DEFINE t == req[q].token
           s == req[q].token.sid
<1>1. /\ req'[q] = req[q]
      /\ \/ Spent(q)
         \/ RotateSessionRefreshToken(q) /\ Rotates(t)
  BY SpentChange DEF SpentInv
<1>2. CASE Spent(q)
  <2>1. t \in Token /\ Exists(s) /\ t.iat < sessions[s].hash.iat
    BY <1>2 DEF SpentInv, SpentTokensOld
  <2>2. s \in SessionIds /\ t.iat \in Nat /\ sessions[s] \in Session
    BY <2>1 DEF Token, SpentInv, BaseInv, TypeInv, StoreOK, Exists
  <2>3. sessions[s].hash.iat \in Nat
    BY <2>2, RowType
  <2>4. sessions'[s] # None
    BY <2>1, <2>2, RowChange DEF SpentInv, Exists
  <2>5. CASE sessions'[s].hash = sessions[s].hash
    BY <1>1, <2>1, <2>4, <2>5 DEF Exists
  <2>6. ASSUME NEW r \in Reqs, RotateSessionRefreshToken(r), Rotates(req[r].token),
               req[r].token.sid = s, sessions'[s].hash = next[r]
        PROVE  t.iat < sessions'[s].hash.iat
    <3>1. pc[r] = "rotate" /\ sessions[s].hash = req[r].token
      BY <2>6 DEF RotateSessionRefreshToken, Rotates
    <3>2. req[r].token.iat < next[r].iat
      BY <3>1 DEF SpentInv, SpentTokensOld
    <3>3. next[r].iat \in Nat
      BY <3>1 DEF SpentInv, BaseInv, TypeInv, LocalOK, HandlersOK, HandlerOK, Token
    <3> QED
      BY <2>1, <2>2, <2>3, <2>6, <3>1, <3>2, <3>3
  <2> QED
    BY <1>1, <2>1, <2>2, <2>4, <2>5, <2>6, RowChange DEF SpentInv, Exists
<1>3. CASE RotateSessionRefreshToken(q) /\ Rotates(t)
  <2>1. pc[q] = "rotate" /\ Exists(s)
    BY <1>3 DEF RotateSessionRefreshToken, Rotates, Active
  <2>2. t \in Token /\ t.iat < next[q].iat
    BY <2>1 DEF SpentInv, SpentTokensOld, BaseInv, TypeInv, LocalOK, HandlersOK,
                HandlerOK
  <2>3. s \in SessionIds
    BY <2>2 DEF Token
  <2>4. sessions'[s] # None
    BY <2>1, <2>3, RowChange DEF SpentInv, Exists
  <2>5. sessions'[s] = [sessions[s] EXCEPT !.hash = next[q]]
    BY <1>3, <2>3 DEF RotateSessionRefreshToken, SpentInv, BaseInv, TypeInv, StoreOK
  <2>6. sessions[s] \in Session
    BY <2>1, <2>3 DEF SpentInv, BaseInv, TypeInv, StoreOK, Exists
  <2>7. sessions'[s].hash = next[q]
    BY <2>5, <2>6 DEF Session
  <2> QED
    BY <1>1, <2>2, <2>4, <2>7 DEF Exists
<1> QED
  BY <1>1, <1>2, <1>3

\* Two requests that spent one token: the second to rotate would have found
\* the token of the first still stored.
LEMMA SpentApartStep ==
    ASSUME SpentInv, [Next]_vars
    PROVE  SpentApart'
<1> SUFFICES ASSUME NEW r \in Reqs, NEW q \in Reqs, Spent(r)', Spent(q)',
                    req'[r].token = req'[q].token
             PROVE  r = q
  BY DEF SpentApart
<1>1. ASSUME NEW x \in Reqs, Spent(x)'
      PROVE  /\ req'[x] = req[x]
             /\ \/ Spent(x)
                \/ RotateSessionRefreshToken(x) /\ Rotates(req[x].token)
  BY <1>1, SpentChange DEF SpentInv
<1>2. req[r].token = req[q].token
  BY <1>1
<1>3. CASE Spent(r) /\ Spent(q)
  BY <1>2, <1>3 DEF SpentInv, SpentApart
<1>4. ASSUME NEW x \in Reqs, NEW y \in Reqs, req[x].token = req[y].token,
             Spent(x), Rotates(req[y].token)
      PROVE  FALSE
  <2>1. /\ req[x].token \in Token
        /\ req[x].token.iat < sessions[req[x].token.sid].hash.iat
    BY <1>4 DEF SpentInv, SpentTokensOld
  <2>2. sessions[req[x].token.sid].hash = req[x].token
    BY <1>4 DEF Rotates
  <2>3. req[x].token.iat \in Nat
    BY <2>1 DEF Token
  <2> QED
    BY <2>1, <2>2, <2>3
<1>5. CASE RotateSessionRefreshToken(r) /\ RotateSessionRefreshToken(q)
  <2>1. CASE r # q
    <3>1. pc'[q] = pc[q]
      BY <1>5, <2>1, StepLocal DEF Step, SpentInv, BaseInv
    <3>2. pc'[q] # "rotate"
      BY <1>5 DEF RotateSessionRefreshToken, Continue, GoRevokeAll, Goto,
                  SpentInv, BaseInv, TypeInv, LocalOK
    <3> QED
      BY <1>5, <3>1, <3>2 DEF RotateSessionRefreshToken
  <2> QED
    BY <2>1
<1> QED
  BY <1>1, <1>2, <1>3, <1>4, <1>5

LEMMA SpentInvInit == Init => SpentInv
<1> SUFFICES ASSUME Init PROVE SpentInv
  OBVIOUS
<1>1. RowsOK
  BY DEF Init, RowsOK, Exists
<1>2. \A r \in Reqs : pc[r] = "idle" /\ ~ Spent(r)
  BY DEF Init, Spent, NoRequest
<1> QED
  BY <1>1, <1>2, BaseInit DEF SpentInv, SpentTokensOld, SpentApart

LEMMA SpentInvStep ==
    ASSUME ~ SameSecond, SpentInv, [Next]_vars
    PROVE  SpentInv'
<1>1. BaseInv'
  BY BaseStep DEF SpentInv
<1>2. SpentTokensOld'
  BY TimesStep, SpentStep DEF SpentTokensOld, Times
<1> QED
  BY <1>1, <1>2, RowsStep, SpentApartStep DEF SpentInv

\* A refresh token buys at most one token pair, whatever requests with it
\* interleave, and whatever Redis or Postgres calls fail: only the conditional
\* update of RotateSessionRefreshToken is relied on, not the rt_used keys.
\* Tokens presented in the second they were issued are left out; there a new
\* token can equal the one it replaces (IssuePair).
THEOREM SpentOnce == ~ SameSecond => (Spec => []TokenSpentOnce)
<1> SUFFICES ASSUME ~ SameSecond PROVE Spec => []TokenSpentOnce
  OBVIOUS
<1>1. SpentInv /\ [Next]_vars => SpentInv'
  BY SpentInvStep
<1>2. SpentInv => TokenSpentOnce
  BY DEF SpentInv, SpentApart, Spent, TokenSpentOnce
<1> QED
  BY <1>1, <1>2, SpentInvInit, PTL DEF Spec

-----------------------------------------------------------------------------
(* The stored refresh token is some client's.                              *)

\* A handler that is not idle stays as it is or takes a step of its own.
LEMMA RequestMoves ==
    ASSUME BaseInv, [Next]_vars, NEW r \in Reqs, pc[r] # "idle"
    PROVE  \/ /\ pc'[r] = pc[r] /\ req'[r] = req[r] /\ next'[r] = next[r]
              /\ resp'[r] = resp[r]
           \/ Step(r) \/ Abort(r)
<1>1. ASSUME NEW q \in Reqs, Arrive(q)
      PROVE  /\ pc'[r] = pc[r] /\ req'[r] = req[r] /\ next'[r] = next[r]
             /\ resp'[r] = resp[r]
  BY <1>1, ArriveLocal DEF BaseInv
<1>2. ASSUME NEW q \in Reqs, Step(q) \/ Abort(q), q # r
      PROVE  /\ pc'[r] = pc[r] /\ req'[r] = req[r] /\ next'[r] = next[r]
             /\ resp'[r] = resp[r]
  BY <1>2, StepLocal DEF BaseInv
<1>3. CASE UNCHANGED local
  BY <1>3 DEF local
<1> QED
  BY <1>1, <1>2, <1>3, BackgroundLocal DEF Next

\* The response a step sends; tokens come from a login or at the end of a refresh.
LEMMA StepReply ==
    ASSUME TypeInv, NEW r \in Reqs, Step(r) \/ Abort(r)
    PROVE  \/ resp'[r] = resp[r]
           \/ resp'[r].token = None
           \/ /\ resp'[r].token = next[r] /\ resp'[r].kind = "tokens"
              /\ \/ CreateSession(r)
                 \/ InvalidateSessionCache(r) /\ req[r].op = "refresh"
<1>a. ASSUME NEW k, Finish(r, Reply(k)) PROVE resp'[r].token = None
  BY <1>a DEF Finish, Reply, TypeInv, LocalOK
<1>t. ASSUME Finish(r, [kind |-> "tokens", token |-> next[r]])
      PROVE  resp'[r].token = next[r] /\ resp'[r].kind = "tokens"
  BY <1>t DEF Finish, TypeInv, LocalOK
<1>b. ASSUME NEW label, Continue(r, label) PROVE resp'[r] = resp[r]
  BY <1>b DEF Continue
<1>c. ASSUME NEW reason, GoRevokeAll(r, reason) PROVE resp'[r] = resp[r]
  BY <1>c DEF GoRevokeAll
<1>1. CASE CreateSession(r)
  BY <1>1, <1>t DEF CreateSession
<1>2. CASE InvalidateSessionCache(r)
  BY <1>2, <1>a, <1>t DEF InvalidateSessionCache
<1>3. CASE IsRefreshTokenUsed(r) \/ MarkRefreshTokenUsed(r)
  BY <1>3, <1>a, <1>b, <1>c DEF IsRefreshTokenUsed, MarkRefreshTokenUsed
<1>4. CASE FindSessionByID(r)
  BY <1>4, <1>a, <1>c DEF FindSessionByID
<1>5. CASE RotateSessionRefreshToken(r)
  BY <1>5, <1>b, <1>c DEF RotateSessionRefreshToken
<1>6. CASE RevokeAllUserSessions(r) \/ Abort(r)
  BY <1>6, <1>a DEF RevokeAllUserSessions, Abort
<1>7. CASE ValidateActiveSession(r) \/ RevokeSession(r)
  BY <1>7, <1>a, <1>b, <1>c DEF ValidateActiveSession, RevokeSession
<1>8. CASE GetContext(r) \/ GetSessionByID(r) \/ SetContext(r)
  BY <1>8, <1>a, <1>b DEF GetContext, GetSessionByID, SetContext
<1> QED
  BY <1>1, <1>2, <1>3, <1>4, <1>5, <1>6, <1>7, <1>8 DEF Step

\* Only a response with a token pair holds a token.
TokenReplies == \A r \in Reqs : resp[r].token # None => resp[r].kind = "tokens"

LEMMA TokenRepliesStep ==
    ASSUME BaseInv, TokenReplies, [Next]_vars
    PROVE  TokenReplies'
<1>1. ASSUME NEW r \in Reqs, Step(r) \/ Abort(r) PROVE TokenReplies'
  <2>1. \A q \in Reqs \ {r} : resp'[q] = resp[q]
    BY <1>1, StepLocal DEF BaseInv
  <2>2. resp'[r].token # None => resp'[r].kind = "tokens"
    BY <1>1, StepReply DEF BaseInv, TokenReplies
  <2> QED
    BY <2>1, <2>2 DEF TokenReplies
<1>2. CASE UNCHANGED resp
  BY <1>2 DEF TokenReplies
<1> QED
  BY <1>1, <1>2, ArriveLocal, BackgroundLocal DEF Next, BaseInv, local

\* Clients keep the tokens they have; a new one is the handler's next.
LEMMA HeldChange ==
    ASSUME BaseInv, TokenReplies, [Next]_vars
    PROVE  /\ Held \subseteq Held'
           /\ \A t \in Held' : \/ t \in Held
                               \/ \E r \in Reqs :
                                     /\ t = next[r]
                                     /\ \/ CreateSession(r)
                                        \/ /\ InvalidateSessionCache(r)
                                           /\ req[r].op = "refresh"
<1>1. ASSUME NEW r \in Reqs, Step(r) \/ Abort(r)
      PROVE  /\ Held \subseteq Held'
             /\ \A t \in Held' : \/ t \in Held
                                 \/ /\ t = next[r]
                                    /\ \/ CreateSession(r)
                                       \/ /\ InvalidateSessionCache(r)
                                          /\ req[r].op = "refresh"
  <2>1. \A q \in Reqs \ {r} : resp'[q] = resp[q]
    BY <1>1, StepLocal DEF BaseInv
  <2>2. resp[r].token = None
    BY <1>1, StepLocal DEF BaseInv, RepliesOK, TokenReplies
  <2>3. Held \subseteq Held'
    BY <2>1, <2>2 DEF Held
  <2>4. \/ resp'[r].token = None
        \/ /\ resp'[r].token = next[r]
           /\ \/ CreateSession(r)
              \/ InvalidateSessionCache(r) /\ req[r].op = "refresh"
    BY <1>1, <2>2, StepReply DEF BaseInv
  <2> QED
    BY <2>1, <2>3, <2>4 DEF Held
<1>2. CASE UNCHANGED resp
  BY <1>2 DEF Held
<1> QED
  BY <1>1, <1>2, ArriveLocal, BackgroundLocal DEF Next, BaseInv, local

\* Also of a session that is revoked or expired.
HeldOK ==
    \A s \in SessionIds : Exists(s) =>
        \/ sessions[s].hash \in Held
        \/ \E r \in Reqs : /\ pc[r] = "clear" /\ req[r].op = "refresh"
                           /\ next[r] = sessions[s].hash

HeldInv == BaseInv /\ TokenReplies /\ HeldOK

LEMMA HeldInit == Init => HeldInv
<1> SUFFICES ASSUME Init PROVE HeldInv
  OBVIOUS
<1> QED
  BY BaseInit DEF Init, HeldInv, TokenReplies, HeldOK, Exists, Reply

LEMMA HeldStep ==
    ASSUME ~ DBFaults, HeldInv, [Next]_vars
    PROVE  HeldInv'
<1>0. BaseInv /\ BaseInv' /\ TokenReplies'
  BY BaseStep, TokenRepliesStep DEF HeldInv
<1>r. None \notin Token /\ resp \in [Reqs -> Response] /\ pc \in [Reqs -> PCs]
  BY <1>0, NoneIsNoRecord DEF BaseInv, TypeInv, LocalOK
<1>1. ASSUME NEW s \in SessionIds, Exists(s)'
      PROVE  \/ sessions'[s].hash \in Held'
             \/ \E r \in Reqs : /\ pc'[r] = "clear" /\ req'[r].op = "refresh"
                                /\ next'[r] = sessions'[s].hash
  <2>1. CASE ~ Exists(s)
    <3>1. PICK r \in Reqs : CreateSession(r) /\ sessions'[s].hash = next[r]
      BY <1>0, <1>1, <2>1, NewRow
    <3>2. next[r] \in Token
      BY <1>0, <3>1 DEF CreateSession, BaseInv, TypeInv, LocalOK, HandlersOK, HandlerOK
    <3>3. resp'[r].token = next[r]
      BY <1>r, <3>1 DEF CreateSession, Finish
    <3> QED
      BY <1>r, <3>1, <3>2, <3>3 DEF Held
  <2>2. ASSUME NEW r \in Reqs, RotateSessionRefreshToken(r), Rotates(req[r].token),
               sessions'[s].hash = next[r]
        PROVE  /\ pc'[r] = "clear" /\ req'[r].op = "refresh"
               /\ next'[r] = sessions'[s].hash
    <3>1. req[r].op = "refresh"
      BY <1>0, <2>2 DEF RotateSessionRefreshToken, BaseInv, TypeInv, LocalOK,
                        HandlersOK, HandlerOK
    <3> QED
      BY <1>r, <2>2, <3>1 DEF RotateSessionRefreshToken, Continue, Goto
  <2>3. CASE Exists(s) /\ sessions'[s].hash = sessions[s].hash
    <3>1. CASE sessions[s].hash \in Held
      BY <2>3, <3>1, HeldChange DEF HeldInv
    <3>2. ASSUME NEW r \in Reqs, pc[r] = "clear", req[r].op = "refresh",
                 next[r] = sessions[s].hash
          PROVE  \/ sessions'[s].hash \in Held'
                 \/ /\ pc'[r] = "clear" /\ req'[r].op = "refresh"
                    /\ next'[r] = sessions'[s].hash
      <4>1. CASE pc'[r] = pc[r] /\ req'[r] = req[r] /\ next'[r] = next[r]
        BY <2>3, <3>2, <4>1
      <4>2. CASE Step(r) \/ Abort(r)
        <5>1. InvalidateSessionCache(r)
          BY <3>2, <4>2 DEF Abort, Step, CreateSession, IsRefreshTokenUsed,
             MarkRefreshTokenUsed, FindSessionByID, RotateSessionRefreshToken,
             RevokeAllUserSessions, ValidateActiveSession, RevokeSession,
             GetContext, GetSessionByID, SetContext
        <5>2. resp'[r].token = next[r]
          BY <1>r, <3>2, <5>1 DEF InvalidateSessionCache, Finish
        <5>3. next[r] \in Token
          BY <1>0, <3>2 DEF BaseInv, TypeInv, LocalOK, HandlersOK, HandlerOK
        <5> QED
          BY <1>r, <2>3, <3>2, <5>2, <5>3 DEF Held
      <4> QED
        BY <1>0, <3>2, <4>1, <4>2, RequestMoves
    <3> QED
      BY <2>3, <3>1, <3>2 DEF HeldInv, HeldOK
  <2> QED
    BY <1>0, <2>1, <2>2, <2>3, RowChange
<1> QED
  BY <1>0, <1>1 DEF HeldInv, HeldOK

\* While no database call fails, the refresh token an active session expects is
\* one that a client has or is about to be sent, however refreshes, logins and
\* revocations interleave (RefreshToken, issueTokensForUser).
THEOREM TokenHeld == ~ DBFaults => (Spec => []StoredTokenHeld)
<1> SUFFICES ASSUME ~ DBFaults PROVE Spec => []StoredTokenHeld
  OBVIOUS
<1>1. HeldInv /\ [Next]_vars => HeldInv'
  BY HeldStep
<1>2. HeldInv => StoredTokenHeld
  BY DEF HeldInv, HeldOK, StoredTokenHeld, Active
<1> QED
  BY <1>1, <1>2, HeldInit, PTL DEF Spec

-----------------------------------------------------------------------------
(* The stored refresh token was not presented before.                      *)

\* The token is of a stored session and not newer than the one it expects.
Behind(t) ==
    /\ t \in Token /\ Exists(t.sid)
    /\ t.iat <= sessions[t.sid].hash.iat

\* Every token that was sent, presented or is about to be sent.
RequestBehind(r) ==
    /\ pc[r] \in {"check", "mark", "load", "rotate"} => Behind(req[r].token)
    /\ pc[r] = "clear" /\ req[r].op = "refresh" => Behind(next[r])

TokensBehind ==
    /\ \A t \in used \cup Held : Behind(t)
    /\ \A r \in Reqs : RequestBehind(r)

OwnDevice == \A r \in Reqs : ~ req[r].foreign

UsableInv ==
    SpentInv /\ TokenReplies /\ TokensBehind /\ OwnDevice /\ StoredTokenUsable

\* A rotation moves a session on to a newer token.
LEMMA BehindStays ==
    ASSUME SpentInv, [Next]_vars, NEW t, Behind(t)
    PROVE  Behind(t)'
<1> DEFINE s == t.sid
<1>1. /\ s \in SessionIds /\ t.iat \in Nat /\ Exists(s)
      /\ t.iat <= sessions[s].hash.iat
  BY DEF Behind, Token
<1>2. sessions[s].hash.iat \in Nat
  BY <1>1, RowType DEF SpentInv, BaseInv, TypeInv, StoreOK, Exists
<1>3. sessions'[s] # None
  BY <1>1, RowChange DEF SpentInv, Exists
<1>4. t.iat <= sessions'[s].hash.iat
  <2>1. CASE sessions'[s].hash = sessions[s].hash
    BY <1>1, <2>1
  <2>2. ASSUME NEW r \in Reqs, RotateSessionRefreshToken(r), Rotates(req[r].token),
               req[r].token.sid = s, sessions'[s].hash = next[r]
        PROVE  t.iat <= sessions'[s].hash.iat
    <3>1. pc[r] = "rotate" /\ sessions[s].hash = req[r].token
      BY <2>2 DEF RotateSessionRefreshToken, Rotates
    <3>2. req[r].token.iat < next[r].iat
      BY <3>1 DEF SpentInv, SpentTokensOld
    <3>3. next[r].iat \in Nat
      BY <3>1 DEF SpentInv, BaseInv, TypeInv, LocalOK, HandlersOK, HandlerOK, Token
    <3> QED
      BY <1>1, <1>2, <2>2, <3>1, <3>2, <3>3
  <2> QED
    BY <1>1, <2>1, <2>2, RowChange DEF SpentInv
<1> QED
  BY <1>3, <1>4 DEF Behind, Exists

\* The token that a row is given.
LEMMA BehindNew ==
    ASSUME SpentInv, [Next]_vars, NEW r \in Reqs, NEW t, t = next[r],
           \/ CreateSession(r)
           \/ RotateSessionRefreshToken(r) /\ Rotates(req[r].token)
    PROVE  Behind(t)'
<1>0. sessions \in [SessionIds -> Session \cup {None}] /\ None \notin Session
  BY NoneIsNoRecord DEF SpentInv, BaseInv, TypeInv, StoreOK
<1>1. PICK s \in SessionIds : /\ t \in Token /\ t.sid = s
                              /\ sessions'[s] # None /\ sessions'[s].hash = t
  <2>1. CASE CreateSession(r)
    <3>1. PICK s \in SessionIds : s = req[r].sid /\ t \in Token /\ t.sid = s
      BY <2>1 DEF CreateSession, SpentInv, BaseInv, TypeInv, LocalOK, HandlersOK,
                  HandlerOK
    <3> DEFINE row == [hash |-> t, reason |-> "",
                       created |-> Cardinality(Existing) + 1]
    <3>2. sessions'[s] = row
      BY <1>0, <2>1, <3>1 DEF CreateSession
    <3>3. row \in Session /\ row.hash = t
      <4>1. IsFiniteSet(Existing)
        BY SessionAssumption, FS_Subset DEF Existing
      <4>2. Cardinality(Existing) + 1 \in Nat
        BY <4>1, FS_CardinalityType
      <4> QED
        BY <3>1, <4>2 DEF Session, Reasons
    <3> HIDE DEF row
    <3> QED
      BY <1>0, <3>1, <3>2, <3>3
  <2>2. CASE RotateSessionRefreshToken(r) /\ Rotates(req[r].token)
    <3>1. PICK s : s = req[r].token.sid
      OBVIOUS
    <3>2. req[r].token \in Token /\ t \in Token /\ t.sid = s /\ Exists(s)
      BY <2>2, <3>1 DEF RotateSessionRefreshToken, Rotates, Active, SpentInv,
                  BaseInv, TypeInv, LocalOK, HandlersOK, HandlerOK
    <3>3. s \in SessionIds /\ sessions[s] \in Session
      BY <1>0, <3>1, <3>2 DEF Token, Exists
    <3>4. sessions'[s] = [sessions[s] EXCEPT !.hash = t]
      BY <1>0, <2>2, <3>1, <3>3 DEF RotateSessionRefreshToken
    <3>5. sessions'[s].hash = t /\ sessions'[s] \in Session
      BY <3>2, <3>3, <3>4, RowType DEF Session
    <3> QED
      BY <1>0, <3>2, <3>3, <3>5
  <2> QED
    BY <2>1, <2>2
<1>2. t.iat \in Nat
  BY <1>1 DEF Token
<1> QED
  BY <1>1, <1>2 DEF Behind, Exists

\* Only the handler of a refresh marks a token, the one presented.
LEMMA UsedChange ==
    ASSUME BaseInv, [Next]_vars
    PROVE  \/ used' = used
           \/ \E r \in Reqs : /\ MarkRefreshTokenUsed(r)
                              /\ used' = used \cup {req[r].token}
<1>1. ASSUME NEW r \in Reqs, Arrive(r) PROVE used' = used
  BY <1>1 DEF Arrive, ResetPassword, RefreshToken, Login, Logout, ChangePassword,
              GetCurrentSession, RevokeUserSession, Begin, redis
<1>2. ASSUME NEW r \in Reqs, Step(r) \/ Abort(r)
      PROVE  \/ used' = used
             \/ MarkRefreshTokenUsed(r) /\ used' = used \cup {req[r].token}
  <2>1. CASE \/ CreateSession(r) \/ IsRefreshTokenUsed(r) \/ FindSessionByID(r)
             \/ RotateSessionRefreshToken(r) \/ InvalidateSessionCache(r)
    BY <2>1 DEF CreateSession, IsRefreshTokenUsed, FindSessionByID,
                RotateSessionRefreshToken, InvalidateSessionCache, redis
  <2>2. CASE MarkRefreshTokenUsed(r)
    BY <2>2 DEF MarkRefreshTokenUsed
  <2>3. CASE \/ RevokeAllUserSessions(r) \/ ValidateActiveSession(r)
             \/ RevokeSession(r) \/ GetContext(r) \/ GetSessionByID(r)
             \/ SetContext(r) \/ Abort(r)
    BY <2>3 DEF RevokeAllUserSessions, ValidateActiveSession, RevokeSession,
                GetContext, GetSessionByID, SetContext, Abort, redis
  <2> QED
    BY <1>2, <2>1, <2>2, <2>3 DEF Step
<1>3. ASSUME NEW s \in SessionIds, Replace(s) \/ ReplacerFails(s) \/ ContextExpires(s)
      PROVE  used' = used
  BY <1>3 DEF Replace, FindActiveSessions, InvalidateSessionCaches,
              RevokeOtherActive, ReplacerFails, ContextExpires, redis
<1>4. CASE Tick \/ Quiescent \/ UNCHANGED vars
  BY <1>4 DEF Tick, Quiescent, vars, redis
<1> QED
  BY <1>1, <1>2, <1>3, <1>4 DEF Next

\* What a request that arrives presents.
LEMMA ArriveToken ==
    ASSUME BaseInv, NEW r \in Reqs, Arrive(r)
    PROVE  /\ pc'[r] \in {"check", "mark", "load", "rotate"} =>
                 req'[r].token \in Held
           /\ pc'[r] # "clear"
           /\ req'[r].foreign => OtherDevice
<1> USE DEF BaseInv, TypeInv, LocalOK, Begin, Goto, NoRequest
<1>1. CASE ResetPassword(r)
  BY <1>1 DEF ResetPassword
<1>2. ASSUME NEW token \in Held, NEW foreign \in BOOLEAN,
             RefreshToken(r, token, foreign)
      PROVE  req'[r].token = token /\ pc'[r] = "check" /\ req'[r].foreign = foreign
             /\ (foreign => OtherDevice)
  BY <1>2 DEF RefreshToken
<1>3. ASSUME NEW s \in SessionIds, Login(r, s)
      PROVE  pc'[r] = "create" /\ ~ req'[r].foreign
  BY <1>3 DEF Login
<1>4. ASSUME NEW s \in SessionIds,
             Logout(r, s) \/ ChangePassword(r, s) \/ GetCurrentSession(r, s)
      PROVE  pc'[r] \in {"validate", "cacheGet"} /\ ~ req'[r].foreign
  BY <1>4 DEF Logout, ChangePassword, GetCurrentSession
<1>5. ASSUME NEW s \in SessionIds, NEW t \in SessionIds, RevokeUserSession(r, s, t)
      PROVE  pc'[r] = "validate" /\ ~ req'[r].foreign
  BY <1>5 DEF RevokeUserSession
<1> QED
  BY <1>1, <1>2, <1>3, <1>4, <1>5 DEF Arrive

LEMMA OwnDeviceStep ==
    ASSUME ~ OtherDevice, BaseInv, OwnDevice, [Next]_vars
    PROVE  OwnDevice'
<1>1. ASSUME NEW r \in Reqs, Arrive(r) PROVE OwnDevice'
  BY <1>1, ArriveLocal, ArriveToken DEF BaseInv, OwnDevice
<1>2. CASE UNCHANGED req
  BY <1>2 DEF OwnDevice
<1> QED
  BY <1>1, <1>2, StepLocal, BackgroundLocal DEF Next, BaseInv, local

LEMMA TokensBehindStep ==
    ASSUME SpentInv, TokenReplies, TokensBehind, [Next]_vars
    PROVE  TokensBehind'
<1>0. BaseInv /\ pc \in [Reqs -> PCs]
  BY DEF SpentInv, BaseInv, TypeInv, LocalOK
<1>1. ASSUME NEW t \in used' PROVE Behind(t)'
  <2>1. CASE t \in used
    BY <2>1, BehindStays DEF TokensBehind
  <2>2. ASSUME NEW r \in Reqs, MarkRefreshTokenUsed(r), t = req[r].token
        PROVE  Behind(t)'
    <3>1. Behind(t)
      BY <2>2 DEF TokensBehind, RequestBehind, MarkRefreshTokenUsed
    <3> QED
      BY <3>1, BehindStays
  <2> QED
    BY <1>0, <1>1, <2>1, <2>2, UsedChange
<1>2. ASSUME NEW t \in Held' PROVE Behind(t)'
  <2>1. CASE t \in Held
    BY <2>1, BehindStays DEF TokensBehind
  <2>2. ASSUME NEW r \in Reqs, CreateSession(r), t = next[r] PROVE Behind(t)'
    BY <2>2, BehindNew
  <2>3. ASSUME NEW r \in Reqs, InvalidateSessionCache(r), req[r].op = "refresh",
               t = next[r]
        PROVE  Behind(t)'
    <3>1. Behind(t)
      BY <2>3 DEF TokensBehind, RequestBehind, InvalidateSessionCache
    <3> QED
      BY <3>1, BehindStays
  <2> QED
    BY <1>0, <1>2, <2>1, <2>2, <2>3, HeldChange
<1>3. ASSUME NEW r \in Reqs PROVE RequestBehind(r)'
  <2>1. ASSUME pc'[r] = pc[r], req'[r] = req[r], next'[r] = next[r]
        PROVE  RequestBehind(r)'
    <3>1. PICK t : t = req[r].token
      OBVIOUS
    <3>2. PICK u : u = next[r]
      OBVIOUS
    <3>3. /\ pc'[r] \in {"check", "mark", "load", "rotate"} => Behind(t)'
          /\ pc'[r] = "clear" /\ req[r].op = "refresh" => Behind(u)'
      BY <2>1, <3>1, <3>2, BehindStays DEF TokensBehind, RequestBehind
    <3> QED
      BY <2>1, <3>1, <3>2, <3>3 DEF RequestBehind
  <2>2. CASE Arrive(r)
    <3>1. PICK t : t = req'[r].token
      OBVIOUS
    <3>2. pc'[r] \in {"check", "mark", "load", "rotate"} => Behind(t)'
      BY <1>0, <2>2, <3>1, ArriveToken, BehindStays DEF TokensBehind
    <3> QED
      BY <1>0, <2>2, <3>1, <3>2, ArriveToken DEF RequestBehind
  <2>3. CASE Step(r) \/ Abort(r)
    <3>1. req' = req /\ HandlerOK(r)
      BY <1>0, <2>3, StepLocal DEF BaseInv, TypeInv, LocalOK, HandlersOK
    <3>2. PICK t : t = req[r].token
      OBVIOUS
    <3>3. PICK u : u = next[r]
      OBVIOUS
    <3>4. pc'[r] \in {"check", "mark", "load", "rotate"} =>
              pc[r] \in {"check", "mark", "load", "rotate"}
      BY <1>0, <2>3 DEF Step, CreateSession, IsRefreshTokenUsed,
         MarkRefreshTokenUsed, FindSessionByID, RotateSessionRefreshToken,
         InvalidateSessionCache, RevokeAllUserSessions, ValidateActiveSession,
         RevokeSession, GetContext, GetSessionByID, SetContext, Abort,
         Finish, Continue, GoRevokeAll, Goto
    <3>5. pc'[r] \in {"check", "mark", "load", "rotate"} => Behind(t)'
      BY <3>2, <3>4, BehindStays DEF TokensBehind, RequestBehind
    <3>6. ASSUME pc'[r] = "clear", req[r].op = "refresh"
          PROVE  Behind(u)' /\ next'[r] = u
      <4>1. Spent(r)' /\ pc[r] # "clear"
        <5>1. Spent(r)'
          BY <3>1, <3>6 DEF Spent
        <5>2. pc[r] # "clear"
          BY <1>0, <2>3, <3>6 DEF Step, CreateSession, IsRefreshTokenUsed,
             MarkRefreshTokenUsed, FindSessionByID, RotateSessionRefreshToken,
             InvalidateSessionCache, RevokeAllUserSessions, ValidateActiveSession,
             RevokeSession, GetContext, GetSessionByID, SetContext, Abort,
             Finish, Goto
        <5> QED
          BY <5>1, <5>2
      <4>2. ~ Spent(r)
        BY <1>0, <2>3, <4>1, StepLocal DEF Spent, BaseInv, RepliesOK
      <4>3. RotateSessionRefreshToken(r) /\ Rotates(req[r].token)
        BY <1>0, <4>1, <4>2, SpentChange
      <4>4. next'[r] = next[r]
        BY <4>3 DEF RotateSessionRefreshToken, Continue
      <4> QED
        BY <3>3, <4>3, <4>4, BehindNew
    <3> QED
      BY <3>1, <3>2, <3>5, <3>6 DEF RequestBehind
  <2>4. ASSUME NEW q \in Reqs, q # r, Arrive(q) \/ Step(q) \/ Abort(q)
        PROVE  pc'[r] = pc[r] /\ req'[r] = req[r] /\ next'[r] = next[r]
    BY <1>0, <2>4, ArriveLocal, StepLocal DEF BaseInv
  <2>5. UNCHANGED local => pc'[r] = pc[r] /\ req'[r] = req[r] /\ next'[r] = next[r]
    BY DEF local
  <2> QED
    BY <2>1, <2>2, <2>3, <2>4, <2>5, BackgroundLocal DEF Next
<1> QED
  BY <1>1, <1>2, <1>3 DEF TokensBehind

\* A refresh that has marked its token rotates it, unless the session is gone.
LEMMA UsableStep ==
    ASSUME ~ DBFaults, UsableInv, [Next]_vars
    PROVE  StoredTokenUsable'
<1>0. BaseInv /\ pc \in [Reqs -> PCs] /\ RowsOK /\ SpentTokensOld
  BY DEF UsableInv, SpentInv, BaseInv, TypeInv, LocalOK
<1> SUFFICES ASSUME NEW s \in SessionIds, Active(s)', sessions'[s].hash \in used'
             PROVE  \E r \in Reqs : /\ pc'[r] \in {"load", "rotate"}
                                    /\ req'[r].token = sessions'[s].hash
  BY DEF StoredTokenUsable
<1>1. \A t \in used : Behind(t)
  BY DEF UsableInv, TokensBehind
\* A login stores a token of a session that no token was of.
<1>2. ASSUME NEW r \in Reqs, CreateSession(r), req[r].sid = s PROVE FALSE
  <2>1. /\ ~ Exists(s) /\ next[r] \in Token /\ next[r].sid = s
    BY <1>0, <1>2 DEF CreateSession, BaseInv, LoginsApart, TypeInv, LocalOK,
                      HandlersOK, HandlerOK
  <2>2. used' = used /\ sessions'[s].hash = next[r]
    BY <1>0, <1>2 DEF CreateSession, redis, BaseInv, TypeInv, StoreOK
  <2> QED
    BY <1>1, <2>1, <2>2 DEF Behind
<1>3. Active(s)
  BY <1>0, <1>2, ActiveShrinks
<1>4. Exists(s) /\ sessions[s].hash.sid = s /\ sessions[s].hash.iat \in Nat
  <2>1. Exists(s)
    BY <1>3 DEF Active
  <2> QED
    BY <1>0, <2>1, RowType DEF RowsOK, BaseInv, TypeInv, StoreOK, Exists
\* A rotation stores a token newer than every one that was presented.
<1>5. ASSUME NEW r \in Reqs, RotateSessionRefreshToken(r), Rotates(req[r].token),
             req[r].token.sid = s, sessions'[s].hash = next[r]
      PROVE  FALSE
  <2>1. /\ pc[r] = "rotate" /\ used' = used /\ sessions[s].hash = req[r].token
    BY <1>5 DEF RotateSessionRefreshToken, redis, Rotates
  <2>2. /\ next[r] \in Token /\ next[r].sid = s /\ req[r].token.iat < next[r].iat
    BY <1>0, <1>5, <2>1 DEF SpentTokensOld, BaseInv, TypeInv, LocalOK, HandlersOK,
                            HandlerOK
  <2>3. next[r].iat \in Nat
    BY <2>2 DEF Token
  <2>4. next[r].iat <= sessions[s].hash.iat
    BY <1>1, <1>5, <2>1, <2>2 DEF Behind
  <2> QED
    BY <1>4, <2>1, <2>2, <2>3, <2>4
<1>6. sessions'[s].hash = sessions[s].hash
  BY <1>0, <1>4, <1>5, RowChange
<1>7. ASSUME NEW r \in Reqs, pc[r] \in {"load", "rotate"},
             req[r].token = sessions[s].hash
      PROVE  pc'[r] \in {"load", "rotate"} /\ req'[r].token = sessions'[s].hash
  <2>1. CASE pc'[r] = pc[r] /\ req'[r] = req[r]
    BY <1>6, <1>7, <2>1
  <2>2. CASE Step(r) \/ Abort(r)
    <3>1. req' = req
      BY <1>0, <2>2, StepLocal DEF BaseInv
    <3>2. FindSessionByID(r) \/ RotateSessionRefreshToken(r)
      BY <1>7, <2>2 DEF Abort, Step, CreateSession, IsRefreshTokenUsed,
         MarkRefreshTokenUsed, InvalidateSessionCache, RevokeAllUserSessions,
         ValidateActiveSession, RevokeSession, GetContext, GetSessionByID, SetContext
    <3>3. CASE FindSessionByID(r)
      <4>1. ~ req[r].foreign /\ req[r].token.sid = s
        BY <1>4, <1>7 DEF UsableInv, OwnDevice
      <4>2. pc'[r] = "rotate"
        BY <1>0, <1>3, <1>7, <3>3, <4>1 DEF FindSessionByID, Goto
      <4> QED
        BY <1>6, <1>7, <3>1, <4>2
    <3>4. CASE RotateSessionRefreshToken(r)
      <4>1. Rotates(req[r].token) /\ req[r].token.sid = s
        BY <1>3, <1>4, <1>7 DEF Rotates
      <4>2. sessions[s] \in Session
        BY <1>0, <1>4 DEF BaseInv, TypeInv, StoreOK, Exists
      <4>3. sessions'[s] = [sessions[s] EXCEPT !.hash = next[r]]
        BY <1>0, <3>4, <4>1 DEF RotateSessionRefreshToken, BaseInv, TypeInv, StoreOK
      <4>4. sessions'[s].hash = next[r]
        BY <4>2, <4>3 DEF Session
      <4> QED
        BY <1>5, <3>4, <4>1, <4>4
    <3> QED
      BY <3>2, <3>3, <3>4
  <2> QED
    BY <1>0, <1>7, <2>1, <2>2, RequestMoves
<1>8. CASE sessions[s].hash \in used
  BY <1>3, <1>7, <1>8 DEF UsableInv, StoredTokenUsable
<1>9. ASSUME NEW r \in Reqs, MarkRefreshTokenUsed(r), req[r].token = sessions[s].hash
      PROVE  pc'[r] \in {"load", "rotate"} /\ req'[r].token = sessions'[s].hash
  BY <1>0, <1>6, <1>9 DEF MarkRefreshTokenUsed, Continue, Goto
<1> QED
  BY <1>0, <1>6, <1>8, <1>9, UsedChange

LEMMA UsableInit == Init => UsableInv
<1> SUFFICES ASSUME Init PROVE UsableInv
  OBVIOUS
<1>1. TokenReplies /\ Held = {} /\ used = {}
  BY DEF Init, TokenReplies, Held, Reply
<1>2. TokensBehind
  BY <1>1 DEF Init, TokensBehind, RequestBehind
<1>3. OwnDevice /\ StoredTokenUsable
  BY <1>1 DEF Init, OwnDevice, NoRequest, StoredTokenUsable
<1> QED
  BY <1>1, <1>2, <1>3, SpentInvInit DEF UsableInv

LEMMA UsableInvStep ==
    ASSUME ~ DBFaults, ~ OtherDevice, ~ SameSecond, UsableInv, [Next]_vars
    PROVE  UsableInv'
<1>1. SpentInv /\ BaseInv
  BY DEF UsableInv, SpentInv
<1> QED
  BY <1>1, SpentInvStep, TokenRepliesStep, TokensBehindStep, OwnDeviceStep,
     UsableStep DEF UsableInv

\* While no database call fails, no client names another's device and no token
\* is presented in the second it was issued, the refresh token an active
\* session expects has been presented by nobody but a refresh that is under way,
\* also when Redis calls fail (RefreshToken).
THEOREM TokenUsable ==
    ~ DBFaults /\ ~ OtherDevice /\ ~ SameSecond => (Spec => []StoredTokenUsable)
<1> SUFFICES ASSUME ~ DBFaults, ~ OtherDevice, ~ SameSecond
             PROVE  Spec => []StoredTokenUsable
  OBVIOUS
<1>1. UsableInv /\ [Next]_vars => UsableInv'
  BY UsableInvStep
<1>2. UsableInv => StoredTokenUsable
  BY DEF UsableInv
<1> QED
  BY <1>1, <1>2, UsableInit, PTL DEF Spec

=============================================================================

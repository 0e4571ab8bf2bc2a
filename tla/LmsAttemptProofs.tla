-------------------------- MODULE LmsAttemptProofs --------------------------
(***************************************************************************)
(* Proofs about LmsAttempt for every value of its constants: any number of *)
(* requests, students, attempts, questions and client statuses.            *)
(***************************************************************************)
EXTENDS LmsAttempt, FiniteSetTheorems, TLAPS

-----------------------------------------------------------------------------
(* Facts about the operators.                                              *)

\* The number of answers in a map is a natural number.
LEMMA NumAnswersNat ==
    \A m \in AnswerMap : IsFiniteSet(Answered(m)) /\ NumAnswers(m) \in Nat
<1> SUFFICES ASSUME NEW m \in AnswerMap
             PROVE  IsFiniteSet(Answered(m)) /\ NumAnswers(m) \in Nat
  OBVIOUS
<1>1. Answered(m) \subseteq Questions
  BY DEF Answered
<1>2. IsFiniteSet(Answered(m))
  BY <1>1, FS_Subset, ConstantsAssumption
<1> QED
  BY <1>2, FS_CardinalityType DEF NumAnswers

\* A grade is a natural number, and more answers never lower it.
LEMMA GradeMonotone ==
    \A m, n \in Nat : /\ Grade(m) \in Nat
                      /\ m <= n => Grade(m) <= Grade(n)
<1>1. MaxScore \in Nat
  BY ConstantsAssumption
<1> QED
  BY <1>1 DEF Grade

\* Setting answers keeps an answer map one, with every answer it had.
LEMMA SetAnswersGrows ==
    ASSUME NEW old \in AnswerMap, NEW new \in AnswerMap
    PROVE  /\ SetAnswers(old, new) \in AnswerMap
           /\ Answered(old) \subseteq Answered(SetAnswers(old, new))
  BY DEF AnswerMap, SetAnswers, Answered

\* A map that answers more questions is worth at least as much.
LEMMA MoreAnswersMorePoints ==
    ASSUME NEW m \in AnswerMap, NEW n \in AnswerMap,
           Answered(m) \subseteq Answered(n)
    PROVE  NumAnswers(m) <= NumAnswers(n)
  BY NumAnswersNat, FS_Subset DEF NumAnswers

LEMMA EmptyMapType == EmptyMap \in AnswerMap
  BY DEF EmptyMap, AnswerMap

\* What a submit response carries is a natural number.
LEMMA ResultType ==
    ASSUME NEW att \in Attempt
    PROVE  attemptSubmitResult(att) \in Nat
<1>1. att.score \in Nat /\ att.answers \in AnswerMap
  BY DEF Attempt
<1> QED
  BY <1>1, NumAnswersNat, GradeMonotone DEF attemptSubmitResult

LEMMA DefaultsType ==
    /\ NoRequest \in Request
    /\ Unseen \in Seen
    /\ \A k \in Kinds, a \in AttemptIds \cup {None, Blank} :
           Reply(k, a) \in Response
  BY EmptyMapType
  DEF NoRequest, Request, Ops, Unseen, Seen, Reply, Response, Kinds

-----------------------------------------------------------------------------
(* Type correctness.                                                       *)

\* Replying or continuing keeps the local state well typed.
LEMMA FinishType ==
    ASSUME TypeOK, NEW r \in Reqs, NEW response \in Response,
           Finish(r, response)
    PROVE  /\ pc' \in [Reqs -> PCs] /\ req' \in [Reqs -> Request]
           /\ seen' \in [Reqs -> Seen] /\ resp' \in [Reqs -> Response]
  BY DefaultsType DEF TypeOK, Finish, Goto, PCs

LEMMA ContinueType ==
    ASSUME TypeOK, NEW r \in Reqs, NEW label \in PCs, NEW keep \in Seen,
           Continue(r, label, keep)
    PROVE  /\ pc' \in [Reqs -> PCs] /\ req' \in [Reqs -> Request]
           /\ seen' \in [Reqs -> Seen] /\ resp' \in [Reqs -> Response]
  BY DEF TypeOK, Continue, Goto

LEMMA BeginType ==
    ASSUME TypeOK, NEW r \in Reqs, NEW label \in PCs, NEW request \in Request,
           Begin(r, request, label)
    PROVE  TypeOK'
  BY DEF TypeOK, Begin, Goto

\* Updates of one document keep its type.
LEMMA DocumentType ==
    ASSUME NEW att \in Attempt
    PROVE  /\ \A m \in AnswerMap : [att EXCEPT !.answers = m] \in Attempt
           /\ \A s \in Statuses : [att EXCEPT !.status = s] \in Attempt
           /\ \A n \in Nat : [att EXCEPT !.score = n] \in Attempt
           /\ \A m \in AnswerMap :
                 [att EXCEPT !.status = "submitted", !.answers = m] \in Attempt
           /\ att.status \in Statuses /\ att.answers \in AnswerMap
           /\ att.score \in Nat
  BY DEF Attempt, Statuses

TypeInv == TypeOK /\ HandlersOK

\* A located attempt is a document.
LEMMA TargetType ==
    ASSUME TypeInv, NEW r \in Reqs, pc[r] \in Located
    PROVE  /\ req[r].attempt \in AttemptIds
           /\ Target(r) \in Attempt
  BY DEF TypeInv, TypeOK, HandlersOK, HandlerOK, Exists, Target

\* A step of r that keeps every document in place leaves the other handlers
\* as they were.
LEMMA OthersOK ==
    ASSUME TypeInv, NEW r \in Reqs, HandlerOK(r)',
           \A s \in Reqs \ {r} : pc'[s] = pc[s] /\ req'[s] = req[s],
           \A a \in AttemptIds : Exists(a) => Exists(a)'
    PROVE  HandlersOK'
<1> SUFFICES ASSUME NEW s \in Reqs \ {r}
             PROVE  HandlerOK(s)'
  BY DEF HandlersOK
<1>1. HandlerOK(s) /\ pc'[s] = pc[s] /\ req'[s] = req[s]
  BY DEF TypeInv, HandlersOK
<1> QED
  BY <1>1 DEF HandlerOK, Located, Exists

\* Finishing, or continuing at a label where r has what the label needs.
LEMMA FinishOK ==
    ASSUME TypeInv, NEW r \in Reqs, NEW response \in Response,
           Finish(r, response),
           attempts' \in [AttemptIds -> Attempt \cup {None}],
           \A a \in AttemptIds : Exists(a) => Exists(a)'
    PROVE  TypeInv'
<1>1. TypeOK'
  BY FinishType DEF TypeInv, TypeOK
<1>2. HandlerOK(r)'
  BY DEF Finish, Goto, HandlerOK, Located, TypeInv, TypeOK
<1>3. \A s \in Reqs \ {r} : pc'[s] = pc[s] /\ req'[s] = req[s]
  BY DEF Finish, Goto, TypeInv, TypeOK
<1> QED
  BY <1>1, <1>2, <1>3, OthersOK DEF TypeInv

LEMMA ContinueOK ==
    ASSUME TypeInv, NEW r \in Reqs, NEW label \in PCs, NEW keep \in Seen,
           Continue(r, label, keep),
           attempts' \in [AttemptIds -> Attempt \cup {None}],
           \A a \in AttemptIds : Exists(a) => Exists(a)',
           HandlerOK(r)'
    PROVE  TypeInv'
<1>1. TypeOK'
  BY ContinueType DEF TypeInv, TypeOK
<1>3. \A s \in Reqs \ {r} : pc'[s] = pc[s] /\ req'[s] = req[s]
  BY DEF Continue, Goto, TypeInv, TypeOK
<1> QED
  BY <1>1, <1>3, OthersOK DEF TypeInv

LEMMA BeginOK ==
    ASSUME TypeInv, NEW r \in Reqs, NEW label \in PCs, NEW request \in Request,
           Begin(r, request, label), HandlerOK(r)'
    PROVE  TypeInv'
<1>1. TypeOK'
  BY BeginType DEF TypeInv
<1>2. \A s \in Reqs \ {r} : pc'[s] = pc[s] /\ req'[s] = req[s]
  BY DEF Begin, Goto, TypeInv, TypeOK
<1>3. \A a \in AttemptIds : Exists(a) => Exists(a)'
  BY DEF Begin, Exists
<1> QED
  BY <1>1, <1>2, <1>3, OthersOK DEF TypeInv

\* The outcomes of CheckRead.
LEMMA CheckReadOK ==
    ASSUME TypeInv, NEW r \in Reqs, NEW next \in {"read", "write"},
           req[r].attempt \in AttemptIds, Exists(req[r].attempt),
           CheckRead(r, next), UNCHANGED attempts
    PROVE  TypeInv'
<1>1. Target(r) \in Attempt
  BY DEF TypeInv, TypeOK, Exists, Target
<1>2. /\ Reply("attempt_done", req[r].attempt) \in Response
      /\ Reply("hash_mismatch", req[r].attempt) \in Response
      /\ Result(r) \in Response
  <2>1. Reply("result", req[r].attempt) \in Response
    BY DefaultsType DEF Kinds
  <2> QED
    BY <1>1, <2>1, DefaultsType, ResultType DEF Kinds, Result, Response
<1>3. Unseen \in Seen /\ [Unseen EXCEPT !.status = Target(r).status] \in Seen
  BY <1>1, DefaultsType, DocumentType DEF Seen, Unseen
<1>4. /\ attempts' \in [AttemptIds -> Attempt \cup {None}]
      /\ \A a \in AttemptIds : Exists(a) => Exists(a)'
  BY DEF TypeInv, TypeOK, Exists
<1>5. ASSUME NEW response \in Response, Finish(r, response) PROVE TypeInv'
  BY <1>4, <1>5, FinishOK
<1>6. ASSUME NEW keep \in Seen, Continue(r, next, keep) PROVE TypeInv'
  <2>1. next \in PCs
    BY DEF PCs
  <2>2. HandlerOK(r)'
    BY <1>6 DEF Continue, Goto, HandlerOK, Located, Exists, TypeInv, TypeOK
  <2> QED
    BY <1>4, <1>6, <2>1, <2>2, ContinueOK
<1> QED
  BY <1>2, <1>3, <1>5, <1>6 DEF CheckRead

\* Requests arrive well formed.
LEMMA ArriveTypeInv ==
    ASSUME TypeInv, NEW r \in Reqs, Arrive(r)
    PROVE  TypeInv'
<1> PICK actor \in Students :
        \/ \E s \in Assignments, z \in Quizzes, h \in Hashes :
               StartAttempt(r, actor, s, z, h)
        \/ \E a \in AttemptIds :
               \/ \E q \in Questions, v \in Answers :
                      SaveAnswerForActor(r, actor, a, q, v)
               \/ \E m \in AnswerMap :
                      \/ \E h \in Hashes \cup {""} :
                             SaveAttemptDraft(r, actor, a, m, h)
                      \/ SubmitAttemptForActor(r, actor, a, m)
               \/ \E h \in Hashes, s \in SyncStatuses \cup {""} :
                      SyncAttemptForActor(r, actor, a, h, s)
  BY DEF Arrive
<1>1. ASSUME NEW s \in Assignments, NEW z \in Quizzes, NEW h \in Hashes,
             StartAttempt(r, actor, s, z, h)
      PROVE  TypeInv'
  <2> DEFINE request == [NoRequest EXCEPT !.op = "start", !.actor = actor,
                            !.assignment = s, !.quiz = z, !.hash = h]
  <2>1. request \in Request /\ "find" \in PCs
    BY DefaultsType DEF Request, NoRequest, Ops, PCs
  <2>2. Begin(r, request, "find")
    BY <1>1 DEF StartAttempt
  <2>3. HandlerOK(r)'
    BY <2>2 DEF Begin, Goto, HandlerOK, Located, NoRequest, TypeInv, TypeOK
  <2> QED
    BY <2>1, <2>2, <2>3, BeginOK
<1>2. ASSUME NEW a \in AttemptIds, NEW request \in Request,
             request.attempt = a, Begin(r, request, "access")
      PROVE  TypeInv'
  <2>1. "access" \in PCs
    BY DEF PCs
  <2>2. HandlerOK(r)'
    BY <1>2 DEF Begin, Goto, HandlerOK, Located, TypeInv, TypeOK
  <2> QED
    BY <1>2, <2>1, <2>2, BeginOK
<1>4. ASSUME NEW a \in AttemptIds, NEW q \in Questions, NEW v \in Answers,
             SaveAnswerForActor(r, actor, a, q, v)
      PROVE  TypeInv'
  <2> DEFINE request == [Call("save", actor, a) EXCEPT !.answers = [EmptyMap EXCEPT ![q] = v]]
  <2>0. [EmptyMap EXCEPT ![q] = v] \in AnswerMap
    BY DEF EmptyMap, AnswerMap
  <2>1. request \in Request /\ request.attempt = a
    BY <2>0, DefaultsType DEF Call, Request, NoRequest, Ops
  <2>2. Begin(r, request, "access")
    BY <1>4 DEF SaveAnswerForActor
  <2> QED
    BY <1>2, <2>1, <2>2
<1>5. ASSUME NEW a \in AttemptIds, NEW m \in AnswerMap,
             NEW h \in Hashes \cup {""}, SaveAttemptDraft(r, actor, a, m, h)
      PROVE  TypeInv'
  <2> DEFINE request == [Call("draft", actor, a) EXCEPT !.answers = m, !.hash = h]
  <2>1. request \in Request /\ request.attempt = a
    BY DefaultsType DEF Call, Request, NoRequest, Ops
  <2>2. Begin(r, request, "access")
    BY <1>5 DEF SaveAttemptDraft
  <2> QED
    BY <1>2, <2>1, <2>2
<1>6. ASSUME NEW a \in AttemptIds, NEW m \in AnswerMap,
             SubmitAttemptForActor(r, actor, a, m)
      PROVE  TypeInv'
  <2> DEFINE request == [Call("submit", actor, a) EXCEPT !.answers = m]
  <2>1. request \in Request /\ request.attempt = a
    BY DefaultsType DEF Call, Request, NoRequest, Ops
  <2>2. Begin(r, request, "access")
    BY <1>6 DEF SubmitAttemptForActor
  <2> QED
    BY <1>2, <2>1, <2>2
<1>7. ASSUME NEW a \in AttemptIds, NEW h \in Hashes,
             NEW s \in SyncStatuses \cup {""},
             SyncAttemptForActor(r, actor, a, h, s)
      PROVE  TypeInv'
  <2> DEFINE request == [Call("sync", actor, a) EXCEPT !.hash = h, !.status = s]
  <2>1. request \in Request /\ request.attempt = a
    BY DefaultsType DEF Call, Request, NoRequest, Ops
  <2>2. Begin(r, request, "access")
    BY <1>7 DEF SyncAttemptForActor
  <2> QED
    BY <1>2, <2>1, <2>2
<1> QED
  BY <1>1, <1>4, <1>5, <1>6, <1>7

\* Inserting the attempt of a start request.
LEMMA InsertType ==
    ASSUME TypeInv, NEW r \in Reqs, pc[r] = "create",
           NEW a \in AttemptIds, Insert(r, a)
    PROVE  /\ attempts' \in [AttemptIds -> Attempt \cup {None}]
           /\ attempts' = [attempts EXCEPT ![a] = NewAttempt(r)]
           /\ NewAttempt(r) \in Attempt
           /\ \A b \in AttemptIds : Exists(b) => Exists(b)'
<1>1. /\ req[r].actor \in Students /\ req[r].assignment \in Assignments
      /\ req[r].quiz \in Quizzes /\ req[r].hash \in Hashes
  BY DEF TypeInv, HandlersOK, HandlerOK
<1>2. NewAttempt(r) \in Attempt
  BY <1>1, EmptyMapType DEF NewAttempt, Attempt, Statuses
<1> QED
  BY <1>2, NoneAssumption DEF Insert, TypeInv, TypeOK, Exists

\* Replacing the located document of a handler.
LEMMA ReplaceType ==
    ASSUME TypeInv, NEW r \in Reqs, pc[r] \in Located, NEW att \in Attempt,
           attempts' = [attempts EXCEPT ![req[r].attempt] = att]
    PROVE  /\ attempts' \in [AttemptIds -> Attempt \cup {None}]
           /\ \A b \in AttemptIds : Exists(b) => Exists(b)'
  BY TargetType, NoneAssumption DEF TypeInv, TypeOK, Exists

\* Every step of a handler keeps the types and the handlers' assumptions.
LEMMA StepTypeInv ==
    ASSUME TypeInv, NEW r \in Reqs, Step(r)
    PROVE  TypeInv'
<1> USE DEF Located
<1>1. ASSUME UNCHANGED attempts
      PROVE  /\ attempts' \in [AttemptIds -> Attempt \cup {None}]
             /\ \A a \in AttemptIds : Exists(a) => Exists(a)'
  BY <1>1 DEF TypeInv, TypeOK, Exists
<1>2. /\ \A k \in Kinds, a \in AttemptIds \cup {None, Blank} :
             Reply(k, a) \in Response
      /\ Unseen \in Seen
  BY DefaultsType
<1>3. ASSUME pc[r] \in Located
      PROVE  Result(r) \in Response
  <2>1. attemptSubmitResult(Target(r)) \in Nat /\ req[r].attempt \in AttemptIds
    BY <1>3, TargetType, ResultType
  <2>2. Reply("result", req[r].attempt) \in Response
    BY <1>2, <2>1 DEF Kinds
  <2> QED
    BY <2>1, <2>2 DEF Result, Response
<1>4. CASE RefuseStart(r)
  <2>1. Reply("forbidden", None) \in Response
    BY <1>2 DEF Kinds
  <2> QED
    BY <1>1, <1>4, <2>1, FinishOK DEF RefuseStart
<1>5. CASE FindActiveAttempt(r)
  <2>1. ASSUME NEW a \in Active(r), Finish(r, Reply("started", a))
        PROVE  TypeInv'
    <3>1. Reply("started", a) \in Response
      BY <1>2 DEF Active, ActiveAttempts, Kinds
    <3> QED
      BY <1>1, <1>5, <2>1, <3>1, FinishOK DEF FindActiveAttempt
  <2>2. ASSUME Continue(r, "create", Unseen)
        PROVE  TypeInv'
    <3>1. HandlerOK(r)'
      BY <1>5, <2>2
      DEF FindActiveAttempt, Continue, Goto, HandlerOK, HandlersOK, TypeInv, TypeOK
    <3> QED
      BY <1>1, <1>2, <1>5, <2>2, <3>1, ContinueOK DEF FindActiveAttempt, PCs
  <2> QED
    BY <1>5, <2>1, <2>2 DEF FindActiveAttempt
<1>6. CASE CreateAttempt(r)
  <2>1. ASSUME NEW a \in AttemptIds, Insert(r, a), Finish(r, Reply("started", a))
        PROVE  TypeInv'
    <3>1. Reply("started", a) \in Response
      BY <1>2 DEF Kinds
    <3> QED
      BY <1>6, <2>1, <3>1, InsertType, FinishOK DEF CreateAttempt
  <2>2. ASSUME Continue(r, "findAgain", Unseen), UNCHANGED attempts
        PROVE  TypeInv'
    <3>1. HandlerOK(r)'
      BY <1>6, <2>2
      DEF CreateAttempt, Continue, Goto, HandlerOK, HandlersOK, TypeInv, TypeOK
    <3> QED
      BY <1>1, <1>2, <2>2, <3>1, ContinueOK DEF PCs
  <2> QED
    BY <1>6, <2>1, <2>2 DEF CreateAttempt
<1>7. CASE FindActiveAgain(r)
  <2>1. \A a \in Active(r) : Reply("started", a) \in Response
    BY <1>2 DEF Active, ActiveAttempts, Kinds
  <2>2. Reply("error", None) \in Response
    BY <1>2 DEF Kinds
  <2> QED
    BY <1>1, <1>7, <2>1, <2>2, FinishOK DEF FindActiveAgain
<1>8. CASE AccessAttempt(r)
  <2>0. req[r].attempt \in AttemptIds
    BY <1>8 DEF AccessAttempt, TypeInv, HandlersOK, HandlerOK
  <2>1. Reply("not_found", None) \in Response /\ Reply("forbidden", None) \in Response
    BY <1>2 DEF Kinds
  <2>2. ASSUME Exists(req[r].attempt), Continue(r, "read", Unseen)
        PROVE  TypeInv'
    <3>1. HandlerOK(r)'
      BY <1>8, <2>0, <2>2
      DEF AccessAttempt, Continue, Goto, HandlerOK, TypeInv, TypeOK, Exists
    <3> QED
      BY <1>1, <1>2, <1>8, <2>2, <3>1, ContinueOK DEF AccessAttempt, PCs
  <2>3. ASSUME Exists(req[r].attempt), NEW next \in {"read", "write"},
               CheckRead(r, next)
        PROVE  TypeInv'
    BY <1>8, <2>0, <2>3, CheckReadOK DEF AccessAttempt
  <2>4. ASSUME NEW response \in Response, Finish(r, response)
        PROVE  TypeInv'
    BY <1>1, <1>8, <2>4, FinishOK DEF AccessAttempt
  <2> QED
    BY <1>8, <2>1, <2>2, <2>3, <2>4 DEF AccessAttempt
<1>9. CASE ReadAttempt(r)
  <2>1. req[r].attempt \in AttemptIds /\ Exists(req[r].attempt)
    BY <1>9 DEF ReadAttempt, TypeInv, HandlersOK, HandlerOK
  <2> QED
    BY <1>9, <2>1, CheckReadOK DEF ReadAttempt
<1>10. ASSUME pc[r] \in Located, NEW label \in Located, NEW keep \in Seen,
              Continue(r, label, keep),
              attempts' \in [AttemptIds -> Attempt \cup {None}],
              \A a \in AttemptIds : Exists(a) => Exists(a)',
              label \in {"score", "rescored"} => req[r].op = "submit"
       PROVE  TypeInv'
  <2>1. HandlerOK(r)'
    BY <1>10 DEF Continue, Goto, HandlerOK, HandlersOK, TypeInv, TypeOK, Exists
  <2>2. label \in PCs
    BY DEF PCs
  <2> QED
    BY <1>10, <2>1, <2>2, ContinueOK
<1>11. CASE SaveAttemptAnswer(r)
  <2>1. req[r].answers \in AnswerMap /\ pc[r] \in Located
    BY <1>11 DEF SaveAttemptAnswer, TypeInv, TypeOK, Request
  <2>2. SetAnswers(Target(r).answers, req[r].answers) \in AnswerMap
    BY <2>1, TargetType, DocumentType, SetAnswersGrows
  <2>3. [Target(r) EXCEPT !.answers = SetAnswers(@, req[r].answers)] \in Attempt
    BY <2>1, <2>2, TargetType, DocumentType
  <2>4. \/ UNCHANGED attempts
        \/ attempts' = [attempts EXCEPT ![req[r].attempt] =
               [Target(r) EXCEPT !.answers = SetAnswers(@, req[r].answers)]]
    BY <1>11 DEF SaveAttemptAnswer, Target
  <2> QED
    BY <1>1, <1>2, <1>10, <1>11, <2>1, <2>3, <2>4, ReplaceType
    DEF SaveAttemptAnswer
<1>12. CASE SubmitAttempt(r)
  <2>1. req[r].answers \in AnswerMap /\ pc[r] \in Located
    BY <1>12 DEF SubmitAttempt, TypeInv, TypeOK, Request
  <2>2. SetAnswers(Target(r).answers, req[r].answers) \in AnswerMap
    BY <2>1, TargetType, DocumentType, SetAnswersGrows
  <2>3. [Target(r) EXCEPT !.status = "submitted",
                          !.answers = SetAnswers(@, req[r].answers)] \in Attempt
    BY <2>1, <2>2, TargetType, DocumentType
  <2>4. \/ UNCHANGED attempts
        \/ attempts' = [attempts EXCEPT ![req[r].attempt] =
               [Target(r) EXCEPT !.status = "submitted",
                                 !.answers = SetAnswers(@, req[r].answers)]]
    BY <1>12, <2>1, TargetType DEF SubmitAttempt, Target, TypeInv, TypeOK
  <2>5. PICK keep \in Seen : Continue(r, "reread", keep)
    BY <1>2, <1>12 DEF SubmitAttempt, Seen, Unseen, Matches, Unsubmitted
  <2> QED
    BY <1>1, <1>10, <2>1, <2>3, <2>4, <2>5, ReplaceType
<1>13. CASE SyncUpdate(r)
  <2>1. pc[r] \in Located /\ req[r].status \in SyncStatuses \cup {""}
    BY <1>13 DEF SyncUpdate, TypeInv, TypeOK, Request
  <2>2. CASE UNCHANGED attempts /\ Continue(r, "reread", Unseen)
    BY <1>1, <1>2, <1>10, <2>1, <2>2
  <2>3. CASE UNCHANGED attempts /\ Finish(r, Reply("error", None))
    <3>1. Reply("error", None) \in Response
      BY <1>2 DEF Kinds
    <3> QED
      BY <1>1, <2>3, <3>1, FinishOK
  <2>4. CASE /\ attempts' = [attempts EXCEPT ![req[r].attempt].status = req[r].status]
             /\ req[r].status # ""
             /\ Continue(r, "reread", Unseen)
    <3>1. attempts' = [attempts EXCEPT ![req[r].attempt] =
                          [Target(r) EXCEPT !.status = req[r].status]]
      BY <2>4 DEF Target
    <3>2. [Target(r) EXCEPT !.status = req[r].status] \in Attempt
      BY <2>1, <2>4, TargetType, DocumentType DEF Statuses
    <3> QED
      BY <1>2, <1>10, <2>1, <2>4, <3>1, <3>2, ReplaceType
  <2> QED
    BY <1>13, <2>2, <2>3, <2>4 DEF SyncUpdate, WritesStatus
<1>14. CASE RereadAttempt(r)
  <2>1. req[r].attempt \in AttemptIds
    BY <1>14, TargetType DEF RereadAttempt
  <2>2. \A k \in {"attempt_done", "saved", "synced"} :
            Reply(k, req[r].attempt) \in Response
    BY <1>2, <2>1 DEF Kinds
  <2> QED
    BY <1>1, <1>14, <2>2, FinishOK DEF RereadAttempt
<1>15. CASE RereadSubmitted(r)
  <2>1. [Unseen EXCEPT !.count = NumAnswers(Target(r).answers)] \in Seen
    BY <1>2, <1>15, TargetType, DocumentType, NumAnswersNat
    DEF RereadSubmitted, Seen, Unseen
  <2>2. CASE Finish(r, Result(r))
    BY <1>1, <1>3, <1>15, <2>2, FinishOK DEF RereadSubmitted
  <2>3. CASE Continue(r, "score", [Unseen EXCEPT
                                     !.count = NumAnswers(Target(r).answers)])
    BY <1>1, <1>10, <1>15, <2>1, <2>3 DEF RereadSubmitted
  <2> QED
    BY <1>15, <2>2, <2>3 DEF RereadSubmitted
<1>16. CASE UpdateAttemptScore(r)
  <2>1. Grade(seen[r].count) \in Nat /\ pc[r] \in Located
    BY <1>16, GradeMonotone DEF UpdateAttemptScore, TypeInv, TypeOK, Seen
  <2>2. [Target(r) EXCEPT !.score = Grade(seen[r].count)] \in Attempt
    BY <2>1, TargetType, DocumentType
  <2>3. attempts' = [attempts EXCEPT ![req[r].attempt] =
                        [Target(r) EXCEPT !.score = Grade(seen[r].count)]]
    BY <1>16 DEF UpdateAttemptScore, Target
  <2>4. req[r].op = "submit"
    BY <1>16 DEF UpdateAttemptScore, TypeInv, HandlersOK, HandlerOK
  <2> QED
    BY <1>2, <1>10, <1>16, <2>1, <2>2, <2>3, <2>4, ReplaceType
    DEF UpdateAttemptScore
<1>17. CASE FinishSubmit(r)
  <2>1. [Result(r) EXCEPT !.audited = TRUE] \in Response
    BY <1>3, <1>17 DEF FinishSubmit, Response
  <2> QED
    BY <1>1, <1>17, <2>1, FinishOK DEF FinishSubmit
<1> QED
  BY <1>4, <1>5, <1>6, <1>7, <1>8, <1>9, <1>11, <1>12, <1>13, <1>14, <1>15,
     <1>16, <1>17 DEF Step

\* Failures keep the types and the handlers' assumptions too.
LEMMA FailTypeInv ==
    ASSUME TypeInv, NEW r \in Reqs, Fail(r)
    PROVE  TypeInv'
<1>1. \A a \in {None, Blank} : Reply("error", a) \in Response
                               /\ Reply("started", a) \in Response
  BY DefaultsType DEF Kinds
<1>2. CASE Abort(r)
  BY <1>1, <1>2, FinishOK DEF Abort, TypeInv, TypeOK, Exists
<1>3. CASE FindActiveFails(r)
  BY <1>1, <1>3, FinishOK DEF FindActiveFails, TypeInv, TypeOK, Exists
<1>4. CASE CreateFails(r)
  <2>1. /\ attempts' \in [AttemptIds -> Attempt \cup {None}]
        /\ \A a \in AttemptIds : Exists(a) => Exists(a)'
    BY <1>4, InsertType DEF CreateFails, TypeInv, TypeOK, Exists
  <2>2. HandlerOK(r)'
    BY <1>4 DEF CreateFails, Continue, Goto, HandlerOK, HandlersOK, Located,
                TypeInv, TypeOK
  <2> QED
    BY <1>4, <2>1, <2>2, ContinueOK, DefaultsType DEF CreateFails, PCs
<1> QED
  BY <1>2, <1>3, <1>4 DEF Fail

LEMMA NextTypeInv == TypeInv /\ [Next]_vars => TypeInv'
<1> SUFFICES ASSUME TypeInv, [Next]_vars PROVE TypeInv'
  OBVIOUS
<1>1. CASE UNCHANGED vars
  BY <1>1 DEF vars, TypeInv, TypeOK, HandlersOK, HandlerOK, Exists
<1>2. ASSUME NEW r \in Reqs, Arrive(r) \/ Step(r) \/ Fail(r) PROVE TypeInv'
  BY <1>2, ArriveTypeInv, StepTypeInv, FailTypeInv
<1> QED
  BY <1>1, <1>2 DEF Next, Quiescent

LEMMA InitTypeInv == Init => TypeInv
  BY DefaultsType
  DEF Init, TypeInv, TypeOK, HandlersOK, HandlerOK, Located, PCs, Kinds

\* Every reachable state is well typed, and an attempt a handler has located is
\* never removed under it.
THEOREM TypeCorrect == Spec => [](TypeOK /\ HandlersOK)
<1>1. Spec => []TypeInv
  BY InitTypeInv, NextTypeInv, PTL DEF Spec
<1> QED
  BY <1>1, PTL DEF TypeInv

-----------------------------------------------------------------------------
(* What a step of request r does to the attempts collection: nothing, or   *)
(* one of five single-document writes.                                     *)

Replace(r, att) == attempts' = [attempts EXCEPT ![req[r].attempt] = att]

Merged(r) == SetAnswers(Target(r).answers, req[r].answers)

AnswerWrite(r) ==
    /\ pc[r] = "write" /\ req[r].op \in {"save", "draft"}
    /\ Target(r).status # "submitted"
    /\ Replace(r, [Target(r) EXCEPT !.answers = Merged(r)])

SubmitWrite(r) ==
    /\ pc[r] = "write" /\ req[r].op = "submit"
    /\ Target(r).status # "submitted"
    /\ Replace(r, [Target(r) EXCEPT !.status = "submitted",
                                    !.answers = Merged(r)])

StatusWrite(r) ==
    /\ pc[r] = "write" /\ req[r].op = "sync"
    /\ req[r].status \in SyncStatuses
    /\ req[r].status = "in_progress" =>
          IndexAllows(req[r].attempt, Target(r).student,
                      Target(r).assignment, Target(r).quiz)
    /\ Replace(r, [Target(r) EXCEPT !.status = req[r].status])

ScoreWrite(r) ==
    /\ pc[r] = "score"
    /\ Replace(r, [Target(r) EXCEPT !.score = Grade(seen[r].count)])

Write(r) ==
    \/ UNCHANGED attempts
    \/ pc[r] = "create" /\ \E a \in AttemptIds : Insert(r, a)
    \/ AnswerWrite(r) \/ SubmitWrite(r) \/ StatusWrite(r) \/ ScoreWrite(r)

LEMMA StepWrites ==
    ASSUME TypeInv, NEW r \in Reqs, Arrive(r) \/ Step(r) \/ Fail(r)
    PROVE  Write(r)
<1>1. CASE Arrive(r)
  BY <1>1 DEF Arrive, StartAttempt, SaveAnswerForActor, SaveAttemptDraft,
              SubmitAttemptForActor, SyncAttemptForActor, Begin, Write
<1>2. CASE Fail(r)
  BY <1>2 DEF Fail, Abort, FindActiveFails, CreateFails, Write
<1>3. CASE SaveAttemptAnswer(r)
  BY <1>3 DEF SaveAttemptAnswer, Write, AnswerWrite, Replace, Merged, Target,
              Matches, Unsubmitted
<1>4. CASE SubmitAttempt(r)
  <2>1. /\ pc[r] = "write"
        /\ req[r].attempt \in AttemptIds
    BY <1>4, TargetType DEF SubmitAttempt, Located
  <2>2. CASE ~ Unsubmitted(req[r].attempt)
    BY <1>4, <2>2 DEF SubmitAttempt, Matches, Write
  <2>3. CASE Unsubmitted(req[r].attempt)
    <3>1. attempts' = [attempts EXCEPT ![req[r].attempt].status = "submitted",
                                       ![req[r].attempt].answers =
                                           SetAnswers(@, req[r].answers)]
      BY <1>4, <2>3 DEF SubmitAttempt, Matches
    <3>2. Replace(r, [Target(r) EXCEPT !.status = "submitted",
                                       !.answers = Merged(r)])
      BY <2>1, <3>1, TargetType
      DEF Replace, Merged, Target, TypeInv, TypeOK, Located, Attempt
    <3> QED
      BY <1>4, <2>1, <2>3, <3>2
      DEF SubmitAttempt, Write, SubmitWrite, Unsubmitted, Target
  <2> QED
    BY <2>2, <2>3
<1>5. CASE SyncUpdate(r)
  <2>1. req[r].status \in SyncStatuses \cup {""}
    BY DEF TypeInv, TypeOK, Request
  <2> QED
    BY <1>5, <2>1 DEF SyncUpdate, WritesStatus, Write, StatusWrite, Replace, Target
<1>6. CASE UpdateAttemptScore(r)
  BY <1>6 DEF UpdateAttemptScore, Write, ScoreWrite, Replace, Target
<1>7. CASE CreateAttempt(r)
  BY <1>7 DEF CreateAttempt, Write
<1> QED
  BY <1>1, <1>2, <1>3, <1>4, <1>5, <1>6, <1>7
  DEF Step, Write, RefuseStart, FindActiveAttempt, FindActiveAgain,
      AccessAttempt, ReadAttempt, RereadAttempt, RereadSubmitted, FinishSubmit

\* A write keeps every other document, and every document's owner and answers.
LEMMA WriteKeeps ==
    ASSUME TypeInv, NEW r \in Reqs, Write(r), NEW a \in AttemptIds, Exists(a)
    PROVE  /\ Exists(a)'
           /\ attempts'[a] \in Attempt
           /\ attempts'[a].student = attempts[a].student
           /\ attempts'[a].assignment = attempts[a].assignment
           /\ attempts'[a].quiz = attempts[a].quiz
           /\ Answered(attempts[a].answers) \subseteq Answered(attempts'[a].answers)
           /\ ~ Unsubmitted(a) /\ ~ Unsubmitted(a)' =>
                  attempts'[a].answers = attempts[a].answers
<1>0. attempts[a] \in Attempt
  BY DEF TypeInv, TypeOK, Exists
<1>1. CASE UNCHANGED attempts
  BY <1>0, <1>1 DEF Exists, Unsubmitted
<1>2. CASE pc[r] = "create" /\ \E b \in AttemptIds : Insert(r, b)
  BY <1>0, <1>2 DEF Insert, Exists, Unsubmitted, TypeInv, TypeOK
<1>3. ASSUME pc[r] \in Located, NEW att \in Attempt, Replace(r, att),
             att.student = Target(r).student,
             att.assignment = Target(r).assignment,
             att.quiz = Target(r).quiz,
             Answered(Target(r).answers) \subseteq Answered(att.answers),
             Target(r).status = "submitted" /\ att.status = "submitted" =>
                 att.answers = Target(r).answers
      PROVE  /\ Exists(a)'
             /\ attempts'[a] \in Attempt
             /\ attempts'[a].student = attempts[a].student
             /\ attempts'[a].assignment = attempts[a].assignment
             /\ attempts'[a].quiz = attempts[a].quiz
             /\ Answered(attempts[a].answers) \subseteq Answered(attempts'[a].answers)
             /\ ~ Unsubmitted(a) /\ ~ Unsubmitted(a)' =>
                    attempts'[a].answers = attempts[a].answers
  <2>1. Target(r) \in Attempt /\ req[r].attempt \in AttemptIds
    BY <1>3, TargetType
  <2>2. CASE a = req[r].attempt
    <3>1. attempts'[a] = att /\ attempts[a] = Target(r)
      BY <1>3, <2>1, <2>2 DEF Replace, Target, TypeInv, TypeOK
    <3> QED
      BY <1>3, <3>1, NoneAssumption DEF Exists, Unsubmitted
  <2>3. CASE a # req[r].attempt
    <3>1. attempts'[a] = attempts[a]
      BY <1>3, <2>3 DEF Replace, TypeInv, TypeOK
    <3> QED
      BY <1>0, <3>1 DEF Exists, Unsubmitted
  <2> QED
    BY <2>2, <2>3
<1>4. ASSUME pc[r] = "write", Target(r).status # "submitted"
      PROVE  /\ pc[r] \in Located
             /\ Merged(r) \in AnswerMap
             /\ Answered(Target(r).answers) \subseteq Answered(Merged(r))
  <2>1. pc[r] \in Located /\ req[r].answers \in AnswerMap
    BY <1>4 DEF Located, TypeInv, TypeOK, Request
  <2> QED
    BY <2>1, TargetType, DocumentType, SetAnswersGrows DEF Merged
<1>5. CASE AnswerWrite(r)
  <2> DEFINE att == [Target(r) EXCEPT !.answers = Merged(r)]
  <2>1. /\ pc[r] \in Located /\ att \in Attempt
        /\ att.answers = Merged(r)
        /\ att.student = Target(r).student
        /\ att.assignment = Target(r).assignment
        /\ att.quiz = Target(r).quiz
    BY <1>4, <1>5, TargetType, DocumentType DEF AnswerWrite, Attempt
  <2> QED
    BY <1>3, <1>4, <1>5, <2>1 DEF AnswerWrite
<1>6. CASE SubmitWrite(r)
  <2> DEFINE att == [Target(r) EXCEPT !.status = "submitted",
                                      !.answers = Merged(r)]
  <2>1. /\ pc[r] \in Located /\ att \in Attempt
        /\ att.answers = Merged(r)
        /\ att.student = Target(r).student
        /\ att.assignment = Target(r).assignment
        /\ att.quiz = Target(r).quiz
    BY <1>4, <1>6, TargetType, DocumentType DEF SubmitWrite, Attempt
  <2> QED
    BY <1>3, <1>4, <1>6, <2>1 DEF SubmitWrite
<1>7. CASE StatusWrite(r)
  <2> DEFINE att == [Target(r) EXCEPT !.status = req[r].status]
  <2>1. /\ pc[r] \in Located /\ att \in Attempt
        /\ att.answers = Target(r).answers
        /\ att.student = Target(r).student
        /\ att.assignment = Target(r).assignment
        /\ att.quiz = Target(r).quiz
    BY <1>7, TargetType, DocumentType DEF StatusWrite, Attempt, Located, Statuses
  <2> QED
    BY <1>3, <1>7, <2>1 DEF StatusWrite
<1>8. CASE ScoreWrite(r)
  <2> DEFINE att == [Target(r) EXCEPT !.score = Grade(seen[r].count)]
  <2>0. pc[r] \in Located /\ Grade(seen[r].count) \in Nat
    BY <1>8, GradeMonotone DEF ScoreWrite, TypeInv, TypeOK, Seen, Located
  <2>1. /\ att \in Attempt
        /\ att.answers = Target(r).answers
        /\ att.student = Target(r).student
        /\ att.assignment = Target(r).assignment
        /\ att.quiz = Target(r).quiz
    BY <2>0, TargetType, DocumentType DEF Attempt
  <2> QED
    BY <1>3, <1>8, <2>0, <2>1 DEF ScoreWrite
<1> QED
  BY <1>1, <1>2, <1>5, <1>6, <1>7, <1>8 DEF Write

\* Answers are never dropped and attempts never change owner, for any clients
\* and any failures: the repository only ever sets single answer fields.
THEOREM AnswersSurvive == Spec => AnswersNeverDropped
<1>1. TypeInv /\ [Next]_vars =>
        [\A a \in AttemptIds : Exists(a) =>
          /\ Exists(a)'
          /\ attempts'[a].student = attempts[a].student
          /\ attempts'[a].assignment = attempts[a].assignment
          /\ attempts'[a].quiz = attempts[a].quiz
          /\ Answered(attempts[a].answers) \subseteq Answered(attempts'[a].answers)]_vars
  BY StepWrites, WriteKeeps DEF Next, Quiescent, vars
<1>2. Spec => []TypeInv
  BY InitTypeInv, NextTypeInv, PTL DEF Spec
<1> QED
  BY <1>1, <1>2, PTL DEF Spec, AnswersNeverDropped

\* The answers of a submitted attempt do not change while it is submitted.
THEOREM SubmissionFrozen == Spec => SubmittedAnswersFrozen
<1>1. TypeInv /\ [Next]_vars =>
        [\A a \in AttemptIds :
          Exists(a) /\ ~ Unsubmitted(a) /\ ~ Unsubmitted(a)' =>
              attempts'[a].answers = attempts[a].answers]_vars
  BY StepWrites, WriteKeeps DEF Next, Quiescent, vars
<1>2. Spec => []TypeInv
  BY InitTypeInv, NextTypeInv, PTL DEF Spec
<1> QED
  BY <1>1, <1>2, PTL DEF Spec, SubmittedAnswersFrozen

-----------------------------------------------------------------------------
(* One attempt in progress per slot.                                       *)

SameSlot(x, y) == /\ x.student = y.student
                  /\ x.assignment = y.assignment
                  /\ x.quiz = y.quiz

LEMMA WriteOneActive ==
    ASSUME TypeInv, OneActivePerSlot, NEW r \in Reqs, Write(r)
    PROVE  OneActivePerSlot'
<1> SUFFICES ASSUME NEW a \in AttemptIds, NEW b \in AttemptIds,
                    Exists(a)', attempts'[a].status = "in_progress",
                    Exists(b)', attempts'[b].status = "in_progress",
                    SameSlot(attempts'[a], attempts'[b]), a # b
             PROVE  FALSE
  BY DEF OneActivePerSlot, SameSlot
<1>1. CASE UNCHANGED attempts
  BY <1>1 DEF OneActivePerSlot, Exists, SameSlot
\* The document written is of slot att, and the index allowed it.
<1>2. ASSUME NEW id \in AttemptIds, NEW att \in Attempt,
             attempts' = [attempts EXCEPT ![id] = att],
             att.status = "in_progress" =>
                 ActiveAttempts(att.student, att.assignment, att.quiz) \subseteq {id}
      PROVE  FALSE
  <2>1. \A c \in AttemptIds : c # id => attempts'[c] = attempts[c]
    BY <1>2 DEF TypeInv, TypeOK
  <2>2. attempts'[id] = att
    BY <1>2 DEF TypeInv, TypeOK
  <2>3. CASE a # id /\ b # id
    BY <2>1, <2>3 DEF OneActivePerSlot, Exists, SameSlot
  <2>4. CASE a = id
    <3>1. b \in ActiveAttempts(att.student, att.assignment, att.quiz)
      BY <2>1, <2>2, <2>4 DEF ActiveAttempts, Exists, SameSlot
    <3> QED
      BY <1>2, <2>2, <2>4, <3>1
  <2>5. CASE b = id
    <3>1. a \in ActiveAttempts(att.student, att.assignment, att.quiz)
      BY <2>1, <2>2, <2>5 DEF ActiveAttempts, Exists, SameSlot
    <3> QED
      BY <1>2, <2>2, <2>5, <3>1
  <2> QED
    BY <2>3, <2>4, <2>5
<1>3. CASE pc[r] = "create" /\ \E c \in AttemptIds : Insert(r, c)
  <2> PICK c \in AttemptIds : Insert(r, c)
    BY <1>3
  <2>1. /\ NewAttempt(r) \in Attempt
        /\ attempts' = [attempts EXCEPT ![c] = NewAttempt(r)]
    BY <1>3, InsertType
  <2> QED
    BY <1>2, <2>1 DEF Insert, IndexAllows, NewAttempt
\* A write that leaves the slot and the status of the document alone.
<1>4. ASSUME pc[r] \in Located, NEW att \in Attempt, Replace(r, att),
             SameSlot(att, Target(r)), att.status = Target(r).status
      PROVE  FALSE
  <2>1. req[r].attempt \in AttemptIds /\ Target(r) \in Attempt
    BY <1>4, TargetType
  <2>2. att.status = "in_progress" =>
            ActiveAttempts(att.student, att.assignment, att.quiz)
                \subseteq {req[r].attempt}
    <3>1. Target(r) = attempts[req[r].attempt] /\ Exists(req[r].attempt)
      BY <2>1, NoneAssumption DEF Target, Exists
    <3>2. ASSUME att.status = "in_progress",
                 NEW d \in ActiveAttempts(att.student, att.assignment, att.quiz)
          PROVE  d = req[r].attempt
      BY <1>4, <2>1, <3>1, <3>2 DEF ActiveAttempts, OneActivePerSlot, SameSlot
    <3> QED
      BY <3>2
  <2> QED
    BY <1>2, <1>4, <2>1, <2>2 DEF Replace
<1>5. CASE AnswerWrite(r)
  <2>1. pc[r] \in Located /\ req[r].answers \in AnswerMap
    BY <1>5 DEF AnswerWrite, Located, TypeInv, TypeOK, Request
  <2>2. Merged(r) \in AnswerMap
    BY <2>1, TargetType, DocumentType, SetAnswersGrows DEF Merged
  <2> DEFINE att == [Target(r) EXCEPT !.answers = Merged(r)]
  <2>3. att \in Attempt /\ SameSlot(att, Target(r)) /\ att.status = Target(r).status
    BY <2>1, <2>2, TargetType, DocumentType DEF Attempt, SameSlot
  <2> QED
    BY <1>4, <1>5, <2>1, <2>3 DEF AnswerWrite
<1>6. CASE SubmitWrite(r)
  <2>1. pc[r] \in Located /\ req[r].answers \in AnswerMap
    BY <1>6 DEF SubmitWrite, Located, TypeInv, TypeOK, Request
  <2>2. Merged(r) \in AnswerMap
    BY <2>1, TargetType, DocumentType, SetAnswersGrows DEF Merged
  <2> DEFINE att == [Target(r) EXCEPT !.status = "submitted",
                                      !.answers = Merged(r)]
  <2>3. att \in Attempt /\ att.status = "submitted"
    BY <2>1, <2>2, TargetType, DocumentType DEF Attempt
  <2> QED
    BY <1>2, <1>6, <2>1, <2>3, TargetType DEF SubmitWrite, Replace
<1>7. CASE StatusWrite(r)
  <2> DEFINE att == [Target(r) EXCEPT !.status = req[r].status]
  <2>1. pc[r] \in Located
    BY <1>7 DEF StatusWrite, Located
  <2>2. /\ att \in Attempt /\ SameSlot(att, Target(r))
        /\ att.status = req[r].status
    BY <1>7, <2>1, TargetType, DocumentType
    DEF StatusWrite, Attempt, Statuses, SameSlot
  <2> QED
    BY <1>2, <1>7, <2>1, <2>2, TargetType
    DEF StatusWrite, Replace, IndexAllows, SameSlot
<1>8. CASE ScoreWrite(r)
  <2> DEFINE att == [Target(r) EXCEPT !.score = Grade(seen[r].count)]
  <2>1. pc[r] \in Located /\ Grade(seen[r].count) \in Nat
    BY <1>8, GradeMonotone DEF ScoreWrite, TypeInv, TypeOK, Seen, Located
  <2>2. att \in Attempt /\ SameSlot(att, Target(r)) /\ att.status = Target(r).status
    BY <2>1, TargetType, DocumentType DEF Attempt, SameSlot
  <2> QED
    BY <1>4, <1>8, <2>1, <2>2 DEF ScoreWrite
<1> QED
  BY <1>1, <1>3, <1>5, <1>6, <1>7, <1>8 DEF Write

\* A student never has two attempts in progress at the same assignment and
\* quiz, for any clients and any failures.
THEOREM ActiveUnique == Spec => []OneActivePerSlot
<1>1. Init => OneActivePerSlot
  BY DEF Init, OneActivePerSlot, Exists
<1>2. TypeInv /\ OneActivePerSlot /\ [Next]_vars => OneActivePerSlot'
  <2> SUFFICES ASSUME TypeInv, OneActivePerSlot, [Next]_vars
               PROVE  OneActivePerSlot'
    OBVIOUS
  <2>1. CASE UNCHANGED vars
    BY <2>1 DEF vars, OneActivePerSlot, Exists
  <2> QED
    BY <2>1, StepWrites, WriteOneActive DEF Next, Quiescent
<1> QED
  BY <1>1, <1>2, InitTypeInv, NextTypeInv, PTL DEF Spec

-----------------------------------------------------------------------------
(* Scores.                                                                 *)

\* A step of r changes no other request.
LEMMA OthersUnchanged ==
    ASSUME TypeInv, NEW r \in Reqs, Arrive(r) \/ Step(r) \/ Fail(r),
           NEW s \in Reqs, s # r
    PROVE  /\ pc'[s] = pc[s] /\ req'[s] = req[s]
           /\ seen'[s] = seen[s] /\ resp'[s] = resp[s]
<1> USE DEF TypeInv, TypeOK, Goto
<1>1. CASE Arrive(r)
  BY <1>1 DEF Arrive, StartAttempt, SaveAnswerForActor, SaveAttemptDraft,
              SubmitAttemptForActor, SyncAttemptForActor, Begin
<1>2. CASE Fail(r)
  BY <1>2 DEF Fail, Abort, FindActiveFails, CreateFails, Finish, Continue
<1>3. CASE Step(r)
  BY <1>3 DEF Step, RefuseStart, FindActiveAttempt, CreateAttempt,
     FindActiveAgain, AccessAttempt, ReadAttempt, CheckRead,
     SaveAttemptAnswer, SubmitAttempt, SyncUpdate, RereadAttempt,
     RereadSubmitted, UpdateAttemptScore, FinishSubmit, Finish, Continue
<1> QED
  BY <1>1, <1>2, <1>3

\* A request gets to the label score by rereading what it submitted.
LEMMA ReachScore ==
    ASSUME TypeInv, NEW r \in Reqs, Arrive(r) \/ Step(r) \/ Fail(r),
           pc'[r] = "score"
    PROVE  RereadSubmitted(r) /\ seen'[r].count = NumAnswers(Target(r).answers)
<1> USE DEF TypeInv, TypeOK, Goto
<1>1. CASE Arrive(r)
  BY <1>1 DEF Arrive, StartAttempt, SaveAnswerForActor, SaveAttemptDraft,
              SubmitAttemptForActor, SyncAttemptForActor, Begin
<1>2. CASE Fail(r)
  BY <1>2 DEF Fail, Abort, FindActiveFails, CreateFails, Finish, Continue
<1>3. CASE Step(r) /\ ~ RereadSubmitted(r)
  BY <1>3 DEF Step, RefuseStart, FindActiveAttempt, CreateAttempt,
     FindActiveAgain, AccessAttempt, ReadAttempt, CheckRead,
     SaveAttemptAnswer, SubmitAttempt, SyncUpdate, RereadAttempt,
     UpdateAttemptScore, FinishSubmit, Finish, Continue
<1>4. CASE RereadSubmitted(r)
  BY <1>4 DEF RereadSubmitted, Finish, Continue, Unseen, Seen
<1> QED
  BY <1>1, <1>2, <1>3, <1>4

\* What a write does to the score of a document.
LEMMA WriteScores ==
    ASSUME TypeInv, NEW r \in Reqs, Write(r), NEW a \in AttemptIds, Exists(a)'
    PROVE  \/ /\ Exists(a)
              /\ attempts'[a].score = attempts[a].score
           \/ /\ Exists(a) /\ pc[r] = "score" /\ a = req[r].attempt
              /\ attempts'[a].score = Grade(seen[r].count)
              /\ attempts'[a].answers = attempts[a].answers
           \/ /\ ~ Exists(a)
              /\ attempts'[a] = NewAttempt(r)
<1>1. CASE UNCHANGED attempts
  BY <1>1 DEF Exists
<1>2. CASE pc[r] = "create" /\ \E b \in AttemptIds : Insert(r, b)
  <2> PICK b \in AttemptIds : Insert(r, b)
    BY <1>2
  <2>1. attempts' = [attempts EXCEPT ![b] = NewAttempt(r)] /\ ~ Exists(b)
    BY DEF Insert
  <2> QED
    BY <2>1 DEF Exists, TypeInv, TypeOK
<1>3. ASSUME pc[r] \in Located, NEW att, Replace(r, att),
             \/ att.score = Target(r).score
             \/ /\ pc[r] = "score" /\ att.score = Grade(seen[r].count)
                /\ att.answers = Target(r).answers
      PROVE  \/ /\ Exists(a)
                /\ attempts'[a].score = attempts[a].score
             \/ /\ Exists(a) /\ pc[r] = "score" /\ a = req[r].attempt
                /\ attempts'[a].score = Grade(seen[r].count)
                /\ attempts'[a].answers = attempts[a].answers
  <2>1. req[r].attempt \in AttemptIds /\ Exists(req[r].attempt)
    BY <1>3 DEF TypeInv, HandlersOK, HandlerOK
  <2>2. CASE a = req[r].attempt
    BY <1>3, <2>1, <2>2 DEF Replace, Target, TypeInv, TypeOK
  <2>3. CASE a # req[r].attempt
    BY <1>3, <2>1, <2>3 DEF Replace, Exists, TypeInv, TypeOK
  <2> QED
    BY <2>2, <2>3
<1>4. ASSUME pc[r] \in Located
      PROVE  /\ \A m : [Target(r) EXCEPT !.answers = m].score = Target(r).score
             /\ \A m : [Target(r) EXCEPT !.status = "submitted",
                                         !.answers = m].score = Target(r).score
             /\ \A m : [Target(r) EXCEPT !.status = m].score = Target(r).score
             /\ \A m : /\ [Target(r) EXCEPT !.score = m].score = m
                       /\ [Target(r) EXCEPT !.score = m].answers = Target(r).answers
  BY <1>4, TargetType DEF Attempt
<1>5. CASE AnswerWrite(r)
  BY <1>3, <1>4, <1>5 DEF AnswerWrite, Located
<1>6. CASE SubmitWrite(r)
  BY <1>3, <1>4, <1>6 DEF SubmitWrite, Located
<1>7. CASE StatusWrite(r)
  BY <1>3, <1>4, <1>7 DEF StatusWrite, Located
<1>8. CASE ScoreWrite(r)
  BY <1>3, <1>4, <1>8 DEF ScoreWrite, Located
<1> QED
  BY <1>1, <1>2, <1>5, <1>6, <1>7, <1>8 DEF Write

LEMMA EmptyMapWorth == NumAnswers(EmptyMap) = 0
  BY FS_EmptySet DEF NumAnswers, Answered, EmptyMap

LEMMA StepScores ==
    ASSUME TypeInv, ScoreWithinAnswers, CountsStored, NEW r \in Reqs,
           Arrive(r) \/ Step(r) \/ Fail(r)
    PROVE  ScoreWithinAnswers' /\ CountsStored'
<1>0. Write(r) /\ TypeInv'
  BY StepWrites, ArriveTypeInv, StepTypeInv, FailTypeInv
\* Answers only grow, so a located attempt is worth at least as much as before.
<1>1. ASSUME NEW a \in AttemptIds, Exists(a)
      PROVE  /\ attempts[a].answers \in AnswerMap
             /\ attempts'[a].answers \in AnswerMap
             /\ NumAnswers(attempts[a].answers) \in Nat
             /\ NumAnswers(attempts'[a].answers) \in Nat
             /\ NumAnswers(attempts[a].answers) <= NumAnswers(attempts'[a].answers)
  <2>1. /\ attempts[a] \in Attempt /\ attempts'[a] \in Attempt
        /\ Answered(attempts[a].answers) \subseteq Answered(attempts'[a].answers)
    BY <1>0, <1>1, WriteKeeps DEF TypeInv, TypeOK, Exists
  <2> QED
    BY <2>1, DocumentType, NumAnswersNat, MoreAnswersMorePoints
<1>2. ScoreWithinAnswers'
  <2> SUFFICES ASSUME NEW a \in AttemptIds, Exists(a)'
               PROVE  attempts'[a].score <= Grade(NumAnswers(attempts'[a].answers))
    BY DEF ScoreWithinAnswers, Exists
  <2>1. CASE Exists(a) /\ attempts'[a].score = attempts[a].score
    <3>1. /\ attempts[a].score \in Nat
          /\ attempts[a].score <= Grade(NumAnswers(attempts[a].answers))
      BY <2>1 DEF ScoreWithinAnswers, TypeInv, TypeOK, Exists, Attempt
    <3>2. /\ Grade(NumAnswers(attempts[a].answers)) \in Nat
          /\ Grade(NumAnswers(attempts'[a].answers)) \in Nat
          /\ Grade(NumAnswers(attempts[a].answers))
                <= Grade(NumAnswers(attempts'[a].answers))
      BY <1>1, <2>1, GradeMonotone
    <3> QED
      BY <2>1, <3>1, <3>2
  <2>2. CASE /\ Exists(a) /\ pc[r] = "score" /\ a = req[r].attempt
             /\ attempts'[a].score = Grade(seen[r].count)
             /\ attempts'[a].answers = attempts[a].answers
    <3>1. /\ seen[r].count \in Nat
          /\ seen[r].count <= NumAnswers(attempts[a].answers)
      BY <2>2 DEF CountsStored, Target, TypeInv, TypeOK, Seen
    <3> QED
      BY <1>1, <2>2, <3>1, GradeMonotone
  <2>3. CASE ~ Exists(a) /\ attempts'[a] = NewAttempt(r)
    <3>1. attempts'[a].score = 0 /\ attempts'[a].answers = EmptyMap
      BY <2>3 DEF NewAttempt
    <3>2. Grade(0) \in Nat
      BY GradeMonotone
    <3> QED
      BY <3>1, <3>2, EmptyMapWorth
  <2> QED
    BY <1>0, <2>1, <2>2, <2>3, WriteScores
<1>3. CountsStored'
  <2> SUFFICES ASSUME NEW s \in Reqs, pc'[s] = "score"
               PROVE  seen'[s].count <= NumAnswers(attempts'[req'[s].attempt].answers)
    BY DEF CountsStored, Target
  <2>1. CASE s # r
    <3>1. pc[s] = "score" /\ req'[s] = req[s] /\ seen'[s] = seen[s]
      BY <2>1, OthersUnchanged
    <3>2. req[s].attempt \in AttemptIds /\ Exists(req[s].attempt)
      BY <3>1 DEF TypeInv, HandlersOK, HandlerOK, Located
    <3>3. /\ seen[s].count \in Nat
          /\ seen[s].count <= NumAnswers(attempts[req[s].attempt].answers)
      BY <3>1 DEF CountsStored, Target, TypeInv, TypeOK, Seen
    <3> QED
      BY <1>1, <3>1, <3>2, <3>3
  <2>2. CASE s = r
    <3>1. RereadSubmitted(r) /\ seen'[r].count = NumAnswers(Target(r).answers)
      BY <2>2, ReachScore
    <3>2. UNCHANGED attempts /\ req'[r] = req[r]
      BY <3>1 DEF RereadSubmitted, Finish, Continue
    <3>3. req[r].attempt \in AttemptIds /\ Exists(req[r].attempt)
      BY <3>1 DEF RereadSubmitted, TypeInv, HandlersOK, HandlerOK, Located
    <3> QED
      BY <1>1, <2>2, <3>1, <3>2, <3>3 DEF Target
  <2> QED
    BY <2>1, <2>2
<1> QED
  BY <1>2, <1>3

\* A stored score never exceeds what the stored answers are worth, although it
\* is computed from an earlier read, for any clients and any failures.
THEOREM ScoreBounded == Spec => []ScoreWithinAnswers
<1> DEFINE Inv == TypeInv /\ ScoreWithinAnswers /\ CountsStored
<1>1. Init => Inv
  BY InitTypeInv DEF Init, ScoreWithinAnswers, CountsStored, Exists
<1>2. Inv /\ [Next]_vars => Inv'
  <2> SUFFICES ASSUME Inv, [Next]_vars PROVE Inv'
    OBVIOUS
  <2>1. CASE UNCHANGED vars
    BY <2>1, NextTypeInv
    DEF vars, ScoreWithinAnswers, CountsStored, Exists, Target
  <2> QED
    BY <2>1, NextTypeInv, StepScores DEF Next, Quiescent
<1>3. Inv => ScoreWithinAnswers
  OBVIOUS
<1> QED
  BY <1>1, <1>2, <1>3, PTL DEF Spec

-----------------------------------------------------------------------------
(* A request is sent once and answered once.                               *)

\* A request that has not arrived is blank, and one that is being served has
\* no response.
UnansweredOK ==
    \A r \in Reqs : /\ pc[r] = "idle" => req[r] = NoRequest
                    /\ pc[r] # "done" => resp[r].kind = "none"

\* Only the arrival of r changes the request, and only its end the response.
LEMMA StepLocal ==
    ASSUME TypeInv, NEW r \in Reqs, Arrive(r) \/ Step(r) \/ Fail(r)
    PROVE  /\ pc[r] # "done" /\ pc'[r] # "idle"
           /\ pc[r] # "idle" => req' = req
           /\ pc'[r] # "done" => resp' = resp
<1> USE DEF TypeInv, TypeOK, Goto
<1>a. ASSUME NEW response, Finish(r, response)
      PROVE  pc'[r] = "done" /\ req' = req
  BY <1>a DEF Finish
<1>b. ASSUME NEW label, NEW keep, Continue(r, label, keep)
      PROVE  pc'[r] = label /\ req' = req /\ resp' = resp
  BY <1>b DEF Continue
<1>c. ASSUME NEW request, NEW label \in {"find", "access"},
             Begin(r, request, label)
      PROVE  pc[r] = "idle" /\ pc'[r] # "idle" /\ resp' = resp
  BY <1>c DEF Begin
<1>1. CASE Arrive(r)
  <2>1. pc[r] = "idle" /\ pc'[r] # "idle" /\ resp' = resp
    BY <1>1, <1>c DEF Arrive, StartAttempt, SaveAnswerForActor,
       SaveAttemptDraft, SubmitAttemptForActor, SyncAttemptForActor
  <2> QED
    BY <2>1
<1>2. CASE Fail(r)
  BY <1>2, <1>a, <1>b DEF Fail, Abort, FindActiveFails, CreateFails
<1>3. CASE \/ RefuseStart(r) \/ FindActiveAttempt(r) \/ CreateAttempt(r)
           \/ FindActiveAgain(r)
  BY <1>3, <1>a, <1>b
  DEF RefuseStart, FindActiveAttempt, CreateAttempt, FindActiveAgain
<1>4. CASE AccessAttempt(r) \/ ReadAttempt(r)
  BY <1>4, <1>a, <1>b DEF AccessAttempt, ReadAttempt, CheckRead
<1>5. CASE SaveAttemptAnswer(r) \/ SubmitAttempt(r) \/ SyncUpdate(r)
  BY <1>5, <1>a, <1>b DEF SaveAttemptAnswer, SubmitAttempt, SyncUpdate
<1>6. CASE \/ RereadAttempt(r) \/ RereadSubmitted(r) \/ UpdateAttemptScore(r)
           \/ FinishSubmit(r)
  BY <1>6, <1>a, <1>b
  DEF RereadAttempt, RereadSubmitted, UpdateAttemptScore, FinishSubmit
<1> QED
  BY <1>1, <1>2, <1>3, <1>4, <1>5, <1>6 DEF Step

LEMMA InitUnanswered == Init => UnansweredOK
  BY DEF Init, UnansweredOK, Reply

LEMMA StepUnanswered ==
    ASSUME TypeInv, UnansweredOK, NEW r \in Reqs, Arrive(r) \/ Step(r) \/ Fail(r)
    PROVE  UnansweredOK'
<1> SUFFICES ASSUME NEW s \in Reqs
             PROVE  /\ pc'[s] = "idle" => req'[s] = NoRequest
                    /\ pc'[s] # "done" => resp'[s].kind = "none"
  BY DEF UnansweredOK
<1>1. CASE s = r
  BY <1>1, StepLocal DEF UnansweredOK
<1>2. CASE s # r
  BY <1>2, OthersUnchanged DEF UnansweredOK
<1> QED
  BY <1>1, <1>2

LEMMA NextUnanswered ==
    ASSUME TypeInv, UnansweredOK, [Next]_vars
    PROVE  UnansweredOK'
<1>1. CASE UNCHANGED vars
  BY <1>1 DEF vars, UnansweredOK
<1> QED
  BY <1>1, StepUnanswered DEF Next, Quiescent

-----------------------------------------------------------------------------
(* A started attempt is the caller's.                                      *)

\* The attempt is stored and of the slot a start request asks for.
OwnAttempt(r, a) ==
    /\ a \in AttemptIds
    /\ Exists(a)
    /\ attempts[a].student = req[r].actor
    /\ attempts[a].assignment = req[r].assignment
    /\ attempts[a].quiz = req[r].quiz

\* A start response names such an attempt, or is the blank one of a failed read.
StartsOK ==
    \A r \in Reqs : resp[r].kind = "started" =>
        \/ OwnAttempt(r, resp[r].attempt)
        \/ DBFaults /\ resp[r].attempt = Blank

\* How a request comes to be answered with a started attempt.
LEMMA ReachStarted ==
    ASSUME TypeInv, UnansweredOK, NEW r \in Reqs,
           Arrive(r) \/ Step(r) \/ Fail(r), resp'[r].kind = "started",
           ~ (DBFaults /\ resp'[r].attempt = Blank)
    PROVE  \E a \in AttemptIds :
               /\ resp'[r].attempt = a
               /\ req' = req
               /\ \/ a \in Active(r) /\ UNCHANGED attempts
                  \/ pc[r] = "create" /\ Insert(r, a)
<1> USE DEF TypeInv, TypeOK, Goto
<1>0. ASSUME NEW k, NEW a, Finish(r, Reply(k, a))
      PROVE  k = "started" /\ resp'[r].attempt = a /\ req' = req
  BY <1>0 DEF Finish, Reply
<1>1. ~ Finish(r, Result(r)) /\ ~ Finish(r, [Result(r) EXCEPT !.audited = TRUE])
  BY DEF Finish, Result, Reply
<1>2. ASSUME NEW label, NEW keep, Continue(r, label, keep), pc[r] # "done"
      PROVE  FALSE
  BY <1>2 DEF Continue, UnansweredOK
<1>3. ~ Fail(r)
  BY <1>0, <1>2 DEF Fail, Abort, FindActiveFails, CreateFails
<1>4. ~ Arrive(r)
  <2>1. ASSUME NEW request, NEW label, Begin(r, request, label)
        PROVE  FALSE
    BY <2>1 DEF Begin, UnansweredOK
  <2> QED
    BY <2>1 DEF Arrive, StartAttempt, SaveAnswerForActor, SaveAttemptDraft,
                SubmitAttemptForActor, SyncAttemptForActor
<1>5. /\ ~ RefuseStart(r) /\ ~ AccessAttempt(r) /\ ~ ReadAttempt(r)
      /\ ~ SaveAttemptAnswer(r) /\ ~ SubmitAttempt(r) /\ ~ SyncUpdate(r)
      /\ ~ UpdateAttemptScore(r) /\ ~ FinishSubmit(r)
  BY <1>0, <1>1, <1>2
  DEF RefuseStart, AccessAttempt, ReadAttempt, CheckRead, SaveAttemptAnswer,
      SubmitAttempt, SyncUpdate, UpdateAttemptScore, FinishSubmit
<1>6. ~ RereadAttempt(r) /\ ~ RereadSubmitted(r)
  BY <1>0, <1>1, <1>2 DEF RereadAttempt, RereadSubmitted
<1>7. CASE FindActiveAttempt(r) \/ FindActiveAgain(r)
  <2>1. PICK a \in Active(r) : Finish(r, Reply("started", a))
    BY <1>0, <1>2, <1>7 DEF FindActiveAttempt, FindActiveAgain
  <2>2. a \in AttemptIds /\ UNCHANGED attempts
    BY <1>7 DEF Active, ActiveAttempts, FindActiveAttempt, FindActiveAgain
  <2> QED
    BY <1>0, <2>1, <2>2
<1>8. CASE CreateAttempt(r)
  <2>1. PICK a \in AttemptIds : Insert(r, a) /\ Finish(r, Reply("started", a))
    BY <1>2, <1>8 DEF CreateAttempt
  <2> QED
    BY <1>0, <1>8, <2>1 DEF CreateAttempt
<1> QED
  BY <1>3, <1>4, <1>5, <1>6, <1>7, <1>8 DEF Step

LEMMA StepStarted ==
    ASSUME TypeInv, UnansweredOK, StartsOK, NEW r \in Reqs,
           Arrive(r) \/ Step(r) \/ Fail(r)
    PROVE  StartsOK'
<1>0. Write(r)
  BY StepWrites
<1> SUFFICES ASSUME NEW s \in Reqs, resp'[s].kind = "started",
                    ~ (DBFaults /\ resp'[s].attempt = Blank)
             PROVE  OwnAttempt(s, resp[s].attempt)'
  BY DEF StartsOK
<1>1. CASE s # r
  <2>1. resp'[s] = resp[s] /\ req'[s] = req[s]
    BY <1>1, OthersUnchanged
  <2>2. OwnAttempt(s, resp[s].attempt)
    BY <2>1 DEF StartsOK
  <2> QED
    BY <1>0, <2>1, <2>2, WriteKeeps DEF OwnAttempt, Exists
<1>2. CASE s = r
  <2>1. PICK a \in AttemptIds : /\ resp'[r].attempt = a
                                /\ req' = req
                                /\ \/ a \in Active(r) /\ UNCHANGED attempts
                                   \/ pc[r] = "create" /\ Insert(r, a)
    BY <1>2, ReachStarted
  <2>2. CASE a \in Active(r) /\ UNCHANGED attempts
    BY <1>2, <2>1, <2>2 DEF Active, ActiveAttempts, OwnAttempt, Exists
  <2>3. CASE pc[r] = "create" /\ Insert(r, a)
    <3>1. attempts'[a] = NewAttempt(r) /\ NewAttempt(r) \in Attempt
      BY <2>3, InsertType DEF TypeInv, TypeOK
    <3>2. /\ attempts'[a] # None
          /\ attempts'[a].student = req[r].actor
          /\ attempts'[a].assignment = req[r].assignment
          /\ attempts'[a].quiz = req[r].quiz
      BY <3>1, NoneAssumption DEF NewAttempt
    <3> QED
      BY <1>2, <2>1, <3>2 DEF OwnAttempt, Exists
  <2> QED
    BY <2>1, <2>2, <2>3
<1> QED
  BY <1>1, <1>2

\* Whatever fails, a start response names a stored attempt of the caller for
\* the assignment and quiz asked for, or is the blank attempt that StartAttempt
\* makes of a failed FindActiveAttempt: also when the insert of CreateAttempt
\* lost a race to another request, or reported an error after storing.
THEOREM StartedOwn == Spec => []StartedIsOwn
<1> DEFINE Inv == TypeInv /\ UnansweredOK /\ StartsOK
<1>1. Init => Inv
  BY InitTypeInv, InitUnanswered DEF Init, StartsOK, Reply
<1>2. Inv /\ [Next]_vars => Inv'
  <2> SUFFICES ASSUME Inv, [Next]_vars PROVE Inv'
    OBVIOUS
  <2>1. CASE UNCHANGED vars
    BY <2>1, NextTypeInv, NextUnanswered DEF vars, StartsOK, OwnAttempt, Exists
  <2> QED
    BY <2>1, NextTypeInv, NextUnanswered, StepStarted DEF Next, Quiescent
<1>3. Inv => StartedIsOwn
  BY DEF StartsOK, StartedIsOwn, OwnAttempt
<1> QED
  BY <1>1, <1>2, <1>3, PTL DEF Spec

=============================================================================

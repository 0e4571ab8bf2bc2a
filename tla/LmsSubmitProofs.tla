-------------------------- MODULE LmsSubmitProofs ---------------------------
(***************************************************************************)
(* Proofs about submission in LmsAttempt when no sync request carries a    *)
(* status (SyncStatuses = {}): every submit response for an attempt carries *)
(* the same result, a grade is missing only when a submit failed, the audit *)
(* event is published at most once.  Failures are allowed throughout.      *)
(***************************************************************************)
EXTENDS LmsAttemptProofs

NoClientStatus == SyncStatuses = {}

\* No write opens a submitted attempt or changes its answers.
LEMMA WriteFinal ==
    ASSUME NoClientStatus, TypeInv, NEW r \in Reqs, Write(r),
           NEW a \in AttemptIds, Exists(a), ~ Unsubmitted(a)
    PROVE  /\ Exists(a)' /\ ~ Unsubmitted(a)'
           /\ attempts'[a].answers = attempts[a].answers
<1>1. ~ Unsubmitted(a)'
  <2>1. ASSUME pc[r] \in Located, NEW att \in Attempt, Replace(r, att),
               att.status \in {"submitted", Target(r).status}
        PROVE  ~ Unsubmitted(a)'
    <3>1. req[r].attempt \in AttemptIds
      BY <2>1, TargetType
    <3> QED
      BY <2>1, <3>1 DEF Replace, Target, Unsubmitted, TypeInv, TypeOK
  <2>2. CASE UNCHANGED attempts
    BY <2>2 DEF Unsubmitted
  <2>3. CASE pc[r] = "create" /\ \E b \in AttemptIds : Insert(r, b)
    BY <2>3 DEF Insert, Exists, Unsubmitted, TypeInv, TypeOK
  <2>4. CASE AnswerWrite(r) \/ SubmitWrite(r)
    <3>1. pc[r] \in Located /\ req[r].answers \in AnswerMap
      BY <2>4 DEF AnswerWrite, SubmitWrite, Located, TypeInv, TypeOK, Request
    <3>2. req[r].attempt # a /\ req[r].attempt \in AttemptIds
      BY <2>4, <3>1, TargetType DEF AnswerWrite, SubmitWrite, Target, Unsubmitted
    <3> QED
      BY <2>4, <3>2
      DEF AnswerWrite, SubmitWrite, Replace, Unsubmitted, TypeInv, TypeOK
  <2>5. CASE ScoreWrite(r)
    <3>1. pc[r] \in Located /\ Grade(seen[r].count) \in Nat
      BY <2>5, GradeMonotone DEF ScoreWrite, TypeInv, TypeOK, Seen, Located
    <3>2. /\ [Target(r) EXCEPT !.score = Grade(seen[r].count)] \in Attempt
          /\ [Target(r) EXCEPT !.score = Grade(seen[r].count)].status
                = Target(r).status
      BY <3>1, TargetType, DocumentType DEF Attempt
    <3> QED
      BY <2>1, <2>5, <3>1, <3>2 DEF ScoreWrite
  <2>6. ~ StatusWrite(r)
    BY DEF NoClientStatus, StatusWrite
  <2> QED
    BY <2>2, <2>3, <2>4, <2>5, <2>6 DEF Write
<1> QED
  BY <1>1, WriteKeeps

-----------------------------------------------------------------------------
(* Retry-safe submission.                                                  *)

\* How a request gets past its submit write.
LEMMA ReachPastSubmit ==
    ASSUME TypeInv, NEW r \in Reqs, Arrive(r) \/ Step(r) \/ Fail(r),
           PastSubmit(r)'
    PROVE  /\ req'[r] = req[r]
           /\ \/ SubmitAttempt(r)
              \/ RereadSubmitted(r)
              \/ UpdateAttemptScore(r)
<1> USE DEF TypeInv, TypeOK, Goto, PastSubmit
<1>1. CASE Arrive(r)
  BY <1>1 DEF Arrive, StartAttempt, SaveAnswerForActor, SaveAttemptDraft,
              SubmitAttemptForActor, SyncAttemptForActor, Begin
<1>2. CASE Fail(r)
  BY <1>2 DEF Fail, Abort, FindActiveFails, CreateFails, Finish, Continue
<1>3. CASE Step(r)
  BY <1>3 DEF Step, RefuseStart, FindActiveAttempt, CreateAttempt,
     FindActiveAgain, AccessAttempt, ReadAttempt, CheckRead,
     SaveAttemptAnswer, SubmitAttempt, SyncUpdate, RereadAttempt,
     RereadSubmitted, UpdateAttemptScore, FinishSubmit, Finish, Continue
<1> QED
  BY <1>1, <1>2, <1>3

\* A result response carries what attemptSubmitResult makes of an attempt that
\* is submitted, or that the request has just graded.
LEMMA ReachResult ==
    ASSUME TypeInv, NEW r \in Reqs, Arrive(r) \/ Step(r) \/ Fail(r),
           resp'[r].kind = "result"
    PROVE  \/ resp'[r] = resp[r]
           \/ /\ UNCHANGED attempts
              /\ req[r].attempt \in AttemptIds /\ Exists(req[r].attempt)
              /\ resp'[r].attempt = req[r].attempt
              /\ resp'[r].score = attemptSubmitResult(Target(r))
              /\ Target(r).status = "submitted" \/ pc[r] = "rescored"
<1> USE DEF TypeInv, TypeOK, Goto
<1>0. ASSUME NEW k, NEW a
      PROVE  Reply(k, a).kind = k
  BY DEF Reply
<1>1. CASE Arrive(r)
  BY <1>1 DEF Arrive, StartAttempt, SaveAnswerForActor, SaveAttemptDraft,
              SubmitAttemptForActor, SyncAttemptForActor, Begin
<1>2. CASE Fail(r)
  BY <1>0, <1>2
  DEF Fail, Abort, FindActiveFails, CreateFails, Finish, Continue
<1>a. ASSUME NEW label, NEW keep, Continue(r, label, keep)
      PROVE  resp'[r] = resp[r]
  BY <1>a DEF Continue
<1>b. ASSUME NEW k, k # "result", NEW a
      PROVE  ~ Finish(r, Reply(k, a))
  BY <1>0, <1>b DEF Finish
<1>3. CASE \/ RefuseStart(r) \/ FindActiveAttempt(r) \/ CreateAttempt(r)
           \/ FindActiveAgain(r)
  BY <1>a, <1>b, <1>3
  DEF RefuseStart, FindActiveAttempt, CreateAttempt, FindActiveAgain
<1>9. CASE SaveAttemptAnswer(r) \/ SubmitAttempt(r) \/ UpdateAttemptScore(r)
  BY <1>a, <1>9 DEF SaveAttemptAnswer, SubmitAttempt, UpdateAttemptScore
<1>10. CASE SyncUpdate(r)
  BY <1>a, <1>b, <1>10 DEF SyncUpdate
<1>11. CASE RereadAttempt(r)
  BY <1>b, <1>11 DEF RereadAttempt
<1>4. /\ Result(r).kind = "result" /\ Result(r).attempt = req[r].attempt
      /\ Result(r).score = attemptSubmitResult(Target(r))
      /\ [Result(r) EXCEPT !.audited = TRUE].attempt = req[r].attempt
      /\ [Result(r) EXCEPT !.audited = TRUE].score = attemptSubmitResult(Target(r))
  BY DEF Result, Reply
<1>5. CASE AccessAttempt(r)
  <2>1. req[r].attempt \in AttemptIds
    BY <1>5 DEF AccessAttempt, HandlersOK, HandlerOK
  <2> QED
    BY <1>0, <1>4, <1>5, <2>1 DEF AccessAttempt, CheckRead, Finish, Continue
<1>6. CASE ReadAttempt(r)
  <2>1. req[r].attempt \in AttemptIds /\ Exists(req[r].attempt)
    BY <1>6 DEF ReadAttempt, HandlersOK, HandlerOK, Located
  <2> QED
    BY <1>0, <1>4, <1>6, <2>1 DEF ReadAttempt, CheckRead, Finish, Continue
<1>7. CASE RereadSubmitted(r)
  <2>1. req[r].attempt \in AttemptIds /\ Exists(req[r].attempt)
    BY <1>7 DEF RereadSubmitted, HandlersOK, HandlerOK, Located
  <2> QED
    BY <1>4, <1>7, <2>1 DEF RereadSubmitted, Finish, Continue
<1>8. CASE FinishSubmit(r)
  <2>1. req[r].attempt \in AttemptIds /\ Exists(req[r].attempt)
    BY <1>8 DEF FinishSubmit, HandlersOK, HandlerOK, Located
  <2> QED
    BY <1>4, <1>8, <2>1 DEF FinishSubmit, Finish
<1> QED
  BY <1>1, <1>2, <1>3, <1>5, <1>6, <1>7, <1>8, <1>9, <1>10, <1>11 DEF Step

\* For a submitted attempt the response is its grade, stored or not.
LEMMA ResultIsGrade ==
    ASSUME TypeInv, ScoreFinal, NEW a \in AttemptIds, Exists(a), ~ Unsubmitted(a)
    PROVE  attemptSubmitResult(attempts[a]) = Grade(NumAnswers(attempts[a].answers))
<1>1. attempts[a].score \in Nat /\ attempts[a].answers \in AnswerMap
  BY DEF TypeInv, TypeOK, Exists, Attempt
<1>2. Answered(attempts[a].answers) = {} => NumAnswers(attempts[a].answers) = 0
  BY FS_EmptySet DEF NumAnswers
<1>3. Grade(0) = 0
  <2>1. MaxScore \in Nat /\ MaxScore # 0
    BY ConstantsAssumption
  <2> QED
    BY <2>1 DEF Grade
<1>4. \/ attempts[a].score = 0
      \/ attempts[a].score = Grade(NumAnswers(attempts[a].answers))
  BY DEF ScoreFinal
<1>5. CASE attempts[a].score > 0
  BY <1>1, <1>4, <1>5 DEF attemptSubmitResult
<1>6. CASE ~ (attempts[a].score > 0) /\ Answered(attempts[a].answers) = {}
  <2>1. attempts[a].score = 0
    BY <1>1, <1>6
  <2> QED
    BY <1>2, <1>3, <1>6, <2>1 DEF attemptSubmitResult
<1>7. CASE ~ (attempts[a].score > 0) /\ Answered(attempts[a].answers) # {}
  BY <1>7 DEF attemptSubmitResult
<1> QED
  BY <1>5, <1>6, <1>7

\* Steps keep the stored scores absent or final.
LEMMA StepScoreFinal ==
    ASSUME NoClientStatus, TypeInv, GradesOK, NEW r \in Reqs,
           Arrive(r) \/ Step(r) \/ Fail(r)
    PROVE  ScoreFinal'
<1>0. Write(r)
  BY StepWrites
<1> SUFFICES ASSUME NEW a \in AttemptIds, Exists(a)'
             PROVE  \/ attempts'[a].score = 0
                    \/ /\ ~ Unsubmitted(a)'
                       /\ attempts'[a].score = Grade(NumAnswers(attempts'[a].answers))
  BY DEF ScoreFinal, Exists, Unsubmitted
<1>1. CASE Exists(a) /\ attempts'[a].score = attempts[a].score
  <2>1. CASE attempts[a].score = 0
    BY <1>1, <2>1
  <2>2. CASE /\ ~ Unsubmitted(a)
             /\ attempts[a].score = Grade(NumAnswers(attempts[a].answers))
    BY <1>0, <1>1, <2>2, WriteFinal
  <2> QED
    BY <1>1, <2>1, <2>2 DEF GradesOK, ScoreFinal
<1>2. CASE /\ Exists(a) /\ pc[r] = "score" /\ a = req[r].attempt
           /\ attempts'[a].score = Grade(seen[r].count)
           /\ attempts'[a].answers = attempts[a].answers
  <2>1. /\ ~ Unsubmitted(a)
        /\ seen[r].count = NumAnswers(attempts[a].answers)
    BY <1>2 DEF GradesOK, GraderOK, PastSubmit, Target, TypeInv, HandlersOK,
                HandlerOK
  <2> QED
    BY <1>0, <1>2, <2>1, WriteFinal
<1>3. CASE ~ Exists(a) /\ attempts'[a] = NewAttempt(r)
  BY <1>3 DEF NewAttempt
<1> QED
  BY <1>0, <1>1, <1>2, <1>3, WriteScores

\* Steps keep the assumptions of the requests that are grading.
LEMMA StepGraderOK ==
    ASSUME NoClientStatus, TypeInv, GradesOK, NEW r \in Reqs,
           Arrive(r) \/ Step(r) \/ Fail(r), NEW s \in Reqs
    PROVE  GraderOK(s)'
<1>0. Write(r)
  BY StepWrites
<1>1. CASE s # r
  <2>1. /\ pc'[s] = pc[s] /\ req'[s] = req[s] /\ seen'[s] = seen[s]
    BY <1>1, OthersUnchanged
  <2>2. ASSUME PastSubmit(s)
        PROVE  /\ req[s].attempt \in AttemptIds /\ Exists(req[s].attempt)
               /\ ~ Unsubmitted(req[s].attempt)
    BY <2>2 DEF PastSubmit, GradesOK, GraderOK, TypeInv, HandlersOK, HandlerOK,
                Located
  <2>3. PastSubmit(s)' => /\ PastSubmit(s)
                          /\ attempts'[req[s].attempt].status = "submitted"
                          /\ attempts'[req[s].attempt].answers
                                = attempts[req[s].attempt].answers
    BY <1>0, <2>1, <2>2, WriteFinal DEF PastSubmit, Unsubmitted
  <2>4. pc[s] = "score" => PastSubmit(s)'
    BY <2>1 DEF PastSubmit, TypeInv, HandlersOK, HandlerOK
  <2> QED
    BY <2>1, <2>3, <2>4 DEF GradesOK, GraderOK, Unsubmitted, Target
<1>2. CASE s = r
  <2>1. ASSUME PastSubmit(r)'
        PROVE  attempts'[req[r].attempt].status = "submitted" /\ req'[r] = req[r]
    <3>1. req'[r] = req[r]
      BY <2>1, ReachPastSubmit
    <3>2. CASE SubmitAttempt(r)
      <4>1. req[r].attempt \in AttemptIds /\ Target(r) \in Attempt
        BY <3>2, TargetType DEF SubmitAttempt, Located
      <4> QED
        BY <3>1, <3>2, <4>1
        DEF SubmitAttempt, Matches, Unsubmitted, TypeInv, TypeOK, Target, Attempt
    <3>3. CASE RereadSubmitted(r) \/ UpdateAttemptScore(r)
      <4>1. PastSubmit(r)
        BY <3>3 DEF RereadSubmitted, UpdateAttemptScore, PastSubmit, TypeInv,
                    HandlersOK, HandlerOK
      <4>2. /\ req[r].attempt \in AttemptIds /\ Exists(req[r].attempt)
            /\ ~ Unsubmitted(req[r].attempt)
        BY <4>1 DEF PastSubmit, GradesOK, GraderOK, TypeInv, HandlersOK,
                    HandlerOK, Located
      <4> QED
        BY <1>0, <3>1, <4>2, WriteFinal DEF Unsubmitted
    <3> QED
      BY <2>1, <3>2, <3>3, ReachPastSubmit
  <2>2. ASSUME pc'[r] = "score"
        PROVE  seen'[r].count = NumAnswers(Target(r).answers)'
    <3>1. RereadSubmitted(r) /\ seen'[r].count = NumAnswers(Target(r).answers)
      BY <2>2, ReachScore
    <3> QED
      BY <3>1 DEF RereadSubmitted, Finish, Continue, Target
  <2> QED
    BY <1>2, <2>1, <2>2 DEF GraderOK, Unsubmitted
<1> QED
  BY <1>1, <1>2

\* Steps send only the grade, and what was sent stays true.
LEMMA StepResultOK ==
    ASSUME NoClientStatus, TypeInv, GradesOK, NEW r \in Reqs,
           Arrive(r) \/ Step(r) \/ Fail(r), NEW s \in Reqs
    PROVE  ResultOK(s)'
<1>0. Write(r)
  BY StepWrites
<1> SUFFICES ASSUME resp'[s].kind = "result"
             PROVE  LET a == resp'[s].attempt
                    IN  /\ a \in AttemptIds
                        /\ attempts'[a] # None
                        /\ attempts'[a].status = "submitted"
                        /\ resp'[s].score = Grade(NumAnswers(attempts'[a].answers))
  BY DEF ResultOK, Exists, Unsubmitted
<1>1. CASE resp'[s] = resp[s]
  <2>1. ResultOK(s)
    BY DEF GradesOK
  <2> QED
    BY <1>0, <1>1, <2>1, WriteFinal DEF ResultOK, Exists, Unsubmitted
<1>2. CASE resp'[s] # resp[s]
  <2>1. s = r
    BY <1>2, OthersUnchanged
  <2>2. /\ UNCHANGED attempts
        /\ req[r].attempt \in AttemptIds /\ Exists(req[r].attempt)
        /\ resp'[r].attempt = req[r].attempt
        /\ resp'[r].score = attemptSubmitResult(Target(r))
        /\ Target(r).status = "submitted" \/ pc[r] = "rescored"
    BY <1>2, <2>1, ReachResult
  <2>3. ~ Unsubmitted(req[r].attempt)
    BY <2>2 DEF GradesOK, GraderOK, PastSubmit, Unsubmitted, Target, TypeInv,
                HandlersOK, HandlerOK
  <2>4. resp'[r].score = Grade(NumAnswers(attempts[req[r].attempt].answers))
    BY <2>2, <2>3, ResultIsGrade DEF Target, GradesOK
  <2> QED
    BY <2>1, <2>2, <2>3, <2>4 DEF Exists, Unsubmitted
<1> QED
  BY <1>1, <1>2

LEMMA InitGradesOK == Init => GradesOK
  BY DEF Init, GradesOK, ScoreFinal, GraderOK, PastSubmit, ResultOK, Exists, Reply

LEMMA NextGradesOK ==
    ASSUME NoClientStatus, TypeInv, GradesOK, [Next]_vars
    PROVE  GradesOK'
<1>1. CASE UNCHANGED vars
  BY <1>1 DEF vars, GradesOK, ScoreFinal, GraderOK, PastSubmit, ResultOK,
              Exists, Unsubmitted, Target
<1> QED
  BY <1>1, StepScoreFinal, StepGraderOK, StepResultOK DEF Next, Quiescent, GradesOK

\* Submission is retry-safe when no sync carries a status: whatever requests
\* interleave and fail, every submit response for an attempt carries the grade
\* of its final answers, so all of them agree.
THEOREM RetrySafe == ASSUME NoClientStatus PROVE Spec => []SubmitRetrySafe
<1>1. GradesOK => SubmitRetrySafe
  BY DEF GradesOK, ResultOK, SubmitRetrySafe
<1>2. TypeInv /\ GradesOK /\ [Next]_vars => GradesOK'
  BY NextGradesOK
<1> QED
  BY <1>1, <1>2, InitTypeInv, NextTypeInv, InitGradesOK, PTL DEF Spec

-----------------------------------------------------------------------------
(* The audit event.                                                        *)

\* A request becomes the grader of its attempt only by the submit write that
\* matched, and sends an audited response only as the grader.
LEMMA ReachGrading ==
    ASSUME TypeInv, GradesOK, OneGrader, NEW r \in Reqs,
           Arrive(r) \/ Step(r) \/ Fail(r), Grading(r)'
    PROVE  /\ req'[r] = req[r]
           /\ \/ Grading(r)
              \/ SubmitAttempt(r) /\ Unsubmitted(req[r].attempt)
           /\ resp'[r].audited => resp'[r].attempt = req[r].attempt
                                  /\ pc'[r] = "done"
<1> USE DEF TypeInv, TypeOK, Goto, Grading, OneGrader
<1>0. /\ Result(r).audited = FALSE
      /\ Unseen.did = FALSE
      /\ \A k, a : Reply(k, a).audited = FALSE
      /\ [Result(r) EXCEPT !.audited = TRUE].attempt = req[r].attempt
  BY DEF Result, Reply, Unseen
<1>a. ASSUME NEW k, NEW a
      PROVE  ~ Finish(r, Reply(k, a))
  BY <1>0, <1>a DEF Finish
<1>b. ~ Finish(r, Result(r))
  BY <1>0 DEF Finish
<1>c. ASSUME NEW label \in {"create", "findAgain", "read", "write"},
             NEW keep, Continue(r, label, keep), pc[r] # "done"
      PROVE  FALSE
  BY <1>c DEF Continue
<1>1. CASE Arrive(r)
  BY <1>1 DEF Arrive, StartAttempt, SaveAnswerForActor, SaveAttemptDraft,
              SubmitAttemptForActor, SyncAttemptForActor, Begin
<1>2. CASE Fail(r)
  BY <1>a, <1>c, <1>2 DEF Fail, Abort, FindActiveFails, CreateFails
<1>3. CASE \/ RefuseStart(r) \/ FindActiveAttempt(r) \/ CreateAttempt(r)
           \/ FindActiveAgain(r)
  BY <1>a, <1>c, <1>3
  DEF RefuseStart, FindActiveAttempt, CreateAttempt, FindActiveAgain
<1>4. CASE AccessAttempt(r) \/ ReadAttempt(r)
  BY <1>a, <1>b, <1>c, <1>4 DEF AccessAttempt, ReadAttempt, CheckRead
<1>5. CASE SaveAttemptAnswer(r)
  BY <1>5 DEF SaveAttemptAnswer, Continue
<1>6. CASE SyncUpdate(r)
  BY <1>a, <1>6 DEF SyncUpdate, Continue
<1>7. CASE RereadAttempt(r)
  BY <1>a, <1>7 DEF RereadAttempt
<1>8. CASE SubmitAttempt(r)
  <2>1. /\ pc'[r] = "reread" /\ req'[r] = req[r] /\ resp'[r] = resp[r]
        /\ seen'[r].did = Unsubmitted(req[r].attempt)
    BY <1>8 DEF SubmitAttempt, Matches, Continue, Unseen
  <2> QED
    BY <1>8, <2>1 DEF SubmitAttempt
<1>9. CASE RereadSubmitted(r)
  <2>1. Target(r).status = "submitted"
    BY <1>9 DEF RereadSubmitted, GradesOK, GraderOK, PastSubmit, Unsubmitted, Target
  <2>2. seen[r].did /\ req'[r] = req[r] /\ resp'[r] = resp[r]
    BY <1>b, <1>9, <2>1 DEF RereadSubmitted, Continue
  <2> QED
    BY <1>9, <2>2 DEF RereadSubmitted
<1>10. CASE UpdateAttemptScore(r)
  BY <1>10 DEF UpdateAttemptScore, Continue
<1>11. CASE FinishSubmit(r)
  BY <1>0, <1>11 DEF FinishSubmit, Finish
<1> QED
  BY <1>1, <1>2, <1>3, <1>4, <1>5, <1>6, <1>7, <1>8, <1>9, <1>10, <1>11 DEF Step

LEMMA StepOneGrader ==
    ASSUME NoClientStatus, TypeInv, GradesOK, OneGrader, NEW r \in Reqs,
           Arrive(r) \/ Step(r) \/ Fail(r)
    PROVE  OneGrader'
<1>0. Write(r) /\ TypeInv' /\ GradesOK'
  BY StepWrites, ArriveTypeInv, StepTypeInv, FailTypeInv, StepScoreFinal,
     StepGraderOK, StepResultOK DEF GradesOK
<1>1. ASSUME NEW s \in Reqs, s # r
      PROVE  /\ Grading(s)' <=> Grading(s)
             /\ req'[s] = req[s] /\ resp'[s] = resp[s] /\ pc'[s] = pc[s]
  BY <1>1, OthersUnchanged DEF Grading
<1>2. ASSUME Grading(r)'
      PROVE  /\ req'[r] = req[r]
             /\ Grading(r) \/ (SubmitAttempt(r) /\ Unsubmitted(req[r].attempt))
             /\ resp'[r].audited => resp'[r].attempt = req[r].attempt
                                    /\ pc'[r] = "done"
  BY <1>2, ReachGrading
\* Others that grade hold a submitted attempt, so r did not submit theirs.
<1>3. ASSUME NEW s \in Reqs, s # r, Grading(r)', Grading(s)',
             req'[r].attempt = req'[s].attempt
      PROVE  FALSE
  BY <1>1, <1>2, <1>3 DEF OneGrader
<1>4. ASSUME NEW s \in Reqs, Grading(s)
      PROVE  /\ req[s].attempt \in AttemptIds
             /\ attempts'[req[s].attempt] # None
             /\ attempts'[req[s].attempt].status = "submitted"
  BY <1>0, <1>4, WriteFinal DEF OneGrader, Exists, Unsubmitted
<1>5. ASSUME SubmitAttempt(r)
      PROVE  /\ req[r].attempt \in AttemptIds
             /\ attempts'[req[r].attempt] # None
             /\ attempts'[req[r].attempt].status = "submitted"
  <2>1. PastSubmit(r)' /\ req'[r] = req[r]
    BY <1>5 DEF SubmitAttempt, Continue, Goto, PastSubmit, TypeInv, TypeOK
  <2> QED
    BY <1>0, <2>1 DEF GradesOK, GraderOK, PastSubmit, TypeInv, HandlersOK,
                      HandlerOK, Located, Exists, Unsubmitted
<1>6. ASSUME NEW s \in Reqs, Grading(s)'
      PROVE  /\ req'[s].attempt \in AttemptIds
             /\ attempts'[req'[s].attempt] # None
             /\ attempts'[req'[s].attempt].status = "submitted"
  BY <1>1, <1>2, <1>4, <1>5, <1>6
<1>7. ASSUME NEW s \in Reqs, resp'[s].audited
      PROVE  resp'[s].attempt = req'[s].attempt /\ pc'[s] = "done"
  <2>1. Grading(s)'
    BY <1>7 DEF Grading
  <2> QED
    BY <1>1, <1>2, <1>7, <2>1 DEF OneGrader
<1>8. ASSUME NEW q \in Reqs, NEW s \in Reqs, Grading(q)', Grading(s)',
             req'[q].attempt = req'[s].attempt
      PROVE  q = s
  BY <1>1, <1>3, <1>8 DEF OneGrader
<1> QED
  BY <1>6, <1>7, <1>8 DEF OneGrader, Exists, Unsubmitted

\* The quiz-submitted audit event is published at most once per attempt when no
\* sync carries a status, whatever submits are retried or race.
THEOREM AuditUnique == ASSUME NoClientStatus PROVE Spec => []AuditedOnce
<1>1. Init => OneGrader
  <2> SUFFICES ASSUME Init PROVE OneGrader
    OBVIOUS
  <2>1. \A r \in Reqs : pc[r] = "idle" /\ resp[r].audited = FALSE
    BY DEF Init, Reply
  <2>2. \A r \in Reqs : ~ Grading(r) /\ ~ resp[r].audited
    BY <2>1 DEF Grading
  <2> QED
    BY <2>2 DEF OneGrader
<1>2. TypeInv /\ GradesOK /\ [Next]_vars => GradesOK'
  BY NextGradesOK
<1>3. TypeInv /\ GradesOK /\ OneGrader /\ [Next]_vars => OneGrader'
  <2> SUFFICES ASSUME TypeInv, GradesOK, OneGrader, [Next]_vars
               PROVE  OneGrader'
    OBVIOUS
  <2>1. CASE UNCHANGED vars
    BY <2>1 DEF vars, OneGrader, Grading, Exists, Unsubmitted
  <2> QED
    BY <2>1, StepOneGrader DEF Next, Quiescent
<1>4. OneGrader => AuditedOnce
  BY DEF OneGrader, Grading, AuditedOnce
<1> QED
  BY <1>1, <1>2, <1>3, <1>4, InitTypeInv, NextTypeInv, InitGradesOK, PTL DEF Spec

-----------------------------------------------------------------------------
(* A grade is missing only after a failure.                                *)

\* Submit r stores the grade of attempt a next, or has failed.
Excuse(r, a) ==
    /\ req[r].op = "submit" /\ req[r].attempt = a
    /\ \/ pc[r] = "reread" /\ seen[r].did
       \/ pc[r] = "score"
       \/ resp[r].kind = "error"

\* An excuse stands until the grade is written.
LEMMA ExcuseKept ==
    ASSUME TypeInv, UnansweredOK, NEW r \in Reqs,
           Arrive(r) \/ Step(r) \/ Fail(r),
           NEW s \in Reqs, NEW a \in AttemptIds, Excuse(s, a)
    PROVE  \/ Excuse(s, a)'
           \/ /\ s = r /\ pc[r] = "score"
              /\ attempts'[a].score = Grade(seen[r].count)
<1>1. CASE s # r
  BY <1>1, OthersUnchanged DEF Excuse
<1>2. CASE s = r
  <2>1. /\ pc[r] # "done" /\ req' = req
        /\ (pc[r] = "reread" /\ seen[r].did) \/ pc[r] = "score"
    BY <1>2, StepLocal DEF Excuse, UnansweredOK
  <2>2. req[r].op = "submit" /\ req[r].attempt = a
    BY <1>2 DEF Excuse
  <2>3. \/ RereadSubmitted(r) \/ UpdateAttemptScore(r) \/ Abort(r)
    BY <2>1, <2>2 DEF Arrive, StartAttempt, SaveAnswerForActor, SaveAttemptDraft,
       SubmitAttemptForActor, SyncAttemptForActor, Begin, Fail, FindActiveFails,
       CreateFails, Step, RefuseStart, FindActiveAttempt, CreateAttempt,
       FindActiveAgain, AccessAttempt, ReadAttempt, SaveAttemptAnswer,
       SubmitAttempt, SyncUpdate, RereadAttempt, FinishSubmit
  <2>4. CASE RereadSubmitted(r)
    <3>1. pc'[r] = "score"
      BY <2>1, <2>4 DEF RereadSubmitted, Continue, Goto, TypeInv, TypeOK
    <3> QED
      BY <1>2, <2>1, <2>2, <3>1 DEF Excuse
  <2>5. CASE UpdateAttemptScore(r)
    <3>1. attempts[a] \in Attempt
      BY <2>2, <2>5, TargetType DEF UpdateAttemptScore, Located, Target
    <3> QED
      BY <1>2, <2>2, <2>5, <3>1 DEF UpdateAttemptScore, Attempt, TypeInv, TypeOK
  <2>6. CASE Abort(r)
    <3>1. resp'[r].kind = "error"
      BY <2>6 DEF Abort, Finish, Reply, TypeInv, TypeOK
    <3> QED
      BY <1>2, <2>1, <2>2, <3>1 DEF Excuse
  <2> QED
    BY <2>3, <2>4, <2>5, <2>6
<1> QED
  BY <1>1, <1>2

\* Only the write of a submit that matches closes an open attempt.
LEMMA ClosedBySubmit ==
    ASSUME NoClientStatus, TypeInv, NEW r \in Reqs,
           Arrive(r) \/ Step(r) \/ Fail(r),
           NEW a \in AttemptIds, Exists(a), Unsubmitted(a), ~ Unsubmitted(a)'
    PROVE  Excuse(r, a)'
<1>1. SubmitWrite(r) /\ req[r].attempt = a
  <2>1. ASSUME pc[r] \in Located, NEW att \in Attempt, Replace(r, att),
               att.status = Target(r).status
        PROVE  FALSE
    <3>1. req[r].attempt \in AttemptIds
      BY <2>1, TargetType
    <3> QED
      BY <2>1, <3>1 DEF Replace, Target, Unsubmitted, TypeInv, TypeOK
  <2>2. attempts' # attempts
    BY DEF Unsubmitted
  <2>3. ASSUME pc[r] = "create", NEW b \in AttemptIds, Insert(r, b)
        PROVE  FALSE
    BY <2>3 DEF Insert, Exists, Unsubmitted, TypeInv, TypeOK
  <2>4. ~ AnswerWrite(r)
    <3> SUFFICES ASSUME AnswerWrite(r) PROVE FALSE
      OBVIOUS
    <3>1. pc[r] \in Located /\ Target(r) \in Attempt
      BY TargetType DEF AnswerWrite, Located
    <3>2. Merged(r) \in AnswerMap
      BY <3>1, DocumentType, SetAnswersGrows
      DEF Merged, TypeInv, TypeOK, Request
    <3>3. /\ [Target(r) EXCEPT !.answers = Merged(r)] \in Attempt
          /\ [Target(r) EXCEPT !.answers = Merged(r)].status = Target(r).status
      BY <3>1, <3>2, DocumentType DEF Attempt
    <3> QED
      BY <2>1, <3>1, <3>3 DEF AnswerWrite
  <2>5. ~ ScoreWrite(r)
    <3> SUFFICES ASSUME ScoreWrite(r) PROVE FALSE
      OBVIOUS
    <3>1. pc[r] \in Located /\ Target(r) \in Attempt /\ Grade(seen[r].count) \in Nat
      BY TargetType, GradeMonotone
      DEF ScoreWrite, Located, TypeInv, TypeOK, Seen
    <3>2. /\ [Target(r) EXCEPT !.score = Grade(seen[r].count)] \in Attempt
          /\ [Target(r) EXCEPT !.score = Grade(seen[r].count)].status
                = Target(r).status
      BY <3>1, DocumentType DEF Attempt
    <3> QED
      BY <2>1, <3>1, <3>2 DEF ScoreWrite
  <2>6. ~ StatusWrite(r)
    BY DEF NoClientStatus, StatusWrite
  <2>7. SubmitWrite(r)
    BY <2>2, <2>3, <2>4, <2>5, <2>6, StepWrites DEF Write
  <2> QED
    BY <2>7, TargetType
    DEF SubmitWrite, Located, Replace, Unsubmitted, TypeInv, TypeOK
<1>2. SubmitAttempt(r)
  <2>1. pc[r] = "write" /\ req[r].op = "submit" /\ attempts' # attempts
    BY <1>1 DEF SubmitWrite, Unsubmitted
  <2> QED
    BY <2>1 DEF Arrive, StartAttempt, SaveAnswerForActor, SaveAttemptDraft,
       SubmitAttemptForActor, SyncAttemptForActor, Begin, Fail, Abort,
       FindActiveFails, CreateFails, Step, RefuseStart, FindActiveAttempt,
       CreateAttempt, FindActiveAgain, AccessAttempt, ReadAttempt,
       SaveAttemptAnswer, SyncUpdate, RereadAttempt, RereadSubmitted,
       UpdateAttemptScore, FinishSubmit
<1>3. pc'[r] = "reread" /\ req' = req /\ seen'[r].did
  BY <1>1, <1>2
  DEF SubmitAttempt, Matches, Continue, Goto, Unseen, TypeInv, TypeOK
<1> QED
  BY <1>1, <1>2, <1>3 DEF Excuse, SubmitAttempt

LEMMA StepUngraded ==
    ASSUME NoClientStatus, TypeInv, UnansweredOK, GradesOK,
           UngradedOnlyByFailure, NEW r \in Reqs, Arrive(r) \/ Step(r) \/ Fail(r)
    PROVE  UngradedOnlyByFailure'
<1>0. Write(r)
  BY StepWrites
<1> SUFFICES ASSUME NEW a \in AttemptIds, Exists(a)', ~ Unsubmitted(a)',
                    attempts'[a].score # Grade(NumAnswers(attempts'[a].answers))
             PROVE  \E s \in Reqs : Excuse(s, a)'
  BY DEF UngradedOnlyByFailure, Excuse, Exists, Unsubmitted
<1>1. CASE ~ Exists(a)
  <2>1. attempts'[a] = NewAttempt(r)
    BY <1>0, <1>1, WriteScores
  <2> QED
    BY <2>1 DEF NewAttempt, Unsubmitted
<1>2. CASE Exists(a) /\ Unsubmitted(a)
  BY <1>2, ClosedBySubmit
<1>3. CASE Exists(a) /\ ~ Unsubmitted(a)
  <2>1. attempts'[a].answers = attempts[a].answers
    BY <1>0, <1>3, WriteFinal
  <2>2. ASSUME pc[r] = "score", a = req[r].attempt,
               attempts'[a].score = Grade(seen[r].count)
        PROVE  FALSE
    BY <2>1, <2>2 DEF GradesOK, GraderOK, Target
  <2>3. attempts'[a].score = attempts[a].score
    BY <1>0, <1>3, <2>2, WriteScores
  <2>4. PICK s \in Reqs : Excuse(s, a)
    BY <1>3, <2>1, <2>3 DEF UngradedOnlyByFailure, Excuse
  <2>5. CASE Excuse(s, a)'
    BY <2>5
  <2>6. CASE s = r /\ pc[r] = "score" /\ attempts'[a].score = Grade(seen[r].count)
    BY <2>2, <2>4, <2>6 DEF Excuse
  <2> QED
    BY <2>4, <2>5, <2>6, ExcuseKept
<1> QED
  BY <1>1, <1>2, <1>3

\* When no sync carries a status, a submitted attempt whose stored score is not
\* the grade of its answers has a submit that is about to store it or that
\* failed, whatever submits race, are retried or die: without a failure, the
\* score list and the progress reports are not left without a grade.
THEOREM UngradedFailed == ASSUME NoClientStatus PROVE Spec => []UngradedOnlyByFailure
<1> DEFINE Inv == TypeInv /\ UnansweredOK /\ GradesOK /\ UngradedOnlyByFailure
<1>1. Init => Inv
  BY InitTypeInv, InitUnanswered, InitGradesOK
  DEF Init, UngradedOnlyByFailure, Exists
<1>2. Inv /\ [Next]_vars => Inv'
  <2> SUFFICES ASSUME Inv, [Next]_vars PROVE Inv'
    OBVIOUS
  <2>1. UngradedOnlyByFailure'
    <3>1. CASE UNCHANGED vars
      BY <3>1 DEF vars, UngradedOnlyByFailure, Exists, Unsubmitted
    <3> QED
      BY <3>1, StepUngraded DEF Next, Quiescent
  <2> QED
    BY <2>1, NextTypeInv, NextUnanswered, NextGradesOK
<1>3. Inv => UngradedOnlyByFailure
  OBVIOUS
<1> QED
  BY <1>1, <1>2, <1>3, PTL DEF Spec

-----------------------------------------------------------------------------
(* Saved answers are stored.                                               *)

\* The attempt holds an answer to q that r or another request of this attempt
\* sent.
Kept(r, q) ==
    LET stored == attempts[req[r].attempt].answers[q]
    IN  /\ stored # NoAnswer
        /\ \/ stored = req[r].answers[q]
           \/ \E s \in Reqs \ {r} : /\ req[s].attempt = req[r].attempt
                                   /\ req[s].answers[q] = stored

\* A save or draft that has written and finds its attempt open did match.
Saving(r) == /\ pc[r] = "reread"
             /\ req[r].op \in {"save", "draft"}
             /\ Unsubmitted(req[r].attempt)

SavedOK(r) ==
    Saving(r) \/ resp[r].kind = "saved" =>
        /\ req[r].attempt \in AttemptIds
        /\ Exists(req[r].attempt)
        /\ \A q \in Answered(req[r].answers) : Kept(r, q)

SavesOK == \A r \in Reqs : SavedOK(r)

\* What a write does to one answer of a document.
LEMMA WriteAnswers ==
    ASSUME TypeInv, NEW r \in Reqs, Write(r),
           NEW a \in AttemptIds, Exists(a), NEW q \in Questions
    PROVE  \/ attempts'[a].answers[q] = attempts[a].answers[q]
           \/ /\ a = req[r].attempt
              /\ attempts'[a].answers[q] = req[r].answers[q]
              /\ req[r].answers[q] # NoAnswer
<1>1. CASE UNCHANGED attempts
  BY <1>1
<1>2. CASE pc[r] = "create" /\ \E b \in AttemptIds : Insert(r, b)
  BY <1>2 DEF Insert, Exists, TypeInv, TypeOK
<1>3. ASSUME pc[r] \in Located, NEW att, Replace(r, att),
             att.answers \in {Target(r).answers, Merged(r)}
      PROVE  \/ attempts'[a].answers[q] = attempts[a].answers[q]
             \/ /\ a = req[r].attempt
                /\ attempts'[a].answers[q] = req[r].answers[q]
                /\ req[r].answers[q] # NoAnswer
  <2>1. req[r].attempt \in AttemptIds
    BY <1>3, TargetType
  <2>2. CASE a # req[r].attempt
    BY <1>3, <2>1, <2>2 DEF Replace, TypeInv, TypeOK
  <2>3. CASE a = req[r].attempt
    <3>1. attempts'[a] = att /\ attempts[a] = Target(r)
      BY <1>3, <2>1, <2>3 DEF Replace, Target, TypeInv, TypeOK
    <3>2. Merged(r)[q] = IF req[r].answers[q] # NoAnswer
                         THEN req[r].answers[q] ELSE Target(r).answers[q]
      BY DEF Merged, SetAnswers
    <3> QED
      BY <1>3, <2>3, <3>1, <3>2
  <2> QED
    BY <2>2, <2>3
<1>4. ASSUME pc[r] \in Located
      PROVE  /\ \A m : [Target(r) EXCEPT !.answers = m].answers = m
             /\ \A m : [Target(r) EXCEPT !.status = "submitted",
                                         !.answers = m].answers = m
             /\ \A m : [Target(r) EXCEPT !.status = m].answers = Target(r).answers
             /\ \A m : [Target(r) EXCEPT !.score = m].answers = Target(r).answers
  BY <1>4, TargetType DEF Attempt
<1>5. CASE AnswerWrite(r)
  <2>1. PICK att : att = [Target(r) EXCEPT !.answers = Merged(r)]
    OBVIOUS
  <2>2. pc[r] \in Located /\ Replace(r, att)
    BY <1>5, <2>1 DEF AnswerWrite, Located
  <2>3. att.answers \in {Target(r).answers, Merged(r)}
    BY <1>4, <2>1, <2>2
  <2> QED
    BY <1>3, <2>2, <2>3
<1>6. CASE SubmitWrite(r)
  <2>1. PICK att : att = [Target(r) EXCEPT !.status = "submitted",
                                           !.answers = Merged(r)]
    OBVIOUS
  <2>2. pc[r] \in Located /\ Replace(r, att)
    BY <1>6, <2>1 DEF SubmitWrite, Located
  <2>3. att.answers \in {Target(r).answers, Merged(r)}
    BY <1>4, <2>1, <2>2
  <2> QED
    BY <1>3, <2>2, <2>3
<1>7. CASE StatusWrite(r)
  <2>1. PICK att : att = [Target(r) EXCEPT !.status = req[r].status]
    OBVIOUS
  <2>2. pc[r] \in Located /\ Replace(r, att)
    BY <1>7, <2>1 DEF StatusWrite, Located
  <2>3. att.answers \in {Target(r).answers, Merged(r)}
    BY <1>4, <2>1, <2>2
  <2> QED
    BY <1>3, <2>2, <2>3
<1>8. CASE ScoreWrite(r)
  <2>1. PICK att : att = [Target(r) EXCEPT !.score = Grade(seen[r].count)]
    OBVIOUS
  <2>2. pc[r] \in Located /\ Replace(r, att)
    BY <1>8, <2>1 DEF ScoreWrite, Located
  <2>3. att.answers \in {Target(r).answers, Merged(r)}
    BY <1>4, <2>1, <2>2
  <2> QED
    BY <1>3, <2>2, <2>3
<1> QED
  BY <1>1, <1>2, <1>5, <1>6, <1>7, <1>8 DEF Write

\* An answer that is kept stays kept: only an answer of another request of the
\* same attempt takes its place.
LEMMA StepKept ==
    ASSUME TypeInv, UnansweredOK, NEW r \in Reqs, Arrive(r) \/ Step(r) \/ Fail(r),
           NEW s \in Reqs, req'[s] = req[s],
           req[s].attempt \in AttemptIds, Exists(req[s].attempt),
           NEW q \in Questions, Kept(s, q)
    PROVE  Kept(s, q)'
<1>0. Write(r)
  BY StepWrites
\* A request that names the attempt has arrived, so it does not change.
<1>1. ASSUME NEW t \in Reqs, req[t].attempt = req[s].attempt
      PROVE  req'[t] = req[t]
  <2>1. NoRequest.attempt \notin AttemptIds
    BY ConstantsAssumption DEF NoRequest
  <2>2. pc[t] # "idle"
    BY <1>1, <2>1 DEF UnansweredOK
  <2> QED
    BY <2>2, StepLocal, OthersUnchanged
<1>2. CASE attempts'[req[s].attempt].answers[q] = attempts[req[s].attempt].answers[q]
  BY <1>1, <1>2 DEF Kept
<1>3. CASE /\ req[s].attempt = req[r].attempt
           /\ attempts'[req[s].attempt].answers[q] = req[r].answers[q]
           /\ req[r].answers[q] # NoAnswer
  BY <1>1, <1>3 DEF Kept
<1> QED
  BY <1>0, <1>2, <1>3, WriteAnswers

\* How a request comes to be answered with saved.
LEMMA ReachSaved ==
    ASSUME TypeInv, UnansweredOK, NEW r \in Reqs,
           Arrive(r) \/ Step(r) \/ Fail(r), resp'[r].kind = "saved"
    PROVE  /\ UNCHANGED <<attempts, req>>
           /\ resp'[r].attempt = req[r].attempt
           /\ Saving(r)
<1> USE DEF TypeInv, TypeOK, Goto
<1>0. ASSUME NEW k, NEW a, Finish(r, Reply(k, a))
      PROVE  k = "saved" /\ resp'[r].attempt = a /\ req' = req
  BY <1>0 DEF Finish, Reply
<1>1. ~ Finish(r, Result(r)) /\ ~ Finish(r, [Result(r) EXCEPT !.audited = TRUE])
  BY DEF Finish, Result, Reply
<1>2. ASSUME NEW label, NEW keep, Continue(r, label, keep), pc[r] # "done"
      PROVE  FALSE
  BY <1>2 DEF Continue, UnansweredOK
<1>3. ~ Fail(r)
  BY <1>0, <1>2 DEF Fail, Abort, FindActiveFails, CreateFails
<1>4. ~ Arrive(r)
  <2>1. ASSUME NEW request, NEW label, Begin(r, request, label)
        PROVE  FALSE
    BY <2>1 DEF Begin, UnansweredOK
  <2> QED
    BY <2>1 DEF Arrive, StartAttempt, SaveAnswerForActor, SaveAttemptDraft,
                SubmitAttemptForActor, SyncAttemptForActor
<1>5. /\ ~ RefuseStart(r) /\ ~ FindActiveAttempt(r) /\ ~ CreateAttempt(r)
      /\ ~ FindActiveAgain(r)
  BY <1>0, <1>2
  DEF RefuseStart, FindActiveAttempt, CreateAttempt, FindActiveAgain
<1>6. /\ ~ AccessAttempt(r) /\ ~ ReadAttempt(r)
      /\ ~ SaveAttemptAnswer(r) /\ ~ SubmitAttempt(r) /\ ~ SyncUpdate(r)
      /\ ~ UpdateAttemptScore(r) /\ ~ FinishSubmit(r) /\ ~ RereadSubmitted(r)
  BY <1>0, <1>1, <1>2
  DEF AccessAttempt, ReadAttempt, CheckRead, SaveAttemptAnswer, SubmitAttempt,
      SyncUpdate, UpdateAttemptScore, FinishSubmit, RereadSubmitted
<1>7. RereadAttempt(r)
  BY <1>3, <1>4, <1>5, <1>6 DEF Step
<1> QED
  BY <1>0, <1>7 DEF RereadAttempt, Saving, Unsubmitted, Target

\* How a request comes to have written its answers into an open attempt.
LEMMA ReachSaving ==
    ASSUME NoClientStatus, TypeInv, NEW r \in Reqs,
           Arrive(r) \/ Step(r) \/ Fail(r), Saving(r)'
    PROVE  /\ req'[r] = req[r]
           /\ req[r].attempt \in AttemptIds /\ Exists(req[r].attempt)
           /\ attempts'[req[r].attempt].answers = Merged(r)
<1> USE DEF TypeInv, TypeOK, Goto
<1>1. SaveAttemptAnswer(r) /\ req'[r] = req[r]
  <2>a. ASSUME NEW response
        PROVE  ~ Finish(r, response)
    BY DEF Finish, Saving
  <2>b. ASSUME NEW label, NEW keep, Continue(r, label, keep)
        PROVE  label = "reread" /\ req' = req
    BY <2>b DEF Continue, Saving
  <2>c. ASSUME NEW request, NEW label, Begin(r, request, label)
        PROVE  label = "reread"
    BY <2>c DEF Begin, Saving
  <2>1. ~ Arrive(r)
    BY <2>c DEF Arrive, StartAttempt, SaveAnswerForActor, SaveAttemptDraft,
                SubmitAttemptForActor, SyncAttemptForActor
  <2>2. ~ Fail(r)
    BY <2>a, <2>b DEF Fail, Abort, FindActiveFails, CreateFails
  <2>3. /\ ~ RefuseStart(r) /\ ~ FindActiveAttempt(r) /\ ~ CreateAttempt(r)
        /\ ~ FindActiveAgain(r)
    BY <2>a, <2>b
    DEF RefuseStart, FindActiveAttempt, CreateAttempt, FindActiveAgain
  <2>4. ~ AccessAttempt(r) /\ ~ ReadAttempt(r)
    BY <2>a, <2>b DEF AccessAttempt, ReadAttempt, CheckRead
  <2>5. ASSUME req' = req
        PROVE  req[r].op \in {"save", "draft"}
    BY <2>5 DEF Saving
  <2>6. ~ SubmitAttempt(r) /\ ~ SyncUpdate(r)
    BY <2>a, <2>b, <2>5 DEF SubmitAttempt, SyncUpdate
  <2>7. ~ RereadAttempt(r) /\ ~ RereadSubmitted(r) /\ ~ UpdateAttemptScore(r)
        /\ ~ FinishSubmit(r)
    BY <2>a, <2>b
    DEF RereadAttempt, RereadSubmitted, UpdateAttemptScore, FinishSubmit
  <2>8. SaveAttemptAnswer(r)
    BY <2>1, <2>2, <2>3, <2>4, <2>6, <2>7 DEF Step
  <2> QED
    BY <2>8 DEF SaveAttemptAnswer, Continue
<1>2. req[r].attempt \in AttemptIds /\ Target(r) \in Attempt /\ pc[r] \in Located
  BY <1>1, TargetType DEF SaveAttemptAnswer, Located
<1>3. attempts'[req[r].attempt].status # "submitted"
  BY <1>1 DEF Saving, Unsubmitted
<1>4. Matches(req[r].attempt)
  BY <1>1, <1>3 DEF SaveAttemptAnswer, Matches, Unsubmitted
<1>5. attempts' = [attempts EXCEPT ![req[r].attempt].answers =
                       SetAnswers(@, req[r].answers)]
  BY <1>1, <1>4 DEF SaveAttemptAnswer
<1>6. attempts'[req[r].attempt].answers = Merged(r)
  BY <1>2, <1>5 DEF Merged, Target, Attempt
<1> QED
  BY <1>1, <1>2, <1>6, NoneAssumption DEF Target, Exists

LEMMA StepSavesOK ==
    ASSUME NoClientStatus, TypeInv, UnansweredOK, SavesOK, NEW r \in Reqs,
           Arrive(r) \/ Step(r) \/ Fail(r)
    PROVE  SavesOK'
<1>0. Write(r)
  BY StepWrites
<1> SUFFICES ASSUME NEW s \in Reqs, Saving(s)' \/ resp'[s].kind = "saved"
             PROVE  /\ req'[s].attempt \in AttemptIds
                    /\ attempts'[req'[s].attempt] # None
                    /\ \A q \in Answered(req'[s].answers) : Kept(s, q)'
  BY DEF SavesOK, SavedOK, Exists
<1>1. ASSUME req'[s] = req[s], Saving(s) \/ resp[s].kind = "saved"
      PROVE  /\ req'[s].attempt \in AttemptIds
             /\ attempts'[req'[s].attempt] # None
             /\ \A q \in Answered(req'[s].answers) : Kept(s, q)'
  <2>1. /\ req[s].attempt \in AttemptIds /\ Exists(req[s].attempt)
        /\ \A q \in Answered(req[s].answers) : Kept(s, q)
    BY <1>1 DEF SavesOK, SavedOK
  <2>2. attempts'[req[s].attempt] # None
    BY <1>0, <2>1, WriteKeeps DEF Exists
  <2>3. ASSUME NEW q \in Answered(req[s].answers)
        PROVE  Kept(s, q)'
    <3>1. q \in Questions
      BY DEF Answered
    <3> QED
      BY <1>1, <2>1, <3>1, StepKept
  <2> QED
    BY <1>1, <2>1, <2>2, <2>3
<1>2. CASE s # r
  <2>1. /\ pc'[s] = pc[s] /\ req'[s] = req[s] /\ resp'[s] = resp[s]
    BY <1>2, OthersUnchanged
  <2>2. ASSUME Saving(s)'
        PROVE  Saving(s)
    <3>1. /\ pc[s] = "reread" /\ req[s].op \in {"save", "draft"}
          /\ attempts'[req[s].attempt].status # "submitted"
      BY <2>1, <2>2 DEF Saving, Unsubmitted
    <3>2. req[s].attempt \in AttemptIds /\ Exists(req[s].attempt)
      BY <3>1 DEF TypeInv, HandlersOK, HandlerOK, Located
    <3> QED
      BY <1>0, <3>1, <3>2, WriteFinal DEF Saving, Unsubmitted
  <2> QED
    BY <1>1, <2>1, <2>2
<1>3. CASE s = r /\ resp'[s].kind = "saved"
  BY <1>1, <1>3, ReachSaved
<1>4. CASE s = r /\ Saving(s)'
  <2>1. /\ req'[r] = req[r]
        /\ req[r].attempt \in AttemptIds /\ Exists(req[r].attempt)
        /\ attempts'[req[r].attempt].answers = Merged(r)
    BY <1>4, ReachSaving
  <2>2. attempts'[req[r].attempt] # None
    BY <1>0, <2>1, WriteKeeps DEF Exists
  <2>3. ASSUME NEW q \in Answered(req[r].answers)
        PROVE  Kept(r, q)'
    <3>1. q \in Questions /\ req[r].answers[q] # NoAnswer
      BY DEF Answered
    <3>2. Merged(r)[q] = req[r].answers[q]
      BY <3>1 DEF Merged, SetAnswers
    <3> QED
      BY <2>1, <3>1, <3>2 DEF Kept
  <2> QED
    BY <1>4, <2>1, <2>2, <2>3
<1> QED
  BY <1>2, <1>3, <1>4

LEMMA InitSavesOK == Init => SavesOK
  BY DEF Init, SavesOK, SavedOK, Saving, Reply

LEMMA NextSavesOK ==
    ASSUME NoClientStatus, TypeInv, UnansweredOK, SavesOK, [Next]_vars
    PROVE  SavesOK'
<1>1. CASE UNCHANGED vars
  BY <1>1 DEF vars, SavesOK, SavedOK, Saving, Kept, Exists, Unsubmitted
<1> QED
  BY <1>1, StepSavesOK DEF Next, Quiescent

\* When no sync carries a status, an answer a client was told is saved is in
\* the attempt for ever after, replaced at most by what another request sent
\* for the same question, whatever requests interleave and fail: the status
\* that SaveAnswer reads after its write tells whether the write matched.
THEOREM SavedStored == ASSUME NoClientStatus PROVE Spec => []SavedAnswersStored
<1> DEFINE Inv == TypeInv /\ UnansweredOK /\ SavesOK
<1>1. Init => Inv
  BY InitTypeInv, InitUnanswered, InitSavesOK
<1>2. Inv /\ [Next]_vars => Inv'
  BY NextTypeInv, NextUnanswered, NextSavesOK
<1>3. Inv => SavedAnswersStored
  BY DEF SavesOK, SavedOK, Kept, SavedAnswersStored
<1> QED
  BY <1>1, <1>2, <1>3, PTL DEF Spec

-----------------------------------------------------------------------------
(* The runtime implements ExamAttempt.                                     *)

\* What a client was told, for each kind of response.
LEMMA ToldCases ==
    ASSUME NEW r \in Reqs
    PROVE  /\ resp[r].kind = "result" =>
                 ToldOf(r) = <<"score", resp[r].attempt, resp[r].score>>
           /\ resp[r].kind = "saved" =>
                 ToldOf(r) = <<"saved", resp[r].attempt, Answered(req[r].answers)>>
           /\ resp[r].kind \notin {"result", "saved"} => ToldOf(r) = <<>>
<1>1. CASE resp[r].kind = "result"
  <2>1. resp[r].kind # "saved"
    BY <1>1
  <2> QED
    BY <1>1, <2>1, Zenon DEF ToldOf
<1>2. CASE resp[r].kind = "saved"
  <2>1. resp[r].kind # "result"
    BY <1>2
  <2> QED
    BY <1>2, <2>1, Zenon DEF ToldOf
<1>3. CASE resp[r].kind # "result" /\ resp[r].kind # "saved"
  BY <1>3, Zenon DEF ToldOf
<1> QED
  BY <1>1, <1>2, <1>3

LEMMA ToldCasesNext ==
    ASSUME NEW r \in Reqs
    PROVE  /\ resp'[r].kind = "result" =>
                 ToldOf(r)' = <<"score", resp'[r].attempt, resp'[r].score>>
           /\ resp'[r].kind = "saved" =>
                 ToldOf(r)' = <<"saved", resp'[r].attempt, Answered(req'[r].answers)>>
           /\ resp'[r].kind \notin {"result", "saved"} => ToldOf(r)' = <<>>
<1>1. CASE resp'[r].kind = "result"
  <2>1. resp'[r].kind # "saved"
    BY <1>1
  <2> QED
    BY <1>1, <2>1, Zenon DEF ToldOf
<1>2. CASE resp'[r].kind = "saved"
  <2>1. resp'[r].kind # "result"
    BY <1>2
  <2> QED
    BY <1>2, <2>1, Zenon DEF ToldOf
<1>3. CASE resp'[r].kind # "result" /\ resp'[r].kind # "saved"
  BY <1>3, Zenon DEF ToldOf
<1> QED
  BY <1>1, <1>2, <1>3

\* A step tells its own client something only when it ends the request, and
\* tells no other client anything.
LEMMA StepTells ==
    ASSUME TypeInv, UnansweredOK, NEW r \in Reqs, Arrive(r) \/ Step(r) \/ Fail(r)
    PROVE  /\ ToldOf(r) = <<>>
           /\ Tells' = [Tells EXCEPT ![r] = ToldOf(r)']
<1>1. ToldOf(r) = <<>>
  BY StepLocal, ToldCases DEF UnansweredOK
<1>2. ASSUME NEW s \in Reqs, s # r
      PROVE  ToldOf(s)' = ToldOf(s)
  <2>1. req'[s] = req[s] /\ resp'[s] = resp[s]
    BY <1>2, OthersUnchanged
  <2> QED
    BY <2>1, ToldCases, ToldCasesNext
<1>3. Tells' = [s \in Reqs |-> ToldOf(s)']
  BY DEF Tells
<1> QED
  BY <1>1, <1>2, <1>3 DEF Tells

\* An attempt, as the record of an exam.
AsExam(att) ==
    [student |-> att.student, assignment |-> att.assignment,
     quiz |-> att.quiz, open |-> att.status # "submitted",
     answers |-> att.answers]

LEMMA AsExamFields ==
    ASSUME NEW att \in Attempt
    PROVE  /\ AsExam(att) \in ExamRecord
           /\ AsExam(att).student = att.student
           /\ AsExam(att).assignment = att.assignment
           /\ AsExam(att).quiz = att.quiz
           /\ AsExam(att).open <=> att.status # "submitted"
           /\ AsExam(att).answers = att.answers
<1>1. PICK o \in BOOLEAN : o = (att.status # "submitted")
  BY Zenon
<1>2. AsExam(att) = [student |-> att.student, assignment |-> att.assignment,
                     quiz |-> att.quiz, open |-> o, answers |-> att.answers]
  BY <1>1, Zenon DEF AsExam
<1>3. AsExam(att).open = o
  BY <1>2
<1>4. AsExam(att).open <=> att.status # "submitted"
  BY <1>1, <1>3, Zenon
<1>5. AsExam(att) \in ExamRecord
  BY <1>2 DEF Attempt, ExamRecord
<1>6. /\ AsExam(att).student = att.student
      /\ AsExam(att).assignment = att.assignment
      /\ AsExam(att).quiz = att.quiz
      /\ AsExam(att).answers = att.answers
  BY <1>2
<1> QED
  BY <1>4, <1>5, <1>6, Zenon

\* Exams with the same fields are the same.
LEMMA ExamEqual ==
    ASSUME NEW x \in ExamRecord, NEW y \in ExamRecord,
           x.student = y.student, x.assignment = y.assignment,
           x.quiz = y.quiz, x.open <=> y.open, x.answers = y.answers
    PROVE  x = y
<1>1. x.open \in BOOLEAN /\ y.open \in BOOLEAN
  BY DEF ExamRecord
<1>2. x.open = y.open
  BY <1>1
<1> QED
  BY <1>2 DEF ExamRecord

\* A stored attempt, seen as an exam.
LEMMA ExamFields ==
    ASSUME TypeInv, NEW a \in AttemptIds, Exists(a)
    PROVE  /\ attempts[a] \in Attempt
           /\ Exams[a] = AsExam(attempts[a])
           /\ Exams[a] # None
           /\ Exams[a] \in ExamRecord
           /\ Exams[a].student = attempts[a].student
           /\ Exams[a].assignment = attempts[a].assignment
           /\ Exams[a].quiz = attempts[a].quiz
           /\ Exams[a].open <=> Unsubmitted(a)
           /\ Exams[a].answers = attempts[a].answers
<1>1. attempts[a] \in Attempt
  BY DEF TypeInv, TypeOK, Exists
<1>2. Exams[a] = AsExam(attempts[a])
  BY Zenon DEF Exams, ExamOf, AsExam, Unsubmitted
<1> QED
  BY <1>1, <1>2, AsExamFields, NoneAssumption DEF Unsubmitted

\* The document a write replaces, seen as an exam.
LEMMA ReplaceExam ==
    ASSUME TypeInv, NEW a \in AttemptIds, NEW att \in Attempt,
           attempts' = [attempts EXCEPT ![a] = att],
           NEW x \in ExamRecord,
           x.student = att.student, x.assignment = att.assignment,
           x.quiz = att.quiz, x.open <=> att.status # "submitted",
           x.answers = att.answers
    PROVE  Exams' = [Exams EXCEPT ![a] = x]
<1>1. attempts'[a] = att /\ att # None
  BY NoneAssumption DEF TypeInv, TypeOK
<1>2. ExamOf(a)' = AsExam(attempts'[a])
  BY <1>1, Zenon DEF ExamOf, AsExam, Exists, Unsubmitted
<1>3. ExamOf(a)' = x
  BY <1>1, <1>2, AsExamFields, ExamEqual
<1>4. ASSUME NEW b \in AttemptIds, b # a
      PROVE  ExamOf(b)' = ExamOf(b)
  <2>1. attempts'[b] = attempts[b]
    BY <1>4 DEF TypeInv, TypeOK
  <2> QED
    BY <2>1 DEF ExamOf, Exists, Unsubmitted
<1>5. Exams' = [b \in AttemptIds |-> ExamOf(b)']
  BY DEF Exams
<1> QED
  BY <1>3, <1>4, <1>5 DEF Exams

LEMMA SameExams == ASSUME UNCHANGED attempts PROVE Exams' = Exams
  BY DEF Exams, ExamOf, Exists, Unsubmitted

\* An exam after an answer.
LEMMA AnsweredExam ==
    ASSUME NEW e \in ExamRecord, NEW m \in AnswerMap, NEW x,
           x = [e EXCEPT !.answers = m]
    PROVE  /\ x \in ExamRecord
           /\ x.student = e.student /\ x.assignment = e.assignment
           /\ x.quiz = e.quiz /\ x.answers = m
           /\ x.open <=> e.open
  BY DEF ExamRecord

\* InsertOne opens the exam of a slot that has none open.
LEMMA InsertOpens ==
    ASSUME NoClientStatus, TypeInv, NEW r \in Reqs, pc[r] = "create",
           NEW a \in AttemptIds, Insert(r, a), UNCHANGED Tells
    PROVE  Exam!Open(a)
<1>1. /\ req[r].actor \in Students /\ req[r].assignment \in Assignments
      /\ req[r].quiz \in Quizzes
  BY DEF TypeInv, HandlersOK, HandlerOK
<1>2. Exams[a] = None
  BY DEF Insert, Exams, ExamOf
<1>3. ASSUME NEW b \in AttemptIds, Exams[b] # None, Exams[b].open,
             Exams[b].student = req[r].actor,
             Exams[b].assignment = req[r].assignment,
             Exams[b].quiz = req[r].quiz
      PROVE  FALSE
  <2>1. Exists(b)
    BY <1>3 DEF Exams, ExamOf
  <2>2. attempts[b] \in Attempt /\ attempts[b].status # "submitted"
    BY <1>3, <2>1, ExamFields DEF Unsubmitted
  <2>3. attempts[b].status = "in_progress"
    BY <2>2 DEF Attempt, Statuses, NoClientStatus
  <2>4. b \in ActiveAttempts(req[r].actor, req[r].assignment, req[r].quiz)
    BY <1>3, <2>1, <2>3, ExamFields DEF ActiveAttempts
  <2> QED
    BY <2>1, <2>4 DEF Insert, IndexAllows
<1>4. PICK x : x = [student |-> req[r].actor, assignment |-> req[r].assignment,
                    quiz |-> req[r].quiz, open |-> TRUE,
                    answers |-> [q \in Questions |-> NoAnswer]]
  OBVIOUS
<1>5. Exams' = [Exams EXCEPT ![a] = x]
  <2>1. /\ NewAttempt(r) \in Attempt
        /\ attempts' = [attempts EXCEPT ![a] = NewAttempt(r)]
    BY InsertType
  <2>2. /\ NewAttempt(r).student = req[r].actor
        /\ NewAttempt(r).assignment = req[r].assignment
        /\ NewAttempt(r).quiz = req[r].quiz
        /\ NewAttempt(r).status # "submitted"
        /\ NewAttempt(r).answers = EmptyMap
    BY DEF NewAttempt
  <2>3. /\ x.student = req[r].actor /\ x.assignment = req[r].assignment
        /\ x.quiz = req[r].quiz /\ x.open /\ x.answers = EmptyMap
    BY <1>4 DEF EmptyMap
  <2>4. x \in ExamRecord
    <3>1. [q \in Questions |-> NoAnswer] \in AnswerMap
      BY EmptyMapType DEF EmptyMap
    <3> QED
      BY <1>1, <1>4, <3>1 DEF ExamRecord
  <2>5. x.open <=> NewAttempt(r).status # "submitted"
    BY <2>2, <2>3
  <2>6. /\ x.student = NewAttempt(r).student
        /\ x.assignment = NewAttempt(r).assignment
        /\ x.quiz = NewAttempt(r).quiz
        /\ x.answers = NewAttempt(r).answers
    BY <2>2, <2>3
  <2> QED
    BY <2>1, <2>4, <2>5, <2>6, ReplaceExam, Zenon
<1> QED
  BY <1>1, <1>2, <1>3, <1>4, <1>5 DEF Exam!Open

\* The open exam of a request that is about to write.
LEMMA OpenTarget ==
    ASSUME TypeInv, NEW r \in Reqs, pc[r] = "write", Target(r).status # "submitted"
    PROVE  /\ req[r].attempt \in AttemptIds
           /\ Target(r) \in Attempt
           /\ Exams[req[r].attempt] \in ExamRecord
           /\ Exams[req[r].attempt] # None
           /\ Exams[req[r].attempt].open
           /\ Exams[req[r].attempt].student = Target(r).student
           /\ Exams[req[r].attempt].assignment = Target(r).assignment
           /\ Exams[req[r].attempt].quiz = Target(r).quiz
           /\ Exams[req[r].attempt].answers = Target(r).answers
           /\ req[r].answers \in Exam!AnswerMap
           /\ Merged(r) \in AnswerMap
           /\ Exam!Merge(Target(r).answers, req[r].answers) = Merged(r)
<1>1. /\ req[r].attempt \in AttemptIds /\ Exists(req[r].attempt)
      /\ req[r].answers \in AnswerMap
      /\ Target(r) = attempts[req[r].attempt]
  BY DEF Located, TypeInv, TypeOK, Request, HandlersOK, HandlerOK, Target
<1>2. Target(r) \in Attempt
  BY TargetType DEF Located
<1>3. Merged(r) \in AnswerMap
  BY <1>1, <1>2, DocumentType, SetAnswersGrows DEF Merged
<1>4. Exam!Merge(Target(r).answers, req[r].answers) = Merged(r)
  BY DEF Exam!Merge, Merged, SetAnswers
<1>5. req[r].answers \in Exam!AnswerMap
  BY <1>1 DEF Exam!AnswerMap, AnswerMap
<1> QED
  BY <1>1, <1>2, <1>3, <1>4, <1>5, ExamFields DEF Unsubmitted

\* SaveAttemptAnswer that matches answers in the open exam.
LEMMA AnswerWriteAnswers ==
    ASSUME TypeInv, NEW r \in Reqs, AnswerWrite(r), UNCHANGED Tells
    PROVE  Exam!Answer(req[r].attempt)
<1>0. pc[r] = "write" /\ Target(r).status # "submitted"
  BY DEF AnswerWrite
<1>1. PICK a \in AttemptIds : a = req[r].attempt
  BY <1>0, OpenTarget
<1>2. PICK att : att = [Target(r) EXCEPT !.answers = Merged(r)]
  OBVIOUS
<1>3. PICK x : x = [Exams[a] EXCEPT !.answers = Merged(r)]
  OBVIOUS
<1>4. /\ att \in Attempt /\ att.answers = Merged(r)
      /\ att.student = Target(r).student
      /\ att.assignment = Target(r).assignment
      /\ att.quiz = Target(r).quiz
      /\ att.status # "submitted"
  <2>1. Target(r) \in Attempt /\ Merged(r) \in AnswerMap
    BY <1>0, OpenTarget
  <2>2. att \in Attempt
    BY <1>2, <2>1, DocumentType
  <2> QED
    BY <1>0, <1>2, <2>1, <2>2 DEF Attempt
<1>5. Exams' = [Exams EXCEPT ![a] = x]
  <2>1. attempts' = [attempts EXCEPT ![a] = att]
    BY <1>1, <1>2 DEF AnswerWrite, Replace
  <2>2. /\ x \in ExamRecord
        /\ x.student = Target(r).student /\ x.assignment = Target(r).assignment
        /\ x.quiz = Target(r).quiz /\ x.answers = Merged(r)
        /\ x.open
    BY <1>0, <1>1, <1>3, OpenTarget, AnsweredExam
  <2>3. x.open <=> att.status # "submitted"
    BY <1>4, <2>2
  <2>4. /\ x.student = att.student /\ x.assignment = att.assignment
        /\ x.quiz = att.quiz /\ x.answers = att.answers
    BY <1>4, <2>2
  <2> QED
    BY <1>4, <2>1, <2>2, <2>3, <2>4, ReplaceExam, Zenon
<1>6. Exams' = [Exams EXCEPT ![a].answers = Exam!Merge(@, req[r].answers)]
  <2>1. Exam!Merge(Exams[a].answers, req[r].answers) = Merged(r)
    BY <1>0, <1>1, OpenTarget
  <2> QED
    BY <1>3, <1>5, <2>1
<1> QED
  BY <1>0, <1>1, <1>6, OpenTarget DEF Exam!Answer

\* SubmitAttempt that matches closes the exam with its last answers.
LEMMA SubmitWriteCloses ==
    ASSUME TypeInv, NEW r \in Reqs, SubmitWrite(r), UNCHANGED Tells
    PROVE  Exam!Close(req[r].attempt)
<1>0. pc[r] = "write" /\ Target(r).status # "submitted"
  BY DEF SubmitWrite
<1>1. PICK a \in AttemptIds : a = req[r].attempt
  BY <1>0, OpenTarget
<1>2. PICK att : att = [Target(r) EXCEPT !.status = "submitted",
                                         !.answers = Merged(r)]
  OBVIOUS
<1>3. PICK x : x = [Exams[a] EXCEPT !.open = FALSE, !.answers = Merged(r)]
  OBVIOUS
<1>4. /\ att \in Attempt /\ att.answers = Merged(r)
      /\ att.student = Target(r).student
      /\ att.assignment = Target(r).assignment
      /\ att.quiz = Target(r).quiz
      /\ att.status = "submitted"
  <2>1. Target(r) \in Attempt /\ Merged(r) \in AnswerMap
    BY <1>0, OpenTarget
  <2>2. att \in Attempt
    BY <1>2, <2>1, DocumentType
  <2> QED
    BY <1>0, <1>2, <2>1, <2>2 DEF Attempt
<1>5. Exams' = [Exams EXCEPT ![a] = x]
  <2>1. attempts' = [attempts EXCEPT ![a] = att]
    BY <1>1, <1>2 DEF SubmitWrite, Replace
  <2>2. /\ x \in ExamRecord
        /\ x.student = Target(r).student /\ x.assignment = Target(r).assignment
        /\ x.quiz = Target(r).quiz /\ x.answers = Merged(r)
        /\ ~ x.open
    <3>1. PICK e \in ExamRecord : e = Exams[a]
      BY <1>0, <1>1, OpenTarget
    <3>2. x = [e EXCEPT !.open = FALSE, !.answers = Merged(r)]
      BY <1>3, <3>1, Zenon
    <3>3. Merged(r) \in AnswerMap
      BY <1>0, OpenTarget
    <3>4. /\ x \in ExamRecord
          /\ x.student = e.student /\ x.assignment = e.assignment
          /\ x.quiz = e.quiz /\ x.answers = Merged(r)
          /\ ~ x.open
      BY <3>2, <3>3 DEF ExamRecord
    <3> QED
      BY <1>0, <1>1, <3>1, <3>4, OpenTarget
  <2>3. x.open <=> att.status # "submitted"
    BY <1>4, <2>2
  <2>4. /\ x.student = att.student /\ x.assignment = att.assignment
        /\ x.quiz = att.quiz /\ x.answers = att.answers
    BY <1>4, <2>2
  <2> QED
    BY <1>4, <2>1, <2>2, <2>3, <2>4, ReplaceExam, Zenon
<1>6. Exams' = [Exams EXCEPT ![a].open = FALSE,
                             ![a].answers = Exam!Merge(@, req[r].answers)]
  <2>1. Exam!Merge(Exams[a].answers, req[r].answers) = Merged(r)
    BY <1>0, <1>1, OpenTarget
  <2>2. [Exams[a] EXCEPT !.open = FALSE].answers = Exams[a].answers
    BY <1>0, <1>1, OpenTarget DEF ExamRecord
  <2> QED
    BY <1>3, <1>5, <2>1, <2>2 DEF Exams
<1> QED
  BY <1>0, <1>1, <1>6, OpenTarget DEF Exam!Close

\* UpdateAttemptScore does not show: a score is promised by the answers.
LEMMA ScoreWriteHidden ==
    ASSUME TypeInv, NEW r \in Reqs, ScoreWrite(r)
    PROVE  Exams' = Exams
<1>1. /\ req[r].attempt \in AttemptIds /\ Target(r) \in Attempt
      /\ Exists(req[r].attempt) /\ Target(r) = attempts[req[r].attempt]
      /\ Grade(seen[r].count) \in Nat
  BY TargetType, GradeMonotone
  DEF ScoreWrite, Located, TypeInv, TypeOK, Seen, HandlersOK, HandlerOK, Target
<1>2. PICK a \in AttemptIds : a = req[r].attempt
  BY <1>1
<1>3. PICK att : att = [Target(r) EXCEPT !.score = Grade(seen[r].count)]
  OBVIOUS
<1>4. /\ att \in Attempt /\ att.answers = attempts[a].answers
      /\ att.student = attempts[a].student
      /\ att.assignment = attempts[a].assignment
      /\ att.quiz = attempts[a].quiz
      /\ att.status = attempts[a].status
  BY <1>1, <1>2, <1>3, DocumentType DEF Attempt
<1>5. attempts' = [attempts EXCEPT ![a] = att]
  BY <1>2, <1>3 DEF ScoreWrite, Replace
<1>6. PICK x : x = Exams[a]
  OBVIOUS
<1>7. Exams' = [Exams EXCEPT ![a] = x]
  <2>1. Exists(a)
    BY <1>1, <1>2
  <2>2. /\ x \in ExamRecord
        /\ x.student = att.student /\ x.assignment = att.assignment
        /\ x.quiz = att.quiz /\ x.answers = att.answers
        /\ x.open <=> att.status # "submitted"
    BY <1>4, <1>6, <2>1, ExamFields DEF Unsubmitted
  <2> QED
    BY <1>4, <1>5, <2>2, ReplaceExam
<1> QED
  BY <1>6, <1>7 DEF Exams

\* The result a request is sent tells the score of a closed exam.
LEMMA ResultTells ==
    ASSUME TypeInv, UnansweredOK, GradesOK, NEW r \in Reqs,
           Arrive(r) \/ Step(r) \/ Fail(r), resp'[r].kind = "result"
    PROVE  /\ UNCHANGED attempts
           /\ req[r].attempt \in AttemptIds
           /\ Exam!TellScore(r, req[r].attempt)
<1>1. resp'[r] # resp[r]
  BY StepLocal DEF UnansweredOK
<1>2. /\ UNCHANGED attempts
      /\ req[r].attempt \in AttemptIds /\ Exists(req[r].attempt)
      /\ resp'[r].attempt = req[r].attempt
      /\ resp'[r].score = attemptSubmitResult(Target(r))
      /\ Target(r).status = "submitted" \/ pc[r] = "rescored"
  BY <1>1, ReachResult
<1>3. ~ Unsubmitted(req[r].attempt)
  BY <1>2 DEF GradesOK, GraderOK, PastSubmit, Unsubmitted, Target, TypeInv,
              HandlersOK, HandlerOK
<1>4. resp'[r].score = Grade(NumAnswers(attempts[req[r].attempt].answers))
  BY <1>2, <1>3, ResultIsGrade DEF Target, GradesOK
<1>5. resp'[r].score = Exam!Grade(Exams[req[r].attempt].answers)
  <2>1. ASSUME NEW m
        PROVE  Exam!Grade(m) = Grade(NumAnswers(m))
    <3>1. Exam!Answered(m) = Answered(m)
      BY DEF Answered, Exam!Answered
    <3>2. Exam!Cardinality(Answered(m)) = Cardinality(Answered(m))
      BY Zenon DEF Cardinality, Exam!Cardinality
    <3> QED
      BY <3>1, <3>2, Zenon DEF Grade, NumAnswers, Exam!Grade
  <2> QED
    BY <1>2, <1>4, <2>1, ExamFields
<1>6. ToldOf(r)' = <<"score", req[r].attempt,
                     Exam!Grade(Exams[req[r].attempt].answers)>>
  BY <1>2, <1>5, ToldCasesNext
<1>7. Tells[r] = <<>> /\ Tells' = [Tells EXCEPT ![r] = ToldOf(r)']
  BY StepTells DEF Tells
<1>8. Exams[req[r].attempt] # None /\ ~ Exams[req[r].attempt].open
  BY <1>2, <1>3, ExamFields
<1>9. Exams' = Exams
  BY <1>2, SameExams
<1> QED
  BY <1>2, <1>6, <1>7, <1>8, <1>9 DEF Exam!TellScore

\* The saved a request is sent tells of answers that are in the open exam.
LEMMA SavedTells ==
    ASSUME TypeInv, UnansweredOK, SavesOK, NEW r \in Reqs,
           Arrive(r) \/ Step(r) \/ Fail(r), resp'[r].kind = "saved"
    PROVE  /\ req[r].attempt \in AttemptIds
           /\ Exam!TellSaved(r, req[r].attempt)
<1>1. /\ UNCHANGED <<attempts, req>>
      /\ resp'[r].attempt = req[r].attempt
      /\ Saving(r)
  BY ReachSaved
<1>2. /\ req[r].attempt \in AttemptIds /\ Exists(req[r].attempt)
      /\ Unsubmitted(req[r].attempt)
      /\ \A q \in Answered(req[r].answers) :
            attempts[req[r].attempt].answers[q] # NoAnswer
  BY <1>1 DEF SavesOK, SavedOK, Saving, Kept
<1>3. /\ Exams[req[r].attempt] # None /\ Exams[req[r].attempt].open
      /\ Exams[req[r].attempt].answers = attempts[req[r].attempt].answers
  BY <1>2, ExamFields
<1>4. Answered(req[r].answers)
          \in SUBSET Exam!Answered(Exams[req[r].attempt].answers)
  BY <1>2, <1>3 DEF Answered, Exam!Answered
<1>5. ToldOf(r)' = <<"saved", req[r].attempt, Answered(req[r].answers)>>
  BY <1>1, ToldCasesNext
<1>6. Tells[r] = <<>> /\ Tells' = [Tells EXCEPT ![r] = ToldOf(r)']
  BY StepTells DEF Tells
<1>7. Exams' = Exams
  BY <1>1, SameExams
<1> QED
  BY <1>2, <1>3, <1>4, <1>5, <1>6, <1>7 DEF Exam!TellSaved

\* Every step of a request is a step of the exam or leaves it alone.
LEMMA StepImplements ==
    ASSUME NoClientStatus, TypeInv, UnansweredOK, GradesOK, SavesOK,
           NEW r \in Reqs, Arrive(r) \/ Step(r) \/ Fail(r)
    PROVE  Exam!Next \/ UNCHANGED <<Exams, Tells>>
<1>1. CASE resp'[r].kind = "result"
  BY <1>1, ResultTells DEF Exam!Next
<1>2. CASE resp'[r].kind = "saved"
  BY <1>2, SavedTells DEF Exam!Next
<1>3. CASE resp'[r].kind \notin {"result", "saved"}
  <2>1. UNCHANGED Tells
    <3>1. ToldOf(r)' = <<>> /\ ToldOf(r) = <<>>
      BY <1>3, ToldCasesNext, StepTells
    <3>2. Tells' = [Tells EXCEPT ![r] = <<>>] /\ Tells[r] = <<>>
      BY <3>1, StepTells DEF Tells
    <3> QED
      BY <3>2 DEF Tells
  <2>2. CASE UNCHANGED attempts
    BY <2>1, <2>2, SameExams
  <2>3. CASE pc[r] = "create" /\ \E a \in AttemptIds : Insert(r, a)
    BY <2>1, <2>3, InsertOpens DEF Exam!Next
  <2>4. CASE AnswerWrite(r)
    BY <2>1, <2>4, AnswerWriteAnswers, OpenTarget DEF Exam!Next, AnswerWrite
  <2>5. CASE SubmitWrite(r)
    BY <2>1, <2>5, SubmitWriteCloses, OpenTarget DEF Exam!Next, SubmitWrite
  <2>6. ~ StatusWrite(r)
    BY DEF NoClientStatus, StatusWrite
  <2>7. CASE ScoreWrite(r)
    BY <2>1, <2>7, ScoreWriteHidden
  <2> QED
    BY <2>2, <2>3, <2>4, <2>5, <2>6, <2>7, StepWrites DEF Write
<1> QED
  BY <1>1, <1>2, <1>3

\* When no sync carries a status the runtime implements ExamAttempt: however
\* requests of any number of students interleave, are retried and fail between
\* two database calls, what students see are the steps of an exam that opens
\* once per slot, takes answers while it is open, closes for good, tells saved
\* only of answers that are in it and one score once it is closed.
THEOREM Implements == ASSUME NoClientStatus PROVE Spec => ImplementsExam
<1> DEFINE Inv == TypeInv /\ UnansweredOK /\ GradesOK /\ SavesOK
<1>1. Init => Exam!Init
  <2> SUFFICES ASSUME Init PROVE Exam!Init
    OBVIOUS
  <2>1. \A a \in AttemptIds : ExamOf(a) = None
    BY DEF Init, ExamOf, Exists
  <2>2. \A r \in Reqs : ToldOf(r) = <<>>
    <3>1. \A r \in Reqs : resp[r].kind = "none"
      BY DEF Init, Reply
    <3> QED
      BY <3>1, ToldCases
  <2> QED
    BY <2>1, <2>2 DEF Exam!Init, Exams, Tells
<1>2. Inv /\ [Next]_vars => [Exam!Next]_(Exam!vars)
  <2> SUFFICES ASSUME Inv, [Next]_vars
               PROVE  Exam!Next \/ UNCHANGED <<Exams, Tells>>
    BY DEF Exam!vars
  <2>1. CASE UNCHANGED vars
    <3>1. Exams' = Exams
      BY <2>1, SameExams DEF vars
    <3>2. \A r \in Reqs : ToldOf(r)' = ToldOf(r)
      BY <2>1, ToldCases, ToldCasesNext DEF vars
    <3> QED
      BY <3>1, <3>2 DEF Tells
  <2> QED
    BY <2>1, StepImplements DEF Next, Quiescent
<1>3. Init => Inv
  BY InitTypeInv, InitUnanswered, InitGradesOK, InitSavesOK
<1>4. Inv /\ [Next]_vars => Inv'
  BY NextTypeInv, NextUnanswered, NextGradesOK, NextSavesOK
<1> QED
  BY <1>1, <1>2, <1>3, <1>4, PTL DEF Spec, ImplementsExam, Exam!Spec

=============================================================================

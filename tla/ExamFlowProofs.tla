--------------------------- MODULE ExamFlowProofs ---------------------------
(***************************************************************************)
(* What the load scenario shows, for any number of virtual users,          *)
(* generators, iterations, questions and connections.  The requests of the *)
(* VUs are requests of LmsAttempt, so the server's side of every step is   *)
(* covered by the lemmas of LmsAttemptProofs; what is added here is that a *)
(* connection is used again (Release) and the VUs' own state.              *)
(***************************************************************************)
EXTENDS ExamFlow, LmsAttemptProofs, SequenceTheorems

-----------------------------------------------------------------------------
(* The configuration.                                                      *)

LEMMA NumbersOK ==
    /\ VUsPerGenerator \in Nat /\ MaxIterations \in Nat
    /\ QuestionsPerAttempt \in Nat
  BY FlowAssumption

LEMMA SliceType ==
    ASSUME NEW ids \in Seq(Questions), NEW n \in Nat
    PROVE  Slice(ids, n) \in Seq(Questions) /\ Len(Slice(ids, n)) <= n
<1> DEFINE m == IF Len(ids) < n THEN Len(ids) ELSE n
<1>1. /\ m \in Nat /\ m <= n /\ m <= Len(ids)
  OBVIOUS
<1>2. \A k \in 1 .. m : ids[k] \in Questions
  BY <1>1
<1>3. /\ SubSeq(ids, 1, m) \in Seq(Questions)
      /\ Len(SubSeq(ids, 1, m)) = IF 1 <= m THEN m - 1 + 1 ELSE 0
  BY <1>1, <1>2, SubSeqProperties
<1> QED
  BY <1>1, <1>3 DEF Slice

\* The questions of an iteration are known, and not too many.
LEMMA QuestionsType ==
    ASSUME NEW pkg \in Package
    PROVE  /\ answerQuestionIds(pkg) \in Seq(Questions)
           /\ Len(answerQuestionIds(pkg)) <= QuestionsPerAttempt
<1> DEFINE ids == IF EnvQuestions # <<>> THEN EnvQuestions ELSE pkg.ids
           asked == IF ids # <<>> THEN ids ELSE LoadQuestions
<1>1. asked \in Seq(Questions)
  BY FlowAssumption DEF Package
<1> HIDE DEF asked
<1>2. /\ Slice(asked, QuestionsPerAttempt) \in Seq(Questions)
      /\ Len(Slice(asked, QuestionsPerAttempt)) <= QuestionsPerAttempt
  BY <1>1, SliceType, NumbersOK
<1> QED
  BY <1>2 DEF answerQuestionIds, asked

LEMMA PackageType ==
    ASSUME NEW ok \in BOOLEAN
    PROVE  packageInfo(ok) \in Package
<1>1. /\ PackageHash \in Hashes /\ PackageHashFallback \in Hashes
      /\ PackageQuestions \in Seq(Questions)
  BY FlowAssumption
<1>2. <<>> \in Seq(Questions)
  OBVIOUS
<1> QED
  BY <1>1, <1>2 DEF packageInfo, Package

LEMMA NoFlowType == NoFlow \in Flow
<1>1. packageInfo(FALSE) \in Package
  BY PackageType
<1>2. 0 \in 0 .. MaxIterations
  BY NumbersOK
<1> QED
  BY <1>1, <1>2, EmptyMapType DEF NoFlow, Flow

\* A token is a student's.
LEMMA CredentialType ==
    ASSUME NEW v \in VUs
    PROVE  pickCredential(v) \in Students \cup {None}
<1>1. CASE credentials = <<>>
  BY <1>1 DEF pickCredential
<1>2. CASE credentials # <<>>
  <2> DEFINE n == Len(credentials)
             k == (idInTest(v) - 1) % n
  <2>1. credentials \in Seq(Students) /\ n \in Nat /\ n > 0
    BY <1>2, CredentialsAssumption
  <2>2. idInTest(v) \in Nat /\ idInTest(v) >= 1
    BY NumbersOK DEF VUs, idInTest
  <2>3. idInTest(v) - 1 \in Nat
    BY <2>2
  <2>4. k \in 0 .. n - 1
    BY <2>1, <2>3
  <2>5. k + 1 \in 1 .. n
    BY <2>1, <2>4
  <2> HIDE DEF k
  <2>6. credentials[k + 1] \in Students
    BY <2>1, <2>5
  <2> QED
    BY <1>2, <2>6 DEF pickCredential, k, n
<1> QED
  BY <1>1, <1>2

LEMMA TokenType ==
    ASSUME NEW v \in VUs, NEW ok \in BOOLEAN
    PROVE  /\ studentToken(v, ok).token \in Students \cup {None}
           /\ studentToken(v, ok).fails \in Nat
           /\ login(v, ok).fails \in Nat
  BY CredentialType, FlowAssumption DEF studentToken, login

LEMMA ResultsType == CallResults \subseteq BOOLEAN
  BY DEF CallResults

LEMMA VUsAnswer ==
    ASSUME NEW v \in VUs, NEW n \in 1 .. MaxIterations,
           NEW i \in 0 .. QuestionsPerAttempt
    PROVE  <<idInTest(v), n, i>> \in Answers
  BY AnswersAssumption, NumbersOK DEF VUs, idInTest

-----------------------------------------------------------------------------
(* The strengthening.                                                      *)

\* A handler serves calls of its kind, and a success names the call.
OpOK(r) ==
    /\ pc[r] \in {"find", "create", "findAgain"} => req[r].op = "start"
    /\ pc[r] \in {"access"} \cup Located =>
          req[r].op \in {"save", "draft", "submit", "sync"}
    /\ resp[r].kind = "started" => req[r].op = "start"
    /\ resp[r].kind = "saved" => req[r].op \in {"save", "draft"}
    /\ resp[r].kind = "synced" => req[r].op = "sync"
    /\ resp[r].kind = "result" => req[r].op = "submit"

\* A handler past the access check works on an attempt of its actor.
OwnerOK(r) == pc[r] \in Located => Target(r).student = req[r].actor

ServerInv ==
    /\ TypeInv /\ UnansweredOK /\ StartsOK /\ OneActivePerSlot
    /\ \A r \in Reqs : OpOK(r) /\ OwnerOK(r)

\* The local variables f of a VU that is at this label of the script.
PlaceAt(label, f) ==
    LET ids == answerQuestionIds(f.pkg)
    IN  /\ label # "ready" =>
              /\ f.iter >= 1 /\ f.student \in Students /\ ~ f.complete
              /\ AssignmentID # None /\ QuizID # None
        /\ f.clean => f.student \in Students
        /\ label \in {"dashboard", "package", "start"} => f.attempt = None /\ f.i = 0
        /\ label \in {"save", "sync", "submit"} =>
              f.attempt \in AttemptIds \cup {Blank}
        /\ label = "save" => f.i < Len(ids)
        /\ label \in {"sync", "submit"} \/ f.complete => f.i = Len(ids)
        /\ \A k \in 1 .. f.i : k <= Len(ids) /\ f.answers[ids[k]] # NoAnswer

PlaceOK(v) == PlaceAt(at[v], flow[v])

\* The request r is the call v is at.
Asked(v, r) ==
    /\ req[r].op = at[v]
    /\ req[r].actor = flow[v].student
    /\ at[v] = "start" => /\ req[r].assignment = AssignmentID
                          /\ req[r].quiz = QuizID
    /\ at[v] # "start" => /\ req[r].attempt = flow[v].attempt
                          /\ flow[v].attempt \in AttemptIds
    /\ at[v] \in {"start", "sync"} => req[r].hash = flow[v].pkg.hash
    /\ at[v] = "sync" => req[r].status = "in_progress"
    /\ at[v] = "submit" => req[r].answers = flow[v].answers

\* A VU waits for the call it is at.
WaitOK(v) ==
    out[v] # None => at[v] \in Calls /\ pc[out[v]] # "idle" /\ Asked(v, out[v])

OutApart == \A v, w \in VUs : out[v] # None /\ out[v] = out[w] => v = w

\* The student of a VU is the one of its credential, unless all have the same
\* token, and the attempt of a VU is its student's.
OwnAt(v, f) ==
    /\ StaticStudentToken = None => f.student \in {None, pickCredential(v)}
    /\ f.attempt \in AttemptIds =>
          Exists(f.attempt) /\ attempts[f.attempt].student = f.student

OwnOK(v) == OwnAt(v, flow[v])

FlowInv ==
    /\ ServerInv /\ FlowTypeOK /\ OutApart
    /\ \A v \in VUs : PlaceOK(v) /\ WaitOK(v) /\ OwnOK(v)

\* Each VU has a student of its own.
OwnCredentials ==
    /\ StaticStudentToken = None
    /\ \A g, h \in Generators : g = h
    /\ VUsPerGenerator <= Len(credentials)
    /\ \A i, j \in 1 .. Len(credentials) :
           credentials[i] = credentials[j] => i = j

\* The iteration counts for PassedMeansDelivered, so far.
Counts(v) == flow[v].clean /\ ~ flow[v].late

\* No other request of its student is under way.
Alone(v) ==
    \A r \in Reqs :
        pc[r] \notin {"idle", "done"} /\ req[r].actor = flow[v].student
            => out[v] = r

\* The attempt a is open, and is one for the assignment and the quiz.
OpenAt(a) ==
    /\ attempts[a].assignment = AssignmentID
    /\ attempts[a].quiz = QuizID
    /\ attempts[a].status = "in_progress"

\* The submit of v has been written.
Handed(v) ==
    LET f == flow[v]
    IN  /\ attempts[f.attempt].status = "submitted"
        /\ \A q \in Answered(f.answers) :
               attempts[f.attempt].answers[q] = f.answers[q]
        /\ ActiveAttempts(f.student, AssignmentID, QuizID) = {}

Graded(a) == attempts[a].score = Grade(NumAnswers(attempts[a].answers))

Submitting(v) == at[v] = "submit" /\ out[v] # None

\* A start has found an open attempt.
StartedOpen(v) ==
    (/\ at[v] = "start" /\ out[v] # None
     /\ resp[out[v]].kind = "started" /\ resp[out[v]].attempt \in AttemptIds)
    => OpenAt(resp[out[v]].attempt)

\* It stays open until the submit is written.
StillOpen(v) ==
    (/\ at[v] \in {"save", "sync", "submit"} /\ flow[v].attempt \in AttemptIds
     /\ Submitting(v) => pc[out[v]] \in {"access", "read", "write"})
    => OpenAt(flow[v].attempt)

\* Then it is graded.
GradingOK(v) ==
    Submitting(v) =>
        LET r == out[v]
        IN  /\ pc[r] \in {"reread", "score", "rescored"} \/ resp[r].kind = "result"
                  => Handed(v)
            /\ pc[r] = "reread" => seen[r].did
            /\ pc[r] = "score" =>
                  seen[r].count = NumAnswers(attempts[flow[v].attempt].answers)
            /\ pc[r] = "rescored" \/ resp[r].kind = "result"
                  => Graded(flow[v].attempt)

DoneOK(v) ==
    at[v] = "ready" /\ flow[v].complete =>
        flow[v].attempt \in AttemptIds /\ Handed(v) /\ Graded(flow[v].attempt)

WorkOK(v) == StartedOpen(v) /\ StillOpen(v) /\ GradingOK(v) /\ DoneOK(v)

DeliveryInv ==
    FlowInv /\ \A v \in VUs : Counts(v) => Alone(v) /\ WorkOK(v)

-----------------------------------------------------------------------------
(* The server's side of a step.                                            *)

\* A step of a handler, or the arrival of a request.
Moves(r) == Arrive(r) \/ Step(r) \/ Fail(r)

\* What a handler does to its own place, by what it sends or keeps.
LEMMA FinishOp ==
    ASSUME TypeInv, NEW r \in Reqs, NEW response, Finish(r, response)
    PROVE  pc'[r] = "done" /\ req' = req /\ resp'[r] = response
  BY DEF Finish, Goto, TypeInv, TypeOK

LEMMA ContinueOp ==
    ASSUME TypeInv, NEW r \in Reqs, NEW label, NEW keep, Continue(r, label, keep)
    PROVE  pc'[r] = label /\ req' = req /\ resp' = resp /\ seen'[r] = keep
  BY DEF Continue, Goto, TypeInv, TypeOK

LEMMA BeginOp ==
    ASSUME TypeInv, NEW r \in Reqs, NEW request, NEW label,
           Begin(r, request, label)
    PROVE  /\ pc[r] = "idle" /\ pc'[r] = label /\ req'[r] = request
           /\ resp' = resp /\ attempts' = attempts
  BY DEF Begin, Goto, TypeInv, TypeOK

LEMMA ReplyKind ==
    ASSUME NEW k, NEW a
    PROVE  Reply(k, a).kind = k /\ Reply(k, a).attempt = a
  BY DEF Reply

LEMMA ResultKind ==
    ASSUME NEW r
    PROVE  /\ Result(r).kind = "result"
           /\ [Result(r) EXCEPT !.audited = TRUE].kind = "result"
           /\ Result(r).attempt = req[r].attempt
  BY DEF Result, Reply

LEMMA ArriveOp ==
    ASSUME TypeInv, UnansweredOK, NEW r \in Reqs, Arrive(r)
    PROVE  OpOK(r)'
<1>0. pc[r] = "idle" /\ resp' = resp /\ resp[r].kind = "none"
  BY BeginOp DEF Arrive, StartAttempt, SaveAnswerForActor, SaveAttemptDraft,
     SubmitAttemptForActor, SyncAttemptForActor, UnansweredOK
<1>1. ASSUME NEW request, Begin(r, request, "find"), request.op = "start"
      PROVE  OpOK(r)'
  BY <1>0, <1>1, BeginOp DEF OpOK, Located
<1>2. ASSUME NEW request, Begin(r, request, "access"),
             request.op \in {"save", "draft", "submit", "sync"}
      PROVE  OpOK(r)'
  BY <1>0, <1>2, BeginOp DEF OpOK, Located
<1>3. ASSUME NEW actor, NEW s, NEW z, NEW h, StartAttempt(r, actor, s, z, h)
      PROVE  OpOK(r)'
  BY <1>1, <1>3 DEF StartAttempt, NoRequest
<1>4. ASSUME NEW actor, NEW a, NEW q, NEW x, SaveAnswerForActor(r, actor, a, q, x)
      PROVE  OpOK(r)'
  BY <1>2, <1>4 DEF SaveAnswerForActor, Call, NoRequest
<1>5. ASSUME NEW actor, NEW a, NEW m, NEW h, SaveAttemptDraft(r, actor, a, m, h)
      PROVE  OpOK(r)'
  BY <1>2, <1>5 DEF SaveAttemptDraft, Call, NoRequest
<1>6. ASSUME NEW actor, NEW a, NEW m, SubmitAttemptForActor(r, actor, a, m)
      PROVE  OpOK(r)'
  BY <1>2, <1>6 DEF SubmitAttemptForActor, Call, NoRequest
<1>7. ASSUME NEW actor, NEW a, NEW h, NEW s, SyncAttemptForActor(r, actor, a, h, s)
      PROVE  OpOK(r)'
  BY <1>2, <1>7 DEF SyncAttemptForActor, Call, NoRequest
<1> QED
  BY <1>3, <1>4, <1>5, <1>6, <1>7 DEF Arrive

LEMMA StepOp ==
    ASSUME TypeInv, UnansweredOK, NEW r \in Reqs, OpOK(r), Step(r) \/ Fail(r)
    PROVE  OpOK(r)'
<1>a. ASSUME NEW response, Finish(r, response),
             response.kind = "started" => req[r].op = "start",
             response.kind = "saved" => req[r].op \in {"save", "draft"},
             response.kind = "synced" => req[r].op = "sync",
             response.kind = "result" => req[r].op = "submit"
      PROVE  OpOK(r)'
  BY <1>a, FinishOp DEF OpOK, Located
<1>b. ASSUME NEW label, NEW keep, Continue(r, label, keep),
             label \in {"create", "findAgain"} => req[r].op = "start",
             label \in Located => req[r].op \in {"save", "draft", "submit", "sync"},
             label \notin {"find", "access"}
      PROVE  OpOK(r)'
  BY <1>b, ContinueOp DEF OpOK
<1>c. ASSUME NEW k, NEW a, Finish(r, Reply(k, a)),
             k \notin {"started", "saved", "synced", "result"}
      PROVE  OpOK(r)'
  BY <1>a, <1>c, ReplyKind
<1>d. ASSUME NEW a, Finish(r, Reply("started", a)), req[r].op = "start"
      PROVE  OpOK(r)'
  BY <1>a, <1>d, ReplyKind
<1>e. ASSUME Finish(r, Result(r)) \/ Finish(r, [Result(r) EXCEPT !.audited = TRUE]),
             req[r].op = "submit"
      PROVE  OpOK(r)'
  BY <1>a, <1>e, ResultKind
<1>1. CASE \/ RefuseStart(r) \/ FindActiveAttempt(r) \/ CreateAttempt(r)
           \/ FindActiveAgain(r)
  <2>1. req[r].op = "start"
    BY <1>1 DEF OpOK, RefuseStart, FindActiveAttempt, CreateAttempt, FindActiveAgain
  <2> QED
    BY <1>1, <1>b, <1>c, <1>d, <2>1
    DEF RefuseStart, FindActiveAttempt, CreateAttempt, FindActiveAgain, Located
<1>2. CASE Fail(r)
  BY <1>2, <1>b, <1>c, <1>d
  DEF Fail, Abort, FindActiveFails, CreateFails, OpOK, Located
<1>3. ASSUME NEW next \in {"read", "write"}, CheckRead(r, next),
             req[r].op \in {"save", "draft", "submit", "sync"}
      PROVE  OpOK(r)'
  BY <1>3, <1>b, <1>c, <1>e DEF CheckRead, Located
<1>4. CASE AccessAttempt(r) \/ ReadAttempt(r)
  <2>1. req[r].op \in {"save", "draft", "submit", "sync"}
    BY <1>4 DEF OpOK, AccessAttempt, ReadAttempt, Located
  <2> QED
    BY <1>4, <1>b, <1>c, <1>3, <2>1 DEF AccessAttempt, ReadAttempt, Located
<1>5. CASE SaveAttemptAnswer(r) \/ SubmitAttempt(r) \/ SyncUpdate(r)
  BY <1>5, <1>b, <1>c DEF SaveAttemptAnswer, SubmitAttempt, SyncUpdate, Located
<1>6. CASE RereadAttempt(r)
  <2>1. ASSUME NEW a, Finish(r, Reply("saved", a)), req[r].op \in {"save", "draft"}
        PROVE  OpOK(r)'
    BY <1>a, <2>1, ReplyKind
  <2>2. ASSUME NEW a, Finish(r, Reply("synced", a)), req[r].op = "sync"
        PROVE  OpOK(r)'
    BY <1>a, <2>2, ReplyKind
  <2> QED
    BY <1>6, <1>c, <2>1, <2>2 DEF RereadAttempt
<1>7. CASE RereadSubmitted(r)
  BY <1>7, <1>b, <1>e DEF RereadSubmitted, Located
<1>8. CASE UpdateAttemptScore(r) \/ FinishSubmit(r)
  <2>1. req[r].op = "submit"
    BY <1>8 DEF TypeInv, HandlersOK, HandlerOK, UpdateAttemptScore, FinishSubmit
  <2> QED
    BY <1>8, <1>b, <1>e, <2>1 DEF UpdateAttemptScore, FinishSubmit, Located
<1> QED
  BY <1>1, <1>2, <1>4, <1>5, <1>6, <1>7, <1>8 DEF Step

\* Only the access check leads to an attempt.
LEMMA ReachLocated ==
    ASSUME TypeInv, NEW r \in Reqs, Moves(r), pc'[r] \in Located
    PROVE  /\ req' = req
           /\ \/ pc[r] \in Located
              \/ /\ pc[r] = "access" /\ Exists(req[r].attempt)
                 /\ actorOwnsAttempt(r) /\ attempts' = attempts
<1>a. ASSUME NEW response, Finish(r, response) PROVE FALSE
  BY <1>a, FinishOp DEF Located
<1>b. ASSUME NEW label, NEW keep, Continue(r, label, keep)
      PROVE  label \in Located /\ req' = req
  BY <1>b, ContinueOp
<1>1. CASE Arrive(r)
  BY <1>1, BeginOp DEF Arrive, StartAttempt, SaveAnswerForActor,
     SaveAttemptDraft, SubmitAttemptForActor, SyncAttemptForActor, Located
<1>2. CASE \/ RefuseStart(r) \/ FindActiveAttempt(r) \/ CreateAttempt(r)
           \/ FindActiveAgain(r) \/ Fail(r)
  BY <1>2, <1>a, <1>b
  DEF RefuseStart, FindActiveAttempt, CreateAttempt, FindActiveAgain,
      Fail, Abort, FindActiveFails, CreateFails, Located
<1>3. CASE AccessAttempt(r)
  <2>1. req' = req
    BY <1>3, <1>a, <1>b DEF AccessAttempt, CheckRead
  <2> QED
    BY <1>3, <1>a, <2>1 DEF AccessAttempt
<1>4. CASE ReadAttempt(r)
  BY <1>4, <1>a, <1>b DEF ReadAttempt, CheckRead, Located
<1>5. CASE SaveAttemptAnswer(r) \/ SubmitAttempt(r) \/ SyncUpdate(r)
  BY <1>5, <1>a, <1>b DEF SaveAttemptAnswer, SubmitAttempt, SyncUpdate, Located
<1>6. CASE \/ RereadAttempt(r) \/ RereadSubmitted(r) \/ UpdateAttemptScore(r)
           \/ FinishSubmit(r)
  BY <1>6, <1>a, <1>b
  DEF RereadAttempt, RereadSubmitted, UpdateAttemptScore, FinishSubmit, Located
<1> QED
  BY <1>1, <1>2, <1>3, <1>4, <1>5, <1>6 DEF Moves, Step

LEMMA MovesServerInv ==
    ASSUME ServerInv, NEW r \in Reqs, Moves(r)
    PROVE  ServerInv'
<1> USE DEF ServerInv
<1>0. Write(r)
  BY StepWrites DEF Moves
<1>1. TypeInv'
  BY ArriveTypeInv, StepTypeInv, FailTypeInv DEF Moves
<1>2. UnansweredOK' /\ StartsOK' /\ OneActivePerSlot'
  BY <1>0, StepUnanswered, StepStarted, WriteOneActive DEF Moves
<1>3. ASSUME NEW s \in Reqs PROVE OpOK(s)'
  <2>1. CASE s = r
    BY <2>1, ArriveOp, StepOp DEF Moves
  <2>2. CASE s # r
    <3>1. pc'[s] = pc[s] /\ req'[s] = req[s] /\ resp'[s] = resp[s]
      BY <2>2, OthersUnchanged DEF Moves
    <3> QED
      BY <3>1 DEF OpOK
  <2> QED
    BY <2>1, <2>2
<1>4. ASSUME NEW s \in Reqs, pc'[s] \in Located
      PROVE  attempts'[req'[s].attempt].student = req'[s].actor
  <2>1. ASSUME req'[s] = req[s], pc[s] \in Located
        PROVE  attempts'[req'[s].attempt].student = req'[s].actor
    <3>1. Target(s).student = req[s].actor
      BY <2>1 DEF OwnerOK
    <3>2. req[s].attempt \in AttemptIds /\ Exists(req[s].attempt)
      BY <2>1 DEF TypeInv, HandlersOK, HandlerOK
    <3> QED
      BY <1>0, <2>1, <3>1, <3>2, WriteKeeps DEF Target
  <2>2. CASE s = r
    BY <1>4, <2>1, <2>2, ReachLocated DEF actorOwnsAttempt, Target
  <2>3. CASE s # r
    BY <1>4, <2>1, <2>3, OthersUnchanged DEF Moves
  <2> QED
    BY <2>2, <2>3
<1>5. ASSUME NEW s \in Reqs PROVE OwnerOK(s)'
  BY <1>4 DEF OwnerOK, Target
<1> QED
  BY <1>1, <1>2, <1>3, <1>5

\* A connection is used again.
LEMMA ReleaseServerInv ==
    ASSUME ServerInv, NEW r \in Reqs, Release(r)
    PROVE  ServerInv'
<1> USE DEF ServerInv
<1>1. /\ pc'[r] = "idle" /\ req'[r] = NoRequest
      /\ resp'[r] = Reply("none", None)
      /\ UNCHANGED <<attempts, seen>>
  BY DEF Release, TypeInv, TypeOK
<1>2. \A s \in Reqs \ {r} :
          pc'[s] = pc[s] /\ req'[s] = req[s] /\ resp'[s] = resp[s]
  BY DEF Release, TypeInv, TypeOK
<1>3. TypeOK'
  BY DefaultsType DEF Release, TypeInv, TypeOK, PCs, Kinds
<1>4. ASSUME NEW s \in Reqs
      PROVE  HandlerOK(s)' /\ OpOK(s)' /\ OwnerOK(s)'
  <2>1. CASE s = r
    BY <1>1, <2>1, ReplyKind DEF HandlerOK, OpOK, OwnerOK, Located
  <2>2. CASE s # r
    <3>1. HandlerOK(s) /\ OpOK(s) /\ OwnerOK(s)
      BY DEF TypeInv, HandlersOK
    <3> QED
      BY <1>1, <1>2, <2>2, <3>1
      DEF HandlerOK, OpOK, OwnerOK, Located, Exists, Target
  <2> QED
    BY <2>1, <2>2
<1>5. UnansweredOK'
  BY <1>1, <1>2, ReplyKind DEF UnansweredOK
<1>6. StartsOK'
  <2> SUFFICES ASSUME NEW s \in Reqs, resp'[s].kind = "started",
                      ~ (DBFaults /\ resp'[s].attempt = Blank)
               PROVE  OwnAttempt(s, resp[s].attempt)'
    BY DEF StartsOK
  <2>1. s # r
    BY <1>1, ReplyKind
  <2>2. OwnAttempt(s, resp[s].attempt)
    BY <1>2, <2>1 DEF StartsOK
  <2> QED
    BY <1>1, <1>2, <2>1, <2>2 DEF OwnAttempt, Exists
<1>7. OneActivePerSlot'
  BY <1>1 DEF OneActivePerSlot, Exists
<1> QED
  BY <1>3, <1>4, <1>5, <1>6, <1>7 DEF TypeInv, HandlersOK

-----------------------------------------------------------------------------
(* A VU's side of a step.                                                  *)

\* The state of a VU has its type.
LEMMA VUType ==
    ASSUME FlowTypeOK, NEW v \in VUs
    PROVE  /\ flow[v] \in Flow /\ at[v] \in Labels
           /\ out[v] \in Reqs \cup {None}
           /\ flow[v].pkg \in Package /\ flow[v].i \in Nat
           /\ flow[v].iter \in 0 .. MaxIterations
           /\ flow[v].answers \in AnswerMap
           /\ Ids(v) \in Seq(Questions)
           /\ Len(Ids(v)) \in Nat
           /\ Len(Ids(v)) <= QuestionsPerAttempt
<1>1. flow[v] \in Flow /\ at[v] \in Labels /\ out[v] \in Reqs \cup {None}
  BY DEF FlowTypeOK
<1>2. flow[v].pkg \in Package
  BY <1>1 DEF Flow
<1> QED
  BY <1>1, <1>2, QuestionsType DEF Flow, Ids

\* A step of v changes nothing of the other VUs.
Moved(v, label, f) ==
    /\ at' = [at EXCEPT ![v] = label]
    /\ flow' = [flow EXCEPT ![v] = f]

LEMMA MovedType ==
    ASSUME FlowTypeOK, NEW v \in VUs, NEW label \in Labels, NEW f \in Flow,
           Moved(v, label, f), scenario' = scenario,
           out' = out \/ \E x \in Reqs \cup {None} : out' = [out EXCEPT ![v] = x],
           NEW e \in Nat, NEW n \in Nat, errors' = errors + e, failed' = failed + n
    PROVE  FlowTypeOK'
  BY DEF Moved, FlowTypeOK

LEMMA MovedFields ==
    ASSUME FlowTypeOK, NEW v \in VUs, NEW label, NEW f, Moved(v, label, f)
    PROVE  /\ at'[v] = label /\ flow'[v] = f
           /\ \A w \in VUs \ {v} : at'[w] = at[w] /\ flow'[w] = flow[w]
  BY DEF Moved, FlowTypeOK

\* Local variables after a response.
WithAttempt(v, a) == [flow[v] EXCEPT !.attempt = a]
WithFailure(v) == [flow[v] EXCEPT !.clean = FALSE]
WithCheck(v, ok) == [flow[v] EXCEPT !.clean = @ /\ ok]
WithAnswer(v, ok) ==
    [flow[v] EXCEPT !.answers = [@ EXCEPT ![QuestionNow(v)] = AnswerNow(v)],
                    !.i = @ + 1, !.clean = @ /\ ok]
WithSubmit(v, ok) == [flow[v] EXCEPT !.clean = @ /\ ok, !.complete = TRUE]

\* The question and the answer of this turn.
LEMMA TurnType ==
    ASSUME FlowTypeOK, NEW v \in VUs, PlaceOK(v), at[v] = "save"
    PROVE  QuestionNow(v) \in Questions /\ AnswerNow(v) \in Answers
<1>1. /\ flow[v].i \in Nat /\ Ids(v) \in Seq(Questions)
      /\ Len(Ids(v)) \in Nat /\ Len(Ids(v)) <= QuestionsPerAttempt
      /\ flow[v].iter \in 0 .. MaxIterations
  BY VUType
<1>2. flow[v].i < Len(Ids(v)) /\ flow[v].iter >= 1
  BY DEF PlaceOK, PlaceAt, Ids
<1>3. /\ flow[v].i + 1 \in 1 .. Len(Ids(v))
      /\ flow[v].i \in 0 .. QuestionsPerAttempt
      /\ flow[v].iter \in 1 .. MaxIterations
  BY <1>1, <1>2, NumbersOK
<1> QED
  BY <1>1, <1>3, VUsAnswer DEF QuestionNow, AnswerNow

LEMMA RecordTypes ==
    ASSUME NEW f \in Flow, NEW a \in AttemptIds \cup {None, Blank},
           NEW b \in BOOLEAN
    PROVE  /\ [f EXCEPT !.attempt = a] \in Flow
           /\ [f EXCEPT !.clean = b] \in Flow
           /\ [f EXCEPT !.clean = b, !.complete = TRUE] \in Flow
           /\ \A m \in AnswerMap :
                 [f EXCEPT !.answers = m, !.i = @ + 1, !.clean = b] \in Flow
<1>1. f.i + 1 \in Nat
  BY DEF Flow
<1>2. ASSUME NEW n \in Nat, NEW m \in AnswerMap
      PROVE  [f EXCEPT !.answers = m, !.i = n, !.clean = b] \in Flow
  BY DEF Flow
<1>3. [f EXCEPT !.attempt = a] \in Flow
  BY DEF Flow
<1>4. [f EXCEPT !.clean = b] \in Flow
  BY DEF Flow
<1>5. [f EXCEPT !.clean = b, !.complete = TRUE] \in Flow
  BY DEF Flow
<1> QED
  BY <1>1, <1>2, <1>3, <1>4, <1>5

LEMMA WithTypes ==
    ASSUME FlowTypeOK, NEW v \in VUs, PlaceOK(v),
           NEW a \in AttemptIds \cup {None, Blank}, NEW ok \in BOOLEAN
    PROVE  /\ WithAttempt(v, a) \in Flow /\ WithFailure(v) \in Flow
           /\ WithCheck(v, ok) \in Flow /\ WithSubmit(v, ok) \in Flow
           /\ at[v] = "save" => WithAnswer(v, ok) \in Flow
<1>1. flow[v] \in Flow /\ flow[v].answers \in AnswerMap
  BY VUType
<1>2. ASSUME at[v] = "save"
      PROVE  [flow[v].answers EXCEPT ![QuestionNow(v)] = AnswerNow(v)] \in AnswerMap
  BY <1>1, <1>2, TurnType DEF AnswerMap
<1>3. (flow[v].clean /\ ok) \in BOOLEAN
  BY Zenon
<1>4. ASSUME NEW b \in BOOLEAN
      PROVE  /\ [flow[v] EXCEPT !.clean = b] \in Flow
             /\ [flow[v] EXCEPT !.clean = b, !.complete = TRUE] \in Flow
             /\ \A m \in AnswerMap :
                   [flow[v] EXCEPT !.answers = m, !.i = @ + 1, !.clean = b] \in Flow
  BY <1>1, RecordTypes
<1>5. WithAttempt(v, a) \in Flow
  BY <1>1, RecordTypes DEF WithAttempt
<1>6. WithFailure(v) \in Flow
  BY <1>4 DEF WithFailure
<1>7. WithCheck(v, ok) \in Flow /\ WithSubmit(v, ok) \in Flow
  BY <1>3, <1>4, Zenon DEF WithCheck, WithSubmit
<1>8. at[v] = "save" => WithAnswer(v, ok) \in Flow
  BY <1>2, <1>3, <1>4, Zenon DEF WithAnswer
<1> QED
  BY <1>5, <1>6, <1>7, <1>8

\* The counters.
Counted == \E e, n \in Nat : errors' = errors + e /\ failed' = failed + n

LEMMA CountedOnce ==
    ASSUME NEW e \in Nat, NEW n \in Nat, Count(e, n)
    PROVE  Counted
  BY DEF Count, Counted

LEMMA NotCounted ==
    ASSUME FlowTypeOK, UNCHANGED metrics
    PROVE  Counted
<1>1. errors' = errors + 0 /\ failed' = failed + 0
  BY DEF FlowTypeOK, metrics
<1> QED
  BY <1>1 DEF Counted

LEMMA CheckedMoves ==
    ASSUME NEW v, NEW ok, NEW next, Checked(v, ok, next)
    PROVE  at' = [at EXCEPT ![v] = next] /\ Counted
  BY CountedOnce DEF Checked

\* Where the loop over the questions goes on.
AfterStart(v) == IF Ids(v) = <<>> THEN "sync" ELSE "save"
AfterAnswer(v) == IF flow[v].i + 1 < Len(Ids(v)) THEN "save" ELSE "sync"

\* What a VU makes of a response.
HandleMove(v, kind, a) ==
    \/ at[v] = "start" /\ Success(kind) /\ Moved(v, AfterStart(v), WithAttempt(v, a))
    \/ at[v] = "start" /\ ~ Success(kind) /\ Moved(v, "ready", WithFailure(v))
    \/ at[v] = "save" /\ Moved(v, AfterAnswer(v), WithAnswer(v, Success(kind)))
    \/ at[v] = "sync" /\ Moved(v, "submit", WithCheck(v, Success(kind)))
    \/ at[v] = "submit" /\ Moved(v, "ready", WithSubmit(v, Success(kind)))

LEMMA HandleMoves ==
    ASSUME FlowTypeOK, NEW v \in VUs, NEW kind, NEW a, Handle(v, kind, a)
    PROVE  HandleMove(v, kind, a) /\ Counted
<1>0. flow[v] \in Flow /\ flow \in [VUs -> Flow]
  BY DEF FlowTypeOK
<1>1. CASE Success(kind) /\ Started(v, a)
  BY <1>0, <1>1, NotCounted DEF Started, HandleMove, Moved, WithAttempt, AfterStart
<1>2. CASE ~ Success(kind) /\ StartRefused(v)
  BY <1>0, <1>2, CountedOnce DEF StartRefused, HandleMove, Moved, WithFailure
<1> DEFINE ok == Success(kind)
<1> HIDE DEF ok
<1>3. CASE AnswerChecked(v, ok)
  <2>1. flow' = [flow EXCEPT ![v] = WithAnswer(v, ok)]
    BY <1>0, <1>3 DEF AnswerChecked, WithAnswer, Flow
  <2>2. at' = [at EXCEPT ![v] = AfterAnswer(v)] /\ Counted /\ at[v] = "save"
    BY <1>3, CheckedMoves DEF AnswerChecked, AfterAnswer
  <2> QED
    BY <2>1, <2>2 DEF HandleMove, Moved, ok
<1>4. CASE SyncChecked(v, ok)
  <2>1. flow' = [flow EXCEPT ![v] = WithCheck(v, ok)]
    BY <1>0, <1>4 DEF SyncChecked, WithCheck, Flow
  <2>2. at' = [at EXCEPT ![v] = "submit"] /\ Counted /\ at[v] = "sync"
    BY <1>4, CheckedMoves DEF SyncChecked
  <2> QED
    BY <2>1, <2>2 DEF HandleMove, Moved, ok
<1>5. CASE SubmitChecked(v, ok)
  <2>1. flow' = [flow EXCEPT ![v] = WithSubmit(v, ok)]
    BY <1>0, <1>5 DEF SubmitChecked, WithSubmit, Flow
  <2>2. at' = [at EXCEPT ![v] = "ready"] /\ Counted /\ at[v] = "submit"
    BY <1>5, CheckedMoves DEF SubmitChecked
  <2> QED
    BY <2>1, <2>2 DEF HandleMove, Moved, ok
<1> QED
  BY <1>1, <1>2, <1>3, <1>4, <1>5 DEF Handle, ok

\* A step of v to a place it may be at.
LEMMA MovedInv ==
    ASSUME FlowTypeOK, \A w \in VUs : PlaceOK(w), NEW v \in VUs,
           NEW label \in Labels, NEW f \in Flow, PlaceAt(label, f),
           Moved(v, label, f), scenario' = scenario, Counted,
           out' = out \/ \E x \in Reqs \cup {None} : out' = [out EXCEPT ![v] = x]
    PROVE  FlowTypeOK' /\ \A w \in VUs : PlaceOK(w)'
<1>1. FlowTypeOK'
  BY MovedType DEF Counted
<1>2. ASSUME NEW w \in VUs PROVE PlaceOK(w)'
  BY <1>2, MovedFields DEF PlaceOK
<1> QED
  BY <1>1, <1>2

LEMMA HandlePlace ==
    ASSUME FlowTypeOK, NEW v \in VUs, PlaceOK(v), NEW kind,
           NEW a \in AttemptIds \cup {None, Blank},
           at[v] = "start" /\ Success(kind) => a \in AttemptIds \cup {Blank},
           HandleMove(v, kind, a)
    PROVE  \E label \in Labels, f \in Flow :
               PlaceAt(label, f) /\ Moved(v, label, f)
<1> USE DEF PlaceOK
<1>0. /\ flow[v] \in Flow /\ Ids(v) = answerQuestionIds(flow[v].pkg)
      /\ Ids(v) \in Seq(Questions) /\ Len(Ids(v)) \in Nat
      /\ flow[v].i \in Nat /\ flow[v].answers \in AnswerMap
  BY VUType DEF Ids
<1> DEFINE ok == Success(kind)
<1>ok. ok \in BOOLEAN
  BY DEF Success
<1> HIDE DEF ok
<1>1. ASSUME at[v] = "start", ok
      PROVE  AfterStart(v) \in Labels /\ PlaceAt(AfterStart(v), WithAttempt(v, a))
  <2> DEFINE f == WithAttempt(v, a)
  <2>1. /\ f.pkg = flow[v].pkg /\ f.i = flow[v].i /\ f.answers = flow[v].answers
        /\ f.iter = flow[v].iter /\ f.student = flow[v].student
        /\ f.complete = flow[v].complete /\ f.attempt = a
    BY <1>0 DEF WithAttempt, Flow
  <2>2. Ids(v) = <<>> <=> Len(Ids(v)) = 0
    BY <1>0
  <2>3. a \in AttemptIds \cup {Blank}
    BY <1>1 DEF ok
  <2> HIDE DEF f
  <2> QED
    BY <1>0, <1>1, <2>1, <2>2, <2>3 DEF PlaceAt, AfterStart, f, Labels, Calls
<1>2. ASSUME at[v] = "start"
      PROVE  PlaceAt("ready", WithFailure(v))
  <2> DEFINE f == WithFailure(v)
  <2>1. /\ f.pkg = flow[v].pkg /\ f.i = flow[v].i /\ f.answers = flow[v].answers
        /\ f.complete = flow[v].complete /\ ~ f.clean
    BY <1>0 DEF WithFailure, Flow
  <2> HIDE DEF f
  <2> QED
    BY <1>2, <2>1 DEF PlaceAt, f
<1>3. ASSUME at[v] = "save"
      PROVE  AfterAnswer(v) \in Labels /\ PlaceAt(AfterAnswer(v), WithAnswer(v, ok))
  <2> DEFINE f == WithAnswer(v, ok)
             m == [flow[v].answers EXCEPT ![QuestionNow(v)] = AnswerNow(v)]
  <2>1. /\ f.pkg = flow[v].pkg /\ f.i = flow[v].i + 1 /\ f.answers = m
        /\ f.iter = flow[v].iter /\ f.student = flow[v].student
        /\ f.complete = flow[v].complete /\ f.attempt = flow[v].attempt
    BY <1>0 DEF WithAnswer, Flow
  <2>2. /\ QuestionNow(v) \in Questions /\ AnswerNow(v) \in Answers
        /\ AnswerNow(v) # NoAnswer
    BY <1>3, TurnType, ConstantsAssumption
  <2>3. flow[v].i < Len(Ids(v))
    BY <1>0, <1>3 DEF PlaceAt
  <2>4. ASSUME NEW k \in 1 .. flow[v].i + 1
        PROVE  k <= Len(Ids(v)) /\ m[Ids(v)[k]] # NoAnswer
    <3>1. k \in 1 .. Len(Ids(v))
      BY <1>0, <2>3
    <3>2. Ids(v)[k] \in Questions
      BY <1>0, <3>1
    <3>3. CASE k = flow[v].i + 1
      BY <1>0, <2>2, <3>1, <3>2, <3>3 DEF QuestionNow, AnswerMap
    <3>4. CASE k # flow[v].i + 1
      <4>1. k \in 1 .. flow[v].i
        BY <1>0, <3>4
      <4>2. flow[v].answers[Ids(v)[k]] # NoAnswer
        BY <1>0, <4>1 DEF PlaceAt
      <4> QED
        BY <1>0, <2>2, <3>1, <3>2, <4>2 DEF AnswerMap
    <3> QED
      BY <3>3, <3>4
  <2> HIDE DEF f, m
  <2> QED
    BY <1>0, <1>3, <2>1, <2>3, <2>4 DEF PlaceAt, AfterAnswer, f, Labels, Calls
<1>4. ASSUME at[v] = "sync"
      PROVE  PlaceAt("submit", WithCheck(v, ok))
  <2> DEFINE f == WithCheck(v, ok)
  <2>1. /\ f.pkg = flow[v].pkg /\ f.i = flow[v].i /\ f.answers = flow[v].answers
        /\ f.iter = flow[v].iter /\ f.student = flow[v].student
        /\ f.complete = flow[v].complete /\ f.attempt = flow[v].attempt
    BY <1>0 DEF WithCheck, Flow
  <2> HIDE DEF f
  <2> QED
    BY <1>4, <2>1 DEF PlaceAt, f
<1>5. ASSUME at[v] = "submit"
      PROVE  PlaceAt("ready", WithSubmit(v, ok))
  <2> DEFINE f == WithSubmit(v, ok)
  <2>1. /\ f.pkg = flow[v].pkg /\ f.i = flow[v].i /\ f.answers = flow[v].answers
        /\ f.student = flow[v].student
    BY <1>0 DEF WithSubmit, Flow
  <2> HIDE DEF f
  <2> QED
    BY <1>5, <2>1 DEF PlaceAt, f
<1>6. {"ready", "submit"} \subseteq Labels
  BY DEF Labels, Calls
<1>7. HandleMove(v, kind, a) /\ WithAttempt(v, a) \in Flow /\ WithFailure(v) \in Flow
      /\ WithCheck(v, ok) \in Flow /\ WithSubmit(v, ok) \in Flow
      /\ (at[v] = "save" => WithAnswer(v, ok) \in Flow)
  BY <1>ok, WithTypes
<1> QED
  BY <1>1, <1>2, <1>3, <1>4, <1>5, <1>6, <1>7 DEF HandleMove, ok

-----------------------------------------------------------------------------
(* A VU posts a call, or goes on.                                          *)

Posts(v, r) ==
    /\ Arrive(r)
    /\ out[v] = None /\ at[v] \in Calls
    /\ out' = [out EXCEPT ![v] = r]
    /\ UNCHANGED <<scenario, at, flow, errors, failed>>
    /\ Asked(v, r)'

Goes(v, label, f) ==
    /\ Moved(v, label, f)
    /\ PlaceAt(label, f) /\ OwnAt(v, f)
    /\ out' = [out EXCEPT ![v] = None]
    /\ scenario' = scenario /\ Counted
    /\ UNCHANGED server \/ (out[v] \in Reqs /\ Release(out[v]))

\* The requests of the script.
LEMMA StartRequest ==
    ASSUME TypeInv, NEW r \in Reqs, NEW actor, NEW s, NEW z, NEW h,
           StartAttempt(r, actor, s, z, h)
    PROVE  /\ req'[r].op = "start" /\ req'[r].actor = actor
           /\ req'[r].assignment = s /\ req'[r].quiz = z /\ req'[r].hash = h
<1>1. req'[r] = [NoRequest EXCEPT !.op = "start", !.actor = actor,
                                 !.assignment = s, !.quiz = z, !.hash = h]
  BY DEF StartAttempt, Begin, TypeInv, TypeOK
<1> QED
  BY <1>1 DEF NoRequest

LEMMA AnswerRequest ==
    ASSUME TypeInv, NEW r \in Reqs, NEW actor, NEW a, NEW q, NEW x,
           SaveAnswerForActor(r, actor, a, q, x)
    PROVE  /\ req'[r].op = "save" /\ req'[r].actor = actor
           /\ req'[r].attempt = a
<1>1. req'[r] = [Call("save", actor, a) EXCEPT
                    !.answers = [EmptyMap EXCEPT ![q] = x]]
  BY DEF SaveAnswerForActor, Begin, TypeInv, TypeOK
<1> QED
  BY <1>1 DEF Call, NoRequest

LEMMA SyncRequest ==
    ASSUME TypeInv, NEW r \in Reqs, NEW actor, NEW a, NEW h, NEW s,
           SyncAttemptForActor(r, actor, a, h, s)
    PROVE  /\ req'[r].op = "sync" /\ req'[r].actor = actor
           /\ req'[r].attempt = a /\ req'[r].hash = h /\ req'[r].status = s
<1>1. req'[r] = [Call("sync", actor, a) EXCEPT !.hash = h, !.status = s]
  BY DEF SyncAttemptForActor, Begin, TypeInv, TypeOK
<1> QED
  BY <1>1 DEF Call, NoRequest

LEMMA SubmitRequest ==
    ASSUME TypeInv, NEW r \in Reqs, NEW actor, NEW a, NEW m,
           SubmitAttemptForActor(r, actor, a, m)
    PROVE  /\ req'[r].op = "submit" /\ req'[r].actor = actor
           /\ req'[r].attempt = a /\ req'[r].answers = m
<1>1. req'[r] = [Call("submit", actor, a) EXCEPT !.answers = m]
  BY DEF SubmitAttemptForActor, Begin, TypeInv, TypeOK
<1> QED
  BY <1>1 DEF Call, NoRequest

LEMMA PostPosts ==
    ASSUME FlowInv, NEW v \in VUs, NEW r \in Reqs,
           PostStart(v, r) \/ PostAnswer(v, r) \/ PostSync(v, r) \/ PostSubmit(v, r)
    PROVE  Posts(v, r)
<1> USE DEF FlowInv
<1>0. /\ out[v] = None /\ at[v] \in Calls /\ flow[v].attempt # Blank
      /\ out' = [out EXCEPT ![v] = r]
      /\ UNCHANGED <<scenario, at, flow, errors, failed>>
  BY DEF PostStart, PostAnswer, PostSync, PostSubmit, Post, Calls, metrics
<1>1. /\ flow[v].student \in Students
      /\ AssignmentID \in Assignments /\ QuizID \in Quizzes
  BY <1>0, FlowAssumption DEF PlaceOK, PlaceAt, Calls
<1>2. at[v] # "start" => flow[v].attempt \in AttemptIds
  BY <1>0 DEF PlaceOK, PlaceAt, Calls
<1>3. /\ flow[v].pkg.hash \in Hashes /\ flow[v].answers \in AnswerMap
      /\ "in_progress" \in SyncStatuses
  BY VUType, FlowAssumption DEF Package
<1>4. TypeInv
  BY DEF ServerInv
<1>5. CASE PostStart(v, r)
  <2>1. /\ at[v] = "start"
        /\ StartAttempt(r, flow[v].student, AssignmentID, QuizID, flow[v].pkg.hash)
    BY <1>5 DEF PostStart, Post
  <2>2. Arrive(r)
    BY <1>1, <1>3, <2>1 DEF Arrive
  <2>3. Asked(v, r)'
    BY <1>0, <1>4, <2>1, StartRequest DEF Asked
  <2> QED
    BY <1>0, <2>2, <2>3 DEF Posts
<1>6. CASE PostAnswer(v, r)
  <2>1. /\ at[v] = "save"
        /\ SaveAnswerForActor(r, flow[v].student, flow[v].attempt,
                              QuestionNow(v), AnswerNow(v))
    BY <1>6 DEF PostAnswer, Post
  <2>2. QuestionNow(v) \in Questions /\ AnswerNow(v) \in Answers
    BY <2>1, TurnType
  <2>3. Arrive(r)
    BY <1>1, <1>2, <2>1, <2>2 DEF Arrive
  <2>4. Asked(v, r)'
    BY <1>0, <1>2, <1>4, <2>1, AnswerRequest DEF Asked
  <2> QED
    BY <1>0, <2>3, <2>4 DEF Posts
<1>7. CASE PostSync(v, r)
  <2>1. /\ at[v] = "sync"
        /\ SyncAttemptForActor(r, flow[v].student, flow[v].attempt,
                               flow[v].pkg.hash, "in_progress")
    BY <1>7 DEF PostSync, Post
  <2>2. Arrive(r)
    BY <1>1, <1>2, <1>3, <2>1 DEF Arrive
  <2>3. Asked(v, r)'
    BY <1>0, <1>2, <1>4, <2>1, SyncRequest DEF Asked
  <2> QED
    BY <1>0, <2>2, <2>3 DEF Posts
<1>8. CASE PostSubmit(v, r)
  <2>1. /\ at[v] = "submit"
        /\ SubmitAttemptForActor(r, flow[v].student, flow[v].attempt,
                                 flow[v].answers)
    BY <1>8 DEF PostSubmit, Post
  <2>2. Arrive(r)
    BY <1>1, <1>2, <1>3, <2>1 DEF Arrive
  <2>3. Asked(v, r)'
    BY <1>0, <1>2, <1>4, <2>1, SubmitRequest DEF Asked
  <2> QED
    BY <1>0, <2>2, <2>3 DEF Posts
<1> QED
  BY <1>5, <1>6, <1>7, <1>8

\* A VU that waits for nothing goes on without the server.
LEMMA GoesAlone ==
    ASSUME FlowInv, NEW v \in VUs, NEW label, NEW f,
           Moved(v, label, f), PlaceAt(label, f), OwnAt(v, f),
           out[v] = None, out' = out, scenario' = scenario, Counted,
           UNCHANGED server
    PROVE  Goes(v, label, f)
<1>1. out' = [out EXCEPT ![v] = None]
  BY DEF FlowInv, FlowTypeOK
<1> QED
  BY <1>1 DEF Goes

\* The first steps of an iteration, and those of the other scenarios.
LEMMA FirstSteps ==
    ASSUME FlowInv, NEW v \in VUs,
           \/ NoToken(v) \/ BeginExam(v) \/ StudentDashboard(v) \/ QuizPackage(v)
           \/ authLogin(v) \/ teacherOverview(v)
    PROVE  \E label \in Labels, f \in Flow : Goes(v, label, f)
<1> USE DEF FlowInv
<1>0. /\ flow[v] \in Flow /\ flow \in [VUs -> Flow] /\ at \in [VUs -> Labels]
      /\ flow[v].iter \in 0 .. MaxIterations /\ flow[v].i \in Nat
      /\ {"ready", "dashboard", "package", "start"} \subseteq Labels
  BY VUType DEF FlowTypeOK, Labels, Calls
<1>1. at[v] \in {"ready", "dashboard", "package"}
  BY DEF NoToken, BeginExam, StudentDashboard, QuizPackage, authLogin,
         teacherOverview, Iterating
<1>2. out[v] = None
  BY <1>1 DEF WaitOK, Calls
<1>3. /\ out' = out /\ scenario' = scenario /\ UNCHANGED server
  BY DEF NoToken, BeginExam, StudentDashboard, QuizPackage, authLogin,
         teacherOverview
<1>4. Counted
  <2>1. CASE NoToken(v)
    <3>1. PICK ok \in CallResults :
              Count(studentToken(v, ok).fails + 1, studentToken(v, ok).fails + 1)
      BY <2>1 DEF NoToken
    <3>2. studentToken(v, ok).fails + 1 \in Nat
      BY ResultsType, TokenType
    <3> QED
      BY <3>1, <3>2, CountedOnce
  <2>2. CASE BeginExam(v) \/ StudentDashboard(v)
    BY <2>2, NotCounted DEF BeginExam, StudentDashboard
  <2>3. CASE QuizPackage(v)
    BY <2>3, CountedOnce DEF QuizPackage
  <2>4. CASE authLogin(v)
    <3>1. PICK ok \in CallResults : Count(login(v, ok).fails, login(v, ok).fails)
      BY <2>4 DEF authLogin
    <3> QED
      BY <3>1, ResultsType, TokenType, CountedOnce
  <2>5. CASE teacherOverview(v)
    <3> DEFINE fails(ok, okProgress) ==
                  (IF ok THEN 0 ELSE 1)
                  + (IF okProgress \/ AssignmentID = None THEN 0 ELSE 1)
    <3>1. PICK ok \in CallResults, okProgress \in CallResults :
              Count(fails(ok, okProgress), fails(ok, okProgress))
      BY <2>5 DEF teacherOverview
    <3>2. fails(ok, okProgress) \in Nat
      OBVIOUS
    <3> HIDE DEF fails
    <3> QED
      BY <3>1, <3>2, CountedOnce
  <2> QED
    BY <2>1, <2>2, <2>3, <2>4, <2>5
<1>5. ASSUME NEW label \in Labels, NEW f \in Flow,
             Moved(v, label, f), PlaceAt(label, f), OwnAt(v, f)
      PROVE  \E l \in Labels, g \in Flow : Goes(v, l, g)
  BY <1>2, <1>3, <1>4, <1>5, GoesAlone
<1>6. ASSUME flow[v].iter < MaxIterations
      PROVE  flow[v].iter + 1 \in 0 .. MaxIterations /\ flow[v].iter + 1 >= 1
  BY <1>0, <1>6, NumbersOK
<1>7. CASE NoToken(v)
  <2> DEFINE f == [NoFlow EXCEPT !.iter = flow[v].iter + 1]
  <2>1. /\ flow' = [flow EXCEPT ![v] = f] /\ at' = at /\ at[v] = "ready"
        /\ flow[v].iter < MaxIterations
    BY <1>7 DEF NoToken, Iterating
  <2>2. f \in Flow
    BY <1>6, <2>1, NoFlowType DEF Flow
  <2>3. /\ f.attempt = None /\ ~ f.complete /\ f.i = 0 /\ f.student = None
        /\ ~ f.clean
    BY DEF NoFlow
  <2> HIDE DEF f
  <2>a. 1 .. f.i = {}
    BY <2>3
  <2>4. Moved(v, "ready", f)
    BY <1>0, <2>1 DEF Moved
  <2>5. PlaceAt("ready", f) /\ OwnAt(v, f)
    BY <2>3, <2>a, ConstantsAssumption DEF PlaceAt, OwnAt
  <2> QED
    BY <1>0, <1>5, <2>2, <2>4, <2>5
<1>8. CASE BeginExam(v)
  <2>1. PICK ok \in CallResults :
           LET t == studentToken(v, ok)
           IN  /\ t.token # None
               /\ flow' = [flow EXCEPT ![v] =
                    [NoFlow EXCEPT !.iter = flow[v].iter + 1,
                                   !.student = t.token, !.clean = TRUE,
                                   !.late = LateRequest(t.token)]]
    BY <1>8 DEF BeginExam
  <2> DEFINE token == studentToken(v, ok).token
             late == LateRequest(token)
             f == [NoFlow EXCEPT !.iter = flow[v].iter + 1, !.student = token,
                                 !.clean = TRUE, !.late = late]
  <2>2. /\ token \in Students
        /\ StaticStudentToken = None => token \in {None, pickCredential(v)}
    BY <2>1, ResultsType, TokenType DEF studentToken, login
  <2>3. late \in BOOLEAN
    BY Zenon DEF LateRequest
  <2>4. flow[v].iter < MaxIterations /\ AssignmentID # None /\ QuizID # None
    BY <1>8 DEF BeginExam, Iterating
  <2>5. /\ flow' = [flow EXCEPT ![v] = f]
        /\ at' = [at EXCEPT ![v] = "dashboard"]
    BY <1>8, <2>1 DEF BeginExam
  <2> HIDE DEF token, late
  <2>6. f \in Flow
    BY <1>6, <2>2, <2>3, <2>4, NoFlowType DEF Flow
  <2>7. /\ f.attempt = None /\ ~ f.complete /\ f.i = 0 /\ f.student = token
        /\ f.iter >= 1
    BY <1>6, <2>4 DEF NoFlow
  <2> HIDE DEF f
  <2>a. 1 .. f.i = {}
    BY <2>7
  <2>8. Moved(v, "dashboard", f)
    BY <2>5 DEF Moved
  <2>9. PlaceAt("dashboard", f) /\ OwnAt(v, f)
    BY <2>2, <2>4, <2>7, <2>a, ConstantsAssumption DEF PlaceAt, OwnAt
  <2> QED
    BY <1>0, <1>5, <2>6, <2>8, <2>9
<1>9. CASE StudentDashboard(v)
  <2>1. Moved(v, "package", flow[v]) /\ at[v] = "dashboard"
    BY <1>0, <1>9 DEF StudentDashboard, Moved
  <2>2. PlaceAt("package", flow[v]) /\ OwnAt(v, flow[v])
    BY <2>1 DEF PlaceOK, PlaceAt, OwnOK
  <2> QED
    BY <1>0, <1>5, <2>1, <2>2
<1>10. CASE QuizPackage(v)
  <2>1. PICK ok \in CallResults :
           flow' = [flow EXCEPT ![v].pkg = packageInfo(ok), ![v].clean = @ /\ ok]
    BY <1>10 DEF QuizPackage
  <2> DEFINE clean == flow[v].clean /\ ok
             f == [flow[v] EXCEPT !.pkg = packageInfo(ok), !.clean = clean]
  <2>2. /\ at[v] = "package" /\ at' = [at EXCEPT ![v] = "start"]
    BY <1>10 DEF QuizPackage
  <2>3. flow' = [flow EXCEPT ![v] = f]
    BY <1>0, <2>1 DEF Flow
  <2>4. clean \in BOOLEAN /\ packageInfo(ok) \in Package
    BY PackageType, ResultsType
  <2> HIDE DEF clean
  <2>5. f \in Flow
    BY <1>0, <2>4 DEF Flow
  <2>6. /\ f.iter = flow[v].iter /\ f.student = flow[v].student
        /\ f.complete = flow[v].complete /\ f.attempt = flow[v].attempt
        /\ f.i = flow[v].i
    BY <1>0 DEF Flow
  <2> HIDE DEF f
  <2>7. PlaceAt("start", f) /\ OwnAt(v, f)
    BY <2>2, <2>6 DEF PlaceOK, PlaceAt, OwnOK, OwnAt
  <2> QED
    BY <1>0, <1>5, <2>2, <2>3, <2>5, <2>7 DEF Moved
<1>11. CASE authLogin(v) \/ teacherOverview(v)
  <2> DEFINE f == [flow[v] EXCEPT !.iter = @ + 1]
  <2>1. /\ flow' = [flow EXCEPT ![v] = f] /\ at' = at /\ at[v] = "ready"
        /\ flow[v].iter < MaxIterations
    BY <1>0, <1>11 DEF authLogin, teacherOverview, Iterating, NextIteration
  <2>2. f \in Flow
    BY <1>0, <1>6, <2>1 DEF Flow
  <2>3. /\ f.student = flow[v].student /\ f.complete = flow[v].complete
        /\ f.attempt = flow[v].attempt /\ f.i = flow[v].i
        /\ f.answers = flow[v].answers /\ f.pkg = flow[v].pkg
        /\ f.clean = flow[v].clean
    BY <1>0 DEF Flow
  <2> HIDE DEF f
  <2>4. PlaceAt("ready", f) /\ OwnAt(v, f)
    BY <2>1, <2>3 DEF PlaceOK, PlaceAt, OwnOK, OwnAt
  <2>5. Moved(v, "ready", f)
    BY <1>0, <2>1 DEF Moved
  <2> QED
    BY <1>0, <1>5, <2>2, <2>4, <2>5
<1> QED
  BY <1>7, <1>8, <1>9, <1>10, <1>11

\* What the VU keeps of a response is its student's attempt.
LEMMA HandleAttempt ==
    ASSUME FlowInv, NEW v \in VUs, NEW kind, NEW a, HandleMove(v, kind, a),
           (at[v] = "start" /\ Success(kind) /\ a \in AttemptIds) =>
               Exists(a) /\ attempts[a].student = flow[v].student,
           NEW label, NEW f, Moved(v, label, f)
    PROVE  OwnAt(v, f)
<1> USE DEF FlowInv
<1>0. flow[v] \in Flow /\ flow'[v] = f /\ OwnAt(v, flow[v])
  BY VUType, MovedFields DEF OwnOK
<1>1. ASSUME f.attempt = flow[v].attempt, f.student = flow[v].student
      PROVE  OwnAt(v, f)
  BY <1>0, <1>1 DEF OwnAt
<1>2. CASE at[v] = "start" /\ Success(kind) /\ Moved(v, AfterStart(v), WithAttempt(v, a))
  <2>1. f = WithAttempt(v, a)
    BY <1>0, <1>2, MovedFields
  <2>2. f.attempt = a /\ f.student = flow[v].student
    BY <1>0, <2>1 DEF WithAttempt, Flow
  <2> QED
    BY <1>0, <1>2, <2>2 DEF OwnAt
<1>3. ASSUME NEW l, NEW g, Moved(v, l, g),
             g.attempt = flow[v].attempt, g.student = flow[v].student
      PROVE  OwnAt(v, f)
  BY <1>0, <1>1, <1>3, MovedFields
<1> DEFINE ok == Success(kind)
<1> HIDE DEF ok
<1>4. /\ WithFailure(v).attempt = flow[v].attempt
      /\ WithFailure(v).student = flow[v].student
      /\ WithCheck(v, ok).attempt = flow[v].attempt
      /\ WithCheck(v, ok).student = flow[v].student
  BY <1>0 DEF WithFailure, WithCheck, Flow
<1>5. /\ WithAnswer(v, ok).attempt = flow[v].attempt
      /\ WithAnswer(v, ok).student = flow[v].student
      /\ WithSubmit(v, ok).attempt = flow[v].attempt
      /\ WithSubmit(v, ok).student = flow[v].student
  BY <1>0 DEF WithAnswer, WithSubmit, Flow
<1> QED
  BY <1>2, <1>3, <1>4, <1>5 DEF HandleMove, ok

\* A response to a start that is a success names the student's attempt.
LEMMA StartResponse ==
    ASSUME FlowInv, NEW v \in VUs, out[v] # None, at[v] = "start",
           Success(resp[out[v]].kind)
    PROVE  /\ resp[out[v]].kind = "started"
           /\ resp[out[v]].attempt = Blank \/ OwnAttempt(out[v], resp[out[v]].attempt)
           /\ req[out[v]].actor = flow[v].student
<1> USE DEF FlowInv, ServerInv
<1>1. out[v] \in Reqs /\ req[out[v]].op = "start" /\ req[out[v]].actor = flow[v].student
  BY VUType DEF WaitOK, Asked
<1>2. resp[out[v]].kind = "started"
  BY <1>1 DEF OpOK, Success
<1> QED
  BY <1>1, <1>2 DEF StartsOK

LEMMA LaterSteps ==
    ASSUME FlowInv, NEW v \in VUs,
           Receive(v) \/ Refused(v) \/ GiveUp(v) \/ Interrupt(v)
    PROVE  \E label \in Labels, f \in Flow : Goes(v, label, f)
<1> USE DEF FlowInv
<1>0. /\ flow[v] \in Flow /\ PlaceOK(v) /\ out[v] \in Reqs \cup {None}
      /\ out \in [VUs -> Reqs \cup {None}]
  BY VUType DEF FlowTypeOK
<1>1. ASSUME NEW kind, NEW a \in AttemptIds \cup {None, Blank}, Handle(v, kind, a),
             at[v] = "start" /\ Success(kind) => a \in AttemptIds \cup {Blank},
             (at[v] = "start" /\ Success(kind) /\ a \in AttemptIds) =>
                 Exists(a) /\ attempts[a].student = flow[v].student,
             out' = [out EXCEPT ![v] = None], scenario' = scenario,
             UNCHANGED server \/ (out[v] \in Reqs /\ Release(out[v]))
      PROVE  \E label \in Labels, f \in Flow : Goes(v, label, f)
  <2>1. HandleMove(v, kind, a) /\ Counted
    BY <1>1, HandleMoves
  <2>2. PICK label \in Labels, f \in Flow : PlaceAt(label, f) /\ Moved(v, label, f)
    BY <1>0, <1>1, <2>1, HandlePlace
  <2>3. OwnAt(v, f)
    BY <1>1, <2>1, <2>2, HandleAttempt
  <2> QED
    BY <1>1, <2>1, <2>2, <2>3 DEF Goes
<1>2. ~ Success("error") /\ None \in AttemptIds \cup {None, Blank}
  BY DEF Success
<1>3. CASE Receive(v)
  <2>1. /\ out[v] \in Reqs /\ out[v] # None
        /\ Handle(v, resp[out[v]].kind, resp[out[v]].attempt)
        /\ Release(out[v]) /\ out' = [out EXCEPT ![v] = None] /\ scenario' = scenario
    BY <1>0, <1>3 DEF Receive
  <2>2. resp[out[v]].attempt \in AttemptIds \cup {None, Blank}
    BY <2>1 DEF ServerInv, TypeInv, TypeOK, Response
  <2>3. ASSUME at[v] = "start", Success(resp[out[v]].kind)
        PROVE  /\ resp[out[v]].attempt \in AttemptIds \cup {Blank}
               /\ (resp[out[v]].attempt \in AttemptIds =>
                     /\ Exists(resp[out[v]].attempt)
                     /\ attempts[resp[out[v]].attempt].student = flow[v].student)
    BY <2>1, <2>3, StartResponse, ConstantsAssumption DEF OwnAttempt
  <2> QED
    BY <1>1, <2>1, <2>2, <2>3
<1>4. CASE Refused(v)
  <2>1. /\ Handle(v, "error", None) /\ out[v] = None /\ out' = out
        /\ UNCHANGED server /\ scenario' = scenario
    BY <1>4 DEF Refused
  <2>2. out' = [out EXCEPT ![v] = None]
    BY <1>0, <2>1
  <2> QED
    BY <1>1, <1>2, <2>1, <2>2
<1>5. CASE GiveUp(v)
  <2>1. /\ Handle(v, "error", None) /\ out' = [out EXCEPT ![v] = None]
        /\ UNCHANGED server /\ scenario' = scenario
    BY <1>5 DEF GiveUp
  <2> QED
    BY <1>1, <1>2, <2>1
<1>6. CASE Interrupt(v)
  <2> DEFINE f == WithFailure(v)
  <2>1. Moved(v, "ready", f)
    BY <1>0, <1>6 DEF Interrupt, Moved, WithFailure, FlowTypeOK
  <2>2. f \in Flow /\ "ready" \in Labels
    BY <1>0, WithTypes DEF Labels
  <2>3. /\ f.pkg = flow[v].pkg /\ f.i = flow[v].i /\ f.answers = flow[v].answers
        /\ f.complete = flow[v].complete /\ f.attempt = flow[v].attempt
        /\ f.student = flow[v].student /\ ~ f.clean
    BY <1>0 DEF WithFailure, Flow
  <2> HIDE DEF f
  <2>4. PlaceAt("ready", f) /\ OwnAt(v, f)
    BY <1>0, <2>3 DEF PlaceOK, PlaceAt, OwnOK, OwnAt
  <2>5. /\ out' = [out EXCEPT ![v] = None] /\ UNCHANGED server
        /\ scenario' = scenario /\ Counted
    BY <1>6, NotCounted DEF Interrupt
  <2> QED
    BY <2>1, <2>2, <2>4, <2>5 DEF Goes
<1> QED
  BY <1>3, <1>4, <1>5, <1>6

LEMMA VUMoves ==
    ASSUME FlowInv, NEW v \in VUs, VUStep(v) \/ GiveUp(v) \/ Interrupt(v)
    PROVE  \/ \E r \in Reqs : Posts(v, r)
           \/ \E label \in Labels, f \in Flow : Goes(v, label, f)
  BY PostPosts, FirstSteps, LaterSteps DEF VUStep, PostCall

\* Attempts keep their student.
LEMMA MovesAttempt ==
    ASSUME FlowInv, NEW r \in Reqs, Moves(r), NEW w \in VUs, flow'[w] = flow[w]
    PROVE  OwnOK(w)'
<1>1. Write(r) /\ TypeInv /\ OwnAt(w, flow[w])
  BY StepWrites DEF Moves, FlowInv, ServerInv, OwnOK
<1> QED
  BY <1>1, WriteKeeps DEF OwnOK, OwnAt, Exists

LEMMA PostsInv ==
    ASSUME FlowInv, NEW v \in VUs, NEW r \in Reqs, Posts(v, r)
    PROVE  FlowInv'
<1> USE DEF FlowInv
<1>0. Moves(r) /\ pc[r] = "idle" /\ pc'[r] # "idle" /\ TypeInv
  BY StepLocal, BeginOp
  DEF Posts, Moves, ServerInv, Arrive, StartAttempt, SaveAnswerForActor,
      SaveAttemptDraft, SubmitAttemptForActor, SyncAttemptForActor
<1>1. ServerInv'
  BY <1>0, MovesServerInv
<1>2. FlowTypeOK'
  BY DEF Posts, FlowTypeOK
<1>3. r # None
  BY FlowAssumption
<1>4. \A w \in VUs : out[w] # r
  BY <1>0, <1>3 DEF WaitOK, Asked
<1>5. /\ out'[v] = r
      /\ \A w \in VUs \ {v} : out'[w] = out[w] /\ out[w] \in Reqs \cup {None}
  BY VUType DEF Posts, FlowTypeOK
<1>6. OutApart'
  BY <1>4, <1>5 DEF OutApart
<1>7. ASSUME NEW w \in VUs
      PROVE  PlaceOK(w)' /\ OwnOK(w)'
  BY <1>0, MovesAttempt DEF PlaceOK, Posts
<1>8. ASSUME NEW w \in VUs PROVE WaitOK(w)'
  <2>1. CASE w = v
    BY <1>0, <1>5, <2>1 DEF WaitOK, Asked, Posts
  <2>2. ASSUME w # v, out[w] # None PROVE WaitOK(w)'
    <3>1. out[w] \in Reqs /\ out[w] # r /\ out'[w] = out[w]
      BY <1>4, <1>5, <2>2
    <3>2. pc'[out[w]] = pc[out[w]] /\ req'[out[w]] = req[out[w]]
      BY <1>0, <3>1, OthersUnchanged DEF Moves
    <3> QED
      BY <2>2, <3>1, <3>2 DEF WaitOK, Asked, Posts
  <2>3. ASSUME w # v, out[w] = None PROVE WaitOK(w)'
    BY <1>5, <2>3 DEF WaitOK, Asked
  <2> QED
    BY <2>1, <2>2, <2>3
<1> QED
  BY <1>1, <1>2, <1>6, <1>7, <1>8

LEMMA GoesInv ==
    ASSUME FlowInv, NEW v \in VUs, NEW label \in Labels, NEW f \in Flow,
           Goes(v, label, f)
    PROVE  FlowInv'
<1> USE DEF FlowInv
<1>1. ServerInv' /\ UNCHANGED attempts
  <2>1. CASE UNCHANGED server
    BY <2>1 DEF server, vars, ServerInv, TypeInv, TypeOK, HandlersOK, HandlerOK,
       UnansweredOK, StartsOK, OwnAttempt, OneActivePerSlot, OpOK, OwnerOK,
       Exists, Target
  <2>2. CASE out[v] \in Reqs /\ Release(out[v])
    BY <2>2, ReleaseServerInv DEF Release
  <2> QED
    BY <2>1, <2>2 DEF Goes
<1>2. FlowTypeOK' /\ \A w \in VUs : PlaceOK(w)'
  <2>1. out' = [out EXCEPT ![v] = None] /\ Moved(v, label, f) /\ PlaceAt(label, f)
        /\ scenario' = scenario /\ Counted
    BY DEF Goes
  <2> QED
    BY <2>1, MovedInv
<1>3. /\ out'[v] = None /\ at'[v] = label /\ flow'[v] = f
      /\ \A w \in VUs \ {v} : /\ out'[w] = out[w] /\ at'[w] = at[w]
                              /\ flow'[w] = flow[w]
  BY MovedFields DEF Goes, FlowTypeOK
<1>4. OutApart'
  BY <1>3 DEF OutApart
<1>5. ASSUME NEW w \in VUs PROVE OwnOK(w)'
  <2>1. OwnAt(w, flow'[w])
    BY <1>3 DEF OwnOK, Goes
  <2> QED
    BY <1>1, <2>1 DEF OwnOK, OwnAt, Exists
<1>6. ASSUME NEW w \in VUs, out'[w] # None PROVE WaitOK(w)'
  <2>1. w # v /\ out'[w] = out[w] /\ out[w] \in Reqs
    BY <1>3, <1>6, VUType
  <2>2. pc'[out[w]] = pc[out[w]] /\ req'[out[w]] = req[out[w]]
    <3>1. CASE UNCHANGED server
      BY <3>1 DEF server, vars
    <3>2. CASE out[v] \in Reqs /\ Release(out[v])
      <4>1. out[w] # out[v]
        BY <1>6, <2>1 DEF OutApart
      <4> QED
        BY <2>1, <3>2, <4>1 DEF Release, ServerInv, TypeInv, TypeOK
    <3> QED
      BY <3>1, <3>2 DEF Goes
  <2> QED
    BY <1>3, <1>6, <2>1, <2>2 DEF WaitOK, Asked
<1>7. ASSUME NEW w \in VUs, out'[w] = None PROVE WaitOK(w)'
  BY <1>7 DEF WaitOK, Asked
<1> QED
  BY <1>1, <1>2, <1>4, <1>5, <1>6, <1>7

\* A step of a handler, or a response that nobody waits for.
LEMMA ServesInv ==
    ASSUME FlowInv, NEW r \in Reqs, UNCHANGED client,
           \/ Step(r) \/ Fail(r)
           \/ Release(r) /\ \A v \in VUs : out[v] # r
    PROVE  FlowInv'
<1> USE DEF FlowInv
<1>0. UNCHANGED <<scenario, at, flow, out, errors, failed>>
  BY DEF client
<1>1. FlowTypeOK' /\ OutApart' /\ \A v \in VUs : PlaceOK(v)'
  BY <1>0 DEF FlowTypeOK, OutApart, PlaceOK
<1>2. CASE Step(r) \/ Fail(r)
  <2>1. Moves(r) /\ TypeInv
    BY <1>2 DEF Moves, ServerInv
  <2>2. pc[r] # "idle" /\ pc'[r] # "idle" /\ req' = req
    <3>1. pc[r] # "idle"
      BY <1>2 DEF Step, Fail, RefuseStart, FindActiveAttempt, CreateAttempt,
         FindActiveAgain, AccessAttempt, ReadAttempt, SaveAttemptAnswer,
         SubmitAttempt, SyncUpdate, RereadAttempt, RereadSubmitted,
         UpdateAttemptScore, FinishSubmit, Abort, FindActiveFails, CreateFails
    <3> QED
      BY <2>1, <3>1, StepLocal DEF Moves
  <2>3. ASSUME NEW v \in VUs PROVE WaitOK(v)'
    <3>1. out[v] # None => pc'[out[v]] # "idle"
      <4>1. CASE out[v] = r
        BY <2>2, <4>1
      <4>2. CASE out[v] # r
        BY <2>1, <4>2, OthersUnchanged, VUType DEF Moves, WaitOK
      <4> QED
        BY <4>1, <4>2
    <3> QED
      BY <1>0, <2>2, <3>1 DEF WaitOK, Asked
  <2>4. ASSUME NEW v \in VUs PROVE OwnOK(v)'
    BY <1>0, <2>1, MovesAttempt
  <2>5. ServerInv'
    BY <2>1, MovesServerInv
  <2> QED
    BY <1>1, <2>3, <2>4, <2>5
<1>3. CASE Release(r) /\ \A v \in VUs : out[v] # r
  <2>1. ServerInv'
    BY <1>3, ReleaseServerInv
  <2>2. ASSUME NEW v \in VUs PROVE OwnOK(v)'
    BY <1>0, <1>3 DEF Release, OwnOK, OwnAt, Exists
  <2>3. ASSUME NEW v \in VUs PROVE WaitOK(v)'
    <3>1. out[v] # None =>
             pc'[out[v]] = pc[out[v]] /\ req'[out[v]] = req[out[v]]
      BY <1>3, VUType DEF Release, ServerInv, TypeInv, TypeOK
    <3> QED
      BY <1>0, <3>1 DEF WaitOK, Asked
  <2> QED
    BY <1>1, <2>1, <2>2, <2>3
<1> QED
  BY <1>2, <1>3

LEMMA StutterInv ==
    ASSUME FlowInv, UNCHANGED flowVars
    PROVE  FlowInv'
<1>1. UNCHANGED <<attempts, pc, req, seen, resp, scenario, at, flow, out, errors, failed>>
  BY DEF flowVars
<1>2. ServerInv'
  BY <1>1 DEF FlowInv, ServerInv, TypeInv, TypeOK, HandlersOK, HandlerOK,
     UnansweredOK, StartsOK, OwnAttempt, OneActivePerSlot, OpOK, OwnerOK,
     Exists, Target
<1> QED
  BY <1>1, <1>2
  DEF FlowInv, FlowTypeOK, OutApart, PlaceOK, WaitOK, Asked, OwnOK, OwnAt, Exists

LEMMA FlowInvInit == FlowInit => FlowInv
<1> SUFFICES ASSUME FlowInit PROVE FlowInv
  OBVIOUS
<1>1. /\ Init /\ scenario \in [VUs -> buildScenarios]
      /\ at = [v \in VUs |-> "ready"] /\ flow = [v \in VUs |-> NoFlow]
      /\ out = [v \in VUs |-> None] /\ errors = 0 /\ failed = 0
  BY DEF FlowInit
<1>2. TypeInv /\ UnansweredOK
  BY <1>1, InitTypeInv, InitUnanswered
<1>3. StartsOK /\ OneActivePerSlot /\ \A r \in Reqs : OpOK(r) /\ OwnerOK(r)
  BY <1>1 DEF Init, StartsOK, OneActivePerSlot, OpOK, OwnerOK, Exists, Reply,
     Located
<1>4. FlowTypeOK
  BY <1>1, NoFlowType DEF FlowTypeOK, Labels
<1>5. ASSUME NEW v \in VUs PROVE PlaceOK(v) /\ WaitOK(v) /\ OwnOK(v)
  <2>1. /\ NoFlow.attempt = None /\ NoFlow.i = 0 /\ ~ NoFlow.complete
        /\ 1 .. NoFlow.i = {} /\ NoFlow.student = None
        /\ ~ NoFlow.clean
    BY DEF NoFlow
  <2> QED
    BY <1>1, <2>1, ConstantsAssumption
    DEF PlaceOK, PlaceAt, WaitOK, OwnOK, OwnAt
<1>6. OutApart
  BY <1>1 DEF OutApart
<1> QED
  BY <1>2, <1>3, <1>4, <1>5, <1>6 DEF FlowInv, ServerInv

LEMMA FlowInvNext == FlowInv /\ [FlowNext]_flowVars => FlowInv'
<1> SUFFICES ASSUME FlowInv, [FlowNext]_flowVars PROVE FlowInv'
  OBVIOUS
<1>1. ASSUME NEW v \in VUs, VUStep(v) \/ GiveUp(v) \/ Interrupt(v)
      PROVE  FlowInv'
  BY <1>1, VUMoves, PostsInv, GoesInv
<1>2. ASSUME NEW r \in Reqs, Serve(r) \/ ServeFails(r) \/ Forget(r)
      PROVE  FlowInv'
  BY <1>2, ServesInv DEF Serve, ServeFails, Forget
<1> QED
  BY <1>1, <1>2, StutterInv DEF FlowNext, RunOver

\* The state of the load scenario keeps its types, and so does the server's,
\* for every configuration, failure and timeout: a VU names the attempt, the
\* question and the answer of its iteration, and every answer is an answer.
THEOREM FlowTypes == FlowSpec => []FlowTypeOK
<1>1. FlowInv => FlowTypeOK
  BY DEF FlowInv
<1> QED
  BY <1>1, FlowInvInit, FlowInvNext, PTL DEF FlowSpec

-----------------------------------------------------------------------------
(* Each VU works on attempts of its own.                                   *)

\* A number below the divisor is its own remainder.
LEMMA SmallRemainder ==
    ASSUME NEW n \in Nat, NEW m \in Nat, n < m
    PROVE  n % m = n
  OBVIOUS

\* A VU logs in with the line of its own number.
LEMMA PickedLine ==
    ASSUME OwnCredentials, NEW v \in VUs
    PROVE  /\ idInTest(v) \in 1 .. Len(credentials)
           /\ pickCredential(v) = credentials[idInTest(v)]
<1> DEFINE L == Len(credentials)
<1>0. credentials \in Seq(Students) /\ L \in Nat
  BY CredentialsAssumption
<1>1. idInTest(v) \in Nat /\ 1 <= idInTest(v) /\ idInTest(v) <= L
  BY <1>0, NumbersOK DEF VUs, idInTest, OwnCredentials
<1>2. idInTest(v) - 1 \in Nat /\ idInTest(v) - 1 < L
  BY <1>0, <1>1
<1>3. (idInTest(v) - 1) % L = idInTest(v) - 1
  BY <1>0, <1>2, SmallRemainder
<1>4. credentials # <<>>
  BY <1>1
<1>5. pickCredential(v) = credentials[((idInTest(v) - 1) % L) + 1]
  BY <1>4 DEF pickCredential
<1> QED
  BY <1>0, <1>1, <1>3, <1>5

\* No two VUs log in as the same student.
LEMMA OwnCredential ==
    ASSUME OwnCredentials, NEW v \in VUs, NEW w \in VUs,
           pickCredential(v) = pickCredential(w)
    PROVE  v = w
<1>1. idInTest(v) = idInTest(w)
  BY PickedLine DEF OwnCredentials
<1> QED
  BY <1>1 DEF VUs, idInTest, OwnCredentials

\* A VU that has an attempt has a student of its own.
LEMMA StudentsApart ==
    ASSUME OwnCredentials, FlowInv, NEW v \in VUs, NEW w \in VUs,
           flow[v].student # None, flow[v].student = flow[w].student
    PROVE  v = w
  BY OwnCredential DEF OwnCredentials, FlowInv, OwnOK, OwnAt

\* When every VU has a credential of its own, two VUs never work on the same
\* attempt, whatever fails, is lost or was left open (pickCredential,
\* StartAttempt).
THEOREM Exclusive == ASSUME OwnCredentials PROVE FlowSpec => []ExclusiveAttempts
<1>1. ASSUME FlowInv PROVE ExclusiveAttempts
  <2> SUFFICES ASSUME NEW v \in VUs, NEW w \in VUs,
                      flow[v].attempt \in AttemptIds,
                      flow[v].attempt = flow[w].attempt
               PROVE  v = w
    BY DEF ExclusiveAttempts
  <2>1. /\ Exists(flow[v].attempt)
        /\ attempts[flow[v].attempt].student = flow[v].student
        /\ attempts[flow[v].attempt].student = flow[w].student
    BY <1>1 DEF FlowInv, OwnOK, OwnAt
  <2>2. attempts[flow[v].attempt] \in Attempt
    BY <1>1, <2>1 DEF FlowInv, ServerInv, TypeInv, TypeOK, Exists
  <2>3. flow[v].student # None
    BY <2>1, <2>2, FlowAssumption DEF Attempt
  <2> QED
    BY <1>1, <2>1, <2>3, StudentsApart
<1> QED
  BY <1>1, FlowInvInit, FlowInvNext, PTL DEF FlowSpec

-----------------------------------------------------------------------------
(* An iteration whose checks passed delivered its answers.                 *)

\* How an iteration that still counts has gone on.
Keeps(v) ==
    /\ flow'[v].student = flow[v].student
    /\ flow'[v].late = flow[v].late
    /\ flow'[v].clean => flow[v].clean

Begins(v) ==
    /\ at[v] = "ready" /\ at'[v] = "dashboard"
    /\ flow'[v].late = LateRequest(flow'[v].student)

Reads(v) ==
    /\ at[v] \in {"dashboard", "package"} /\ at'[v] \in {"package", "start"}
    /\ Keeps(v)

Iterates(v) ==
    /\ at[v] = "ready" /\ at'[v] = "ready" /\ Keeps(v)
    /\ flow'[v].attempt = flow[v].attempt /\ flow'[v].answers = flow[v].answers
    /\ flow'[v].complete = flow[v].complete

\* A success was received.
HandleKeeps(v, kind, a) ==
    /\ Success(kind) /\ Keeps(v)
    /\ \/ /\ at[v] = "start" /\ at'[v] \in {"save", "sync"}
          /\ flow'[v].attempt = a
       \/ /\ at[v] \in {"save", "sync"} /\ at'[v] \in {"save", "sync", "submit"}
          /\ flow'[v].attempt = flow[v].attempt
       \/ /\ at[v] = "submit" /\ at'[v] = "ready"
          /\ flow'[v].attempt = flow[v].attempt
          /\ flow'[v].answers = flow[v].answers

Hears(v) ==
    /\ out[v] \in Reqs /\ pc[out[v]] = "done" /\ Release(out[v])
    /\ HandleKeeps(v, resp[out[v]].kind, resp[out[v]].attempt)

\* What a checked response leaves in the local variables.
LEMMA WithKeeps ==
    ASSUME NEW v \in VUs, flow[v] \in Flow, NEW ok, NEW f,
           f \in {WithAnswer(v, ok), WithCheck(v, ok), WithSubmit(v, ok)}
    PROVE  /\ f.clean => flow[v].clean /\ ok
           /\ f.student = flow[v].student /\ f.late = flow[v].late
           /\ f.attempt = flow[v].attempt
           /\ WithSubmit(v, ok).answers = flow[v].answers
<1> DEFINE Kept == /\ f.clean => flow[v].clean /\ ok
                   /\ f.student = flow[v].student /\ f.late = flow[v].late
                   /\ f.attempt = flow[v].attempt
<1>1. ASSUME f = WithAnswer(v, ok) PROVE Kept
  BY <1>1 DEF WithAnswer, Flow
<1>2. ASSUME f = WithCheck(v, ok) PROVE Kept
  BY <1>2 DEF WithCheck, Flow
<1>3. ASSUME f = WithSubmit(v, ok) PROVE Kept
  BY <1>3 DEF WithSubmit, Flow
<1>4. WithSubmit(v, ok).answers = flow[v].answers
  BY DEF WithSubmit, Flow
<1> QED
  BY <1>1, <1>2, <1>3, <1>4

LEMMA HandleHow ==
    ASSUME FlowTypeOK, NEW v \in VUs, NEW kind, NEW a, HandleMove(v, kind, a),
           flow'[v].clean
    PROVE  HandleKeeps(v, kind, a)
<1> DEFINE ok == Success(kind)
<1> HIDE DEF ok
<1>0. flow[v] \in Flow
  BY VUType
<1>1. CASE at[v] = "start" /\ ok /\ Moved(v, AfterStart(v), WithAttempt(v, a))
  <2>1. flow'[v] = WithAttempt(v, a) /\ at'[v] = AfterStart(v)
    BY <1>1, MovedFields
  <2>2. Keeps(v) /\ flow'[v].attempt = a
    BY <1>0, <2>1 DEF WithAttempt, Flow, Keeps
  <2> QED
    BY <1>1, <2>1, <2>2 DEF HandleKeeps, AfterStart, ok
<1>2. CASE Moved(v, "ready", WithFailure(v))
  <2>1. flow'[v] = WithFailure(v)
    BY <1>2, MovedFields
  <2> QED
    BY <1>0, <2>1 DEF WithFailure, Flow
<1>3. CASE at[v] = "save" /\ Moved(v, AfterAnswer(v), WithAnswer(v, ok))
  <2>1. flow'[v] = WithAnswer(v, ok) /\ at'[v] = AfterAnswer(v)
    BY <1>3, MovedFields
  <2>2. Keeps(v) /\ ok /\ flow'[v].attempt = flow[v].attempt
    BY <1>0, <2>1, WithKeeps DEF Keeps
  <2> QED
    BY <1>3, <2>1, <2>2 DEF HandleKeeps, AfterAnswer, ok
<1>4. CASE at[v] = "sync" /\ Moved(v, "submit", WithCheck(v, ok))
  <2>1. flow'[v] = WithCheck(v, ok) /\ at'[v] = "submit"
    BY <1>4, MovedFields
  <2>2. Keeps(v) /\ ok /\ flow'[v].attempt = flow[v].attempt
    BY <1>0, <2>1, WithKeeps DEF Keeps
  <2> QED
    BY <1>4, <2>1, <2>2 DEF HandleKeeps, ok
<1>5. CASE at[v] = "submit" /\ Moved(v, "ready", WithSubmit(v, ok))
  <2>1. flow'[v] = WithSubmit(v, ok) /\ at'[v] = "ready"
    BY <1>5, MovedFields
  <2>2. Keeps(v) /\ ok /\ flow'[v].attempt = flow[v].attempt
    BY <1>0, <2>1, WithKeeps DEF Keeps
  <2>3. flow'[v].answers = flow[v].answers
    BY <1>0, <2>1, WithKeeps
  <2> QED
    BY <1>5, <2>1, <2>2, <2>3 DEF HandleKeeps, ok
<1> QED
  BY <1>1, <1>2, <1>3, <1>4, <1>5 DEF HandleMove, ok

LEMMA VUHow ==
    ASSUME FlowInv, NEW v \in VUs, flow'[v].clean,
           \/ NoToken(v) \/ BeginExam(v) \/ StudentDashboard(v) \/ QuizPackage(v)
           \/ authLogin(v) \/ teacherOverview(v)
           \/ Receive(v) \/ Refused(v) \/ GiveUp(v) \/ Interrupt(v)
    PROVE  Begins(v) \/ Reads(v) \/ Iterates(v) \/ Hears(v)
<1> USE DEF FlowInv
<1>0. /\ flow[v] \in Flow /\ flow \in [VUs -> Flow] /\ at \in [VUs -> Labels]
      /\ out[v] \in Reqs \cup {None}
  BY VUType DEF FlowTypeOK
<1>1. ~ NoToken(v)
  BY <1>0 DEF NoToken, NoFlow
<1>2. CASE BeginExam(v)
  <2>1. PICK ok \in CallResults :
           LET t == studentToken(v, ok)
           IN  flow' = [flow EXCEPT ![v] =
                    [NoFlow EXCEPT !.iter = flow[v].iter + 1,
                                   !.student = t.token, !.clean = TRUE,
                                   !.late = LateRequest(t.token)]]
    BY <1>2 DEF BeginExam
  <2> DEFINE token == studentToken(v, ok).token
             late == LateRequest(token)
  <2>2. flow'[v] = [NoFlow EXCEPT !.iter = flow[v].iter + 1, !.student = token,
                                  !.clean = TRUE, !.late = late]
    BY <1>0, <2>1
  <2> HIDE DEF token, late
  <2>3. flow'[v].student = token /\ flow'[v].late = late
    BY <2>2 DEF NoFlow
  <2>4. at[v] = "ready" /\ at'[v] = "dashboard"
    BY <1>0, <1>2 DEF BeginExam, Iterating
  <2> QED
    BY <2>3, <2>4 DEF Begins, late
<1>3. CASE StudentDashboard(v)
  BY <1>0, <1>3 DEF StudentDashboard, Reads, Keeps
<1>4. CASE QuizPackage(v)
  <2>1. PICK ok \in CallResults :
           flow' = [flow EXCEPT ![v].pkg = packageInfo(ok), ![v].clean = @ /\ ok]
    BY <1>4 DEF QuizPackage
  <2>2. Keeps(v)
    BY <1>0, <2>1 DEF Keeps, Flow
  <2>3. at[v] = "package" /\ at'[v] = "start"
    BY <1>0, <1>4 DEF QuizPackage
  <2> QED
    BY <2>2, <2>3 DEF Reads
<1>5. CASE authLogin(v) \/ teacherOverview(v)
  <2>1. /\ flow' = [flow EXCEPT ![v].iter = @ + 1] /\ at' = at /\ at[v] = "ready"
    BY <1>5 DEF authLogin, teacherOverview, Iterating, NextIteration
  <2> QED
    BY <1>0, <2>1 DEF Iterates, Keeps, Flow
<1>6. CASE Receive(v)
  <2>1. /\ out[v] \in Reqs /\ pc[out[v]] = "done" /\ Release(out[v])
        /\ HandleMove(v, resp[out[v]].kind, resp[out[v]].attempt)
    BY <1>0, <1>6, HandleMoves DEF Receive
  <2>2. HandleKeeps(v, resp[out[v]].kind, resp[out[v]].attempt)
    BY <2>1, HandleHow
  <2> QED
    BY <2>1, <2>2 DEF Hears
<1>7. ~ Refused(v) /\ ~ GiveUp(v)
  <2>1. ASSUME Handle(v, "error", None) PROVE FALSE
    BY <2>1, HandleMoves, HandleHow DEF HandleKeeps, Success
  <2> QED
    BY <2>1 DEF Refused, GiveUp
<1>8. ~ Interrupt(v)
  BY <1>0 DEF Interrupt, Flow
<1> QED
  BY <1>1, <1>2, <1>3, <1>4, <1>5, <1>6, <1>7, <1>8

\* The attempts of a student are as they were.
StudentKept(s) ==
    \A a \in AttemptIds :
        \/ attempts[a] # None /\ attempts[a].student = s
        \/ attempts'[a] # None /\ attempts'[a].student = s
        => attempts'[a] = attempts[a]

\* A handler only touches the attempts of its actor.
LEMMA MovesOthersKept ==
    ASSUME ServerInv, NEW r \in Reqs, Step(r) \/ Fail(r), NEW s, req[r].actor # s
    PROVE  StudentKept(s)
<1> USE DEF ServerInv
<1>0. Write(r)
  BY StepWrites
<1>1. CASE UNCHANGED attempts
  BY <1>1 DEF StudentKept
<1>2. CASE pc[r] = "create" /\ \E b \in AttemptIds : Insert(r, b)
  <2>1. PICK b \in AttemptIds : Insert(r, b)
    BY <1>2
  <2>2. /\ attempts[b] = None /\ attempts'[b] = NewAttempt(r)
        /\ \A a \in AttemptIds \ {b} : attempts'[a] = attempts[a]
    BY <2>1 DEF Insert, Exists, TypeInv, TypeOK
  <2>3. NewAttempt(r).student = req[r].actor
    BY DEF NewAttempt
  <2> QED
    BY <2>2, <2>3 DEF StudentKept
<1>3. CASE pc[r] \in Located
  <2>1. /\ req[r].attempt \in AttemptIds /\ Exists(req[r].attempt)
        /\ attempts[req[r].attempt].student = req[r].actor
    BY <1>3 DEF TypeInv, HandlersOK, HandlerOK, OwnerOK, Target
  <2>2. attempts'[req[r].attempt].student = req[r].actor
    BY <1>0, <2>1, WriteKeeps
  <2>3. \A a \in AttemptIds \ {req[r].attempt} : attempts'[a] = attempts[a]
    BY <1>0, <1>3 DEF Write, AnswerWrite, SubmitWrite, StatusWrite, ScoreWrite,
       Replace, TypeInv, TypeOK, Located
  <2> QED
    BY <2>1, <2>2, <2>3 DEF StudentKept
<1> QED
  BY <1>0, <1>1, <1>2, <1>3 DEF Write, AnswerWrite, SubmitWrite, StatusWrite,
     ScoreWrite, Located

\* What v relies on stays when its own request and the attempts of its student
\* are as they were.
LEMMA WorkStays ==
    ASSUME FlowInv, NEW v \in VUs, WorkOK(v), StudentKept(flow[v].student),
           at'[v] = at[v], out'[v] = out[v],
           flow'[v].student = flow[v].student,
           flow'[v].attempt = flow[v].attempt,
           flow'[v].answers = flow[v].answers,
           flow'[v].complete = flow[v].complete,
           out[v] # None => /\ pc'[out[v]] = pc[out[v]]
                            /\ resp'[out[v]] = resp[out[v]]
                            /\ seen'[out[v]] = seen[out[v]]
    PROVE  WorkOK(v)'
<1> USE DEF FlowInv
<1>1. flow[v].attempt \in AttemptIds =>
          attempts'[flow[v].attempt] = attempts[flow[v].attempt]
  BY DEF OwnOK, OwnAt, StudentKept, Exists
<1>2. StartedOpen(v)'
  <2> SUFFICES ASSUME at[v] = "start", out[v] # None,
                      resp[out[v]].kind = "started",
                      resp[out[v]].attempt \in AttemptIds
               PROVE  OpenAt(resp[out[v]].attempt)'
    BY DEF StartedOpen
  <2>1. Success(resp[out[v]].kind)
    BY DEF Success
  <2>2. /\ OwnAttempt(out[v], resp[out[v]].attempt)
        /\ req[out[v]].actor = flow[v].student
    BY <2>1, StartResponse, ConstantsAssumption
  <2>3. attempts'[resp[out[v]].attempt] = attempts[resp[out[v]].attempt]
    BY <2>2 DEF OwnAttempt, StudentKept, Exists
  <2> QED
    BY <2>3 DEF WorkOK, StartedOpen, OpenAt
<1>3. StillOpen(v)'
  BY <1>1 DEF WorkOK, StillOpen, Submitting, OpenAt
<1>4. ASSUME flow[v].attempt \in AttemptIds, Handed(v)
      PROVE  Handed(v)'
  <2>1. ASSUME NEW a \in ActiveAttempts(flow[v].student, AssignmentID, QuizID)'
        PROVE  a \in ActiveAttempts(flow[v].student, AssignmentID, QuizID)
    BY <2>1 DEF ActiveAttempts, Exists, StudentKept
  <2> QED
    BY <1>1, <1>4, <2>1 DEF Handed, Answered
<1>5. GradingOK(v)'
  <2>1. Submitting(v) => flow[v].attempt \in AttemptIds
    BY DEF Submitting, WaitOK, Asked
  <2> QED
    BY <1>1, <1>4, <2>1 DEF WorkOK, GradingOK, Submitting, Graded
<1>6. DoneOK(v)'
  BY <1>1, <1>4 DEF WorkOK, DoneOK, Graded
<1> QED
  BY <1>2, <1>3, <1>5, <1>6 DEF WorkOK

\* The request v waits for is served.
LEMMA StartServed ==
    ASSUME FlowInv, NEW v \in VUs, NEW r \in Reqs, out[v] = r, r # None,
           at[v] = "start", Step(r) \/ Fail(r), UNCHANGED client
    PROVE  WorkOK(v)'
<1> USE DEF FlowInv, ServerInv
<1>0. UNCHANGED <<at, flow, out>>
  BY DEF client
<1>1. /\ req[r].actor = flow[v].student
      /\ req[r].assignment = AssignmentID /\ req[r].quiz = QuizID
  BY DEF WaitOK, Asked
<1>2. ASSUME NEW a \in AttemptIds, resp'[r].kind = "started", resp'[r].attempt = a
      PROVE  OpenAt(a)'
  <2>1. \/ a \in Active(r) /\ UNCHANGED attempts
        \/ pc[r] = "create" /\ Insert(r, a)
    BY <1>2, ReachStarted, ConstantsAssumption
  <2>2. CASE a \in Active(r) /\ UNCHANGED attempts
    BY <1>1, <2>1, <2>2 DEF Active, ActiveAttempts, OpenAt
  <2>3. CASE Insert(r, a)
    <3>1. attempts'[a] = NewAttempt(r)
      BY <2>3 DEF Insert, TypeInv, TypeOK
    <3>2. /\ attempts'[a].assignment = AssignmentID
          /\ attempts'[a].quiz = QuizID
          /\ attempts'[a].status = "in_progress"
      BY <1>1, <3>1 DEF NewAttempt
    <3> QED
      BY <3>2 DEF OpenAt
  <2> QED
    BY <2>1, <2>2, <2>3
<1> QED
  BY <1>0, <1>2 DEF WorkOK, StartedOpen, StillOpen, GradingOK, DoneOK, Submitting,
     OpenAt

\* A save leaves the status alone, and a sync of the script writes in_progress.
LEMMA SaveServed ==
    ASSUME FlowInv, NEW v \in VUs, WorkOK(v), NEW r \in Reqs, out[v] = r, r # None,
           at[v] \in {"save", "sync"}, Step(r) \/ Fail(r), UNCHANGED client
    PROVE  WorkOK(v)'
<1> USE DEF FlowInv, ServerInv
<1> DEFINE a == flow[v].attempt
<1>0. UNCHANGED <<at, flow, out>>
  BY DEF client
<1>1. /\ req[r].op = at[v] /\ req[r].attempt = a /\ a \in AttemptIds
      /\ at[v] = "sync" => req[r].status = "in_progress"
  BY DEF WaitOK, Asked
<1>2. Exists(a) /\ OpenAt(a)
  BY <1>1 DEF OwnOK, OwnAt, WorkOK, StillOpen, Submitting
<1>3. Write(r) /\ TypeInv
  BY StepWrites
<1>4. pc[r] # "create" /\ pc[r] # "score"
  BY <1>1 DEF OpOK, TypeInv, HandlersOK, HandlerOK
<1> HIDE DEF a
<1>5. attempts'[a].status = "in_progress"
  <2>1. CASE UNCHANGED attempts
    BY <1>2, <2>1 DEF OpenAt
  <2>2. CASE AnswerWrite(r)
    <3>1. attempts' = [attempts EXCEPT ![a] = [Target(r) EXCEPT !.answers = Merged(r)]]
      BY <1>1, <2>2 DEF AnswerWrite, Replace
    <3>2. attempts[a] \in Attempt
      BY <1>1, <1>2, <1>3 DEF TypeInv, TypeOK, Exists
    <3> QED
      BY <1>1, <1>2, <1>3, <3>1, <3>2 DEF OpenAt, Target, Attempt, TypeInv, TypeOK
  <2>3. CASE StatusWrite(r)
    <3>1. attempts' = [attempts EXCEPT ![a] =
                          [Target(r) EXCEPT !.status = "in_progress"]]
      BY <1>1, <2>3 DEF StatusWrite, Replace
    <3>2. attempts[a] \in Attempt
      BY <1>1, <1>2, <1>3 DEF TypeInv, TypeOK, Exists
    <3> QED
      BY <1>1, <1>2, <1>3, <3>1, <3>2 DEF OpenAt, Target, Attempt, TypeInv, TypeOK
  <2> QED
    BY <1>1, <1>3, <1>4, <2>1, <2>2, <2>3 DEF Write, SubmitWrite, ScoreWrite
<1>6. OpenAt(flow[v].attempt)'
  BY <1>0, <1>1, <1>2, <1>3, <1>5, WriteKeeps DEF OpenAt, a
<1> QED
  BY <1>0, <1>6 DEF WorkOK, StartedOpen, StillOpen, GradingOK, DoneOK, Submitting

\* The write of a submit closes the one open attempt of the slot.
LEMMA SubmitWritten ==
    ASSUME FlowInv, NEW v \in VUs, NEW r \in Reqs, out[v] = r, r # None,
           at[v] = "submit", NEW a, flow[v].attempt = a, OpenAt(a),
           SubmitAttempt(r), UNCHANGED client
    PROVE  Handed(v)' /\ seen'[r].did /\ pc'[r] = "reread" /\ resp' = resp
<1> USE DEF FlowInv, ServerInv
<1>0. UNCHANGED <<at, flow, out>>
  BY DEF client
<1>1. /\ req[r].op = "submit" /\ req[r].attempt = a /\ a \in AttemptIds
      /\ req[r].answers = flow[v].answers
  BY DEF WaitOK, Asked
<1>2. /\ Exists(a) /\ attempts[a].student = flow[v].student
      /\ attempts[a] \in Attempt
  BY <1>1 DEF OwnOK, OwnAt, TypeInv, TypeOK, Exists
<1>3. Matches(a)
  BY DEF OpenAt, Matches, Unsubmitted
<1>4. /\ attempts' = [attempts EXCEPT ![a].status = "submitted",
                                      ![a].answers = SetAnswers(@, req[r].answers)]
      /\ Continue(r, "reread", [Unseen EXCEPT !.did = TRUE])
  BY <1>1, <1>3 DEF SubmitAttempt
<1>5. pc'[r] = "reread" /\ resp' = resp /\ seen'[r].did
  <2> DEFINE keep == [Unseen EXCEPT !.did = TRUE]
  <2>1. keep.did
    BY DEF Unseen
  <2> HIDE DEF keep
  <2>2. Continue(r, "reread", keep)
    BY <1>4 DEF keep
  <2>3. pc'[r] = "reread" /\ resp' = resp /\ seen'[r] = keep
    BY <2>2, ContinueOp
  <2> QED
    BY <2>1, <2>3
<1>6. /\ attempts'[a].status = "submitted"
      /\ attempts'[a].answers = SetAnswers(attempts[a].answers, req[r].answers)
      /\ \A b \in AttemptIds \ {a} : attempts'[b] = attempts[b]
  BY <1>1, <1>2, <1>4 DEF TypeInv, TypeOK, Attempt
<1>7. ASSUME NEW q \in Answered(flow[v].answers)
      PROVE  attempts'[a].answers[q] = flow[v].answers[q]
  BY <1>1, <1>6, <1>7 DEF SetAnswers, Answered
<1>8. ASSUME NEW b \in AttemptIds, attempts'[b] # None,
             attempts'[b].student = flow[v].student,
             attempts'[b].assignment = AssignmentID,
             attempts'[b].quiz = QuizID,
             attempts'[b].status = "in_progress"
      PROVE  FALSE
  <2>1. b # a
    BY <1>6, <1>8
  <2>2. attempts'[b] = attempts[b] /\ Exists(b)
    BY <1>6, <1>8, <2>1 DEF Exists
  <2> QED
    BY <1>1, <1>2, <1>8, <2>1, <2>2 DEF OneActivePerSlot, OpenAt
<1>9. ActiveAttempts(flow[v].student, AssignmentID, QuizID)' = {}
  BY <1>0, <1>8 DEF ActiveAttempts, Exists
<1> QED
  BY <1>0, <1>5, <1>6, <1>7, <1>9 DEF Handed

LEMMA SubmitServed ==
    ASSUME FlowInv, NEW v \in VUs, WorkOK(v), NEW r \in Reqs, out[v] = r, r # None,
           at[v] = "submit", NEW a, flow[v].attempt = a,
           Step(r) \/ Fail(r), UNCHANGED client
    PROVE  WorkOK(v)'
<1> USE DEF FlowInv, ServerInv
<1>0. UNCHANGED <<at, flow, out>>
  BY DEF client
<1>1. /\ req[r].op = "submit" /\ req[r].attempt = a /\ a \in AttemptIds
  BY DEF WaitOK, Asked
<1>2. /\ Exists(a) /\ attempts[a] \in Attempt
  BY <1>1 DEF OwnOK, OwnAt, TypeInv, TypeOK, Exists
<1>3. /\ pc[r] \notin {"find", "create", "findAgain"}
      /\ pc[r] # "done" => resp[r].kind # "result"
  BY <1>1 DEF OpOK, UnansweredOK
<1>4. /\ pc[r] \in {"access", "read", "write"} => OpenAt(a)
      /\ pc[r] \in {"reread", "score", "rescored"} => Handed(v)
      /\ pc[r] = "reread" => seen[r].did
      /\ pc[r] = "score" => seen[r].count = NumAnswers(attempts[a].answers)
      /\ pc[r] = "rescored" => Graded(a)
  BY <1>1 DEF WorkOK, StillOpen, GradingOK, Submitting
<1>5. ASSUME pc'[r] \in {"access", "read", "write"} => OpenAt(a)',
             pc'[r] \in {"reread", "score", "rescored"} \/ resp'[r].kind = "result"
                 => Handed(v)',
             pc'[r] = "reread" => seen'[r].did,
             pc'[r] = "score" => seen'[r].count = NumAnswers(attempts'[a].answers),
             pc'[r] = "rescored" \/ resp'[r].kind = "result" => Graded(a)'
      PROVE  WorkOK(v)'
  BY <1>0, <1>5 DEF WorkOK, StartedOpen, StillOpen, GradingOK, DoneOK, Submitting,
     OpenAt, Graded
<1>6. ASSUME NEW k, NEW b, Finish(r, Reply(k, b)), k # "result" PROVE WorkOK(v)'
  BY <1>5, <1>6, FinishOp, ReplyKind
<1>7. ASSUME UNCHANGED attempts
      PROVE  /\ OpenAt(a) => OpenAt(a)'
             /\ Handed(v) => Handed(v)'
             /\ Graded(a) => Graded(a)'
  BY <1>0, <1>7 DEF OpenAt, Handed, Graded, ActiveAttempts, Exists
<1>8. CASE Fail(r)
  BY <1>3, <1>6, <1>8 DEF Fail, Abort, FindActiveFails, CreateFails
<1>9. CASE AccessAttempt(r) \/ ReadAttempt(r)
  <2>1. /\ UNCHANGED attempts /\ OpenAt(a) /\ pc[r] # "done"
    BY <1>4, <1>9 DEF AccessAttempt, ReadAttempt
  <2>2. Target(r).status # "submitted" /\ ~ HashMismatch(r)
    BY <1>1, <2>1 DEF Target, OpenAt, HashMismatch
  <2>3. ASSUME NEW label \in {"read", "write"}, NEW keep, Continue(r, label, keep)
        PROVE  WorkOK(v)'
    BY <1>3, <1>5, <1>7, <2>1, <2>3, ContinueOp
  <2>4. ASSUME NEW next \in {"read", "write"}, CheckRead(r, next)
        PROVE  WorkOK(v)'
    BY <2>2, <2>3, <2>4 DEF CheckRead
  <2> QED
    BY <1>1, <1>6, <1>9, <2>4 DEF AccessAttempt, ReadAttempt
<1>10. CASE SubmitAttempt(r)
  <2>1. OpenAt(a) /\ pc[r] # "done"
    BY <1>4, <1>10 DEF SubmitAttempt
  <2>2. Handed(v)' /\ seen'[r].did /\ pc'[r] = "reread" /\ resp' = resp
    BY <1>10, <2>1, SubmitWritten
  <2> QED
    BY <1>3, <1>5, <2>1, <2>2
<1>11. CASE RereadSubmitted(r)
  <2>1. /\ UNCHANGED attempts /\ Handed(v) /\ pc[r] # "done"
        /\ Continue(r, "score", [Unseen EXCEPT !.count = NumAnswers(Target(r).answers)])
    BY <1>4, <1>11 DEF RereadSubmitted
  <2>2. /\ pc'[r] = "score" /\ resp' = resp
        /\ seen'[r].count = NumAnswers(attempts[a].answers)
    <3> DEFINE keep == [Unseen EXCEPT !.count = NumAnswers(Target(r).answers)]
    <3>1. keep.count = NumAnswers(attempts[a].answers)
      BY <1>1 DEF Unseen, Target
    <3>2. Continue(r, "score", keep)
      BY <2>1
    <3> HIDE DEF keep
    <3> QED
      BY <3>1, <3>2, ContinueOp
  <2>3. Handed(v)' /\ NumAnswers(attempts'[a].answers) = NumAnswers(attempts[a].answers)
    BY <1>7, <2>1
  <2> QED
    BY <1>3, <1>5, <2>1, <2>2, <2>3
<1>12. CASE UpdateAttemptScore(r)
  <2>1. /\ Handed(v) /\ pc[r] # "done"
        /\ seen[r].count = NumAnswers(attempts[a].answers)
        /\ attempts' = [attempts EXCEPT ![a].score = Grade(seen[r].count)]
        /\ Continue(r, "rescored", Unseen)
    BY <1>1, <1>4, <1>12 DEF UpdateAttemptScore
  <2>2. /\ attempts'[a].score = Grade(seen[r].count)
        /\ attempts'[a].answers = attempts[a].answers
        /\ attempts'[a].status = attempts[a].status
        /\ attempts'[a] # None
        /\ \A b \in AttemptIds \ {a} : attempts'[b] = attempts[b]
    <3>1. Write(r)
      BY StepWrites
    <3>2. attempts'[a] # None
      BY <1>1, <1>2, <3>1, WriteKeeps DEF Exists
    <3> QED
      BY <1>1, <1>2, <2>1, <3>2 DEF TypeInv, TypeOK, Attempt
  <2>3. Graded(a)'
    BY <2>1, <2>2 DEF Graded
  <2>4. ASSUME NEW b \in ActiveAttempts(flow[v].student, AssignmentID, QuizID)'
        PROVE  FALSE
    <3>1. /\ b \in AttemptIds /\ attempts'[b] # None
          /\ attempts'[b].student = flow[v].student
          /\ attempts'[b].assignment = AssignmentID /\ attempts'[b].quiz = QuizID
          /\ attempts'[b].status = "in_progress"
      BY <1>0, <2>4 DEF ActiveAttempts, Exists
    <3>2. attempts[a].status = "submitted"
      BY <2>1 DEF Handed
    <3>3. b # a
      BY <2>2, <3>1, <3>2
    <3>4. b \in ActiveAttempts(flow[v].student, AssignmentID, QuizID)
      BY <2>2, <3>1, <3>3 DEF ActiveAttempts, Exists
    <3> QED
      BY <2>1, <3>4 DEF Handed
  <2>5. Handed(v)'
    BY <1>0, <2>1, <2>2, <2>4 DEF Handed
  <2>6. pc'[r] = "rescored" /\ resp' = resp
    BY <2>1, ContinueOp
  <2> QED
    BY <1>3, <1>5, <2>1, <2>3, <2>5, <2>6
<1>13. CASE FinishSubmit(r)
  <2>1. /\ UNCHANGED attempts /\ Handed(v) /\ Graded(a)
        /\ Finish(r, [Result(r) EXCEPT !.audited = TRUE])
    BY <1>4, <1>13 DEF FinishSubmit
  <2>2. pc'[r] = "done"
    BY <2>1, FinishOp
  <2> QED
    BY <1>5, <1>7, <2>1, <2>2
<1>14. /\ ~ RefuseStart(r) /\ ~ FindActiveAttempt(r) /\ ~ CreateAttempt(r)
       /\ ~ FindActiveAgain(r) /\ ~ SaveAttemptAnswer(r) /\ ~ SyncUpdate(r)
       /\ ~ RereadAttempt(r)
  BY <1>1, <1>3 DEF RefuseStart, FindActiveAttempt, CreateAttempt,
     FindActiveAgain, SaveAttemptAnswer, SyncUpdate, RereadAttempt
<1> QED
  BY <1>8, <1>9, <1>10, <1>11, <1>12, <1>13, <1>14 DEF Step

\* A handler takes a step.
LEMMA ServesDelivery ==
    ASSUME FlowInv, NEW v \in VUs, Alone(v), WorkOK(v),
           NEW r \in Reqs, Step(r) \/ Fail(r), UNCHANGED client
    PROVE  Alone(v)' /\ WorkOK(v)'
<1> USE DEF FlowInv
<1>0. /\ UNCHANGED <<at, flow, out>>
      /\ ServerInv /\ TypeInv /\ Moves(r)
  BY DEF client, ServerInv, Moves
<1>1. pc[r] \notin {"idle", "done"}
  BY DEF Step, Fail, RefuseStart, FindActiveAttempt, CreateAttempt,
     FindActiveAgain, AccessAttempt, ReadAttempt, SaveAttemptAnswer,
     SubmitAttempt, SyncUpdate, RereadAttempt, RereadSubmitted,
     UpdateAttemptScore, FinishSubmit, Abort, FindActiveFails, CreateFails
<1>2. /\ req' = req
      /\ \A x \in Reqs \ {r} : /\ pc'[x] = pc[x] /\ resp'[x] = resp[x]
                               /\ seen'[x] = seen[x]
  BY <1>0, <1>1, StepLocal, OthersUnchanged DEF Moves
<1>3. Alone(v)'
  BY <1>0, <1>1, <1>2 DEF Alone
<1>4. CASE out[v] # r
  <2>1. req[r].actor # flow[v].student
    BY <1>1, <1>4 DEF Alone
  <2>2. StudentKept(flow[v].student)
    BY <1>0, <2>1, MovesOthersKept
  <2>3. out[v] # None => out[v] \in Reqs \ {r}
    BY <1>4, VUType
  <2> QED
    BY <1>0, <1>2, <1>3, <2>2, <2>3, WorkStays
<1>5. CASE out[v] = r
  <2>1. r # None /\ at[v] \in {"start", "save", "sync", "submit"}
    BY <1>5, FlowAssumption DEF WaitOK, Calls
  <2>2. CASE at[v] = "start"
    BY <1>3, <1>5, <2>1, <2>2, StartServed
  <2>3. CASE at[v] \in {"save", "sync"}
    BY <1>3, <1>5, <2>1, <2>3, SaveServed
  <2>4. CASE at[v] = "submit"
    BY <1>3, <1>5, <2>1, <2>4, SubmitServed
  <2> QED
    BY <2>1, <2>2, <2>3, <2>4
<1> QED
  BY <1>4, <1>5

\* A VU posts a call: it is the only one of its student.
LEMMA PostsDelivery ==
    ASSUME OwnCredentials, FlowInv, NEW v \in VUs, flow[v].student # None,
           Alone(v), WorkOK(v), NEW w \in VUs, NEW r \in Reqs, Posts(w, r)
    PROVE  Alone(v)' /\ WorkOK(v)'
<1> USE DEF FlowInv
<1>0. /\ Moves(r) /\ TypeInv /\ UnansweredOK
      /\ pc[r] = "idle" /\ pc'[r] \in {"find", "access"}
      /\ resp' = resp /\ attempts' = attempts
  <2>1. Moves(r) /\ TypeInv /\ UnansweredOK
    BY DEF Posts, Moves, ServerInv
  <2>2. ASSUME NEW request, NEW label \in {"find", "access"},
               Begin(r, request, label)
        PROVE  /\ pc[r] = "idle" /\ pc'[r] \in {"find", "access"}
               /\ resp' = resp /\ attempts' = attempts
    BY <2>1, <2>2, BeginOp
  <2> QED
    BY <2>1, <2>2
    DEF Posts, Arrive, StartAttempt, SaveAnswerForActor, SaveAttemptDraft,
        SubmitAttemptForActor, SyncAttemptForActor
<1>1. r # None /\ None \notin Reqs
  BY FlowAssumption
<1>2. \A u \in VUs : out[u] # r
  BY <1>0, <1>1 DEF WaitOK
<1>3. /\ out'[w] = r /\ at' = at /\ flow' = flow
      /\ \A u \in VUs \ {w} : out'[u] = out[u]
      /\ out[w] = None /\ at[w] \in Calls
      /\ req'[r].actor = flow[w].student
  BY DEF Posts, FlowTypeOK, Asked
<1>4. \A x \in Reqs \ {r} : /\ pc'[x] = pc[x] /\ req'[x] = req[x]
                            /\ seen'[x] = seen[x]
  BY <1>0, OthersUnchanged DEF Moves
<1>5. CASE w # v
  <2>1. flow[w].student # flow[v].student
    BY <1>5, StudentsApart
  <2>2. Alone(v)'
    BY <1>3, <1>4, <1>5, <2>1 DEF Alone
  <2>3. out[v] # None => out[v] \in Reqs \ {r}
    BY <1>2, VUType
  <2>4. StudentKept(flow[v].student)
    BY <1>0 DEF StudentKept
  <2> QED
    BY <1>0, <1>3, <1>4, <1>5, <2>2, <2>3, <2>4, WorkStays
<1>6. CASE w = v
  <2>1. Alone(v)'
    BY <1>1, <1>3, <1>4, <1>6 DEF Alone
  <2>2. resp'[r].kind \notin {"started", "result"}
    BY <1>0 DEF UnansweredOK
  <2>3. StillOpen(v)'
    BY <1>0, <1>3, <1>6 DEF WorkOK, StillOpen, Submitting, OpenAt
  <2>4. StartedOpen(v)' /\ GradingOK(v)' /\ DoneOK(v)'
    BY <1>0, <1>3, <1>6, <2>2 DEF StartedOpen, GradingOK, DoneOK, Submitting, Calls
  <2> QED
    BY <2>1, <2>3, <2>4 DEF WorkOK
<1> QED
  BY <1>5, <1>6

\* What the server is left with when a VU goes on, or drops a response.
LEMMA GoesServer ==
    ASSUME FlowInv, NEW r \in Reqs \cup {None},
           UNCHANGED server \/ (r \in Reqs /\ Release(r))
    PROVE  /\ attempts' = attempts
           /\ \A x \in Reqs \ {r} : /\ pc'[x] = pc[x] /\ req'[x] = req[x]
                                    /\ resp'[x] = resp[x] /\ seen'[x] = seen[x]
           /\ r \in Reqs => pc'[r] \in {pc[r], "idle"}
           /\ r \in Reqs /\ pc'[r] # "idle" => req'[r] = req[r]
<1>1. TypeInv
  BY DEF FlowInv, ServerInv
<1>2. CASE UNCHANGED server
  BY <1>2 DEF server, vars
<1>3. CASE r \in Reqs /\ Release(r)
  BY <1>1, <1>3 DEF Release, TypeInv, TypeOK
<1> QED
  BY <1>2, <1>3

\* Another VU goes on, or a response that nobody waits for is dropped.
LEMMA OthersDelivery ==
    ASSUME FlowInv, NEW v \in VUs, Alone(v), WorkOK(v),
           NEW r \in Reqs \cup {None}, out[v] # None => out[v] # r,
           UNCHANGED server \/ (r \in Reqs /\ Release(r)),
           at'[v] = at[v], out'[v] = out[v], flow'[v] = flow[v]
    PROVE  Alone(v)' /\ WorkOK(v)'
<1>1. /\ attempts' = attempts
      /\ \A x \in Reqs \ {r} : /\ pc'[x] = pc[x] /\ req'[x] = req[x]
                               /\ resp'[x] = resp[x] /\ seen'[x] = seen[x]
      /\ r \in Reqs => pc'[r] \in {pc[r], "idle"}
      /\ r \in Reqs /\ pc'[r] # "idle" => req'[r] = req[r]
  BY GoesServer
<1>2. Alone(v)'
  BY <1>1 DEF Alone
<1>3. StudentKept(flow[v].student)
  BY <1>1 DEF StudentKept
<1>4. out[v] # None => out[v] \in Reqs \ {r}
  BY VUType DEF FlowInv
<1> QED
  BY <1>1, <1>2, <1>3, <1>4, WorkStays

\* A VU goes on in an iteration that counts.
LEMMA OwnDelivery ==
    ASSUME OwnCredentials, FlowInv, FlowInv', NEW v \in VUs,
           NEW label \in Labels, NEW f \in Flow, Goes(v, label, f),
           Begins(v) \/ Reads(v) \/ Iterates(v) \/ Hears(v),
           Counts(v) => Alone(v) /\ WorkOK(v), Counts(v)'
    PROVE  Alone(v)' /\ WorkOK(v)'
<1>0. out[v] \in Reqs \cup {None} /\ None \notin Reqs
  BY VUType, FlowAssumption DEF FlowInv
<1>1. /\ attempts' = attempts
      /\ \A x \in Reqs \ {out[v]} : pc'[x] = pc[x] /\ req'[x] = req[x]
      /\ out[v] \in Reqs => pc'[out[v]] \in {pc[out[v]], "idle"}
      /\ out[v] \in Reqs /\ pc'[out[v]] # "idle" => req'[out[v]] = req[out[v]]
  BY <1>0, GoesServer DEF Goes
<1>2. out'[v] = None
  BY DEF Goes, FlowInv, FlowTypeOK
<1>3. at[v] \notin Calls => out[v] = None
  BY DEF FlowInv, WaitOK
<1>4. flow'[v].clean /\ ~ flow'[v].late
  BY DEF Counts
<1>5. CASE Begins(v)
  <2>1. at[v] = "ready" /\ at'[v] = "dashboard" /\ out[v] = None
    BY <1>3, <1>5 DEF Begins, Calls
  <2>2. flow'[v].student \in Students /\ flow'[v].student = pickCredential(v)
    BY <1>4, FlowAssumption DEF FlowInv, PlaceOK, PlaceAt, OwnOK, OwnAt, OwnCredentials
  <2>3. ASSUME NEW r \in Reqs, pc'[r] \notin {"idle", "done"},
               req'[r].actor = flow'[v].student
        PROVE  FALSE
    <3>1. pc[r] \notin {"idle", "done"} /\ req[r].actor = flow'[v].student
      BY <1>0, <1>1, <2>1, <2>3
    <3>2. PICK w \in VUs : out[w] = r
      BY <1>4, <1>5, <3>1 DEF Begins, LateRequest
    <3>3. flow[w].student = req[r].actor
      BY <1>0, <3>2 DEF FlowInv, WaitOK, Asked
    <3>4. flow[w].student = pickCredential(w)
      BY <2>2, <3>1, <3>3, FlowAssumption DEF FlowInv, OwnOK, OwnAt, OwnCredentials
    <3>5. w = v
      BY <2>2, <3>1, <3>3, <3>4, OwnCredential
    <3> QED
      BY <1>0, <2>1, <3>2, <3>5
  <2>4. WorkOK(v)'
    BY <1>2, <2>1 DEF WorkOK, StartedOpen, StillOpen, GradingOK, DoneOK, Submitting
  <2> QED
    BY <2>3, <2>4 DEF Alone
<1>6. ASSUME Keeps(v), out[v] \in Reqs => pc'[out[v]] = "idle"
      PROVE  Alone(v)' /\ WorkOK(v)
  <2>1. Counts(v)
    BY <1>4, <1>6 DEF Counts, Keeps
  <2> QED
    BY <1>0, <1>1, <1>6, <2>1 DEF Alone, Keeps
<1>7. CASE Reads(v)
  <2>1. at'[v] \in {"package", "start"} /\ out[v] = None /\ Keeps(v)
    BY <1>3, <1>7 DEF Reads, Calls
  <2>2. WorkOK(v)'
    BY <1>2, <2>1 DEF WorkOK, StartedOpen, StillOpen, GradingOK, DoneOK, Submitting
  <2> QED
    BY <1>0, <1>6, <2>1, <2>2
<1>8. CASE Iterates(v)
  <2>1. out[v] = None /\ Keeps(v)
    BY <1>3, <1>8 DEF Iterates, Calls
  <2>2. Alone(v)' /\ WorkOK(v)
    BY <1>0, <1>6, <2>1
  <2>3. StudentKept(flow[v].student)
    BY <1>1 DEF StudentKept
  <2> QED
    BY <1>2, <1>8, <2>1, <2>2, <2>3, WorkStays DEF Iterates, Keeps
<1>9. CASE Hears(v)
  <2> DEFINE r == out[v]
  <2>1. /\ r \in Reqs /\ pc'[r] = "idle"
        /\ HandleKeeps(v, resp[r].kind, resp[r].attempt)
    BY <1>9 DEF Hears, Release, FlowInv, ServerInv, TypeInv, TypeOK
  <2>2. Alone(v)' /\ WorkOK(v)
    BY <1>6, <2>1 DEF HandleKeeps
  <2>3. ASSUME at'[v] \in {"save", "sync", "submit"},
               flow'[v].attempt \in AttemptIds => OpenAt(flow'[v].attempt)
        PROVE  WorkOK(v)'
    BY <1>1, <1>2, <2>3
    DEF WorkOK, StartedOpen, StillOpen, GradingOK, DoneOK, Submitting, OpenAt
  <2>4. CASE at[v] = "start"
    <3>1. /\ at'[v] \in {"save", "sync"} /\ flow'[v].attempt = resp[r].attempt
          /\ Success(resp[r].kind)
      BY <2>1, <2>4 DEF HandleKeeps
    <3>2. resp[r].kind = "started"
      BY <1>0, <2>1, <2>4, <3>1, StartResponse
    <3> QED
      BY <1>0, <2>1, <2>2, <2>3, <2>4, <3>1, <3>2 DEF WorkOK, StartedOpen
  <2>5. CASE at[v] \in {"save", "sync"}
    <3>1. /\ at'[v] \in {"save", "sync", "submit"}
          /\ flow'[v].attempt = flow[v].attempt
      BY <2>1, <2>5 DEF HandleKeeps
    <3> QED
      BY <2>2, <2>3, <2>5, <3>1 DEF WorkOK, StillOpen, Submitting
  <2>6. CASE at[v] = "submit"
    <3>1. /\ at'[v] = "ready" /\ Keeps(v) /\ Success(resp[r].kind)
          /\ flow'[v].attempt = flow[v].attempt
          /\ flow'[v].answers = flow[v].answers
      BY <2>1, <2>6 DEF HandleKeeps
    <3>2. req[r].op = "submit" /\ flow[v].attempt \in AttemptIds
      BY <1>0, <2>1, <2>6 DEF FlowInv, WaitOK, Asked
    <3>3. resp[r].kind = "result"
      BY <2>1, <3>1, <3>2 DEF FlowInv, ServerInv, OpOK, Success
    <3>4. Handed(v) /\ Graded(flow[v].attempt)
      BY <1>0, <2>1, <2>2, <2>6, <3>3 DEF WorkOK, GradingOK, Submitting
    <3>5. Handed(v)' /\ Graded(flow[v].attempt)'
      BY <1>1, <3>1, <3>4 DEF Handed, Graded, Keeps, ActiveAttempts, Exists
    <3> QED
      BY <1>2, <2>2, <3>1, <3>2, <3>5
      DEF WorkOK, StartedOpen, StillOpen, GradingOK, DoneOK, Submitting, Graded
  <2> QED
    BY <2>1, <2>4, <2>5, <2>6 DEF HandleKeeps
<1> QED
  BY <1>5, <1>7, <1>8, <1>9

LEMMA DeliveryInvNext ==
    ASSUME OwnCredentials, DeliveryInv, [FlowNext]_flowVars
    PROVE  DeliveryInv'
<1>1. FlowInv /\ FlowInv'
  BY FlowInvNext DEF DeliveryInv
<1> SUFFICES ASSUME NEW v \in VUs, Counts(v)'
             PROVE  Alone(v)' /\ WorkOK(v)'
  BY <1>1 DEF DeliveryInv
<1>2. Counts(v) => Alone(v) /\ WorkOK(v)
  BY DEF DeliveryInv
<1>3. ASSUME flow'[v] = flow[v]
      PROVE  Alone(v) /\ WorkOK(v) /\ flow[v].student # None
  BY <1>1, <1>2, <1>3, FlowAssumption DEF Counts, FlowInv, PlaceOK, PlaceAt
<1>4. CASE UNCHANGED flowVars
  <2>1. UNCHANGED <<attempts, pc, req, seen, resp, at, flow, out>>
    BY <1>4 DEF flowVars
  <2>2. UNCHANGED server
    BY <2>1 DEF server, vars
  <2> QED
    BY <1>1, <1>3, <2>1, <2>2, OthersDelivery
<1>5. ASSUME NEW r \in Reqs, Serve(r) \/ ServeFails(r) PROVE Alone(v)' /\ WorkOK(v)'
  <2>1. (Step(r) \/ Fail(r)) /\ UNCHANGED client
    BY <1>5 DEF Serve, ServeFails
  <2> QED
    BY <1>1, <1>3, <2>1, ServesDelivery DEF client
<1>6. ASSUME NEW r \in Reqs, Forget(r) PROVE Alone(v)' /\ WorkOK(v)'
  <2>1. Release(r) /\ out[v] # r /\ UNCHANGED <<at, flow, out>>
    BY <1>6 DEF Forget, client
  <2> QED
    BY <1>1, <1>3, <2>1, OthersDelivery
<1>7. ASSUME NEW w \in VUs, NEW r \in Reqs, Posts(w, r) PROVE Alone(v)' /\ WorkOK(v)'
  <2>1. flow' = flow
    BY <1>7 DEF Posts
  <2> QED
    BY <1>1, <1>3, <1>7, <2>1, PostsDelivery
<1>8. ASSUME NEW w \in VUs, w # v, NEW label \in Labels, NEW f \in Flow,
             Goes(w, label, f)
      PROVE  Alone(v)' /\ WorkOK(v)'
  <2>1. at'[v] = at[v] /\ out'[v] = out[v] /\ flow'[v] = flow[v]
    BY <1>1, <1>8, MovedFields DEF Goes, FlowInv, FlowTypeOK
  <2>2. out[w] \in Reqs \cup {None} /\ (out[v] # None => out[v] # out[w])
    BY <1>1, <1>8, VUType DEF FlowInv, OutApart
  <2> QED
    BY <1>1, <1>3, <1>8, <2>1, <2>2, OthersDelivery DEF Goes
<1>9. ASSUME NEW w \in VUs, VUStep(w) \/ GiveUp(w) \/ Interrupt(w)
      PROVE  Alone(v)' /\ WorkOK(v)'
  <2>1. CASE \E r \in Reqs : Posts(w, r)
    BY <1>7, <2>1
  <2>2. ASSUME ~ \E r \in Reqs : Posts(w, r) PROVE Alone(v)' /\ WorkOK(v)'
    <3>1. PICK label \in Labels, f \in Flow : Goes(w, label, f)
      BY <1>1, <1>9, <2>2, VUMoves
    <3>2. ~ PostCall(w)
      BY <1>1, <2>2, PostPosts DEF PostCall
    <3>3. CASE w = v
      <4>1. Begins(v) \/ Reads(v) \/ Iterates(v) \/ Hears(v)
        BY <1>1, <1>9, <3>2, <3>3, VUHow DEF VUStep, Counts
      <4> QED
        BY <1>1, <1>2, <3>1, <3>3, <4>1, OwnDelivery
    <3> QED
      BY <1>8, <3>1, <3>3
  <2> QED
    BY <2>1, <2>2
<1> QED
  BY <1>4, <1>5, <1>6, <1>9 DEF FlowNext, RunOver

LEMMA DeliveryInvInit == FlowInit => DeliveryInv
<1> SUFFICES ASSUME FlowInit PROVE DeliveryInv
  OBVIOUS
<1>1. \A v \in VUs : flow[v] = NoFlow
  BY DEF FlowInit
<1>2. ~ NoFlow.clean
  BY DEF NoFlow
<1> QED
  BY <1>1, <1>2, FlowInvInit DEF DeliveryInv, Counts

\* When every VU has a credential of its own, an iteration of studentExamFlow
\* whose checks all passed, and that did not begin over an abandoned request of
\* its student, has delivered: its attempt is submitted with the answers given
\* to every question, is graded, and no other one is open, whatever failed, was
\* lost or was cut off before, for any number of VUs, questions and requests.
THEOREM Delivers == ASSUME OwnCredentials PROVE FlowSpec => []PassedMeansDelivered
<1>1. ASSUME DeliveryInv PROVE PassedMeansDelivered
  <2> SUFFICES ASSUME NEW v \in VUs, at[v] = "ready", flow[v].complete,
                      flow[v].clean, ~ flow[v].late
               PROVE  Delivered(v)
    BY DEF PassedMeansDelivered
  <2>1. FlowInv /\ DoneOK(v)
    BY <1>1 DEF DeliveryInv, Counts, WorkOK
  <2>2. /\ flow[v].attempt \in AttemptIds /\ Handed(v) /\ Graded(flow[v].attempt)
    BY <2>1 DEF DoneOK
  <2>3. /\ Exists(flow[v].attempt)
        /\ attempts[flow[v].attempt].student = flow[v].student
    BY <2>1, <2>2 DEF FlowInv, OwnOK, OwnAt
  <2>4. flow[v] \in Flow /\ Ids(v) \in Seq(Questions)
    BY <2>1, VUType, QuestionsType DEF FlowInv, Ids, Flow
  <2>5. ASSUME NEW k \in DOMAIN Ids(v)
        PROVE  /\ flow[v].answers[Ids(v)[k]] # NoAnswer
               /\ Ids(v)[k] \in Answered(flow[v].answers)
    <3>1. Ids(v)[k] \in Questions /\ k \in 1 .. Len(Ids(v))
      BY <2>4, <2>5
    <3>2. flow[v].i = Len(Ids(v))
      BY <2>1 DEF FlowInv, PlaceOK, PlaceAt, Ids
    <3>3. flow[v].answers[Ids(v)[k]] # NoAnswer
      BY <2>1, <3>1, <3>2 DEF FlowInv, PlaceOK, PlaceAt, Ids
    <3> QED
      BY <3>1, <3>3 DEF Answered
  <2>6. ASSUME NEW k \in DOMAIN Ids(v)
        PROVE  attempts[flow[v].attempt].answers[Ids(v)[k]] = flow[v].answers[Ids(v)[k]]
    BY <2>2, <2>5 DEF Handed
  <2> QED
    BY <2>2, <2>3, <2>5, <2>6 DEF Delivered, Handed, Graded
<1> QED
  BY <1>1, DeliveryInvInit, DeliveryInvNext, PTL DEF FlowSpec

-----------------------------------------------------------------------------
(* With a faultless server no check fails.                                 *)

\* Nothing fails, and the students of the credentials are recipients.
Faultless ==
    /\ ~ Faults /\ ~ Timeouts /\ ~ DBFaults
    /\ AssignmentID # None /\ QuizID # None
    /\ \A i \in 1 .. Len(credentials) : credentials[i] \in Recipients[AssignmentID]

\* Every request is awaited.
Awaited == \A r \in Reqs : pc[r] # "idle" => \E v \in VUs : out[v] = r

\* Every attempt is of the published package.
Published == \A a \in AttemptIds : Exists(a) => attempts[a].hash = PackageHash

\* The iteration under way counts, and names the package and an attempt.
CleanAt(label, f) ==
    /\ label # "ready" => f.clean /\ ~ f.late
    /\ label \in Calls => f.pkg.hash = PackageHash
    /\ label \in {"save", "sync", "submit"} => f.attempt \in AttemptIds

CleanOK(v) == CleanAt(at[v], flow[v])

\* A start that found nothing still would, and what is answered is a success.
SucceedOK(r) ==
    /\ pc[r] # "findAgain"
    /\ pc[r] = "create" => Active(r) = {}
    /\ pc[r] = "done" => Success(resp[r].kind)

CleanInv ==
    /\ DeliveryInv /\ NoCheckFails /\ Awaited /\ Published
    /\ \A v \in VUs : CleanOK(v)
    /\ \A r \in Reqs : SucceedOK(r)

LEMMA HashKept ==
    ASSUME TypeInv, NEW r \in Reqs, Write(r), NEW a \in AttemptIds, Exists(a)
    PROVE  attempts'[a].hash = attempts[a].hash
<1>1. CASE UNCHANGED attempts
  BY <1>1
<1>2. CASE pc[r] = "create" /\ \E b \in AttemptIds : Insert(r, b)
  BY <1>2 DEF Insert, Exists, TypeInv, TypeOK
<1>3. ASSUME pc[r] \in Located, NEW att, att.hash = Target(r).hash, Replace(r, att)
      PROVE  attempts'[a].hash = attempts[a].hash
  BY <1>3 DEF Replace, Target, TypeInv, TypeOK
<1>4. CASE pc[r] \in {"write", "score"}
  <2>1. Target(r) \in Attempt /\ pc[r] \in Located
    BY <1>4, TargetType DEF Located
  <2>2. CASE AnswerWrite(r)
    BY <1>3, <2>1, <2>2 DEF AnswerWrite, Attempt
  <2>3. CASE SubmitWrite(r)
    BY <1>3, <2>1, <2>3 DEF SubmitWrite, Attempt
  <2>4. CASE StatusWrite(r)
    BY <1>3, <2>1, <2>4 DEF StatusWrite, Attempt
  <2>5. CASE ScoreWrite(r)
    BY <1>3, <2>1, <2>5 DEF ScoreWrite, Attempt
  <2> QED
    BY <1>1, <1>4, <2>2, <2>3, <2>4, <2>5 DEF Write
<1> QED
  BY <1>1, <1>2, <1>4 DEF Write, AnswerWrite, SubmitWrite, StatusWrite, ScoreWrite

\* What the server does with the request r of a VU v.
LEMMA CleanRequest ==
    ASSUME OwnCredentials, Faultless, CleanInv, NEW r \in Reqs, pc[r] # "idle"
    PROVE  \E v \in VUs :
              /\ out[v] = r /\ at[v] \in Calls /\ Asked(v, r)
              /\ Alone(v) /\ WorkOK(v) /\ flow[v].pkg.hash = PackageHash
              /\ req[r].actor = pickCredential(v) /\ req[r].actor \in Students
              /\ req[r].actor \in Recipients[AssignmentID]
<1>1. PICK v \in VUs : out[v] = r
  BY DEF CleanInv, Awaited
<1>2. FlowInv /\ r # None
  BY FlowAssumption DEF CleanInv, DeliveryInv
<1>3. at[v] \in Calls /\ Asked(v, r) /\ req[r].actor = flow[v].student
  BY <1>1, <1>2 DEF FlowInv, WaitOK, Asked
<1>4. at[v] # "ready" /\ Counts(v) /\ flow[v].pkg.hash = PackageHash
  BY <1>3 DEF CleanInv, CleanOK, CleanAt, Calls, Counts
<1>5. Alone(v) /\ WorkOK(v)
  BY <1>4 DEF CleanInv, DeliveryInv
<1>6. flow[v].student \in Students /\ flow[v].student = pickCredential(v)
  BY <1>2, <1>4, FlowAssumption
  DEF FlowInv, PlaceOK, PlaceAt, OwnOK, OwnAt, OwnCredentials
<1>7. pickCredential(v) \in Recipients[AssignmentID]
  BY PickedLine DEF Faultless
<1> QED
  BY <1>1, <1>3, <1>4, <1>5, <1>6, <1>7

LEMMA StartSucceeds ==
    ASSUME ServerInv, ~ DBFaults, NEW r \in Reqs, req[r].op = "start",
           req[r].actor \in Recipients[req[r].assignment],
           SucceedOK(r), Step(r)
    PROVE  /\ SucceedOK(r)'
           /\ UNCHANGED attempts \/ \E a \in AttemptIds : Insert(r, a)
<1> USE DEF ServerInv
<1>1. TypeInv /\ OpOK(r)
  OBVIOUS
<1>2. ASSUME NEW a, Finish(r, Reply("started", a)) PROVE SucceedOK(r)'
  BY <1>1, <1>2, FinishOp, ReplyKind DEF SucceedOK, Success
<1>3. CASE FindActiveAttempt(r)
  <2>1. ASSUME Active(r) = {}, Continue(r, "create", Unseen), UNCHANGED attempts
        PROVE  SucceedOK(r)'
    BY <1>1, <2>1, ContinueOp DEF SucceedOK, Active, ActiveAttempts, Exists
  <2> QED
    BY <1>2, <1>3, <2>1 DEF FindActiveAttempt
<1>4. CASE CreateAttempt(r)
  BY <1>2, <1>4 DEF CreateAttempt, SucceedOK
<1>5. ~ RefuseStart(r) /\ ~ FindActiveAgain(r)
  BY DEF RefuseStart, FindActiveAgain, SucceedOK
<1>6. pc[r] \notin {"access"} \cup Located
  BY <1>1 DEF OpOK
<1> QED
  BY <1>3, <1>4, <1>5, <1>6 DEF Step, Located, AccessAttempt, ReadAttempt,
     SaveAttemptAnswer, SubmitAttempt, SyncUpdate, RereadAttempt, RereadSubmitted,
     UpdateAttemptScore, FinishSubmit

LEMMA CallSucceeds ==
    ASSUME ServerInv, NEW r \in Reqs, req[r].op \in {"save", "sync", "submit"},
           req[r].attempt \in AttemptIds, Exists(req[r].attempt),
           Target(r).student = req[r].actor,
           req[r].op # "submit" => Target(r).status = "in_progress",
           req[r].op = "sync" => Target(r).hash = req[r].hash, Step(r)
    PROVE  SucceedOK(r)'
<1> USE DEF ServerInv
<1>1. TypeInv /\ OpOK(r) /\ OneActivePerSlot
  OBVIOUS
<1>2. ASSUME NEW response, Success(response.kind), Finish(r, response)
      PROVE  SucceedOK(r)'
  BY <1>1, <1>2, FinishOp DEF SucceedOK
<1>3. ASSUME NEW label \in {"read", "write", "reread", "score", "rescored"},
             NEW keep, Continue(r, label, keep)
      PROVE  SucceedOK(r)'
  BY <1>1, <1>3, ContinueOp DEF SucceedOK
<1>4. ASSUME NEW next \in {"read", "write"}, CheckRead(r, next)
      PROVE  SucceedOK(r)'
  <2>1. ~ HashMismatch(r) /\ Success(Result(r).kind)
    BY ResultKind DEF HashMismatch, Success
  <2>2. ~ (Target(r).status = "submitted" /\ req[r].op \in {"save", "draft"})
    OBVIOUS
  <2> QED
    BY <1>2, <1>3, <1>4, <2>1, <2>2 DEF CheckRead
<1>5. CASE AccessAttempt(r) \/ ReadAttempt(r)
  BY <1>3, <1>4, <1>5 DEF AccessAttempt, ReadAttempt, actorOwnsAttempt
<1>6. CASE SaveAttemptAnswer(r) \/ SubmitAttempt(r) \/ UpdateAttemptScore(r)
  BY <1>3, <1>6 DEF SaveAttemptAnswer, SubmitAttempt, UpdateAttemptScore
<1>7. CASE SyncUpdate(r)
  <2>1. ASSUME NEW b \in ActiveAttempts(Target(r).student, Target(r).assignment,
                                        Target(r).quiz)
        PROVE  b = req[r].attempt
    BY <1>1, <1>7, <2>1 DEF OneActivePerSlot, ActiveAttempts, Target, SyncUpdate
  <2>2. IndexAllows(req[r].attempt, Target(r).student, Target(r).assignment,
                    Target(r).quiz)
    BY <2>1 DEF IndexAllows
  <2> QED
    BY <1>3, <1>7, <2>2 DEF SyncUpdate
<1>8. CASE RereadAttempt(r)
  BY <1>2, <1>8, ReplyKind DEF RereadAttempt, Success
<1>9. CASE RereadSubmitted(r) \/ FinishSubmit(r)
  <2>1. /\ Success(Result(r).kind)
        /\ Success([Result(r) EXCEPT !.audited = TRUE].kind)
    BY ResultKind DEF Success
  <2>2. CASE FinishSubmit(r)
    BY <1>2, <2>1, <2>2 DEF FinishSubmit
  <2>3. CASE RereadSubmitted(r)
    <3> DEFINE keep == [Unseen EXCEPT !.count = NumAnswers(Target(r).answers)]
    <3>1. Finish(r, Result(r)) \/ Continue(r, "score", keep)
      BY <2>3 DEF RereadSubmitted
    <3> HIDE DEF keep
    <3> QED
      BY <1>2, <1>3, <2>1, <3>1
  <2> QED
    BY <1>9, <2>2, <2>3
<1>10. pc[r] \notin {"find", "create", "findAgain"}
  BY <1>1 DEF OpOK
<1> QED
  BY <1>5, <1>6, <1>7, <1>8, <1>9, <1>10 DEF Step, RefuseStart, FindActiveAttempt,
     CreateAttempt, FindActiveAgain

\* A handler takes a step.
LEMMA ServesClean ==
    ASSUME OwnCredentials, Faultless, CleanInv, NEW r \in Reqs, Step(r),
           UNCHANGED client
    PROVE  Awaited' /\ Published' /\ \A x \in Reqs : SucceedOK(x)'
<1>0. FlowInv /\ ServerInv /\ TypeInv /\ Write(r) /\ UNCHANGED <<at, flow, out>>
  BY StepWrites DEF CleanInv, DeliveryInv, FlowInv, ServerInv, client
<1>1. pc[r] # "idle"
  BY DEF Step, RefuseStart, FindActiveAttempt, CreateAttempt,
     FindActiveAgain, AccessAttempt, ReadAttempt, SaveAttemptAnswer,
     SubmitAttempt, SyncUpdate, RereadAttempt, RereadSubmitted,
     UpdateAttemptScore, FinishSubmit
<1>2. /\ req' = req
      /\ \A x \in Reqs \ {r} : pc'[x] = pc[x] /\ resp'[x] = resp[x]
  BY <1>0, <1>1, StepLocal, OthersUnchanged
<1>3. Awaited'
  BY <1>0, <1>1, <1>2 DEF CleanInv, Awaited
<1>4. PICK v \in VUs :
         /\ out[v] = r /\ at[v] \in Calls /\ Asked(v, r)
         /\ Alone(v) /\ WorkOK(v) /\ flow[v].pkg.hash = PackageHash
         /\ req[r].actor = pickCredential(v) /\ req[r].actor \in Students
         /\ req[r].actor \in Recipients[AssignmentID]
  BY <1>1, CleanRequest
<1>5. ASSUME at[v] = "start"
      PROVE  /\ SucceedOK(r)'
             /\ UNCHANGED attempts \/ \E a \in AttemptIds : Insert(r, a)
             /\ req[r].hash = PackageHash
  <2>1. /\ req[r].op = "start" /\ req[r].assignment = AssignmentID
        /\ req[r].hash = PackageHash
    BY <1>4, <1>5 DEF Asked
  <2> QED
    BY <1>0, <1>4, <2>1, StartSucceeds DEF CleanInv, Faultless
<1>6. ASSUME at[v] # "start" PROVE SucceedOK(r)' /\ pc[r] # "create"
  <2>1. /\ req[r].op = at[v] /\ at[v] \in {"save", "sync", "submit"}
        /\ req[r].attempt = flow[v].attempt /\ flow[v].attempt \in AttemptIds
        /\ req[r].op = "sync" => req[r].hash = PackageHash
        /\ req[r].actor = flow[v].student
    BY <1>4, <1>6 DEF Asked, Calls
  <2>2. Exists(flow[v].attempt) /\ attempts[flow[v].attempt].student = flow[v].student
    BY <1>0, <2>1 DEF FlowInv, OwnOK, OwnAt
  <2>3. attempts[flow[v].attempt].hash = PackageHash
    BY <2>1, <2>2 DEF CleanInv, Published
  <2>4. at[v] # "submit" => attempts[flow[v].attempt].status = "in_progress"
    BY <1>4, <2>1 DEF WorkOK, StillOpen, Submitting, OpenAt
  <2>5. pc[r] # "create"
    BY <1>0, <2>1 DEF ServerInv, OpOK
  <2>6. SucceedOK(r)'
    BY <1>0, <2>1, <2>2, <2>3, <2>4, CallSucceeds DEF Target
  <2> QED
    BY <2>5, <2>6
<1>7. ASSUME NEW a \in AttemptIds, attempts'[a] # None
      PROVE  attempts'[a].hash = PackageHash
  <2>1. CASE Exists(a)
    BY <1>0, <2>1, HashKept DEF CleanInv, Published
  <2>2. CASE ~ Exists(a)
    <3>1. PICK b \in AttemptIds : pc[r] = "create" /\ Insert(r, b)
      BY <1>0, <1>7, <2>2, TargetType, NoneAssumption
      DEF Write, AnswerWrite, SubmitWrite, StatusWrite, ScoreWrite, Replace, Exists,
          TypeInv, TypeOK, HandlersOK, HandlerOK, Located
    <3>2. a = b /\ attempts'[a] = NewAttempt(r)
      BY <1>0, <1>7, <2>2, <3>1 DEF Insert, Exists, TypeInv, TypeOK
    <3>3. NewAttempt(r).hash = req[r].hash
      BY DEF NewAttempt
    <3> QED
      BY <1>5, <1>6, <3>1, <3>2, <3>3
  <2> QED
    BY <2>1, <2>2
<1>8. Published'
  BY <1>7 DEF Published, Exists
<1>9. ASSUME NEW x \in Reqs, x # r PROVE SucceedOK(x)'
  <2>1. SucceedOK(x) /\ pc'[x] = pc[x] /\ resp'[x] = resp[x] /\ req' = req
    BY <1>2, <1>9 DEF CleanInv
  <2>2. ASSUME pc[x] = "create" PROVE Active(x)' = {}
    <3>1. PICK w \in VUs : /\ out[w] = x /\ req[x].actor = pickCredential(w)
      BY <2>2, CleanRequest
    <3>2. req[r].actor # req[x].actor
      BY <1>4, <1>9, <3>1, OwnCredential
    <3>3. StudentKept(req[x].actor)
      BY <1>0, <3>2, MovesOthersKept
    <3>4. Active(x) = {}
      BY <2>1, <2>2 DEF SucceedOK
    <3> QED
      BY <2>1, <3>3, <3>4 DEF StudentKept, Active, ActiveAttempts, Exists
  <2> QED
    BY <2>1, <2>2 DEF SucceedOK
<1> QED
  BY <1>3, <1>5, <1>6, <1>8, <1>9

\* A VU goes on, and counts nothing.
LEMMA GoesClean ==
    ASSUME OwnCredentials, Faultless, CleanInv, NEW v \in VUs,
           \/ NoToken(v) \/ BeginExam(v) \/ StudentDashboard(v) \/ QuizPackage(v)
           \/ Receive(v) \/ Refused(v) \/ authLogin(v) \/ teacherOverview(v)
    PROVE  /\ UNCHANGED metrics /\ CleanOK(v)'
           /\ \/ UNCHANGED server /\ out' = out
              \/ /\ out[v] \in Reqs /\ Release(out[v])
                 /\ out' = [out EXCEPT ![v] = None]
<1>0. /\ flow[v] \in Flow /\ flow \in [VUs -> Flow] /\ at \in [VUs -> Labels]
      /\ out[v] \in Reqs \cup {None} /\ CleanOK(v) /\ FlowInv
      /\ CallResults = {TRUE} /\ errors \in Nat /\ failed \in Nat
  BY VUType DEF CleanInv, DeliveryInv, FlowInv, FlowTypeOK, CallResults, Faultless
<1>1. /\ studentToken(v, TRUE).token = pickCredential(v)
      /\ studentToken(v, TRUE).token # None
      /\ login(v, TRUE).fails = 0
  <2>1. pickCredential(v) \in Students
    BY PickedLine, CredentialsAssumption
  <2> QED
    BY <2>1, FlowAssumption DEF studentToken, login, OwnCredentials
<1>2. ASSUME Count(0, 0) PROVE UNCHANGED metrics
  BY <1>0, <1>2 DEF Count, metrics
<1>3. ~ NoToken(v)
  BY <1>0, <1>1 DEF NoToken, Faultless
<1>4. CASE BeginExam(v)
  <2> DEFINE token == studentToken(v, TRUE).token
             late == LateRequest(token)
  <2>1. /\ flow' = [flow EXCEPT ![v] =
                       [NoFlow EXCEPT !.iter = flow[v].iter + 1, !.student = token,
                                      !.clean = TRUE, !.late = late]]
        /\ at' = [at EXCEPT ![v] = "dashboard"]
        /\ UNCHANGED server /\ out' = out /\ UNCHANGED metrics
    BY <1>0, <1>4 DEF BeginExam
  <2>2. ~ late
    BY DEF LateRequest, CleanInv, Awaited
  <2> HIDE DEF token, late
  <2>3. flow'[v].clean /\ flow'[v].late = late /\ at'[v] = "dashboard"
    BY <1>0, <2>1 DEF NoFlow
  <2> QED
    BY <2>1, <2>2, <2>3 DEF CleanOK, CleanAt, Calls
<1>5. CASE StudentDashboard(v)
  BY <1>0, <1>5 DEF StudentDashboard, CleanOK, CleanAt, Calls
<1>6. CASE QuizPackage(v)
  <2>1. /\ flow' = [flow EXCEPT ![v].pkg = packageInfo(TRUE), ![v].clean = @ /\ TRUE]
        /\ at[v] = "package" /\ at' = [at EXCEPT ![v] = "start"]
        /\ Count(0, 0) /\ UNCHANGED server /\ out' = out
    BY <1>0, <1>6 DEF QuizPackage
  <2>2. packageInfo(TRUE).hash = PackageHash
    BY DEF packageInfo
  <2>3. /\ flow'[v].clean = (flow[v].clean /\ TRUE) /\ flow'[v].late = flow[v].late
        /\ flow'[v].pkg = packageInfo(TRUE) /\ at'[v] = "start"
    BY <1>0, <2>1 DEF Flow
  <2>4. flow[v].clean /\ ~ flow[v].late
    BY <1>0, <2>1 DEF CleanOK, CleanAt
  <2> QED
    BY <1>2, <2>1, <2>2, <2>3, <2>4 DEF CleanOK, CleanAt
<1>7. CASE authLogin(v) \/ teacherOverview(v)
  <2>1. at' = at /\ at[v] = "ready" /\ UNCHANGED server /\ out' = out
    BY <1>7 DEF authLogin, teacherOverview, Iterating
  <2>2. ASSUME authLogin(v) PROVE Count(0, 0)
    BY <1>0, <1>1, <2>2 DEF authLogin
  <2>3. ASSUME teacherOverview(v) PROVE Count(0, 0)
    <3>1. Count((IF TRUE THEN 0 ELSE 1) + (IF TRUE \/ AssignmentID = None THEN 0 ELSE 1),
                (IF TRUE THEN 0 ELSE 1) + (IF TRUE \/ AssignmentID = None THEN 0 ELSE 1))
      BY <1>0, <2>3 DEF teacherOverview
    <3> QED
      BY <3>1
  <2> QED
    BY <1>2, <1>7, <2>1, <2>2, <2>3 DEF CleanOK, CleanAt, Calls
<1>8. CASE Receive(v)
  <2> DEFINE r == out[v]
             kind == resp[r].kind
             a == resp[r].attempt
  <2>1. /\ r \in Reqs /\ pc[r] = "done" /\ Handle(v, kind, a) /\ Release(r)
        /\ out' = [out EXCEPT ![v] = None]
    BY <1>0, <1>8 DEF Receive
  <2>2. Success(kind) /\ at[v] \in Calls /\ r # None
    BY <1>0, <2>1, FlowAssumption DEF CleanInv, SucceedOK, FlowInv, WaitOK
  <2>3. flow[v].clean /\ ~ flow[v].late /\ flow[v].pkg.hash = PackageHash
    BY <1>0, <2>2 DEF CleanOK, CleanAt, Calls
  <2>4. at[v] = "start" => a \in AttemptIds
    BY <1>0, <2>1, <2>2, StartResponse
    DEF FlowInv, ServerInv, StartsOK, OwnAttempt, Faultless
  <2> HIDE DEF kind, a, r
  <2>5. UNCHANGED metrics
    BY <1>2, <2>1, <2>2
    DEF Handle, Started, StartRefused, AnswerChecked, SyncChecked, SubmitChecked,
        Checked
  <2>6. HandleMove(v, kind, a)
    BY <1>0, <2>1, HandleMoves DEF FlowInv
  <2>7. CleanOK(v)'
    <3>1. CASE at[v] = "start" /\ Moved(v, AfterStart(v), WithAttempt(v, a))
      <4>1. flow'[v] = WithAttempt(v, a) /\ at'[v] \in {"save", "sync"}
        BY <1>0, <3>1, MovedFields DEF FlowInv, AfterStart
      <4>2. /\ flow'[v].clean = flow[v].clean /\ flow'[v].late = flow[v].late
            /\ flow'[v].pkg = flow[v].pkg /\ flow'[v].attempt = a
        BY <1>0, <4>1 DEF WithAttempt, Flow
      <4> QED
        BY <2>3, <2>4, <3>1, <4>1, <4>2 DEF CleanOK, CleanAt
    <3>2. CASE at[v] = "save" /\ Moved(v, AfterAnswer(v), WithAnswer(v, Success(kind)))
      <4>1. /\ flow'[v] = WithAnswer(v, Success(kind)) /\ at'[v] \in {"save", "sync"}
        BY <1>0, <3>2, MovedFields DEF FlowInv, AfterAnswer
      <4>2. /\ flow'[v].clean = (flow[v].clean /\ Success(kind))
            /\ flow'[v].late = flow[v].late
            /\ flow'[v].pkg = flow[v].pkg /\ flow'[v].attempt = flow[v].attempt
        BY <1>0, <4>1 DEF WithAnswer, Flow
      <4> QED
        BY <1>0, <2>2, <2>3, <3>2, <4>1, <4>2 DEF CleanOK, CleanAt
    <3>3. CASE at[v] = "sync" /\ Moved(v, "submit", WithCheck(v, Success(kind)))
      <4>1. flow'[v] = WithCheck(v, Success(kind)) /\ at'[v] = "submit"
        BY <1>0, <3>3, MovedFields DEF FlowInv
      <4>2. /\ flow'[v].clean = (flow[v].clean /\ Success(kind))
            /\ flow'[v].late = flow[v].late
            /\ flow'[v].pkg = flow[v].pkg /\ flow'[v].attempt = flow[v].attempt
        BY <1>0, <4>1 DEF WithCheck, Flow
      <4> QED
        BY <1>0, <2>2, <2>3, <3>3, <4>1, <4>2 DEF CleanOK, CleanAt
    <3>4. CASE at[v] = "submit" /\ Moved(v, "ready", WithSubmit(v, Success(kind)))
      <4>1. at'[v] = "ready"
        BY <1>0, <3>4, MovedFields DEF FlowInv
      <4> QED
        BY <4>1 DEF CleanOK, CleanAt, Calls
    <3> QED
      BY <2>2, <2>6, <3>1, <3>2, <3>3, <3>4 DEF HandleMove
  <2> QED
    BY <2>1, <2>5, <2>7 DEF r
<1>9. ~ Refused(v)
  <2>1. ASSUME at[v] \in Calls PROVE flow[v].attempt # Blank
    BY <1>0, <2>1, FlowAssumption, ConstantsAssumption
    DEF CleanOK, CleanAt, FlowInv, PlaceOK, PlaceAt, Calls
  <2> QED
    BY <2>1 DEF Refused, Faultless
<1> QED
  BY <1>3, <1>4, <1>5, <1>6, <1>7, <1>8, <1>9

\* A VU posts a call.
LEMMA PostsClean ==
    ASSUME CleanInv, NEW v \in VUs, NEW r \in Reqs, Posts(v, r)
    PROVE  /\ NoCheckFails' /\ Awaited' /\ Published'
           /\ \A w \in VUs : CleanOK(w)'
           /\ \A x \in Reqs : SucceedOK(x)'
<1>0. /\ Moves(r) /\ TypeInv /\ out \in [VUs -> Reqs \cup {None}]
  BY DEF Posts, Moves, CleanInv, DeliveryInv, FlowInv, FlowTypeOK, ServerInv
<1>1. /\ pc[r] = "idle" /\ pc'[r] \in {"find", "access"} /\ attempts' = attempts
  <2>1. ASSUME NEW request, NEW label \in {"find", "access"},
               Begin(r, request, label)
        PROVE  /\ pc[r] = "idle" /\ pc'[r] \in {"find", "access"}
               /\ attempts' = attempts
    BY <1>0, <2>1, BeginOp
  <2> QED
    BY <1>0, <2>1
    DEF Posts, Arrive, StartAttempt, SaveAnswerForActor, SaveAttemptDraft,
        SubmitAttemptForActor, SyncAttemptForActor
<1>2. \A x \in Reqs \ {r} : /\ pc'[x] = pc[x] /\ req'[x] = req[x]
                            /\ resp'[x] = resp[x]
  BY <1>0, OthersUnchanged DEF Moves
<1>3. /\ out'[v] = r /\ out[v] = None
      /\ \A w \in VUs \ {v} : out'[w] = out[w]
      /\ UNCHANGED <<at, flow, errors, failed>>
  BY <1>0 DEF Posts
<1>4. NoCheckFails' /\ Published' /\ \A w \in VUs : CleanOK(w)'
  BY <1>1, <1>3 DEF CleanInv, NoCheckFails, Published, Exists, CleanOK
<1>5. Awaited'
  BY <1>2, <1>3, FlowAssumption DEF CleanInv, Awaited
<1>6. ASSUME NEW x \in Reqs PROVE SucceedOK(x)'
  <2>1. CASE x = r
    BY <1>1, <2>1 DEF SucceedOK
  <2>2. CASE x # r
    BY <1>1, <1>2, <2>2 DEF CleanInv, SucceedOK, Active, ActiveAttempts, Exists
  <2> QED
    BY <2>1, <2>2
<1> QED
  BY <1>4, <1>5, <1>6

\* A VU goes on.
LEMMA VUClean ==
    ASSUME OwnCredentials, Faultless, CleanInv, NEW v \in VUs,
           VUStep(v) \/ GiveUp(v) \/ Interrupt(v)
    PROVE  /\ NoCheckFails' /\ Awaited' /\ Published'
           /\ \A w \in VUs : CleanOK(w)'
           /\ \A x \in Reqs : SucceedOK(x)'
<1>0. /\ FlowInv /\ TypeInv /\ out \in [VUs -> Reqs \cup {None}] /\ None \notin Reqs
  BY FlowAssumption DEF CleanInv, DeliveryInv, FlowInv, FlowTypeOK, ServerInv
<1>1. CASE \E r \in Reqs : Posts(v, r)
  BY <1>1, PostsClean
<1>2. ASSUME ~ \E r \in Reqs : Posts(v, r)
      PROVE  /\ NoCheckFails' /\ Awaited' /\ Published'
             /\ \A w \in VUs : CleanOK(w)'
             /\ \A x \in Reqs : SucceedOK(x)'
  <2>1. ~ GiveUp(v) /\ ~ Interrupt(v) /\ ~ PostCall(v)
    BY <1>0, <1>2, PostPosts DEF GiveUp, Interrupt, PostCall, Faultless
  <2>2. /\ UNCHANGED metrics /\ CleanOK(v)'
        /\ \/ UNCHANGED server /\ out' = out
           \/ /\ out[v] \in Reqs /\ Release(out[v])
              /\ out' = [out EXCEPT ![v] = None]
    BY <2>1, GoesClean DEF VUStep
  <2>3. PICK label \in Labels, f \in Flow : Goes(v, label, f)
    BY <1>0, <1>2, VUMoves
  <2>4. \A w \in VUs \ {v} : at'[w] = at[w] /\ flow'[w] = flow[w]
    BY <1>0, <2>3, MovedFields DEF Goes, FlowInv
  <2>5. NoCheckFails' /\ \A w \in VUs : CleanOK(w)'
    BY <2>2, <2>4 DEF CleanInv, NoCheckFails, metrics, CleanOK
  <2>6. CASE UNCHANGED server /\ out' = out
    BY <2>5, <2>6 DEF server, vars, CleanInv, Awaited, Published, Exists, SucceedOK,
       Active, ActiveAttempts
  <2>7. CASE /\ out[v] \in Reqs /\ Release(out[v])
             /\ out' = [out EXCEPT ![v] = None]
    <3>1. /\ attempts' = attempts /\ pc'[out[v]] = "idle"
          /\ \A x \in Reqs \ {out[v]} : /\ pc'[x] = pc[x] /\ req'[x] = req[x]
                                        /\ resp'[x] = resp[x]
          /\ \A w \in VUs \ {v} : out'[w] = out[w]
      BY <1>0, <2>7 DEF Release, TypeInv, TypeOK
    <3>2. Awaited' /\ Published'
      BY <3>1 DEF CleanInv, Awaited, Published, Exists
    <3>3. ASSUME NEW x \in Reqs PROVE SucceedOK(x)'
      <4>1. CASE x = out[v]
        BY <3>1, <4>1 DEF SucceedOK
      <4>2. CASE x # out[v]
        BY <3>1, <4>2 DEF CleanInv, SucceedOK, Active, ActiveAttempts, Exists
      <4> QED
        BY <4>1, <4>2
    <3> QED
      BY <2>5, <3>2, <3>3
  <2> QED
    BY <2>2, <2>6, <2>7
<1> QED
  BY <1>1, <1>2

LEMMA CleanInvInit == FlowInit => CleanInv
<1> SUFFICES ASSUME FlowInit PROVE CleanInv
  OBVIOUS
<1>1. DeliveryInv /\ NoCheckFails
  BY DeliveryInvInit DEF FlowInit, NoCheckFails
<1>2. /\ \A r \in Reqs : pc[r] = "idle"
      /\ \A a \in AttemptIds : ~ Exists(a)
      /\ \A v \in VUs : at[v] = "ready"
  BY DEF FlowInit, Init, Exists
<1> QED
  BY <1>1, <1>2 DEF CleanInv, Awaited, Published, CleanOK, CleanAt, SucceedOK, Calls

LEMMA CleanInvNext ==
    ASSUME OwnCredentials, Faultless, CleanInv, [FlowNext]_flowVars
    PROVE  CleanInv'
<1>1. DeliveryInv'
  BY DeliveryInvNext DEF CleanInv
<1>2. ASSUME NEW v \in VUs, VUStep(v) \/ GiveUp(v) \/ Interrupt(v) PROVE CleanInv'
  BY <1>1, <1>2, VUClean DEF CleanInv
<1>3. ASSUME NEW r \in Reqs, Serve(r) PROVE CleanInv'
  <2>1. Step(r) /\ UNCHANGED client
    BY <1>3 DEF Serve
  <2>2. Awaited' /\ Published' /\ \A x \in Reqs : SucceedOK(x)'
    BY <2>1, ServesClean
  <2>3. NoCheckFails' /\ \A v \in VUs : CleanOK(v)'
    BY <2>1 DEF client, CleanInv, NoCheckFails, CleanOK
  <2> QED
    BY <1>1, <2>2, <2>3 DEF CleanInv
<1>4. ASSUME NEW r \in Reqs PROVE ~ ServeFails(r) /\ ~ Forget(r)
  BY DEF ServeFails, Fail, Abort, FindActiveFails, CreateFails, Faultless, Forget,
     CleanInv, Awaited
<1>5. CASE UNCHANGED flowVars
  BY <1>1, <1>5 DEF flowVars, CleanInv, NoCheckFails, Awaited, Published, Exists,
     CleanOK, SucceedOK, Active, ActiveAttempts
<1> QED
  BY <1>2, <1>3, <1>4, <1>5 DEF FlowNext, RunOver

\* With credentials of its own for every VU, all of them recipients of the
\* assignment, and a server and a network that do not fail, no check of the
\* script ever fails and neither metric counts an error, for any number of VUs,
\* iterations, questions and requests and however the handlers interleave.
THEOREM ChecksPass ==
    ASSUME OwnCredentials, Faultless PROVE FlowSpec => []NoCheckFails
<1>1. CleanInv => NoCheckFails
  BY DEF CleanInv
<1> QED
  BY <1>1, CleanInvInit, CleanInvNext, PTL DEF FlowSpec

=============================================================================

------------------------------ MODULE ExamFlow ------------------------------
(***************************************************************************)
(* The load scenario load/k6/lms_exam_flow.js composed with the exam       *)
(* runtime of LmsAttempt.  Virtual users of k6 log in, read the dashboard  *)
(* and the quiz package, start an attempt, save one answer per question,   *)
(* sync and submit; every call is checked and counted in two metrics, and  *)
(* docs/load-testing-100k.md makes their values the proof that the exam    *)
(* path works.                                                             *)
(*                                                                         *)
(* A virtual user (VU) is sequential: it posts, waits for the response and *)
(* goes on.  The calls on attempts are requests of LmsAttempt, whose       *)
(* handlers interleave; the login and the reads touch no attempt and are   *)
(* one step each.  A call may fail before it reaches its handler (rate     *)
(* limit, expired token, refused connection), k6 may give up on one that   *)
(* is still being served, and an iteration may be cut off (ramp-down, or   *)
(* the operator stops the run and starts it again).                        *)
(***************************************************************************)
EXTENDS LmsAttempt, Sequences

CONSTANTS
    Generators,             \* k6 processes; each numbers its VUs from 1
    VUsPerGenerator,
    MaxIterations,          \* bound: iterations of one VU
    StaticStudentToken,     \* AUTH_TOKEN: the student it belongs to, or None
    CredentialsFile,        \* CREDENTIALS_FILE: a student's line, or a line of
                            \* another kind (a comment, a missing password)
    OnlyAuthLogin, LoginEachIteration,
    TeacherToken,           \* TRUE: TEACHER_TOKEN is given
    TeacherOverviewVUs,
    AssignmentID, QuizID,   \* None when the variable is not set
    PackageHash,            \* contentHash of the published package
    PackageHashFallback,
    EnvQuestions,           \* QUESTION_IDS
    PackageQuestions,       \* questionIds of the quiz
    LoadQuestions,          \* load-question-0, load-question-1, ...
    QuestionsPerAttempt,
    Faults,                 \* TRUE: a call may fail before its handler runs
    Timeouts                \* TRUE: a VU may give up on a call, or be cut off

ASSUME FlowAssumption ==
    /\ VUsPerGenerator \in Nat /\ MaxIterations \in Nat
    /\ TeacherOverviewVUs \in Nat /\ QuestionsPerAttempt \in Nat
    /\ StaticStudentToken \in Students \cup {None} /\ None \notin Students
    /\ AssignmentID \in Assignments \cup {None} /\ None \notin Assignments
    /\ QuizID \in Quizzes \cup {None} /\ None \notin Quizzes
    /\ {PackageHash, PackageHashFallback} \subseteq Hashes
    /\ EnvQuestions \in Seq(Questions) /\ PackageQuestions \in Seq(Questions)
    /\ LoadQuestions \in Seq(Questions)
    /\ Len(LoadQuestions) >= QuestionsPerAttempt
    /\ {OnlyAuthLogin, LoginEachIteration, TeacherToken, Faults, Timeouts}
           \subseteq BOOLEAN
    /\ "in_progress" \in SyncStatuses
    /\ None \notin Reqs /\ Blank # None

VARIABLES
    scenario,   \* the scenario k6 runs a VU in
    at,         \* the call of studentExamFlow a VU is at
    flow,       \* its local variables
    out,        \* the request it waits for, or None
    errors,     \* counter erg_lms_errors
    failed      \* samples FALSE of the rate erg_lms_success_rate

server == vars
metrics == <<errors, failed>>
client == <<scenario, at, flow, out, errors, failed>>
flowVars == <<attempts, pc, req, seen, resp, scenario, at, flow, out, errors, failed>>

-----------------------------------------------------------------------------
(* Configuration.                                                          *)

VUs == Generators \X (1 .. VUsPerGenerator)

\* exec.vu.idInTest: each generator is a test run of its own.
idInTest(v) == v[2]

\* The lines that are no comment and have an email and a password.
credentials == SelectSeq(CredentialsFile, LAMBDA line : line \in Students)

\* What SelectSeq returns, and what the script can give as an answer.
ASSUME CredentialsAssumption == credentials \in Seq(Students)
ASSUME AnswersAssumption ==
    (1 .. VUsPerGenerator) \X (1 .. MaxIterations) \X (0 .. QuestionsPerAttempt)
        \subseteq Answers

staticTeacherToken == TeacherToken \/ StaticStudentToken # None

buildScenarios ==
    (IF OnlyAuthLogin THEN {} ELSE {"lms_exam_flow"})
    \cup (IF LoginEachIteration /\ credentials # <<>> THEN {"auth_login"} ELSE {})
    \cup (IF TeacherOverviewVUs > 0 /\ staticTeacherToken /\ QuizID # None
          THEN {"teacher_overview"} ELSE {})

\* Faulty variant: every VU takes the first line of the file.
pickFirst(v) == IF credentials = <<>> THEN None ELSE credentials[1]

pickCredential(v) ==
    IF credentials = <<>> THEN None
    ELSE credentials[((idInTest(v) - 1) % Len(credentials)) + 1]

\* The token of a login that was or was not answered with 200, and the failed
\* checks it counted; a token is the student it was issued to.
login(v, ok) ==
    LET cred == pickCredential(v)
    IN  [token |-> IF ok THEN cred ELSE None,
         fails |-> IF ok \/ cred = None THEN 0 ELSE 1]

studentToken(v, ok) ==
    IF StaticStudentToken # None
    THEN [token |-> StaticStudentToken, fails |-> 0]
    ELSE login(v, ok)

\* What a call that is one step here may come back with.
CallResults == IF Faults THEN BOOLEAN ELSE {TRUE}

\* Faulty variant: a failed read leaves the hash empty.
packageNoFallback(ok) ==
    [hash |-> IF ok THEN PackageHash ELSE "",
     ids |-> IF ok THEN PackageQuestions ELSE <<>>]

packageInfo(ok) ==
    IF ok THEN [hash |-> PackageHash, ids |-> PackageQuestions]
          ELSE [hash |-> PackageHashFallback, ids |-> <<>>]

\* ids.slice(0, n)
Slice(ids, n) == SubSeq(ids, 1, IF Len(ids) < n THEN Len(ids) ELSE n)

answerQuestionIds(pkg) ==
    LET ids == IF EnvQuestions # <<>> THEN EnvQuestions ELSE pkg.ids
    IN  Slice(IF ids # <<>> THEN ids ELSE LoadQuestions, QuestionsPerAttempt)

-----------------------------------------------------------------------------
(* The local variables of an iteration.  clean and late are history:       *)
(* clean: no check has failed in this iteration; late: when it began, a    *)
(* request its student's VU had given up on was still being served.        *)

Package == [hash: Hashes, ids: Seq(Questions)]

Flow == [iter: 0 .. MaxIterations, student: Students \cup {None},
         pkg: Package, attempt: AttemptIds \cup {None, Blank},
         i: Nat, answers: AnswerMap,
         clean: BOOLEAN, late: BOOLEAN, complete: BOOLEAN]

NoFlow == [iter |-> 0, student |-> None, pkg |-> packageInfo(FALSE),
           attempt |-> None, i |-> 0, answers |-> EmptyMap,
           clean |-> FALSE, late |-> FALSE, complete |-> FALSE]

Ids(v) == answerQuestionIds(flow[v].pkg)

\* The question of this turn of the loop, and `answer-${vu}-${iteration}-${i}`.
QuestionNow(v) == Ids(v)[flow[v].i + 1]
AnswerNow(v) == <<idInTest(v), flow[v].iter, flow[v].i>>

Calls == {"start", "save", "sync", "submit"}
Labels == {"ready", "dashboard", "package"} \cup Calls

FlowTypeOK ==
    /\ scenario \in [VUs -> buildScenarios]
    /\ at \in [VUs -> Labels]
    /\ flow \in [VUs -> Flow]
    /\ out \in [VUs -> Reqs \cup {None}]
    /\ errors \in Nat /\ failed \in Nat

FlowInit ==
    /\ Init
    /\ scenario \in [VUs -> buildScenarios]
    /\ at = [v \in VUs |-> "ready"]
    /\ flow = [v \in VUs |-> NoFlow]
    /\ out = [v \in VUs |-> None]
    /\ errors = 0
    /\ failed = 0

-----------------------------------------------------------------------------
(* Steps of a VU.                                                          *)

Count(e, f) == errors' = errors + e /\ failed' = failed + f

\* The function of the scenario is called again.
Iterating(v, name) ==
    /\ scenario[v] = name
    /\ at[v] = "ready"
    /\ flow[v].iter < MaxIterations

\* A request on behalf of this student that no VU waits for any more.
LateRequest(student) ==
    \E r \in Reqs : /\ pc[r] \notin {"idle", "done"}
                    /\ req[r].actor = student
                    /\ \A v \in VUs : out[v] # r

\* studentExamFlow without a token, an assignment or a quiz returns at once.
NoToken(v) ==
    /\ Iterating(v, "lms_exam_flow")
    /\ \E ok \in CallResults :
          LET t == studentToken(v, ok)
          IN  /\ t.token = None \/ AssignmentID = None \/ QuizID = None
              /\ Count(t.fails + 1, t.fails + 1)
    /\ flow' = [flow EXCEPT ![v] = [NoFlow EXCEPT !.iter = flow[v].iter + 1]]
    /\ UNCHANGED <<server, scenario, at, out>>

BeginExam(v) ==
    /\ Iterating(v, "lms_exam_flow")
    /\ AssignmentID # None /\ QuizID # None
    /\ \E ok \in CallResults :
          LET t == studentToken(v, ok)
          IN  /\ t.token # None
              /\ flow' = [flow EXCEPT ![v] =
                    [NoFlow EXCEPT !.iter = flow[v].iter + 1,
                                   !.student = t.token, !.clean = TRUE,
                                   !.late = LateRequest(t.token)]]
    /\ at' = [at EXCEPT ![v] = "dashboard"]
    /\ UNCHANGED <<server, scenario, out, metrics>>

\* The batch of two reads, whose responses nobody looks at.
StudentDashboard(v) ==
    /\ at[v] = "dashboard"
    /\ at' = [at EXCEPT ![v] = "package"]
    /\ UNCHANGED <<server, scenario, flow, out, metrics>>

\* A package that cannot be read is replaced by the fallback hash and no ids.
QuizPackage(v) ==
    /\ at[v] = "package"
    /\ \E ok \in CallResults :
          /\ flow' = [flow EXCEPT ![v].pkg = packageInfo(ok),
                                  ![v].clean = @ /\ ok]
          /\ Count(IF ok THEN 0 ELSE 1, IF ok THEN 0 ELSE 1)
    /\ at' = [at EXCEPT ![v] = "start"]
    /\ UNCHANGED <<server, scenario, out>>

-----------------------------------------------------------------------------
(* The four calls on attempts.                                             *)

\* Post on a free connection r and wait.
Post(v, r, call) ==
    /\ at[v] = call
    /\ out[v] = None
    /\ flow[v].attempt # Blank
    /\ out' = [out EXCEPT ![v] = r]
    /\ UNCHANGED <<scenario, at, flow, metrics>>

PostStart(v, r) ==
    /\ Post(v, r, "start")
    /\ StartAttempt(r, flow[v].student, AssignmentID, QuizID, flow[v].pkg.hash)

PostAnswer(v, r) ==
    /\ Post(v, r, "save")
    /\ SaveAnswerForActor(r, flow[v].student, flow[v].attempt,
                          QuestionNow(v), AnswerNow(v))

\* Faulty variant: the sync names the hash of the environment.
PostSyncFallback(v, r) ==
    /\ Post(v, r, "sync")
    /\ SyncAttemptForActor(r, flow[v].student, flow[v].attempt,
                           PackageHashFallback, "in_progress")

PostSync(v, r) ==
    /\ Post(v, r, "sync")
    /\ SyncAttemptForActor(r, flow[v].student, flow[v].attempt,
                           flow[v].pkg.hash, "in_progress")

PostSubmit(v, r) ==
    /\ Post(v, r, "submit")
    /\ SubmitAttemptForActor(r, flow[v].student, flow[v].attempt,
                             flow[v].answers)

\* A status in 200..299.
Success(kind) == kind \in {"started", "saved", "synced", "result"}

\* Start failed: two errors, one failed sample, the iteration is over.
StartRefused(v) ==
    /\ at[v] = "start"
    /\ at' = [at EXCEPT ![v] = "ready"]
    /\ flow' = [flow EXCEPT ![v].clean = FALSE]
    /\ Count(2, 1)

Started(v, a) ==
    /\ at[v] = "start"
    /\ at' = [at EXCEPT ![v] = IF Ids(v) = <<>> THEN "sync" ELSE "save"]
    /\ flow' = [flow EXCEPT ![v].attempt = a]
    /\ UNCHANGED metrics

\* A failed check is counted, and the flow goes on whatever the response.
Checked(v, ok, next) ==
    /\ at' = [at EXCEPT ![v] = next]
    /\ Count(IF ok THEN 0 ELSE 1, IF ok THEN 0 ELSE 1)

\* answers[questionID] was set before the post; nobody reads it until here.
AnswerChecked(v, ok) ==
    /\ at[v] = "save"
    /\ Checked(v, ok, IF flow[v].i + 1 < Len(Ids(v)) THEN "save" ELSE "sync")
    /\ flow' = [flow EXCEPT ![v].answers[QuestionNow(v)] = AnswerNow(v),
                            ![v].i = @ + 1, ![v].clean = @ /\ ok]

SyncChecked(v, ok) ==
    /\ at[v] = "sync"
    /\ Checked(v, ok, "submit")
    /\ flow' = [flow EXCEPT ![v].clean = @ /\ ok]

\* Faulty variant: the response to the submit is not checked.
SubmitUnchecked(v, ok) ==
    /\ at[v] = "submit"
    /\ Checked(v, TRUE, "ready")
    /\ flow' = [flow EXCEPT ![v].complete = TRUE]

SubmitChecked(v, ok) ==
    /\ at[v] = "submit"
    /\ Checked(v, ok, "ready")
    /\ flow' = [flow EXCEPT ![v].clean = @ /\ ok, ![v].complete = TRUE]

\* What the VU makes of a response, or of none.
Handle(v, kind, a) ==
    \/ Success(kind) /\ Started(v, a)
    \/ ~ Success(kind) /\ StartRefused(v)
    \/ AnswerChecked(v, Success(kind))
    \/ SyncChecked(v, Success(kind))
    \/ SubmitChecked(v, Success(kind))

\* The connection is free for another request.
Release(r) ==
    /\ pc' = [pc EXCEPT ![r] = "idle"]
    /\ req' = [req EXCEPT ![r] = NoRequest]
    /\ resp' = [resp EXCEPT ![r] = Reply("none", None)]
    /\ UNCHANGED <<attempts, seen>>

Receive(v) ==
    /\ out[v] # None
    /\ pc[out[v]] = "done"
    /\ Handle(v, resp[out[v]].kind, resp[out[v]].attempt)
    /\ Release(out[v])
    /\ out' = [out EXCEPT ![v] = None]
    /\ UNCHANGED scenario

\* The call fails before its handler runs; a call that names the blank attempt
\* of LmsAttempt's FindActiveFails always does (GetAttempt finds nothing).
Refused(v) ==
    /\ Faults \/ flow[v].attempt = Blank
    /\ at[v] \in Calls
    /\ out[v] = None
    /\ Handle(v, "error", None)
    /\ UNCHANGED <<server, scenario, out>>

\* k6 gives up on a request, or its response is lost; the handler goes on.
GiveUp(v) ==
    /\ Timeouts
    /\ out[v] # None
    /\ Handle(v, "error", None)
    /\ out' = [out EXCEPT ![v] = None]
    /\ UNCHANGED <<server, scenario>>

\* The iteration is cut off after gracefulRampDown, or the run is stopped; a
\* later iteration stands for the next run with the same credentials.
Interrupt(v) ==
    /\ Timeouts
    /\ at[v] # "ready"
    /\ at' = [at EXCEPT ![v] = "ready"]
    /\ flow' = [flow EXCEPT ![v].clean = FALSE]
    /\ out' = [out EXCEPT ![v] = None]
    /\ UNCHANGED <<server, scenario, metrics>>

-----------------------------------------------------------------------------
(* The other scenarios.                                                    *)

NextIteration(v) == flow' = [flow EXCEPT ![v].iter = @ + 1]

authLogin(v) ==
    /\ Iterating(v, "auth_login")
    /\ \E ok \in CallResults : Count(login(v, ok).fails, login(v, ok).fails)
    /\ NextIteration(v)
    /\ UNCHANGED <<server, scenario, at, out>>

\* One read, or two when there is an assignment; each is counted.
teacherOverview(v) ==
    /\ Iterating(v, "teacher_overview")
    /\ \E ok, okProgress \in CallResults :
          LET fails == (IF ok THEN 0 ELSE 1)
                       + (IF okProgress \/ AssignmentID = None THEN 0 ELSE 1)
          IN  Count(fails, fails)
    /\ NextIteration(v)
    /\ UNCHANGED <<server, scenario, at, out>>

-----------------------------------------------------------------------------
(* The composition.                                                        *)

\* A response nobody waits for is dropped.
Forget(r) ==
    /\ pc[r] = "done"
    /\ \A v \in VUs : out[v] # r
    /\ Release(r)
    /\ UNCHANGED client

Serve(r) == Step(r) /\ UNCHANGED client
ServeFails(r) == Fail(r) /\ UNCHANGED client

PostCall(v) ==
    \E r \in Reqs :
        PostStart(v, r) \/ PostAnswer(v, r) \/ PostSync(v, r) \/ PostSubmit(v, r)

VUStep(v) ==
    \/ NoToken(v) \/ BeginExam(v) \/ StudentDashboard(v) \/ QuizPackage(v)
    \/ PostCall(v) \/ Receive(v) \/ Refused(v)
    \/ authLogin(v) \/ teacherOverview(v)

RunOver ==
    /\ \A v \in VUs : at[v] = "ready" /\ flow[v].iter = MaxIterations
    /\ \A r \in Reqs : pc[r] = "idle"
    /\ UNCHANGED flowVars

FlowNext ==
    \/ \E v \in VUs : VUStep(v) \/ GiveUp(v) \/ Interrupt(v)
    \/ \E r \in Reqs : Serve(r) \/ ServeFails(r) \/ Forget(r)
    \/ RunOver

FlowSpec == FlowInit /\ [][FlowNext]_flowVars

\* VUs and handlers are scheduled: k6 resumes a VU after a response or a sleep,
\* the HTTP server runs its goroutines.
FlowFairSpec ==
    /\ FlowSpec
    /\ \A v \in VUs : WF_flowVars(VUStep(v))
    /\ \A r \in Reqs : WF_flowVars(Serve(r) \/ Forget(r))

-----------------------------------------------------------------------------
(* Properties for VUs that each have a student of their own (one           *)
(* generator, no static token, at least as many credentials as VUs).       *)

\* With a faultless server no check of the script ever fails: "HTTP error rate
\* under 1%" (docs/load-testing-100k.md:100) is a statement about the server.
NoCheckFails == errors = 0 /\ failed = 0

\* The attempt of this VU is submitted, holds the answers the VU gave to the
\* questions it was asked, is graded, and its student has no other one open.
Delivered(v) ==
    LET f == flow[v]
    IN  /\ f.attempt \in AttemptIds /\ Exists(f.attempt)
        /\ attempts[f.attempt].student = f.student
        /\ attempts[f.attempt].status = "submitted"
        /\ \A k \in DOMAIN Ids(v) :
               /\ f.answers[Ids(v)[k]] # NoAnswer
               /\ attempts[f.attempt].answers[Ids(v)[k]] = f.answers[Ids(v)[k]]
        /\ attempts[f.attempt].score = Grade(NumAnswers(attempts[f.attempt].answers))
        /\ ActiveAttempts(f.student, AssignmentID, QuizID) = {}

\* The checks of the script are enough: an iteration whose checks all passed,
\* and that did not begin while an abandoned request of its student was still
\* being served, has delivered its answers, whatever failed, was lost or was
\* cut off in earlier iterations and whatever they left open.
PassedMeansDelivered ==
    \A v \in VUs :
        at[v] = "ready" /\ flow[v].complete /\ flow[v].clean /\ ~ flow[v].late
            => Delivered(v)

\* Two VUs never work on the same attempt, also on one left open earlier.
ExclusiveAttempts ==
    \A v, w \in VUs :
        flow[v].attempt \in AttemptIds /\ flow[v].attempt = flow[w].attempt => v = w

=============================================================================

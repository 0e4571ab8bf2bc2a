----------------------------- MODULE LmsAttempt -----------------------------
(***************************************************************************)
(* The exam-attempt runtime of the LMS module                              *)
(* (internal/modules/lms/application/service).  Students start an attempt  *)
(* at an assigned quiz, save answers one at a time or as a draft, sync      *)
(* offline state and submit; the server grades on submission.              *)
(*                                                                         *)
(* The service keeps no lock and no transaction: every handler is a short  *)
(* sequence of single-document MongoDB operations, and requests of the     *)
(* same student (two tabs, a retry after a lost response, an offline sync) *)
(* interleave between any two of them.  Here one element of Reqs is one    *)
(* HTTP request, served once; each action is one database round trip of    *)
(* its handler together with the code that runs up to the next round trip. *)
(***************************************************************************)
EXTENDS Naturals, FiniteSets

CONSTANTS
    Reqs,           \* HTTP requests; a client's retry is another request
    Students,       \* users that act (actor.UserID)
    Assignments,    \* assignment documents, created before the exam
    Quizzes,        \* quiz ids a client may name
    AttemptIds,     \* object ids for attempt documents
    Questions,      \* question ids (answerField keys)
    Answers,        \* answer payloads
    Hashes,         \* package hashes; "" is the hash a client omits
    SyncStatuses,   \* non-empty values clients send as attempt.status in a sync
    Recipients,     \* [Assignments -> SUBSET Students]: assignment.StudentIDs
    MaxScore,       \* the literal 100.0 of the scoring code
    DBFaults,       \* TRUE: a database call may fail, a handler may die
    None, Blank, NoAnswer

ASSUME ConstantsAssumption ==
    /\ Recipients \in [Assignments -> SUBSET Students]
    /\ MaxScore \in Nat \ {0}
    /\ DBFaults \in BOOLEAN
    /\ IsFiniteSet(Questions)
    /\ "" \notin SyncStatuses
    /\ SyncStatuses \subseteq STRING
    /\ Hashes \subseteq STRING
    /\ NoAnswer \notin Answers
    /\ None \notin AttemptIds /\ Blank \notin AttemptIds

VARIABLES
    attempts,   \* the attempts collection: id -> document or None
    pc,         \* where the handler of a request is
    req,        \* the request being served
    seen,       \* what the handler keeps of the attempt it read last
    resp        \* the response sent

vars == <<attempts, pc, req, seen, resp>>

-----------------------------------------------------------------------------
(* Documents, requests and responses.                                      *)

Statuses == {"in_progress", "submitted"} \cup SyncStatuses

AnswerMap == [Questions -> Answers \cup {NoAnswer}]
EmptyMap  == [q \in Questions |-> NoAnswer]
Answered(map) == {q \in Questions : map[q] # NoAnswer}
NumAnswers(map) == Cardinality(Answered(map))

\* max_score is always 100 and percent and passed are functions of score.
Attempt == [student: Students, assignment: Assignments, quiz: Quizzes,
            hash: Hashes, status: Statuses, answers: AnswerMap, score: Nat]

\* An attempt as its student sees it.
ExamRecord == [student: Students, assignment: Assignments, quiz: Quizzes,
               open: BOOLEAN, answers: AnswerMap]

ASSUME NoneAssumption == None \notin Attempt \cup ExamRecord

Ops == {"none", "start", "save", "draft", "submit", "sync"}

Request == [op: Ops, actor: Students \cup {None},
            assignment: Assignments \cup {None}, quiz: Quizzes \cup {None},
            attempt: AttemptIds \cup {None}, hash: Hashes \cup {""},
            answers: AnswerMap, status: SyncStatuses \cup {""}]

NoRequest == [op |-> "none", actor |-> None, assignment |-> None,
              quiz |-> None, attempt |-> None, hash |-> "",
              answers |-> EmptyMap, status |-> ""]

\* did: the conditional submit matched; count: len(attempt.Answers).
Seen == [status: Statuses \cup {""}, did: BOOLEAN, count: Nat]
Unseen == [status |-> "", did |-> FALSE, count |-> 0]

Kinds == {"none", "error", "not_found", "forbidden", "attempt_done",
          "hash_mismatch", "started", "saved", "result", "synced"}

\* audited: publishQuizSubmittedAudit ran before the response.
Response == [kind: Kinds, attempt: AttemptIds \cup {None, Blank},
             score: Nat, audited: BOOLEAN]

Reply(kind, a) == [kind |-> kind, attempt |-> a, score |-> 0, audited |-> FALSE]

PCs == {"idle", "find", "create", "findAgain", "access", "read", "write",
        "reread", "score", "rescored", "done"}

TypeOK ==
    /\ attempts \in [AttemptIds -> Attempt \cup {None}]
    /\ pc \in [Reqs -> PCs]
    /\ req \in [Reqs -> Request]
    /\ seen \in [Reqs -> Seen]
    /\ resp \in [Reqs -> Response]

Init ==
    /\ attempts = [a \in AttemptIds |-> None]
    /\ pc = [r \in Reqs |-> "idle"]
    /\ req = [r \in Reqs |-> NoRequest]
    /\ seen = [r \in Reqs |-> Unseen]
    /\ resp = [r \in Reqs |-> Reply("none", None)]

-----------------------------------------------------------------------------
(* The repository's queries and conditional writes.                        *)

Exists(a) == attempts[a] # None

\* FindActiveAttempt's filter, which is also the key of the unique partial
\* index idx_lms_attempt_active_student.
ActiveAttempts(student, assignment, quiz) ==
    {a \in AttemptIds : /\ Exists(a)
                        /\ attempts[a].student = student
                        /\ attempts[a].assignment = assignment
                        /\ attempts[a].quiz = quiz
                        /\ attempts[a].status = "in_progress"}

\* Faulty variant: the unique index was not provisioned.
IndexMissing(a, student, assignment, quiz) == TRUE

\* The unique index lets attempt a of this slot be in_progress.
IndexAllows(a, student, assignment, quiz) ==
    ActiveAttempts(student, assignment, quiz) \subseteq {a}

Unsubmitted(a) == attempts[a].status # "submitted"

\* Faulty variant: the update is not conditional.
MatchesAlways(a) == TRUE

\* The filter {"status": {"$ne": "submitted"}} of the conditional updates.
Matches(a) == Unsubmitted(a)

\* Faulty variant: the whole answer map is rewritten.
RewriteAnswers(old, new) == new

\* $set of answers.<questionID> for every question in the request.
SetAnswers(old, new) ==
    [q \in Questions |-> IF new[q] # NoAnswer THEN new[q] ELSE old[q]]

\* scoreSubmittedAttempt: one point per answer, at most MaxScore.
Grade(count) == IF count > MaxScore THEN MaxScore ELSE count

\* Faulty variant: no fallback for a grade that was never stored.
StoredResult(att) == att.score

\* The stored score, or a recomputed one when none was stored yet.
attemptSubmitResult(att) ==
    IF att.score > 0 \/ Answered(att.answers) = {}
    THEN att.score
    ELSE Grade(NumAnswers(att.answers))

-----------------------------------------------------------------------------
(* Control of one request.                                                 *)

Goto(r, label) == pc' = [pc EXCEPT ![r] = label]

\* Send the response; nothing local survives the handler.
Finish(r, response) ==
    /\ Goto(r, "done")
    /\ resp' = [resp EXCEPT ![r] = response]
    /\ seen' = [seen EXCEPT ![r] = Unseen]
    /\ UNCHANGED req

\* Go on to the next round trip, keeping what was read.
Continue(r, label, keep) ==
    /\ Goto(r, label)
    /\ seen' = [seen EXCEPT ![r] = keep]
    /\ UNCHANGED <<req, resp>>

Begin(r, request, label) ==
    /\ pc[r] = "idle"
    /\ Goto(r, label)
    /\ req' = [req EXCEPT ![r] = request]
    /\ UNCHANGED <<attempts, seen, resp>>

-----------------------------------------------------------------------------
(* StartAttempt: find the active attempt, else insert one; when the insert *)
(* fails look for the active attempt again.                                *)

\* GetAssignment and assignmentIncludesStudent; the quiz is the client's.
StartAttempt(r, actor, assignment, quiz, hash) ==
    Begin(r, [NoRequest EXCEPT !.op = "start", !.actor = actor,
                               !.assignment = assignment, !.quiz = quiz,
                               !.hash = hash],
          "find")

\* A student who is not a recipient is refused before the first query.
RefuseStart(r) ==
    /\ pc[r] = "find"
    /\ req[r].actor \notin Recipients[req[r].assignment]
    /\ Finish(r, Reply("forbidden", None))
    /\ UNCHANGED attempts

Active(r) == ActiveAttempts(req[r].actor, req[r].assignment, req[r].quiz)

FindActiveAttempt(r) ==
    /\ pc[r] = "find"
    /\ req[r].actor \in Recipients[req[r].assignment]
    /\ \/ \E a \in Active(r) : Finish(r, Reply("started", a))
       \/ /\ Active(r) = {}
          /\ Continue(r, "create", Unseen)
    /\ UNCHANGED attempts

NewAttempt(r) ==
    [student |-> req[r].actor, assignment |-> req[r].assignment,
     quiz |-> req[r].quiz, hash |-> req[r].hash, status |-> "in_progress",
     answers |-> EmptyMap, score |-> 0]

\* InsertOne under the unique index.
Insert(r, a) ==
    /\ ~ Exists(a)
    /\ IndexAllows(a, req[r].actor, req[r].assignment, req[r].quiz)
    /\ attempts' = [attempts EXCEPT ![a] = NewAttempt(r)]

\* Faulty variant: the attempt is returned although the insert failed.
CreateIgnoresConflict(r) ==
    /\ pc[r] = "create"
    /\ \/ \E a \in AttemptIds : Insert(r, a) /\ Finish(r, Reply("started", a))
       \/ /\ Active(r) # {}
          /\ \E a \in AttemptIds : ~ Exists(a) /\ Finish(r, Reply("started", a))
          /\ UNCHANGED attempts

CreateAttempt(r) ==
    /\ pc[r] = "create"
    /\ \/ \E a \in AttemptIds : Insert(r, a) /\ Finish(r, Reply("started", a))
       \/ /\ Active(r) # {}
          /\ Continue(r, "findAgain", Unseen)
          /\ UNCHANGED attempts

FindActiveAgain(r) ==
    /\ pc[r] = "findAgain"
    /\ \/ \E a \in Active(r) : Finish(r, Reply("started", a))
       \/ /\ Active(r) = {}
          /\ Finish(r, Reply("error", None))
    /\ UNCHANGED attempts

-----------------------------------------------------------------------------
(* SaveAnswerForActor, SaveAttemptDraft, SubmitAttemptForActor and         *)
(* SyncAttemptForActor: the calls that name an attempt.                    *)

Call(op, actor, a) ==
    [NoRequest EXCEPT !.op = op, !.actor = actor, !.attempt = a]

SaveAnswerForActor(r, actor, a, q, answer) ==
    Begin(r, [Call("save", actor, a) EXCEPT
                 !.answers = [EmptyMap EXCEPT ![q] = answer]], "access")

SaveAttemptDraft(r, actor, a, answers, hash) ==
    Begin(r, [Call("draft", actor, a) EXCEPT
                 !.answers = answers, !.hash = hash], "access")

SubmitAttemptForActor(r, actor, a, answers) ==
    Begin(r, [Call("submit", actor, a) EXCEPT !.answers = answers], "access")

SyncAttemptForActor(r, actor, a, hash, status) ==
    Begin(r, [Call("sync", actor, a) EXCEPT
                 !.hash = hash, !.status = status], "access")

Target(r) == attempts[req[r].attempt]

Result(r) == [Reply("result", req[r].attempt) EXCEPT
                 !.score = attemptSubmitResult(Target(r))]

HashMismatch(r) ==
    \/ req[r].op = "sync" /\ Target(r).hash # req[r].hash
    \/ req[r].op = "draft" /\ req[r].hash # "" /\ Target(r).hash # req[r].hash

\* The status and hash checks that follow a read; the handler then writes.
CheckRead(r, next) ==
    IF Target(r).status = "submitted" /\ req[r].op \in {"save", "draft"}
    THEN Finish(r, Reply("attempt_done", req[r].attempt))
    ELSE IF Target(r).status = "submitted" /\ req[r].op = "submit"
    THEN Finish(r, Result(r))
    ELSE IF HashMismatch(r)
    THEN Finish(r, Reply("hash_mismatch", req[r].attempt))
    ELSE Continue(r, next, IF req[r].op = "sync"
                           THEN [Unseen EXCEPT !.status = Target(r).status]
                           ELSE Unseen)

actorOwnsAttempt(r) == req[r].actor = Target(r).student

\* The first GetAttempt of every call, with ensureActorCanAccessAttempt.
\* A draft writes after this read; save and sync read again first whatever
\* the status, submit returns early on a submitted attempt.
AccessAttempt(r) ==
    /\ pc[r] = "access"
    /\ IF ~ Exists(req[r].attempt)
       THEN Finish(r, Reply("not_found", None))
       ELSE IF ~ actorOwnsAttempt(r)
       THEN Finish(r, Reply("forbidden", None))
       ELSE IF req[r].op \in {"save", "sync"}
       THEN Continue(r, "read", Unseen)
       ELSE CheckRead(r, IF req[r].op = "draft" THEN "write" ELSE "read")
    /\ UNCHANGED attempts

\* The second GetAttempt, in SaveAnswer, SubmitAttempt and SyncAttempt.
ReadAttempt(r) ==
    /\ pc[r] = "read"
    /\ CheckRead(r, "write")
    /\ UNCHANGED attempts

\* SaveAttemptAnswer and the repository's SaveAttemptDraft: $set the answers
\* unless the attempt is submitted; no match is not an error.
SaveAttemptAnswer(r) ==
    /\ pc[r] = "write"
    /\ req[r].op \in {"save", "draft"}
    /\ attempts' = IF Matches(req[r].attempt)
                   THEN [attempts EXCEPT ![req[r].attempt].answers =
                            SetAnswers(@, req[r].answers)]
                   ELSE attempts
    /\ Continue(r, "reread", Unseen)

\* The repository's SubmitAttempt: one conditional update sets the status and
\* the answers; did is MatchedCount > 0.
SubmitAttempt(r) ==
    /\ pc[r] = "write"
    /\ req[r].op = "submit"
    /\ LET did == Matches(req[r].attempt)
       IN  /\ attempts' =
                IF did
                THEN [attempts EXCEPT ![req[r].attempt].status = "submitted",
                                      ![req[r].attempt].answers =
                                          SetAnswers(@, req[r].answers)]
                ELSE attempts
           /\ Continue(r, "reread", [Unseen EXCEPT !.did = did])

\* Faulty variant: an absent status is written too.
WritesEmptyStatus(r) == seen[r].status # "submitted"

\* A sync carries a status to write when the client sent one and the attempt
\* READ before was not submitted.
WritesStatus(r) == req[r].status # "" /\ seen[r].status # "submitted"

\* SyncAttempt's UpdateAttempt, an unconditional $set.  Making a second
\* attempt of the slot in_progress hits the unique index.
SyncUpdate(r) ==
    /\ pc[r] = "write"
    /\ req[r].op = "sync"
    /\ IF ~ WritesStatus(r)
       THEN Continue(r, "reread", Unseen) /\ UNCHANGED attempts
       ELSE IF /\ req[r].status = "in_progress"
               /\ ~ IndexAllows(req[r].attempt, Target(r).student,
                                Target(r).assignment, Target(r).quiz)
       THEN Finish(r, Reply("error", None)) /\ UNCHANGED attempts
       ELSE /\ attempts' =
                 [attempts EXCEPT ![req[r].attempt].status = req[r].status]
            /\ Continue(r, "reread", Unseen)

\* Faulty variant: the status read after the write is not looked at.
RereadIgnoresStatus(r) ==
    /\ pc[r] = "reread"
    /\ req[r].op \in {"save", "draft", "sync"}
    /\ Finish(r, Reply(IF req[r].op = "sync" THEN "synced" ELSE "saved",
                       req[r].attempt))
    /\ UNCHANGED attempts

\* The GetAttempt that ends a save, a draft or a sync.
RereadAttempt(r) ==
    /\ pc[r] = "reread"
    /\ \/ /\ req[r].op \in {"save", "draft"}
          /\ Finish(r, Reply(IF Target(r).status = "submitted"
                             THEN "attempt_done" ELSE "saved",
                             req[r].attempt))
       \/ /\ req[r].op = "sync"
          /\ Finish(r, Reply("synced", req[r].attempt))
    /\ UNCHANGED attempts

\* Faulty variant: a submit that lost the race grades and audits too.
RereadRegrades(r) ==
    /\ pc[r] = "reread"
    /\ req[r].op = "submit"
    /\ Continue(r, "score", [Unseen EXCEPT
                               !.count = NumAnswers(Target(r).answers)])
    /\ UNCHANGED attempts

\* Faulty variant: a submitted attempt is taken to be graded already.
RereadNeverGrades(r) ==
    /\ pc[r] = "reread"
    /\ req[r].op = "submit"
    /\ Finish(r, Result(r))
    /\ UNCHANGED attempts

\* The GetAttempt inside the repository's SubmitAttempt.
RereadSubmitted(r) ==
    /\ pc[r] = "reread"
    /\ req[r].op = "submit"
    /\ IF ~ seen[r].did /\ Target(r).status = "submitted"
       THEN Finish(r, Result(r))
       ELSE Continue(r, "score", [Unseen EXCEPT
                                     !.count = NumAnswers(Target(r).answers)])
    /\ UNCHANGED attempts

\* Faulty variant: the score is not capped.
UpdateScoreUncapped(r) ==
    /\ pc[r] = "score"
    /\ attempts' = [attempts EXCEPT ![req[r].attempt].score = seen[r].count]
    /\ Continue(r, "rescored", Unseen)

\* scoreSubmittedAttempt's UpdateAttemptScore, unconditional.
UpdateAttemptScore(r) ==
    /\ pc[r] = "score"
    /\ attempts' = [attempts EXCEPT ![req[r].attempt].score =
                       Grade(seen[r].count)]
    /\ Continue(r, "rescored", Unseen)

\* UpdateAttempt's GetAttempt, publishQuizSubmittedAudit and the response.
FinishSubmit(r) ==
    /\ pc[r] = "rescored"
    /\ Finish(r, [Result(r) EXCEPT !.audited = TRUE])
    /\ UNCHANGED attempts

-----------------------------------------------------------------------------
(* Failures.  A handler whose database call fails returns the error; one   *)
(* whose process dies sends nothing.  Both leave what was already written. *)

Abort(r) ==
    /\ DBFaults
    /\ pc[r] \notin {"idle", "done"}
    /\ Finish(r, Reply("error", None))
    /\ UNCHANGED attempts

\* FindActiveAttempt returns &a with the error, StartAttempt drops the error
\* and finds the pointer not nil: the client is sent a blank attempt.
FindActiveFails(r) ==
    /\ DBFaults
    /\ \/ pc[r] = "find" /\ req[r].actor \in Recipients[req[r].assignment]
       \/ pc[r] = "findAgain"
    /\ Finish(r, Reply("started", Blank))
    /\ UNCHANGED attempts

\* CreateAttempt reports an error, the document inserted or not.
CreateFails(r) ==
    /\ DBFaults
    /\ pc[r] = "create"
    /\ Continue(r, "findAgain", Unseen)
    /\ \/ UNCHANGED attempts
       \/ \E a \in AttemptIds : Insert(r, a)

-----------------------------------------------------------------------------
Arrive(r) ==
    \E actor \in Students :
        \/ \E s \in Assignments, z \in Quizzes, h \in Hashes :
               StartAttempt(r, actor, s, z, h)
        \/ \E a \in AttemptIds :
               \/ \E q \in Questions, v \in Answers :
                      SaveAnswerForActor(r, actor, a, q, v)
               \/ \E m \in AnswerMap :
                      \/ \E h \in Hashes \cup {""} :
                             SaveAttemptDraft(r, actor, a, m, h)
                      \/ SubmitAttemptForActor(r, actor, a, m)
               \/ \E h \in Hashes, s \in SyncStatuses \cup {""} :
                      SyncAttemptForActor(r, actor, a, h, s)

Step(r) ==
    \/ RefuseStart(r) \/ FindActiveAttempt(r)
    \/ CreateAttempt(r) \/ FindActiveAgain(r)
    \/ AccessAttempt(r) \/ ReadAttempt(r)
    \/ SaveAttemptAnswer(r) \/ SubmitAttempt(r) \/ SyncUpdate(r)
    \/ RereadAttempt(r) \/ RereadSubmitted(r)
    \/ UpdateAttemptScore(r) \/ FinishSubmit(r)

Fail(r) == Abort(r) \/ FindActiveFails(r) \/ CreateFails(r)

\* All requests have been served: nothing is left to do.
Quiescent == (\A r \in Reqs : pc[r] = "done") /\ UNCHANGED vars

Next == (\E r \in Reqs : Arrive(r) \/ Step(r) \/ Fail(r)) \/ Quiescent

Spec == Init /\ [][Next]_vars

-----------------------------------------------------------------------------
(* Strengthenings that make the properties below inductive.                *)

Located == {"read", "write", "reread", "score", "rescored"}

\* What a handler relies on at each point: the request is one of its kind, and
\* an attempt it has located stays in the collection.
HandlerOK(r) ==
    /\ pc[r] \in {"find", "create", "findAgain"} =>
          /\ req[r].actor \in Students
          /\ req[r].assignment \in Assignments
          /\ req[r].quiz \in Quizzes
          /\ req[r].hash \in Hashes
    /\ pc[r] \in {"access"} \cup Located => req[r].attempt \in AttemptIds
    /\ pc[r] \in Located => Exists(req[r].attempt)
    /\ pc[r] \in {"score", "rescored"} => req[r].op = "submit"

HandlersOK == \A r \in Reqs : HandlerOK(r)

\* A grade being computed counts only answers that are stored.
CountsStored ==
    \A r \in Reqs : pc[r] = "score" =>
        seen[r].count <= NumAnswers(Target(r).answers)

\* When no sync carries a status: a stored score is either absent or final, a
\* handler past its submit write works on a submitted attempt and counts all of
\* its answers, and a result sent is the grade of the frozen answers.
ScoreFinal ==
    \A a \in AttemptIds : Exists(a) =>
        \/ attempts[a].score = 0
        \/ /\ ~ Unsubmitted(a)
           /\ attempts[a].score = Grade(NumAnswers(attempts[a].answers))

PastSubmit(r) == pc[r] \in {"reread", "score", "rescored"} /\ req[r].op = "submit"

GraderOK(r) ==
    /\ PastSubmit(r) => ~ Unsubmitted(req[r].attempt)
    /\ pc[r] = "score" => seen[r].count = NumAnswers(Target(r).answers)

ResultOK(r) ==
    resp[r].kind = "result" =>
        /\ resp[r].attempt \in AttemptIds
        /\ Exists(resp[r].attempt)
        /\ ~ Unsubmitted(resp[r].attempt)
        /\ resp[r].score = Grade(NumAnswers(attempts[resp[r].attempt].answers))

GradesOK == ScoreFinal /\ \A r \in Reqs : GraderOK(r) /\ ResultOK(r)

\* At most one request per attempt is the one whose submit write matched.
Grading(r) ==
    \/ pc[r] = "reread" /\ req[r].op = "submit" /\ seen[r].did
    \/ pc[r] \in {"score", "rescored"}
    \/ resp[r].audited

OneGrader ==
    /\ \A r, s \in Reqs :
          Grading(r) /\ Grading(s) /\ req[r].attempt = req[s].attempt => r = s
    /\ \A r \in Reqs : Grading(r) =>
          /\ req[r].attempt \in AttemptIds
          /\ Exists(req[r].attempt)
          /\ ~ Unsubmitted(req[r].attempt)
    /\ \A r \in Reqs : resp[r].audited => resp[r].attempt = req[r].attempt
                                          /\ pc[r] = "done"

-----------------------------------------------------------------------------
(* Properties that hold whatever clients send and whatever fails.          *)

\* A student has at most one attempt in progress per assignment and quiz,
\* although StartAttempt checks and inserts in two steps and SyncAttempt can
\* set a status back to in_progress.
OneActivePerSlot ==
    \A a, b \in AttemptIds :
        /\ Exists(a) /\ attempts[a].status = "in_progress"
        /\ Exists(b) /\ attempts[b].status = "in_progress"
        /\ attempts[a].student = attempts[b].student
        /\ attempts[a].assignment = attempts[b].assignment
        /\ attempts[a].quiz = attempts[b].quiz
        => a = b

\* UpdateAttemptScore writes a score computed from an earlier read: it never
\* exceeds what the stored answers are worth, nor MaxScore.
ScoreWithinAnswers ==
    \A a \in AttemptIds :
        Exists(a) => attempts[a].score <= Grade(NumAnswers(attempts[a].answers))

\* No step deletes an attempt, moves it to another student, assignment or
\* quiz, or drops an answer from it: SaveAttemptAnswer sets one field and
\* never rewrites the answer map.
AnswersNeverDropped ==
    [][\A a \in AttemptIds : Exists(a) =>
          /\ Exists(a)'
          /\ attempts'[a].student = attempts[a].student
          /\ attempts'[a].assignment = attempts[a].assignment
          /\ attempts'[a].quiz = attempts[a].quiz
          /\ Answered(attempts[a].answers) \subseteq Answered(attempts'[a].answers)]_vars

\* A start response names a stored attempt of the caller for the assignment
\* and quiz asked for, also when the insert lost a race or reported an error
\* after storing; the one exception is the blank attempt of a failed query.
StartedIsOwn ==
    \A r \in Reqs : resp[r].kind = "started" /\ resp[r].attempt # Blank =>
        /\ resp[r].attempt \in AttemptIds
        /\ Exists(resp[r].attempt)
        /\ attempts[resp[r].attempt].student = req[r].actor
        /\ attempts[resp[r].attempt].assignment = req[r].assignment
        /\ attempts[resp[r].attempt].quiz = req[r].quiz

\* While an attempt is and stays submitted its answers do not change: a late
\* save, draft or second submit that read it open finds no match.
SubmittedAnswersFrozen ==
    [][\A a \in AttemptIds :
          Exists(a) /\ ~ Unsubmitted(a) /\ ~ Unsubmitted(a)' =>
              attempts'[a].answers = attempts[a].answers]_vars

-----------------------------------------------------------------------------
(* Properties that hold when no sync carries a status (SyncStatuses = {}). *)

\* "Attempt submit is retry-safe: repeated submits return the existing
\* submitted result" (docs/ERG-51-capacity-report.md:26): all submit responses
\* for one attempt carry the same score, whichever request graded it and
\* whether or not the grade was stored, and it is the grade of the answers.
SubmitRetrySafe ==
    \A r \in Reqs : resp[r].kind = "result" =>
        /\ ~ Unsubmitted(resp[r].attempt)
        /\ resp[r].score = Grade(NumAnswers(attempts[resp[r].attempt].answers))

\* An answer a client was told is saved is in the attempt; another value is
\* there only if another request sent one for the same question.
SavedAnswersStored ==
    \A r \in Reqs : resp[r].kind = "saved" =>
        \A q \in Answered(req[r].answers) :
            LET stored == attempts[req[r].attempt].answers[q]
            IN  /\ stored # NoAnswer
                /\ \/ stored = req[r].answers[q]
                   \/ \E s \in Reqs \ {r} : /\ req[s].attempt = req[r].attempt
                                           /\ req[s].answers[q] = stored

\* The quiz-submitted audit event is published at most once per attempt.
AuditedOnce ==
    \A r, s \in Reqs :
        resp[r].audited /\ resp[s].audited /\ resp[r].attempt = resp[s].attempt
            => r = s

\* A submitted attempt that is without its grade, as the score list and the
\* progress reports then show it, has a submit that is about to store it, or
\* one that failed: the request whose write matched grades, a retry does not.
UngradedOnlyByFailure ==
    \A a \in AttemptIds :
        /\ Exists(a) /\ ~ Unsubmitted(a)
        /\ attempts[a].score # Grade(NumAnswers(attempts[a].answers))
        => \E r \in Reqs : /\ req[r].op = "submit" /\ req[r].attempt = a
                           /\ \/ pc[r] = "reread" /\ seen[r].did
                              \/ pc[r] = "score"
                              \/ resp[r].kind = "error"

-----------------------------------------------------------------------------
(* What the code does not keep when a sync carries a status.               *)

\* "repeated submits return the existing submitted result"
\* (docs/ERG-51-capacity-report.md:26): two submits of one attempt that are
\* answered with a result are answered with the same one.
SubmitResultsAgree ==
    \A r, s \in Reqs :
        /\ resp[r].kind = "result" /\ resp[s].kind = "result"
        /\ resp[r].attempt = resp[s].attempt
        => resp[r].score = resp[s].score

-----------------------------------------------------------------------------
(* With requests that come as the load scenario sends them (ExamFlow) and  *)
(* handlers that go on and do not fail.                                    *)

\* A submitted attempt gets its grade stored: the score list and the progress
\* reports read the stored score, not the one the submit response recomputes.
\* A sync of another client could undo it, or set "submitted" on an attempt
\* that nobody grades; the scenario's own syncs end before its submit begins.
EventuallyGraded ==
    \A a \in AttemptIds :
        (Exists(a) /\ attempts[a].status = "submitted") ~>
            (Exists(a) /\ attempts[a].score = Grade(NumAnswers(attempts[a].answers)))

-----------------------------------------------------------------------------
(* The promise to the client, and what the runtime makes of it.            *)

\* An attempt is open until it is submitted; a response with a score is the
\* promise of a grade.
ExamOf(a) ==
    IF ~ Exists(a) THEN None
    ELSE [student |-> attempts[a].student,
          assignment |-> attempts[a].assignment,
          quiz |-> attempts[a].quiz,
          open |-> Unsubmitted(a),
          answers |-> attempts[a].answers]

ToldOf(r) ==
    CASE resp[r].kind = "result" ->
           <<"score", resp[r].attempt, resp[r].score>>
      [] resp[r].kind = "saved" ->
           <<"saved", resp[r].attempt, Answered(req[r].answers)>>
      [] OTHER -> <<>>

Exams == [a \in AttemptIds |-> ExamOf(a)]
Tells == [r \in Reqs |-> ToldOf(r)]

Exam == INSTANCE ExamAttempt WITH exams <- Exams, told <- Tells

\* With no status in a sync, interleaved and failing requests look to students
\* like an exam whose operations are atomic: saved answers are in, a score is
\* only told for a closed exam and is the one grade of its frozen answers.
ImplementsExam == Exam!Spec

=============================================================================

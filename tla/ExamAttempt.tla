----------------------------- MODULE ExamAttempt ----------------------------
(***************************************************************************)
(* What the LMS runtime promises a student about an exam attempt, with no  *)
(* databases, handlers or retries: an exam is opened once per slot, takes   *)
(* answers while it is open, and closes for good; a client is told that its *)
(* answers are saved only when they are in the exam, and is told the one    *)
(* grade of the closed exam however often it asks.                          *)
(***************************************************************************)
EXTENDS Naturals, FiniteSets

CONSTANTS Reqs, Students, Assignments, Quizzes, AttemptIds, Questions, Answers,
          MaxScore, None, NoAnswer

VARIABLES
    exams,  \* id -> exam or None
    told    \* request -> what its client was told: nothing, saved or a score

vars == <<exams, told>>

AnswerMap == [Questions -> Answers \cup {NoAnswer}]
Answered(map) == {q \in Questions : map[q] # NoAnswer}
Grade(map) == IF Cardinality(Answered(map)) > MaxScore
              THEN MaxScore ELSE Cardinality(Answered(map))
Merge(old, new) ==
    [q \in Questions |-> IF new[q] # NoAnswer THEN new[q] ELSE old[q]]

Init ==
    /\ exams = [a \in AttemptIds |-> None]
    /\ told = [r \in Reqs |-> <<>>]

\* One open exam per student, assignment and quiz.
Open(a) ==
    /\ exams[a] = None
    /\ \E s \in Students, t \in Assignments, z \in Quizzes :
          /\ \A b \in AttemptIds :
                ~ (/\ exams[b] # None /\ exams[b].open
                   /\ exams[b].student = s /\ exams[b].assignment = t
                   /\ exams[b].quiz = z)
          /\ exams' = [exams EXCEPT ![a] =
                [student |-> s, assignment |-> t, quiz |-> z, open |-> TRUE,
                 answers |-> [q \in Questions |-> NoAnswer]]]
    /\ UNCHANGED told

Answer(a) ==
    /\ exams[a] # None /\ exams[a].open
    /\ \E m \in AnswerMap :
          exams' = [exams EXCEPT ![a].answers = Merge(@, m)]
    /\ UNCHANGED told

Close(a) ==
    /\ exams[a] # None /\ exams[a].open
    /\ \E m \in AnswerMap :
          exams' = [exams EXCEPT ![a].open = FALSE,
                                 ![a].answers = Merge(@, m)]
    /\ UNCHANGED told

TellSaved(r, a) ==
    /\ told[r] = <<>>
    /\ exams[a] # None /\ exams[a].open
    /\ \E Q \in SUBSET Answered(exams[a].answers) :
          told' = [told EXCEPT ![r] = <<"saved", a, Q>>]
    /\ UNCHANGED exams

TellScore(r, a) ==
    /\ told[r] = <<>>
    /\ exams[a] # None /\ ~ exams[a].open
    /\ told' = [told EXCEPT ![r] = <<"score", a, Grade(exams[a].answers)>>]
    /\ UNCHANGED exams

Next ==
    \E a \in AttemptIds :
        \/ Open(a) \/ Answer(a) \/ Close(a)
        \/ \E r \in Reqs : TellSaved(r, a) \/ TellScore(r, a)

Spec == Init /\ [][Next]_vars

=============================================================================

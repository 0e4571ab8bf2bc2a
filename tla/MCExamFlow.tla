----------------------------- MODULE MCExamFlow -----------------------------
(* Model-checking instances of ExamFlow. *)
EXTENDS ExamFlow, TLC

CONSTANTS s1, s2, q1, q2, e1, z1

MCRecipients == [s \in Assignments |-> Students]

\* answer-<vu>-<iteration>-<i>
MCAnswers == (1 .. VUsPerGenerator) \X (1 .. MaxIterations)
             \X (0 .. QuestionsPerAttempt)

MCFile == <<"# email,password", s1, s2>>
MCNone == <<>>
MCTwo == <<q1, q2>>

MCSymmetry == Permutations(Reqs) \cup Permutations(AttemptIds)

=============================================================================

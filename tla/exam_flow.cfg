SPECIFICATION FlowFairSpec
CONSTANTS
  s1 = s1
  s2 = s2
  q1 = q1
  q2 = q2
  e1 = e1
  z1 = z1
  Students = {s1, s2}
  Assignments = {e1}
  Quizzes = {z1}
  Answers <- MCAnswers
  Hashes = {"h", "fallback"}
  SyncStatuses = {"in_progress"}
  Recipients <- MCRecipients
  MaxScore = 2
  DBFaults = FALSE
  None = None
  Blank = Blank
  NoAnswer = NoAnswer
  Generators = {g1}
  VUsPerGenerator = 2
  MaxIterations = 2
  StaticStudentToken = None
  CredentialsFile <- MCFile
  OnlyAuthLogin = FALSE
  LoginEachIteration = TRUE
  TeacherToken = TRUE
  TeacherOverviewVUs = 1
  AssignmentID = e1
  QuizID = z1
  PackageHash = "h"
  PackageHashFallback = "fallback"
  EnvQuestions <- MCNone
  PackageQuestions <- MCTwo
  LoadQuestions <- MCTwo
  QuestionsPerAttempt = 2
  Faults = FALSE
  Timeouts = FALSE
  Reqs = {r1, r2}
  AttemptIds = {a1, a2, a3, a4}
  Questions = {q1, q2}
INVARIANTS NoCheckFails ExclusiveAttempts
PROPERTIES EventuallyGraded

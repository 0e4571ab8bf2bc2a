SPECIFICATION Spec
CONSTANTS
  Reqs = {r1, r2, r3, r4}
  Students = {s1}
  Enrolled = {s1}
  Assignments = {e1}
  Quizzes = {z1}
  AttemptIds = {a1}
  Questions = {q1}
  Answers = {v1, v2}
  Hashes = {"h"}
  SyncStatuses = {}
  Recipients <- MCRecipients
  MaxScore = 1
  DBFaults = TRUE
  None = None
  Blank = Blank
  NoAnswer = NoAnswer
SYMMETRY MCSymmetry
INVARIANTS SubmitRetrySafe SavedAnswersStored AuditedOnce UngradedOnlyByFailure
PROPERTY ImplementsExam

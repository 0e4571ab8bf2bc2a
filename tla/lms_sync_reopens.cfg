SPECIFICATION Spec
CONSTANTS
  Reqs = {r1, r2, r3, r4}
  Students = {s1}
  Enrolled = {s1}
  Assignments = {e1}
  Quizzes = {z1}
  AttemptIds = {a1, a2}
  Questions = {q1}
  Answers = {v1}
  Hashes = {"h"}
  SyncStatuses = {"in_progress"}
  Recipients <- MCRecipients
  MaxScore = 1
  DBFaults = FALSE
  None = None
  Blank = Blank
  NoAnswer = NoAnswer
SYMMETRY MCSymmetry
INVARIANT SubmitResultsAgree

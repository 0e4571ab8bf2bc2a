SPECIFICATION Spec
CONSTANTS
  Reqs = {r1, r2, r3}
  Students = {s1, s2}
  Enrolled = {s1}
  Assignments = {e1}
  Quizzes = {z1}
  AttemptIds = {a1, a2}
  Questions = {q1, q2}
  Answers = {v1}
  Hashes = {"h"}
  SyncStatuses = {"in_progress", "submitted", "paused"}
  Recipients <- MCRecipients
  MaxScore = 1
  DBFaults = TRUE
  None = None
  Blank = Blank
  NoAnswer = NoAnswer
SYMMETRY MCSymmetry
INVARIANTS TypeOK OneActivePerSlot ScoreWithinAnswers StartedIsOwn
PROPERTIES AnswersNeverDropped SubmittedAnswersFrozen

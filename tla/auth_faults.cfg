SPECIFICATION Spec
CONSTANTS
  Reqs = {r1, r2, r3, r4}
  SessionIds = {s1}
  TTL = 2
  MaxClock = 2
  SameSecond = FALSE
  OtherDevice = TRUE
  DBFaults = TRUE
  RedisFaults = TRUE
  None = None
SYMMETRY MCSymmetry
INVARIANTS TypeOK TokenSpentOnce
PROPERTIES RevokedIsFinal

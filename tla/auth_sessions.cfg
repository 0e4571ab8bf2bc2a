SPECIFICATION FairSpec
CONSTANTS
  Reqs = {r1, r2, r3}
  SessionIds = {s1, s2}
  TTL = 2
  MaxClock = 2
  SameSecond = FALSE
  OtherDevice = FALSE
  DBFaults = FALSE
  RedisFaults = FALSE
  None = None
INVARIANTS NewerReplaces StoredTokenHeld StoredTokenUsable
PROPERTIES SessionsConverge

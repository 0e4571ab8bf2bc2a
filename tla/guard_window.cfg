SPECIFICATION FairSpec
CONSTANTS
  Reqs = {r1, r2}
  Emails = {e1}
  IPs = {i1}
  GeoBlockEnabled = FALSE
  MaxFailedLogin = 1
  MaxAttempts = 3
  RedisFaults = TRUE
  DBFaults = TRUE
  None = None
INVARIANT CounterBound
PROPERTY GuardReopens

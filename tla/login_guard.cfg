SPECIFICATION Spec
CONSTANTS
  Reqs = {r1, r2}
  Emails = {e1}
  IPs = {i1}
  GeoBlockEnabled = TRUE
  MaxFailedLogin = 2
  MaxAttempts = 3
  RedisFaults = TRUE
  DBFaults = TRUE
  None = None
SYMMETRY MCSymmetry
INVARIANTS TypeOK LockedOutUnverified

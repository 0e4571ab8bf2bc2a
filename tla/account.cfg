SPECIFICATION Spec
CONSTANTS
  Reqs = {r1, r2, r3}
  PinIds = {n1, n2}
  Passwords = {w1, w2}
  AdminStatuses = {"BLOCKED"}
  DBFaults = TRUE
  None = None
SYMMETRY MCSymmetry
INVARIANTS TypeOK AcceptedPinSpent ActivatedByProof RegisteredOnce PasswordAuthorized

SPECIFICATION Spec
CONSTANTS
  Reqs = {r1, r2, r3}
  PinIds = {n1, n2}
  Passwords = {w1}
  AdminStatuses = {}
  DBFaults = FALSE
  None = None
SYMMETRY MCSymmetry
PROPERTIES MailedPinWorks

SPECIFICATION Spec
CONSTANTS
  Requests = {r1}
  Truncated = {}
  Unreadable = {}
  Junk = {}
  None = None
  Workers = {w1}
  Faults = {"drop"}
INVARIANTS NoPredictionOnFailure
CHECK_DEADLOCK FALSE

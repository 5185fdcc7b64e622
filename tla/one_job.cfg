SPECIFICATION Spec
CONSTANTS
  Requests = {r1}
  Truncated = {}
  Unreadable = {}
  Junk = {j1}
  None = None
  Workers = {w1, w2}
  Faults = {"backendCrash", "crash", "link", "drop", "nack", "db", "s3", "engine", "wipe", "reset", "down"}
SYMMETRY Symmetry
INVARIANTS TypeOK CompletedHasPrediction UnackedIsHeldOnce
PROPERTIES RetriedAtMostOnce
CHECK_DEADLOCK FALSE

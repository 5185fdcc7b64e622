SPECIFICATION Spec
CONSTANTS
  Requests = {r1, r2, r3}
  Truncated = {r2}
  Unreadable = {r3}
  Junk = {}
  None = None
  Workers = {w1, w2}
  Faults = {"backendCrash", "crash", "link", "s3", "engine"}
SYMMETRY Symmetry
INVARIANTS JobBeforeMessage AcceptedIsQueued ConfirmsAreDue OneWorkerPerJob SettledIsTerminal UnfinishedIsOwned
PROPERTIES KeepsContract
CHECK_DEADLOCK FALSE
